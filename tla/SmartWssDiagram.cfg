CONSTANT Socket = {s1, s2}
SPECIFICATION Spec
PROPERTY LifecycleSpec
CHECK_DEADLOCK FALSE
