CONSTANT Socket = {s1, s2, s3}
SPECIFICATION LiveSpec
INVARIANT OneAttempt
PROPERTY ComesBack
CHECK_DEADLOCK FALSE
