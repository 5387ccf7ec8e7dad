----------------------------- MODULE MCSmartWss -----------------------------
(* Instances of SmartWss for TLC. *)
EXTENDS SmartWss
=============================================================================
