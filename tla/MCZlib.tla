------------------------------- MODULE MCZlib -------------------------------
(* An instance of Zlib, and with it of Queue, for TLC: eight calls, and a buffer that
   starts with the smallest size, so that it grows three times (1, 2, 4, 8 slots), from
   every position that calls and completions can bring it to. *)
EXTENDS Zlib
=============================================================================
