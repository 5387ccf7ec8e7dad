--------------------------- MODULE MCBasicClient ---------------------------
(* Instances of BasicClient for TLC: a socket for the connection, one for the socket it
   replaces, and one more that a stray handler may create. *)
EXTENDS BasicClient
=============================================================================
