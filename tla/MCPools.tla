------------------------------ MODULE MCPools ------------------------------
(* Gemini and Bibox for TLC, the one that is used chosen at the start, and the other    *)
(* one never started.                                                                   *)
(*                                                                                      *)
(* Gemini: one market, so that there are two subscriptions, with two modes and with     *)
(* one, and a socket for each or for one and one that was let go.  Bibox: two feeds and *)
(* one to a client, so that a client may be full, and given one too many; and a         *)
(* subCount that reconnections carry past the limit.                                    *)
CONSTANTS Market, Socket, NoSocket, Feed, Client, PerClient, MaxCount, NoClient

VARIABLES used, sock, id, sub, resume, letGo, threw, crashed,
          queue, armed, owner, list, subs, conn, count, remote, unchecked

G == INSTANCE Gemini
B == INSTANCE Bibox

ASSUME PoolsAssumption == G!GeminiAssumption /\ B!BiboxAssumption

gVars == <<sock, id, sub, resume, letGo, threw, crashed>>
bVars == <<queue, armed, owner, list, subs, conn, count, remote, unchecked>>
vars == <<used, gVars, bVars>>

Init == used \in {"gemini", "bibox"} /\ G!Init /\ B!Init

NextGemini == used = "gemini" /\ G!Next /\ UNCHANGED <<used, bVars>>
NextBibox == used = "bibox" /\ B!Next /\ UNCHANGED <<used, gVars>>
Next == NextGemini \/ NextBibox

\* What is never started has nothing that its fairness asks for.
Spec == Init /\ [][Next]_vars /\ G!Fairness /\ B!Fairness

----------------------------------------------------------------------------
\* A socket of Gemini is that of a subscription (gemini-client.js:63-211).
NoOrphan == G!NoOrphan

\* A subscription of Gemini comes to be connected (gemini-client.js:186-211).
Recovers == G!Recovers

\* A client of Bibox carries what the server allows (bibox-client.js:100-198).
WithinLimit == B!WithinLimit

\* A feed of Bibox that is given to a client is carried in the end (bibox-client.js:50-163).
Served == B!Served
=============================================================================
