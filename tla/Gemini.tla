------------------------------- MODULE Gemini -------------------------------
(***************************************************************************)
(* src/exchanges/gemini-client.js: a client that has one SmartWss for each *)
(* subscription, with a reconnection watcher each.  The trades and the     *)
(* level 2 updates of a market are one subscription, its ticker another.   *)
(*                                                                         *)
(* A subscription leaves the map only with a socket, and so never while a  *)
(* listener of a reconnection refers to it: its remote id stands for the   *)
(* object.  Sockets that were let go stay bound to their remote id.        *)
(***************************************************************************)
CONSTANTS
    Market,
    Socket,      \* bound: the SmartWss instances that can be pending together
    NoSocket     \* undefined

GeminiAssumption == NoSocket \notin Socket

VARIABLES
    sock,        \* the state of each SmartWss
    id,          \* the remote id its handlers are bound to
    sub,         \* _subscriptions
    resume,      \* sockets with the once("closed") listener of _reconnect
    letGo,       \* history: sockets that were closed while they waited to retry
    threw,       \* history: a call of the user ended in an exception
    crashed      \* a timer found no socket: the process is down

vars == <<sock, id, sub, resume, letGo, threw, crashed>>

S == INSTANCE SmartWss

Id == Market \X {"", "-tickers"}
Modes(i) == IF i[2] = "-tickers" THEN {"tickers"} ELSE {"trades", "level2updates"}

\* fresh: lastMessage is set, and within the interval of the watcher.
NoSubscription ==
    [known |-> FALSE, modes |-> {}, wss |-> NoSocket, watching |-> FALSE, fresh |-> FALSE]
AnyId == CHOOSE i \in Id : TRUE

Init ==
    /\ S!Init
    /\ id \in [Socket -> {AnyId}]
    /\ sub = [i \in Id |-> NoSubscription]
    /\ resume = {} /\ letGo = {}
    /\ threw = FALSE /\ crashed = FALSE

Known == {i \in Id : sub[i].known}
WithSocket == {i \in Known : sub[i].wss # NoSocket}
Sockets(ids) == {sub[i].wss : i \in ids}

----------------------------------------------------------------------------
\* _close, for subscriptions that have a socket: the watcher is stopped, also by the
\* "closing" handler, and the socket is forgotten.
Close(ids) ==
    /\ sock' = [s \in Socket |-> IF s \in Sockets(ids) THEN S!Closing(sock[s]) ELSE sock[s]]
    /\ letGo' = letGo \cup {s \in Sockets(ids) : sock[s].retry}

Forgotten(ids) ==
    [i \in Id |-> IF i \in ids THEN [sub[i] EXCEPT !.wss = NoSocket, !.watching = FALSE] ELSE sub[i]]

\* _close without a socket closes every subscription, this one among them, and so never
\* ends: a RangeError once those that come before it in the map are closed.
CloseForEver ==
    /\ \E before \in SUBSET WithSocket : Close(before) /\ sub' = Forgotten(before)
    /\ threw' = TRUE

\* _subscribe and _connect
Subscribe(i, mode) ==
    /\ mode \notin sub[i].modes
    /\ \/ /\ i \in Known
          /\ sub' = [sub EXCEPT ![i].modes = @ \cup {mode}]
          /\ UNCHANGED <<sock, id>>
       \/ /\ i \notin Known
          /\ \E s \in Socket :
                /\ S!Idle(sock[s])
                /\ sock' = [sock EXCEPT ![s] = S!Attempted(S!Constructed)]
                /\ id' = [id EXCEPT ![s] = i]
                /\ sub' = [sub EXCEPT ![i] = [known |-> TRUE, modes |-> {mode}, wss |-> s,
                                              watching |-> TRUE, fresh |-> FALSE]]
    /\ UNCHANGED <<resume, letGo, threw, crashed>>

\* Mutant: the entry is deleted, and its socket goes on.
UnsubscribeUnclosed(i, mode) ==
    /\ i \in Known
    /\ LET left == sub[i].modes \ {mode}
       IN  sub' = [sub EXCEPT ![i] = IF left \cap {"trades", "level2updates"} # {}
                                     THEN [@ EXCEPT !.modes = left] ELSE NoSubscription]
    /\ UNCHANGED <<sock, id, resume, letGo, threw, crashed>>

\* _unsubscribe: the last mode closes the socket and then deletes the entry.
Unsubscribe(i, mode) ==
    /\ i \in Known
    /\ LET left == sub[i].modes \ {mode}
       IN  \/ /\ left \cap {"trades", "level2updates"} # {}
              /\ sub' = [sub EXCEPT ![i].modes = left]
              /\ UNCHANGED <<sock, letGo, threw>>
           \/ /\ left \cap {"trades", "level2updates"} = {}
              /\ i \in WithSocket
              /\ Close({i})
              /\ sub' = [sub EXCEPT ![i] = NoSubscription]
              /\ UNCHANGED threw
           \/ /\ left \cap {"trades", "level2updates"} = {}
              /\ i \notin WithSocket
              /\ \E before \in SUBSET WithSocket :
                    /\ Close(before)
                    /\ sub' = [Forgotten(before) EXCEPT ![i].modes = left]
              /\ threw' = TRUE
    /\ UNCHANGED <<id, resume, crashed>>

\* close()
CloseAll ==
    /\ \/ /\ Known = WithSocket
          /\ Close(Known)
          /\ sub' = [i \in Id |-> NoSubscription]
          /\ UNCHANGED threw
       \/ Known # WithSocket /\ CloseForEver
    /\ UNCHANGED <<id, resume, crashed>>

\* Mutant: nobody waits for "closed".
ReconnectUnheard(ids) == Close(ids) /\ sub' = Forgotten(ids) /\ UNCHANGED resume

\* _reconnect, for subscriptions that have a socket.
Reconnect(ids) == Close(ids) /\ sub' = Forgotten(ids) /\ resume' = resume \cup Sockets(ids)

\* reconnect(): a subscription without a socket throws, once those before it have been
\* closed.
ReconnectAll ==
    /\ \/ Known = WithSocket /\ Reconnect(Known) /\ UNCHANGED threw
       \/ /\ Known # WithSocket
          /\ \E before \in SUBSET WithSocket : Reconnect(before)
          /\ threw' = TRUE
    /\ UNCHANGED <<id, crashed>>

----------------------------------------------------------------------------
\* _onReconnectCheck: no message has come, or the last one is too old.
Check(i) ==
    /\ sub[i].watching /\ ~sub[i].fresh
    /\ \/ i \in WithSocket /\ Reconnect({i}) /\ UNCHANGED crashed
       \/ i \notin WithSocket /\ crashed' = TRUE /\ UNCHANGED <<sock, sub, resume, letGo>>
    /\ UNCHANGED <<id, threw>>

\* An interval passes without a message.
GrowsOld(i) ==
    /\ sub[i].fresh
    /\ sub' = [sub EXCEPT ![i].fresh = FALSE]
    /\ UNCHANGED <<sock, id, resume, letGo, threw, crashed>>

\* The handlers of s change the subscription of its remote id, whichever socket that has.
Watching(s, on) == [sub EXCEPT ![id[s]].watching = on /\ sub[id[s]].known]

\* "connected"
Connected(s) ==
    /\ sock[s].inner = "connecting"
    /\ sock' = [sock EXCEPT ![s] = S!Opened(@)]
    /\ sub' = Watching(s, TRUE)
    /\ UNCHANGED <<id, resume, letGo, threw, crashed>>

\* "disconnected"
Disconnected(s) ==
    /\ sock[s].inner \in {"connecting", "open"}
    /\ sock' = [sock EXCEPT ![s] = S!Lost(@)]
    /\ sub' = Watching(s, FALSE)
    /\ UNCHANGED <<id, resume, letGo, threw, crashed>>

Retries(s) ==
    /\ sock[s].retry
    /\ sock' = [sock EXCEPT ![s] = S!Attempted(@)]
    /\ UNCHANGED <<id, sub, resume, letGo, threw, crashed>>

\* "closed", and the listener of a reconnection.  The name of an instance that is done
\* is free for the next one.
Closed(s) ==
    /\ sock[s].inner = "closing"
    /\ \/ /\ s \in resume
          /\ sock' = [sock EXCEPT ![s] = S!Attempted(S!Constructed)]
          /\ sub' = [sub EXCEPT ![id[s]].wss = s]
          /\ UNCHANGED id
       \/ /\ s \notin resume
          /\ sock' = [sock EXCEPT ![s] = S!Constructed]
          /\ id' = [id EXCEPT ![s] = AnyId]
          /\ UNCHANGED sub
    /\ resume' = resume \ {s}
    /\ UNCHANGED <<letGo, threw, crashed>>

\* _onMessage
Message(s) ==
    /\ sock[s].inner = "open" /\ id[s] \in Known
    /\ sub' = [sub EXCEPT ![id[s]].fresh = TRUE]
    /\ UNCHANGED <<sock, id, resume, letGo, threw, crashed>>

----------------------------------------------------------------------------
Next ==
    /\ ~crashed
    /\ \/ \E i \in Id : \/ \E mode \in Modes(i) : Subscribe(i, mode) \/ Unsubscribe(i, mode)
                        \/ Check(i) \/ GrowsOld(i)
       \/ CloseAll \/ ReconnectAll
       \/ \E s \in Socket : \/ Connected(s) \/ Disconnected(s) \/ Retries(s)
                            \/ Closed(s) \/ Message(s)

\* As in SmartWss: timers fire, a closing handshake ends, a server answers in the end.
Fairness == \A s \in Socket :
    WF_vars(~crashed /\ Retries(s)) /\ WF_vars(~crashed /\ Closed(s)) /\ SF_vars(~crashed /\ Connected(s))

Spec == Init /\ [][Next]_vars /\ Fairness

----------------------------------------------------------------------------
\* _subscribe, _unsubscribe, _close and _reconnect (gemini-client.js:63-211): a socket that
\* connects, or is going to, is that of a subscription in the map, unless it was closed
\* while it waited to retry.  Only such a socket can let the watcher of a subscription
\* without a socket run, which takes the process down.
NoOrphan ==
    /\ \A s \in Socket :
          sock[s].inner \in {"connecting", "open"} \/ sock[s].retry
             => (id[s] \in Known /\ sub[id[s]].wss = s) \/ s \in letGo
    /\ crashed => letGo # {}

\* Nothing is going to give the subscription a socket.
Stranded(i) ==
    i \in Known \ WithSocket /\ ~ \E s \in resume : id[s] = i /\ sock[s].inner = "closing"

\* What is subscribed comes to be connected, through losses and reconnections, unless a
\* call of the user has thrown or closed a socket that waited to retry
\* (gemini-client.js:186-211).
Recovers == \A i \in Id : \A mode \in Modes(i) :
    mode \in sub[i].modes
       ~> \/ mode \notin sub[i].modes \/ crashed
          \/ Stranded(i) /\ (threw \/ letGo # {})
          \/ i \in WithSocket /\ sock[sub[i].wss].inner = "open"
=============================================================================
