------------------------------ MODULE SmartWss ------------------------------
(***************************************************************************)
(* src/smart-wss.js: a web socket that reconnects by itself.               *)
(*                                                                         *)
(* A SmartWss wraps one socket of the `ws` library.  When that socket goes *)
(* away without `close` having been called, a timer of _retryTimeoutMs is  *)
(* armed, and when it fires the next attempt is made.  The state of an     *)
(* instance is a record; the handlers are operators from the record before *)
(* to the record after, so that a client can combine the handlers of two   *)
(* instances that run in one turn of the event loop.                       *)
(***************************************************************************)
CONSTANT Socket          \* the instances

VARIABLE sock            \* sock[s] is the state of instance s

\*   inner      _wss: "null", or the readyState of the ws socket it refers to
\*   connected  _connected, what isConnected answers
\*   retry      _retryConnect is waiting for its timer
\*   event      the last event emitted
\* An instance that says it is connected has a ws socket, which send() writes to.
SocketState ==
    { w \in [ inner     : {"null", "connecting", "open", "closing", "closed"},
              connected : BOOLEAN,
              retry     : BOOLEAN,
              event     : {"start", "connecting", "connected", "disconnected", "closing",
                           "closed"} ] :
        w.connected => w.inner # "null" }

\* The constructor; "null" stands for its undefined as well.
Constructed == [inner |-> "null", connected |-> FALSE, retry |-> FALSE, event |-> "start"]

\* _attemptConnect, called by connect() and by _retryConnect when its wait ends.
Attempted(w) == [w EXCEPT !.inner = "connecting", !.retry = FALSE, !.event = "connecting"]

\* The "open" listener.
Opened(w) == [w EXCEPT !.inner = "open", !.connected = TRUE, !.event = "connected"]

\* Mutant: no call of _retryConnect.
LostForGood(w) == [w EXCEPT !.inner = "null", !.connected = FALSE, !.event = "disconnected"]

\* Mutant: isConnected goes on answering true.
LostUnnoticed(w) == [w EXCEPT !.inner = "null", !.retry = TRUE, !.event = "disconnected"]

\* _closeCallback, the "close" listener as long as close() has not replaced it;
\* it ends in _retryConnect, which arms the timer.
Lost(w) == [w EXCEPT !.inner = "null", !.connected = FALSE, !.retry = TRUE,
                     !.event = "disconnected"]

\* Mutant: an attempt in progress is not closed.
ClosingIfOpen(w) == [w EXCEPT !.inner = IF @ = "open" THEN "closing" ELSE @,
                              !.event = "closing"]

\* close().  Neither _connected nor a waiting _retryConnect is touched, and a
\* ws socket to close exists only when _wss is not null.
Closing(w) == [w EXCEPT !.inner = IF @ = "null" THEN "null" ELSE "closing",
                        !.event = "closing"]

\* Mutant: _closeCallback is still installed.
ClosedAsLost(w) == Lost(w)

\* The "close" listener that close() installs.
Closed(w) == [w EXCEPT !.inner = "closed", !.event = "closed"]

\* Nothing is pending in the instance: it is new, or closed for good.
Idle(w) == w.inner \in {"null", "closed"} /\ ~w.retry

----------------------------------------------------------------------------
Init == sock = [s \in Socket |-> Constructed]

\* connect(), which the owner calls once, on a new instance.
Connect(s) ==
    /\ sock[s].event = "start"
    /\ sock' = [sock EXCEPT ![s] = Attempted(@)]

\* The handshake succeeds.
Open(s) ==
    /\ sock[s].inner = "connecting"
    /\ sock' = [sock EXCEPT ![s] = Opened(@)]

\* The handshake fails or times out, or the connection breaks.
Lose(s) ==
    /\ sock[s].inner \in {"connecting", "open"}
    /\ sock' = [sock EXCEPT ![s] = Lost(@)]

\* The wait of _retryConnect ends.
RetryFires(s) ==
    /\ sock[s].retry
    /\ sock' = [sock EXCEPT ![s] = Attempted(@)]

\* close(), called by an owner that then forgets the instance.
Close(s) ==
    /\ sock[s].event \in {"connecting", "connected", "disconnected"}
    /\ sock' = [sock EXCEPT ![s] = Closing(@)]

\* The ws socket that is being closed reaches CLOSED.
FinishClose(s) ==
    /\ sock[s].inner = "closing"
    /\ sock' = [sock EXCEPT ![s] = Closed(@)]

Network(s) == Open(s) \/ Lose(s) \/ RetryFires(s) \/ FinishClose(s)

Next == \E s \in Socket : Connect(s) \/ Close(s) \/ Network(s)

Spec == Init /\ [][Next]_sock

\* Timers fire, a close handshake ends (ws gives up after 30 s), and a server
\* that is tried again and again answers in the end.
Fairness == \A s \in Socket :
    /\ WF_sock(RetryFires(s))
    /\ WF_sock(FinishClose(s))
    /\ SF_sock(Open(s))

LiveSpec == Spec /\ Fairness

----------------------------------------------------------------------------
\* _closeCallback and _retryConnect hand over to each other (smart-wss.js:85-107):
\* an instance that was started and has no ws socket always has exactly one
\* reconnection timer, and one that has a ws socket never has a timer, so
\* attempts neither stop nor multiply, whatever the owner does.
OneAttempt == \A s \in Socket :
    sock[s].event # "start" => (sock[s].inner = "null" <=> sock[s].retry)

\* "Performs automatic reconnection when there are disconnections" (README.md:10):
\* a lost connection comes back unless the owner closes it.
ComesBack == \A s \in Socket :
    sock[s].event = "disconnected" ~> sock[s].event \in {"connected", "closing", "closed"}

\* The events of an instance follow the diagram of the README (README.md:190-238).
Life == INSTANCE Lifecycle WITH event <- [s \in Socket |-> sock[s].event]
LifecycleSpec == Life!Spec
=============================================================================
