---------------------------- MODULE BasicClient ----------------------------
(***************************************************************************)
(* src/basic-client.js: one client of one exchange.  It keeps the feeds    *)
(* the user has subscribed to, owns one SmartWss at a time, and a Watcher. *)
(*                                                                         *)
(* SmartWss instances that the client no longer refers to go on running    *)
(* until they are closed, and their handlers are still bound to the        *)
(* client; the interesting behaviour is the interleaving of those          *)
(* leftovers with the current connection, the user's calls, the watcher    *)
(* and the network.                                                        *)
(***************************************************************************)
EXTENDS FiniteSets

CONSTANTS
    Socket,      \* bound: the SmartWss instances that can be pending together
    Channel,     \* feed and market pairs, one per entry of the six maps
    NoSocket     \* undefined

ASSUME NoSocketAssumption == NoSocket \notin Socket

VARIABLES
    sock,        \* the state of each SmartWss
    wss,         \* this._wss
    subs,        \* the six subscription maps
    resume,      \* sockets with the once("closed") listener of reconnect()
    watching,    \* this._watcher: its interval timer is armed
    fresh,       \* this._watcher: its last message is recent
    asked,       \* history: this._watcher has asked for a reconnection and not started since
    remote,      \* remote[s] is what the server has been asked for on s
    dead,        \* open sockets whose peer has silently gone
    wanted,      \* history: the user's last call asked for a connection
    crashed      \* an event handler threw: the process is down

S == INSTANCE SmartWss
W == INSTANCE Watch

vars == <<sock, wss, subs, resume, watching, fresh, asked, remote, dead, wanted, crashed>>

Init ==
    /\ S!Init
    /\ W!Init
    /\ wss = NoSocket
    /\ subs = {}
    /\ resume = {}
    /\ remote = [s \in Socket |-> {}]
    /\ dead = {}
    /\ wanted = FALSE
    /\ crashed = FALSE

----------------------------------------------------------------------------
Idle(t) == S!Idle(sock[t])

\* Bound: the client drops its socket only when there is another to take next.
HasRoom == \E t \in Socket : Idle(t)

\* _wssFactory and connect(): an instance whose first attempt has begun.
New == S!Attempted(S!Constructed)

\* _connect, when there is no _wss.
ConnectTo(t) ==
    /\ Idle(t)
    /\ sock' = [sock EXCEPT ![t] = New]
    /\ wss' = t

\* Mutant: the reference to the socket is kept.
CloseKeepsSocket(s) ==
    /\ sock' = [sock EXCEPT ![s] = S!Closing(@)]
    /\ remote' = [remote EXCEPT ![s] = {}]
    /\ dead' = dead \ {s}
    /\ UNCHANGED wss

\* _wss.close(), then the client forgets the socket; what the server still sends to it
\* is not delivered.  "closing", which it emits, stops the watcher: W!Stop below, or
\* W!Reconnect when it is the watcher that has asked.
CloseSocket(s) ==
    /\ sock' = [sock EXCEPT ![s] = S!Closing(@)]
    /\ remote' = [remote EXCEPT ![s] = {}]
    /\ dead' = dead \ {s}
    /\ wss' = NoSocket

\* A message written to s gets to the server.  SmartWss.send drops it when s is
\* not connected, and the network drops it when the peer has gone.
Delivers(s) == sock[s].connected /\ sock[s].inner = "open" /\ s \notin dead

----------------------------------------------------------------------------
(* The calls of the user. *)

\* _subscribe: connect if need be, enter the channel, and send the request if the
\* socket is connected; otherwise _onConnected is going to send it.
Subscribe(c) ==
    /\ wanted' = TRUE
    /\ subs' = subs \cup {c}
    /\ \/ /\ wss = NoSocket
          /\ \E t \in Socket : ConnectTo(t)
          /\ UNCHANGED remote
       \/ /\ wss # NoSocket
          /\ remote' = IF c \notin subs /\ Delivers(wss)
                       THEN [remote EXCEPT ![wss] = @ \cup {c}]
                       ELSE remote
          /\ UNCHANGED <<sock, wss>>
    /\ UNCHANGED <<resume, watching, fresh, asked, dead, crashed>>

\* Mutant: the request to unsubscribe does not get to the server.
UnsubscribeUnsent(c) ==
    /\ c \in subs
    /\ subs' = subs \ {c}
    /\ UNCHANGED <<sock, wss, remote, resume, watching, fresh, asked, dead, wanted, crashed>>

\* _unsubscribe: the entry goes first.  Without a _wss the call then throws a
\* TypeError to the user.
Unsubscribe(c) ==
    /\ c \in subs
    /\ subs' = subs \ {c}
    /\ remote' = IF wss # NoSocket /\ Delivers(wss)
                 THEN [remote EXCEPT ![wss] = @ \ {c}]
                 ELSE remote
    /\ UNCHANGED <<sock, wss, resume, watching, fresh, asked, dead, wanted, crashed>>

\* close()
Close ==
    /\ wanted' = FALSE
    /\ \/ /\ wss # NoSocket /\ HasRoom
          /\ CloseSocket(wss)
       \/ /\ wss = NoSocket
          /\ UNCHANGED <<sock, wss, remote, dead>>
    /\ W!Stop
    /\ UNCHANGED <<subs, resume, crashed>>

\* Mutant: reconnect() does not wait for "closed", and nobody else does.
CloseAndForget ==
    /\ wss # NoSocket /\ HasRoom
    /\ CloseSocket(wss)
    /\ UNCHANGED <<subs, resume, crashed>>

\* reconnect() with a _wss: connect again once it has emitted "closed".
CloseThenConnect ==
    /\ wss # NoSocket /\ HasRoom
    /\ resume' = resume \cup {wss}
    /\ CloseSocket(wss)
    /\ UNCHANGED <<subs, crashed>>

\* reconnect(), called by the user.
Reconnect ==
    /\ wanted' = TRUE
    /\ \/ /\ CloseThenConnect
          /\ W!Stop
       \/ /\ wss = NoSocket
          /\ \E t \in Socket : ConnectTo(t)
          /\ UNCHANGED <<subs, resume, watching, fresh, asked, remote, dead, crashed>>

----------------------------------------------------------------------------
(* The watcher. *)

\* _onCheck finds the client silent: reconnect(), then stop().
WatcherCheck ==
    /\ W!Reconnect
    /\ \/ CloseThenConnect
       \/ /\ wss = NoSocket
          /\ \E t \in Socket : ConnectTo(t)
          /\ UNCHANGED <<subs, resume, remote, dead, crashed>>
    /\ UNCHANGED wanted

\* Time passes without a message.
GoStale ==
    /\ W!GoStale
    /\ UNCHANGED <<sock, wss, subs, resume, remote, dead, wanted, crashed>>

----------------------------------------------------------------------------
(* The events of a socket, the client's own or a leftover. *)

\* "connected": _onConnected asks for every channel on the client's socket,
\* whichever socket has emitted the event, then starts the watcher.  Without a
\* _wss the first request throws in the event handler.
SocketOpens(s) ==
    /\ S!Open(s)
    /\ dead' = dead \ {s}
    /\ \/ /\ wss = NoSocket /\ subs # {}
          /\ crashed' = TRUE
          /\ UNCHANGED <<remote, watching, fresh, asked>>
       \/ /\ wss # NoSocket \/ subs = {}
          /\ W!Start
          /\ remote' = IF wss = s \/ (wss # NoSocket /\ Delivers(wss))
                       THEN [remote EXCEPT ![wss] = @ \cup subs]
                       ELSE remote
          /\ UNCHANGED crashed
    /\ UNCHANGED <<wss, subs, resume, wanted>>

\* "disconnected": _onDisconnected stops the watcher.
SocketLost(s) ==
    /\ S!Lose(s)
    /\ W!Stop
    /\ remote' = [remote EXCEPT ![s] = {}]
    /\ dead' = dead \ {s}
    /\ UNCHANGED <<wss, subs, resume, wanted, crashed>>

\* The reconnection timer of s fires.
SocketRetries(s) ==
    /\ S!RetryFires(s)
    /\ UNCHANGED <<wss, subs, resume, watching, fresh, asked, remote, dead, wanted, crashed>>

\* "closed": the listener of reconnect() calls _connect, which does nothing when
\* the client has a socket already.
SocketClosed(s) ==
    /\ sock[s].inner = "closing"
    /\ \/ /\ s \in resume /\ wss = NoSocket
          /\ \E t \in Socket :
                /\ Idle(t)
                /\ sock' = [sock EXCEPT ![s] = S!Closed(@), ![t] = New]
                /\ wss' = t
       \/ /\ s \notin resume \/ wss # NoSocket
          /\ sock' = [sock EXCEPT ![s] = S!Closed(@)]
          /\ UNCHANGED wss
    /\ resume' = resume \ {s}
    /\ UNCHANGED <<subs, watching, fresh, asked, remote, dead, wanted, crashed>>

\* A message of a subscribed channel arrives on s and is emitted.
Message(s) ==
    /\ sock[s].inner = "open" /\ s \notin dead
    /\ remote[s] \cap subs # {}
    /\ W!MarkAlive
    /\ UNCHANGED <<sock, wss, subs, resume, remote, dead, wanted, crashed>>

\* The peer of s goes away and no packet says so.
PeerVanishes(s) ==
    /\ sock[s].inner = "open" /\ s \notin dead
    /\ dead' = dead \cup {s}
    /\ UNCHANGED <<sock, wss, subs, resume, watching, fresh, asked, remote, wanted, crashed>>

SocketEvent(s) ==
    \/ SocketOpens(s)
    \/ SocketLost(s)
    \/ SocketRetries(s)
    \/ SocketClosed(s)
    \/ Message(s)
    \/ PeerVanishes(s)

Next ==
    /\ ~crashed
    /\ \/ \E c \in Channel : Subscribe(c) \/ Unsubscribe(c)
       \/ Close
       \/ Reconnect
       \/ WatcherCheck
       \/ GoStale
       \/ \E s \in Socket : SocketEvent(s)

Spec == Init /\ [][Next]_vars

----------------------------------------------------------------------------
(* A user who leaves the client alone while it waits for a reconnection timer,
   and who does not close it while a reconnection is still to come. *)

InBackoff == wss # NoSocket /\ sock[wss].retry

CarefulNext ==
    /\ ~crashed
    /\ \/ \E c \in Channel : Subscribe(c) \/ Unsubscribe(c)
       \/ ~InBackoff /\ resume = {} /\ Close
       \/ ~InBackoff /\ Reconnect
       \/ WatcherCheck
       \/ GoStale
       \/ \E s \in Socket : SocketEvent(s)

CarefulSpec == Init /\ [][CarefulNext]_vars

\* Timers fire, a close handshake ends, and a server that is tried again and
\* again answers in the end.  Nothing is assumed of the user, nor of messages.
Fairness ==
    /\ \A s \in Socket :
        /\ WF_vars(SocketRetries(s))
        /\ WF_vars(SocketClosed(s))
        /\ SF_vars(SocketOpens(s))
    /\ WF_vars(WatcherCheck)
    /\ WF_vars(GoStale)

LiveSpec == CarefulSpec /\ Fairness

----------------------------------------------------------------------------
TypeOK ==
    /\ sock \in [Socket -> S!SocketState]
    /\ wss \in Socket \cup {NoSocket}
    /\ subs \subseteq Channel
    /\ resume \subseteq Socket
    /\ watching \in BOOLEAN
    /\ fresh \in BOOLEAN
    /\ asked \in BOOLEAN
    /\ remote \in [Socket -> SUBSET Channel]
    /\ dead \subseteq Socket
    /\ wanted \in BOOLEAN
    /\ crashed \in BOOLEAN

\* The server and the client agree (basic-client.js:137-172, 223-244): whenever
\* the client's socket is connected and its peer is there, the server has been
\* asked for exactly the subscribed channels, through any sequence of calls,
\* losses and reconnections.
RemoteAgrees == wss # NoSocket /\ Delivers(wss) => remote[wss] = subs

\* "Single websocket connection client" (basic-client.js:6): a socket that is
\* connecting, connected or waiting for its timer is the client's own.
NoOrphan == \A s \in Socket :
    sock[s].inner \in {"connecting", "open"} \/ sock[s].retry => wss = s

\* The watcher runs exactly while the client is connected (basic-client.js:43, 243,
\* 250, 258): otherwise a silent connection is never noticed, or a client that was
\* closed is reconnected.
WatchedIffConnected == watching <=> wss # NoSocket /\ sock[wss].inner = "open"

\* No event handler runs without the socket it uses (basic-client.js:223-244).
NoCrash == ~crashed

\* A client that its user has closed does not open a connection by itself
\* (basic-client.js:39-58; README.md:259).
CloseIsFinal == ~wanted => wss = NoSocket

\* A client that its user wants connected has a socket, or the listener that is
\* going to create one sits on a socket that is really closing
\* (basic-client.js:50-58; README.md:263).
NotStranded ==
    wanted => wss # NoSocket \/ \E s \in resume : sock[s].inner = "closing"

\* The events of each connection follow the README's diagram (README.md:190-238).
Life == INSTANCE Lifecycle WITH event <- [s \in Socket |-> sock[s].event]
LifecycleSpec == Life!Spec

\* "Silent reconnection logic to assist when no data has been seen by the client
\* but the socket remains open" (README.md:10): a connection whose peer has gone
\* is given up.
HalfOpenDetected == \A s \in Socket : (wss = s /\ s \in dead) ~> s \notin dead

\* "Performs automatic reconnection" (README.md:10): a client that is wanted gets
\* connected, with the server asked for its channels, unless the user closes it.
Connected == wss # NoSocket /\ Delivers(wss) /\ remote[wss] = subs
Recovers == wanted ~> Connected \/ ~wanted
=============================================================================
