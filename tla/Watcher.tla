------------------------------ MODULE Watcher ------------------------------
(***************************************************************************)
(* src/watcher.js: asks its client to reconnect when no message has been   *)
(* received for a while.                                                   *)
(*                                                                         *)
(* Time is counted in ticks.  setInterval runs _onCheck every Interval     *)
(* ticks; a busy event loop may run it late, by at most Lag ticks, and the *)
(* next run is due one Interval after the run before it.                   *)
(***************************************************************************)
EXTENDS Naturals

CONSTANTS
    Interval,    \* intervalMs
    Lag,         \* how late the event loop may run a timer
    Horizon,     \* bound: the clock stops here
    None         \* undefined

ASSUME IntervalAssumption == Interval \in Nat \ {0}
ASSUME LagAssumption == Lag \in Nat
ASSUME HorizonAssumption == Horizon \in Nat
ASSUME NoneAssumption == None \notin Nat

VARIABLES
    now,         \* Date.now()
    due,         \* when _onCheck runs next; None when _intervalHandle is undefined
    last,        \* _lastMessage
    since,       \* history: when the connection was last seen alive, by its
                 \* being made or by a message
    asked        \* history: _reconnect has run since the last start()

vars == <<now, due, last, since, asked>>

WatcherInit ==
    /\ now = 1
    /\ due = None
    /\ last = None
    /\ since = 1
    /\ asked = FALSE

\* Mutant: the first check does not wait.
StartAtOnce ==
    /\ due' = now
    /\ since' = now
    /\ asked' = FALSE
    /\ UNCHANGED <<now, last>>

\* start(), when the client has connected: the prior interval is cleared.
Start ==
    /\ due' = now + Interval
    /\ since' = now
    /\ asked' = FALSE
    /\ UNCHANGED <<now, last>>

\* stop(), when the client is closing or disconnected.
Stop ==
    /\ due' = None
    /\ UNCHANGED <<now, last, since, asked>>

\* markAlive()
MarkAlive ==
    /\ last' = now
    /\ since' = now
    /\ UNCHANGED <<now, due, asked>>

\* Mutant: without the test of !_lastMessage; undefined compares as false.
TooOldOnlySeen == last # None /\ (last # None => last + Interval < now)

\* Mutant: a message that is exactly one interval old counts as too old.
TooOldAtOnce == last # None => last + Interval <= now

\* The condition of _onCheck.
TooOld == last # None => last + Interval < now

\* _onCheck, when there was a message in time.
CheckAlive ==
    /\ due # None /\ due <= now
    /\ ~TooOld
    /\ due' = now + Interval
    /\ UNCHANGED <<now, last, since, asked>>

\* _onCheck and _reconnect, when there was none: client.reconnect(), then stop().
CheckReconnect ==
    /\ due # None /\ due <= now
    /\ TooOld
    /\ due' = None
    /\ asked' = TRUE
    /\ UNCHANGED <<now, last, since>>

\* The clock moves, unless a timer that is Lag late has to run first.
Tick ==
    /\ now < Horizon
    /\ due # None => now < due + Lag
    /\ now' = now + 1
    /\ UNCHANGED <<due, last, since, asked>>

WatcherNext == Start \/ Stop \/ MarkAlive \/ CheckAlive \/ CheckReconnect \/ Tick

WatcherSpec == WatcherInit /\ [][WatcherNext]_vars

----------------------------------------------------------------------------
TypeOK ==
    /\ now \in Nat
    /\ due \in Nat \cup {None}
    /\ last \in Nat \cup {None}
    /\ since \in Nat
    /\ asked \in BOOLEAN

\* Half-open connections are detected in bounded time (README.md:10, watcher.js:52-57):
\* while the timer is armed, the time since the last message, or since the
\* connection was made when there was none, is at most two intervals and one
\* lateness of the timer.  The message that arrives just after a check is why
\* one interval is not enough.
SilenceBounded == due # None => now <= since + 2 * Interval + Lag

\* "The duration of time that must pass without a message for a reconnection"
\* (README.md:133): the client is asked to reconnect only when no message came
\* for more than watcherMs, and never in the first watcherMs of a connection.
NeverTooEarly == [][CheckReconnect => since + Interval <= now]_vars

\* Watcher implements Watch (watcher.js:28-65), with which BasicClient is composed:
\* it is started and stopped at any time, and asks for a reconnection only while it
\* is armed and no message came for an interval, whatever the client, the clock and
\* the messages do.
W == INSTANCE Watch WITH
        watching <- due # None,
        fresh    <- last # None /\ now <= last + Interval
WatchSpec == W!Spec
=============================================================================
