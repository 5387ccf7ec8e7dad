------------------------------ MODULE Exchange ------------------------------
(***************************************************************************)
(* What the class of one exchange adds to BasicClient, as a record: which  *)
(* streams of the server each kind of feed asks for and gives up, how and  *)
(* when it says so, and which event a message of a stream becomes.  The    *)
(* modules Exchanges... hold one record per class; Feeds runs them.        *)
(*                                                                         *)
(* asks, drops   kind -> the streams a subscription asks for, an           *)
(*               unsubscription gives up                                   *)
(* spares        <<kind, stream, other>>: kept while other is subscribed   *)
(* shared        streams that are not per market                           *)
(* ambient       streams the server sends without being asked              *)
(* routes        <<stream, kind, event>>: a message of the stream is       *)
(*               emitted as the event if the kind's map has its market     *)
(* sub, unsub    kind -> <<form, via>>, the form of the message and        *)
(*               whether it goes out now, through a throttle, through a    *)
(*               batch and a throttle, or after a debounce                 *)
(* floor         a shared stream is given up with so many feeds left       *)
(* forgets       when the flag of a shared stream is reset                 *)
(* oneTimer      subscribing and unsubscribing debounce with one key       *)
(* guarded       debounced calls look whether there is a socket            *)
(* pings         an interval timer writes to the socket without looking    *)
(* rest, retries kinds whose snapshot comes over REST; a failed request    *)
(*               is made again                                             *)
(* cancels       closing drops the snapshot requests that wait             *)
(* login         feeds are asked for after an authentication               *)
(* fetches       a placeholder stands for the socket during an HTTP call   *)
(* gives         the client closes itself when its socket disconnects      *)
(* greets        something is written on every connection, and             *)
(* answers       to a heartbeat, without a look for a socket               *)
(* early         close() empties the throttles before it looks for one     *)
(* single        a client has one market: see BasicMultiClient             *)
(***************************************************************************)

\* The forms: one message for the feed, a message for the first feed only, one per
\* market and counted, the list of all feeds, nothing.
All(kinds, form, via) == [k \in kinds |-> <<form, via>>]

\* BasicClient with one message for each call, sent at once.
Plain(asks, routes) ==
    [asks |-> asks, drops |-> asks, spares |-> {}, shared |-> {}, ambient |-> {},
     routes |-> routes,
     sub |-> All(DOMAIN asks, "each", "now"), unsub |-> All(DOMAIN asks, "each", "now"),
     floor |-> 0, forgets |-> "never", oneTimer |-> FALSE, guarded |-> TRUE,
     pings |-> FALSE, rest |-> {}, retries |-> TRUE, cancels |-> FALSE,
     login |-> FALSE, fetches |-> FALSE, gives |-> FALSE, greets |-> FALSE, answers |-> FALSE,
     early |-> FALSE, single |-> FALSE]

\* The same, each message through the throttled _sendMessage.
Throttled(asks, routes) ==
    [Plain(asks, routes) EXCEPT !.sub = All(DOMAIN asks, "each", "queued"),
                                !.unsub = All(DOMAIN asks, "each", "queued"),
                                !.early = TRUE]
=============================================================================
