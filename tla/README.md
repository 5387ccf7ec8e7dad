# CCXWS in TLA+

CCXWS is a JavaScript library (`src/` is its repository; the code is in
`src/src/`) that keeps WebSocket connections to some fifty cryptocurrency
exchanges, subscribes to feeds, and emits a normalised stream of events.  These
modules specify its connection machinery, its flow control, the classes of its
exchanges and its order books; TLC checks them on small instances, and TLAPS
proves the main results for every value of the constants.

One Node.js process runs all of it on one event loop, so there are no data
races: what is hard is the order in which calls of the user, timers, socket
events, HTTP answers and resolved promises come, when each of them leaves the
others half done.

## Inventory

| component | state | operations | interacts with |
|---|---|---|---|
| `smart-wss.js` SmartWss | `_wss`, `_connected`, the retry timer | `connect`, `close`, `send`; open and close of the inner socket; the retry after 15 s | emits connecting, connected, disconnected, closing, closed |
| `watcher.js` Watcher | interval timer, time of the last message | `start`, `stop`, `markAlive`, the check | asks its client to `reconnect` |
| `basic-client.js` BasicClient | `_wss`, six maps of subscriptions | `subscribe...`, `unsubscribe...`, `close`, `reconnect`; a handler for each event of the socket | owns a SmartWss and a Watcher; sends |
| `basic-multiclient.js` BasicMultiClient | promises of clients, a semaphore | the same calls, one client per market | creates BasicClients, forwards their events |
| `flowcontrol/queue.js`, `circular-buffer.js` | buffer and two positions | `push`, `shift`, growth | `zlib.js` |
| `zlib.js` | one queue, one current job | `unzip`, `inflate`, `inflateRaw`, completion | clients of exchanges that compress |
| `flowcontrol/throttle.js` | waiting calls, timer | `add`, `cancel`, the timer | Binance, Bibox, Bittrex and others |
| `flowcontrol/batch.js` | collected calls, timer | `add`, `cancel`, the timer | Binance |
| `flowcontrol/debounce.js` | last call, timer | `add`, `cancel`, the timer | Kraken and others |
| `exchanges/*`, forty classes | throttles, batches, debounced calls, flags and counts of shared streams, channel tables, snapshot requests, tokens | one `_sendSub...` and one `_sendUnsub...` for each kind of feed, `_onMessage`, timers | extend BasicClient, or make BasicMultiClient's clients |
| `exchanges/gemini-client.js` | a SmartWss, a watcher and flags for each subscription | as BasicClient, which it replaces | SmartWss |
| `exchanges/bibox-client.js` | a pool of BasicClients, counts, a map from feeds to clients, a throttle | as BasicMultiClient, which it replaces | BasicClient, Throttle |
| `orderbooks/*` | price levels in arrays, or orders by id | construction from a snapshot, replay, `update`, `snapshot` | the user, who feeds them with events |
| `https.js`, `jwt.js`, the data records, `index.js` | none | | |

What makes each of them correct:

- **SmartWss**: one connection attempt at a time, for ever until it is closed;
  none after it has closed; events in the order of the README's diagram.
- **Watcher**: silence is noticed in bounded time and never too early.
- **BasicClient**: the server has been asked, on the current connection, for
  exactly the subscribed feeds; one connection at most, watched while it is up;
  closed when closed, and coming back when wanted.
- **BasicMultiClient**: one client per market; calls take effect in their order;
  every call takes effect in the end, so no permit is lost; a close reaches
  everything.
- **Queue, zlib, Throttle, Batch, Debounce**: nothing lost, doubled or reordered;
  the rate, the size and the quiet time are kept; what waits has something that
  is going to run it.
- **The classes of exchanges**: once nothing is on its way, every subscribed
  feed has its streams and its messages are emitted, the server sends nothing
  else, nothing is emitted that was not asked for, and no timer brings the
  process down.
- **Gemini, Bibox**: each socket belongs to a subscription, each client stays
  within the limit, and what was subscribed is served in the end.
- **Order books**: the book is what the server has, at the sequence number the
  book says.

`PROJECT.json` lists every hazard at its line, with the properties that cover it.

## Modules

| module | stands for | uses |
|---|---|---|
| `Lifecycle` | the README's diagram of connection events, as a state machine | |
| `SmartWss` | a set of reconnecting sockets, one record each; the operators on one socket (`Attempted`, `Opened`, `Lost`, `Closing`, `Closed`) are shared with its owners | implements `Lifecycle` per socket |
| `Watch` | the watcher without a clock: a fresh or a stale last message | |
| `Watcher` | the watcher with timer, timestamps and lateness | implements `Watch` |
| `BasicClient` | a client with its current and its abandoned sockets, its watcher and its server | instances of `SmartWss` and `Watch`; implements `Lifecycle` |
| `BasicMultiClient` | promises, semaphore, loops over clients | |
| `Fifo` | a queue of values | |
| `Queue` | the ring buffer that doubles | implements `Fifo` |
| `Zlib` | the serialised jobs, on the ring buffer | extends `Queue` |
| `Throttle`, `Batch`, `Debounce` | the file of that name | |
| `Exchange` | what the class of an exchange adds to BasicClient, as a record | |
| `ExchangesPlain`, `ExchangesListed`, `ExchangesPaced`, `ExchangesKept` | a record for each class: one message per call; lists and ends of a whole kind; throttles and batches; flags, counts, channel tables, authentication, tokens | `Exchange` |
| `Feeds` | a client of such a class with its server, from the user's calls to the events | |
| `Gemini` | a socket and a watcher for each subscription | an instance of `SmartWss` |
| `Bibox` | the pool of clients | |
| `Ladder` | the books that keep price levels in a sorted array | |
| `Orders` | the books that keep orders by id | |
| `ConnectionProofs`, `BasicClientProofs`, `BasicMultiClientProofs`, `ZlibProofs`, `FlowProofs`, `FeedsProofs`, `PoolsProofs`, `BooksProofs` | the theorems: about `SmartWss` and `Watcher`, `BasicClient`, `BasicMultiClient`, `Queue` and `Zlib`, `MCFlow`, `MCFeeds`, `MCPools`, `MCBooks` | TLAPS |
| `MC...` | the instances that TLC checks | |

`MCFlow`, `MCPools` and `MCBooks` check components that do not interact in one
run each: the component is chosen at the start, and the others stay as they
are.  `MCFeeds` does the same with the classes of exchanges, and names the
exceptions, class by class.

An operator called a mutant is a deliberately wrong version of the definition
that follows it.  It is used nowhere in the specifications: replacing the
definition by it has to break the property named in `PROJECT.json`, which shows
that the property depends on that code.

### How state and actions correspond to the code

*SmartWss.* A socket is a record: `inner` is the state of `_wss` (null,
connecting, open, closing), `connected` is `_connected`, `retry` the pending
timer of `_retryConnect`, `event` the last event emitted.  `Open`, `Lose`,
`RetryFires` and `FinishClose` are the callbacks; `Connect` and `Close` the
calls.  The promise chain of `_attemptConnect` and `_retryConnect` is folded
into the callbacks that resolve it.

*BasicClient.* `wss` is `this._wss`; `subs` the six maps as one set of channels;
`remote[s]` what was sent on socket `s`.  Sockets the client no longer refers to
stay in the model with their handlers, because they stay in the program.
`resume` holds the sockets with the `once("closed")` listener of `reconnect`.
`WatcherCheck` is a tick of the watcher, `PeerVanishes` a connection that dies
without a close.

*BasicMultiClient.* `pending[m]` holds what awaits the promise of market `m`, in
the order in which the awaits were made, which is the order in which they go on.
Between different markets any order is allowed, which includes the real one.
`Visit` is one step of the `for` loops of `close` and `reconnect`, `pausing` the
loops inside `wait(throttleMs)`.  Of a client there is whether it holds a socket,
and what it has let go of that is going to connect again: `reopen` counts the
sockets whose `closed` makes `reconnect` connect, `stray` those that were let go
in the retry wait.  `close` waits for neither, and `missed` names the clients it
found with some of them; `thrown` those whose `connected` handler then found no
socket.

*Watch.* `asked` is history: the timer does not run because the watcher asked for
a reconnection, which tells this from being stopped by the client.

*Queue.* The fields of the circular buffer; `PushGrow` is `_resize` with the
write that follows.  *Zlib.* Extends `Queue` with `current`; `serialExecute`,
which follows every push and every completion, is a step of its own (`try`);
the callback may call again (`CompleteAndSubmit`) or throw (`CallbackThrows`).
*Throttle*, *Batch*, *Debounce.* The waiting calls and the timer; `added`,
`ran`, `batches`, `newest`, `served` are history.

*Exchange, Exchanges..., Feeds.* The classes differ in tables and in a few
patterns, so a class is a record (`asks`, `drops`, `routes`, `sub`, `unsub` and
flags; `Exchange` explains each field) and `Feeds` is the machine that runs it.
A feed is a kind and a market, `subs` the six maps, a stream what the server
calls a channel or a topic.  `SendSub` and `SendUnsub` are the `_sendSub...` and
`_sendUnsub...` functions with everything they call: what is written at once
changes `remote`, what goes through `_sendMessage` waits in `queue`, through
Binance's batches in `batch`, through a debounce in `timers`, where its list is
made when the timer fires (`TimerFires`).  `memo` is what stands behind
`_tickersActive`, `_subbedTickers` or a count; `channels` is Bitfinex's
`_channels`, whose entries outlive their connection; `awaited` and `synced` are
the snapshot requests.  `Opened` is `_onConnected` with the resubscription of
every map, `LoggedIn` the same after an authentication, `Fetched` the end of
`_connectAsync`, `LostAndClosed` KuCoin's handler of `disconnected`.  `orphan` says
that the client let go of a socket that was to retry: a `close` or a `reconnect` of
any class in the retry wait, or KuCoin's handler.  Nothing cancels that retry, so
that the socket connects, now and at any later time, with the handlers of the client
that let it go (`OrphanOpens`, `OrphanLost`): they ask for every feed on the socket
that has taken its place, and throw if there is none (`Writes`, with what is written
on every connection, `greets`).  It hears messages too, and the answer to a heartbeat
may find no socket (`answers`).  `Emits` are the events that messages of the
streams become, given the maps that `_onMessage` looks into.

*Gemini.* `sub[i]` is the entry of `_subscriptions` with remote id `i`, `id[s]`
the remote id that the handlers of socket `s` are bound to.  A subscription
without a socket that is closed, closes all of them, itself among them, and ends
in a RangeError: `CloseForEver`, with any subset of the others closed before.
`Check` is the watcher.  *Bibox.* `queue` and `armed` are the throttle of
`_subscribe`, `Assign` what it calls, `Give` the subscription on the client that
is found, `count` is `subCount`, `unchecked` is history.  A step of the loop of
`reconnect` is an action of its own.

*Ladder.* One side of a book (`guarded` is Kraken's, otherwise Deribit's);
`FindIndex` is the binary search, `level` the reference: a set of levels.
*Orders.* `past` is the server's book after each of its messages, `stream` the
messages on their way, `snap` the sequence number of the snapshot.  KuCoin's and
LedgerX's snapshots are answers to a REST request, taken and delivered at any time
(`TakeSnapshot`, `Build`, `BuildFromAnswer`).  KuCoin's updates are queued until
then: `Replayed` is the constructor of its book, with the check of sequence numbers
that the comment before the class shows.  LedgerX's are not queued, and no number
is looked at: what came before the answer is lost to the book, and what the snapshot
has already is made again.  ErisX's snapshot comes in the stream
(`BuildFromStream`).  `Restart` is a LedgerX server that begins a new run, of which
a `Heartbeat` tells the client, before or after its messages; `spoiled` says that
something came that a LedgerX or an ErisX book is known to get wrong.

### Assumptions and abstractions

- URLs are valid and the user listens to `error` (Node throws otherwise).
- Handlers of the user do not call back into the object that emits.
- Messages on one connection arrive in order (TCP).  In `BasicClient` the
  subscriptions of different channels are independent at the server; `Feeds` has
  the streams that are shared.
- A function given to `Throttle` does not call the same throttle; none in the
  repository does.
- `CarefulSpec` of `BasicClient` is a user who does not call `close` or
  `reconnect` while the socket waits to retry, and does not call `close` while a
  reconnection is between closing and connecting.  Without that the properties
  fail, and the runs below show how.
- A server does what the code takes it to do: it accepts lists and the end of a
  whole kind where the code sends them, an Upbit list replaces the one before,
  Bitfinex's answer names the market as it was asked for, and nothing that is
  sent before an authentication is taken.
- In `Feeds` all feeds are asked for in one step when a connection opens; the
  symbol tables of Kraken, Liquid and Poloniex are loaded before the first
  subscription; a socket waits longer before it connects again (15 s) than the
  timers that are armed and the messages that wait (1 s each at most), but for what
  the handlers of an orphan put there in the meantime.
- In `Bibox` the process stays up: what takes it down is in `BasicClient`.
- Kraken's prices are strings; they order like numbers when they have as many
  digits, which is the case `Ladder` has.

## What the runs show

| run | module, specification | result |
|---|---|---|
| `smart_wss` | `SmartWss`, any owner, fairness | `OneAttempt`, `ComesBack` hold |
| `smart_wss_diagram` | any owner | **violated**: `close` during the retry wait does not cancel it |
| `watcher_safety` | `Watcher` | `SilenceBounded`, `NeverTooEarly`, implements `Watch` |
| `client_careful` | `BasicClient`, careful user, fairness | `TypeOK` with the sockets' states (a connected one has an inner socket), `RemoteAgrees`, `NoOrphan`, `WatchedIffConnected`, `NoCrash`, `CloseIsFinal`, `NotStranded`, `HalfOpenDetected`, `Recovers`, implements `Lifecycle` |
| `client_close_is_final` | any user | **violated**: a pending `reconnect` reopens a closed client |
| `multi_client` | `BasicMultiClient`, no `close` while a `reconnect` loop is at work, fairness | `OneClientEach`, `LastCallWins`, `AllClosed` but for the clients that `missed` names, `AllServed` |
| `zlib` | `Zlib` on `Queue`, fairness | `AllDelivered`; the buffer: `SlotsMatch`, implements `Fifo` |
| `flow` | `Throttle`, `Batch`, `Debounce`, fairness | calls run in order (`InOrder`), apart (`RateLimited`) and all of them (`AllRun`); `BatchKeeps`; `ServesNewest`, `AfterQuiet` |
| `feeds` | `Feeds` with forty classes, any user (`close` and `reconnect` in the retry wait too), fairness | `FeedsServed`, `NothingLeftOver`, `OnlyWanted`, `NoCrash`, `EventuallyServed`, each but for the classes that are named |
| `feeds_resubscribes` | Binance | **violated**: the tickers are not asked for again after a loss |
| `pools` | `Gemini`, `Bibox`, any user, fairness | `NoOrphan`, `Recovers`; `WithinLimit`, `Served` |
| `books` | `Ladder`, `Orders` | `LadderAgrees`; `BookAgrees`, KuCoin's whatever is lost and whenever the snapshot comes, the others' until `spoiled` |

The violated properties are quoted from the repository's README and comments;
`findings` in `PROJECT.json` gives the line and the cause of each.

### What the code does not keep

`feeds` says of every class what it keeps.  `Starved`, `Leaking`, `Misrouted`
and `GoesDown` in `MCFeeds` list the kinds of feed, or the classes, for which it
does not, with the cause as a comment: a flag that outlives its connection, an unsubscription
that ends its kind for every market, a channel number of an earlier connection,
an interval timer of the constructor that writes to a socket that is not there.
Each list is the smallest with which its property holds.  Binance's batches are an
example.  Subscriptions wait in one batch and unsubscriptions in another, and each
call arms the timer of its batch again, so that of the two the one that was touched
last goes out last with all that it holds: subscribe to x, unsubscribe from x,
subscribe to y leaves x running at the server, and unsubscribe from x, subscribe to
x, unsubscribe from y ends the x that is subscribed.

`close` and `reconnect` in the retry wait cancel no timer (`smart-wss.js:29-40,
96-104`), in no class.  The socket connects all the same, and `_onConnected`
(`basic-client.js:223-242`) writes to a `_wss` that is undefined, if no other socket
has taken its place: a TypeError in an event handler, which takes the process down.  `NoCrash` excepts this
for every class but the four of `Outlives`, which write nothing at once when a
connection is heard of and look for a socket later: `StandsUp` proves that Kraken,
CoinFLEX, ZT and LedgerX stay up under any user.  `Late` are three classes of which
the same sends a server what was unsubscribed since: the orphan's handlers fill a
throttle that goes on when the next socket is there.

Other disagreements met while modelling, which the specifications exclude by an
assumption or name in a property:

- `unsubscribe` of a BasicClient without a socket deletes the entry and throws a
  TypeError (`basic-client.js:168`).
- `reconnect` of a client during the retry wait leaves it without a socket
  (`NotStranded` needs the careful user); `isConnected` of SmartWss stays true
  after `close`.
- The loop of BasicMultiClient's `reconnect` goes on after a `close` and connects
  again what that has closed (`AllClosed` needs the guard on `close`).  A `close`
  that finds a client whose old socket is closing for a reconnection, of the user or
  of the watcher, or waits to retry, does not reach that socket, and the client is
  connected again or throws (`missed`).  A feed
  that is subscribed, unsubscribed and subscribed again through BasicMultiClient
  is forwarded twice.
- `close` and `reconnect` of Gemini throw when a subscription is between closing
  and connecting (`threw`), and a socket let go during the retry wait can take
  the process down (`letGo`).
- A LedgerX snapshot that is older than updates that were emitted already makes a
  book without them, for good: `ledgerx-client.js:27-29, 119-147` queues nothing
  and compares no number.  The book's number counts the updates from the snapshot's,
  so that with one that is newer than updates still to come it runs ahead.  A
  LedgerX book never updates its `runId`, so that each update after a change of run
  empties it; after a snapshot of an earlier run it is not emptied at all.  The asks of an ErisX book are put among its bids.  `L3PointStore.has` returns
  nothing, so that a point is always replaced.

### Bounds, and why they are enough

- `Socket` bounds the SmartWss instances that live together.  Two let an
  abandoned socket overlap with the current one; three add one that is closing.
  An instance that is idle again is reused, so the number of reconnections is not
  bounded.
- `Channel` has two members: channels are independent, and two are needed only
  to see one subscribed while another is not.
- `Interval` = 3, `Lag` = 1, `Horizon` = 14: several checks of the watcher, each
  on time or late, over more than one connection.
- `Market` = 2, `Capacity` = 1 in `multi_client`: one market waits for the permit
  of the other.  `MaxCalls` = 5 allows two subscriptions, a loop over both
  clients, and calls in the middle of it and after it.
- `BufferSize` = 1, `MaxItems` = 6, eight jobs: the buffer grows three times (1,
  2, 4, 8 slots), from every position that shifts can bring it to.
- `flow`: four throttled calls and `Delay` = 2 ticks; five calls in batches of
  two; any number of debounced calls.  One call at work, several that wait, a last
  batch that is not full, and a timer that fires before, with and after a call.
- `feeds`: two markets, any two of the kinds of a class at a time (`MaxKinds`),
  so that every pair of kinds meets that shares a stream, a flag or a timer (and
  `EventuallyServed` speaks of both of them); two
  feeds at a time (`MaxFeeds`), so that two of a kind, or one of each of two kinds,
  are there, and both can be changed again and again; two messages, timers or
  batched streams under way when the user calls (`MaxPending`), one of each
  direction; three channel numbers (`MaxChannels`), two of the same feed.
  Connections are not counted, nor are the sockets that were let go in the retry
  wait: one flag stands for any number of them.  Three
  feeds at a time give no other result, in more than twice the time, and
  `FeedsProofs` has the safety properties for any number.
- `pools`: one market of Gemini has two subscriptions, one of them with two modes,
  and two sockets; two feeds and two clients of Bibox, one feed to a client, and a
  `subCount` up to 3, so that reconnections carry it past the limit.
- `books`: four prices, so that the search goes to both halves twice; two orders
  and four messages: one before the snapshot, one between it and its answer, two
  after it; one restart of LedgerX's server, before or after any of them.

Deadlock is not checked where the model may stop: a user may be done (`MaxCalls`,
the jobs, a `subCount` at its bound), a socket may be closed for good, a book may
have stopped, and a process in which a handler has thrown is down.

### Fairness

- `SmartWss`, `BasicClient` and `Gemini`: weak fairness of the retry timer, of the
  closing handshake (`ws` ends it after 30 s at the latest) and of the watcher's
  timer, which Node fires.  Strong fairness of a connection that opens: an attempt
  may fail any number of times, but a server that comes back lets one succeed.
  Weak fairness of `GoStale`: time passes, and a message gets old.
- `Bibox`: the same for the connections of its clients, and the timer of the
  throttle.
- `BasicMultiClient`: weak fairness of a first connection (SmartWss has been
  shown to come back), of `wait(throttleMs)`, and of what a
  resolved promise lets go on.  All of it as long
  as the process is up.
- `Zlib`: zlib finishes what it starts.  `Throttle`, `Debounce`: the clock and
  timers that are due.
- `Feeds`: the throttle, the batches and the debounced calls are timers that Node
  fires; a snapshot that is asked for again and again is answered.  Nothing is
  assumed of connections: `EventuallyServed` speaks of one that stays open.

## What is proved

For every value of the constants, under the named assumptions of each module:

**`BasicClientProofs`.** `Agreement` (`RemoteAgrees` under any user) rests on
`AgreementInv`: at most what was asked for is on an open socket (`Asked`), the
retry timer runs only when there is no inner socket (`TimerAlone`), and the
connected socket of the client carries `subs`.  The middle part is what makes it
inductive: otherwise a retry could open a second inner socket in place of the
one that carries the channels.  `SingleConnection`, `WatcherFollows`,
`HandlersHaveSocket`, `ClosedStaysClosed` and `NeverStranded` come from
`CarefulInv`, which adds that every socket that is alive is the client's own or
closing, and that `resume` names only sockets that are going to say closed.
`FollowsDiagram` maps every step to a step of `Lifecycle` or a stutter.

**`ConnectionProofs`.** `AttemptsGoOn` (`OneAttempt` of `SmartWss`, for any number
of instances): `SmartWssInv` adds that an instance nobody connected is as its
constructor left it, without which a call of `connect` could find a timer.
`HandlersSound` says it of one handler at a time.  `BoundedSilence`,
`PatientReconnect` and `ImplementsWatch` come from `WatcherInv`, which relates the
next tick of the timer to the last check: the last message is at most one interval
older than the check that saw it, or that check asked for a reconnection.
`ImplementsWatch` is what `BasicClient` relies on when it is composed with `Watch`:
a watcher that stops of its own accord has asked for a reconnection, and had not
heard a message within an interval.

**`BasicMultiClientProofs`.** `MadeOnce`, `LastWins` and `CloseReachesAll`
(`OneClientEach`, `LastCallWins`, `AllClosed`) for any number of markets, permits
and calls.  They come from one invariant, `MultiInv`, whose parts lean on each
other: a market is in `_clients` if and only if one client was made for it
(`KnownOnce`); the semaphore's queue holds the markets that wait, once each
(`QueueWaits`); what waits for a promise, applied in its order, leads to what was
asked for last (`AllSettle`, by the last waiting call of a type); and after a
`close` that no other call followed, its loop has come to some client, waits there
with nothing but a `close` behind it, and has left every client before it with
nothing that connects again, unless it found it with a socket that was closing for a
reconnection or had been let go in the retry wait (`CloseProgress`, `Still`).  A
watcher's reconnection may come between any two steps of it.  A loop over the clients never leaves them
(`MultiTypeCorrect`), so that a client that is added during the loop is reached by
it.

**`ZlibProofs`.** `SlotsAlwaysMatch` and `ImplementsFifo` come from `QueueInv`,
stated over the slots that are live (those between the two positions, modulo the
size): a slot holds a value if and only if it is live.  The lemmas on `%` give
the position after the last and the distance between two positions.
`AnsweredInOrder` comes from `ZInv`: the answers and the queue are what was
submitted, the queue's `QueueInv`, the types, and that a job whose callback has
thrown stays the current one.  It uses the lemmas on the abstract queue (a push
appends, a shift takes the head, a growth changes nothing), so that no step of it
looks inside the buffer.  `UsesTheQueue` shows that every step of zlib is one of
the queue or leaves it alone, from which `SlotsMatchInZlib` and `FifoInZlib`
follow: the ring buffer keeps its promise to the caller it has in the code.

**`FlowProofs`.** `CallsInOrder` and `CallsApart` (`InOrder`, `RateLimited`) come
from `ThrottleInv`.  Its part `Paced` says that the ticks to the timer and the
ticks since the last call make up the delay, and that without a timer the delay is
over; it is what a call that comes just before, with or just after the timer
needs.  `BatchesKept` (`BatchKeeps`): what was added is the concatenation of the
batches, followed by what waits, whichever call of the loop throws.  A
concatenation is a recursive function, and induction is out of reach, so that the
invariant `Collected` says that there is some function with that recursion
(`Joins`), which a step can extend by one, and `FlatIs` shows that it can be no
other, at the least place where they would differ.  `NewestServed`
(`ServesNewest`) and `ServedWhenQuiet` (the safety part of `AfterQuiet`) come from
`DebounceInv`: the time left and the quiet time add up to the delay at least.

**`FeedsProofs`.** For every table of classes: `FeedsTypeCorrect`; `StaysUp`, a
class that has no interval timer or debounced call that writes without looking,
and whose own handlers let go of no socket (`Fragile`), takes the process down only
if its user let go of one that was to retry, and not even then if it writes nothing
at once (`Mute`), whatever else its record says; and `DirectAgrees`, a class that writes one message for each
call (`Direct`) has on every open connection exactly the streams of `subs` at the
server (its streams must belong to one kind each, or an unsubscription of one kind
would end another).  For the table of the repository (`Table = MCTable`, which is
what the configurations give), every set of markets that is not empty and no bound
on calls, feeds or messages: `StandsUp` (`NoCrash`), `EventsAreWanted`
(`OnlyWanted`), `FeedsAreServed` (`FeedsServed`) and `NothingIsLeftOver`
(`NothingLeftOver`), each for all forty classes.

The last two come from `SoundKeepsUp`, which is about any table.  A class is
`Sound` when each kind of feed is asked for so that it arrives (`Supplies`), each
stream ends with the last feed that asks for it (`Ends`), and the end of a feed
leaves the streams of the others (`Leaves`): these are conditions on a record,
about one kind, one stream, or two kinds that share one, and `SoundClasses` goes
through the forty records and finds them `Sound` but for what `Starved`,
`Leaking` and `Late` name.  `FeedsInv` is the invariant.  Neither property is inductive: both
speak of the moment when nothing waits, and say nothing of what is on its way until
then.  Hence

- `ServeInv`: on an open connection each stream of a subscribed feed is with the
  server, in a message that adds it, or in the list a debounced call is going to
  make; no message that waits takes it away without a later one that gives it back;
  and what a flag or a count stands for is with the server already, without which
  the feed that comes second and writes nothing would not be served;
- `LeftInv`: each stream that no feed asks for and that is with the server is going
  to be dropped, by a message that waits or by a debounced unsubscription, and no
  message that waits adds it without a later one that drops it; streams that go
  through a throttle are excepted once a socket was let go in the retry wait;
- `PaceInv`: until a socket was let go in the retry wait nothing waits before the
  connection is open, and the queue adds only streams of the kinds that go through the
  throttle (`Slow`), so that what is written at once is not undone by what waits;
- `CountInv`: a count agrees with the maps, so that it comes to zero with the last
  feed and not before;
- `FeedInv`: the maps hold feeds of the class.

**`PoolsProofs`.** `SocketsBelong` is `NoOrphan` for every set of markets and
sockets.  `GeminiInv` adds that the socket of a subscription works and is bound to
it (`Owned`), that a reconnection that will come to its end does so for a
subscription that is in the map, has no other socket and waits for no other one
(`Awaited`), that a socket that was let go never rests (`Shapes`), and that only
such a socket lets a watcher run without a socket (`Watched`).  Without `Awaited`
the end of a reconnection could replace a working socket.  `LimitKept` is
`WithinLimit` for every limit and every set of feeds.  `BiboxInv` adds that a
client's feeds are those the map gives it and no other client (`Mapped`), so that
a feed cannot be counted for one client and carried by another.

**`BooksProofs`.** `BooksAgree` (`BookAgrees`), for any orders and any number of
updates: KuCoin's book is the server's at its number, and LedgerX's and ErisX's hold
the server's orders after each message until one comes that they are known to get
wrong; for LedgerX, a snapshot that is older than an update that came before it is
one, and a snapshot that is newer than what has come counts from where the stream
has caught up with it.  `OrdersInv` says that each queued update tells the difference between
two of the server's books that follow each other (`Tells`), and what the replay
needs is that this outlives both the arrival of the snapshot and a gap: `Replay`
keeps a book equal to the server's at its sequence number or gives up.  `Replayed`
is a recursive function; `Iterated` shows that it is the iteration it looks like,
by exhibiting one and taking the least place where they would differ.
`LevelsKept` (`LadderAgrees`), for all prices, sizes and times.  `LadderInv` is that
the array is strictly in order and holds the levels.  `FindsSplit` is the heart of
it: the binary search comes to the number of levels that come before the price,
which is where it is or belongs, whatever the length of the array (the shortest
part of the array for which it did not would be halved into a shorter one).
`RemovedHolds`, `ReplacedHolds` and `InsertedHolds` say what the three changes do,
and a snapshot of any depth is the end of the array (`SnapshotIs`).
`BooksAssumption`: prices, sizes and times are naturals, and prices finitely many, as
the numbers of JavaScript are.

The inductive invariants of `BasicMultiClient`, `Feeds`, `Orders` and `Ladder` were
checked by TLC on the instances of the runs before they were proved, and `Sound` on
the forty records.

Every invariant that a run checks is stated by a theorem.  Only model-checked: the
liveness properties (fairness and ENABLED are beyond the prover), among them
`ComesBack`, `Recovers`, `AllServed`, `AllDelivered`, `AllRun`, the second half of
`AfterQuiet`, `EventuallyServed` and `Served`.

## What is not modelled, and the plan

- `LiquidOrderBook`: each update replaces one side.  `basic-auth-client.js`: no
  module requires it.  `https.js`, `jwt.js`, `util.js`: single requests and
  signatures; their failures are part of the classes that call them.  The data
  records and `index.js`.
- What messages contain beyond their stream and their market, candle periods, the
  checksum of Kraken's book, hidden orders, and the snapshots of the level 3
  books, which add up sizes by price.
- What decompression and JSON return.
- The order in which a REST snapshot and the first updates arrive is modelled for
  KuCoin's and LedgerX's books; for the other classes a feed is taken to have its snapshot when
  the answer comes.

Nine hazards have no property, each with its reason in `PROJECT.json`: a callback
that throws in `zlib.js`, `unsubscribe` without a socket, the second forwarding
listener of BasicMultiClient, the order of snapshots and updates on Binance; and
five that the code does not come through, so that the properties except them and
the model shows them: Binance's batches, Bittrex's flag, the end of a kind on Crypto,
Bitfinex's channel table, and the interval timers of DigiFinex and others.

Next: a model of the order of snapshots and stream messages with the user's book,
for the classes that send both; the level 3 snapshots.
