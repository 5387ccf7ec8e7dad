-------------------------- MODULE ExchangesListed --------------------------
(***************************************************************************)
(* src/exchanges: the classes that wait a moment after a call and then     *)
(* write one message with the list of all feeds of the kind.               *)
(***************************************************************************)
EXTENDS Exchange

Listed(asks, routes) == [Plain(asks, routes) EXCEPT !.sub = All(DOMAIN asks, "list", "debounced")]

(* Gate.io: the timers look for no socket, and an unsubscription names no market. *)
GateioAsks == [ticker |-> {"ticker"}, trade |-> {"trades"}, l2update |-> {"depth"}]
GateioRoutes ==
    {<<"ticker", "ticker", "ticker">>, <<"trades", "trade", "trade">>,
     <<"depth", "l2update", "l2snapshot">>, <<"depth", "l2update", "l2update">>}
Gateio ==
    [Listed(GateioAsks, GateioRoutes) EXCEPT
       !.unsub = All(DOMAIN GateioAsks, "kind", "now"),
       !.guarded = FALSE]

(* Bithumb: nothing is written to unsubscribe, and a subscription to updates asks for *)
(* the snapshots of every market again. *)
BithumbAsks ==
    [ticker |-> {"ticker"}, trade |-> {"transaction"}, l2update |-> {"orderbookdepth"}]
BithumbRoutes ==
    {<<"ticker", "ticker", "ticker">>, <<"transaction", "trade", "trade">>,
     <<"orderbookdepth", "l2update", "l2update">>}
Bithumb ==
    [Listed(BithumbAsks, BithumbRoutes) EXCEPT
       !.unsub = All(DOMAIN BithumbAsks, "nothing", "now"),
       !.rest = {"l2update"},
       !.guarded = FALSE]

(* Upbit: an unsubscription sends the list that remains, which takes the place of the *)
(* list the server had. *)
UpbitAsks == [ticker |-> {"ticker"}, trade |-> {"trade"}, l2snapshot |-> {"orderbook"}]
UpbitRoutes ==
    {<<"ticker", "ticker", "ticker">>, <<"trade", "trade", "trade">>,
     <<"orderbook", "l2snapshot", "l2snapshot">>}
\* Mutant: nothing is written to unsubscribe.
UpbitSilent == All(DOMAIN UpbitAsks, "nothing", "debounced")
UpbitUnsub == All(DOMAIN UpbitAsks, "resend", "debounced")
Upbit ==
    [Listed(UpbitAsks, UpbitRoutes) EXCEPT !.unsub = UpbitUnsub, !.pings = TRUE]

(* Crypto.com: a pause comes before the debounce of a subscription; subscribing and *)
(* unsubscribing share a key, and an unsubscription names the kind alone. *)
CryptoAsks == [ticker |-> {"ticker"}, trade |-> {"trade"}]
CryptoRoutes == {<<"ticker", "ticker", "ticker">>, <<"trade", "trade", "trade">>}
Crypto ==
    [Plain(CryptoAsks, CryptoRoutes) EXCEPT
       !.sub = All(DOMAIN CryptoAsks, "list", "delayed"),
       !.unsub = All(DOMAIN CryptoAsks, "kind", "debounced"),
       !.oneTimer = TRUE, !.answers = TRUE]

(* ZT: an unsubscription names no market. *)
ZtAsks == [ticker |-> {"state"}, trade |-> {"deals"}]
ZtRoutes == {<<"state", "ticker", "ticker">>, <<"deals", "trade", "trade">>}
\* Mutant: a debounced call looks for no socket.
ZtUnguarded == FALSE
ZtGuarded == TRUE
Zt ==
    [Listed(ZtAsks, ZtRoutes) EXCEPT
       !.unsub = All(DOMAIN ZtAsks, "kind", "debounced"), !.guarded = ZtGuarded]

(* CoinFLEX: one key, an unsubscription of "all", and tickers looked up among trades. *)
CoinflexAsks == [ticker |-> {"ticker"}, trade |-> {"trade"}]
CoinflexRoutes == {<<"ticker", "trade", "ticker">>, <<"trade", "trade", "trade">>}
Coinflex ==
    [Listed(CoinflexAsks, CoinflexRoutes) EXCEPT
       !.unsub = All(DOMAIN CoinflexAsks, "kind", "debounced"),
       !.oneTimer = TRUE]

(* BitMart: nothing is written for tickers; an unsubscription of a trade feed ends the *)
(* feeds that remain, and takes the timer of a subscription. *)
BitmartAsks == [ticker |-> {}, trade |-> {"spot/trade"}]
BitmartRoutes == {<<"spot/trade", "trade", "trade">>}
Bitmart ==
    [Plain(BitmartAsks, BitmartRoutes) EXCEPT
       !.sub.trade = <<"list", "debounced">>, !.unsub.trade = <<"rest", "debounced">>,
       !.oneTimer = TRUE, !.guarded = FALSE, !.pings = TRUE]

(* Kraken: separate keys; an unsubscription names the feeds that remain. *)
KrakenAsks ==
    [ticker |-> {"ticker"}, trade |-> {"trade"}, candle |-> {"ohlc"}, l2update |-> {"book"}]
KrakenRoutes ==
    {<<"ticker", "ticker", "ticker">>, <<"trade", "trade", "trade">>,
     <<"ohlc", "candle", "candle">>,
     <<"book", "l2update", "l2snapshot">>, <<"book", "l2update", "l2update">>}
Kraken ==
    [Listed(KrakenAsks, KrakenRoutes) EXCEPT
       !.unsub = All(DOMAIN KrakenAsks, "rest", "debounced")]
=============================================================================
