--------------------------- MODULE ExchangesPaced ---------------------------
(***************************************************************************)
(* src/exchanges: the classes that limit the rate at which they write.     *)
(***************************************************************************)
EXTENDS Exchange

(* OKEx: five kinds are asked for, messages of two are emitted. *)
OkexAsks ==
    [ticker     |-> {"tickers"}, trade |-> {"trades"}, candle |-> {"candle"},
     l2snapshot |-> {"depth5"}, l2update |-> {"depth_l2_tbt"}]
OkexRoutes == {<<"tickers", "ticker", "ticker">>, <<"trades", "trade", "trade">>}
Okex == Throttled(OkexAsks, OkexRoutes)

(* Deribit: the end of the updates does not go through the throttle. *)
DeribitAsks ==
    [ticker |-> {"ticker"}, trade |-> {"trades"}, candle |-> {"chart.trades"},
     l2update |-> {"book"}]
DeribitRoutes ==
    {<<"ticker", "ticker", "ticker">>, <<"trades", "trade", "trade">>,
     <<"chart.trades", "candle", "candle">>,
     <<"book", "l2update", "l2snapshot">>, <<"book", "l2update", "l2update">>}
Deribit == [Throttled(DeribitAsks, DeribitRoutes) EXCEPT !.unsub.l2update = <<"each", "now">>]

(* HitBTC: trades are asked for with the channel of one interface and given up with *)
(* the method of another; messages of trades alone are emitted. *)
HitbtcAsks ==
    [ticker |-> {"Ticker"}, trade |-> {"trades"}, candle |-> {"Candles"},
     l2update |-> {"Orderbook"}]
HitbtcDrops == [HitbtcAsks EXCEPT !.trade = {"Trades"}]
HitbtcRoutes == {<<"trades", "trade", "trade">>}
Hitbtc == [Throttled(HitbtcAsks, HitbtcRoutes) EXCEPT !.drops = HitbtcDrops]

(* Binance: one stream has the tickers of all markets, and is asked for and given up *)
(* at once; the others go through two batches and the throttle. *)
BinanceAsks ==
    [ticker     |-> {"!ticker@arr"}, trade |-> {"@trade"}, candle |-> {"@kline"},
     l2snapshot |-> {"@depth20"}, l2update |-> {"@depth"}]
\* Mutant: the market of a ticker is looked up among the trades.
BinanceTickerOfTrades ==
    {<<"!ticker@arr", "trade", "ticker">>, <<"@trade", "trade", "trade">>,
     <<"@kline", "candle", "candle">>, <<"@depth20", "l2snapshot", "l2snapshot">>,
     <<"@depth", "l2update", "l2update">>}
BinanceRoutes ==
    {<<"!ticker@arr", "ticker", "ticker">>, <<"@trade", "trade", "trade">>,
     <<"@kline", "candle", "candle">>, <<"@depth20", "l2snapshot", "l2snapshot">>,
     <<"@depth", "l2update", "l2update">>}
BinanceTickers ==
    [sub |-> <<"once", "now">>, unsub |-> <<"last", "now">>, floor |-> 1, forgets |-> "closing"]
Binance ==
    [Plain(BinanceAsks, BinanceRoutes) EXCEPT
       !.shared = {"!ticker@arr"},
       !.sub = [All(DOMAIN BinanceAsks, "each", "batched") EXCEPT !.ticker = BinanceTickers.sub],
       !.unsub = [All(DOMAIN BinanceAsks, "each", "batched") EXCEPT !.ticker = BinanceTickers.unsub],
       !.floor = BinanceTickers.floor,
       !.forgets = BinanceTickers.forgets,
       !.rest = {"l2update"}, !.cancels = TRUE]
=============================================================================
