--------------------------- MODULE ExchangesKept ---------------------------
(***************************************************************************)
(* src/exchanges: the classes that keep an account of what they have asked *)
(* for, or that do not connect or authenticate the way BasicClient does.   *)
(***************************************************************************)
EXTENDS Exchange

(* Poloniex: one stream of tickers behind a flag; trades and updates of a market share *)
(* a stream, and are counted.  A connection starts both afresh. *)
PoloniexAsks == [ticker |-> {"1002"}, trade |-> {"market"}, l2update |-> {"market"}]
PoloniexRoutes ==
    {<<"1002", "ticker", "ticker">>, <<"market", "trade", "trade">>,
     <<"market", "l2update", "l2snapshot">>, <<"market", "l2update", "l2update">>}
\* Mutant: the flag outlives the connection.
PoloniexKeepsFlag == "never"
PoloniexForgets == "opened"
PoloniexSub ==
    [ticker |-> <<"once", "now">>, trade |-> <<"counted", "now">>, l2update |-> <<"counted", "now">>]
PoloniexUnsub ==
    [ticker |-> <<"last", "now">>, trade |-> <<"counted", "now">>, l2update |-> <<"counted", "now">>]
Poloniex ==
    [Plain(PoloniexAsks, PoloniexRoutes) EXCEPT
       !.shared = {"1002"}, !.sub = PoloniexSub, !.unsub = PoloniexUnsub,
       !.forgets = PoloniexForgets]

(* Bitfinex: an unsubscription needs the id of the channel, which comes with the *)
(* server's answer.  (The answer is taken to name the market as it was asked for.)  A *)
(* connection begins with a configuration. *)
BitfinexAsks ==
    [ticker |-> {"ticker"}, trade |-> {"trades"}, l2update |-> {"book"}, l3update |-> {"book.R0"}]
BitfinexRoutes ==
    {<<"ticker", "ticker", "ticker">>, <<"trades", "trade", "trade">>,
     <<"book", "l2update", "l2snapshot">>, <<"book", "l2update", "l2update">>,
     <<"book.R0", "l3update", "l3snapshot">>, <<"book.R0", "l3update", "l3update">>}
ByChannelId(kinds) == [All(kinds, "acked", "now") EXCEPT !.ticker = <<"each", "now">>]
Bitfinex ==
    [Plain(BitfinexAsks, BitfinexRoutes) EXCEPT
       !.unsub = ByChannelId(DOMAIN BitfinexAsks), !.greets = TRUE]

(* Ethfinex: the same, without one. *)
EthfinexAsks == BitfinexAsks
EthfinexRoutes == BitfinexRoutes
Ethfinex ==
    [Plain(EthfinexAsks, EthfinexRoutes) EXCEPT !.unsub = ByChannelId(DOMAIN EthfinexAsks)]

(* Liquid: the name of the stream that is given up has its two halves swapped. *)
LiquidAsks ==
    [ticker   |-> {"product_cash_product_id"}, trade |-> {"executions_cash"},
     l2update |-> {"price_ladders_cash_buy", "price_ladders_cash_sell"}]
LiquidDrops == [LiquidAsks EXCEPT !.ticker = {"product_cash_id_product"}]
LiquidRoutes ==
    {<<"product_cash_product_id", "ticker", "ticker">>, <<"executions_cash", "trade", "trade">>,
     <<"price_ladders_cash_buy", "l2update", "l2update">>,
     <<"price_ladders_cash_sell", "l2update", "l2update">>}
Liquid == [Plain(LiquidAsks, LiquidRoutes) EXCEPT !.drops = LiquidDrops]

(* CoinEx, one client for each market: an unsubscription ends the kind. *)
CoinexAsks ==
    [ticker |-> {"state"}, trade |-> {"deals"}, candle |-> {"kline"}, l2update |-> {"depth"}]
CoinexRoutes ==
    {<<"state", "ticker", "ticker">>, <<"deals", "trade", "trade">>,
     <<"kline", "candle", "candle">>,
     <<"depth", "l2update", "l2snapshot">>, <<"depth", "l2update", "l2update">>}
CoinexSingle == TRUE
Coinex ==
    [Plain(CoinexAsks, CoinexRoutes) EXCEPT
       !.single = CoinexSingle, !.unsub = All(DOMAIN CoinexAsks, "kind", "now")]

(* CEX, one client for each market: candles and snapshots wait for an authorisation *)
(* that is never recorded, and nothing is ever given up. *)
CexAsks == [ticker |-> {"tickers"}, trade |-> {"pair"}, candle |-> {}, l2snapshot |-> {}]
CexRoutes ==
    {<<"tickers", "ticker", "ticker">>, <<"pair", "trade", "trade">>,
     <<"md", "l2snapshot", "l2snapshot">>, <<"ohlcv", "candle", "candle">>}
Cex ==
    [Plain(CexAsks, CexRoutes) EXCEPT
       !.single = TRUE, !.shared = {"tickers"}, !.drops = [k \in DOMAIN CexAsks |-> {}]]

(* ErisX: feeds are asked for after the authentication; the function that would end *)
(* the updates has another name. *)
ErisxAsks ==
    [trade |-> {"MarketData.tradeOnly"}, l2snapshot |-> {"TopOfBookMarketData"},
     l3update |-> {"MarketData"}]
ErisxRoutes ==
    {<<"MarketData.tradeOnly", "trade", "trade">>,
     <<"TopOfBookMarketData", "l2snapshot", "l2snapshot">>,
     <<"MarketData", "l3update", "l3snapshot">>, <<"MarketData", "l3update", "l3update">>}
ErisxLogin == TRUE
Erisx ==
    [Plain(ErisxAsks, ErisxRoutes) EXCEPT
       !.login = ErisxLogin, !.greets = TRUE, !.unsub.l3update = <<"missing", "now">>]

(* LedgerX: the server sends everything; a book starts with one request over REST. *)
LedgerxAsks == [trade |-> {"action_report"}, l3update |-> {"action_report"}]
LedgerxRoutes ==
    {<<"action_report", "trade", "trade">>, <<"action_report", "l3update", "l3update">>}
LedgerxRetries == FALSE
Ledgerx ==
    [Plain(LedgerxAsks, LedgerxRoutes) EXCEPT
       !.shared = {"action_report"}, !.ambient = {"action_report"},
       !.drops = [k \in DOMAIN LedgerxAsks |-> {}],
       !.unsub.l3update = <<"missing", "now">>,
       !.rest = {"l3update"}, !.retries = LedgerxRetries]

(* KuCoin: a token is fetched before each connection, and the client closes itself when *)
(* it is disconnected. *)
KucoinAsks ==
    [ticker   |-> {"/market/snapshot"}, trade |-> {"/market/match"}, candle |-> {"/market/candles"},
     l2update |-> {"/market/level2"}, l3update |-> {"/market/level3"}]
KucoinRoutes ==
    {<<"/market/snapshot", "ticker", "ticker">>, <<"/market/match", "trade", "trade">>,
     <<"/market/candles", "candle", "candle">>, <<"/market/level2", "l2update", "l2update">>,
     <<"/market/level3", "l3update", "l3update">>}
Kucoin ==
    [Plain(KucoinAsks, KucoinRoutes) EXCEPT
       !.fetches = TRUE, !.gives = TRUE, !.early = TRUE,
       !.rest = {"l2update", "l3update"}, !.cancels = TRUE]

(* Bittrex: one flag for the tickers of all markets, each of which has its own stream; *)
(* the end of the updates is asked for with "Subscribe", and so are heartbeats on every *)
(* connection. *)
BittrexAsks ==
    [ticker |-> {"ticker"}, trade |-> {"trade"}, candle |-> {"candle"}, l2update |-> {"orderbook"}]
BittrexDrops == [BittrexAsks EXCEPT !.l2update = {}]
BittrexRoutes ==
    {<<"ticker", "ticker", "ticker">>, <<"trade", "trade", "trade">>,
     <<"candle", "candle", "candle">>, <<"orderbook", "l2update", "l2update">>}
Bittrex ==
    [Plain(BittrexAsks, BittrexRoutes) EXCEPT
       !.sub.ticker = <<"once", "now">>, !.forgets = "closing", !.drops = BittrexDrops,
       !.fetches = TRUE, !.greets = TRUE, !.early = TRUE, !.rest = {"l2update"}, !.cancels = TRUE]
=============================================================================
