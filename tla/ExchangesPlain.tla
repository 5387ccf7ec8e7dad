--------------------------- MODULE ExchangesPlain ---------------------------
(***************************************************************************)
(* src/exchanges: the classes that write one message for one call, at      *)
(* once.  A stream is named as the server names it, without its market.    *)
(***************************************************************************)
EXTENDS Exchange

(* BitMEX: a ticker is put together from quotes and trades, and leaves the trades on *)
(* when they are subscribed; the end of the trades takes them from the ticker. *)
BitmexAsks ==
    [ticker   |-> {"quote", "trade"}, trade |-> {"trade"}, candle |-> {"tradeBin"},
     l2update |-> {"orderBookL2"}]
BitmexRoutes ==
    {<<"quote", "ticker", "ticker">>, <<"trade", "trade", "trade">>,
     <<"trade", "ticker", "ticker">>, <<"tradeBin", "candle", "candle">>,
     <<"orderBookL2", "l2update", "l2snapshot">>, <<"orderBookL2", "l2update", "l2update">>}
BitmexSpares == {<<"ticker", "trade", "trade">>}
Bitmex == [Plain(BitmexAsks, BitmexRoutes) EXCEPT !.spares = BitmexSpares]

(* Coinbase Pro: a match comes with "matches" and with "full". *)
CoinbaseProAsks ==
    [ticker |-> {"ticker"}, trade |-> {"matches"}, l2update |-> {"level2"}, l3update |-> {"full"}]
CoinbaseProRoutes ==
    {<<"ticker", "ticker", "ticker">>,
     <<"matches", "trade", "trade">>, <<"matches", "l3update", "l3update">>,
     <<"full", "trade", "trade">>, <<"full", "l3update", "l3update">>,
     <<"level2", "l2update", "l2snapshot">>, <<"level2", "l2update", "l2update">>}
CoinbasePro == Plain(CoinbaseProAsks, CoinbaseProRoutes)

(* Bitstamp: the snapshot before the updates is asked for over REST. *)
BitstampAsks ==
    [trade    |-> {"live_trades"}, l2snapshot |-> {"order_book"},
     l2update |-> {"diff_order_book"}]
BitstampRoutes ==
    {<<"live_trades", "trade", "trade">>, <<"order_book", "l2snapshot", "l2snapshot">>,
     <<"diff_order_book", "l2update", "l2update">>}
BitstampRest == {"l2update"}
\* Mutant: a failed request is not made again.
BitstampGivesUp == FALSE
BitstampRetries == TRUE
Bitstamp == [Plain(BitstampAsks, BitstampRoutes) EXCEPT !.rest = BitstampRest,
                                                        !.retries = BitstampRetries]

(* bitFlyer *)
BitflyerAsks ==
    [ticker |-> {"lightning_ticker"}, trade |-> {"lightning_executions"},
     l2update |-> {"lightning_board"}]
BitflyerRoutes ==
    {<<"lightning_ticker", "ticker", "ticker">>, <<"lightning_executions", "trade", "trade">>,
     <<"lightning_board", "l2update", "l2update">>}
BitflyerRetries == TRUE
Bitflyer == [Plain(BitflyerAsks, BitflyerRoutes) EXCEPT !.rest = {"l2update"},
                                                        !.retries = BitflyerRetries]

(* DigiFinex: the timer of the constructor writes to the socket without looking. *)
DigifinexAsks == [ticker |-> {"ticker"}, trade |-> {"trades"}, l2update |-> {"depth"}]
DigifinexRoutes ==
    {<<"ticker", "ticker", "ticker">>, <<"trades", "trade", "trade">>,
     <<"depth", "l2update", "l2snapshot">>, <<"depth", "l2update", "l2update">>}
Digifinex == [Plain(DigifinexAsks, DigifinexRoutes) EXCEPT !.pings = TRUE]

(* ZB *)
ZbAsks == [ticker |-> {"ticker"}, trade |-> {"trades"}, l2snapshot |-> {"depth"}]
ZbRoutes ==
    {<<"ticker", "ticker", "ticker">>, <<"trades", "trade", "trade">>,
     <<"depth", "l2snapshot", "l2snapshot">>}
Zb == Plain(ZbAsks, ZbRoutes)

(* Bitrue *)
BitrueAsks == [ticker |-> {"ticker"}, trade |-> {"trade_ticker"}]
BitrueRoutes == {<<"ticker", "ticker", "ticker">>, <<"trade_ticker", "trade", "trade">>}
Bitrue == [Plain(BitrueAsks, BitrueRoutes) EXCEPT !.pings = TRUE]

(* LBank *)
LbankAsks == [ticker |-> {"tick"}, trade |-> {"trade"}]
LbankRoutes == {<<"tick", "ticker", "ticker">>, <<"trade", "trade", "trade">>}
Lbank == [Plain(LbankAsks, LbankRoutes) EXCEPT !.pings = TRUE]

(* Bequant: the market of a ticker is looked up among the trades. *)
BequantAsks == [ticker |-> {"ticker/3s"}, trade |-> {"trades"}]
BequantRoutes == {<<"ticker/3s", "trade", "ticker">>, <<"trades", "trade", "trade">>}
Bequant == Plain(BequantAsks, BequantRoutes)

(* FMFW *)
FmfwAsks == [ticker |-> {"ticker/3s"}, trade |-> {"trades"}]
FmfwRoutes == {<<"ticker/3s", "ticker", "ticker">>, <<"trades", "trade", "trade">>}
Fmfw == Plain(FmfwAsks, FmfwRoutes)

(* AAX: one stream has the tickers of all markets, every unsubscription ends it, and *)
(* the market is looked up among the trades. *)
AaxAsks == [ticker |-> {"tickers"}, trade |-> {"@trade"}]
AaxRoutes == {<<"tickers", "trade", "ticker">>, <<"@trade", "trade", "trade">>}
Aax == [Plain(AaxAsks, AaxRoutes) EXCEPT !.shared = {"tickers"}]

(* FTX and FTX US: the end of the updates is asked for with "subscribe". *)
FtxBaseAsks == [ticker |-> {"ticker"}, trade |-> {"trades"}, l2update |-> {"orderbook"}]
FtxBaseRoutes ==
    {<<"ticker", "ticker", "ticker">>, <<"trades", "trade", "trade">>,
     <<"orderbook", "l2update", "l2snapshot">>, <<"orderbook", "l2update", "l2update">>}
FtxBaseDrops == [FtxBaseAsks EXCEPT !.l2update = {}]
FtxBase == [Plain(FtxBaseAsks, FtxBaseRoutes) EXCEPT !.drops = FtxBaseDrops]

(* The classes with trades alone. *)
TradesAsks(stream) == [trade |-> {stream}]
TradesRoutes(stream) == {<<stream, "trade", "trade">>}
TradesOnly(stream) == [Plain(TradesAsks(stream), TradesRoutes(stream)) EXCEPT !.pings = TRUE]
Bitforex == TradesOnly("trade")
Ascendex == TradesOnly("trades")
Bybit == TradesOnly("trade")
Mexc == TradesOnly("deal")

(* Huobi: the updates are switched on in the futures and swaps classes. *)
HuobiBaseAsks ==
    [ticker |-> {"detail"}, trade |-> {"trade.detail"}, candle |-> {"kline"},
     l2snapshot |-> {"depth.step0"}, l2update |-> {"depth.size_150.high_freq"}]
HuobiBaseRoutes ==
    {<<"detail", "ticker", "ticker">>, <<"trade.detail", "trade", "trade">>,
     <<"kline", "candle", "candle">>, <<"depth.step0", "l2snapshot", "l2snapshot">>,
     <<"depth.size_150.high_freq", "l2update", "l2snapshot">>,
     <<"depth.size_150.high_freq", "l2update", "l2update">>}
HuobiFutures == Plain(HuobiBaseAsks, HuobiBaseRoutes)
HuobiBase ==
    LET kinds == DOMAIN HuobiBaseAsks \ {"l2update"}
    IN  Plain([k \in kinds |-> HuobiBaseAsks[k]], HuobiBaseRoutes)
=============================================================================
