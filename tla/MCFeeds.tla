------------------------------ MODULE MCFeeds ------------------------------
EXTENDS Feeds, ExchangesPlain, ExchangesListed, ExchangesPaced, ExchangesKept

CONSTANTS M1, M2

MCTable ==
    [bitmex |-> Bitmex, coinbasepro |-> CoinbasePro, bitstamp |-> Bitstamp,
     bitflyer |-> Bitflyer, digifinex |-> Digifinex, zb |-> Zb, bitrue |-> Bitrue,
     lbank |-> Lbank, bequant |-> Bequant, fmfw |-> Fmfw, aax |-> Aax, ftx |-> FtxBase,
     bitforex |-> Bitforex, ascendex |-> Ascendex, bybit |-> Bybit, mexc |-> Mexc,
     huobi |-> HuobiBase, huobi_futures |-> HuobiFutures,
     gateio |-> Gateio, bithumb |-> Bithumb, upbit |-> Upbit, crypto |-> Crypto, zt |-> Zt,
     coinflex |-> Coinflex, bitmart |-> Bitmart, kraken |-> Kraken,
     okex |-> Okex, deribit |-> Deribit, hitbtc |-> Hitbtc, binance |-> Binance,
     poloniex |-> Poloniex, bitfinex |-> Bitfinex, ethfinex |-> Ethfinex, liquid |-> Liquid,
     coinex |-> Coinex, cex |-> Cex, erisx |-> Erisx, ledgerx |-> Ledgerx,
     kucoin |-> Kucoin, bittrex |-> Bittrex]

----------------------------------------------------------------------------
(* What the code is known not to keep, class by class; each set is the smallest with  *)
(* which its property holds.                                                          *)

Starved ==
    \* the market of a ticker is looked up among the trades
    ({"aax", "bequant", "coinflex"} \X {"ticker"})
    \* no message of these kinds is emitted
    \cup ({"okex"} \X {"candle", "l2snapshot", "l2update"})
    \cup ({"hitbtc"} \X {"ticker", "candle", "l2update"})
    \* they are never asked for
    \cup ({"bitmart"} \X {"ticker"}) \cup ({"cex"} \X {"candle", "l2snapshot"})
    \* a flag outlives the connection, or stands for the streams of all markets
    \cup ({"binance", "bittrex"} \X {"ticker"})
    \* of two batches the one that a call touched last goes out last, with all it holds
    \cup ({"binance"} \X {"trade", "candle", "l2snapshot", "l2update"})
    \* the end of the trades takes the ticker's trades
    \cup ({"bitmex"} \X {"ticker"})
    \* an unsubscription ends the kind for every market
    \cup ({"gateio"} \X {"ticker", "trade", "l2update"})
    \cup ({"crypto", "zt", "coinflex"} \X {"ticker", "trade"})
    \* or names the feeds that remain
    \cup ({"kraken"} \X {"ticker", "trade", "candle", "l2update"})
    \cup ({"bitmart"} \X {"trade"})

Leaking ==
    \* nothing is written, or "subscribe" is
    ({"bithumb"} \X {"ticker", "transaction", "orderbookdepth"})
    \cup ({"cex"} \X {"tickers", "pair"})
    \cup ({"ftx", "bittrex"} \X {"orderbook"})
    \* another name is given up
    \cup {<<"liquid", "product_cash_product_id">>, <<"hitbtc", "trades">>}
    \* the id of the channel is not known yet, or an old one is found
    \cup ({"bitfinex", "ethfinex"} \X {"trades", "book", "book.R0"})
    \* the message overtakes a throttled subscription
    \cup {<<"deribit", "book">>}
    \* a debounced subscription takes the timer of the unsubscription
    \cup ({"crypto", "coinflex"} \X {"ticker", "trade"})
    \* and a batch that a later call touched overtakes an earlier call of its own
    \cup ({"binance"} \X {"@trade", "@kline", "@depth20", "@depth"})
    \* the feeds that remain are ended in place of this one
    \cup ({"kraken"} \X {"ticker", "trade", "ohlc", "book"})
    \cup {<<"bitmart", "spot/trade">>}

\* What is queued for a connection that is not there yet is written later, though the feed
\* was given up in the meantime; only a socket that was let go queues it then.
Late == {"okex", "deribit", "hitbtc"}

Misrouted == {"aax", "coinflex"} \X {"ticker"}

GoesDown ==
    \* an interval timer of the constructor
    {"digifinex", "bitrue", "lbank", "bitforex", "ascendex", "bybit", "mexc", "upbit", "bitmart"}
    \* a debounced call after close()
    \cup {"gateio", "bithumb"}
    \* a placeholder, and the socket that the client itself let go
    \cup {"kucoin"}

\* They write nothing at once when a connection is heard of, and look for a socket later.
Outlives == {"zt", "coinflex", "kraken", "ledgerx"}

----------------------------------------------------------------------------
\* What every subscription method of README.md promises ("will cause the client to emit"):
\* once nothing is on its way, each subscribed feed has its streams on the server and
\* messages that reach the user, whatever calls, losses and reconnections came before.
FeedsServed ==
    Quiet => \A f \in subs : Served(f) \/ <<exchange, f[1]>> \in Starved

\* And the server sends nothing that no subscribed feed asks for: every _sendUnsub...
\* function undoes its _sendSub..., also when streams are shared between feeds, counted,
\* listed, or confirmed later.
NothingLeftOver ==
    Quiet => \A s \in remote :
        s \in Asked(subs) \cup Ambient \/ <<exchange, s[1]>> \in Leaking
        \/ (orphan /\ exchange \in Late)

\* A message is emitted for feeds the user has subscribed to: the maps that _onMessage
\* looks into are those of the event.
OnlyWanted ==
    \A e \in Emits :
        (\E k \in Entitled(e[1]) : <<k, e[2]>> \in subs) \/ <<exchange, e[1]>> \in Misrouted

\* No timer and no handler finds a client without its socket, unless the user closed or
\* reconnected it while the socket waited to retry: that one connects all the same.
NoCrash == crashed => exchange \in GoesDown \/ (orphan /\ exchange \notin Outlives)

\* The kinds of the user, of which there are one or two.
OneKind == CHOOSE k \in uses : TRUE
OtherKind == CHOOSE k \in uses : k # OneKind \/ uses = {OneKind}

Stays(k) == conn = "open" /\ <<k, M1>> \in subs /\ ~crashed
Waits(k) == Stays(k) /\ <<exchange, k>> \notin Starved \cup {<<"ledgerx", "l3update">>}
Gets(k) == Stays(k) => Served(<<k, M1>>) /\ Started(<<k, M1>>)

\* Every feed that stays subscribed on a connection that stays open comes to be served,
\* with a snapshot where one is asked for over REST; LedgerX does not ask again.
EventuallyServed ==
    /\ Waits(OneKind) ~> Gets(OneKind)
    /\ Waits(OtherKind) ~> Gets(OtherKind)

\* basic-client.js says of _onConnected that it "is fired anytime the socket is opened,
\* whether the first time, or any subsequent reconnects.  This allows the socket to
\* immediate trigger resubscription to relevent feeds": on a Binance client each feed is
\* with the server or on its way.
Resubscribes ==
    [][exchange = "binance" /\ conn = "opening" /\ conn' = "open"
         => Asked(subs) \subseteq remote' \cup UNION {batch'[i].streams : i \in DOMAIN batch'}]_vars
=============================================================================
