---------------------------- MODULE MCBacktestRuns ----------------------------
(* TLC instances of BacktestRuns.  Two jobs may write one dataset, two runs    *)
(* read it.                                                                   *)
EXTENDS BacktestRuns, TLC

Candle1(day) == [market |-> "btc", day |-> day, form |-> "sound"]

Call(market, stamp, payload) == [market |-> market, stamp |-> stamp, payload |-> payload]

\* Good data of either market, in either second; two candles of a day; a refused
\* candle; one that cannot be read; nothing.
AnyCall == { Call("btc", 1, <<Candle1(1), Candle1(2)>>),
             Call("eth", 2, <<[Candle1(1) EXCEPT !.market = "eth"]>>),
             Call("btc", 1, <<Candle1(1), Candle1(1)>>),
             Call("btc", 2, <<[Candle1(1) EXCEPT !.form = "refused"], Candle1(2)>>),
             Call("btc", 2, <<[Candle1(1) EXCEPT !.form = "unreadable"]>>),
             Call("btc", 1, <<>>) }
GoodCall == { Call("btc", 1, <<Candle1(1)>>) }

BothMarkets == <<"btc", "eth">>
OneMarket == <<"btc">>

Interchangeable == Permutations(Jobs) \cup Permutations(Runs)

EachOnce == [f \in FaultKinds |-> 1]
IoOnce == [f \in FaultKinds |-> IF f = "io" THEN 1 ELSE 0]
=============================================================================
