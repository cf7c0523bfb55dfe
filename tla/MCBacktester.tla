----------------------------- MODULE MCBacktester -----------------------------
(* TLC instances of Backtester.  Amounts are hundredths, rates percents.       *)
EXTENDS Backtester

TheSymbols == {"A", "B"}
Order == <<"A", "B">>

Fluid(open, close) == [open |-> open, close |-> close, volume |-> 9000]
Thin(open, close) == [open |-> open, close |-> close, volume |-> 300]
Quiet(close) == Fluid(close, close)

\* The bars of a symbol: the first days as listed, none later.
Listed(bars) == [d \in 1 .. 7 |-> IF d \in DOMAIN bars THEN bars[d] ELSE NoBar]
Pairs(as, bs) == {[s \in TheSymbols |-> Listed(IF s = "A" THEN a ELSE b)] : a \in as, b \in bs}

Free == [max_single_name_weight |-> 100, min_cash_buffer |-> 0, max_turnover |-> 100, fail_closed |-> TRUE]
Tight == [max_single_name_weight |-> 60, min_cash_buffer |-> 30, max_turnover |-> 40, fail_closed |-> TRUE]
Costly == [initial_cash |-> 10000, commission |-> 9, slippage |-> 4, sell_tax |-> 7,
           max_bar_volume_share |-> 60, risk |-> Free,
           intent |-> [lot_size |-> 1, min_trade_notional |-> 0]]
Coarse == [Costly EXCEPT !.risk = Tight, !.intent = [lot_size |-> 50, min_trade_notional |-> 1500]]

(* Scripts, over three days: A rises or falls overnight or during the day, or  *)
(* trades thinly; B is missing on some days.                                   *)
Short == Pairs({<<Quiet(130), x, y>> : x, y \in {Fluid(130, 120), Fluid(270, 190), Thin(120, 270)}},
               [1 .. 3 -> {Quiet(110), Fluid(170, 110), NoBar}])
Lists == {[A |-> 60, B |-> 40], [A |-> 100], [A |-> -100, B |-> 100], [A |-> 0], Nothing}
Scripted(x, y) == [script |-> [d \in 1 .. 7 |-> IF d = 1 THEN x ELSE y]]
Scripts == [market : Short, strategy : {Scripted(x, y) : x, y \in Lists}, settings : {Costly, Coarse}]

(* Momentum, over seven days: the last three decide.                           *)
Ending(bars, x, y, z) == bars \o <<x, y, z>>
Long == Pairs({Ending(<<Quiet(100), Quiet(120), Quiet(110), Quiet(130)>>, x, y, z) :
                    x, y, z \in {Fluid(130, 150), Quiet(200), Quiet(90)}},
              {Ending(<<Quiet(110), Quiet(110), Quiet(110), Quiet(110)>>, x, y, z) :
                    x, y \in {Quiet(120), Quiet(170)}, z \in {Quiet(130), NoBar}})
Momentum(names) == [momentum |-> [universe |-> <<"B", "A">>, max_names |-> names,
    target_gross_exposure_limit |-> 90, fast_lookback |-> 2, slow_lookback |-> 3, trend_lookback |-> 5]]
Momenta == [market : Long, strategy : {Momentum(1), Momentum(2)}, settings : {Costly, Coarse}]

(* Pennies: the rounding of a cost is worth a unit, and a crash that leaves a  *)
(* position worth several times the rounded net asset value.                   *)
Penny == [Costly EXCEPT !.commission = 20, !.slippage = 0]
Pennies == [market : Pairs({[d \in 1 .. 3 |-> Quiet(250)]}, {[d \in 1 .. 3 |-> Quiet(150)]}),
            strategy : {Scripted(x, y) : x, y \in Lists},
            settings : {[Penny EXCEPT !.initial_cash = c] : c \in 1 .. 20}]
Crash == [market : Pairs({<<Quiet(130), Quiet(130), Quiet(130), Quiet(130), Quiet(130), Fluid(130, 5), Quiet(5)>>},
                         {[d \in 1 .. 7 |-> Quiet(110)]}),
          strategy : {[script |-> [d \in 1 .. 7 |-> IF d < 6 THEN [A |-> 100] ELSE [B |-> 100]]]},
          settings : {[Costly EXCEPT !.initial_cash = 47, !.commission = 40, !.slippage = 0,
                                     !.risk = [Free EXCEPT !.max_turnover = 40, !.fail_closed = f]] :
                        f \in BOOLEAN}]

(* A symbol whose lots are worth less than a unit: an overdrawn account buys a   *)
(* negative quantity, whose cost, or whose sale, is then refused.              *)
Cheap == [market : Pairs({[d \in 1 .. 4 |-> Quiet(a)] : a \in {130, 250}},
                         {<<Quiet(b), Quiet(b), Fluid(2, 5), Quiet(5)>> : b \in {20, 50}}),
          strategy : {[script |-> [d \in 1 .. 7 |->
                          IF d = 1 THEN [B |-> 10] ELSE IF d = 2 THEN [A |-> 80, B |-> 20] ELSE x]] :
                        x \in {Nothing, [A |-> 50, B |-> -100]}},
          settings : {[Penny EXCEPT !.initial_cash = c] : c \in {10, 44}}]

(* A slippage of more than the price: a sale is booked at a negative price.      *)
Skewed == [market : Pairs({<<Quiet(130), Fluid(130, 120), Quiet(110)>>}, {[d \in 1 .. 3 |-> Quiet(110)]}),
           strategy : {Scripted([A |-> 60, B |-> 40], x) : x \in {Nothing, [B |-> 100], [A |-> 0]}},
           settings : {[Costly EXCEPT !.slippage = p] : p \in {100, 120}}]

Runs == Scripts \cup Momenta \cup Pennies \cup Crash \cup Cheap \cup Skewed
=============================================================================
