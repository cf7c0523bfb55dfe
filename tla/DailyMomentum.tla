----------------------------- MODULE DailyMomentum -----------------------------
(***************************************************************************)
(* Market data and DailyMomentumStrategy (quant_os/strategy/momentum.py).   *)
(* A market has at most one bar a day for a symbol, as a dataset has.  The  *)
(* mean of the closes is exact; the code computes it with floats.           *)
(***************************************************************************)
EXTENDS PortfolioAnalytics, SequencesExt

CONSTANTS
    LastDay,       \* the days of a market are 1 .. LastDay
    NoBar

Days == 1 .. LastDay
Bar == [open : Nat \ {0}, close : Nat \ {0}, volume : Nat]
Market == [Symbols -> [Days -> Bar \cup {NoBar}]]

ASSUME MarketAssumption == LastDay \in Nat \ {0} /\ NoBar \notin Bar

StrategyDefinition ==
    {d \in [universe : Seq(Symbols), max_names : Nat \ {0},
            target_gross_exposure_limit : 1 .. Scale, fast_lookback : Nat \ (0 .. 1),
            slow_lookback : Nat \ (0 .. 2), trend_lookback : Nat \ (0 .. 4)] :
        d.max_names <= Len(d.universe) /\ d.fast_lookback < d.slow_lookback}

required_history_window(config) == Larger(config.slow_lookback, config.trend_lookback)

\* The market as it was known on a day.
Upto(market, day) ==
    [s \in Symbols |-> [d \in Days |-> IF d <= day THEN market[s][d] ELSE NoBar]]

\* The days of S up to d, and the days of S in order: the i-th is the last of i.
Until(S, d) == {e \in S : e <= d}
InOrder(S) ==
    [i \in 1 .. Cardinality(S) |-> CHOOSE d \in S : Cardinality(Until(S, d)) = i]

BarDays(market, s) == {d \in Days : market[s][d] # NoBar}

\* Mutant: the bar of the next day is known already.
closes_one_ahead(market, s, as_of) ==
    LET days == InOrder(Until(BarDays(market, s), as_of + 1))
    IN  [i \in DOMAIN days |-> market[s][days[i]].close]

closes(market, s, as_of) ==
    LET days == InOrder(Until(BarDays(market, s), as_of))
    IN  [i \in DOMAIN days |-> market[s][days[i]].close]

\* The k-th close from the end, bars[-k].
Back(bars, k) == bars[Len(bars) + 1 - k]

compute_signal(bars, config) ==
    LET latest == Back(bars, 1)
        fast == Back(bars, config.fast_lookback)
        slow == Back(bars, config.slow_lookback)
        trend == SumFunction([k \in 1 .. config.trend_lookback |-> Back(bars, k)])
    IN  IF latest <= fast \/ latest <= slow \/ latest * config.trend_lookback < trend THEN 0
        ELSE HalfUp((latest * (fast + slow) - 2 * fast * slow) * Scale, fast * slow)

\* The targets, by the closes of every symbol.
Selected(bars, config) ==
    LET Signal(s) == IF Len(bars[s]) < required_history_window(config) THEN 0
                     ELSE compute_signal(bars[s], config)
        Rank(s) == CHOOSE i \in DOMAIN config.universe : config.universe[i] = s
        candidates == {s \in ToSet(config.universe) : Signal(s) > 0}
        Better(s, t) == \/ Signal(s) > Signal(t)
                        \/ Signal(s) = Signal(t) /\ Rank(s) < Rank(t)
        selected == {s \in candidates :
                        Cardinality({t \in candidates : Better(t, s)}) < config.max_names}
    IN  [s \in selected |->
            HalfUp(config.target_gross_exposure_limit, Cardinality(selected))]

generate_targets(market, as_of, config) ==
    Selected([s \in Symbols |-> closes(market, s, as_of)], config)
=============================================================================
