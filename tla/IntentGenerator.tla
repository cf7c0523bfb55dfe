---------------------------- MODULE IntentGenerator ----------------------------
(***************************************************************************)
(* TargetExposureIntentGenerator (quant_os/intent/generator.py): the orders *)
(* that bring the current weights to the approved ones, in the order of the *)
(* symbols' names.                                                          *)
(***************************************************************************)
EXTENDS PortfolioAnalytics, Sequences

CONSTANT SymbolOrder    \* the symbols, sorted by name

ASSUME SymbolOrderAssumption ==
    /\ SymbolOrder \in Seq(Symbols)
    /\ \A s \in Symbols : \E i \in DOMAIN SymbolOrder : SymbolOrder[i] = s
    /\ \A i, j \in DOMAIN SymbolOrder : SymbolOrder[i] = SymbolOrder[j] => i = j

IntentPolicy == [lot_size : Nat \ {0}, min_trade_notional : Nat]

Intent == [symbol : Symbols, side : {"BUY", "SELL"}, quantity : Nat \ {0}]

round_down_to_lot(quantity, lot_size) == RoundDown(quantity, lot_size) * lot_size

\* The quantity of the intent for symbol s, 0 when there is none.
IntentQuantity(delta, s, portfolio, policy) ==
    LET price == portfolio.market_prices[s]
        wanted == RoundDown(Magnitude(delta) * portfolio.nav, price * policy.lot_size)
                    * policy.lot_size
    IN  IF \/ s \notin DOMAIN portfolio.market_prices
           \/ Magnitude(delta) * portfolio.nav < policy.min_trade_notional * Scale
           \/ wanted = 0
        THEN 0
        ELSE IF delta > 0 THEN wanted
        ELSE Smaller(wanted, round_down_to_lot(Get(portfolio.positions, s), policy.lot_size))

\* A negative quantity, a sale out of a negative holding, is kept for Built.
diff_to_intents(targets, portfolio, policy) ==
    LET current == current_weights(portfolio)
        Delta(s) == Get(targets, s) - Get(current, s)
        Quantity(s) == IntentQuantity(Delta(s), s, portfolio, policy)
        Made(s) == [symbol |-> s, side |-> IF Delta(s) > 0 THEN "BUY" ELSE "SELL",
                    quantity |-> Quantity(s)]
        made[k \in 0 .. Len(SymbolOrder)] ==
            IF k = 0 THEN <<>>
            ELSE IF Quantity(SymbolOrder[k]) = 0 THEN made[k - 1]
            ELSE Append(made[k - 1], Made(SymbolOrder[k]))
    IN  made[Len(SymbolOrder)]

\* What OrderIntent accepts; building any other raises a ValueError.
Built(intents) == \A i \in DOMAIN intents : intents[i].quantity > 0
=============================================================================
