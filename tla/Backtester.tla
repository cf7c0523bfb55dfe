------------------------------ MODULE Backtester ------------------------------
(***************************************************************************)
(* SimpleBacktester.run (quant_os/backtest/simple.py): on every day of the  *)
(* timeline but the last the strategy is asked, its targets are reviewed    *)
(* and turned into intents, and the intents are executed one by one at the  *)
(* opening prices of the timeline's next day.  The market, the strategy and *)
(* the settings are inputs of the run: variables that no step changes.      *)
(***************************************************************************)
EXTENDS DailyMomentum, RiskReview, IntentGenerator

CONSTANTS
    Inputs,        \* the runs tried: a market, a strategy and settings each
    Rate           \* units of a rate in 1; a rate in bps has 10000

(* A strategy is DailyMomentum's definition, or a script: the targets of any  *)
(* other object with a generate_targets, day by day.                          *)
Targets == UNION {[S -> -Scale .. Scale] : S \in SUBSET Symbols}
Strategy == [momentum : StrategyDefinition] \cup [script : [Days -> Targets]]
Setting == [initial_cash : Nat \ {0}, commission : Nat, slippage : Nat,
            sell_tax : Nat, max_bar_volume_share : 1 .. Rate,
            risk : RiskPolicy, intent : IntentPolicy]

ASSUME InputAssumption ==
    /\ Rate \in Nat \ {0}
    /\ Inputs \subseteq [market : Market, strategy : Strategy, settings : Setting]

VARIABLES
    market, strategy, settings,
    phase,         \* where the loop is: "value", "trade", "done", or "raised"
    index,         \* the iteration: an index of the timeline
    cash, quantities, average_costs,
    portfolio,     \* what the last decision was taken on
    targets,       \* what the strategy then asked for ...
    intents, next, \* ... the intents that came of it, and the next to execute
    totals,        \* the run's sums, and day: day_traded_notional
    trades, equity_curve, peak_nav, max_drawdown

inputs == <<market, strategy, settings>>
books == <<cash, quantities, average_costs>>
decision == <<portfolio, targets, intents>>
curve == <<equity_curve, peak_nav, max_drawdown>>
vars == <<inputs, phase, index, books, decision, next, totals, trades, curve>>

-----------------------------------------------------------------------------
(* Pure helpers.                                                           *)

timeline == InOrder(UNION {BarDays(market, s) : s \in Symbols})

\* Mutant: today's price may be tomorrow's close.
price_map_one_ahead(m, day) ==
    LET Known(s) == Until(BarDays(m, s), day + 1)
    IN  [s \in {t \in Symbols : Known(t) # {}} |-> m[s][Max(Known(s))].close]

price_map(m, day) ==
    LET Known(s) == Until(BarDays(m, s), day)
    IN  [s \in {t \in Symbols : Known(t) # {}} |-> m[s][Max(Known(s))].close]

Value(money, held, prices) ==
    HalfUp(money * Scale + SumFunction([s \in DOMAIN held |-> held[s] * prices[s]]), Scale)

\* Mutant: positions that were closed stay on the list.
portfolio_state_with_empty(money, held, prices) ==
    LET positions == [s \in DOMAIN prices |-> held[s]]
    IN  [cash |-> money, nav |-> Larger(Value(money, positions, prices), 1),
         positions |-> positions, market_prices |-> prices]

\* Only symbols with a price count, and the net asset value is kept positive.
portfolio_state(money, held, prices) ==
    LET positions == [s \in {t \in DOMAIN prices : held[t] # 0} |-> held[s]]
    IN  [cash |-> money, nav |-> Larger(Value(money, positions, prices), 1),
         positions |-> positions, market_prices |-> prices]

TargetsOf(m, day) ==
    IF "momentum" \in DOMAIN strategy THEN generate_targets(m, day, strategy.momentum)
    ELSE strategy.script[day]

apply_slippage(price, side) ==
    HalfUp(price * (IF side = "SELL" THEN Rate - settings.slippage
                    ELSE Rate + settings.slippage), Rate)

\* Mutant: the commission is forgotten.
affordable_before_commission(price) ==
    LET lot == settings.intent.lot_size
    IN  RoundDown(cash * Scale, price * lot) * lot

affordable_quantity(price) ==
    LET lot == settings.intent.lot_size
    IN  RoundDown(cash * Rate * Scale, price * (Rate + settings.commission) * lot) * lot

volume_limited_quantity(volume) ==
    LET lot == settings.intent.lot_size
    IN  RoundDown(volume * settings.max_bar_volume_share, Rate * lot) * lot

Executed(intent, price, bar) ==
    Smaller(intent.quantity,
        Smaller(volume_limited_quantity(bar.volume),
                IF intent.side = "BUY" THEN affordable_quantity(price)
                ELSE quantities[intent.symbol]))

-----------------------------------------------------------------------------
(* The run.                                                                *)

Totals == [turnover : Int, commission : Int, tax : Int, slippage_cost : Int,
           notional : Int, day : Int]
Trade == [day : Days, symbol : Symbols, side : {"BUY", "SELL"}, quantity : Int,
          price : Int, notional : Int]

TypeOK ==
    /\ [market |-> market, strategy |-> strategy, settings |-> settings] \in Inputs
    /\ phase \in {"value", "trade", "done", "raised"}
    /\ index \in 1 .. LastDay
    /\ cash \in Int /\ peak_nav \in Nat \ {0} /\ max_drawdown \in Int
    /\ quantities \in [Symbols -> Int]
    /\ average_costs \in [Symbols -> Int]
    /\ IsPortfolio(portfolio)
    /\ IsDictionary(targets, -Scale .. Scale)
    /\ intents \in Seq(Intent)
    /\ next \in 1 .. Len(intents) + 1
    /\ totals \in Totals
    /\ trades \in Seq(Trade)
    /\ equity_curve \in Seq([day : Days, nav : Int, cash : Int])

Nothing == [s \in {} |-> 0]

Init ==
    /\ \E run \in Inputs :
        market = run.market /\ strategy = run.strategy /\ settings = run.settings
    /\ phase = IF timeline = <<>> THEN "done" ELSE "value"
    /\ index = 1
    /\ cash = settings.initial_cash
    /\ quantities = [s \in Symbols |-> 0]
    /\ average_costs = [s \in Symbols |-> 0]
    /\ portfolio = [cash |-> cash, nav |-> cash, positions |-> Nothing, market_prices |-> Nothing]
    /\ targets = Nothing
    /\ intents = <<>> /\ next = 1
    /\ totals = [turnover |-> 0, commission |-> 0, tax |-> 0, slippage_cost |-> 0,
                 notional |-> 0, day |-> 0]
    /\ trades = <<>> /\ equity_curve = <<>>
    /\ peak_nav = settings.initial_cash
    /\ max_drawdown = 0

\* What Position accepts: building any other raises a ValueError.
PositionsBuild ==
    \A s \in DOMAIN price_map(market, timeline[index]) :
        quantities[s] # 0 => average_costs[s] >= 0

RefusePosition ==
    /\ phase = "value"
    /\ ~PositionsBuild
    /\ phase' = "raised"
    /\ UNCHANGED <<inputs, index, books, decision, next, totals, trades, curve>>

\* Mutant: the peak is yesterday's value.
ValuationAgainstYesterday ==
    LET day == timeline[index]
        nav == Value(cash, quantities, [s \in Symbols |-> Get(price_map(market, day), s)])
        peak == Larger(peak_nav, nav)
    IN  /\ phase = "value"
        /\ PositionsBuild
        /\ equity_curve' = Append(equity_curve, [day |-> day, nav |-> nav, cash |-> cash])
        /\ peak_nav' = nav
        /\ max_drawdown' = Smaller(max_drawdown, HalfUp((nav - peak) * Scale, peak))

\* The head of the loop: the day's point of the equity and of the drawdown curve.
Valuation ==
    LET day == timeline[index]
        nav == Value(cash, quantities, [s \in Symbols |-> Get(price_map(market, day), s)])
        peak == Larger(peak_nav, nav)
    IN  /\ phase = "value"
        /\ PositionsBuild
        /\ equity_curve' = Append(equity_curve, [day |-> day, nav |-> nav, cash |-> cash])
        /\ peak_nav' = peak
        /\ max_drawdown' = Smaller(max_drawdown, HalfUp((nav - peak) * Scale, peak))

Finish ==
    /\ Valuation
    /\ index = Len(timeline)
    /\ phase' = "done"
    /\ UNCHANGED <<inputs, index, books, decision, next, totals, trades>>

\* The decision of a day, by what is known of the market m then.
Decision(m, day, money, held) ==
    LET pf == portfolio_state(money, held, price_map(m, day))
        asked == TargetsOf(m, day)
    IN  [portfolio |-> pf, targets |-> asked, approved |-> review(asked, pf, settings.risk)]

Decide ==
    LET made == Decision(market, timeline[index], cash, quantities)
        orders == diff_to_intents(made.approved, made.portfolio, settings.intent)
    IN  /\ Valuation
        /\ index < Len(timeline)
        /\ portfolio' = made.portfolio
        /\ targets' = made.targets
        /\ \/ /\ Valid(made.approved) /\ Built(orders)
              /\ intents' = orders
              /\ phase' = "trade"
           \/ /\ ~(Valid(made.approved) /\ Built(orders))
              /\ intents' = <<>>
              /\ phase' = "raised"
        /\ next' = 1
        /\ totals' = [totals EXCEPT !.day = 0]
        /\ UNCHANGED <<inputs, index, books, trades>>

-----------------------------------------------------------------------------
(* One intent.                                                             *)

execution_day == timeline[index + 1]
Bought(intent) == intent.side = "BUY"
Notional(quantity, price) == HalfUp(quantity * price, Scale)
Commission(notional) == HalfUp(notional * settings.commission, Rate)
sell_tax(notional, side) == IF side = "BUY" THEN 0 ELSE HalfUp(notional * settings.sell_tax, Rate)

Fillable(intent) ==
    LET bar == market[intent.symbol][execution_day]
    IN  bar # NoBar /\ Executed(intent, apply_slippage(bar.open, intent.side), bar) # 0

Skip(intent) ==
    /\ ~Fillable(intent)
    /\ UNCHANGED <<books, totals, trades>>

\* Mutant: a position that was closed keeps its average cost.
BookKeepingCost(intent, quantity, price) ==
    LET s == intent.symbol
        before == quantities[s]
    IN  IF Bought(intent)
        THEN /\ quantities' = [quantities EXCEPT ![s] = @ + quantity]
             /\ average_costs' = [average_costs EXCEPT ![s] =
                    HalfUp(before * @ + quantity * price, before + quantity)]
        ELSE /\ quantities' = [quantities EXCEPT ![s] = @ - quantity]
             /\ UNCHANGED average_costs

\* The part of _execute_intent that changes the holdings.
Book(intent, quantity, price) ==
    LET s == intent.symbol
        before == quantities[s]
    IN  IF Bought(intent)
        THEN /\ quantities' = [quantities EXCEPT ![s] = @ + quantity]
             /\ average_costs' = [average_costs EXCEPT ![s] =
                    IF before + quantity = 0 THEN 0
                    ELSE HalfUp(before * @ + quantity * price, before + quantity)]
        ELSE /\ quantities' = [quantities EXCEPT ![s] = @ - quantity]
             /\ average_costs' = [average_costs EXCEPT ![s] = IF before = quantity THEN 0 ELSE @]

\* Mutant: the sell tax is summed up and not paid.
PayWithoutTax(intent, notional) ==
    cash' = IF Bought(intent) THEN cash - notional - Commission(notional)
            ELSE cash + notional - Commission(notional)

Pay(intent, notional) ==
    cash' = IF Bought(intent) THEN cash - notional - Commission(notional)
            ELSE cash + notional - Commission(notional) - sell_tax(notional, intent.side)

Fill(intent) ==
    LET bar == market[intent.symbol][execution_day]
        price == apply_slippage(bar.open, intent.side)
        quantity == Executed(intent, price, bar)
        notional == Notional(quantity, price)
    IN  /\ Fillable(intent)
        /\ Book(intent, quantity, price)
        /\ Pay(intent, notional)
        /\ totals' = [totals EXCEPT
                !.day = @ + notional,
                !.notional = @ + notional,
                !.commission = @ + Commission(notional),
                !.tax = @ + sell_tax(notional, intent.side),
                !.slippage_cost = @ + HalfUp((IF Bought(intent) THEN price - bar.open
                                              ELSE bar.open - price) * quantity, Scale)]
        /\ trades' = Append(trades, [day |-> execution_day, symbol |-> intent.symbol,
                side |-> intent.side, quantity |-> quantity, price |-> price,
                notional |-> notional])

Execute ==
    /\ phase = "trade"
    /\ next <= Len(intents)
    /\ \/ Skip(intents[next])
       \/ Fill(intents[next])
    /\ next' = next + 1
    /\ UNCHANGED <<inputs, phase, index, decision, curve>>

CloseDay ==
    /\ phase = "trade"
    /\ next > Len(intents)
    /\ totals' = IF totals.day <= 0 THEN totals
                 ELSE [totals EXCEPT !.turnover = @ + HalfUp(totals.day * Scale, portfolio.nav)]
    /\ phase' = "value"
    /\ index' = index + 1
    /\ UNCHANGED <<inputs, books, decision, next, trades, curve>>

Next ==
    \/ RefusePosition
    \/ Decide
    \/ Execute
    \/ CloseDay
    \/ Finish

Spec == Init /\ [][Next]_vars /\ WF_vars(Next)

-----------------------------------------------------------------------------
(* Properties.                                                             *)

\* Whatever the market does later: the prices, the net asset value, the targets
\* and the intents of a day are those that the same code computes, from the same
\* books, on a market that ends that day.  (run, _price_map, generate_targets.)
NoLookAhead ==
    phase = "trade" =>
        LET day == timeline[index]
            blind == Decision(Upto(market, day), day, portfolio.cash,
                              [s \in Symbols |-> Get(portfolio.positions, s)])
        IN  /\ portfolio = blind.portfolio
            /\ targets = blind.targets
            /\ intents = diff_to_intents(blind.approved, blind.portfolio, settings.intent)

TradesOf(s, side) == {i \in DOMAIN trades : trades[i].symbol = s /\ trades[i].side = side}
SumOver(S, Of(_)) == SumFunction([i \in S |-> Of(trades[i])])

CashFollows ==
    LET Flow(t) == (IF t.side = "BUY" THEN -t.notional ELSE t.notional) - Commission(t.notional)
                       - sell_tax(t.notional, t.side)
    IN  cash = settings.initial_cash + SumOver(DOMAIN trades, Flow)

HoldingsFollow ==
    LET Quantity(t) == t.quantity
    IN  \A s \in Symbols : quantities[s] = SumOver(TradesOf(s, "BUY"), Quantity)
                                              - SumOver(TradesOf(s, "SELL"), Quantity)

TotalsFollow ==
    LET NotionalOf(t) == t.notional
        Costs(t) == Commission(t.notional) + sell_tax(t.notional, t.side)
    IN  /\ totals.notional = SumOver(DOMAIN trades, NotionalOf)
        /\ totals.commission + totals.tax = SumOver(DOMAIN trades, Costs)

\* Some buy was as cheap, and some as dear, as the average cost of what is held.
CostsFollow ==
    \A s \in Symbols :
        IF quantities[s] = 0 THEN average_costs[s] = 0
        ELSE \E i, j \in TradesOf(s, "BUY") :
                trades[i].price <= average_costs[s] /\ average_costs[s] <= trades[j].price

\* Every lot costs at least one unit of money.
LotsWorthAUnit ==
    \A s \in Symbols, d \in Days : market[s][d] # NoBar =>
        market[s][d].open * settings.intent.lot_size >= Scale

\* A sale brings more than it costs: the settings know no upper limit of a rate,
\* and a slippage of more than the price makes the price of a sale negative.
SalesPay == settings.slippage <= Rate /\ settings.commission + settings.sell_tax < Rate

\* The list of trades explains the run: cash, holdings, average costs and the
\* reported sums of costs are what the trades add up to, rounding included.
TradesExplainBooks ==
    CashFollows /\ HoldingsFollow /\ TotalsFollow /\ (LotsWorthAUnit /\ SalesPay => CostsFollow)

\* No trade sells what is not there, and none spends cash that is not there but
\* for one unit, which rounding the notional and the commission apart may cost.
\* Where a lot is worth less than that unit the code promises less: a negative
\* cash balance then makes a buy of a negative quantity affordable.
NeverShort ==
    LotsWorthAUnit /\ SalesPay =>
        /\ cash >= -1
        /\ \A s \in Symbols : quantities[s] >= 0
        /\ \A i \in DOMAIN trades : trades[i].quantity > 0

\* What a strategy asked for, once reviewed: between the limits and the current
\* weights name by name and in sum, and no further than the turnover limit from
\* the current weights, up to the rounding of every weight.  (review, fail_closed.)
\* An empty list of targets is not held to the turnover limit.
ReviewWithinLimits ==
    phase = "trade" /\ DOMAIN targets # {} /\ settings.risk.fail_closed =>
        LET approved == review(targets, portfolio, settings.risk)
            current == current_weights(portfolio)
            limits == settings.risk
            slack == Cardinality(DOMAIN current \cup DOMAIN targets)
        IN  /\ 2 * Between(approved, current) <= 2 * limits.max_turnover + slack
            /\ Gross(approved) <= Larger(Scale - limits.min_cash_buffer, Gross(current)) + slack
            /\ \A s \in DOMAIN approved :
                Magnitude(approved[s]) <= Larger(limits.max_single_name_weight,
                                                 Magnitude(Get(current, s)))

\* The reported drawdown is the deepest fall of the equity curve below what it,
\* or the initial cash, had been at before.
DrawdownOfCurve ==
    LET Peak(i) == Max({settings.initial_cash} \cup {equity_curve[k].nav : k \in 1 .. i})
        Fall(i) == HalfUp((equity_curve[i].nav - Peak(i)) * Scale, Peak(i))
    IN  max_drawdown = Min({0} \cup {Fall(i) : i \in DOMAIN equity_curve})
=============================================================================
