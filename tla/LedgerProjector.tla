---------------------------- MODULE LedgerProjector ----------------------------
(***************************************************************************)
(* quant_os/ledger/projector.py: cash, first-in-first-out lots and realized *)
(* profit, computed from the fills one by one.  Amounts, prices and         *)
(* quantities are whole numbers of 1/Scale (the code's quantize to four     *)
(* decimals has Scale = 10000), and every product is rounded where the code *)
(* rounds it.  The module has no Next: the adapter that owns the ledger     *)
(* applies the fills.                                                       *)
(***************************************************************************)
EXTENDS Integers, Sequences, FiniteSets, Functions

CONSTANTS
    Symbols,
    Scale,         \* units of money, and of quantity, in 1
    InitialCash,
    InitialLots    \* InitialLots[s]: at most one lot, the initial position in s

Lot == [qty : Nat, cost : Nat]

ASSUME LedgerAssumption ==
    /\ IsFiniteSet(Symbols)
    /\ Scale \in Nat \ {0}
    /\ InitialCash \in Nat
    /\ InitialLots \in [Symbols -> Seq(Lot)]

VARIABLES
    cash,          \* _cash_balance
    realized,      \* _realized_pnl
    lots,          \* _lots_by_symbol, oldest lot first
    entries        \* _cash_entries

ledgerVars == <<cash, realized, lots, entries>>

LedgerInit ==
    /\ cash = InitialCash
    /\ realized = 0
    /\ lots = InitialLots
    /\ entries = <<>>

\* quantize of a / b: ROUND_HALF_UP.
HalfUp(a, b) == (2 * a + b) \div (2 * b)

Gross(fill) == HalfUp(fill.qty * fill.price, Scale)
Holding(s) == SumFunction([k \in DOMAIN lots[s] |-> lots[s][k].qty])

\* The change of the cash balance and its entry.
Pay(fill, amount) ==
    /\ cash' = cash + amount
    /\ entries' = Append(entries,
            [order |-> fill.order, amount |-> amount, balance |-> cash + amount])

\* Mutant: the fee is left out of the unit cost.
UnitCostWithoutFee(fill) == HalfUp(Gross(fill) * Scale, fill.qty)

UnitCost(fill) == HalfUp((Gross(fill) + fill.fee) * Scale, fill.qty)

BookBuy(fill) ==
    /\ fill.side = "BUY"
    /\ UnitCost(fill) > 0
    /\ lots' = [lots EXCEPT ![fill.symbol] =
            Append(@, [qty |-> fill.qty, cost |-> UnitCost(fill)])]
    /\ Pay(fill, -(Gross(fill) + fill.fee))
    /\ UNCHANGED realized

\* A cost that rounds to nothing makes no lot: the ledger raises.
RefuseBuy(fill) ==
    /\ fill.side = "BUY"
    /\ UnitCost(fill) = 0
    /\ UNCHANGED ledgerVars

\* Mutant: more is taken from a lot than it has.
TakenUncapped(s, q, k) ==
    LET wanted == q - SumFunction([j \in 1 .. k - 1 |-> lots[s][j].qty])
    IN  IF wanted < 0 THEN 0 ELSE wanted

\* What a sale of q takes from lot k of symbol s: the older lots go first.
Taken(s, q, k) ==
    LET older == SumFunction([j \in 1 .. k - 1 |-> lots[s][j].qty])
        wanted == q - older
    IN  IF wanted < 0 THEN 0 ELSE IF wanted < lots[s][k].qty THEN wanted ELSE lots[s][k].qty

Remaining(s, q) ==
    [k \in DOMAIN lots[s] |-> [lots[s][k] EXCEPT !.qty = @ - Taken(s, q, k)]]
CostBasis(s, q) ==
    SumFunction([k \in DOMAIN lots[s] |-> HalfUp(Taken(s, q, k) * lots[s][k].cost, Scale)])

\* The lots with something left, in their order: of the first k, and of all.
LiveLots(ls) ==
    LET live[k \in 0 .. Len(ls)] ==
            IF k = 0 THEN <<>>
            ELSE IF ls[k].qty > 0 THEN Append(live[k - 1], ls[k]) ELSE live[k - 1]
    IN  live[Len(ls)]

\* Mutant: the lots sold stay.
BookSellKeeping(fill) ==
    LET net == Gross(fill) - fill.fee
    IN  /\ fill.side = "SELL"
        /\ fill.qty <= Holding(fill.symbol)
        /\ realized' = realized + net - CostBasis(fill.symbol, fill.qty)
        /\ Pay(fill, net)
        /\ UNCHANGED lots

BookSell(fill) ==
    LET s == fill.symbol
        net == Gross(fill) - fill.fee
    IN  /\ fill.side = "SELL"
        /\ fill.qty <= Holding(s)
        /\ lots' = [lots EXCEPT ![s] = LiveLots(Remaining(s, fill.qty))]
        /\ realized' = realized + net - CostBasis(s, fill.qty)
        /\ Pay(fill, net)

\* A sale beyond the position: the lots have been emptied by the time the ledger
\* raises, and the emptied lots stay in the list.
RefuseSell(fill) ==
    /\ fill.side = "SELL"
    /\ fill.qty > Holding(fill.symbol)
    /\ lots' = [lots EXCEPT ![fill.symbol] = Remaining(fill.symbol, fill.qty)]
    /\ UNCHANGED <<cash, realized, entries>>
=============================================================================
