----------------------------- MODULE PaperTrading -----------------------------
(***************************************************************************)
(* Simulated execution: PaperAdapter (adapters/paper.py) over its order     *)
(* state machine and its LedgerProjector, the venue rules ShadowAdapter     *)
(* (adapters/shadow.py) puts in front of it, and the operational store both *)
(* write to.  Lot_size = 1 and MinNotional = 0: the paper adapter alone.     *)
(*                                                                         *)
(* One action is the code between two store transactions, as in UpbitLive. *)
(* The order in memory and its fill are one: an order has at most one fill. *)
(***************************************************************************)
EXTENDS LedgerProjector, OrderStatuses

CONSTANTS
    Orders,        \* local order ids
    Intents,       \* Intents[i]: the symbol, side and quantity of intent i
    InitialPrice,  \* InitialPrice[s]: the initial market price, 0 when missing
    Rate,          \* units of a ratio or of a rate in 1 (10000 in the code)
    Slippage, Commission,
    Lot_size, MinNotional,
    Policies,      \* the execution policies an adapter can be built with
    MaxFaults,     \* MaxFaults[f]: how often fault f may strike
    NoOrder, NoRow

Ids == DOMAIN Intents
FaultKinds == {"crash", "store"}

ASSUME PaperAssumption ==
    /\ \A i \in Ids : Intents[i] \in [symbol : Symbols, side : {"BUY", "SELL"}, qty : Nat \ {0}]
    /\ InitialPrice \in [Symbols -> Nat]
    /\ Rate \in Nat \ {0}
    /\ Slippage \in 0 .. Rate - 1
    /\ Commission \in Nat
    /\ Lot_size \in Nat \ {0}
    /\ MinNotional \in Nat
    /\ Policies \subseteq [ratio : 1 .. Rate, uncertain : BOOLEAN]
    /\ MaxFaults \in [FaultKinds -> Nat]

Row == [intent : Ids, status : OrderStatus, filled : Nat]
Fill == [order : Orders, intent : Ids, symbol : Symbols, side : {"BUY", "SELL"},
         qty : Nat, price : Nat, fee : Nat]
Entry == [order : Orders, amount : Int, balance : Int]
Snapshot == [cash : Int, realized : Int, held : [Symbols -> Nat]]

ASSUME PaperNullAssumption ==
    NoOrder \notin Orders /\ NoRow \notin Row /\ NoRow \notin Snapshot

VARIABLES
    rows,          \* orders: the persisted projections
    evts,          \* order_events: the persisted statuses of each order
    sfills,        \* fills
    cashRows,      \* cash_ledger
    snap,          \* pnl_snapshot and positions_snapshot: the latest
    killRow,       \* kill_switch_events: an active DUPLICATE_INTENT row
    mem,           \* the projections of both state machines
    claimed,       \* _intent_to_order
    declined,      \* the orders in ShadowAdapter._rejections
    prices,        \* _market_prices, 0 when missing
    log,           \* the fills of _event_log
    kill,          \* _kill_switch: DUPLICATE_INTENT is active
    policy,        \* _execution_policy
    ctl,           \* the call in progress
    budget         \* the faults that may still strike

storeVars == <<rows, evts, sfills, cashRows, snap, killRow>>
bookVars == <<ledgerVars, prices, log>>
vars == <<storeVars, bookVars, mem, claimed, declined, kill, policy, ctl, budget>>

Idle == [pc |-> "idle", cur |-> NoOrder]
cur == ctl.cur
Goto(label) == ctl' = [ctl EXCEPT !.pc = label]

TypeOK ==
    /\ cash \in Int /\ realized \in Int
    /\ lots \in [Symbols -> Seq(Lot)]
    /\ entries \in Seq(Entry)
    /\ rows \in [Orders -> Row \cup {NoRow}]
    /\ evts \in [Orders -> Seq(OrderStatus)]
    /\ sfills \in Seq(Fill)
    /\ cashRows \in Seq(Entry)
    /\ snap \in Snapshot \cup {NoRow}
    /\ killRow \in BOOLEAN /\ kill \in BOOLEAN
    /\ mem \in [Orders -> Row \cup {NoRow}]
    /\ claimed \in [Ids -> Orders \cup {NoOrder}]
    /\ declined \subseteq Orders
    /\ prices \in [Symbols -> Nat]
    /\ log \in Seq(Fill)
    /\ policy \in Policies
    /\ ctl \in [pc : {"down", "idle", "upsert", "step", "cash", "snapshot", "settle"},
                cur : Orders \cup {NoOrder}]
    /\ budget \in [FaultKinds -> Nat]

\* A new adapter: its books start from the portfolio it is given, whatever the
\* store holds.
NewAdapter(label) ==
    /\ mem' = [o \in Orders |-> NoRow]
    /\ claimed' = [i \in Ids |-> NoOrder]
    /\ declined' = {}
    /\ prices' = InitialPrice
    /\ log' = <<>>
    /\ cash' = InitialCash
    /\ realized' = 0
    /\ lots' = InitialLots
    /\ entries' = <<>>
    /\ ctl' = [Idle EXCEPT !.pc = label]

Init ==
    /\ rows = [o \in Orders |-> NoRow]
    /\ evts = [o \in Orders |-> <<>>]
    /\ sfills = <<>> /\ cashRows = <<>> /\ snap = NoRow /\ killRow = FALSE
    /\ LedgerInit
    /\ mem = [o \in Orders |-> NoRow]
    /\ claimed = [i \in Ids |-> NoOrder]
    /\ declined = {}
    /\ prices = InitialPrice
    /\ log = <<>>
    /\ kill = FALSE
    /\ policy \in Policies
    /\ ctl = Idle
    /\ budget = MaxFaults

-----------------------------------------------------------------------------
(***************************************************************************)
(* Recording an order event.                                               *)
(***************************************************************************)
Strike(f) == budget[f] > 0 /\ budget' = [budget EXCEPT ![f] = @ - 1]

\* A write that fails: the exception reaches the caller, nothing is stored.
StoreFails == Strike("store") /\ ctl' = Idle /\ UNCHANGED storeVars

\* _record_order_event for order o, whose projection has become p in memory: the
\* event is appended, then the projection is upserted.
Record(o, p) ==
    /\ mem' = [mem EXCEPT ![o] = p]
    /\ \/ /\ evts' = [evts EXCEPT ![o] = Append(@, p.status)]
          /\ ctl' = [pc |-> "upsert", cur |-> o]
          /\ UNCHANGED <<rows, sfills, cashRows, snap, killRow, budget>>
       \/ StoreFails

Move(o, status) ==
    /\ status \in ALLOWED_TRANSITIONS[mem[o].status]
    /\ Record(o, [mem[o] EXCEPT !.status = status])

\* orders.intent_id is unique.
IntentTaken == \E o \in Orders \ {cur} : rows[o] # NoRow /\ rows[o].intent = mem[cur].intent

\* The statuses at which the call in progress has more to do.
Underway == {"PLANNED", "APPROVED", "SUBMITTING", "ACKNOWLEDGED", "WORKING", "CANCEL_REQUESTED"}
AfterUpsert == ctl' = IF mem[cur].status \in Underway THEN [ctl EXCEPT !.pc = "step"] ELSE Idle

\* Mutant: orders.intent_id is not unique.
UpsertAnyIntent ==
    /\ ctl.pc = "upsert"
    /\ rows' = [rows EXCEPT ![cur] = mem[cur]]
    /\ AfterUpsert
    /\ UNCHANGED <<evts, sfills, cashRows, snap, killRow, bookVars, mem, claimed, declined,
                   kill, policy, budget>>

Upsert ==
    /\ ctl.pc = "upsert"
    /\ \/ /\ ~IntentTaken
          /\ rows' = [rows EXCEPT ![cur] = mem[cur]]
          /\ AfterUpsert
          /\ UNCHANGED <<evts, sfills, cashRows, snap, killRow, budget>>
       \/ IntentTaken /\ ctl' = Idle /\ UNCHANGED <<storeVars, budget>>
       \/ StoreFails
    /\ UNCHANGED <<bookVars, mem, claimed, declined, kill, policy>>

-----------------------------------------------------------------------------
(***************************************************************************)
(* submit_intent.                                                          *)
(***************************************************************************)

\* ShadowAdapter._validate_venue_rules.
VenueRefuses(i) ==
    LET want == Intents[i]
        price == prices[want.symbol]
    IN  \/ want.qty % Lot_size # 0
        \/ MinNotional > 0 /\ (price = 0 \/ HalfUp(want.qty * price, Scale) < MinNotional)

Fresh == {o \in Orders : rows[o] = NoRow /\ mem[o] = NoRow /\ evts[o] = <<>>}

\* The venue rules come first, so an intent they refuse is not claimed.
Submit(i) ==
    /\ ctl.pc = "idle"
    /\ VenueRefuses(i) \/ claimed[i] = NoOrder
    /\ Fresh # {}
    /\ LET o == CHOOSE new_id \in Fresh : TRUE
       IN  /\ IF VenueRefuses(i)
                THEN declined' = declined \cup {o} /\ UNCHANGED claimed
                ELSE claimed' = [claimed EXCEPT ![i] = o] /\ UNCHANGED declined
           /\ Record(o, [intent |-> i, status |-> "PLANNED", filled |-> 0])
    /\ UNCHANGED <<bookVars, kill, policy>>

\* A duplicate trips the kill switch, in memory and then in the store.
SubmitDuplicate(i) ==
    /\ ctl.pc = "idle"
    /\ ~VenueRefuses(i)
    /\ claimed[i] # NoOrder
    /\ kill' = TRUE
    /\ \/ /\ killRow' = (killRow \/ ~kill)
          /\ UNCHANGED <<rows, evts, sfills, cashRows, snap, ctl, budget>>
       \/ ~kill /\ StoreFails
    /\ UNCHANGED <<bookVars, mem, claimed, declined, policy>>

Order == Intents[mem[cur].intent]

\* _apply_slippage, and the commission on the whole quantity of the intent.
FillPrice ==
    HalfUp(prices[Order.symbol] * (IF Order.side = "BUY" THEN Rate + Slippage
                                                         ELSE Rate - Slippage), Rate)
Fee == HalfUp(Order.qty * FillPrice * Commission, Scale * Rate)

\* Mutant: the commission is not part of the cash a buy needs.
PrecheckFailsFeeless ==
    \/ kill
    \/ prices[Order.symbol] = 0
    \/ Order.side = "BUY" /\ cash < HalfUp(Order.qty * FillPrice, Scale)

PrecheckFails ==
    \/ kill
    \/ prices[Order.symbol] = 0
    \/ Order.side = "BUY" /\ cash < HalfUp(Order.qty * FillPrice, Scale) + Fee

\* Where an order goes from each status, until it works.
NextStatus(status) ==
    CASE status = "PLANNED" ->
            IF cur \in declined \/ PrecheckFails THEN "PRECHECK_REJECTED" ELSE "APPROVED"
      [] status = "APPROVED" -> "SUBMITTING"
      [] status = "SUBMITTING" ->
            IF policy.uncertain THEN "RECONCILE_PENDING" ELSE "ACKNOWLEDGED"
      [] status = "ACKNOWLEDGED" -> "WORKING"
      [] status = "CANCEL_REQUESTED" ->
            IF mem[cur].filled > 0 THEN "CANCELLED_PARTIAL" ELSE "CANCELLED"

Advance ==
    /\ ctl.pc = "step"
    /\ mem[cur].status # "WORKING"
    /\ Move(cur, NextStatus(mem[cur].status))
    /\ UNCHANGED <<bookVars, claimed, declined, kill, policy>>

-----------------------------------------------------------------------------
(***************************************************************************)
(* The fill, and what is stored of it: the fill, its cash entry, a         *)
(* snapshot of the books, and the order's last event.                      *)
(***************************************************************************)
FillQuantity == HalfUp(Order.qty * policy.ratio, Rate)
TheFill ==
    [order |-> cur, intent |-> mem[cur].intent, symbol |-> Order.symbol, side |-> Order.side,
     qty |-> FillQuantity, price |-> FillPrice, fee |-> Fee]

\* append_fill, after the ledger has taken the fill.
Keep(fill) ==
    /\ prices' = [prices EXCEPT ![fill.symbol] = fill.price]
    /\ log' = Append(log, fill)
    /\ \/ /\ sfills' = Append(sfills, fill)
          /\ Goto("cash")
          /\ UNCHANGED <<rows, evts, cashRows, snap, killRow, budget>>
       \/ StoreFails

\* _record_fill: the state machine takes the fill, then the ledger, then the
\* store.  A fill the ledger refuses stays in the state machine.  A quantity or
\* a price that rounds to nothing is no fill: the order stays WORKING.
RecordFill ==
    /\ ctl.pc = "step"
    /\ mem[cur].status = "WORKING"
    /\ \/ /\ FillQuantity = 0 \/ FillPrice = 0
          /\ ctl' = Idle
          /\ UNCHANGED <<storeVars, bookVars, mem, budget>>
       \/ /\ FillQuantity > 0 /\ FillPrice > 0
          /\ mem' = [mem EXCEPT ![cur].filled = FillQuantity]
          /\ \/ (BookBuy(TheFill) \/ BookSell(TheFill)) /\ Keep(TheFill)
             \/ /\ RefuseBuy(TheFill) \/ RefuseSell(TheFill)
                /\ ctl' = Idle
                /\ UNCHANGED <<storeVars, prices, log, budget>>
    /\ UNCHANGED <<claimed, declined, kill, policy>>

\* Mutants: the first entry is stored instead of the last; a cash entry that
\* cannot be written is passed over.
PutCashFirst ==
    /\ ctl.pc = "cash"
    /\ \/ /\ cashRows' = Append(cashRows, entries[1])
          /\ Goto("snapshot")
          /\ UNCHANGED <<rows, evts, sfills, snap, killRow, budget>>
       \/ StoreFails
    /\ UNCHANGED <<bookVars, mem, claimed, declined, kill, policy>>
PutCashBestEffort ==
    /\ ctl.pc = "cash"
    /\ \/ /\ cashRows' = Append(cashRows, entries[Len(entries)])
          /\ Goto("snapshot")
          /\ UNCHANGED <<rows, evts, sfills, snap, killRow, budget>>
       \/ Strike("store") /\ Goto("snapshot") /\ UNCHANGED storeVars
    /\ UNCHANGED <<bookVars, mem, claimed, declined, kill, policy>>

PutCash ==
    /\ ctl.pc = "cash"
    /\ \/ /\ cashRows' = Append(cashRows, entries[Len(entries)])
          /\ Goto("snapshot")
          /\ UNCHANGED <<rows, evts, sfills, snap, killRow, budget>>
       \/ StoreFails
    /\ UNCHANGED <<bookVars, mem, claimed, declined, kill, policy>>

Books == [cash |-> cash, realized |-> realized, held |-> [s \in Symbols |-> Holding(s)]]

PutSnapshot ==
    /\ ctl.pc = "snapshot"
    /\ \/ /\ snap' = Books
          /\ Goto("settle")
          /\ UNCHANGED <<rows, evts, sfills, cashRows, killRow, budget>>
       \/ StoreFails
    /\ UNCHANGED <<bookVars, mem, claimed, declined, kill, policy>>

Settle ==
    /\ ctl.pc = "settle"
    /\ Move(cur, IF mem[cur].filled = Order.qty THEN "FILLED" ELSE "PARTIALLY_FILLED")
    /\ UNCHANGED <<bookVars, claimed, declined, kill, policy>>

-----------------------------------------------------------------------------
(***************************************************************************)
(* cancel_order, the operator's reset, the process's end and start.        *)
(***************************************************************************)

\* The orders the venue rules refused are not the paper adapter's.
Cancel(o) ==
    /\ ctl.pc = "idle"
    /\ mem[o] # NoRow
    /\ o \notin declined
    /\ Move(o, "CANCEL_REQUESTED")
    /\ UNCHANGED <<bookVars, claimed, declined, kill, policy>>

Reset ==
    /\ ctl.pc = "idle"
    /\ kill
    /\ \/ /\ kill' = FALSE
          /\ killRow' = FALSE
          /\ UNCHANGED <<rows, evts, sfills, cashRows, snap, ctl, budget>>
       \/ StoreFails /\ UNCHANGED kill
    /\ UNCHANGED <<bookVars, mem, claimed, declined, policy>>

Crash ==
    /\ ctl.pc # "down"
    /\ Strike("crash")
    /\ NewAdapter("down")
    /\ kill' = FALSE
    /\ UNCHANGED <<storeVars, policy>>

Restart ==
    /\ ctl.pc = "down"
    /\ kill' = killRow
    /\ ctl' = Idle
    /\ UNCHANGED <<storeVars, bookVars, mem, claimed, declined, policy, budget>>

Next ==
    \/ \E i \in Ids : Submit(i) \/ SubmitDuplicate(i)
    \/ \E o \in Orders : Cancel(o)
    \/ Upsert \/ Advance \/ RecordFill \/ PutCash \/ PutSnapshot \/ Settle
    \/ Reset \/ Crash \/ Restart

Spec == Init /\ [][Next]_vars

-----------------------------------------------------------------------------
(***************************************************************************)
(* Properties.                                                             *)
(***************************************************************************)
SignedAmount(fill) ==
    IF fill.side = "BUY" THEN -(Gross(fill) + fill.fee) ELSE Gross(fill) - fill.fee
Traded(fills, s, side) ==
    SumFunction([k \in DOMAIN fills |->
        IF fills[k].symbol = s /\ fills[k].side = side THEN fills[k].qty ELSE 0])
InitialHolding(s) == SumFunction([k \in DOMAIN InitialLots[s] |-> InitialLots[s][k].qty])
FilledIn(fills, o) ==
    SumFunction([k \in DOMAIN fills |-> IF fills[k].order = o THEN fills[k].qty ELSE 0])

\* No fill was refused by the ledger: every fill in the state machine is in the log.
NoFillRefused == \A o \in Orders : mem[o] # NoRow => mem[o].filled = FilledIn(log, o)

\* The check of submit_intent, on the price before the fill and on the whole
\* quantity, is enough: cash never goes below zero, for full fills and for parts,
\* through every rounding.  The commission of a small part may exceed its
\* proceeds, so the rate must stay below the share that is filled.
CashNeverNegative == 2 * Commission <= policy.ratio => cash >= 0

\* The books are a projection of the fills: recomputed from the fills in the log
\* and the initial portfolio, cash is the same, and the holdings are, whatever
\* lots they were bought and sold in.
BooksFollowFills ==
    /\ cash = InitialCash + SumFunction([k \in DOMAIN log |-> SignedAmount(log[k])])
    /\ NoFillRefused => \A s \in Symbols :
          Holding(s) = InitialHolding(s) + Traded(log, s, "BUY") - Traded(log, s, "SELL")

\* No profit is made or lost by bookkeeping: what cash changed by is realized
\* profit and the change of the lots at cost, up to half a unit for each lot a
\* sale took from and for each whole unit bought.
AtCost(ls) ==
    SumFunction([s \in Symbols |->
        SumFunction([k \in DOMAIN ls[s] |-> ls[s][k].qty * ls[s][k].cost])])
Drift == Scale * (cash - InitialCash - realized) + AtCost(lots) - AtCost(InitialLots)
Roundings ==
    SumFunction([s \in Symbols |-> Traded(log, s, "BUY")])
        + Scale * (Len(log) + SumFunction([s \in Symbols |-> Len(InitialLots[s])]))
ProfitWithinRounding == NoFillRefused => 2 * Drift <= Roundings /\ -(2 * Drift) <= Roundings

\* An intent is executed at most once, whatever is submitted again and whenever
\* the process dies or a write fails: the store has one fill for it at most.
IntentExecutedOnce ==
    \A j, k \in DOMAIN sfills : sfills[j].intent = sfills[k].intent => j = k

\* An order the store shows as executed has its fill and its cash entry in the
\* store as well, though each is a transaction of its own: the last event comes
\* last, and nothing that fails is passed over.
ExecutedOrdersArePaid ==
    \A o \in Orders :
        rows[o] # NoRow /\ rows[o].status \in {"FILLED", "PARTIALLY_FILLED"}
        => /\ FilledIn(sfills, o) = rows[o].filled
           /\ \E k \in DOMAIN cashRows : cashRows[k].order = o

\* Between calls the stored books are the books in memory, as long as the process
\* has not died and no write has failed.
Spared(kinds) == \A f \in kinds : budget[f] = MaxFaults[f]
StoredBooksAgreeWhenIdle ==
    Spared({"crash", "store"}) /\ ctl.pc = "idle" =>
        /\ sfills = log
        /\ cashRows = entries
        /\ NoFillRefused /\ log # <<>> => snap = Books

-----------------------------------------------------------------------------
\* What the documents say and the code does not keep: the raw fill is stored even
\* if the ledger cannot process it.
FillsPreserved ==
    Spared({"crash", "store"}) /\ ctl.pc = "idle" =>
        \A o \in Orders : mem[o] # NoRow => mem[o].filled = FilledIn(sfills, o)
=============================================================================
