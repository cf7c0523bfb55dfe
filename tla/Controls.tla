------------------------------- MODULE Controls -------------------------------
(***************************************************************************)
(* The controls of a trading process as services/wiring.py puts them        *)
(* together: one kill switch, one reconciler, a live adapter and the ledger *)
(* its caller feeds the fills of sync_events, over one store.  The          *)
(* repository has no trading loop; here its calls come in any order.  The   *)
(* account and the orders at the broker are external.  UpbitLive has the    *)
(* adapter's own failures.                                                  *)
(***************************************************************************)
EXTENDS KillSwitch, Reconciliation, SequencesExt

CONSTANTS
    Orders,
    Terms,         \* Terms[o]: symbol, side, quantity and price of order o
    ByHand,        \* the orders the owner of the account places himself
    Moves,         \* changes of the account without a fill: deposits, withdrawals and
                   \* transfers of cash and positions, none of which is a purchase
    Prices,        \* market prices of the symbols
    StartNav,      \* start_of_day_nav, and the cash both sides start with
    Ages,          \* ages of the market data, in 1/Scale seconds
    daily_loss_limit, stale_market_data_seconds, allowed_symbols, max_gross_exposure,
    reject_rate_window, reject_rate_threshold,
    NoOrder, NoResult

OrderProjection == [broker_order_id : Orders \cup {NoOrder}, terms : Range(Terms),
             status : OrderStatus, filled_quantity : Nat]
FillKey == [id : Orders \X Nat, terms : Range(Terms), quantity : Nat \ {0}]

\* Cash goes, and of the positions some come and none goes.
IsPurchase(move) ==
    /\ move.cash < 0
    /\ \A s \in Symbols : move.positions[s] >= 0
    /\ \E s \in Symbols : move.positions[s] > 0

ASSUME ControlsAssumption ==
    /\ Reasons = {"daily_loss_limit", "unexpected_exposure", "stale_market_data",
                  "reconciliation_failure", "event_write_failure", "duplicate_intent",
                  "reject_rate_spike", "unknown_open_order"}
    /\ Terms \in [Orders -> [symbol : Symbols, side : {"BUY", "SELL"},
                             quantity : Nat \ {0}, price : Nat \ {0}]]
    /\ ByHand \subseteq Orders
    /\ Moves \subseteq [cash : Int, positions : [Symbols -> Int]]
    /\ \A move \in Moves : ~IsPurchase(move)
    /\ Prices \subseteq [Symbols -> Nat \ {0}]
    /\ StartNav \in Nat \ {0}
    /\ Ages \subseteq Int
    /\ daily_loss_limit \in Nat /\ max_gross_exposure \in Nat
    /\ stale_market_data_seconds \in Nat \ {0}
    /\ allowed_symbols \subseteq Symbols
    /\ reject_rate_window \in Nat \ {0}
    /\ reject_rate_threshold \in 1 .. Scale
    /\ NoOrder \notin Orders

VARIABLES
    local,         \* the process: the ledger's books, the adapter's orders and fills
    account,       \* what the broker has
    recent,        \* list_recent_orders: the last updated first
    result,        \* a reconciliation that has not been evaluated yet
    latest,        \* the status of the last row of reconciliation_log
    outside        \* history: what the account's Moves add up to

vars == <<killVars, local, account, recent, result, latest, outside>>

IsSide(side) ==
    /\ DOMAIN side = {"cash", "positions", "orders", "fills"}
    /\ side.cash \in Int
    /\ side.positions \in [Symbols -> Int]
    /\ DOMAIN side.orders \subseteq Orders /\ Range(side.orders) \subseteq OrderProjection
    /\ side.fills \subseteq FillKey

TypeOK ==
    /\ KillTypeOK
    /\ IsSide(local) /\ IsSide(account)
    /\ recent \in Seq(Orders)
    /\ result \in {"MATCHED", "MISMATCH", NoResult}
    /\ latest \in {"MATCHED", "MISMATCH", NoResult}
    /\ outside \in [cash : Int, positions : [Symbols -> Int]]

Flat == [cash |-> 0, positions |-> [s \in Symbols |-> 0]]

Init ==
    /\ KillInit
    /\ local = [cash |-> StartNav, positions |-> Flat.positions, orders |-> <<>>, fills |-> {}]
    /\ account = local
    /\ recent = <<>>
    /\ result = NoResult /\ latest = NoResult
    /\ outside = Flat

-----------------------------------------------------------------------------
(* Orders, here and at the broker.                                         *)

Order(o, id, status, filled) ==
    [broker_order_id |-> id, terms |-> Terms[o], status |-> status, filled_quantity |-> filled]
With(side, o, order) ==
    [side EXCEPT !.orders = [k \in DOMAIN @ \cup {o} |-> IF k = o THEN order ELSE @[k]]]
Touched(o) == recent' = <<o>> \o RemoveFirst(recent, o)

\* The broker names an execution by the volume executed up to it, as the adapter does.
Fill(o, filled, n) == [id |-> <<o, filled>>, terms |-> Terms[o], quantity |-> n]

\* Cash and positions after n more units of o; with n = -1, one less.
Booked(side, o, n) ==
    LET t == Terms[o]
        bought == IF t.side = "BUY" THEN n ELSE -n
    IN  [side EXCEPT !.cash = @ - bought * t.price,
                     !.positions[t.symbol] = @ + bought]

\* submit_intent of a new intent: stopped by the kill switch, refused by the broker,
\* answered, or sent without an answer (an Evaluate of "event_write_failure" follows).
Submit(o) ==
    /\ Called
    /\ o \notin ByHand \cup DOMAIN local.orders
    /\ \/ /\ ~can_submit_orders
          /\ local' = With(local, o, Order(o, NoOrder, "PRECHECK_REJECTED", 0))
          /\ UNCHANGED account
       \/ /\ can_submit_orders
          /\ local' = With(local, o, Order(o, NoOrder, "BROKER_REJECTED", 0))
          /\ UNCHANGED account
       \/ /\ can_submit_orders
          /\ local' = With(local, o, Order(o, o, "WORKING", 0))
          /\ account' = With(account, o, Order(o, o, "WORKING", 0))
       \/ /\ can_submit_orders
          /\ local' = With(local, o, Order(o, NoOrder, "RECONCILE_PENDING", 0))
          /\ account' = With(account, o, Order(o, o, "WORKING", 0))
    /\ Touched(o)
    /\ UNCHANGED <<killVars, result, latest, outside>>

\* The process polls for o, and there is news of it.
Behind(o) ==
    /\ o \in DOMAIN local.orders
    /\ local.orders[o].broker_order_id = o
    /\ local.orders[o].status \notin ClosedStatuses
    /\ local.orders[o] # account.orders[o]

\* apply_fill_event for n units of o: a sale beyond the position is refused, after the
\* lots are gone.
Ledger(side, o, n) ==
    LET t == Terms[o]
    IN  IF t.side = "SELL" /\ side.positions[t.symbol] < n
        THEN [side EXCEPT !.positions[t.symbol] = 0]
        ELSE Booked(side, o, n)

\* sync_events applies what the broker shows of one order whose id is known; whatever
\* was executed since the last time is one fill, which the caller gives the ledger.
Sync(o) ==
    /\ Called
    /\ Behind(o)
    /\ LET seen == account.orders[o]
           news == seen.filled_quantity - local.orders[o].filled_quantity
           known == With(local, o, seen)
       IN  local' = IF news = 0 THEN known
                    ELSE [Ledger(known, o, news) EXCEPT
                            !.fills = @ \cup {Fill(o, seen.filled_quantity, news)}]
    /\ Touched(o)
    /\ UNCHANGED <<killVars, account, result, latest, outside>>

PlaceByHand(o) ==
    /\ o \in ByHand \ DOMAIN account.orders
    /\ account' = With(account, o, Order(o, o, "WORKING", 0))
    /\ UNCHANGED <<killVars, local, recent, result, latest, outside>>

\* One unit of o, which the account can pay for or holds.
Execute(o) ==
    /\ o \in DOMAIN account.orders
    /\ account.orders[o].status \in {"WORKING", "PARTIALLY_FILLED"}
    /\ IF Terms[o].side = "BUY" THEN account.cash >= Terms[o].price
       ELSE account.positions[Terms[o].symbol] > 0
    /\ LET n == account.orders[o].filled_quantity + 1
           status == IF n = Terms[o].quantity THEN "FILLED" ELSE "PARTIALLY_FILLED"
       IN  account' = [Booked(With(account, o, Order(o, o, status, n)), o, 1) EXCEPT
                        !.fills = @ \cup {Fill(o, n, 1)}]
    /\ UNCHANGED <<killVars, local, recent, result, latest, outside>>

\* The broker takes back the last execution of an order it had filled.
Bust(o) ==
    /\ o \in DOMAIN account.orders
    /\ account.orders[o].status = "FILLED"
    /\ ~Behind(o)
    /\ LET n == Terms[o].quantity
       IN  account' = [Booked(With(account, o, Order(o, o, "BUSTED", n - 1)), o, -1) EXCEPT
                        !.fills = {f \in @ : f.id # <<o, n>>}]
    /\ UNCHANGED <<killVars, local, recent, result, latest, outside>>

\* A deposit, a withdrawal or a transfer.
Move(move) ==
    LET Moved(books) == [books EXCEPT !.cash = @ + move.cash,
                                !.positions = [s \in Symbols |-> @[s] + move.positions[s]]]
    IN  /\ outside = Flat
        /\ account' = Moved(account)
        /\ outside' = Moved(outside)
        /\ UNCHANGED <<killVars, local, recent, result, latest>>

-----------------------------------------------------------------------------
(* The evaluations: each ends in trigger, or does nothing.                  *)

Stays == UNCHANGED <<local, account, recent, result, latest, outside>>

Nav(prices) == local.cash + MapThenSumSet(LAMBDA s : local.positions[s] * prices[s], Symbols)

evaluate_daily_loss(prices) ==
    HalfUp((StartNav - Nav(prices)) * Scale, StartNav) >= daily_loss_limit

evaluate_unexpected_exposure(prices) ==
    LET held == {s \in Symbols : local.positions[s] # 0}
        Weight(s) == Magnitude(HalfUp(local.positions[s] * prices[s] * Scale, Nav(prices)))
        gross == IF Nav(prices) > 0 THEN MapThenSumSet(Weight, held) ELSE 0
    IN  \/ gross > max_gross_exposure
        \/ \E s \in held : allowed_symbols # {} /\ s \notin allowed_symbols
        \/ \E s \in held : local.positions[s] < 0

evaluate_market_data_freshness(age) == Larger(0, RoundDown(age, Scale)) > stale_market_data_seconds

evaluate_reject_rate_spike ==
    LET n == Smaller(Len(recent), reject_rate_window)
        rejected == {i \in 1 .. n : local.orders[recent[i]].status
                                      \in {"PRECHECK_REJECTED", "BROKER_REJECTED"}}
    IN  /\ n > 0
        /\ n >= Smaller(5, reject_rate_window)
        /\ HalfUp(Cardinality(rejected) * Scale, n) > reject_rate_threshold

\* The conditions under which the evaluations of a reason trigger.
Trips(reason) ==
    \/ reason \in {"event_write_failure", "duplicate_intent"}
    \/ reason = "daily_loss_limit" /\ \E p \in Prices : evaluate_daily_loss(p)
    \/ reason = "unexpected_exposure" /\ \E p \in Prices : evaluate_unexpected_exposure(p)
    \/ reason = "stale_market_data" /\ \E age \in Ages : evaluate_market_data_freshness(age)
    \/ reason = "reject_rate_spike" /\ evaluate_reject_rate_spike
    \/ /\ reason = "unknown_open_order"
       /\ \E o \in DOMAIN local.orders : local.orders[o].status = "RECONCILE_PENDING"

Evaluate(reason) ==
    /\ Trips(reason)
    /\ \E at \in Times : Trigger(reason, at)
    /\ Stays

\* reconcile, and the row it appends; when that fails the caller gets the error
\* instead of the result.
Reconcile ==
    /\ Called
    /\ result = NoResult
    /\ \/ /\ result' = IF reconcile(local, account) = {} THEN "MATCHED" ELSE "MISMATCH"
          /\ latest' = result'
          /\ UNCHANGED budget
       \/ /\ Strike("store")
          /\ UNCHANGED <<result, latest>>
    /\ UNCHANGED <<running, memoryVars, kill_rows, local, account, recent, outside>>

evaluate_reconciliation ==
    /\ Called
    /\ result # NoResult
    /\ \/ /\ result = "MATCHED" \/ active["reconciliation_failure"] # NoEvent
          /\ UNCHANGED killVars
       \/ /\ result = "MISMATCH"
          /\ \E at \in Times : Trigger("reconciliation_failure", at)
    /\ result' = NoResult
    /\ UNCHANGED <<local, account, recent, latest, outside>>

\* The adapter reads its orders and fills back from the store, and the ledger is fed
\* those fills again (sync_events of everything).
Die ==
    /\ Crash
    /\ result' = NoResult
    /\ UNCHANGED <<local, account, recent, latest, outside>>

-----------------------------------------------------------------------------
Next ==
    \/ \E o \in Orders : Submit(o) \/ Sync(o) \/ PlaceByHand(o) \/ Execute(o) \/ Bust(o)
    \/ \E move \in Moves : Move(move)
    \/ \E reason \in Reasons : Evaluate(reason)
    \/ Reconcile
    \/ evaluate_reconciliation
    \/ Reset /\ Stays
    \/ ClearNext /\ Stays
    \/ FinishReset /\ Stays
    \/ Die
    \/ Start /\ Stays
    \/ StartUnread /\ Stays

Spec == Init /\ [][Next]_vars

-----------------------------------------------------------------------------
(* Properties.                                                             *)

Within(move) ==
    /\ Magnitude(move.cash) <= cash_tolerance
    /\ \A s \in Symbols : Magnitude(move.positions[s]) <= position_tolerance

\* An order that came to nothing that lasts.
Nothing(orders, o) ==
    o \in DOMAIN orders =>
        orders[o].status \in ClosedStatuses /\ orders[o].filled_quantity = 0

\* Every order of the account, its owner's by hand included, is known as it is, or
\* came to nothing on either side.
OrdersKnown ==
    \A o \in DOMAIN account.orders :
        \/ Nothing(account.orders, o) /\ Nothing(local.orders, o)
        \/ o \in DOMAIN local.orders /\ local.orders[o] = account.orders[o]

\* No polling has skipped an execution.
SeenOneByOne == \A f \in local.fills : f.quantity = 1

Bought(fill) == IF fill.terms.side = "BUY" THEN fill.quantity ELSE -fill.quantity
Traded(fills, s) == SumFunction([f \in fills |-> IF f.terms.symbol = s THEN Bought(f) ELSE 0])

\* The ledger has refused nothing: it holds what the fills add up to.
LedgerFollows == \A s \in Symbols : local.positions[s] = Traded(local.fills, s)

InSync == Within(outside) /\ OrdersKnown /\ SeenOneByOne /\ LedgerFollows

TradesExceedTolerances ==
    position_tolerance < 1 /\ \A o \in Orders : cash_tolerance < Terms[o].price

\* Reconciliation matches if and only if the process knows everything the broker
\* did: every order as it is, every execution by itself, a ledger that refused
\* none, and no transfer beyond the tolerances.  No order in flight, fill taken
\* back, skipped execution or trade by hand cancels out with another or hides below
\* the tolerances, as long as one unit traded exceeds them.  (reconcile.)
MatchedMeansInSync == TradesExceedTolerances => (reconcile(local, account) = {} <=> InSync)
=============================================================================
