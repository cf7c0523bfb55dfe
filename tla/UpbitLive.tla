------------------------------ MODULE UpbitLive ------------------------------
(***************************************************************************)
(* The live execution path: UpbitLiveAdapter (adapters/upbit_live.py) over *)
(* LiveAdapterBase (adapters/live.py), its OrderStateMachine, the          *)
(* operational store it writes to (db/store.py) and the exchange it calls. *)
(*                                                                         *)
(* The adapter is synchronous: one call at a time, each a sequence of      *)
(* network calls, in-memory transitions and store transactions.  Every     *)
(* store method commits on its own, so the process can die, or a write     *)
(* fail, between any two of them; and the exchange moves on between any    *)
(* two network calls.  One action of this module is the code between two   *)
(* such points.  ctl says where the call in progress stands.               *)
(*                                                                         *)
(* An order's exchange id is represented by the order itself: create_order *)
(* is called at most once for a local order id.                            *)
(***************************************************************************)
EXTENDS OrderStatuses, Integers, Sequences, Functions

CONSTANTS
    Orders,       \* local order ids; the identifier sent to the exchange
    Intents,      \* intent ids
    Priced,       \* the intents that are market buys, sent as an amount of money
    Quantity,     \* the quantity of every order, in lots
    Surplus,      \* how many lots more than that the money may buy
    MaxFaults,    \* MaxFaults[f]: how often fault f may strike
    NoOrder, NoRow, NoRemote, NoSnapshot

(* The faults: the process dies; a store transaction fails; a network call   *)
(* fails or its answer is lost; the exchange answers an HTTP error although  *)
(* it took the order; a price is missing, of a limit order or of what an     *)
(* answer says was executed; somebody else cancels the order, or the         *)
(* exchange puts it into a state of its own; the exchange answers a cancel   *)
(* request before the order is cancelled; its time stamps lie ahead of the   *)
(* adapter's clock; the store returns time stamps without their zone at a    *)
(* restart (SQLite does).                                                    *)
FaultKinds == {"crash", "store", "network", "gateway", "price", "external",
               "slow", "ahead", "naive"}

ASSUME UpbitAssumption ==
    /\ Priced \subseteq Intents
    /\ Quantity \in Nat \ {0}
    /\ Surplus \in Nat
    /\ MaxFaults \in [FaultKinds -> Nat]
    /\ NoOrder \notin Orders

Reasons == {"EVENT_WRITE_FAILURE", "DUPLICATE_INTENT"}

\* A row of the orders table, and a projection of the state machine.  acked:
\* broker_order_id is set.
Row == [intent : Intents, status : OrderStatus, filled : 0 .. Quantity, acked : BOOLEAN]
\* A row of the fills table: cum is the remote executed volume that
\* broker_fill_id ends in.
FillRow == [cum : 0 .. Quantity, qty : 0 .. Quantity]
\* The order as the exchange holds it.  asked: a cancel request was taken; other:
\* any state the adapter has no name for.
Remote == [intent : Intents, state : {"wait", "done", "cancel", "other"},
           executed : 0 .. Quantity + Surplus, asked : BOOLEAN]

ASSUME NullAssumption ==
    /\ NoRow \notin Row
    /\ NoRemote \notin Remote
    /\ NoSnapshot \notin [Orders -> Remote \cup {NoRemote}]

VARIABLES
    rows,      \* orders: the persisted projections
    evts,      \* order_events: the persisted statuses of each order, oldest first
    sfills,    \* fills: the persisted fills of each order, oldest first
    killRows,  \* kill_switch_events: the reasons with an active row
    mem,       \* _state_machine: the projections in memory
    claimed,   \* _intent_to_order
    known,     \* _known_broker_to_local: the orders whose exchange id is known
    clock,     \* last_event_at of each order, seen from the adapter's clock
    kill,      \* _kill_switch._active_by_reason
    remote,    \* the exchange's orders
    ctl,       \* the call in progress
    budget,    \* the faults that may still strike
    trouble    \* history: what failed in the last call

storeVars == <<rows, evts, sfills, killRows>>
memVars == <<mem, claimed, known, clock, kill>>
vars == <<storeVars, memVars, remote, ctl, budget, trouble>>

\* A store transaction; the network, when an order was created or cancelled, when
\* orders or the portfolio were read, or the ticker.
Failures == {"store", "create", "cancel", "read", "ticker"}

Labels == {"down", "idle", "check", "approved", "payload", "create", "upsert", "ack", "work",
           "fill", "settle", "after", "refresh", "pend", "mark", "trip", "cancel",
           "unbuildable", "refused", "lost"}

\* pc: what comes next; then: where _record_order_event returns to; cur: the
\* order in hand; todo, snap: the rest of a sync and the answer it works from;
\* sync: the try block of sync_events surrounds the step.
Idle == [pc |-> "idle", then |-> "idle", cur |-> NoOrder, todo |-> {},
         snap |-> NoSnapshot, sync |-> FALSE]

TypeOK ==
    /\ rows \in [Orders -> Row \cup {NoRow}]
    /\ evts \in [Orders -> Seq(OrderStatus)]
    /\ sfills \in [Orders -> Seq(FillRow)]
    /\ killRows \subseteq Reasons
    /\ mem \in [Orders -> Row \cup {NoRow}]
    /\ claimed \in [Intents -> Orders \cup {NoOrder}]
    /\ known \subseteq Orders
    /\ clock \in [Orders -> {"behind", "ahead", "naive"}]
    /\ kill \subseteq Reasons
    /\ remote \in [Orders -> Remote \cup {NoRemote}]
    /\ ctl \in [pc : Labels, then : Labels, cur : Orders \cup {NoOrder},
                todo : SUBSET Orders, sync : BOOLEAN,
                snap : [Orders -> Remote \cup {NoRemote}] \cup {NoSnapshot}]
    /\ budget \in [FaultKinds -> Nat]
    /\ trouble \subseteq Failures

Init ==
    /\ rows = [o \in Orders |-> NoRow]
    /\ evts = [o \in Orders |-> <<>>]
    /\ sfills = [o \in Orders |-> <<>>]
    /\ killRows = {}
    /\ mem = [o \in Orders |-> NoRow]
    /\ claimed = [i \in Intents |-> NoOrder]
    /\ known = {}
    /\ clock = [o \in Orders |-> "behind"]
    /\ kill = {}
    /\ remote = [o \in Orders |-> NoRemote]
    /\ ctl = Idle
    /\ budget = MaxFaults
    /\ trouble = {}

-----------------------------------------------------------------------------
(***************************************************************************)
(* Control and faults.                                                     *)
(***************************************************************************)
cur == ctl.cur

Goto(label) == ctl' = [ctl EXCEPT !.pc = label]

\* An exception: sync_events catches it and marks the open orders; from every
\* other place, and from that handler itself, it reaches the caller.
Raise == ctl' = IF ctl.sync THEN [Idle EXCEPT !.pc = "mark"] ELSE Idle

Strike(f) == budget[f] > 0 /\ budget' = [budget EXCEPT ![f] = @ - 1]
\* A call starts with nothing failed.
Kept == IF ctl.pc = "idle" THEN {} ELSE trouble
NoFault == UNCHANGED budget /\ trouble' = Kept
NetworkFails(call) == Strike("network") /\ trouble' = Kept \cup {call}
StoreFails == Strike("store") /\ trouble' = Kept \cup {"store"}

\* transition() compares occurred_at with last_event_at.  A time from _tick() is
\* too early once an exchange time stamp ahead of the adapter's clock has become
\* last_event_at (the clock gains one millisecond a call, never the lead); one
\* that is at least last_event_at is not.  Neither compares with a naive time.
CanStamp(o, at) == clock[o] = "behind" \/ (clock[o] = "ahead" /\ at = "snapshot")

\* An event stamped with an exchange time may put last_event_at ahead.
Stamp(o, at) ==
    \/ UNCHANGED <<clock, budget>>
    \/ /\ at = "snapshot"
       /\ clock[o] = "behind"
       /\ Strike("ahead")
       /\ clock' = [clock EXCEPT ![o] = "ahead"]

\* Mutant: the event is not appended.
RecordUnlogged(o, p, next, at) ==
    /\ mem' = [mem EXCEPT ![o] = p]
    /\ ctl' = [ctl EXCEPT !.pc = "upsert", !.then = next, !.cur = o]
    /\ NoFault
    /\ UNCHANGED <<storeVars, clock>>

\* _record_order_event for order o, whose projection has just become p in memory:
\* append the event, and go on to the upsert, which returns to label next.
Record(o, p, next, at) ==
    /\ mem' = [mem EXCEPT ![o] = p]
    /\ \/ /\ evts' = [evts EXCEPT ![o] = Append(@, p.status)]
          /\ ctl' = [ctl EXCEPT !.pc = "upsert", !.then = next, !.cur = o]
          /\ Stamp(o, at)
          /\ trouble' = Kept
       \/ /\ StoreFails
          /\ Raise
          /\ UNCHANGED <<evts, clock>>
    /\ UNCHANGED <<rows, sfills, killRows>>

\* A transition of order o to projection p, recorded; an exception when the
\* transition table or the clock forbids it.
Transition(o, p, next, at) ==
    IF p.status \in ALLOWED_TRANSITIONS[mem[o].status] /\ CanStamp(o, at)
      THEN Record(o, p, next, at)
      ELSE Raise /\ NoFault /\ UNCHANGED <<storeVars, mem, clock>>

To(o, status) == [mem[o] EXCEPT !.status = status]

\* upsert_order_projection: orders.intent_id is unique.
IntentTaken == \E o \in Orders \ {cur} : rows[o] # NoRow /\ rows[o].intent = mem[cur].intent

\* Mutant: orders.intent_id is not unique.
UpsertAnyIntent ==
    /\ ctl.pc = "upsert"
    /\ rows' = [rows EXCEPT ![cur] = mem[cur]]
    /\ ctl' = IF ctl.then = "idle" THEN Idle ELSE [ctl EXCEPT !.pc = ctl.then]
    /\ NoFault
    /\ UNCHANGED <<evts, sfills, killRows, memVars, remote>>

Upsert ==
    /\ ctl.pc = "upsert"
    /\ \/ /\ ~IntentTaken
          /\ rows' = [rows EXCEPT ![cur] = mem[cur]]
          /\ ctl' = IF ctl.then = "idle" THEN Idle ELSE [ctl EXCEPT !.pc = ctl.then]
          /\ NoFault
       \/ /\ IntentTaken
          /\ Raise
          /\ NoFault
          /\ UNCHANGED rows
       \/ /\ StoreFails
          /\ Raise
          /\ UNCHANGED rows
    /\ UNCHANGED <<evts, sfills, killRows, memVars, remote>>

-----------------------------------------------------------------------------
(***************************************************************************)
(* submit_intent.                                                          *)
(***************************************************************************)
Fresh(o) == rows[o] = NoRow /\ mem[o] = NoRow /\ evts[o] = <<>> /\ remote[o] = NoRemote

Submit(i) ==
    /\ ctl.pc = "idle"
    /\ claimed[i] = NoOrder
    /\ \E o \in Orders :
          /\ Fresh(o)
          /\ claimed' = [claimed EXCEPT ![i] = o]
          /\ Record(o, [intent |-> i, status |-> "PLANNED", filled |-> 0, acked |-> FALSE],
                    "check", "tick")
    /\ UNCHANGED <<known, kill, remote>>

\* KillSwitch.trigger: the reason is set in memory, then its event is saved.  A
\* reason already active is not saved again.
Trigger(reason) ==
    /\ kill' = kill \cup {reason}
    /\ \/ /\ killRows' = IF reason \in kill THEN killRows ELSE killRows \cup {reason}
          /\ NoFault
       \/ /\ reason \notin kill
          /\ StoreFails
          /\ UNCHANGED killRows
    /\ UNCHANGED <<rows, evts, sfills, mem, claimed, known, clock, remote>>

SubmitDuplicate(i) ==
    /\ ctl.pc = "idle"
    /\ claimed[i] # NoOrder
    /\ Trigger("DUPLICATE_INTENT")
    /\ UNCHANGED ctl

Check ==
    /\ ctl.pc = "check"
    /\ IF kill = {} THEN Transition(cur, To(cur, "APPROVED"), "approved", "tick")
                    ELSE Transition(cur, To(cur, "PRECHECK_REJECTED"), "idle", "tick")
    /\ UNCHANGED <<claimed, known, kill, remote>>

Approved ==
    /\ ctl.pc = "approved"
    /\ Transition(cur, To(cur, "SUBMITTING"), "payload", "tick")
    /\ UNCHANGED <<claimed, known, kill, remote>>

\* A limit order without a price has no payload, nor has a market buy when the
\* ticker's answer names none; nothing catches that the ticker cannot be fetched.
BuildPayload ==
    /\ ctl.pc = "payload"
    /\ \/ Goto("create") /\ NoFault
       \/ Strike("price") /\ Goto("unbuildable") /\ UNCHANGED trouble
       \/ mem[cur].intent \in Priced /\ NetworkFails("ticker") /\ Raise
    /\ UNCHANGED <<storeVars, memVars, remote>>

Unbuildable ==
    /\ ctl.pc = "unbuildable"
    /\ Transition(cur, To(cur, "PRECHECK_REJECTED"), "idle", "tick")
    /\ UNCHANGED <<claimed, known, kill, remote>>

\* What an order can have executed, and the states it can be in then: an order by
\* quantity is done when that is executed, one by money when the money is spent.
Limit(i) == IF i \in Priced THEN Quantity + Surplus ELSE Quantity
StatesAt(i, executed) ==
    IF i \in Priced THEN IF executed = 0 THEN {"wait"} ELSE {"wait", "done"}
                    ELSE IF executed = Quantity THEN {"done"} ELSE {"wait"}

\* The exchange's side of create_order: it holds the order, part of it may have
\* been executed by the time it answers.
Place(executed) ==
    \E state \in StatesAt(mem[cur].intent, executed) :
        remote' = [remote EXCEPT ![cur] =
            [intent |-> mem[cur].intent, executed |-> executed, asked |-> FALSE,
             state |-> state]]

Create ==
    /\ ctl.pc = "create"
    /\ \/ /\ \E executed \in 0 .. Limit(mem[cur].intent) : Place(executed)
          /\ ctl' = [ctl EXCEPT !.pc = "ack", !.snap = remote']
          /\ NoFault
       \/ Goto("refused") /\ NoFault /\ UNCHANGED remote
       \/ Strike("gateway") /\ Goto("refused") /\ Place(0) /\ UNCHANGED trouble
       \/ NetworkFails("create") /\ Goto("lost") /\ (Place(0) \/ UNCHANGED remote)
    /\ UNCHANGED <<storeVars, memVars>>

\* except UpbitApiError: whatever the HTTP status.
Refused ==
    /\ ctl.pc = "refused"
    /\ Transition(cur, To(cur, "BROKER_REJECTED"), "idle", "tick")
    /\ UNCHANGED <<claimed, known, kill, remote>>

\* Mutants: an exception of create_order is not caught; a lost answer is taken for
\* a refusal.
LostUncaught ==
    /\ ctl.pc = "lost"
    /\ Raise
    /\ NoFault
    /\ UNCHANGED <<storeVars, memVars, remote>>
LostIsRefused ==
    /\ ctl.pc = "lost"
    /\ Transition(cur, To(cur, "BROKER_REJECTED"), "trip", "tick")
    /\ UNCHANGED <<claimed, known, kill, remote>>

Lost ==
    /\ ctl.pc = "lost"
    /\ Transition(cur, To(cur, "RECONCILE_PENDING"), "trip", "tick")
    /\ UNCHANGED <<claimed, known, kill, remote>>

-----------------------------------------------------------------------------
(***************************************************************************)
(* _apply_remote_order_snapshot for order cur.                             *)
(***************************************************************************)

\* _map_upbit_state.  An order by money has no remaining volume.
Remaining(r) == IF r.intent \in Priced THEN 0 ELSE Quantity - r.executed
StatusOf(r) ==
    CASE r.state = "wait" -> IF r.executed > 0 THEN "PARTIALLY_FILLED" ELSE "WORKING"
      [] r.state = "done" -> "FILLED"
      [] r.state = "cancel" -> IF r.executed > 0 /\ Remaining(r) > 0
                                 THEN "CANCELLED_PARTIAL" ELSE "CANCELLED"
      [] r.state = "other" -> "RECONCILE_PENDING"
Target == StatusOf(ctl.snap[cur])

Acknowledge ==
    /\ ctl.pc = "ack"
    /\ known' = known \cup {cur}
    /\ IF mem[cur].acked
         THEN Goto("work") /\ NoFault /\ UNCHANGED <<storeVars, mem, clock>>
         ELSE Transition(cur, [To(cur, "ACKNOWLEDGED") EXCEPT !.acked = TRUE], "work", "snapshot")
    /\ UNCHANGED <<claimed, kill, remote>>

Work ==
    /\ ctl.pc = "work"
    /\ IF Target = "WORKING" /\ mem[cur].status = "ACKNOWLEDGED"
         THEN Transition(cur, To(cur, "WORKING"), "fill", "snapshot")
         ELSE Goto("fill") /\ NoFault /\ UNCHANGED <<storeVars, mem, clock>>
    /\ UNCHANGED <<claimed, known, kill, remote>>

\* Mutants: the executed volume is added to the filled quantity; it is stored as
\* the quantity of the fill.
RecordFillAdding(executed) ==
    /\ mem' = [mem EXCEPT ![cur].filled = @ + executed]
    /\ sfills' = [sfills EXCEPT ![cur] = Append(@, [cum |-> executed, qty |-> executed])]
    /\ ctl' = [ctl EXCEPT !.pc = "upsert", !.then = "settle"]
    /\ NoFault
    /\ UNCHANGED <<rows, evts, killRows, clock>>
RecordFillWhole(executed) ==
    /\ mem' = [mem EXCEPT ![cur].filled = executed]
    /\ sfills' = [sfills EXCEPT ![cur] = Append(@, [cum |-> executed, qty |-> executed])]
    /\ ctl' = [ctl EXCEPT !.pc = "upsert", !.then = "settle"]
    /\ NoFault
    /\ UNCHANGED <<rows, evts, killRows, clock>>

\* _record_fill: the state machine takes the fill first, then the row is appended
\* (fills.broker_fill_id is unique), then the projection is upserted.
RecordFill(executed) ==
    /\ mem' = [mem EXCEPT ![cur].filled = executed]
    /\ \/ /\ \A k \in DOMAIN sfills[cur] : sfills[cur][k].cum # executed
          /\ sfills' = [sfills EXCEPT ![cur] =
                Append(@, [cum |-> executed, qty |-> executed - mem[cur].filled])]
          /\ ctl' = [ctl EXCEPT !.pc = "upsert", !.then = "settle"]
          /\ Stamp(cur, "snapshot")
          /\ UNCHANGED trouble
       \/ /\ \E k \in DOMAIN sfills[cur] : sfills[cur][k].cum = executed
          /\ Raise
          /\ NoFault
          /\ UNCHANGED <<sfills, clock>>
       \/ /\ StoreFails
          /\ Raise
          /\ UNCHANGED <<sfills, clock>>
    /\ UNCHANGED <<rows, evts, killRows>>

\* record_fill refuses a fill of a closed order, and one over its quantity.
Fillable(executed) ==
    mem[cur].status \in FillableStatuses /\ CanStamp(cur, "snapshot") /\ executed <= Quantity

\* A fill needs a price, which the answer may not name.
SyncFillDelta ==
    /\ ctl.pc = "fill"
    /\ LET executed == ctl.snap[cur].executed
       IN  \/ /\ executed <= mem[cur].filled
              /\ Goto("settle") /\ NoFault /\ UNCHANGED <<storeVars, mem, clock>>
           \/ /\ executed > mem[cur].filled
              /\ IF Fillable(executed) THEN RecordFill(executed)
                 ELSE Raise /\ NoFault /\ UNCHANGED <<storeVars, mem, clock>>
           \/ /\ executed > mem[cur].filled
              /\ Strike("price")
              /\ Raise
              /\ UNCHANGED <<storeVars, mem, clock, trouble>>
    /\ UNCHANGED <<claimed, known, kill, remote>>

Settle ==
    /\ ctl.pc = "settle"
    /\ IF Target # mem[cur].status
         THEN Transition(cur, To(cur, Target), "after", "snapshot")
         ELSE Goto("after") /\ NoFault /\ UNCHANGED <<storeVars, mem, clock>>
    /\ UNCHANGED <<claimed, known, kill, remote>>

\* Mutant: only one order of the answer is looked at.
NextOrderNone ==
    /\ ctl.pc = "after"
    /\ Goto("refresh")
    /\ NoFault
    /\ UNCHANGED <<storeVars, memVars, remote>>

\* sync_events goes on to the next order of the answer, in any order.
NextOrder ==
    /\ ctl.pc = "after"
    /\ \/ ctl.todo = {} /\ Goto("refresh")
       \/ \E o \in ctl.todo :
             ctl' = [ctl EXCEPT !.pc = "ack", !.cur = o, !.todo = @ \ {o}]
    /\ NoFault
    /\ UNCHANGED <<storeVars, memVars, remote>>

\* _refresh_portfolio_from_accounts, the last step of every call; the portfolio
\* itself is left out.
Refresh ==
    /\ ctl.pc = "refresh"
    /\ \/ ctl' = Idle /\ NoFault
       \/ NetworkFails("read") /\ IF ctl.sync THEN Raise ELSE Goto("pend")
    /\ UNCHANGED <<storeVars, memVars, remote>>

-----------------------------------------------------------------------------
(***************************************************************************)
(* Failing closed.                                                         *)
(***************************************************************************)

\* _transition_to_reconcile_pending leaves these alone.
Settled == {"RECONCILE_PENDING", "FILLED", "CANCELLED", "CANCELLED_PARTIAL", "EXPIRED",
            "BROKER_REJECTED", "PRECHECK_REJECTED", "BUSTED"}

\* Mutant: the call ends here when the order is settled already.
PendAndStop ==
    /\ ctl.pc = "pend"
    /\ IF mem[cur].status \in Settled
         THEN ctl' = Idle /\ NoFault /\ UNCHANGED <<storeVars, mem, clock>>
         ELSE Transition(cur, To(cur, "RECONCILE_PENDING"), "trip", "tick")
    /\ UNCHANGED <<claimed, known, kill, remote>>

Pend ==
    /\ ctl.pc = "pend"
    /\ IF mem[cur].status \in Settled
         THEN Goto("trip") /\ NoFault /\ UNCHANGED <<storeVars, mem, clock>>
         ELSE Transition(cur, To(cur, "RECONCILE_PENDING"), "trip", "tick")
    /\ UNCHANGED <<claimed, known, kill, remote>>

\* _mark_all_open_orders_reconcile_pending.
Marked == {"PLANNED", "APPROVED", "SUBMITTING", "ACKNOWLEDGED", "WORKING",
           "PARTIALLY_FILLED", "CANCEL_REQUESTED"}
OpenInMemory == {o \in Orders : mem[o] # NoRow /\ mem[o].status \in Marked}

\* projections() sorts by updated_at: naive and aware times do not compare.
Unsortable == \E p, q \in Orders : mem[p] # NoRow /\ mem[q] # NoRow
                                     /\ clock[p] = "naive" /\ clock[q] # "naive"

MarkAllOpen ==
    /\ ctl.pc = "mark"
    /\ \/ Unsortable /\ Raise /\ NoFault /\ UNCHANGED <<storeVars, mem, clock>>
       \/ /\ ~Unsortable
          /\ OpenInMemory = {}
          /\ Goto("trip")
          /\ NoFault
          /\ UNCHANGED <<storeVars, mem, clock>>
       \/ /\ ~Unsortable
          /\ \E o \in OpenInMemory : Transition(o, To(o, "RECONCILE_PENDING"), "mark", "tick")
    /\ UNCHANGED <<claimed, known, kill, remote>>

\* _note_operational_failure; then the call returns or raises.
Trip ==
    /\ ctl.pc = "trip"
    /\ Trigger("EVENT_WRITE_FAILURE")
    /\ ctl' = Idle

-----------------------------------------------------------------------------
(***************************************************************************)
(* cancel_order, sync_events, get_portfolio_state, KillSwitch.reset.       *)
(***************************************************************************)
Cancel(o) ==
    /\ ctl.pc = "idle"
    /\ o \in known
    /\ IF mem[o].status \in {"WORKING", "ACKNOWLEDGED", "PARTIALLY_FILLED"}
         THEN Transition(o, To(o, "CANCEL_REQUESTED"), "cancel", "tick")
         ELSE ctl' = [ctl EXCEPT !.pc = "cancel", !.cur = o] /\ NoFault
              /\ UNCHANGED <<storeVars, mem, clock>>
    /\ UNCHANGED <<claimed, known, kill, remote>>

\* The exchange's side of cancel_order: it cancels a waiting order, at once or
\* some time after it has taken the request.
TakeCancel(state) ==
    /\ remote[cur].state = "wait"
    /\ remote' = [remote EXCEPT ![cur].state = state, ![cur].asked = TRUE]

CallCancel ==
    /\ ctl.pc = "cancel"
    /\ \/ /\ \/ TakeCancel("cancel") /\ NoFault
             \/ TakeCancel("wait") /\ Strike("slow") /\ UNCHANGED trouble
          /\ ctl' = [ctl EXCEPT !.pc = "ack", !.snap = remote']
       \/ remote[cur].state # "wait" /\ Goto("pend") /\ NoFault /\ UNCHANGED remote
       \/ NetworkFails("cancel") /\ Goto("pend") /\ (TakeCancel("cancel") \/ UNCHANGED remote)
    /\ UNCHANGED <<storeVars, memVars>>

\* All orders whose exchange id is known are asked for, closed ones included.
Sync ==
    /\ ctl.pc = "idle"
    /\ \/ known = {} /\ ctl' = [Idle EXCEPT !.pc = "refresh", !.sync = TRUE] /\ NoFault
       \/ /\ \E o \in known :
                ctl' = [Idle EXCEPT !.pc = "ack", !.cur = o, !.todo = known \ {o},
                                    !.snap = remote, !.sync = TRUE]
          /\ NoFault
       \/ known # {} /\ NetworkFails("read") /\ ctl' = [Idle EXCEPT !.pc = "mark"]
    /\ UNCHANGED <<storeVars, memVars, remote>>

\* Only its failure changes anything modelled here.
GetPortfolioState ==
    /\ ctl.pc = "idle"
    /\ NetworkFails("read")
    /\ ctl' = [Idle EXCEPT !.pc = "mark"]
    /\ UNCHANGED <<storeVars, memVars, remote>>

\* The operator clears the active reasons: each one's event in the store, then
\* all of them in memory, unless saving one fails.
Reset ==
    /\ ctl.pc = "idle"
    /\ kill # {}
    /\ \/ /\ kill' = {}
          /\ killRows' = killRows \ kill
          /\ NoFault
       \/ /\ \E reason \in kill, cleared \in SUBSET kill :
                reason \notin cleared /\ killRows' = killRows \ cleared
          /\ StoreFails
          /\ UNCHANGED kill
    /\ UNCHANGED <<rows, evts, sfills, mem, claimed, known, clock, remote, ctl>>

-----------------------------------------------------------------------------
(***************************************************************************)
(* The exchange, and the process's end and start.                          *)
(***************************************************************************)
Execute(o) ==
    /\ remote[o] # NoRemote
    /\ remote[o].state = "wait"
    /\ \E e \in remote[o].executed + 1 .. Limit(remote[o].intent) :
          \E state \in StatesAt(remote[o].intent, e) :
              remote' = [remote EXCEPT ![o].executed = e, ![o].state = state]
    /\ UNCHANGED <<storeVars, memVars, ctl, budget, trouble>>

CancelAtExchange(o) ==
    /\ remote[o] # NoRemote
    /\ remote[o].state = "wait"
    /\ \/ /\ remote[o].asked
          /\ remote' = [remote EXCEPT ![o].state = "cancel"]
          /\ UNCHANGED budget
       \/ /\ ~remote[o].asked
          /\ Strike("external")
          /\ \E state \in {"cancel", "other"} : remote' = [remote EXCEPT ![o].state = state]
    /\ UNCHANGED <<storeVars, memVars, ctl, trouble>>

Crash ==
    /\ ctl.pc # "down"
    /\ Strike("crash")
    /\ mem' = [o \in Orders |-> NoRow]
    /\ claimed' = [i \in Intents |-> NoOrder]
    /\ known' = {}
    /\ clock' = [o \in Orders |-> "behind"]
    /\ kill' = {}
    /\ ctl' = [Idle EXCEPT !.pc = "down"]
    /\ trouble' = {}
    /\ UNCHANGED <<storeVars, remote>>

\* _bootstrap_from_store: only the orders with an exchange id come back, each as
\* restored shows it.  The adapter's clock starts at the present.
BackFrom(restored) ==
    LET back == {o \in Orders : rows[o] # NoRow /\ rows[o].acked}
    IN  /\ mem' = [o \in Orders |-> IF o \in back THEN restored[o] ELSE NoRow]
        /\ \E c \in [Intents -> Orders \cup {NoOrder}] :
              /\ \A i \in Intents :
                    IF \E o \in back : rows[o].intent = i
                      THEN c[i] \in back /\ rows[c[i]].intent = i
                      ELSE c[i] = NoOrder
              /\ claimed' = c
        /\ known' = back
        /\ \/ clock' = [o \in Orders |-> "behind"] /\ UNCHANGED budget
           \/ /\ clock' = [o \in Orders |-> IF o \in back THEN "naive" ELSE "behind"]
              /\ Strike("naive")

\* Mutant: the filled quantities are not restored.
RestartUnfilled ==
    /\ ctl.pc = "down"
    /\ kill' = killRows
    /\ BackFrom([o \in Orders |-> IF rows[o] = NoRow THEN NoRow ELSE [rows[o] EXCEPT !.filled = 0]])
    /\ ctl' = Idle
    /\ trouble' = {}
    /\ UNCHANGED <<storeVars, remote>>

\* KillSwitch._hydrate_from_store, then the adapter's.
Restart ==
    /\ ctl.pc = "down"
    /\ kill' = killRows
    /\ BackFrom(rows)
    /\ ctl' = Idle
    /\ trouble' = {}
    /\ UNCHANGED <<storeVars, remote>>

-----------------------------------------------------------------------------
Step == \/ Upsert \/ Check \/ Approved \/ BuildPayload \/ Unbuildable \/ Create \/ Refused
        \/ Lost \/ Acknowledge \/ Work \/ SyncFillDelta \/ Settle \/ NextOrder \/ Refresh
        \/ Pend \/ MarkAllOpen \/ Trip \/ CallCancel

Exchange == \E o \in Orders : Execute(o) \/ CancelAtExchange(o)

Next ==
    \/ \E i \in Intents : Submit(i) \/ SubmitDuplicate(i)
    \/ \E o \in Orders : Cancel(o)
    \/ Sync \/ GetPortfolioState \/ Reset
    \/ Step
    \/ Exchange
    \/ Crash \/ Restart

Spec == Init /\ [][Next]_vars

\* A call in progress goes on (no network call blocks for ever: the transport has
\* a timeout), the process is started again, and its caller keeps polling: between
\* any two other calls it makes, sync_events is called again and again.
FairSpec == Spec /\ WF_vars(Step) /\ WF_vars(Restart) /\ SF_vars(Sync)

-----------------------------------------------------------------------------
(***************************************************************************)
(* Properties.                                                             *)
(***************************************************************************)
Placed(o) == remote[o] # NoRemote
StoredFilled(o) == SumFunction([k \in DOMAIN sfills[o] |-> sfills[o][k].qty])

\* The exchange never holds two orders for one intent, whatever call is repeated
\* after whatever failure or restart: the store's unique intent_id backs up the
\* claims in memory, and the order is stored before it is sent.
OneOrderPerIntent ==
    \A p, q \in Orders : Placed(p) /\ Placed(q) /\ p # q => remote[p].intent # remote[q].intent

\* No fault of these kinds has struck so far.
Spared(kinds) == \A f \in kinds : budget[f] = MaxFaults[f]

\* An order that waits at the exchange is one list_open_orders finds in the store,
\* under the intent it was sent for, though the process may have died and any
\* write may have failed: the store is ahead when the order goes out and never
\* closes it before the exchange does, unless an order was taken for refused.
OpenStatuses == {"PLANNED", "APPROVED", "SUBMITTING", "ACKNOWLEDGED", "WORKING",
                 "PARTIALLY_FILLED", "CANCEL_REQUESTED", "RECONCILE_PENDING",
                 "MANUAL_INTERVENTION"}
LiveOrderListed ==
    Spared({"gateway"}) => \A o \in Orders : Placed(o) /\ remote[o].state = "wait" =>
        /\ rows[o] # NoRow
        /\ rows[o].intent = remote[o].intent
        /\ rows[o].status \in OpenStatuses

\* No projection, in memory or in the store, shows more filled than the exchange
\* has executed; nor do the stored fills add up to more, as long as the process has
\* not died (after a fill is appended and before the projection is, the next one
\* would repeat its quantity).
Executed(o) == IF Placed(o) THEN remote[o].executed ELSE 0
NeverOverbooked ==
    \A o \in Orders :
        /\ \A p \in {mem[o], rows[o]} : p # NoRow => p.filled <= Executed(o)
        /\ Spared({"crash"}) => StoredFilled(o) <= Executed(o)

\* A call may raise half-way: for a price or a ticker that is missing, a write that
\* fails, a transition that is refused.  However it ended, an order it has left
\* PLANNED, APPROVED or SUBMITTING in memory was never sent: what may have reached
\* the exchange is acknowledged, refused or pending before submit_intent is left.
UnsentStatuses == {"PLANNED", "APPROVED", "SUBMITTING"}
InterruptedWasUnsent ==
    ctl.pc = "idle" =>
        \A o \in Orders : mem[o] # NoRow /\ mem[o].status \in UnsentStatuses => ~Placed(o)

\* No order reaches the exchange while the kill switch is active, though it is
\* read long before create_order is called.
NoOrderWhileTripped == [][\A o \in Orders : ~Placed(o) /\ Placed(o)' => kill = {}]_vars

\* What the store says of an order never goes back, across restarts and failed
\* writes: the filled quantity does not shrink, a closed order stays closed.
StoredOrderNeverReopens ==
    [][\A o \in Orders : rows[o] # NoRow =>
          /\ rows'[o].filled >= rows[o].filled
          /\ rows[o].status \in TerminalStatuses => rows'[o].status = rows[o].status]_vars

\* orders is a projection of the append-only tables, after a crash too: the status
\* of a row is in the order's events, and its filled quantity in the order's fills,
\* as long as no write has failed.
LogCoversProjection ==
    Spared({"store"}) => \A o \in Orders : rows[o] # NoRow =>
        /\ \E k \in DOMAIN evts[o] : evts[o][k] = rows[o].status
        /\ rows[o].filled <= StoredFilled(o)

\* Between calls the tables agree, whatever the network and the exchange did: the
\* fills of an order add up to the filled quantity of its row, and its events are
\* a walk of ALLOWED_TRANSITIONS that ends in the row's status.
TablesAgree(o) ==
    /\ StoredFilled(o) = rows[o].filled
    /\ evts[o] # <<>>
    /\ evts[o][1] = "PLANNED"
    /\ \A k \in 1 .. Len(evts[o]) - 1 : evts[o][k + 1] \in ALLOWED_TRANSITIONS[evts[o][k]]
    /\ evts[o][Len(evts[o])] = rows[o].status
StoreConsistentWhenIdle ==
    Spared({"crash", "store"}) /\ ctl.pc = "idle" =>
        \A o \in Orders : rows[o] # NoRow => TablesAgree(o)

\* Failing closed: a call in which creating or cancelling an order or reading the
\* exchange failed returns with the kill switch active, unless a write failed too,
\* or an order could not be marked first: times without a zone do not compare with
\* the adapter's, and the exchange's may lie ahead of its clock.
Unmarkable(o) ==
    /\ mem[o] # NoRow
    /\ mem[o].status \notin Settled
    /\ ~("RECONCILE_PENDING" \in ALLOWED_TRANSITIONS[mem[o].status] /\ CanStamp(o, "tick"))
NetworkFailureTrips ==
    ctl.pc = "idle" /\ "store" \notin trouble /\ kill = {} =>
        /\ "create" \notin trouble
        /\ "cancel" \in trouble => \E o \in known : clock[o] = "naive"
        /\ "read" \in trouble => Unsortable \/ \E o \in Orders : Unmarkable(o)

\* An order the exchange has closed, and whose exchange id the adapter knows, is
\* settled by the polling, with the status and the quantity the exchange shows;
\* or the kill switch is tripped; or an answer about some order cannot be applied
\* and some order cannot be marked, when every call raises before it trips.
Closed(o) == Placed(o) /\ remote[o].state # "wait"
SettledAs(o) ==
    /\ Closed(o)
    /\ mem[o] # NoRow
    /\ mem[o].filled = remote[o].executed
    /\ mem[o].status = StatusOf(remote[o])

Unfollowable(o) ==
    /\ o \in known
    /\ LET late == mem[o].filled < remote[o].executed
           status == IF mem[o].status = "ACKNOWLEDGED" /\ StatusOf(remote[o]) = "WORKING"
                       THEN "WORKING" ELSE mem[o].status
       IN  \/ late /\ (status \notin FillableStatuses \/ remote[o].executed > Quantity)
           \/ StatusOf(remote[o]) # status /\ StatusOf(remote[o]) \notin ALLOWED_TRANSITIONS[status]
KnownOrdersSettle ==
    \A o \in Orders :
        (Closed(o) /\ o \in known) ~>
            \/ SettledAs(o) \/ kill # {} \/ o \notin known
            \/ (\E p \in Orders : Unfollowable(p)) /\ (\E p \in Orders : Unmarkable(p))

-----------------------------------------------------------------------------
(***************************************************************************)
(* What the documents and the tests say and the code does not keep: each   *)
(* is refuted by a run of its own.                                         *)
(***************************************************************************)

\* An order that was sent is looked up until its exchange id is known, when the
\* answer to create_order was lost and when the process was restarted.
SentOrdersBecomeKnown == \A o \in Orders : Placed(o) ~> o \in known

\* Fills that arrive late, after a cancel request say, are booked all the same:
\* an order the exchange has closed is settled.
ClosedOrdersSettle == \A o \in Orders : Closed(o) ~> SettledAs(o)
=============================================================================
