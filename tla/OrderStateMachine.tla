-------------------------- MODULE OrderStateMachine --------------------------
(***************************************************************************)
(* quant_os/execution/state_machine.py: the in-memory event-sourced order  *)
(* book every execution adapter owns.  A caller may call any operation     *)
(* with any argument at any time; a call the code answers with an          *)
(* exception leaves the state unchanged and is therefore no action here.   *)
(* hydrate_projection, which overwrites an order with what a store         *)
(* returned, is modelled where there is a store: see UpbitLive.            *)
(***************************************************************************)
EXTENDS OrderStatuses, Integers, Sequences, Functions

CONSTANTS
    Orders,        \* local order ids
    Intents,       \* order intents; an intent fixes the symbol as well
    Grain,         \* a lot is 0.0001, and this many of the units below
    Quantity,      \* Quantity[i]: the quantity of intent i, in units
    FillIds,       \* ids of fill events
    FillQuantities,\* the quantities a caller may pass in a fill, in units, positive or not
    Times,         \* the time stamps a caller may pass, naive integers
    BrokerIds,     \* broker order ids
    NoBrokerId,    \* broker_order_id = None
    NoOrder        \* the order id is unknown

ASSUME OSMAssumption ==
    /\ Grain \in Nat \ {0}
    /\ Quantity \in [Intents -> Nat \ {0}]
    /\ Times \subseteq Int
    /\ FillQuantities \subseteq Int
    /\ NoBrokerId \notin BrokerIds

\* The projection holds whole lots, a fill is kept as it came.
Projection == [intent : Intents, status : OrderStatus, filled : Nat,
               broker : BrokerIds \cup {NoBrokerId}, lastAt : Times]
Event == [status : OrderStatus, at : Times, broker : BrokerIds \cup {NoBrokerId}]
Fill == [id : FillIds, intent : Intents, qty : FillQuantities, at : Times]

ASSUME NoOrderAssumption == NoOrder \notin Projection

VARIABLES
    projections,   \* _projections
    events,        \* _events, one append-only list per order
    fills          \* _fills, one append-only list per order

vars == <<projections, events, fills>>

Known(o) == projections[o] # NoOrder

Init ==
    /\ projections = [o \in Orders |-> NoOrder]
    /\ events = [o \in Orders |-> <<>>]
    /\ fills = [o \in Orders |-> <<>>]

\* The projection of o becomes p, and an event says so.
Enter(o, p) ==
    /\ projections' = [projections EXCEPT ![o] = p]
    /\ events' = [events EXCEPT ![o] =
            Append(@, [status |-> p.status, at |-> p.lastAt, broker |-> p.broker])]
    /\ UNCHANGED fills

\* The projection of o becomes p, and the fill is kept.
Book(o, fill, p) ==
    /\ projections' = [projections EXCEPT ![o] = p]
    /\ fills' = [fills EXCEPT ![o] = Append(@, fill)]
    /\ UNCHANGED events

\* quantize: n units in lots, half a lot and more up.
quantize(n) == (2 * n + Grain) \div (2 * Grain)
OrderQuantity(i) == quantize(Quantity[i])

\* A projection of no lot at all is refused (OrderProjection.quantity).
plan(i, o, at) ==
    /\ ~Known(o)
    /\ OrderQuantity(i) > 0
    /\ Enter(o, [intent |-> i, status |-> "PLANNED", filled |-> 0,
                 broker |-> NoBrokerId, lastAt |-> at])

\* Mutants: the transition table is not asked; nor is the time.
transition_unchecked(o, new_status, at, broker) ==
    /\ Known(o)
    /\ at >= projections[o].lastAt
    /\ Enter(o, [projections[o] EXCEPT !.status = new_status, !.lastAt = at])
transition_any_time(o, new_status, at, broker) ==
    /\ Known(o)
    /\ new_status \in ALLOWED_TRANSITIONS[projections[o].status]
    /\ Enter(o, [projections[o] EXCEPT !.status = new_status, !.lastAt = at])

\* broker = NoBrokerId keeps the id the order already has.
transition(o, new_status, at, broker) ==
    LET p == projections[o]
        b == IF broker = NoBrokerId THEN p.broker ELSE broker
    IN  /\ Known(o)
        /\ new_status \in ALLOWED_TRANSITIONS[p.status]
        /\ at >= p.lastAt
        /\ Enter(o, [p EXCEPT !.status = new_status, !.lastAt = at, !.broker = b])

\* The fill is one the order, its status and its clock admit.
Admits(o, fill) ==
    /\ Known(o)
    /\ fill.intent = projections[o].intent
    /\ projections[o].status \in FillableStatuses
    /\ \A k \in 1 .. Len(fills[o]) : fills[o][k].id # fill.id
    /\ fill.at >= projections[o].lastAt
Filled(o, fill) == quantize(Grain * projections[o].filled + fill.qty)

\* Mutants: any quantity is taken; the order's quantity is no limit; the time of
\* the fill is not kept; the quantity replaces what was filled before.
record_fill_any_sign(o, fill) ==
    /\ Admits(o, fill)
    /\ Filled(o, fill) <= OrderQuantity(projections[o].intent)
    /\ Book(o, fill, [projections[o] EXCEPT !.filled = Filled(o, fill), !.lastAt = fill.at])
record_fill_no_limit(o, fill) ==
    /\ Admits(o, fill) /\ fill.qty > 0
    /\ Book(o, fill, [projections[o] EXCEPT !.filled = Filled(o, fill), !.lastAt = fill.at])
record_fill_timeless(o, fill) ==
    /\ Admits(o, fill) /\ fill.qty > 0
    /\ Filled(o, fill) <= OrderQuantity(projections[o].intent)
    /\ Book(o, fill, [projections[o] EXCEPT !.filled = Filled(o, fill)])
record_fill_replacing(o, fill) ==
    /\ Admits(o, fill) /\ fill.qty > 0
    /\ quantize(fill.qty) <= OrderQuantity(projections[o].intent)
    /\ Book(o, fill, [projections[o] EXCEPT !.filled = quantize(fill.qty), !.lastAt = fill.at])

record_fill(o, fill) ==
    /\ Admits(o, fill)
    /\ fill.qty > 0
    /\ Filled(o, fill) <= OrderQuantity(projections[o].intent)
    /\ Book(o, fill, [projections[o] EXCEPT !.filled = Filled(o, fill), !.lastAt = fill.at])

Next ==
    \E o \in Orders :
        \/ \E i \in Intents, at \in Times : plan(i, o, at)
        \/ \E s \in OrderStatus, at \in Times, b \in BrokerIds \cup {NoBrokerId} :
                transition(o, s, at, b)
        \/ \E fill \in Fill : record_fill(o, fill)

Spec == Init /\ [][Next]_vars

-----------------------------------------------------------------------------
\* The projections, the event lists and the fill lists keep their shape.
TypeOK ==
    /\ projections \in [Orders -> Projection \cup {NoOrder}]
    /\ events \in [Orders -> Seq(Event)]
    /\ fills \in [Orders -> Seq(Fill)]

\* The events of an order are a walk of ALLOWED_TRANSITIONS from PLANNED whose
\* last step is the status the projection shows: the status can be recomputed
\* from the append-only log alone.
EventsLeadToStatus ==
    \A o \in Orders :
        IF Known(o)
          THEN /\ events[o] # <<>>
               /\ events[o][1].status = "PLANNED"
               /\ \A k \in 1 .. Len(events[o]) - 1 :
                     events[o][k + 1].status \in ALLOWED_TRANSITIONS[events[o][k].status]
               /\ events[o][Len(events[o])].status = projections[o].status
          ELSE events[o] = <<>> /\ fills[o] = <<>>

\* The filled quantity of an order never exceeds the quantity of the order.
FilledWithinQuantity ==
    \A o \in Orders : Known(o) =>
        projections[o].filled <= OrderQuantity(projections[o].intent)

\* No record carries a later time than the projection's last_event_at, and each
\* list is in time order: sorting by occurred_at, as hydrate_projection and the
\* store's queries do, cannot move a record past one of another time.
LogsInTimeOrder ==
    \A o \in Orders : Known(o) =>
        /\ \A k \in 1 .. Len(events[o]) : events[o][k].at <= projections[o].lastAt
        /\ \A k \in 1 .. Len(fills[o]) : fills[o][k].at <= projections[o].lastAt
        /\ \A j, k \in 1 .. Len(events[o]) : j < k => events[o][j].at <= events[o][k].at
        /\ \A j, k \in 1 .. Len(fills[o]) : j < k => fills[o][j].at <= fills[o][k].at

\* Read by time, the two lists of an order agree: every fill lies at or after
\* each event that precedes the broker's acknowledgement and at or before each
\* event after which record_fill refuses fills (a cancel request, a close, an
\* uncertain outcome).  Merging the lists by occurred_at replays them legally.
BeforeFills == {"PLANNED", "APPROVED", "SUBMITTING", "ACKNOWLEDGED"}
AfterFills == OrderStatus \ (BeforeFills \cup FillableStatuses)
FillsBetweenEvents ==
    \A o \in Orders :
        \A f \in 1 .. Len(fills[o]), e \in 1 .. Len(events[o]) :
            /\ events[o][e].status \in BeforeFills => events[o][e].at <= fills[o][f].at
            /\ events[o][e].status \in AfterFills => fills[o][f].at <= events[o][e].at

\* The two lists can be read back by time: sorting them by occurred_at and merging
\* them gives the order's history.  (transition, record_fill, hydrate_projection.)
LogsReplay == LogsInTimeOrder /\ FillsBetweenEvents

\* The filled quantity the projection shows can be recomputed from the append-only
\* list: it is what the fills add up to when they come in whole lots, as both
\* adapters send them, and otherwise no further from it than half a lot for each
\* fill, since every sum is rounded (record_fill) and every fill is kept unrounded.
Booked(o) == SumFunction([k \in 1 .. Len(fills[o]) |-> fills[o][k].qty])
FilledFollowsFills ==
    \A o \in Orders : Known(o) =>
        /\ 2 * (Grain * projections[o].filled - Booked(o)) <= Grain * Len(fills[o])
        /\ 2 * (Booked(o) - Grain * projections[o].filled) <= Grain * Len(fills[o])
        /\ (\A k \in 1 .. Len(fills[o]) : fills[o][k].qty % Grain = 0)
           => Grain * projections[o].filled = Booked(o)

\* The phase of OrderLifecycle a status belongs to.
PhaseOf(s) ==
    CASE s \in {"PLANNED", "APPROVED"} -> "preparing"
      [] s = "SUBMITTING" -> "sending"
      [] s \in {"ACKNOWLEDGED", "WORKING", "PARTIALLY_FILLED"} -> "open"
      [] s = "CANCEL_REQUESTED" -> "cancelling"
      [] s \in {"RECONCILE_PENDING", "MANUAL_INTERVENTION"} -> "limbo"
      [] s = "FILLED" -> "done"
      [] OTHER -> "closed"

Lifecycle == INSTANCE OrderLifecycle WITH
        Quantities <- {OrderQuantity(i) : i \in Intents} \ {0},
        quantity <- [o \in Orders |->
                        IF Known(o) THEN OrderQuantity(projections[o].intent) ELSE 0],
        phase <- [o \in Orders |-> IF Known(o) THEN PhaseOf(projections[o].status) ELSE "absent"],
        filled <- [o \in Orders |-> IF Known(o) THEN projections[o].filled ELSE 0]

\* What a client may rely on, whatever it calls: an order goes through the
\* phases of OrderLifecycle, never out of a closed one, and is filled only
\* while it is open or done, never beyond its quantity.
ImplementsLifecycle == Lifecycle!Spec
=============================================================================
