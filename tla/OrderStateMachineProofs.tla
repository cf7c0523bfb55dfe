----------------------- MODULE OrderStateMachineProofs -----------------------
(***************************************************************************)
(* Proofs about OrderStateMachine for any sets of orders, intents, times,  *)
(* broker ids and fills.                                                   *)
(***************************************************************************)
EXTENDS OrderStateMachine, SequenceTheorems, SumTheorems, TLAPS

\* What EventsLeadToStatus and FillsBetweenEvents need beyond themselves to be
\* inductive: no fill precedes the acknowledgement, and a status that still takes
\* fills is reached by events that all still took them.
FillWindow ==
    \A o \in Orders : Known(o) =>
        /\ projections[o].status \in {"PLANNED", "APPROVED", "SUBMITTING"} => fills[o] = <<>>
        /\ projections[o].status \notin AfterFills =>
              \A k \in 1 .. Len(events[o]) : events[o][k].status \notin AfterFills

IInv ==
    /\ TypeOK
    /\ EventsLeadToStatus
    /\ FilledWithinQuantity
    /\ LogsInTimeOrder
    /\ FillsBetweenEvents
    /\ FillWindow

\* The transition table maps statuses to sets of statuses, closes the fill window
\* for good, and enters the statuses before the window only from one another.
LEMMA TransitionTable ==
    ASSUME NEW s \in OrderStatus, NEW t \in ALLOWED_TRANSITIONS[s]
    PROVE  /\ t \in OrderStatus
           /\ s \in AfterFills => t \in AfterFills
           /\ t \in BeforeFills => s \in {"PLANNED", "APPROVED", "SUBMITTING"}
           /\ t # "PLANNED"
           /\ t \in {"APPROVED", "SUBMITTING"} => s \in {"PLANNED", "APPROVED"}
  BY DEF OrderStatus, ALLOWED_TRANSITIONS, AfterFills, BeforeFills, FillableStatuses

(***************************************************************************)
(* Rounding to lots.                                                       *)
(***************************************************************************)
LEMMA DivBounds ==
    ASSUME NEW x \in Int, NEW m \in Nat \ {0}
    PROVE  x \div m \in Int /\ m * (x \div m) <= x /\ x < m * (x \div m) + m
OBVIOUS

LEMMA Divides ==
    ASSUME NEW x \in Int, NEW m \in Nat \ {0}, x % m = 0
    PROVE  x = m * (x \div m)
OBVIOUS

\* What is rounded is a natural number of lots, at most half a lot off.
LEMMA QuantizeNear ==
    ASSUME NEW n \in Nat
    PROVE  /\ quantize(n) \in Nat /\ Grain * quantize(n) \in Nat
           /\ 2 * (Grain * quantize(n) - n) <= Grain
           /\ 2 * (n - Grain * quantize(n)) <= Grain
<1> USE OSMAssumption
<1> DEFINE x == 2 * n + Grain
           m == 2 * Grain
           q == x \div m
           p == Grain * q
<1>1. x \in Nat /\ m \in Nat \ {0}
  OBVIOUS
<1>2. q \in Int /\ m * q <= x /\ x < m * q + m
  <2> HIDE DEF x, m
  <2> QED
    BY <1>1, DivBounds
<1>3. quantize(n) = q
  BY DEF quantize
<1>4. m * q = 2 * p /\ p \in Int
  <2> HIDE DEF q
  <2> QED
    BY <1>2
<1>5. 2 * (p - n) <= Grain /\ 2 * (n - p) <= Grain
  <2> HIDE DEF p, q
  <2> QED
    BY <1>2, <1>4
<1>6. q \in Nat
  <2> SUFFICES ASSUME q <= -1 PROVE FALSE
    BY <1>2
  <2>1. m * q <= -m
    <3> HIDE DEF q, m, x
    <3> QED
      BY <1>1, <1>2
  <2> QED
    <3> HIDE DEF q
    <3> QED
      BY <2>1, <1>1, <1>2
<1>7. p \in Nat
  <2> HIDE DEF q
  <2> QED
    BY <1>6
<1> QED
  <2> HIDE DEF q
  <2> QED
    BY <1>3, <1>5, <1>6, <1>7

\* Whole lots stay as they are.
LEMMA QuantizeWhole ==
    ASSUME NEW k \in Nat
    PROVE  quantize(Grain * k) = k
<1> USE OSMAssumption
<1> DEFINE n == Grain * k
           q == quantize(n)
<1>1. n \in Nat
  OBVIOUS
<1>2. q \in Nat /\ 2 * (Grain * q - n) <= Grain /\ 2 * (n - Grain * q) <= Grain
  <2> HIDE DEF n
  <2> QED
    BY <1>1, QuantizeNear
<1> HIDE DEF q
<1>3. /\ 2 * (Grain * (q - k)) <= Grain
      /\ 2 * (Grain * (k - q)) <= Grain
  BY <1>2
<1>4. ~(q - k >= 1)
  <2> SUFFICES ASSUME q - k >= 1 PROVE FALSE
    OBVIOUS
  <2>1. Grain * (q - k) >= Grain
    BY <1>2
  <2> QED
    BY <2>1, <1>2, <1>3
<1>5. ~(k - q >= 1)
  <2> SUFFICES ASSUME k - q >= 1 PROVE FALSE
    OBVIOUS
  <2>1. Grain * (k - q) >= Grain
    BY <1>2
  <2> QED
    BY <2>1, <1>2, <1>3
<1>6. q = k
  BY <1>2, <1>4, <1>5
<1> QED
  BY <1>6 DEF q, n

\* The quantity of an order, and what a fill makes of the filled quantity.
LEMMA OrderQuantityType ==
    ASSUME NEW i \in Intents PROVE OrderQuantity(i) \in Nat
  BY QuantizeNear, OSMAssumption DEF OrderQuantity

\* More is not rounded to less.
LEMMA QuantizeGrows ==
    ASSUME NEW k \in Nat, NEW d \in Nat
    PROVE  quantize(Grain * k + d) \in Nat /\ k <= quantize(Grain * k + d)
<1> USE OSMAssumption
<1> DEFINE n == Grain * k + d
           q == quantize(n)
<1>1. n \in Nat
  OBVIOUS
<1>2. q \in Nat /\ 2 * (n - Grain * q) <= Grain
  <2> HIDE DEF n
  <2> QED
    BY <1>1, QuantizeNear
<1> HIDE DEF q
<1>3. 2 * (Grain * (k - q)) <= Grain
  BY <1>2
<1>4. ~(k - q >= 1)
  <2> SUFFICES ASSUME k - q >= 1 PROVE FALSE
    OBVIOUS
  <2>1. Grain * (k - q) >= Grain
    BY <1>2
  <2> QED
    BY <2>1, <1>2, <1>3
<1> QED
  BY <1>2, <1>4 DEF q, n

-----------------------------------------------------------------------------
THEOREM TypeCorrect == Spec => []TypeOK
<1>1. Init => TypeOK
  BY DEF Init, TypeOK
<1>2. TypeOK /\ [Next]_vars => TypeOK'
  <2> SUFFICES ASSUME TypeOK, [Next]_vars PROVE TypeOK'
    OBVIOUS
  <2> USE OSMAssumption, NoOrderAssumption
  <2>1. ASSUME NEW o \in Orders, NEW i \in Intents, NEW at \in Times, plan(i, o, at)
        PROVE  TypeOK'
    <3>1. [status |-> "PLANNED", at |-> at, broker |-> NoBrokerId] \in Event
      BY DEF Event, OrderStatus
    <3>2. [intent |-> i, status |-> "PLANNED", filled |-> 0,
           broker |-> NoBrokerId, lastAt |-> at] \in Projection
      BY DEF Projection, OrderStatus
    <3> QED
      BY <2>1, <3>1, <3>2 DEF plan, Enter, TypeOK
  <2>2. ASSUME NEW o \in Orders, NEW s \in OrderStatus, NEW at \in Times,
               NEW b \in BrokerIds \cup {NoBrokerId}, transition(o, s, at, b)
        PROVE  TypeOK'
    <3> DEFINE p == projections[o]
               kept == IF b = NoBrokerId THEN p.broker ELSE b
    <3>1. p \in Projection
      BY <2>2 DEF transition, Enter, TypeOK, Known
    <3>2. kept \in BrokerIds \cup {NoBrokerId}
      BY <3>1 DEF Projection
    <3>3. [status |-> s, at |-> at, broker |-> kept] \in Event
      BY <3>2 DEF Event
    <3>4. [p EXCEPT !.status = s, !.lastAt = at, !.broker = kept] \in Projection
      BY <3>1, <3>2 DEF Projection
    <3> QED
      BY <2>2, <3>3, <3>4 DEF transition, Enter, TypeOK
  <2>3. ASSUME NEW o \in Orders, NEW fill \in Fill, record_fill(o, fill)
        PROVE  TypeOK'
    <3> DEFINE p == projections[o]
    <3>1. p \in Projection
      BY <2>3 DEF record_fill, Admits, Filled, Book, TypeOK, Known
    <3>2. Filled(o, fill) \in Nat
      <4>1. p.filled \in Nat /\ fill.qty \in Nat
        BY <2>3, <3>1 DEF record_fill, Projection, Fill
      <4> QED
        BY <4>1, QuantizeGrows DEF Filled
    <3>3. [p EXCEPT !.filled = Filled(o, fill), !.lastAt = fill.at] \in Projection
      BY <3>1, <3>2 DEF Projection, Fill
    <3> QED
      BY <2>3, <3>3 DEF record_fill, Admits, Book, TypeOK
  <2>4. CASE UNCHANGED vars
    BY <2>4 DEF vars, TypeOK
  <2> QED
    BY <2>1, <2>2, <2>3, <2>4 DEF Next
<1> QED
  BY <1>1, <1>2, PTL DEF Spec

-----------------------------------------------------------------------------
(***************************************************************************)
(* The inductive invariant, one lemma per operation.                       *)
(***************************************************************************)
\* Elements of the two lists, and lengths, are of the types TypeOK gives them.
LEMMA Entries ==
    ASSUME TypeOK, NEW o \in Orders
    PROVE  /\ \A k \in 1 .. Len(events[o]) : events[o][k] \in Event /\ events[o][k].at \in Int
           /\ \A k \in 1 .. Len(fills[o]) : fills[o][k] \in Fill /\ fills[o][k].at \in Int
           /\ Len(events[o]) \in Nat /\ Len(fills[o]) \in Nat
<1>1. events[o] \in Seq(Event) /\ fills[o] \in Seq(Fill)
  BY DEF TypeOK
<1>2. /\ \A k \in 1 .. Len(events[o]) : events[o][k] \in Event
      /\ \A k \in 1 .. Len(fills[o]) : fills[o][k] \in Fill
      /\ Len(events[o]) \in Nat /\ Len(fills[o]) \in Nat
  BY <1>1
<1>3. /\ \A x \in Event : x.at \in Int
      /\ \A x \in Fill : x.at \in Int
  BY OSMAssumption DEF Event, Fill
<1> QED
  BY <1>2, <1>3

LEMMA PlanStep ==
    ASSUME IInv, TypeOK', NEW o \in Orders, NEW i \in Intents, NEW at \in Times,
           plan(i, o, at)
    PROVE  IInv'
<1> USE OSMAssumption, NoOrderAssumption
<1> DEFINE e == [status |-> "PLANNED", at |-> at, broker |-> NoBrokerId]
           p == [intent |-> i, status |-> "PLANNED", filled |-> 0,
                 broker |-> NoBrokerId, lastAt |-> at]
<1>1. /\ events[o] = <<>>
      /\ fills[o] = <<>>
  BY DEF plan, Enter, IInv, EventsLeadToStatus, Known
<1>2. /\ projections' = [projections EXCEPT ![o] = p]
      /\ events' = [events EXCEPT ![o] = <<e>>]
      /\ fills' = fills
  BY <1>1 DEF plan, Enter
<1>3. /\ projections'[o] = p /\ events'[o] = <<e>> /\ fills'[o] = <<>>
      /\ \A q \in Orders \ {o} :
            /\ projections'[q] = projections[q]
            /\ events'[q] = events[q]
            /\ fills'[q] = fills[q]
  BY <1>1, <1>2 DEF IInv, TypeOK
<1>4. p \in Projection /\ p # NoOrder
  BY DEF Projection, OrderStatus
<1>5. /\ Len(events'[o]) = 1 /\ events'[o][1] = e /\ events'[o] # <<>>
      /\ Len(fills'[o]) = 0
  BY <1>3
<1>6. EventsLeadToStatus'
  <2> SUFFICES ASSUME NEW q \in Orders
               PROVE  (IF Known(q)
                         THEN /\ events[q] # <<>>
                              /\ events[q][1].status = "PLANNED"
                              /\ \A k \in 1 .. Len(events[q]) - 1 :
                                    events[q][k + 1].status \in
                                        ALLOWED_TRANSITIONS[events[q][k].status]
                              /\ events[q][Len(events[q])].status = projections[q].status
                         ELSE events[q] = <<>> /\ fills[q] = <<>>)'
    BY DEF EventsLeadToStatus
  <2>1. CASE q = o
    BY <2>1, <1>3, <1>4, <1>5 DEF Known
  <2>2. CASE q # o
    BY <2>2, <1>3 DEF Known, IInv, EventsLeadToStatus
  <2> QED
    BY <2>1, <2>2
<1>7. FilledWithinQuantity'
  <2>1. 0 <= OrderQuantity(i)
    BY OrderQuantityType
  <2> QED
    BY <1>3, <1>4, <2>1 DEF FilledWithinQuantity, Known, IInv
<1>8. LogsInTimeOrder'
  <2> SUFFICES ASSUME NEW q \in Orders, Known(q)'
               PROVE  (/\ \A k \in 1 .. Len(events[q]) : events[q][k].at <= projections[q].lastAt
                       /\ \A k \in 1 .. Len(fills[q]) : fills[q][k].at <= projections[q].lastAt
                       /\ \A j, k \in 1 .. Len(events[q]) : j < k => events[q][j].at <= events[q][k].at
                       /\ \A j, k \in 1 .. Len(fills[q]) : j < k => fills[q][j].at <= fills[q][k].at)'
    BY DEF LogsInTimeOrder
  <2>1. CASE q = o
    <3>1. at \in Int /\ at <= at
      OBVIOUS
    <3>2. \A k \in 1 .. Len(events'[o]) : k = 1 /\ events'[o][k].at = at
      BY <1>5
    <3>3. \A k \in 1 .. Len(fills'[o]) : FALSE
      BY <1>5
    <3>4. projections'[o].lastAt = at
      BY <1>3
    <3> HIDE DEF e, p
    <3> QED
      BY <2>1, <3>1, <3>2, <3>3, <3>4
  <2>2. CASE q # o
    BY <2>2, <1>3 DEF LogsInTimeOrder, Known, IInv
  <2> QED
    BY <2>1, <2>2
<1>9. FillsBetweenEvents'
  <2> SUFFICES ASSUME NEW q \in Orders, NEW f \in 1 .. Len(fills'[q]),
                      NEW k \in 1 .. Len(events'[q])
               PROVE  (/\ events[q][k].status \in BeforeFills => events[q][k].at <= fills[q][f].at
                       /\ events[q][k].status \in AfterFills => fills[q][f].at <= events[q][k].at)'
    BY DEF FillsBetweenEvents
  <2>1. q # o
    BY <1>5
  <2> QED
    BY <2>1, <1>3 DEF FillsBetweenEvents, IInv
<1>10. FillWindow'
  <2>1. \A k \in 1 .. Len(events'[o]) : events'[o][k].status \notin AfterFills
    BY <1>5 DEF AfterFills, BeforeFills
  <2> QED
    BY <2>1, <1>3 DEF FillWindow, Known, IInv
<1> QED
  BY <1>6, <1>7, <1>8, <1>9, <1>10 DEF IInv

LEMMA TransitionStep ==
    ASSUME IInv, TypeOK', NEW o \in Orders, NEW s \in OrderStatus, NEW at \in Times,
           NEW b \in BrokerIds \cup {NoBrokerId}, transition(o, s, at, b)
    PROVE  IInv'
<1> USE OSMAssumption, NoOrderAssumption
<1> DEFINE p == projections[o]
           kept == IF b = NoBrokerId THEN p.broker ELSE b
           e == [status |-> s, at |-> at, broker |-> kept]
           n == Len(events[o])
<1>1. /\ Known(o) /\ p \in Projection /\ s \in ALLOWED_TRANSITIONS[p.status]
      /\ p.lastAt <= at /\ events[o] \in Seq(Event) /\ n \in Nat
  BY DEF transition, Enter, IInv, TypeOK, Known
<1>2. e \in Event
  BY <1>1 DEF Event, Projection
<1>3. /\ projections'[o].status = s /\ projections'[o].lastAt = at
      /\ projections'[o].filled = p.filled /\ projections'[o].intent = p.intent
      /\ projections'[o] # NoOrder
      /\ events'[o] = Append(events[o], e)
      /\ fills'[o] = fills[o]
      /\ \A q \in Orders \ {o} :
            /\ projections'[q] = projections[q]
            /\ events'[q] = events[q]
            /\ fills'[q] = fills[q]
  <2>1. [p EXCEPT !.status = s, !.lastAt = at, !.broker = kept] \in Projection
    BY <1>1 DEF Projection
  <2>2. projections' = [projections EXCEPT ![o] =
                            [p EXCEPT !.status = s, !.lastAt = at, !.broker = kept]]
    BY DEF transition, Enter
  <2>3. projections'[o] = [p EXCEPT !.status = s, !.lastAt = at, !.broker = kept]
    BY <2>2 DEF IInv, TypeOK
  <2>4. events' = [events EXCEPT ![o] = Append(events[o], e)] /\ fills' = fills
    BY DEF transition, Enter
  <2> QED
    BY <1>1, <2>1, <2>2, <2>3, <2>4 DEF IInv, TypeOK, Projection
<1>4. /\ Len(events'[o]) = n + 1
      /\ \A k \in 1 .. n : events'[o][k] = events[o][k]
      /\ events'[o][n + 1] = e
      /\ events'[o] # <<>>
  BY <1>1, <1>2, <1>3, AppendProperties
<1>5. /\ p.status \in OrderStatus
      /\ p.status \in AfterFills => s \in AfterFills
      /\ s \in BeforeFills => p.status \in {"PLANNED", "APPROVED", "SUBMITTING"}
      /\ s \in {"APPROVED", "SUBMITTING"} => p.status \in {"PLANNED", "APPROVED"}
      /\ s # "PLANNED"
  BY <1>1, TransitionTable DEF Projection
<1>6. EventsLeadToStatus'
  <2>1. /\ n \in Nat \ {0} /\ events[o][1].status = "PLANNED" /\ events[o][n].status = p.status
        /\ \A k \in 1 .. n - 1 :
              events[o][k + 1].status \in ALLOWED_TRANSITIONS[events[o][k].status]
    BY <1>1, EmptySeq DEF IInv, EventsLeadToStatus
  <2>2. events'[o][1].status = "PLANNED"
    BY <2>1, <1>4
  <2>3. ASSUME NEW k \in 1 .. (n + 1) - 1
        PROVE  events'[o][k + 1].status \in ALLOWED_TRANSITIONS[events'[o][k].status]
    <3>1. CASE k = n
      <4>1. events'[o][k + 1].status = s /\ events'[o][k] = events[o][n]
        BY <3>1, <2>1, <1>4
      <4> QED
        BY <4>1, <2>1, <1>1
    <3>2. CASE k # n
      <4>1. k \in 1 .. n - 1 /\ k \in 1 .. n /\ k + 1 \in 1 .. n
        BY <3>2, <2>1
      <4> QED
        BY <4>1, <2>1, <1>4
    <3> QED
      BY <3>1, <3>2
  <2> SUFFICES ASSUME NEW q \in Orders
               PROVE  (IF Known(q)
                         THEN /\ events[q] # <<>>
                              /\ events[q][1].status = "PLANNED"
                              /\ \A k \in 1 .. Len(events[q]) - 1 :
                                    events[q][k + 1].status \in
                                        ALLOWED_TRANSITIONS[events[q][k].status]
                              /\ events[q][Len(events[q])].status = projections[q].status
                         ELSE events[q] = <<>> /\ fills[q] = <<>>)'
    BY DEF EventsLeadToStatus
  <2>4. CASE q = o
    BY <2>2, <2>3, <2>4, <1>3, <1>4 DEF Known
  <2>5. CASE q # o
    BY <2>5, <1>3 DEF Known, IInv, EventsLeadToStatus
  <2> QED
    BY <2>4, <2>5
<1>7. FilledWithinQuantity'
  BY <1>1, <1>3 DEF FilledWithinQuantity, Known, IInv
<1>8. LogsInTimeOrder'
  <2>1. /\ \A k \in 1 .. n : events[o][k].at <= p.lastAt /\ events[o][k].at \in Int
        /\ \A k \in 1 .. Len(fills[o]) : fills[o][k].at <= p.lastAt /\ fills[o][k].at \in Int
        /\ p.lastAt \in Int /\ at \in Int
    BY <1>1, Entries DEF IInv, LogsInTimeOrder, Projection
  <2>2. ASSUME NEW k \in 1 .. n + 1
        PROVE  /\ events'[o][k].at <= at
               /\ k \in 1 .. n \/ (k = n + 1 /\ events'[o][k].at = at)
    <3>1. CASE k \in 1 .. n
      <4>1. events'[o][k] = events[o][k]
        BY <3>1, <1>4
      <4>2. events[o][k].at <= p.lastAt /\ events[o][k].at \in Int
        BY <3>1, <2>1
      <4>3. events[o][k].at <= at
        BY <4>2, <2>1, <1>1
      <4> QED
        BY <3>1, <4>1, <4>3
    <3>2. CASE k = n + 1
      <4>1. events'[o][k].at = at
        BY <3>2, <1>4
      <4> QED
        BY <3>2, <4>1, <2>1
    <3> QED
      BY <1>1, <3>1, <3>2
  <2>3. ASSUME NEW j \in 1 .. n + 1, NEW k \in 1 .. n + 1, j < k
        PROVE  events'[o][j].at <= events'[o][k].at
    <3>1. CASE k \in 1 .. n
      <4>1. j \in 1 .. n
        BY <2>3, <3>1
      <4> QED
        BY <4>1, <3>1, <2>3, <1>1, <1>4 DEF IInv, LogsInTimeOrder
    <3>2. CASE k = n + 1
      BY <3>2, <2>2
    <3> QED
      BY <1>1, <3>1, <3>2
  <2>4. \A k \in 1 .. Len(fills[o]) : fills[o][k].at <= at
    BY <1>1, <2>1
  <2> SUFFICES ASSUME NEW q \in Orders, Known(q)'
               PROVE  (/\ \A k \in 1 .. Len(events[q]) : events[q][k].at <= projections[q].lastAt
                       /\ \A k \in 1 .. Len(fills[q]) : fills[q][k].at <= projections[q].lastAt
                       /\ \A j, k \in 1 .. Len(events[q]) :
                             j < k => events[q][j].at <= events[q][k].at
                       /\ \A j, k \in 1 .. Len(fills[q]) :
                             j < k => fills[q][j].at <= fills[q][k].at)'
    BY DEF LogsInTimeOrder
  <2>5. CASE q = o
    BY <2>5, <1>1, <1>3, <1>4, <2>2, <2>3, <2>4 DEF IInv, LogsInTimeOrder
  <2>6. CASE q # o
    BY <2>6, <1>3 DEF IInv, LogsInTimeOrder, Known
  <2> QED
    BY <2>5, <2>6
<1>9. FillsBetweenEvents'
  <2>1. ASSUME NEW f \in 1 .. Len(fills[o])
        PROVE  s \notin BeforeFills /\ fills[o][f].at <= at
    <3>1. fills[o] # <<>>
      OBVIOUS
    <3>2. s \notin BeforeFills
      BY <3>1, <1>1, <1>5 DEF IInv, FillWindow
    <3>3. fills[o][f].at \in Int /\ p.lastAt \in Int /\ at \in Int
      BY <1>1, Entries DEF IInv, Projection
    <3> QED
      BY <3>2, <3>3, <1>1 DEF IInv, LogsInTimeOrder
  <2>2. ASSUME NEW f \in 1 .. Len(fills[o]), NEW k \in 1 .. n + 1
        PROVE  /\ events'[o][k].status \in BeforeFills => events'[o][k].at <= fills[o][f].at
               /\ events'[o][k].status \in AfterFills => fills[o][f].at <= events'[o][k].at
    <3>1. CASE k \in 1 .. n
      BY <3>1, <1>4 DEF IInv, FillsBetweenEvents
    <3>2. CASE k = n + 1
      BY <3>2, <1>4, <2>1
    <3> QED
      BY <1>1, <3>1, <3>2
  <2> SUFFICES ASSUME NEW q \in Orders, NEW f \in 1 .. Len(fills'[q]),
                      NEW k \in 1 .. Len(events'[q])
               PROVE  (/\ events[q][k].status \in BeforeFills => events[q][k].at <= fills[q][f].at
                       /\ events[q][k].status \in AfterFills => fills[q][f].at <= events[q][k].at)'
    BY DEF FillsBetweenEvents
  <2>3. CASE q = o
    BY <2>3, <1>3, <1>4, <2>2
  <2>4. CASE q # o
    BY <2>4, <1>3, <1>4 DEF IInv, FillsBetweenEvents
  <2> QED
    BY <2>3, <2>4
<1>10. FillWindow'
  <2>1. s \in {"PLANNED", "APPROVED", "SUBMITTING"} => fills[o] = <<>>
    BY <1>1, <1>5 DEF IInv, FillWindow
  <2>2. ASSUME s \notin AfterFills, NEW k \in 1 .. n + 1
        PROVE  events'[o][k].status \notin AfterFills
    <3>1. p.status \notin AfterFills
      BY <2>2, <1>5
    <3>2. CASE k \in 1 .. n
      BY <3>1, <3>2, <1>1, <1>4 DEF IInv, FillWindow
    <3>3. CASE k = n + 1
      BY <2>2, <3>3, <1>4
    <3> QED
      BY <1>1, <3>2, <3>3
  <2> QED
    BY <1>3, <1>4, <2>1, <2>2 DEF IInv, FillWindow, Known
<1> QED
  BY <1>6, <1>7, <1>8, <1>9, <1>10 DEF IInv

LEMMA RecordFillStep ==
    ASSUME IInv, TypeOK', NEW o \in Orders, NEW fill \in Fill, record_fill(o, fill)
    PROVE  IInv'
<1> USE OSMAssumption, NoOrderAssumption
<1> DEFINE p == projections[o]
           n == Len(fills[o])
<1>1. /\ Known(o) /\ p \in Projection /\ p.status \in FillableStatuses
      /\ p.lastAt <= fill.at /\ fills[o] \in Seq(Fill) /\ n \in Nat
      /\ Filled(o, fill) \in Nat /\ Filled(o, fill) <= OrderQuantity(p.intent)
      /\ p.lastAt \in Int /\ fill.at \in Int
  <2>1. /\ Known(o) /\ p \in Projection /\ p.status \in FillableStatuses
        /\ p.lastAt <= fill.at /\ fills[o] \in Seq(Fill) /\ n \in Nat
        /\ Filled(o, fill) <= OrderQuantity(p.intent)
        /\ p.lastAt \in Int /\ fill.at \in Int /\ p.filled \in Nat /\ fill.qty \in Nat
    BY DEF record_fill, Admits, Book, IInv, TypeOK, Known, Projection, Fill
  <2>2. Filled(o, fill) \in Nat
    BY <2>1, QuantizeGrows DEF Filled
  <2> QED
    BY <2>1, <2>2
<1>2. /\ projections'[o].status = p.status /\ projections'[o].lastAt = fill.at
      /\ projections'[o].filled = Filled(o, fill) /\ projections'[o].intent = p.intent
      /\ projections'[o] # NoOrder
      /\ fills'[o] = Append(fills[o], fill)
      /\ events'[o] = events[o]
      /\ \A q \in Orders \ {o} :
            /\ projections'[q] = projections[q]
            /\ events'[q] = events[q]
            /\ fills'[q] = fills[q]
  <2>1. projections'[o] = [p EXCEPT !.filled = Filled(o, fill), !.lastAt = fill.at]
    BY DEF record_fill, Admits, Book, IInv, TypeOK
  <2>2. projections'[o] \in Projection \cup {NoOrder}
    BY DEF TypeOK
  <2>4. [p EXCEPT !.filled = Filled(o, fill), !.lastAt = fill.at] \in Projection
    BY <1>1 DEF Projection, Fill
  <2> QED
    BY <1>1, <2>1, <2>4 DEF record_fill, Admits, Book, IInv, TypeOK, Projection
<1>3. /\ Len(fills'[o]) = n + 1
      /\ \A k \in 1 .. n : fills'[o][k] = fills[o][k]
      /\ fills'[o][n + 1] = fill
      /\ fills'[o] # <<>>
  BY <1>1, <1>2, AppendProperties
<1>4. EventsLeadToStatus'
  BY <1>1, <1>2 DEF EventsLeadToStatus, Known, IInv
<1>5. FilledWithinQuantity'
  BY <1>1, <1>2 DEF FilledWithinQuantity, Known, IInv
<1>6. LogsInTimeOrder'
  <2>1. /\ \A k \in 1 .. Len(events[o]) : events[o][k].at <= p.lastAt /\ events[o][k].at \in Int
        /\ \A k \in 1 .. n : fills[o][k].at <= p.lastAt /\ fills[o][k].at \in Int
    BY <1>1, Entries DEF IInv, LogsInTimeOrder
  <2>2. ASSUME NEW k \in 1 .. n + 1
        PROVE  /\ fills'[o][k].at <= fill.at
               /\ k \in 1 .. n \/ (k = n + 1 /\ fills'[o][k].at = fill.at)
    <3>1. CASE k \in 1 .. n
      <4>1. fills'[o][k] = fills[o][k]
        BY <3>1, <1>3
      <4>2. fills[o][k].at <= p.lastAt /\ fills[o][k].at \in Int
        BY <3>1, <2>1
      <4>3. fills[o][k].at <= fill.at
        BY <4>2, <1>1
      <4> QED
        BY <3>1, <4>1, <4>3
    <3>2. CASE k = n + 1
      BY <3>2, <1>1, <1>3
    <3> QED
      BY <1>1, <3>1, <3>2
  <2>3. ASSUME NEW j \in 1 .. n + 1, NEW k \in 1 .. n + 1, j < k
        PROVE  fills'[o][j].at <= fills'[o][k].at
    <3>1. CASE k \in 1 .. n
      <4>1. j \in 1 .. n
        BY <2>3, <3>1
      <4> QED
        BY <4>1, <3>1, <2>3, <1>1, <1>3 DEF IInv, LogsInTimeOrder
    <3>2. CASE k = n + 1
      BY <3>2, <2>2
    <3> QED
      BY <1>1, <3>1, <3>2
  <2>4. \A k \in 1 .. Len(events[o]) : events[o][k].at <= fill.at
    BY <1>1, <2>1
  <2> SUFFICES ASSUME NEW q \in Orders, Known(q)'
               PROVE  (/\ \A k \in 1 .. Len(events[q]) : events[q][k].at <= projections[q].lastAt
                       /\ \A k \in 1 .. Len(fills[q]) : fills[q][k].at <= projections[q].lastAt
                       /\ \A j, k \in 1 .. Len(events[q]) :
                             j < k => events[q][j].at <= events[q][k].at
                       /\ \A j, k \in 1 .. Len(fills[q]) :
                             j < k => fills[q][j].at <= fills[q][k].at)'
    BY DEF LogsInTimeOrder
  <2>5. CASE q = o
    BY <2>5, <1>1, <1>2, <1>3, <2>2, <2>3, <2>4 DEF IInv, LogsInTimeOrder
  <2>6. CASE q # o
    BY <2>6, <1>2 DEF IInv, LogsInTimeOrder, Known
  <2> QED
    BY <2>5, <2>6
<1>7. FillsBetweenEvents'
  <2>1. ASSUME NEW k \in 1 .. Len(events[o])
        PROVE  events[o][k].status \notin AfterFills /\ events[o][k].at <= fill.at
    <3>1. events[o][k].status \notin AfterFills
      BY <1>1 DEF IInv, FillWindow, AfterFills
    <3>2. events[o][k] \in Event
      BY DEF IInv, TypeOK
    <3>3. events[o][k].at \in Int /\ events[o][k].at <= p.lastAt
      BY <3>2, <1>1 DEF Event, IInv, LogsInTimeOrder
    <3> QED
      BY <3>1, <3>3, <1>1
  <2>2. ASSUME NEW f \in 1 .. n + 1, NEW k \in 1 .. Len(events[o])
        PROVE  /\ events[o][k].status \in BeforeFills => events[o][k].at <= fills'[o][f].at
               /\ events[o][k].status \in AfterFills => fills'[o][f].at <= events[o][k].at
    <3>1. CASE f \in 1 .. n
      BY <3>1, <1>3 DEF IInv, FillsBetweenEvents
    <3>2. CASE f = n + 1
      BY <3>2, <1>3, <2>1
    <3>3. n \in Nat
      BY <1>1
    <3> QED
      BY <3>1, <3>2, <3>3
  <2> SUFFICES ASSUME NEW q \in Orders, NEW f \in 1 .. Len(fills'[q]),
                      NEW k \in 1 .. Len(events'[q])
               PROVE  (/\ events[q][k].status \in BeforeFills => events[q][k].at <= fills[q][f].at
                       /\ events[q][k].status \in AfterFills => fills[q][f].at <= events[q][k].at)'
    BY DEF FillsBetweenEvents
  <2>3. CASE q = o
    BY <2>3, <1>2, <1>3, <2>2
  <2>4. CASE q # o
    BY <2>4, <1>2, <1>3 DEF IInv, FillsBetweenEvents
  <2> QED
    BY <2>3, <2>4
<1>8. FillWindow'
  BY <1>1, <1>2 DEF IInv, FillWindow, Known, FillableStatuses
<1> QED
  BY <1>4, <1>5, <1>6, <1>7, <1>8 DEF IInv

THEOREM InductiveInvariant == Spec => []IInv
<1>1. Init => IInv
  <2> SUFFICES ASSUME Init PROVE IInv
    OBVIOUS
  <2>1. TypeOK
    BY DEF Init, TypeOK
  <2> QED
    BY <2>1 DEF Init, IInv, EventsLeadToStatus, FilledWithinQuantity, LogsInTimeOrder,
                FillsBetweenEvents, FillWindow, Known
<1>2. IInv /\ TypeOK' /\ [Next]_vars => IInv'
  <2> SUFFICES ASSUME IInv, TypeOK', [Next]_vars PROVE IInv'
    OBVIOUS
  <2>1. CASE UNCHANGED vars
    BY <2>1 DEF vars, IInv, TypeOK, EventsLeadToStatus, FilledWithinQuantity,
                LogsInTimeOrder, FillsBetweenEvents, FillWindow, Known
  <2> QED
    BY <2>1, PlanStep, TransitionStep, RecordFillStep DEF Next
<1> QED
  BY <1>1, <1>2, TypeCorrect, PTL DEF Spec

-----------------------------------------------------------------------------
(***************************************************************************)
(* What follows for the specification.                                     *)
(***************************************************************************)

\* At any time the status of every order is the end of a legal walk recorded in
\* its own append-only event list.
THEOREM StatusFollowsFromEvents == Spec => []EventsLeadToStatus
  BY InductiveInvariant, PTL DEF IInv

\* No sequence of record_fill calls fills an order beyond its quantity.
THEOREM NeverOverfilled == Spec => []FilledWithinQuantity
  BY InductiveInvariant, PTL DEF IInv

\* The two lists of an order can be merged by occurred_at and replayed: each is in
\* time order, and no fill lands outside the window in which fills are accepted.
THEOREM LogsReplayInTimeOrder == Spec => []LogsReplay
  BY InductiveInvariant, PTL DEF IInv, LogsReplay

\* The projection of an order and the sum of its fills, in units, part by at most
\* half a lot for each fill, and not at all when the fills are whole lots.
AllWhole(o) == \A k \in 1 .. Len(fills[o]) : fills[o][k].qty % Grain = 0
Follows(o) ==
    /\ Booked(o) \in Int
    /\ 2 * (Grain * projections[o].filled - Booked(o)) <= Grain * Len(fills[o])
    /\ 2 * (Booked(o) - Grain * projections[o].filled) <= Grain * Len(fills[o])
    /\ AllWhole(o) => Grain * projections[o].filled = Booked(o)
FillsFollowed == \A o \in Orders : Known(o) => Follows(o)

\* A rounded sum is half a lot further from the fills than its first part was.
LEMMA RoundedSum ==
    ASSUME NEW k \in Nat, NEW d \in Nat, NEW b \in Int, NEW n \in Nat,
           2 * (Grain * k - b) <= Grain * n, 2 * (b - Grain * k) <= Grain * n
    PROVE  /\ 2 * (Grain * quantize(Grain * k + d) - (b + d)) <= Grain * (n + 1)
           /\ 2 * ((b + d) - Grain * quantize(Grain * k + d)) <= Grain * (n + 1)
<1> USE OSMAssumption
<1> DEFINE g == Grain * k
           h == Grain * quantize(g + d)
           c == Grain * n
<1>1. g \in Nat /\ c \in Nat /\ Grain * (n + 1) = c + Grain
  OBVIOUS
<1>2. h \in Nat /\ 2 * (h - (g + d)) <= Grain /\ 2 * ((g + d) - h) <= Grain
  <2> HIDE DEF g
  <2> QED
    BY <1>1, QuantizeNear
<1>3. 2 * (g - b) <= c /\ 2 * (b - g) <= c
  OBVIOUS
<1>4. 2 * (h - (b + d)) <= c + Grain /\ 2 * ((b + d) - h) <= c + Grain
  <2> HIDE DEF g, h, c
  <2> QED
    BY <1>1, <1>2, <1>3
<1> QED
  BY <1>1, <1>4

\* The one operation that appends a fill adds its quantity, and rounds.
LEMMA RecordFillSums ==
    ASSUME IInv, FillsFollowed, NEW o \in Orders, NEW fill \in Fill, record_fill(o, fill)
    PROVE  Follows(o)'
<1> USE OSMAssumption, NoOrderAssumption
<1> DEFINE n == Len(fills[o])
           p == projections[o]
<1>1. /\ Known(o) /\ fill.qty > 0
      /\ projections' = [projections EXCEPT ![o] = [projections[o] EXCEPT
             !.filled = Filled(o, fill), !.lastAt = fill.at]]
      /\ fills' = [fills EXCEPT ![o] = Append(@, fill)]
  BY DEF record_fill, Admits, Book
<1>2. p \in Projection /\ fills[o] \in Seq(Fill) /\ p.filled \in Nat
  BY <1>1 DEF IInv, TypeOK, Known, Projection
<1>3. projections'[o].filled = Filled(o, fill) /\ fills'[o] = Append(fills[o], fill)
  BY <1>1, <1>2 DEF IInv, TypeOK, Projection
<1>4. /\ n \in Nat /\ Len(fills'[o]) = n + 1 /\ fills'[o][n + 1] = fill
      /\ \A k \in 1 .. n : fills'[o][k] = fills[o][k]
      /\ \A k \in 1 .. n + 1 : fills'[o][k] \in Fill
  BY <1>2, <1>3
<1>5. (\A f \in Fill : f.qty \in Int) /\ fill.qty \in Nat
  BY <1>1 DEF Fill
<1> DEFINE f == [k \in 1 .. Len(fills[o]) |-> fills[o][k].qty]
           g == [k \in 1 .. Len(fills'[o]) |-> fills'[o][k].qty]
<1>6. /\ DOMAIN f = 1 .. n /\ DOMAIN g = 1 .. n + 1
      /\ \A k \in 1 .. n : g[k] = f[k]
      /\ \A k \in 1 .. n + 1 : g[k] \in Int
      /\ g[n + 1] = fill.qty
  BY <1>4, <1>5
<1>7. Booked(o) = SumFunction(f) /\ Booked(o)' = SumFunction(g)
  BY DEF Booked
<1>8. Follows(o)
  BY <1>1 DEF FillsFollowed
<1>9. Booked(o)' = Booked(o) + fill.qty /\ Booked(o) \in Int
  <2>1. n \in Nat
    BY <1>4
  <2> HIDE DEF f, g, n
  <2> QED
    BY <1>6, <1>7, <2>1, SumAppend
<1>10. projections'[o].filled = quantize(Grain * p.filled + fill.qty)
  BY <1>3 DEF Filled
<1>11. /\ 2 * (Grain * projections'[o].filled - Booked(o)') <= Grain * Len(fills'[o])
       /\ 2 * (Booked(o)' - Grain * projections'[o].filled) <= Grain * Len(fills'[o])
  <2>1. 2 * (Grain * p.filled - Booked(o)) <= Grain * n /\ 2 * (Booked(o) - Grain * p.filled) <= Grain * n
    BY <1>8 DEF Follows
  <2>2. p.filled \in Nat /\ n \in Nat
    BY <1>2, <1>4
  <2> HIDE DEF p, n
  <2>3. /\ 2 * (Grain * quantize(Grain * p.filled + fill.qty) - (Booked(o) + fill.qty)) <= Grain * (n + 1)
        /\ 2 * ((Booked(o) + fill.qty) - Grain * quantize(Grain * p.filled + fill.qty)) <= Grain * (n + 1)
    BY <2>1, <2>2, <1>5, <1>9, RoundedSum
  <2> QED
    BY <2>3, <1>4, <1>9, <1>10
<1>12. ASSUME AllWhole(o)' PROVE Grain * projections'[o].filled = Booked(o)'
  <2>1. AllWhole(o) /\ fill.qty % Grain = 0
    BY <1>4, <1>12 DEF AllWhole
  <2>2. Grain * p.filled = Booked(o)
    BY <2>1, <1>8 DEF Follows
  <2>3. PICK m \in Nat : fill.qty = Grain * m
    <3>1. fill.qty \div Grain \in Int /\ fill.qty = Grain * (fill.qty \div Grain)
      BY <2>1, <1>5, Divides, DivBounds
    <3> DEFINE e == fill.qty \div Grain
    <3> HIDE DEF e
    <3>2. e \in Int /\ fill.qty = Grain * e
      BY <3>1 DEF e
    <3>3. e \in Nat
      <4> SUFFICES ASSUME e <= -1 PROVE FALSE
        BY <3>2
      <4>1. Grain * e <= -Grain
        BY <3>2
      <4> QED
        BY <4>1, <3>2, <1>5
    <3> QED
      BY <3>2, <3>3
  <2>4. Grain * p.filled + fill.qty = Grain * (p.filled + m) /\ p.filled + m \in Nat
    BY <2>3, <1>2
  <2>5. projections'[o].filled = p.filled + m
    BY <2>4, <1>10, QuantizeWhole
  <2> QED
    BY <2>2, <2>4, <2>5, <1>9
<1> QED
  BY <1>9, <1>11, <1>12, <1>5 DEF Follows

\* The filled quantity of an order can be recomputed from its fills, whatever the
\* sequence of calls: it is what they add up to when they are whole lots, and within
\* half a lot for each of them when they are not.
THEOREM FilledQuantityFollows == Spec => []FilledFollowsFills
<1> USE OSMAssumption, NoOrderAssumption
<1>1. Init => FillsFollowed
  BY DEF Init, FillsFollowed, Known
<1>2. IInv /\ FillsFollowed /\ [Next]_vars => FillsFollowed'
  <2> SUFFICES ASSUME IInv, FillsFollowed, [Next]_vars, NEW q \in Orders, Known(q)'
               PROVE  Follows(q)'
    BY DEF FillsFollowed
  <2> USE DEF IInv, TypeOK
  <2>0. ASSUME Known(q), projections'[q].filled = projections[q].filled, fills'[q] = fills[q]
        PROVE  Follows(q)'
    <3>1. Booked(q)' = Booked(q) /\ AllWhole(q)' = AllWhole(q)
      BY <2>0 DEF Booked, AllWhole
    <3> QED
      BY <2>0, <3>1 DEF FillsFollowed, Follows
  <2>1. ASSUME NEW o \in Orders, NEW i \in Intents, NEW at \in Times, plan(i, o, at)
        PROVE  Follows(q)'
    <3>1. CASE q = o
      <4>1. fills'[o] = <<>>
        BY <2>1 DEF plan, Enter, EventsLeadToStatus
      <4>2. projections'[o].filled = 0
        BY <2>1 DEF plan, Enter
      <4>3. Booked(o)' = 0
        <5>1. [k \in 1 .. Len(fills'[o]) |-> fills'[o][k].qty] = [k \in {} |-> 0]
          BY <4>1
        <5>2. Booked(o)' = SumFunction([k \in {} |-> 0])
          BY <5>1 DEF Booked
        <5> QED
          BY <5>2, SumOfNone DEF SumFunction
      <4> QED
        BY <3>1, <4>1, <4>2, <4>3 DEF Follows
    <3>2. CASE q # o
      BY <2>0, <2>1, <3>2 DEF plan, Enter, Known
    <3> QED
      BY <3>1, <3>2
  <2>2. ASSUME NEW o \in Orders, NEW s \in OrderStatus, NEW at \in Times,
               NEW b \in BrokerIds \cup {NoBrokerId}, transition(o, s, at, b)
        PROVE  Follows(q)'
    <3>1. projections'[q].filled = projections[q].filled /\ Known(q) /\ fills' = fills
      BY <2>2 DEF transition, Enter, Known, Projection
    <3> QED
      BY <3>1, <2>0
  <2>3. ASSUME NEW o \in Orders, NEW fill \in Fill, record_fill(o, fill)
        PROVE  Follows(q)'
    <3>1. CASE q = o
      BY <2>3, <3>1, RecordFillSums
    <3>2. CASE q # o
      BY <2>0, <2>3, <3>2 DEF record_fill, Book, Known
    <3> QED
      BY <3>1, <3>2
  <2>4. CASE UNCHANGED vars
    BY <2>0, <2>4 DEF vars, Known
  <2> QED
    BY <2>1, <2>2, <2>3, <2>4 DEF Next
<1>3. FillsFollowed => FilledFollowsFills
  BY DEF FillsFollowed, Follows, AllWhole, FilledFollowsFills
<1> QED
  BY <1>1, <1>2, <1>3, InductiveInvariant, PTL DEF Spec

-----------------------------------------------------------------------------
(***************************************************************************)
(* The state machine implements OrderLifecycle.                            *)
(***************************************************************************)
phaseBar == [o \in Orders |-> IF Known(o) THEN PhaseOf(projections[o].status) ELSE "absent"]
filledBar == [o \in Orders |-> IF Known(o) THEN projections[o].filled ELSE 0]
quantityBar == [o \in Orders |-> IF Known(o) THEN OrderQuantity(projections[o].intent) ELSE 0]

\* An allowed transition keeps the phase or moves it to a successor phase.
LEMMA TransitionMovesPhase ==
    ASSUME NEW s \in OrderStatus, NEW t \in ALLOWED_TRANSITIONS[s]
    PROVE  PhaseOf(t) = PhaseOf(s) \/ PhaseOf(t) \in Lifecycle!Successors[PhaseOf(s)]
  BY DEF OrderStatus, ALLOWED_TRANSITIONS, PhaseOf, Lifecycle!Successors

LEMMA PlanPrepares ==
    ASSUME IInv, NEW o \in Orders, NEW i \in Intents, NEW at \in Times, plan(i, o, at)
    PROVE  Lifecycle!Prepare(o)
<1> USE OSMAssumption, NoOrderAssumption
<1> DEFINE p == [intent |-> i, status |-> "PLANNED", filled |-> 0,
                 broker |-> NoBrokerId, lastAt |-> at]
<1>1. p \in Projection
  BY DEF Projection, OrderStatus
<1>2. projections[o] = NoOrder /\ projections'[o] = p /\ p # NoOrder
      /\ \A q \in Orders \ {o} : projections'[q] = projections[q]
  BY <1>1 DEF plan, Enter, Known, IInv, TypeOK
<1>3. /\ phaseBar' = [phaseBar EXCEPT ![o] = "preparing"]
      /\ quantityBar' = [quantityBar EXCEPT ![o] = OrderQuantity(i)]
      /\ filledBar' = filledBar
      /\ phaseBar[o] = "absent"
  <2>1. PhaseOf("PLANNED") = "preparing"
    BY DEF PhaseOf
  <2>2. Known(o)' /\ ~Known(o) /\ \A q \in Orders \ {o} : Known(q)' = Known(q)
    BY <1>2 DEF Known
  <2>3. phaseBar' = [phaseBar EXCEPT ![o] = "preparing"] /\ phaseBar[o] = "absent"
    <3>1. projections'[o].status = "PLANNED"
      BY <1>2
    <3> QED
      BY <1>2, <2>1, <2>2, <3>1 DEF phaseBar
  <2>4. quantityBar' = [quantityBar EXCEPT ![o] = OrderQuantity(i)]
    <3>1. projections'[o].intent = i
      BY <1>2
    <3> QED
      BY <1>2, <2>2, <3>1 DEF quantityBar
  <2>5. filledBar' = filledBar
    <3>1. projections'[o].filled = 0
      BY <1>2
    <3> QED
      BY <1>2, <2>2, <3>1 DEF filledBar
  <2> QED
    BY <2>3, <2>4, <2>5
<1>4. OrderQuantity(i) \in {OrderQuantity(j) : j \in Intents} \ {0}
  BY DEF plan
<1> QED
  BY <1>3, <1>4 DEF Lifecycle!Prepare, phaseBar, quantityBar, filledBar

LEMMA TransitionAdvances ==
    ASSUME IInv, NEW o \in Orders, NEW s \in OrderStatus, NEW at \in Times,
           NEW b \in BrokerIds \cup {NoBrokerId}, transition(o, s, at, b)
    PROVE  Lifecycle!Advance(o) \/ UNCHANGED <<phaseBar, filledBar, quantityBar>>
<1> USE OSMAssumption, NoOrderAssumption
<1> DEFINE p == projections[o]
           kept == IF b = NoBrokerId THEN p.broker ELSE b
           new == [p EXCEPT !.status = s, !.lastAt = at, !.broker = kept]
<1>1. Known(o) /\ p \in Projection /\ s \in ALLOWED_TRANSITIONS[p.status]
  BY DEF transition, Enter, IInv, TypeOK, Known
<1>2. new \in Projection /\ new.status = s /\ new.filled = p.filled /\ new.intent = p.intent
  BY <1>1 DEF Projection
<1>3. /\ projections'[o] = new /\ new # NoOrder
      /\ \A q \in Orders \ {o} : projections'[q] = projections[q]
  BY <1>2 DEF transition, Enter, IInv, TypeOK
<1>4. /\ phaseBar' = [phaseBar EXCEPT ![o] = PhaseOf(s)]
      /\ filledBar' = filledBar
      /\ quantityBar' = quantityBar
      /\ phaseBar[o] = PhaseOf(p.status)
  <2>1. Known(o)' /\ Known(o) /\ \A q \in Orders \ {o} : Known(q)' = Known(q)
    BY <1>1, <1>3 DEF Known
  <2>2. phaseBar' = [phaseBar EXCEPT ![o] = PhaseOf(s)] /\ phaseBar[o] = PhaseOf(p.status)
    BY <1>2, <1>3, <2>1 DEF phaseBar
  <2>3. quantityBar' = quantityBar
    BY <1>2, <1>3, <2>1 DEF quantityBar
  <2>4. filledBar' = filledBar
    BY <1>2, <1>3, <2>1 DEF filledBar
  <2> QED
    BY <2>2, <2>3, <2>4
<1>5. PhaseOf(s) = PhaseOf(p.status) \/ PhaseOf(s) \in Lifecycle!Successors[PhaseOf(p.status)]
  BY <1>1, TransitionMovesPhase DEF Projection
<1>6. CASE PhaseOf(s) = PhaseOf(p.status)
  <2>1. phaseBar' = phaseBar
    BY <1>4, <1>6 DEF phaseBar
  <2> QED
    BY <1>4, <2>1
<1>7. CASE PhaseOf(s) \in Lifecycle!Successors[PhaseOf(p.status)]
  BY <1>4, <1>7 DEF Lifecycle!Advance, phaseBar, filledBar, quantityBar
<1> QED
  BY <1>5, <1>6, <1>7

LEMMA FillExecutes ==
    ASSUME IInv, NEW o \in Orders, NEW fill \in Fill, record_fill(o, fill)
    PROVE  Lifecycle!Execute(o) \/ UNCHANGED <<phaseBar, filledBar, quantityBar>>
<1> USE OSMAssumption, NoOrderAssumption
<1> DEFINE p == projections[o]
           q == Filled(o, fill)
           new == [p EXCEPT !.filled = q, !.lastAt = fill.at]
<1>1. /\ Known(o) /\ p \in Projection /\ p.status \in FillableStatuses
      /\ q \in Nat /\ p.filled <= q /\ q <= OrderQuantity(p.intent)
      /\ p.filled \in Nat /\ p.intent \in Intents /\ OrderQuantity(p.intent) \in Nat
  <2>1. /\ Known(o) /\ p \in Projection /\ p.status \in FillableStatuses
        /\ fill.qty \in Nat /\ q <= OrderQuantity(p.intent)
        /\ p.filled \in Nat /\ p.intent \in Intents
    BY DEF record_fill, Admits, Book, IInv, TypeOK, Known, Projection, Fill
  <2>2. q \in Nat /\ p.filled <= q
    BY <2>1, QuantizeGrows DEF Filled
  <2> QED
    BY <2>1, <2>2, OrderQuantityType
<1>2. /\ new \in Projection /\ new.status = p.status /\ new.filled = q
      /\ new.intent = p.intent /\ q \in Nat
  <2>1. q \in Nat /\ fill.at \in Times
    BY <1>1 DEF Fill
  <2> QED
    BY <1>1, <2>1 DEF Projection
<1>3. /\ projections'[o] = new /\ new # NoOrder
      /\ \A r \in Orders \ {o} : projections'[r] = projections[r]
  BY <1>2 DEF record_fill, Admits, Book, IInv, TypeOK
<1>4. /\ phaseBar' = phaseBar /\ quantityBar' = quantityBar
      /\ filledBar' = [filledBar EXCEPT ![o] = q]
      /\ filledBar[o] = p.filled /\ quantityBar[o] = OrderQuantity(p.intent)
      /\ phaseBar[o] = PhaseOf(p.status)
  <2>1. Known(o)' /\ Known(o) /\ \A r \in Orders \ {o} : Known(r)' = Known(r)
    BY <1>1, <1>3 DEF Known
  <2>2. phaseBar' = phaseBar /\ phaseBar[o] = PhaseOf(p.status)
    BY <1>2, <1>3, <2>1 DEF phaseBar
  <2>3. quantityBar' = quantityBar /\ quantityBar[o] = OrderQuantity(p.intent)
    <3>1. p # NoOrder /\ new.intent = p.intent
      BY <1>1, <1>2 DEF Known
    <3>2. \A r \in Orders : projections'[r].intent = projections[r].intent
      BY <1>3, <3>1
    <3>3. \A r \in Orders : Known(r)' = Known(r)
      BY <1>3, <3>1 DEF Known
    <3> QED
      BY <2>1, <3>2, <3>3 DEF quantityBar
  <2>4. filledBar' = [filledBar EXCEPT ![o] = q] /\ filledBar[o] = p.filled
    BY <1>2, <1>3, <2>1 DEF filledBar
  <2> QED
    BY <2>2, <2>3, <2>4
<1>5. PhaseOf(p.status) \in {"open", "done"}
  BY <1>1 DEF PhaseOf, FillableStatuses
<1>6. CASE q = p.filled
  <2>1. filledBar' = filledBar
    BY <1>4, <1>6 DEF filledBar
  <2> QED
    BY <1>4, <2>1
<1>7. CASE q # p.filled
  <2>1. q \in filledBar[o] + 1 .. quantityBar[o]
    BY <1>1, <1>4, <1>7
  <2> QED
    BY <1>4, <1>5, <2>1 DEF Lifecycle!Execute, phaseBar, filledBar, quantityBar
<1> QED
  BY <1>6, <1>7

\* Whatever its caller does, the state machine behaves as OrderLifecycle says.
THEOREM Refinement == Spec => ImplementsLifecycle
<1>1. Init => Lifecycle!Init
  BY DEF Init, Lifecycle!Init, Known
<1>2. IInv /\ [Next]_vars => [Lifecycle!Next]_(Lifecycle!lifeVars)
  <2> SUFFICES ASSUME IInv, [Next]_vars
               PROVE  Lifecycle!Next \/ UNCHANGED <<phaseBar, filledBar, quantityBar>>
    BY DEF Lifecycle!lifeVars, phaseBar, filledBar, quantityBar
  <2>1. CASE UNCHANGED vars
    BY <2>1 DEF vars, phaseBar, filledBar, quantityBar, Known
  <2> QED
    BY <2>1, PlanPrepares, TransitionAdvances, FillExecutes DEF Next, Lifecycle!Next
<1> QED
  BY <1>1, <1>2, InductiveInvariant, PTL DEF Spec, ImplementsLifecycle, Lifecycle!Spec
=============================================================================
