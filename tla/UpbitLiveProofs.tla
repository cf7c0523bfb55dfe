--------------------------- MODULE UpbitLiveProofs ---------------------------
(***************************************************************************)
(* What the live execution path keeps for any number of orders and intents, *)
(* any quantity, and any number of crashes, failed writes, lost answers and *)
(* the other faults.                                                       *)
(***************************************************************************)
EXTENDS UpbitLive, SumTheorems, TLAPS

\* Where the call in progress goes on, once a pending upsert is done.
Label == IF ctl.pc = "upsert" THEN ctl.then ELSE ctl.pc

Preparing == {"check", "approved", "payload", "create"}
Applying == {"ack", "work", "fill", "settle", "after"}
Unsent == Preparing \cup {"unbuildable"}
Handling == Unsent \cup Applying \cup {"upsert", "refused", "lost", "pend", "cancel"}

\* No gateway error has struck: what LiveOrderListed asks for.
Calm == budget["gateway"] = MaxFaults["gateway"]

\* What a projection, in memory or in the store, may say of an order, given what
\* the exchange holds of it.
Backed(p, r) ==
    /\ p.filled <= IF r = NoRemote THEN 0 ELSE r.executed
    /\ p.acked => r # NoRemote
    /\ r # NoRemote /\ r.state = "wait" /\ Calm => p.status \in OpenStatuses

\* The projection in memory is the row's, or one that came after it.
Follows(p, row) ==
    /\ p.intent = row.intent
    /\ p.filled >= row.filled
    /\ row.status \in TerminalStatuses => p.status = row.status

OrderOK(o) ==
    /\ mem[o] # NoRow => Backed(mem[o], remote[o])
    /\ rows[o] # NoRow => Backed(rows[o], remote[o])
    /\ mem[o] # NoRow /\ rows[o] # NoRow => Follows(mem[o], rows[o])
    /\ Placed(o) => rows[o] # NoRow /\ rows[o].intent = remote[o].intent
    /\ o \in known => mem[o] # NoRow /\ rows[o] # NoRow /\ Placed(o)

RowsUnique ==
    \A p, q \in Orders :
        rows[p] # NoRow /\ rows[q] # NoRow /\ rows[p].intent = rows[q].intent => p = q

\* The order in hand has a projection, and a row once it is past its first upsert;
\* it is not at the exchange before it is sent.
InHand == ctl.pc \in Handling \/ (ctl.pc = "refresh" /\ ~ctl.sync)
OrderInHand ==
    /\ InHand => /\ cur \in Orders
                 /\ mem[cur] # NoRow
                 /\ ctl.pc # "upsert" => rows[cur] # NoRow
    /\ Label \in Unsent => remote[cur] = NoRemote
    /\ Label = "refused" /\ Calm => remote[cur] = NoRemote
    /\ Label \in Preparing => mem[cur].status \in OpenStatuses
    /\ Label \in {"approved", "payload", "create"} => kill = {}
    /\ Label = "cancel" => Placed(cur)

\* The answer a call works from is one the exchange has given, of orders whose
\* exchange ids are known.
Older(s, r) ==
    /\ r # NoRemote
    /\ s.executed <= r.executed
    /\ s.state # "wait" => r.state = s.state
AnswerOK ==
    /\ ctl.todo \subseteq known
    /\ ctl.snap # NoSnapshot =>
        \A o \in Orders : ctl.snap[o] # NoRemote => Older(ctl.snap[o], remote[o])
    /\ Label \in Applying =>
        /\ ctl.snap # NoSnapshot
        /\ \A o \in ctl.todo \cup {cur} : ctl.snap[o] # NoRemote

BudgetOK == \A f \in FaultKinds : budget[f] <= MaxFaults[f]

IInv ==
    /\ TypeOK
    /\ BudgetOK
    /\ \A o \in Orders : OrderOK(o)
    /\ RowsUnique
    /\ OrderInHand
    /\ AnswerOK

Call == [pc : Labels, then : Labels, cur : Orders \cup {NoOrder},
         todo : SUBSET Orders, sync : BOOLEAN,
         snap : [Orders -> Remote \cup {NoRemote}] \cup {NoSnapshot}]

-----------------------------------------------------------------------------
(* Faults and the ends of calls.                                           *)

\* Faults are used up, never given back.
BudgetStep == budget' \in [FaultKinds -> Nat] /\ \A f \in FaultKinds : budget'[f] <= budget[f]

LEMMA Struck ==
    ASSUME TypeOK, NEW f \in FaultKinds, Strike(f)
    PROVE  BudgetStep
BY DEF TypeOK, Strike, BudgetStep

LEMMA Unstruck ==
    ASSUME TypeOK, UNCHANGED budget
    PROVE  BudgetStep
BY DEF TypeOK, BudgetStep

LEMMA BudgetShrinks ==
    ASSUME TypeOK, BudgetOK, BudgetStep
    PROVE  BudgetOK' /\ (Calm' => Calm)
<1>1. "gateway" \in FaultKinds /\ MaxFaults \in [FaultKinds -> Nat]
  BY UpbitAssumption DEF FaultKinds
<1>2. budget \in [FaultKinds -> Nat]
  BY DEF TypeOK
<1>3. BudgetOK'
  BY <1>1, <1>2 DEF BudgetOK, BudgetStep
<1>4. Calm' => Calm
  BY <1>1, <1>2 DEF BudgetOK, BudgetStep, Calm
<1> QED
  BY <1>3, <1>4

\* The calls with nothing in hand.
Resting == {Idle, [Idle EXCEPT !.pc = "mark"], [Idle EXCEPT !.pc = "down"]}

LEMMA RestIsFine ==
    ASSUME ctl' \in Resting
    PROVE  OrderInHand' /\ AnswerOK' /\ ctl' \in Call
<1>1. PICK pc \in {"idle", "mark", "down"} :
        ctl' = [pc |-> pc, then |-> "idle", cur |-> NoOrder, todo |-> {},
                snap |-> NoSnapshot, sync |-> FALSE]
  BY DEF Resting, Idle
<1>2. ctl'.pc = pc /\ ctl'.todo = {} /\ ctl'.snap = NoSnapshot /\ ctl' \in Call
  <2>1. pc \in Labels /\ "idle" \in Labels
    BY DEF Labels
  <2> QED
    BY <1>1, <2>1 DEF Call
<1>3. Label' = ctl'.pc
  BY <1>2 DEF Label
<1>4. OrderInHand'
  BY <1>2, <1>3 DEF OrderInHand, InHand, Handling, Unsent, Preparing, Applying
<1>5. AnswerOK'
  BY <1>2, <1>3 DEF AnswerOK, Applying
<1> QED
  BY <1>2, <1>4, <1>5

LEMMA RaiseRests ==
    ASSUME Raise PROVE ctl' \in Resting
BY DEF Raise, Resting

-----------------------------------------------------------------------------
(* Orders.                                                                 *)

LEMMA MovesAreStatuses ==
    ASSUME NEW s \in OrderStatus, NEW t \in ALLOWED_TRANSITIONS[s]
    PROVE  t \in OrderStatus /\ s \notin TerminalStatuses
<1>1. t \in OrderStatus
  BY DEF OrderStatus, ALLOWED_TRANSITIONS
<1>2. s \notin TerminalStatuses
  BY DEF TerminalStatuses
<1> QED
  BY <1>1, <1>2

\* Nothing is lost when orders stay as they are: known may gain one that the store
\* and the exchange hold.
Learned(o) ==
    \/ known' = known
    \/ /\ known' = known \cup {o} /\ o \in Orders
       /\ mem[o] # NoRow /\ rows[o] # NoRow /\ Placed(o)

LEMMA QuietOrders ==
    ASSUME IInv, BudgetStep, UNCHANGED <<rows, mem, remote>>, NEW o, Learned(o)
    PROVE  /\ BudgetOK' /\ RowsUnique'
           /\ \A q \in Orders : OrderOK(q)'
           /\ known \subseteq known'
<1>1. BudgetOK' /\ (Calm' => Calm)
  BY BudgetShrinks DEF IInv
<1>2. RowsUnique'
  BY DEF IInv, RowsUnique
<1>3. \A q \in Orders : OrderOK(q)'
  <2> SUFFICES ASSUME NEW q \in Orders PROVE OrderOK(q)'
    OBVIOUS
  <2>1. OrderOK(q)
    BY DEF IInv
  <2>2. q \in known' => q \in known \/ (mem[q] # NoRow /\ rows[q] # NoRow /\ Placed(q))
    BY DEF Learned
  <2> QED
    BY <1>1, <2>1, <2>2 DEF OrderOK, Backed, Placed
<1>4. known \subseteq known'
  BY DEF Learned
<1> QED
  BY <1>1, <1>2, <1>3, <1>4

\* The projection of an order changes in memory.
LEMMA NewProjection ==
    ASSUME IInv, BudgetStep, NEW o \in Orders, NEW p \in Row,
           mem' = [mem EXCEPT ![o] = p], UNCHANGED <<rows, remote>>, Learned(o),
           Backed(p, remote[o]), rows[o] # NoRow => Follows(p, rows[o])
    PROVE  /\ BudgetOK' /\ RowsUnique'
           /\ mem' \in [Orders -> Row \cup {NoRow}] /\ mem'[o] = p
           /\ \A q \in Orders : OrderOK(q)'
           /\ known \subseteq known'
<1>1. BudgetOK' /\ (Calm' => Calm)
  BY BudgetShrinks DEF IInv
<1>2. RowsUnique'
  BY DEF IInv, RowsUnique
<1>3. mem \in [Orders -> Row \cup {NoRow}]
  BY DEF IInv, TypeOK
<1>4. mem' \in [Orders -> Row \cup {NoRow}] /\ mem'[o] = p
  BY <1>3
<1>5. \A q \in Orders : OrderOK(q)'
  <2> SUFFICES ASSUME NEW q \in Orders PROVE OrderOK(q)'
    OBVIOUS
  <2>1. OrderOK(q)
    BY DEF IInv
  <2>2. q \in known' => q \in known \/ (mem[q] # NoRow /\ rows[q] # NoRow /\ Placed(q))
    BY DEF Learned
  <2>3. CASE q = o
    <3>1. p # NoRow
      BY NullAssumption
    <3> QED
      BY <1>1, <1>4, <2>1, <2>2, <2>3, <3>1 DEF OrderOK, Backed, Placed, Follows
  <2>4. CASE q # o
    <3>1. mem'[q] = mem[q]
      BY <1>3, <2>4
    <3> QED
      BY <1>1, <2>1, <2>2, <3>1 DEF OrderOK, Backed, Placed
  <2> QED
    BY <2>3, <2>4
<1>6. known \subseteq known'
  BY DEF Learned
<1> QED
  BY <1>1, <1>2, <1>4, <1>5, <1>6

-----------------------------------------------------------------------------
(* Calls.                                                                  *)

\* A call may go on to a label with order o, whose projection is p.
Fits(label, o, p) ==
    /\ label \in Labels \ {"refused"}
    /\ label \in Unsent => remote[o] = NoRemote
    /\ label \in Preparing => p.status \in OpenStatuses
    /\ label \in {"approved", "payload", "create"} => kill = {}
    /\ label = "cancel" => Placed(o)
    /\ label \in Applying =>
        ctl.snap # NoSnapshot /\ \A q \in ctl.todo \cup {o} : ctl.snap[q] # NoRemote

LEMMA GoesToUpsert ==
    ASSUME IInv, NEW o \in Orders, NEW p, NEW next, Fits(next, o, p),
           ctl' = [ctl EXCEPT !.pc = "upsert", !.then = next, !.cur = o],
           mem'[o] = p, p # NoRow, UNCHANGED <<remote, kill>>, known \subseteq known'
    PROVE  OrderInHand' /\ AnswerOK' /\ ctl' \in Call
<1>1. ctl \in Call
  BY DEF IInv, TypeOK, Call
<1>2. /\ ctl'.pc = "upsert" /\ ctl'.then = next /\ ctl'.cur = o /\ ctl'.todo = ctl.todo
      /\ ctl'.snap = ctl.snap
  BY <1>1 DEF Call
<1>3. ctl' \in Call
  <2>1. "upsert" \in Labels /\ next \in Labels
    BY DEF Labels, Fits
  <2> QED
    BY <1>1, <2>1 DEF Call
<1>4. Label' = next
  BY <1>2 DEF Label
<1>5. OrderInHand'
  BY <1>2, <1>4 DEF OrderInHand, Fits, cur, Placed
<1>6. AnswerOK'
  BY <1>2, <1>4 DEF AnswerOK, Fits, cur, IInv
<1> QED
  BY <1>3, <1>5, <1>6

LEMMA GoesOn ==
    ASSUME IInv, NEW label, Goto(label), Fits(label, cur, mem[cur]), InHand, ctl.pc # "upsert",
           label # "upsert", UNCHANGED <<rows, mem, remote, kill>>, known \subseteq known'
    PROVE  OrderInHand' /\ AnswerOK' /\ ctl' \in Call
<1>1. ctl \in Call
  BY DEF IInv, TypeOK, Call
<1>2. /\ ctl'.pc = label /\ ctl'.cur = ctl.cur /\ ctl'.todo = ctl.todo
      /\ ctl'.snap = ctl.snap
  BY <1>1 DEF Call, Goto
<1>3. ctl' \in Call
  BY <1>1 DEF Call, Goto, Fits
<1>4. Label' = label
  BY <1>2 DEF Label
<1>5. cur \in Orders /\ mem[cur] # NoRow /\ rows[cur] # NoRow
  BY DEF IInv, OrderInHand
<1>6. OrderInHand'
  BY <1>2, <1>4, <1>5 DEF OrderInHand, Fits, cur, Placed
<1>7. AnswerOK'
  BY <1>2, <1>4 DEF AnswerOK, Fits, cur, IInv
<1> QED
  BY <1>3, <1>6, <1>7

-----------------------------------------------------------------------------
(* Steps.                                                                  *)

\* A step that leaves orders alone keeps the invariant if its call goes on well.
LEMMA QuietStep ==
    ASSUME IInv, BudgetStep, trouble' \subseteq Failures,
           kill' \subseteq Reasons, killRows' \subseteq Reasons,
           UNCHANGED <<rows, evts, sfills, mem, claimed, clock, remote>>,
           NEW o, Learned(o),
           OrderInHand', AnswerOK', ctl' \in Call
    PROVE  IInv'
<1>1. BudgetOK' /\ RowsUnique' /\ \A q \in Orders : OrderOK(q)'
  BY QuietOrders
<1>2. TypeOK'
  BY DEF IInv, TypeOK, Learned, BudgetStep, Call
<1> QED
  BY <1>1, <1>2 DEF IInv

LEMMA Stamped ==
    ASSUME TypeOK, NEW o \in Orders, NEW at, Stamp(o, at)
    PROVE  BudgetStep /\ clock' \in [Orders -> {"behind", "ahead", "naive"}]
<1>1. "ahead" \in FaultKinds
  BY DEF FaultKinds
<1> QED
  BY <1>1, Struck, Unstruck DEF Stamp, TypeOK

LEMMA KeptFailures ==
    ASSUME TypeOK PROVE Kept \subseteq Failures
BY DEF Kept, TypeOK

LEMMA StoreFailure ==
    ASSUME TypeOK, StoreFails
    PROVE  BudgetStep /\ trouble' \subseteq Failures
<1>1. "store" \in FaultKinds /\ "store" \in Failures
  BY DEF FaultKinds, Failures
<1> QED
  BY <1>1, Struck, KeptFailures DEF StoreFails

LEMMA NetworkFailure ==
    ASSUME TypeOK, NEW call \in {"create", "cancel", "read", "ticker"}, NetworkFails(call)
    PROVE  BudgetStep /\ trouble' \subseteq Failures
<1>1. "network" \in FaultKinds /\ call \in Failures
  BY DEF FaultKinds, Failures
<1> QED
  BY <1>1, Struck, KeptFailures DEF NetworkFails

LEMMA NoFailure ==
    ASSUME TypeOK, NoFault
    PROVE  BudgetStep /\ trouble' \subseteq Failures
BY Unstruck, KeptFailures DEF NoFault

LEMMA RecordStep ==
    ASSUME IInv, NEW o \in Orders, NEW p \in Row, NEW next, NEW at, Record(o, p, next, at),
           claimed' \in [Intents -> Orders \cup {NoOrder}], Learned(o), UNCHANGED <<kill, remote>>,
           Backed(p, remote[o]), rows[o] # NoRow => Follows(p, rows[o]), Fits(next, o, p)
    PROVE  IInv'
<1>1. /\ mem' = [mem EXCEPT ![o] = p]
      /\ rows' = rows /\ sfills' = sfills /\ killRows' = killRows
  BY DEF Record
<1>2. TypeOK
  BY DEF IInv
<1>3. /\ BudgetStep /\ trouble' \subseteq Failures
      /\ clock' \in [Orders -> {"behind", "ahead", "naive"}]
  BY <1>2, Stamped, StoreFailure, KeptFailures DEF Record, TypeOK
<1>4. /\ BudgetOK' /\ RowsUnique'
      /\ mem' \in [Orders -> Row \cup {NoRow}] /\ mem'[o] = p
      /\ \A q \in Orders : OrderOK(q)'
      /\ known \subseteq known'
  BY <1>1, <1>3, NewProjection
<1>5. evts' \in [Orders -> Seq(OrderStatus)]
  <2>1. p.status \in OrderStatus
    BY DEF Row
  <2>2. evts \in [Orders -> Seq(OrderStatus)]
    BY <1>2 DEF TypeOK
  <2>3. Append(evts[o], p.status) \in Seq(OrderStatus)
    BY <2>1, <2>2
  <2> QED
    BY <2>2, <2>3 DEF Record
<1>6. OrderInHand' /\ AnswerOK' /\ ctl' \in Call
  <2>1. CASE ctl' = [ctl EXCEPT !.pc = "upsert", !.then = next, !.cur = o]
    BY <1>4, <2>1, GoesToUpsert, NullAssumption
  <2>2. CASE Raise
    BY <2>2, RaiseRests, RestIsFine
  <2> QED
    BY <2>1, <2>2 DEF Record
<1>7. TypeOK'
  <2>1. known' \subseteq Orders
    BY <1>2 DEF Learned, TypeOK
  <2> QED
    BY <1>1, <1>2, <1>3, <1>4, <1>5, <1>6, <2>1 DEF TypeOK, BudgetStep, Call
<1> QED
  BY <1>4, <1>6, <1>7 DEF IInv

\* Another status for an order that has a projection.
LEMMA TransitionStep ==
    ASSUME IInv, NEW o \in Orders, mem[o] # NoRow, NEW s, NEW b \in BOOLEAN, NEW next, NEW at,
           NEW p, p = [mem[o] EXCEPT !.status = s, !.acked = b],
           Transition(o, p, next, at),
           UNCHANGED <<claimed, kill, remote>>, Learned(o),
           b => mem[o].acked \/ Placed(o),
           \/ s \in OpenStatuses
           \/ remote[o] = NoRemote \/ remote[o].state # "wait" \/ ~Calm,
           Fits(next, o, p)
    PROVE  IInv'
<1>1. mem[o] \in Row /\ TypeOK /\ OrderOK(o)
  BY DEF IInv, TypeOK
<1>2. /\ p.status = s /\ p.acked = b /\ p.intent = mem[o].intent /\ p.filled = mem[o].filled
  BY <1>1 DEF Row
<1>3. CASE s \in ALLOWED_TRANSITIONS[mem[o].status] /\ CanStamp(o, at)
  <2>1. s \in OrderStatus /\ mem[o].status \notin TerminalStatuses
    BY <1>1, <1>3, MovesAreStatuses DEF Row
  <2>2. p \in Row
    BY <1>1, <2>1 DEF Row
  <2>3. Backed(p, remote[o])
    BY <1>1, <1>2 DEF OrderOK, Backed, Placed
  <2>4. rows[o] # NoRow => Follows(p, rows[o])
    BY <1>1, <1>2, <2>1 DEF OrderOK, Follows
  <2>5. Record(o, p, next, at)
    BY <1>2, <1>3 DEF Transition
  <2>6. claimed' \in [Intents -> Orders \cup {NoOrder}]
    BY <1>1 DEF TypeOK
  <2> QED
    BY <2>2, <2>3, <2>4, <2>5, <2>6, RecordStep
<1>4. CASE ~(s \in ALLOWED_TRANSITIONS[mem[o].status] /\ CanStamp(o, at))
  <2>1. Raise /\ NoFault /\ UNCHANGED <<storeVars, mem, clock>>
    BY <1>2, <1>4 DEF Transition
  <2>2. OrderInHand' /\ AnswerOK' /\ ctl' \in Call
    BY <2>1, RaiseRests, RestIsFine
  <2>3. BudgetStep /\ trouble' \subseteq Failures
    BY <1>1, <2>1, NoFailure
  <2> QED
    BY <1>1, <2>1, <2>2, <2>3, QuietStep DEF storeVars, TypeOK
<1> QED
  BY <1>3, <1>4

\* What is known of the order in hand.
LEMMA HandFacts ==
    ASSUME IInv, ctl.pc \in Handling \ {"upsert"}
    PROVE  /\ cur \in Orders /\ mem[cur] \in Row /\ mem[cur] # NoRow /\ rows[cur] # NoRow
           /\ OrderOK(cur) /\ InHand /\ Label = ctl.pc
<1>1. InHand /\ Label = ctl.pc
  BY DEF InHand, Label
<1>2. cur \in Orders /\ mem[cur] # NoRow /\ rows[cur] # NoRow
  BY <1>1 DEF IInv, OrderInHand
<1> QED
  BY <1>1, <1>2 DEF IInv, TypeOK

\* A transition of an order that is not closed while it waits at the exchange.
LEMMA MoveStep ==
    ASSUME IInv, NEW o \in Orders, mem[o] # NoRow, NEW s, NEW next, NEW at,
           Transition(o, To(o, s), next, at),
           UNCHANGED <<claimed, kill, remote>>, Learned(o),
           \/ s \in OpenStatuses
           \/ remote[o] = NoRemote \/ remote[o].state # "wait" \/ ~Calm,
           Fits(next, o, [status |-> s])
    PROVE  IInv'
<1>1. mem[o] \in Row
  BY DEF IInv, TypeOK
<1>2. To(o, s) = [mem[o] EXCEPT !.status = s, !.acked = mem[o].acked] /\ mem[o].acked \in BOOLEAN
  BY <1>1 DEF To, Row
<1>3. To(o, s).status = s
  BY <1>1 DEF To, Row
<1>4. Fits(next, o, To(o, s))
  BY <1>3 DEF Fits
<1> QED
  BY <1>2, <1>4, TransitionStep

LEMMA SubmitKeeps ==
    ASSUME IInv, NEW i \in Intents, Submit(i) PROVE IInv'
<1>1. PICK o \in Orders :
        /\ Fresh(o)
        /\ claimed' = [claimed EXCEPT ![i] = o]
        /\ Record(o, [intent |-> i, status |-> "PLANNED", filled |-> 0, acked |-> FALSE],
                  "check", "tick")
  BY DEF Submit
<1> DEFINE p == [intent |-> i, status |-> "PLANNED", filled |-> 0, acked |-> FALSE]
<1>2. p \in Row
  BY UpbitAssumption DEF Row, OrderStatus
<1>3. claimed' \in [Intents -> Orders \cup {NoOrder}]
  BY <1>1 DEF IInv, TypeOK
<1>4. Backed(p, remote[o]) /\ rows[o] = NoRow
  BY <1>1 DEF Backed, Fresh
<1>5. Fits("check", o, p)
  BY <1>1 DEF Fits, Fresh, Labels, Unsent, Preparing, Applying, OpenStatuses
<1>6. Learned(o) /\ UNCHANGED <<kill, remote>>
  BY DEF Submit, Learned
<1> QED
  BY <1>1, <1>2, <1>3, <1>4, <1>5, <1>6, RecordStep

\* Nothing about the call changes between calls.
LEMMA BetweenCalls ==
    ASSUME IInv, ctl.pc = "idle", UNCHANGED <<rows, mem, remote, known, ctl>>
    PROVE  OrderInHand' /\ AnswerOK' /\ ctl' \in Call
<1>1. Label' = "idle" /\ ctl'.pc = "idle"
  BY DEF Label
<1>2. ctl' \in Call
  BY DEF IInv, TypeOK, Call
<1>3. OrderInHand'
  BY <1>1 DEF OrderInHand, InHand, Handling, Unsent, Preparing, Applying
<1>4. AnswerOK'
  BY <1>1 DEF AnswerOK, Applying, IInv
<1> QED
  BY <1>2, <1>3, <1>4

LEMMA Triggered ==
    ASSUME TypeOK, NEW reason \in Reasons, Trigger(reason)
    PROVE  /\ BudgetStep /\ trouble' \subseteq Failures
           /\ kill' \subseteq Reasons /\ killRows' \subseteq Reasons
           /\ UNCHANGED <<rows, evts, sfills, mem, claimed, known, clock, remote>>
<1>1. BudgetStep /\ trouble' \subseteq Failures
  BY NoFailure, StoreFailure DEF Trigger
<1> QED
  BY <1>1 DEF Trigger, TypeOK

LEMMA SubmitDuplicateKeeps ==
    ASSUME IInv, NEW i \in Intents, SubmitDuplicate(i) PROVE IInv'
<1>1. Trigger("DUPLICATE_INTENT") /\ "DUPLICATE_INTENT" \in Reasons /\ TypeOK
  BY DEF SubmitDuplicate, Reasons, IInv
<1>2. OrderInHand' /\ AnswerOK' /\ ctl' \in Call
  BY <1>1, Triggered, BetweenCalls DEF SubmitDuplicate
<1> QED
  BY <1>1, <1>2, Triggered, QuietStep DEF Learned

LEMMA CheckKeeps ==
    ASSUME IInv, Check PROVE IInv'
<1>1. ctl.pc \in Handling \ {"upsert"} /\ ctl.pc = "check"
  BY DEF Check, Handling, Unsent, Preparing
<1>2. /\ cur \in Orders /\ mem[cur] # NoRow /\ remote[cur] = NoRemote
  BY <1>1, HandFacts DEF IInv, OrderInHand, Unsent, Preparing
<1>3. UNCHANGED <<claimed, kill, remote>> /\ Learned(cur)
  BY DEF Check, Learned
<1>4. CASE kill = {}
  <2>1. Transition(cur, To(cur, "APPROVED"), "approved", "tick")
    BY <1>4 DEF Check
  <2>2. Fits("approved", cur, [status |-> "APPROVED"])
    BY <1>2, <1>4 DEF Fits, Labels, Unsent, Preparing, Applying, OpenStatuses
  <2> QED
    BY <1>2, <1>3, <2>1, <2>2, MoveStep
<1>5. CASE kill # {}
  <2>1. Transition(cur, To(cur, "PRECHECK_REJECTED"), "idle", "tick")
    BY <1>5 DEF Check
  <2>2. Fits("idle", cur, [status |-> "PRECHECK_REJECTED"])
    BY DEF Fits, Labels, Unsent, Preparing, Applying
  <2> QED
    BY <1>2, <1>3, <2>1, <2>2, MoveStep
<1> QED
  BY <1>4, <1>5

LEMMA ApprovedKeeps ==
    ASSUME IInv, Approved PROVE IInv'
<1>1. ctl.pc \in Handling \ {"upsert"} /\ ctl.pc = "approved"
  BY DEF Approved, Handling, Unsent, Preparing
<1>2. cur \in Orders /\ mem[cur] # NoRow /\ remote[cur] = NoRemote /\ kill = {}
  BY <1>1, HandFacts DEF IInv, OrderInHand, Unsent, Preparing
<1>3. Fits("payload", cur, [status |-> "SUBMITTING"])
  BY <1>2 DEF Fits, Labels, Unsent, Preparing, Applying, OpenStatuses
<1> QED
  BY <1>2, <1>3, MoveStep DEF Approved, Learned

LEMMA BuildPayloadKeeps ==
    ASSUME IInv, BuildPayload PROVE IInv'
<1>1. ctl.pc \in Handling \ {"upsert"} /\ ctl.pc = "payload"
  BY DEF BuildPayload, Handling, Unsent, Preparing
<1>2. /\ remote[cur] = NoRemote /\ kill = {} /\ mem[cur].status \in OpenStatuses
      /\ InHand /\ TypeOK
  BY <1>1, HandFacts DEF IInv, OrderInHand, Unsent, Preparing
<1>3. UNCHANGED <<rows, evts, sfills, killRows, mem, claimed, known, clock, kill, remote>>
  BY DEF BuildPayload, storeVars, memVars
<1>4. BudgetStep /\ trouble' \subseteq Failures
  <2>1. "price" \in FaultKinds
    BY DEF FaultKinds
  <2> QED
    BY <1>2, <2>1, NoFailure, NetworkFailure, Struck DEF BuildPayload, TypeOK
<1>5. OrderInHand' /\ AnswerOK' /\ ctl' \in Call
  <2>1. Fits("create", cur, mem[cur]) /\ Fits("unbuildable", cur, mem[cur])
    BY <1>2 DEF Fits, Labels, Unsent, Preparing, Applying
  <2>2. CASE Goto("create")
    BY <1>1, <1>2, <1>3, <2>1, <2>2, GoesOn
  <2>3. CASE Goto("unbuildable")
    BY <1>1, <1>2, <1>3, <2>1, <2>3, GoesOn
  <2>4. CASE Raise
    BY <2>4, RaiseRests, RestIsFine
  <2> QED
    BY <2>2, <2>3, <2>4 DEF BuildPayload
<1> QED
  BY <1>2, <1>3, <1>4, <1>5, QuietStep DEF Learned, TypeOK

LEMMA UnbuildableKeeps ==
    ASSUME IInv, Unbuildable PROVE IInv'
<1>1. ctl.pc \in Handling \ {"upsert"} /\ ctl.pc = "unbuildable"
  BY DEF Unbuildable, Handling, Unsent
<1>2. cur \in Orders /\ mem[cur] # NoRow /\ remote[cur] = NoRemote
  BY <1>1, HandFacts DEF IInv, OrderInHand, Unsent
<1>3. Fits("idle", cur, [status |-> "PRECHECK_REJECTED"])
  BY DEF Fits, Labels, Unsent, Preparing, Applying
<1> QED
  BY <1>2, <1>3, MoveStep DEF Unbuildable, Learned

LEMMA RefusedKeeps ==
    ASSUME IInv, Refused PROVE IInv'
<1>1. ctl.pc \in Handling \ {"upsert"} /\ ctl.pc = "refused"
  BY DEF Refused, Handling
<1>2. cur \in Orders /\ mem[cur] # NoRow /\ (Calm => remote[cur] = NoRemote)
  BY <1>1, HandFacts DEF IInv, OrderInHand
<1>3. Fits("idle", cur, [status |-> "BROKER_REJECTED"])
  BY DEF Fits, Labels, Unsent, Preparing, Applying
<1> QED
  BY <1>2, <1>3, MoveStep DEF Refused, Learned

LEMMA LostKeeps ==
    ASSUME IInv, Lost PROVE IInv'
<1>1. ctl.pc \in Handling \ {"upsert"} /\ ctl.pc = "lost"
  BY DEF Lost, Handling
<1>2. cur \in Orders /\ mem[cur] # NoRow
  BY <1>1, HandFacts
<1>3. Fits("trip", cur, [status |-> "RECONCILE_PENDING"]) /\ "RECONCILE_PENDING" \in OpenStatuses
  BY DEF Fits, Labels, Unsent, Preparing, Applying, OpenStatuses
<1> QED
  BY <1>2, <1>3, MoveStep DEF Lost, Learned

-----------------------------------------------------------------------------
(* _apply_remote_order_snapshot.                                           *)

\* The answer's order in hand, beside the exchange's.
LEMMA SnapFacts ==
    ASSUME IInv, ctl.pc \in Applying
    PROVE  /\ cur \in Orders /\ mem[cur] \in Row /\ mem[cur] # NoRow /\ rows[cur] # NoRow
           /\ OrderOK(cur) /\ InHand
           /\ ctl.snap # NoSnapshot /\ ctl.snap[cur] \in Remote
           /\ \A q \in ctl.todo \cup {cur} : ctl.snap[q] # NoRemote
           /\ remote[cur] # NoRemote /\ Older(ctl.snap[cur], remote[cur])
<1>1. ctl.pc \in Handling \ {"upsert"}
  BY DEF Applying, Handling
<1>2. /\ cur \in Orders /\ mem[cur] \in Row /\ mem[cur] # NoRow /\ rows[cur] # NoRow
      /\ OrderOK(cur) /\ InHand /\ Label = ctl.pc
  BY <1>1, HandFacts
<1>3. ctl.snap # NoSnapshot /\ \A q \in ctl.todo \cup {cur} : ctl.snap[q] # NoRemote
  BY <1>2 DEF IInv, AnswerOK
<1>4. ctl.snap[cur] \in Remote
  <2>1. ctl.snap \in [Orders -> Remote \cup {NoRemote}]
    BY <1>3 DEF IInv, TypeOK
  <2> QED
    BY <1>2, <1>3, <2>1
<1>5. Older(ctl.snap[cur], remote[cur])
  BY <1>2, <1>3 DEF IInv, AnswerOK
<1> QED
  BY <1>2, <1>3, <1>4, <1>5 DEF Older

LEMMA ApplyingFits ==
    ASSUME IInv, ctl.pc \in Applying, NEW label \in Applying, NEW p
    PROVE  Fits(label, cur, p)
<1>1. /\ label \in Labels \ {"refused"} /\ label # "cancel" /\ label \notin Unsent
      /\ label \notin Preparing /\ label \notin {"approved", "payload", "create"}
  BY DEF Applying, Labels, Unsent, Preparing
<1> QED
  BY <1>1, SnapFacts DEF Fits

\* A step of _apply_remote_order_snapshot that has nothing to do.
LEMMA PassOn ==
    ASSUME IInv, ctl.pc \in Applying, NEW label \in Applying, Goto(label), NoFault,
           UNCHANGED <<storeVars, mem, clock, claimed, kill, remote>>, Learned(cur)
    PROVE  IInv'
<1>1. Fits(label, cur, mem[cur])
  BY ApplyingFits
<1>2. ctl.pc # "upsert" /\ label # "upsert" /\ InHand /\ TypeOK
  BY SnapFacts DEF Applying, IInv
<1>3. known \subseteq known'
  BY DEF Learned
<1>4. OrderInHand' /\ AnswerOK' /\ ctl' \in Call
  BY <1>1, <1>2, <1>3, GoesOn DEF storeVars
<1> QED
  BY <1>2, <1>4, NoFailure, QuietStep DEF storeVars, TypeOK

LEMMA AcknowledgeKeeps ==
    ASSUME IInv, Acknowledge PROVE IInv'
<1>1. ctl.pc \in Applying /\ ctl.pc = "ack" /\ "work" \in Applying
  BY DEF Acknowledge, Applying
<1>2. /\ cur \in Orders /\ mem[cur] \in Row /\ mem[cur] # NoRow /\ rows[cur] # NoRow
      /\ Placed(cur)
  BY <1>1, SnapFacts DEF Placed
<1>3. UNCHANGED <<claimed, kill, remote>> /\ Learned(cur)
  BY <1>2 DEF Acknowledge, Learned
<1>4. CASE mem[cur].acked
  <2>1. Goto("work") /\ NoFault /\ UNCHANGED <<storeVars, mem, clock>>
    BY <1>4 DEF Acknowledge
  <2> QED
    BY <1>1, <1>3, <2>1, PassOn
<1>5. CASE ~mem[cur].acked
  <2> DEFINE p == [To(cur, "ACKNOWLEDGED") EXCEPT !.acked = TRUE]
  <2>1. Transition(cur, p, "work", "snapshot")
    BY <1>5 DEF Acknowledge
  <2>2. p = [mem[cur] EXCEPT !.status = "ACKNOWLEDGED", !.acked = TRUE]
    BY <1>2 DEF To, Row
  <2>3. Fits("work", cur, p)
    BY <1>1, ApplyingFits
  <2>4. "ACKNOWLEDGED" \in OpenStatuses
    BY DEF OpenStatuses
  <2> QED
    BY <1>2, <1>3, <2>1, <2>2, <2>3, <2>4, TransitionStep
<1> QED
  BY <1>4, <1>5

\* A target that is not open is that of an order the exchange has closed.
LEMMA TargetIsClosed ==
    ASSUME IInv, ctl.pc \in Applying
    PROVE  Target \in OpenStatuses \/ remote[cur].state # "wait"
<1>1. ctl.snap[cur] \in Remote /\ Older(ctl.snap[cur], remote[cur])
  BY SnapFacts
<1>2. CASE ctl.snap[cur].state = "wait"
  BY <1>2 DEF Target, StatusOf, OpenStatuses
<1>3. CASE ctl.snap[cur].state # "wait"
  BY <1>1, <1>3 DEF Older
<1> QED
  BY <1>2, <1>3

LEMMA WorkKeeps ==
    ASSUME IInv, Work PROVE IInv'
<1>1. ctl.pc \in Applying /\ "fill" \in Applying /\ cur \in Orders /\ mem[cur] # NoRow
  BY SnapFacts DEF Work, Applying
<1>2. UNCHANGED <<claimed, kill, remote>> /\ Learned(cur)
  BY DEF Work, Learned
<1>3. CASE Target = "WORKING" /\ mem[cur].status = "ACKNOWLEDGED"
  <2>1. Transition(cur, To(cur, "WORKING"), "fill", "snapshot") /\ "WORKING" \in OpenStatuses
    BY <1>3 DEF Work, OpenStatuses
  <2>2. Fits("fill", cur, [status |-> "WORKING"])
    BY <1>1, ApplyingFits
  <2> QED
    BY <1>1, <1>2, <2>1, <2>2, MoveStep
<1>4. CASE ~(Target = "WORKING" /\ mem[cur].status = "ACKNOWLEDGED")
  <2>1. Goto("fill") /\ NoFault /\ UNCHANGED <<storeVars, mem, clock>>
    BY <1>4 DEF Work
  <2> QED
    BY <1>1, <1>2, <2>1, PassOn
<1> QED
  BY <1>3, <1>4

LEMMA SettleKeeps ==
    ASSUME IInv, Settle PROVE IInv'
<1>1. ctl.pc \in Applying /\ "after" \in Applying /\ cur \in Orders /\ mem[cur] # NoRow
  BY SnapFacts DEF Settle, Applying
<1>2. UNCHANGED <<claimed, kill, remote>> /\ Learned(cur)
  BY DEF Settle, Learned
<1>3. CASE Target # mem[cur].status
  <2>1. Transition(cur, To(cur, Target), "after", "snapshot")
    BY <1>3 DEF Settle
  <2>2. Fits("after", cur, [status |-> Target])
    BY <1>1, ApplyingFits
  <2>3. Target \in OpenStatuses \/ remote[cur].state # "wait"
    BY <1>1, TargetIsClosed
  <2> QED
    BY <1>1, <1>2, <2>1, <2>2, <2>3, MoveStep
<1>4. CASE Target = mem[cur].status
  <2>1. Goto("after") /\ NoFault /\ UNCHANGED <<storeVars, mem, clock>>
    BY <1>4 DEF Settle
  <2> QED
    BY <1>1, <1>2, <2>1, PassOn
<1> QED
  BY <1>3, <1>4

LEMMA RecordFillKeeps ==
    ASSUME IInv, ctl.pc = "fill", NEW executed, executed = ctl.snap[cur].executed,
           executed > mem[cur].filled, executed <= Quantity, RecordFill(executed),
           UNCHANGED <<claimed, known, kill, remote>>
    PROVE  IInv'
<1>1. /\ ctl.pc \in Applying /\ "settle" \in Applying /\ cur \in Orders /\ mem[cur] \in Row
      /\ ctl.snap[cur] \in Remote /\ OrderOK(cur) /\ mem[cur] # NoRow /\ rows[cur] # NoRow
      /\ Older(ctl.snap[cur], remote[cur])
  BY SnapFacts DEF Applying
<1>2. TypeOK /\ rows[cur] \in Row
  BY <1>1 DEF IInv, TypeOK
<1> DEFINE p == [mem[cur] EXCEPT !.filled = executed]
<1>3. executed \in 0 .. Quantity /\ mem[cur].filled \in 0 .. Quantity
  BY <1>1, UpbitAssumption DEF Remote, Row
<1>4. /\ p \in Row /\ p.filled = executed /\ p.status = mem[cur].status
      /\ p.intent = mem[cur].intent /\ p.acked = mem[cur].acked
  BY <1>1, <1>3 DEF Row
<1>5. /\ mem' = [mem EXCEPT ![cur] = p]
      /\ UNCHANGED <<rows, evts, killRows>>
  BY <1>2 DEF RecordFill, TypeOK
<1>6. /\ BudgetStep /\ trouble' \subseteq Failures
      /\ clock' \in [Orders -> {"behind", "ahead", "naive"}]
  BY <1>1, <1>2, Stamped, StoreFailure, NoFailure, KeptFailures DEF RecordFill, TypeOK
<1>7. Backed(p, remote[cur])
  BY <1>1, <1>4 DEF OrderOK, Backed, Older, Placed
<1>8. Follows(p, rows[cur])
  <2>1. rows[cur].filled \in 0 .. Quantity /\ Quantity \in Nat
    BY <1>2, UpbitAssumption DEF Row
  <2>2. executed >= rows[cur].filled
    BY <1>1, <1>3, <2>1 DEF OrderOK, Follows
  <2> QED
    BY <1>1, <1>4, <2>2 DEF OrderOK, Follows
<1>9. /\ BudgetOK' /\ RowsUnique'
      /\ mem' \in [Orders -> Row \cup {NoRow}] /\ mem'[cur] = p
      /\ \A q \in Orders : OrderOK(q)'
      /\ known \subseteq known'
  BY <1>1, <1>4, <1>5, <1>6, <1>7, <1>8, NewProjection DEF Learned
<1>10. sfills' \in [Orders -> Seq(FillRow)]
  <2>1. [cum |-> executed, qty |-> executed - mem[cur].filled] \in FillRow
    <3>1. executed - mem[cur].filled \in 0 .. Quantity
      BY <1>3, UpbitAssumption
    <3> QED
      BY <1>3, <3>1 DEF FillRow
  <2>2. sfills \in [Orders -> Seq(FillRow)]
    BY <1>2 DEF TypeOK
  <2>3. Append(sfills[cur], [cum |-> executed, qty |-> executed - mem[cur].filled]) \in Seq(FillRow)
    BY <1>1, <2>1, <2>2
  <2> QED
    BY <2>2, <2>3 DEF RecordFill
<1>11. OrderInHand' /\ AnswerOK' /\ ctl' \in Call
  <2>1. CASE ctl' = [ctl EXCEPT !.pc = "upsert", !.then = "settle"]
    <3>1. ctl' = [ctl EXCEPT !.pc = "upsert", !.then = "settle", !.cur = cur]
      BY <1>2, <2>1 DEF TypeOK, cur
    <3>2. Fits("settle", cur, p)
      BY <1>1, ApplyingFits
    <3>3. p # NoRow
      BY <1>4, NullAssumption
    <3> QED
      BY <1>1, <1>9, <3>1, <3>2, <3>3, GoesToUpsert
  <2>2. CASE Raise
    BY <2>2, RaiseRests, RestIsFine
  <2> QED
    BY <2>1, <2>2 DEF RecordFill
<1>12. TypeOK'
  BY <1>2, <1>5, <1>6, <1>9, <1>10, <1>11 DEF TypeOK, BudgetStep, Call
<1> QED
  BY <1>9, <1>11, <1>12 DEF IInv

LEMMA SyncFillDeltaKeeps ==
    ASSUME IInv, SyncFillDelta PROVE IInv'
<1> DEFINE executed == ctl.snap[cur].executed
<1>1. /\ ctl.pc = "fill" /\ ctl.pc \in Applying /\ "settle" \in Applying
      /\ mem[cur] \in Row /\ ctl.snap[cur] \in Remote /\ TypeOK
  BY SnapFacts DEF SyncFillDelta, Applying, IInv
<1>2. UNCHANGED <<claimed, known, kill, remote>> /\ Learned(cur)
  BY DEF SyncFillDelta, Learned
<1>3. CASE executed <= mem[cur].filled
  <2>1. ~(executed > mem[cur].filled)
    BY <1>1, <1>3, UpbitAssumption DEF Row, Remote
  <2>2. Goto("settle") /\ NoFault /\ UNCHANGED <<storeVars, mem, clock>>
    BY <1>3, <2>1 DEF SyncFillDelta
  <2> QED
    BY <1>1, <1>2, <2>2, PassOn
<1>4. CASE ~(executed <= mem[cur].filled)
  <2>1. executed > mem[cur].filled
    BY <1>1, <1>4, UpbitAssumption DEF Row, Remote
  <2>2. CASE Fillable(executed) /\ RecordFill(executed)
    BY <1>1, <1>2, <2>1, <2>2, RecordFillKeeps DEF Fillable
  <2>3. CASE Raise /\ (NoFault \/ (Strike("price") /\ UNCHANGED trouble))
             /\ UNCHANGED <<storeVars, mem, clock>>
    <3>1. OrderInHand' /\ AnswerOK' /\ ctl' \in Call
      BY <2>3, RaiseRests, RestIsFine
    <3>2. "price" \in FaultKinds /\ trouble \subseteq Failures
      BY <1>1 DEF FaultKinds, TypeOK
    <3>3. BudgetStep /\ trouble' \subseteq Failures
      BY <1>1, <2>3, <3>2, NoFailure, Struck
    <3> QED
      BY <1>1, <1>2, <2>3, <3>1, <3>3, QuietStep DEF storeVars, TypeOK
  <2> QED
    BY <1>4, <2>2, <2>3 DEF SyncFillDelta
<1> QED
  BY <1>3, <1>4

LEMMA NextOrderKeeps ==
    ASSUME IInv, NextOrder PROVE IInv'
<1>1. ctl.pc \in Applying /\ ctl.pc = "after" /\ ctl.pc # "upsert" /\ InHand /\ TypeOK
  BY SnapFacts DEF NextOrder, Applying, IInv
<1>2. UNCHANGED <<rows, evts, sfills, killRows, mem, claimed, known, clock, kill, remote>> /\ NoFault
  BY DEF NextOrder, storeVars, memVars
<1>3. OrderInHand' /\ AnswerOK' /\ ctl' \in Call
  <2>1. CASE Goto("refresh")
    <3>1. Fits("refresh", cur, mem[cur])
      BY DEF Fits, Labels, Unsent, Preparing, Applying
    <3> QED
      BY <1>1, <1>2, <2>1, <3>1, GoesOn
  <2>2. ASSUME NEW o \in ctl.todo, ctl' = [ctl EXCEPT !.pc = "ack", !.cur = o, !.todo = @ \ {o}]
        PROVE  OrderInHand' /\ AnswerOK' /\ ctl' \in Call
    <3>1. ctl \in Call /\ "ack" \in Labels
      BY <1>1 DEF TypeOK, Call, Labels
    <3>2. /\ ctl'.pc = "ack" /\ ctl'.cur = o /\ ctl'.todo = ctl.todo \ {o} /\ ctl'.snap = ctl.snap
      BY <2>2, <3>1 DEF Call
    <3>3. o \in Orders /\ o \in known
      BY <3>1 DEF Call, IInv, AnswerOK
    <3>4. ctl' \in Call
      BY <2>2, <3>1, <3>3 DEF Call
    <3>5. mem[o] # NoRow /\ rows[o] # NoRow
      BY <3>3 DEF IInv, OrderOK
    <3>6. Label' = "ack"
      BY <3>2 DEF Label
    <3>7. OrderInHand'
      BY <1>2, <3>2, <3>3, <3>5, <3>6 DEF OrderInHand, Unsent, Preparing, cur
    <3>8. ctl.snap # NoSnapshot /\ \A q \in ctl.todo \cup {cur} : ctl.snap[q] # NoRemote
      BY <1>1, SnapFacts
    <3>9. AnswerOK'
      BY <1>2, <3>2, <3>8 DEF AnswerOK, IInv, cur
    <3> QED
      BY <3>4, <3>7, <3>9
  <2> QED
    BY <2>1, <2>2 DEF NextOrder
<1> QED
  BY <1>1, <1>2, <1>3, NoFailure, QuietStep DEF Learned, TypeOK

-----------------------------------------------------------------------------
(* The ends of calls, and failing closed.                                  *)

LEMMA RefreshKeeps ==
    ASSUME IInv, Refresh PROVE IInv'
<1>1. /\ ctl.pc = "refresh" /\ TypeOK
      /\ UNCHANGED <<rows, evts, sfills, killRows, mem, claimed, known, clock, kill, remote>>
  BY DEF Refresh, IInv, storeVars, memVars
<1>2. BudgetStep /\ trouble' \subseteq Failures
  BY <1>1, NoFailure, NetworkFailure DEF Refresh
<1>3. OrderInHand' /\ AnswerOK' /\ ctl' \in Call
  <2>1. CASE ctl' \in Resting
    BY <2>1, RestIsFine
  <2>2. CASE Goto("pend") /\ ~ctl.sync
    <3>1. InHand /\ ctl.pc # "upsert"
      BY <1>1, <2>2 DEF InHand
    <3>2. Fits("pend", cur, mem[cur])
      BY DEF Fits, Labels, Unsent, Preparing, Applying
    <3> QED
      BY <1>1, <2>2, <3>1, <3>2, GoesOn
  <2> QED
    BY <2>1, <2>2, RaiseRests DEF Refresh, Resting
<1> QED
  BY <1>1, <1>2, <1>3, QuietStep DEF Learned, TypeOK

LEMMA PendKeeps ==
    ASSUME IInv, Pend PROVE IInv'
<1>1. ctl.pc \in Handling \ {"upsert"} /\ ctl.pc # "upsert" /\ TypeOK
  BY DEF Pend, Handling, IInv
<1>2. cur \in Orders /\ mem[cur] # NoRow /\ InHand
  BY <1>1, HandFacts
<1>3. UNCHANGED <<claimed, known, kill, remote>> /\ Learned(cur)
  BY DEF Pend, Learned
<1>4. \A p : Fits("trip", cur, p)
  BY DEF Fits, Labels, Unsent, Preparing, Applying
<1>5. CASE mem[cur].status \in Settled
  <2>1. Goto("trip") /\ NoFault /\ UNCHANGED <<storeVars, mem, clock>>
    BY <1>5 DEF Pend
  <2>2. OrderInHand' /\ AnswerOK' /\ ctl' \in Call
    BY <1>1, <1>2, <1>3, <1>4, <2>1, GoesOn DEF storeVars
  <2> QED
    BY <1>1, <1>3, <2>1, <2>2, NoFailure, QuietStep DEF storeVars, TypeOK
<1>6. CASE mem[cur].status \notin Settled
  <2>1. /\ Transition(cur, To(cur, "RECONCILE_PENDING"), "trip", "tick")
        /\ "RECONCILE_PENDING" \in OpenStatuses
    BY <1>6 DEF Pend, OpenStatuses
  <2> QED
    BY <1>2, <1>3, <1>4, <2>1, MoveStep
<1> QED
  BY <1>5, <1>6

LEMMA MarkAllOpenKeeps ==
    ASSUME IInv, MarkAllOpen PROVE IInv'
<1>1. ctl.pc = "mark" /\ TypeOK
  BY DEF MarkAllOpen, IInv
<1>2. UNCHANGED <<claimed, known, kill, remote>>
  BY DEF MarkAllOpen
<1>3. ASSUME NEW o \in OpenInMemory, Transition(o, To(o, "RECONCILE_PENDING"), "mark", "tick")
      PROVE  IInv'
  <2>1. o \in Orders /\ mem[o] # NoRow
    BY DEF OpenInMemory
  <2>2. Fits("mark", o, [status |-> "RECONCILE_PENDING"]) /\ "RECONCILE_PENDING" \in OpenStatuses
    BY DEF Fits, Labels, Unsent, Preparing, Applying, OpenStatuses
  <2> QED
    BY <1>2, <1>3, <2>1, <2>2, MoveStep DEF Learned
<1>4. ASSUME (Raise \/ Goto("trip")), NoFault, UNCHANGED <<storeVars, mem, clock>> PROVE IInv'
  <2>1. CASE Raise
    <3>1. OrderInHand' /\ AnswerOK' /\ ctl' \in Call
      BY <2>1, RaiseRests, RestIsFine
    <3> QED
      BY <1>1, <1>2, <1>4, <3>1, NoFailure, QuietStep DEF storeVars, TypeOK, Learned
  <2>2. CASE Goto("trip")
    <3>1. ctl' \in Call /\ ctl'.pc = "trip" /\ ctl'.todo = ctl.todo /\ ctl'.snap = ctl.snap
      BY <1>1, <2>2 DEF Goto, TypeOK, Call, Labels
    <3>2. Label' = "trip"
      BY <3>1 DEF Label
    <3>3. OrderInHand'
      BY <3>1, <3>2 DEF OrderInHand, InHand, Handling, Unsent, Preparing, Applying
    <3>4. AnswerOK'
      BY <1>2, <3>1, <3>2 DEF AnswerOK, Applying, IInv
    <3> QED
      BY <1>1, <1>2, <1>4, <3>1, <3>3, <3>4, NoFailure, QuietStep DEF storeVars, TypeOK, Learned
  <2> QED
    BY <1>4, <2>1, <2>2
<1> QED
  BY <1>3, <1>4 DEF MarkAllOpen

LEMMA TripKeeps ==
    ASSUME IInv, Trip PROVE IInv'
<1>1. Trigger("EVENT_WRITE_FAILURE") /\ "EVENT_WRITE_FAILURE" \in Reasons /\ TypeOK
  BY DEF Trip, Reasons, IInv
<1>2. OrderInHand' /\ AnswerOK' /\ ctl' \in Call
  BY RestIsFine DEF Trip, Resting
<1> QED
  BY <1>1, <1>2, Triggered, QuietStep DEF Learned

\* The upsert brings the row up to the projection in memory.
LEMMA UpsertKeeps ==
    ASSUME IInv, Upsert PROVE IInv'
<1>1. ctl.pc = "upsert" /\ TypeOK /\ Label = ctl.then
  BY DEF Upsert, IInv, Label
<1>2. cur \in Orders /\ mem[cur] # NoRow /\ mem[cur] \in Row
  BY <1>1 DEF IInv, OrderInHand, InHand, Handling, TypeOK
<1>3. UNCHANGED <<evts, sfills, killRows, mem, claimed, known, clock, kill, remote>>
  BY DEF Upsert, memVars
<1>4. BudgetStep /\ trouble' \subseteq Failures
  BY <1>1, NoFailure, StoreFailure DEF Upsert
<1>5. CASE Raise /\ UNCHANGED rows
  <2>1. OrderInHand' /\ AnswerOK' /\ ctl' \in Call
    BY <1>5, RaiseRests, RestIsFine
  <2> QED
    BY <1>1, <1>3, <1>4, <1>5, <2>1, QuietStep DEF Learned, TypeOK
<1>6. ASSUME ~IntentTaken, rows' = [rows EXCEPT ![cur] = mem[cur]],
             ctl' = IF ctl.then = "idle" THEN Idle ELSE [ctl EXCEPT !.pc = ctl.then]
      PROVE  IInv'
  <2>1. rows \in [Orders -> Row \cup {NoRow}]
    BY <1>1 DEF TypeOK
  <2>2. /\ rows' \in [Orders -> Row \cup {NoRow}] /\ rows'[cur] = mem[cur]
        /\ \A q \in Orders : q # cur => rows'[q] = rows[q]
    BY <1>2, <1>6, <2>1
  <2>3. RowsUnique'
    BY <1>2, <1>6, <2>1, <2>2 DEF IInv, RowsUnique, IntentTaken
  <2>4. BudgetOK' /\ (Calm' => Calm)
    BY <1>1, <1>4, BudgetShrinks DEF IInv
  <2>5. \A q \in Orders : OrderOK(q)'
    <3> SUFFICES ASSUME NEW q \in Orders PROVE OrderOK(q)'
      OBVIOUS
    <3>1. OrderOK(q)
      BY DEF IInv
    <3>2. CASE q = cur
      <4>1. Follows(mem[cur], mem[cur])
        BY <1>2, UpbitAssumption DEF Follows, Row
      <4> QED
        BY <1>2, <1>3, <2>2, <2>4, <3>1, <3>2, <4>1 DEF OrderOK, Backed, Placed, Follows
    <3>3. CASE q # cur
      BY <1>3, <2>2, <2>4, <3>1, <3>3 DEF OrderOK, Backed, Placed, Follows
    <3> QED
      BY <3>2, <3>3
  <2>6. OrderInHand' /\ AnswerOK' /\ ctl' \in Call
    <3>1. CASE ctl' = Idle
      BY <3>1, RestIsFine DEF Resting
    <3>2. CASE ctl' = [ctl EXCEPT !.pc = ctl.then]
      <4>1. ctl \in Call
        BY <1>1 DEF TypeOK, Call
      <4>2. /\ ctl' \in Call /\ ctl'.pc = ctl.then /\ ctl'.then = ctl.then
            /\ ctl'.cur = ctl.cur /\ ctl'.todo = ctl.todo /\ ctl'.snap = ctl.snap
        BY <3>2, <4>1 DEF Call
      <4>3. Label' = Label
        BY <1>1, <4>2 DEF Label
      <4>4. OrderInHand'
        BY <1>2, <1>3, <2>2, <2>4, <4>2, <4>3 DEF OrderInHand, IInv, cur, Placed
      <4>5. AnswerOK'
        BY <1>3, <4>2, <4>3 DEF AnswerOK, IInv, cur
      <4> QED
        BY <4>2, <4>4, <4>5
    <3> QED
      BY <1>6, <3>1, <3>2
  <2>7. TypeOK'
    BY <1>1, <1>3, <1>4, <2>2, <2>6 DEF TypeOK, BudgetStep, Call
  <2> QED
    BY <2>3, <2>4, <2>5, <2>6, <2>7 DEF IInv
<1> QED
  BY <1>5, <1>6 DEF Upsert

-----------------------------------------------------------------------------
(* Other calls.                                                            *)

LEMMA CancelKeeps ==
    ASSUME IInv, NEW o \in Orders, Cancel(o) PROVE IInv'
<1>1. /\ ctl.pc = "idle" /\ o \in known /\ TypeOK
      /\ mem[o] # NoRow /\ rows[o] # NoRow /\ Placed(o)
  BY DEF Cancel, IInv, OrderOK
<1>2. UNCHANGED <<claimed, known, kill, remote>>
  BY DEF Cancel
<1>3. CASE mem[o].status \in {"WORKING", "ACKNOWLEDGED", "PARTIALLY_FILLED"}
  <2>1. /\ Transition(o, To(o, "CANCEL_REQUESTED"), "cancel", "tick")
        /\ "CANCEL_REQUESTED" \in OpenStatuses
    BY <1>3 DEF Cancel, OpenStatuses
  <2>2. Fits("cancel", o, [status |-> "CANCEL_REQUESTED"])
    BY <1>1 DEF Fits, Labels, Unsent, Preparing, Applying
  <2> QED
    BY <1>1, <1>2, <2>1, <2>2, MoveStep DEF Learned
<1>4. CASE mem[o].status \notin {"WORKING", "ACKNOWLEDGED", "PARTIALLY_FILLED"}
  <2>1. /\ ctl' = [ctl EXCEPT !.pc = "cancel", !.cur = o] /\ NoFault
        /\ UNCHANGED <<storeVars, mem, clock>>
    BY <1>4 DEF Cancel
  <2>2. ctl \in Call /\ "cancel" \in Labels
    BY <1>1 DEF TypeOK, Call, Labels
  <2>3. /\ ctl' \in Call /\ ctl'.pc = "cancel" /\ ctl'.cur = o /\ ctl'.todo = ctl.todo
        /\ ctl'.snap = ctl.snap
    BY <2>1, <2>2 DEF Call
  <2>4. Label' = "cancel"
    BY <2>3 DEF Label
  <2>5. OrderInHand'
    BY <1>1, <1>2, <2>1, <2>3, <2>4
    DEF OrderInHand, Unsent, Preparing, cur, Placed, storeVars
  <2>6. AnswerOK'
    BY <1>2, <2>3, <2>4 DEF AnswerOK, Applying, IInv
  <2> QED
    BY <1>1, <1>2, <2>1, <2>3, <2>5, <2>6, NoFailure, QuietStep DEF storeVars, TypeOK, Learned
<1> QED
  BY <1>3, <1>4

LEMMA SyncKeeps ==
    ASSUME IInv, Sync PROVE IInv'
<1>1. /\ ctl.pc = "idle" /\ TypeOK
      /\ UNCHANGED <<rows, evts, sfills, killRows, mem, claimed, known, clock, kill, remote>>
  BY DEF Sync, IInv, storeVars, memVars
<1>2. BudgetStep /\ trouble' \subseteq Failures
  BY <1>1, NoFailure, NetworkFailure DEF Sync
<1>3. OrderInHand' /\ AnswerOK' /\ ctl' \in Call
  <2>1. CASE ctl' = [Idle EXCEPT !.pc = "refresh", !.sync = TRUE]
    <3>1. /\ ctl' \in Call /\ ctl'.pc = "refresh" /\ ctl'.sync = TRUE /\ ctl'.todo = {}
          /\ ctl'.snap = NoSnapshot
      BY <2>1 DEF Idle, Call, Labels
    <3>2. Label' = "refresh"
      BY <3>1 DEF Label
    <3>3. OrderInHand' /\ AnswerOK'
      BY <3>1, <3>2 DEF OrderInHand, AnswerOK, InHand, Handling, Unsent, Preparing, Applying
    <3> QED
      BY <3>1, <3>3
  <2>2. ASSUME NEW o \in known,
               ctl' = [Idle EXCEPT !.pc = "ack", !.cur = o, !.todo = known \ {o},
                                   !.snap = remote, !.sync = TRUE]
        PROVE  OrderInHand' /\ AnswerOK' /\ ctl' \in Call
    <3>1. /\ remote \in [Orders -> Remote \cup {NoRemote}] /\ known \subseteq Orders
          /\ Quantity \in Nat /\ Surplus \in Nat
      BY <1>1, UpbitAssumption DEF TypeOK
    <3>2. ctl' = [pc |-> "ack", then |-> "idle", cur |-> o, todo |-> known \ {o},
                  snap |-> remote, sync |-> TRUE]
      BY <2>2 DEF Idle
    <3>3. ctl' \in Call
      BY <3>1, <3>2 DEF Call, Labels
    <3>4. \A q \in known : mem[q] # NoRow /\ rows[q] # NoRow /\ remote[q] # NoRemote
      BY <3>1 DEF IInv, OrderOK, Placed
    <3>5. Label' = "ack"
      BY <3>2 DEF Label
    <3>6. OrderInHand'
      BY <1>1, <3>1, <3>2, <3>4, <3>5 DEF OrderInHand, Unsent, Preparing, cur
    <3>7. \A q \in Orders : remote[q] # NoRemote => Older(remote[q], remote[q])
      <4> SUFFICES ASSUME NEW q \in Orders, remote[q] # NoRemote PROVE Older(remote[q], remote[q])
        OBVIOUS
      <4>1. remote[q] \in Remote
        BY <3>1
      <4> QED
        BY <3>1, <4>1 DEF Older, Remote
    <3>8. remote # NoSnapshot
      BY <3>1, NullAssumption
    <3>9. AnswerOK'
      BY <1>1, <3>1, <3>2, <3>4, <3>5, <3>7, <3>8 DEF AnswerOK, cur
    <3> QED
      BY <3>3, <3>6, <3>9
  <2>3. CASE ctl' \in Resting
    BY <2>3, RestIsFine
  <2> QED
    BY <2>1, <2>2, <2>3 DEF Sync, Resting
<1> QED
  BY <1>1, <1>2, <1>3, QuietStep DEF Learned, TypeOK

LEMMA GetPortfolioStateKeeps ==
    ASSUME IInv, GetPortfolioState PROVE IInv'
<1>1. /\ TypeOK
      /\ UNCHANGED <<rows, evts, sfills, killRows, mem, claimed, known, clock, kill, remote>>
  BY DEF GetPortfolioState, IInv, storeVars, memVars
<1>2. OrderInHand' /\ AnswerOK' /\ ctl' \in Call
  BY RestIsFine DEF GetPortfolioState, Resting
<1> QED
  BY <1>1, <1>2, NetworkFailure, QuietStep DEF GetPortfolioState, Learned, TypeOK

LEMMA ResetKeeps ==
    ASSUME IInv, Reset PROVE IInv'
<1>1. /\ ctl.pc = "idle" /\ TypeOK
      /\ UNCHANGED <<rows, evts, sfills, mem, claimed, known, clock, remote, ctl>>
  BY DEF Reset, IInv
<1>2. /\ BudgetStep /\ trouble' \subseteq Failures
      /\ kill' \subseteq Reasons /\ killRows' \subseteq Reasons
  BY <1>1, NoFailure, StoreFailure DEF Reset, TypeOK
<1>3. OrderInHand' /\ AnswerOK' /\ ctl' \in Call
  BY <1>1, BetweenCalls
<1> QED
  BY <1>1, <1>2, <1>3, QuietStep DEF Learned

-----------------------------------------------------------------------------
(* The exchange.                                                           *)

\* The exchange's order q stays, or is placed, or moves on while it waits.
PlacedNow(q) ==
    /\ remote[q] = NoRemote /\ remote'[q] # NoRemote
    /\ mem[q] # NoRow /\ rows[q] # NoRow /\ remote'[q].intent = mem[q].intent
    /\ mem[q].status \in OpenStatuses
MovedOn(q) ==
    /\ remote[q] # NoRemote /\ remote'[q] # NoRemote
    /\ remote[q].state = "wait"
    /\ remote'[q].intent = remote[q].intent
    /\ remote'[q].executed >= remote[q].executed
ExchangeStep ==
    /\ remote' \in [Orders -> Remote \cup {NoRemote}]
    /\ \A q \in Orders : remote'[q] = remote[q] \/ PlacedNow(q) \/ MovedOn(q)

\* A status that is not open is one no transition leaves.
LEMMA ClosedIsTerminal ==
    ASSUME NEW s \in OrderStatus, s \notin OpenStatuses
    PROVE  s \in TerminalStatuses
BY DEF OrderStatus, OpenStatuses, TerminalStatuses, ALLOWED_TRANSITIONS

LEMMA ExchangeMoves ==
    ASSUME IInv, ExchangeStep, BudgetStep, UNCHANGED <<storeVars, memVars>>,
           trouble' \subseteq Failures, OrderInHand', AnswerOK', ctl' \in Call
    PROVE  IInv'
<1>1. TypeOK /\ UNCHANGED <<rows, evts, sfills, killRows, mem, claimed, known, clock, kill>>
  BY DEF IInv, storeVars, memVars
<1>2. TypeOK'
  BY <1>1 DEF TypeOK, BudgetStep, ExchangeStep, Call
<1>3. BudgetOK' /\ (Calm' => Calm)
  BY <1>1, BudgetShrinks DEF IInv
<1>4. RowsUnique'
  BY <1>1 DEF IInv, RowsUnique
<1>5. \A q \in Orders : OrderOK(q)'
  <2> SUFFICES ASSUME NEW q \in Orders PROVE OrderOK(q)'
    OBVIOUS
  <2>1. OrderOK(q)
    BY DEF IInv
  <2>2. CASE remote'[q] = remote[q]
    BY <1>1, <1>3, <2>1, <2>2 DEF OrderOK, Backed, Placed, Follows
  <2>3. remote[q] \in Remote \cup {NoRemote} /\ remote'[q] \in Remote \cup {NoRemote}
    BY <1>1 DEF TypeOK, ExchangeStep
  <2>4. /\ mem[q] \in Row \cup {NoRow} /\ rows[q] \in Row \cup {NoRow}
        /\ Quantity \in Nat /\ Surplus \in Nat
    BY <1>1, UpbitAssumption DEF TypeOK
  <2>5. CASE PlacedNow(q)
    <3>1. mem[q] \in Row /\ rows[q] \in Row /\ remote'[q] \in Remote
      BY <2>3, <2>4, <2>5 DEF PlacedNow
    <3>2. Follows(mem[q], rows[q])
      BY <2>1, <2>5 DEF OrderOK, PlacedNow
    <3>3. rows[q].status \in OpenStatuses
      BY <2>5, <3>1, <3>2, ClosedIsTerminal DEF PlacedNow, Follows, Row
    <3>4. mem[q].filled <= remote'[q].executed /\ rows[q].filled <= remote'[q].executed
      <4>1. mem[q].filled <= 0 /\ rows[q].filled <= 0
        BY <2>1, <2>5 DEF OrderOK, Backed, PlacedNow
      <4> QED
        BY <2>4, <3>1, <4>1 DEF Row, Remote
    <3>5. Backed(mem[q], remote[q])' /\ Backed(rows[q], remote[q])'
      BY <1>1, <2>5, <3>3, <3>4 DEF Backed, PlacedNow
    <3>6. rows[q].intent = remote'[q].intent
      BY <2>5, <3>2 DEF PlacedNow, Follows
    <3> QED
      BY <1>1, <2>1, <2>5, <3>2, <3>5, <3>6 DEF OrderOK, Placed, PlacedNow, Follows
  <2>6. CASE MovedOn(q)
    <3>1. ASSUME NEW p \in Row, Backed(p, remote[q])
          PROVE  /\ p.filled <= remote'[q].executed
                 /\ remote'[q].state = "wait" /\ Calm' => p.status \in OpenStatuses
      <4>1. remote[q] \in Remote /\ remote'[q] \in Remote
        BY <2>3, <2>6 DEF MovedOn
      <4> QED
        BY <1>3, <2>4, <2>6, <3>1, <4>1 DEF MovedOn, Backed, Row, Remote
    <3>2. mem[q] # NoRow => Backed(mem[q], remote[q])'
      BY <1>1, <2>1, <2>4, <2>6, <3>1 DEF OrderOK, Backed, MovedOn
    <3>3. rows[q] # NoRow => Backed(rows[q], remote[q])'
      BY <1>1, <2>1, <2>4, <2>6, <3>1 DEF OrderOK, Backed, MovedOn
    <3> QED
      BY <1>1, <2>1, <2>6, <3>2, <3>3 DEF OrderOK, Placed, MovedOn, Follows
  <2> QED
    BY <2>2, <2>5, <2>6 DEF ExchangeStep
<1> QED
  BY <1>2, <1>3, <1>4, <1>5 DEF IInv

\* What an answer said stays true of the exchange, in part.
LEMMA AnswersStay ==
    ASSUME IInv, ExchangeStep, NEW q \in Orders, ctl.snap # NoSnapshot, ctl.snap[q] # NoRemote
    PROVE  Older(ctl.snap[q], remote'[q])
<1>1. Older(ctl.snap[q], remote[q]) /\ TypeOK
  BY DEF IInv, AnswerOK
<1>2. ctl.snap[q] \in Remote
  <2>1. ctl.snap \in [Orders -> Remote \cup {NoRemote}]
    BY <1>1 DEF TypeOK
  <2> QED
    BY <2>1
<1>3. CASE remote'[q] = remote[q]
  BY <1>1, <1>3 DEF Older
<1>4. CASE MovedOn(q)
  <2>1. remote[q] \in Remote /\ remote'[q] \in Remote /\ Quantity \in Nat /\ Surplus \in Nat
    BY <1>1, <1>4, UpbitAssumption DEF MovedOn, ExchangeStep, TypeOK
  <2>2. ctl.snap[q].executed <= remote'[q].executed
    BY <1>1, <1>2, <1>4, <2>1 DEF Older, MovedOn, Remote
  <2> QED
    BY <1>1, <1>4, <2>2 DEF Older, MovedOn
<1>5. ~PlacedNow(q)
  BY <1>1 DEF Older, PlacedNow
<1> QED
  BY <1>3, <1>4, <1>5 DEF ExchangeStep

\* The exchange moves while the call stands still.
LEMMA CallStands ==
    ASSUME IInv, ExchangeStep, BudgetStep, UNCHANGED <<storeVars, memVars, ctl>>,
           \A q \in Orders : ~PlacedNow(q)
    PROVE  OrderInHand' /\ AnswerOK' /\ ctl' \in Call
<1>1. UNCHANGED <<rows, mem, known, kill>> /\ Label' = Label /\ TypeOK
  BY DEF storeVars, memVars, Label, IInv
<1>2. ctl' \in Call
  BY <1>1 DEF TypeOK, Call
<1>3. \A q \in Orders : (remote[q] = NoRemote) <=> (remote'[q] = NoRemote)
  BY DEF ExchangeStep, MovedOn
<1>4. Calm' => Calm
  BY <1>1, BudgetShrinks DEF IInv
<1>5. OrderInHand'
  <2>1. InHand' = InHand /\ cur' = cur
    BY DEF InHand, cur
  <2>2. Label \in Unsent \cup {"refused", "cancel"} => cur \in Orders
    BY DEF IInv, OrderInHand, InHand, Label, Handling, Unsent
  <2> QED
    BY <1>1, <1>3, <1>4, <2>1, <2>2 DEF OrderInHand, IInv, Placed, Unsent, Preparing
<1>6. AnswerOK'
  BY <1>1, AnswersStay DEF AnswerOK, IInv, cur
<1> QED
  BY <1>2, <1>5, <1>6

\* What an order can have executed, and the state it is in then.
LEMMA LimitInRange ==
    ASSUME NEW i \in Intents
    PROVE  Limit(i) \in 0 .. Quantity + Surplus
BY UpbitAssumption DEF Limit

LEMMA StatesAreStates ==
    ASSUME NEW i, NEW e, NEW state \in StatesAt(i, e)
    PROVE  state \in {"wait", "done", "cancel", "other"}
BY DEF StatesAt

LEMMA ExecuteKeeps ==
    ASSUME IInv, NEW o \in Orders, Execute(o) PROVE IInv'
<1>1. TypeOK /\ remote[o] \in Remote /\ remote[o].state = "wait" /\ remote[o] # NoRemote
  BY DEF IInv, TypeOK, Execute
<1>2. PICK e \in remote[o].executed + 1 .. Limit(remote[o].intent) :
        \E state \in StatesAt(remote[o].intent, e) :
            remote' = [remote EXCEPT ![o].executed = e, ![o].state = state]
  BY DEF Execute
<1>2a. PICK state \in StatesAt(remote[o].intent, e) :
        remote' = [remote EXCEPT ![o].executed = e, ![o].state = state]
  BY <1>2
<1> DEFINE r == [remote[o] EXCEPT !.executed = e, !.state = state]
<1>3. remote \in [Orders -> Remote \cup {NoRemote}] /\ Quantity \in Nat /\ Surplus \in Nat
  BY <1>1, UpbitAssumption DEF TypeOK
<1>4. remote[o].executed \in 0 .. Quantity + Surplus /\ remote[o].intent \in Intents
  BY <1>1 DEF Remote
<1>5. e \in 0 .. Quantity + Surplus /\ e >= remote[o].executed
  BY <1>3, <1>4, LimitInRange
<1>6. r \in Remote /\ r.executed = e /\ r.intent = remote[o].intent
  BY <1>1, <1>5, StatesAreStates DEF Remote
<1>7. remote' = [remote EXCEPT ![o] = r]
  BY <1>2a, <1>3
<1>8. MovedOn(o) /\ \A q \in Orders : q # o => remote'[q] = remote[q]
  BY <1>1, <1>3, <1>5, <1>6, <1>7, NullAssumption DEF MovedOn
<1>9. ExchangeStep
  BY <1>3, <1>6, <1>7, <1>8 DEF ExchangeStep
<1>10. \A q \in Orders : ~PlacedNow(q)
  BY <1>1, <1>8 DEF PlacedNow
<1>11. BudgetStep /\ trouble' \subseteq Failures /\ UNCHANGED <<storeVars, memVars, ctl>>
  BY <1>1, Unstruck DEF Execute, TypeOK
<1> QED
  BY <1>9, <1>10, <1>11, CallStands, ExchangeMoves

LEMMA CancelAtExchangeKeeps ==
    ASSUME IInv, NEW o \in Orders, CancelAtExchange(o) PROVE IInv'
<1>1. TypeOK /\ remote[o] \in Remote /\ remote[o].state = "wait" /\ remote[o] # NoRemote
  BY DEF IInv, TypeOK, CancelAtExchange
<1>2. PICK state \in {"cancel", "other"} : remote' = [remote EXCEPT ![o].state = state]
  BY DEF CancelAtExchange
<1> DEFINE r == [remote[o] EXCEPT !.state = state]
<1>3. /\ remote \in [Orders -> Remote \cup {NoRemote}]
      /\ Quantity \in Nat /\ Surplus \in Nat
  BY <1>1, UpbitAssumption DEF TypeOK
<1>4. r \in Remote /\ r.executed = remote[o].executed /\ r.intent = remote[o].intent
      /\ remote[o].executed \in 0 .. Quantity + Surplus
  BY <1>1 DEF Remote
<1>5. MovedOn(o) /\ \A q \in Orders : q # o => remote'[q] = remote[q]
  BY <1>1, <1>2, <1>3, <1>4, NullAssumption DEF MovedOn
<1>6. ExchangeStep
  BY <1>2, <1>3, <1>4, <1>5 DEF ExchangeStep
<1>7. \A q \in Orders : ~PlacedNow(q)
  BY <1>1, <1>5 DEF PlacedNow
<1>8. BudgetStep /\ trouble' \subseteq Failures /\ UNCHANGED <<storeVars, memVars, ctl>>
  <2>1. "external" \in FaultKinds
    BY DEF FaultKinds
  <2> QED
    BY <1>1, <2>1, Unstruck, Struck DEF CancelAtExchange, TypeOK
<1> QED
  BY <1>6, <1>7, <1>8, CallStands, ExchangeMoves

\* A call that goes on without an answer, and one that goes on with it.
LEMMA Unanswered ==
    ASSUME IInv, ExchangeStep, UNCHANGED <<storeVars, memVars>>, ctl.pc \in Handling \ {"upsert"},
           NEW label \in {"refused", "lost", "pend"}, Goto(label),
           label = "refused" /\ Calm' => remote'[cur] = NoRemote
    PROVE  OrderInHand' /\ AnswerOK' /\ ctl' \in Call
<1>1. ctl \in Call /\ label \in Labels /\ label # "upsert"
  BY DEF IInv, TypeOK, Call, Labels
<1>2. /\ ctl' \in Call /\ ctl'.pc = label /\ ctl'.cur = ctl.cur /\ ctl'.todo = ctl.todo
      /\ ctl'.snap = ctl.snap /\ Label' = label
  BY <1>1 DEF Goto, Call, Label
<1>3. cur \in Orders /\ mem[cur] # NoRow /\ rows[cur] # NoRow
  BY HandFacts
<1>4. UNCHANGED <<rows, mem, known, kill>>
  BY DEF storeVars, memVars
<1>5. OrderInHand'
  BY <1>2, <1>3, <1>4 DEF OrderInHand, Unsent, Preparing, cur
<1>6. AnswerOK'
  BY <1>2, <1>4, AnswersStay DEF AnswerOK, Applying, IInv
<1> QED
  BY <1>2, <1>5, <1>6

LEMMA Answered ==
    ASSUME IInv, ExchangeStep, UNCHANGED <<storeVars, memVars>>, ctl.pc \in Handling \ {"upsert"},
           ctl' = [ctl EXCEPT !.pc = "ack", !.snap = remote'], remote'[cur] # NoRemote
    PROVE  OrderInHand' /\ AnswerOK' /\ ctl' \in Call
<1>1. ctl \in Call /\ "ack" \in Labels /\ Quantity \in Nat /\ Surplus \in Nat
  BY UpbitAssumption DEF IInv, TypeOK, Call, Labels
<1>2. remote' \in [Orders -> Remote \cup {NoRemote}]
  BY DEF ExchangeStep
<1>3. /\ ctl' \in Call /\ ctl'.pc = "ack" /\ ctl'.cur = ctl.cur /\ ctl'.todo = ctl.todo
      /\ ctl'.snap = remote'
  BY <1>1, <1>2 DEF Call
<1>4. Label' = "ack"
  BY <1>3 DEF Label
<1>5. cur \in Orders /\ mem[cur] # NoRow /\ rows[cur] # NoRow
  BY HandFacts
<1>6. UNCHANGED <<rows, mem, known, kill>>
  BY DEF storeVars, memVars
<1>7. OrderInHand'
  BY <1>3, <1>4, <1>5, <1>6 DEF OrderInHand, Unsent, Preparing, cur
<1>8. \A q \in Orders : remote'[q] # NoRemote => Older(remote'[q], remote'[q])
  <2> SUFFICES ASSUME NEW q \in Orders, remote'[q] # NoRemote PROVE Older(remote'[q], remote'[q])
    OBVIOUS
  <2>1. remote'[q] \in Remote
    BY <1>2
  <2> QED
    BY <1>1, <2>1 DEF Older, Remote
<1>9. \A q \in known : remote'[q] # NoRemote
  <2> SUFFICES ASSUME NEW q \in known PROVE remote'[q] # NoRemote
    OBVIOUS
  <2>1. q \in Orders /\ remote[q] # NoRemote
    BY DEF IInv, TypeOK, OrderOK, Placed
  <2> QED
    BY <2>1 DEF ExchangeStep, MovedOn, PlacedNow
<1>10. remote' # NoSnapshot /\ ctl.todo \subseteq known
  BY <1>2, NullAssumption DEF IInv, AnswerOK
<1>11. AnswerOK'
  BY <1>3, <1>4, <1>6, <1>8, <1>9, <1>10 DEF AnswerOK, cur
<1> QED
  BY <1>3, <1>7, <1>11

LEMMA PlaceMoves ==
    ASSUME IInv, ctl.pc = "create", NEW executed \in 0 .. Quantity + Surplus, Place(executed)
    PROVE  ExchangeStep /\ remote'[cur] # NoRemote
<1>1. ctl.pc \in Handling \ {"upsert"}
  BY DEF Handling, Unsent, Preparing
<1>2. /\ cur \in Orders /\ mem[cur] \in Row /\ mem[cur] # NoRow /\ rows[cur] # NoRow
      /\ remote[cur] = NoRemote /\ mem[cur].status \in OpenStatuses
      /\ remote \in [Orders -> Remote \cup {NoRemote}]
  BY <1>1, HandFacts DEF IInv, OrderInHand, Unsent, Preparing, TypeOK
<1>2a. PICK state \in StatesAt(mem[cur].intent, executed) :
        remote' = [remote EXCEPT ![cur] =
            [intent |-> mem[cur].intent, executed |-> executed, asked |-> FALSE,
             state |-> state]]
  BY DEF Place
<1> DEFINE r == [intent |-> mem[cur].intent, executed |-> executed, asked |-> FALSE,
                 state |-> state]
<1>3. r \in Remote
  BY <1>2, StatesAreStates DEF Row, Remote
<1>4. remote' = [remote EXCEPT ![cur] = r]
  BY <1>2a
<1>5. r # NoRemote
  BY <1>3, NullAssumption
<1>6. PlacedNow(cur)
  BY <1>2, <1>4, <1>5 DEF PlacedNow
<1>7. \A q \in Orders : q # cur => remote'[q] = remote[q]
  BY <1>2, <1>4
<1>8. ExchangeStep
  BY <1>2, <1>3, <1>4, <1>6, <1>7 DEF ExchangeStep
<1> QED
  BY <1>6, <1>8 DEF PlacedNow

LEMMA CreateKeeps ==
    ASSUME IInv, Create PROVE IInv'
<1>1. /\ ctl.pc = "create" /\ ctl.pc \in Handling \ {"upsert"} /\ TypeOK
      /\ UNCHANGED <<storeVars, memVars>>
  BY DEF Create, Handling, Unsent, Preparing, IInv
<1>2. remote[cur] = NoRemote /\ mem[cur].intent \in Intents
  BY <1>1, HandFacts DEF IInv, OrderInHand, Unsent, Preparing, Row
<1>3. /\ 0 \in 0 .. Quantity + Surplus
      /\ \A e \in 0 .. Limit(mem[cur].intent) : e \in 0 .. Quantity + Surplus
  BY <1>2, LimitInRange, UpbitAssumption
<1>4. UNCHANGED remote => ExchangeStep
  BY <1>1 DEF ExchangeStep, TypeOK
<1>5. ASSUME NEW executed \in 0 .. Quantity + Surplus, Place(executed),
             ctl' = [ctl EXCEPT !.pc = "ack", !.snap = remote'], NoFault
      PROVE  IInv'
  <2>1. ExchangeStep /\ remote'[cur] # NoRemote
    BY <1>1, <1>5, PlaceMoves
  <2>2. OrderInHand' /\ AnswerOK' /\ ctl' \in Call
    BY <1>1, <1>5, <2>1, Answered
  <2> QED
    BY <1>1, <1>5, <2>1, <2>2, NoFailure, ExchangeMoves
<1>6. ASSUME Goto("refused"), NoFault, UNCHANGED remote PROVE IInv'
  <2>1. OrderInHand' /\ AnswerOK' /\ ctl' \in Call
    BY <1>1, <1>2, <1>4, <1>6, Unanswered
  <2> QED
    BY <1>1, <1>4, <1>6, <2>1, NoFailure, ExchangeMoves
<1>7. ASSUME Strike("gateway"), Goto("refused"), Place(0), UNCHANGED trouble PROVE IInv'
  <2>1. ExchangeStep
    BY <1>1, <1>3, <1>7, PlaceMoves
  <2>2. "gateway" \in FaultKinds /\ MaxFaults["gateway"] \in Nat /\ budget \in [FaultKinds -> Nat]
    BY <1>1, UpbitAssumption DEF FaultKinds, TypeOK
  <2>3. BudgetStep
    BY <1>1, <1>7, <2>2, Struck
  <2>4. ~Calm'
    BY <1>7, <2>2 DEF Strike, Calm, IInv, BudgetOK
  <2>5. OrderInHand' /\ AnswerOK' /\ ctl' \in Call
    BY <1>1, <1>7, <2>1, <2>4, Unanswered
  <2> QED
    BY <1>1, <1>7, <2>1, <2>3, <2>5, ExchangeMoves DEF TypeOK
<1>8. ASSUME NetworkFails("create"), Goto("lost"), Place(0) \/ UNCHANGED remote PROVE IInv'
  <2>1. ExchangeStep
    BY <1>1, <1>3, <1>4, <1>8, PlaceMoves
  <2>2. OrderInHand' /\ AnswerOK' /\ ctl' \in Call
    BY <1>1, <1>8, <2>1, Unanswered
  <2> QED
    BY <1>1, <1>8, <2>1, <2>2, NetworkFailure, ExchangeMoves
<1> QED
  BY <1>3, <1>5, <1>6, <1>7, <1>8 DEF Create

LEMMA TakeCancelMoves ==
    ASSUME IInv, ctl.pc = "cancel", NEW state \in {"cancel", "wait"}, TakeCancel(state)
    PROVE  ExchangeStep /\ remote'[cur] # NoRemote
<1>1. cur \in Orders /\ remote[cur] \in Remote /\ remote[cur] # NoRemote
  <2>1. ctl.pc \in Handling \ {"upsert"} /\ Label = "cancel"
    BY DEF Handling, Label
  <2> QED
    BY <2>1, HandFacts DEF IInv, OrderInHand, Placed, TypeOK
<1>2. /\ remote \in [Orders -> Remote \cup {NoRemote}]
      /\ Quantity \in Nat /\ Surplus \in Nat
  BY UpbitAssumption DEF IInv, TypeOK
<1> DEFINE r == [remote[cur] EXCEPT !.state = state, !.asked = TRUE]
<1>3. r \in Remote /\ r.executed = remote[cur].executed /\ r.intent = remote[cur].intent
      /\ remote[cur].executed \in 0 .. Quantity + Surplus
  BY <1>1 DEF Remote
<1>4. remote' = [remote EXCEPT ![cur] = r] /\ remote[cur].state = "wait"
  BY <1>2 DEF TakeCancel
<1>5. MovedOn(cur) /\ \A q \in Orders : q # cur => remote'[q] = remote[q]
  BY <1>1, <1>2, <1>3, <1>4, NullAssumption DEF MovedOn
<1>6. ExchangeStep
  BY <1>2, <1>3, <1>4, <1>5 DEF ExchangeStep
<1> QED
  BY <1>5, <1>6 DEF MovedOn

LEMMA CallCancelKeeps ==
    ASSUME IInv, CallCancel PROVE IInv'
<1>1. /\ ctl.pc = "cancel" /\ ctl.pc \in Handling \ {"upsert"} /\ TypeOK
      /\ UNCHANGED <<storeVars, memVars>>
  BY DEF CallCancel, Handling, IInv
<1>2. UNCHANGED remote => ExchangeStep
  BY <1>1 DEF ExchangeStep, TypeOK
<1>3. ASSUME NEW state \in {"cancel", "wait"}, TakeCancel(state), BudgetStep,
             trouble' \subseteq Failures,
             ctl' = [ctl EXCEPT !.pc = "ack", !.snap = remote']
      PROVE  IInv'
  <2>1. ExchangeStep /\ remote'[cur] # NoRemote
    BY <1>1, <1>3, TakeCancelMoves
  <2>2. OrderInHand' /\ AnswerOK' /\ ctl' \in Call
    BY <1>1, <1>3, <2>1, Answered
  <2> QED
    BY <1>1, <1>3, <2>1, <2>2, ExchangeMoves
<1>4. ASSUME Goto("pend"), NoFault \/ NetworkFails("cancel"), TakeCancel("cancel") \/ UNCHANGED remote
      PROVE  IInv'
  <2>1. ExchangeStep
    BY <1>1, <1>2, <1>4, TakeCancelMoves
  <2>2. OrderInHand' /\ AnswerOK' /\ ctl' \in Call
    BY <1>1, <1>4, <2>1, Unanswered
  <2>3. BudgetStep /\ trouble' \subseteq Failures
    BY <1>1, <1>4, NoFailure, NetworkFailure
  <2> QED
    BY <1>1, <2>1, <2>2, <2>3, ExchangeMoves
<1>5. "slow" \in FaultKinds /\ trouble \subseteq Failures
  BY <1>1 DEF FaultKinds, TypeOK
<1>6. NoFault => BudgetStep /\ trouble' \subseteq Failures
  BY <1>1, NoFailure
<1>7. Strike("slow") => BudgetStep
  BY <1>1, <1>5, Struck
<1> QED
  BY <1>3, <1>4, <1>5, <1>6, <1>7 DEF CallCancel

-----------------------------------------------------------------------------
(* The process's end and start.                                            *)

LEMMA CrashKeeps ==
    ASSUME IInv, Crash PROVE IInv'
<1>1. TypeOK /\ "crash" \in FaultKinds
  BY DEF IInv, FaultKinds
<1>2. BudgetStep
  BY <1>1, Struck DEF Crash
<1>3. BudgetOK' /\ (Calm' => Calm)
  BY <1>1, <1>2, BudgetShrinks DEF IInv
<1>4. UNCHANGED <<rows, evts, sfills, killRows, remote>>
  BY DEF Crash, storeVars
<1>5. OrderInHand' /\ AnswerOK' /\ ctl' \in Call
  BY RestIsFine DEF Crash, Resting
<1>6. TypeOK'
  BY <1>1, <1>2, <1>4, <1>5 DEF TypeOK, Crash, BudgetStep, Call
<1>7. RowsUnique'
  BY <1>4 DEF IInv, RowsUnique
<1>8. \A q \in Orders : OrderOK(q)'
  <2> SUFFICES ASSUME NEW q \in Orders PROVE OrderOK(q)'
    OBVIOUS
  <2>1. OrderOK(q) /\ mem'[q] = NoRow /\ known' = {}
    BY DEF IInv, Crash
  <2> QED
    BY <1>3, <1>4, <2>1 DEF OrderOK, Backed, Placed
<1> QED
  BY <1>3, <1>5, <1>6, <1>7, <1>8 DEF IInv

LEMMA RestartKeeps ==
    ASSUME IInv, Restart PROVE IInv'
<1> DEFINE back == {o \in Orders : rows[o] # NoRow /\ rows[o].acked}
<1>1. TypeOK /\ "naive" \in FaultKinds
  BY DEF IInv, FaultKinds
<1>2. BudgetStep
  BY <1>1, Struck, Unstruck DEF Restart, BackFrom
<1>3. BudgetOK' /\ (Calm' => Calm)
  BY <1>1, <1>2, BudgetShrinks DEF IInv
<1>4. UNCHANGED <<rows, evts, sfills, killRows, remote>> /\ trouble' = {}
  BY DEF Restart, storeVars
<1>5. OrderInHand' /\ AnswerOK' /\ ctl' \in Call
  BY RestIsFine DEF Restart, Resting
<1>6. /\ mem' = [o \in Orders |-> IF o \in back THEN rows[o] ELSE NoRow]
      /\ known' = back /\ claimed' \in [Intents -> Orders \cup {NoOrder}]
      /\ clock' \in [Orders -> {"behind", "ahead", "naive"}]
  BY DEF Restart, BackFrom
<1>7. mem' \in [Orders -> Row \cup {NoRow}]
  BY <1>1, <1>6 DEF TypeOK
<1>8. TypeOK'
  BY <1>1, <1>2, <1>4, <1>5, <1>6, <1>7 DEF TypeOK, Restart, BudgetStep, Call
<1>9. RowsUnique'
  BY <1>4 DEF IInv, RowsUnique
<1>10. \A q \in Orders : OrderOK(q)'
  <2> SUFFICES ASSUME NEW q \in Orders PROVE OrderOK(q)'
    OBVIOUS
  <2>1. OrderOK(q) /\ rows[q] \in Row \cup {NoRow} /\ Quantity \in Nat
    BY <1>1, UpbitAssumption DEF IInv, TypeOK
  <2>2. rows[q] # NoRow => Follows(rows[q], rows[q])
    BY <2>1 DEF Follows, Row
  <2>3. CASE q \in back
    <3>1. mem'[q] = rows[q] /\ rows[q] # NoRow /\ rows[q].acked /\ Placed(q)
      BY <1>6, <2>1, <2>3 DEF OrderOK, Backed, Placed
    <3> QED
      BY <1>3, <1>4, <2>1, <2>2, <3>1 DEF OrderOK, Backed, Placed, Follows
  <2>4. CASE q \notin back
    <3>1. mem'[q] = NoRow /\ q \notin known'
      BY <1>6, <2>4
    <3> QED
      BY <1>3, <1>4, <2>1, <3>1 DEF OrderOK, Backed, Placed
  <2> QED
    BY <2>3, <2>4
<1> QED
  BY <1>3, <1>5, <1>8, <1>9, <1>10 DEF IInv

LEMMA StutterKeeps ==
    ASSUME IInv, UNCHANGED vars PROVE IInv'
BY DEF IInv, TypeOK, BudgetOK, OrderOK, Backed, Calm, Placed, RowsUnique, OrderInHand,
       InHand, Label, AnswerOK, Older, cur, vars, storeVars, memVars

-----------------------------------------------------------------------------
(* The invariant.                                                          *)

LEMMA InitialInvariant == Init => IInv
<1> SUFFICES ASSUME Init PROVE IInv
  OBVIOUS
<1>1. "idle" \in Labels /\ ctl = Idle /\ budget = MaxFaults
  BY DEF Init, Labels
<1>2. MaxFaults \in [FaultKinds -> Nat]
  BY UpbitAssumption
<1>3. TypeOK
  BY <1>1, <1>2 DEF TypeOK, Init, Idle
<1>4. BudgetOK
  BY <1>1, <1>2 DEF BudgetOK
<1>5. \A o \in Orders : OrderOK(o)
  BY DEF Init, OrderOK, Placed
<1>6. RowsUnique
  BY DEF Init, RowsUnique
<1>7. ctl.pc = "idle" /\ ctl.todo = {} /\ ctl.snap = NoSnapshot /\ Label = "idle"
  BY <1>1 DEF Idle, Label
<1>8. OrderInHand
  BY <1>7 DEF OrderInHand, InHand, Handling, Unsent, Preparing, Applying
<1>9. AnswerOK
  BY <1>7 DEF AnswerOK, Applying
<1> QED
  BY <1>3, <1>4, <1>5, <1>6, <1>8, <1>9 DEF IInv

LEMMA StepKeeps ==
    ASSUME IInv, Step PROVE IInv'
<1>1. CASE Upsert
  BY <1>1, UpsertKeeps
<1>2. CASE Check
  BY <1>2, CheckKeeps
<1>3. CASE Approved
  BY <1>3, ApprovedKeeps
<1>4. CASE BuildPayload
  BY <1>4, BuildPayloadKeeps
<1>5. CASE Unbuildable
  BY <1>5, UnbuildableKeeps
<1>6. CASE Create
  BY <1>6, CreateKeeps
<1>7. CASE Refused
  BY <1>7, RefusedKeeps
<1>8. CASE Lost
  BY <1>8, LostKeeps
<1>9. CASE Acknowledge
  BY <1>9, AcknowledgeKeeps
<1>10. CASE Work
  BY <1>10, WorkKeeps
<1>11. CASE SyncFillDelta
  BY <1>11, SyncFillDeltaKeeps
<1>12. CASE Settle
  BY <1>12, SettleKeeps
<1>13. CASE NextOrder
  BY <1>13, NextOrderKeeps
<1>14. CASE Refresh
  BY <1>14, RefreshKeeps
<1>15. CASE Pend
  BY <1>15, PendKeeps
<1>16. CASE MarkAllOpen
  BY <1>16, MarkAllOpenKeeps
<1>17. CASE Trip
  BY <1>17, TripKeeps
<1>18. CASE CallCancel
  BY <1>18, CallCancelKeeps
<1> QED
  BY <1>1, <1>2, <1>3, <1>4, <1>5, <1>6, <1>7, <1>8, <1>9, <1>10, <1>11, <1>12, <1>13, <1>14,
     <1>15, <1>16, <1>17, <1>18 DEF Step

LEMMA NextKeeps == IInv /\ [Next]_vars => IInv'
<1> SUFFICES ASSUME IInv, [Next]_vars PROVE IInv'
  OBVIOUS
<1>1. ASSUME NEW i \in Intents, Submit(i) PROVE IInv'
  BY <1>1, SubmitKeeps
<1>2. ASSUME NEW i \in Intents, SubmitDuplicate(i) PROVE IInv'
  BY <1>2, SubmitDuplicateKeeps
<1>3. ASSUME NEW o \in Orders, Cancel(o) PROVE IInv'
  BY <1>3, CancelKeeps
<1>4. CASE Sync
  BY <1>4, SyncKeeps
<1>5. CASE GetPortfolioState
  BY <1>5, GetPortfolioStateKeeps
<1>6. CASE Reset
  BY <1>6, ResetKeeps
<1>7. CASE Step
  BY <1>7, StepKeeps
<1>8. ASSUME NEW o \in Orders, Execute(o) PROVE IInv'
  BY <1>8, ExecuteKeeps
<1>9. ASSUME NEW o \in Orders, CancelAtExchange(o) PROVE IInv'
  BY <1>9, CancelAtExchangeKeeps
<1>10. CASE Crash
  BY <1>10, CrashKeeps
<1>11. CASE Restart
  BY <1>11, RestartKeeps
<1>12. CASE UNCHANGED vars
  BY <1>12, StutterKeeps
<1> QED
  BY <1>1, <1>2, <1>3, <1>4, <1>5, <1>6, <1>7, <1>8, <1>9, <1>10, <1>11, <1>12
     DEF Next, Exchange

\* The inductive invariant, for any number of calls, faults and restarts.
THEOREM Invariant == Spec => []IInv
<1>1. Init => IInv
  BY InitialInvariant
<1>2. IInv /\ [Next]_vars => IInv'
  BY NextKeeps
<1> QED
  BY <1>1, <1>2, PTL DEF Spec

-----------------------------------------------------------------------------
(* What it gives.                                                          *)

\* Whatever fails and whenever the process dies, the tables, the memory and the
\* call in progress keep their shape: no filled quantity beyond the order's, no
\* exchange id of an order that is not one of the adapter's.
THEOREM TypeCorrect == Spec => []TypeOK
<1>1. IInv => TypeOK
  BY DEF IInv
<1> QED
  BY <1>1, Invariant, PTL

\* submit_intent, repeated for an intent after any failure or restart, never has
\* the exchange hold a second order: the row under the unique orders.intent_id is
\* written before create_order is called, and every order sent keeps its row.
THEOREM OnlyOneOrder == Spec => []OneOrderPerIntent
<1>1. IInv => OneOrderPerIntent
  BY DEF IInv, OrderOK, RowsUnique, OneOrderPerIntent
<1> QED
  BY <1>1, Invariant, PTL

\* list_open_orders finds every order that waits at the exchange, as long as no
\* HTTP error hid an accepted order: rows are written ahead of the sending, and no
\* transition closes an order the exchange has not closed.
THEOREM WaitingOrdersListed == Spec => []LiveOrderListed
<1>1. IInv => LiveOrderListed
  BY DEF IInv, OrderOK, Backed, LiveOrderListed, Spared, Calm, Placed
<1> QED
  BY <1>1, Invariant, PTL

LEMMA TransitionLeavesRows ==
    ASSUME NEW o, NEW p, NEW next, NEW at, Transition(o, p, next, at)
    PROVE  UNCHANGED rows
BY DEF Transition, Record, storeVars

\* Only the upsert of a projection changes a row.
LEMMA RowsStay ==
    ASSUME [Next]_vars, ~Upsert PROVE UNCHANGED rows
<1> USE TransitionLeavesRows DEF storeVars, Trigger, RecordFill
<1>1. ASSUME NEW i \in Intents, Submit(i) \/ SubmitDuplicate(i) PROVE UNCHANGED rows
  BY <1>1 DEF Submit, SubmitDuplicate, Record
<1>2. ASSUME NEW o \in Orders, Cancel(o) PROVE UNCHANGED rows
  BY <1>2 DEF Cancel
<1>3. CASE Sync \/ GetPortfolioState \/ Reset \/ Crash \/ Restart
  BY <1>3 DEF Sync, GetPortfolioState, Reset, Crash, Restart
<1>4. CASE Check \/ Approved \/ Unbuildable \/ Refused \/ Lost \/ Pend \/ MarkAllOpen \/ Trip
  BY <1>4 DEF Check, Approved, Unbuildable, Refused, Lost, Pend, MarkAllOpen, Trip
<1>5. CASE Acknowledge \/ Work \/ SyncFillDelta \/ Settle \/ NextOrder
  BY <1>5 DEF Acknowledge, Work, SyncFillDelta, Settle, NextOrder
<1>6. CASE BuildPayload \/ Create \/ CallCancel \/ Refresh
  BY <1>6 DEF BuildPayload, Create, CallCancel, Refresh
<1>7. CASE Exchange
  BY <1>7 DEF Exchange, Execute, CancelAtExchange
<1>8. CASE UNCHANGED vars
  BY <1>8 DEF vars
<1> QED
  BY <1>1, <1>2, <1>3, <1>4, <1>5, <1>6, <1>7, <1>8 DEF Next, Step

\* Only create_order brings an order to the exchange.
LEMMA OnlyCreatePlaces ==
    ASSUME IInv, [Next]_vars, NEW o \in Orders, ~Placed(o), Placed(o)'
    PROVE  Create
<1> SUFFICES ASSUME ~Create PROVE FALSE
  OBVIOUS
<1>1. remote \in [Orders -> Remote \cup {NoRemote}]
  BY DEF IInv, TypeOK
<1>2. remote' # remote
  BY DEF Placed
<1>3. CASE CallCancel
  <2>1. ctl.pc = "cancel"
    BY <1>3 DEF CallCancel
  <2>2. Placed(cur)
    BY <2>1 DEF IInv, OrderInHand, Label
  <2>3. \E state \in {"cancel", "wait"} : TakeCancel(state)
    BY <1>2, <1>3 DEF CallCancel
  <2> QED
    BY <1>1, <2>2, <2>3 DEF TakeCancel, Placed
<1>4. ASSUME NEW q \in Orders, Execute(q) \/ CancelAtExchange(q) PROVE FALSE
  BY <1>1, <1>4 DEF Execute, CancelAtExchange, Placed
<1>5. ASSUME NEW i \in Intents, Submit(i) \/ SubmitDuplicate(i) PROVE FALSE
  BY <1>2, <1>5 DEF Submit, SubmitDuplicate, Trigger
<1>6. ASSUME NEW q \in Orders, Cancel(q) PROVE FALSE
  BY <1>2, <1>6 DEF Cancel
<1>7. CASE Sync \/ GetPortfolioState \/ Reset \/ Crash \/ Restart
  BY <1>2, <1>7 DEF Sync, GetPortfolioState, Reset, Crash, Restart
<1>8. CASE Check \/ Approved \/ Unbuildable \/ Refused \/ Lost \/ Pend \/ MarkAllOpen \/ Trip
  BY <1>2, <1>8 DEF Check, Approved, Unbuildable, Refused, Lost, Pend, MarkAllOpen, Trip, Trigger
<1>9. CASE Acknowledge \/ Work \/ SyncFillDelta \/ Settle \/ NextOrder
  BY <1>2, <1>9 DEF Acknowledge, Work, SyncFillDelta, Settle, NextOrder
<1>10. CASE BuildPayload \/ Upsert \/ Refresh
  BY <1>2, <1>10 DEF BuildPayload, Upsert, Refresh
<1>11. CASE UNCHANGED vars
  BY <1>2, <1>11 DEF vars
<1> QED
  BY <1>3, <1>4, <1>5, <1>6, <1>7, <1>8, <1>9, <1>10, <1>11 DEF Next, Step, Exchange

\* submit_intent reads the kill switch once, four store writes before it calls
\* create_order; no call comes in between that could trip it, and a failure on the
\* way ends the call.
THEOREM NothingSentWhileTripped == Spec => NoOrderWhileTripped
<1>1. IInv /\ [Next]_vars => \A o \in Orders : ~Placed(o) /\ Placed(o)' => kill = {}
  <2> SUFFICES ASSUME IInv, [Next]_vars, NEW o \in Orders, ~Placed(o), Placed(o)'
               PROVE  kill = {}
    OBVIOUS
  <2>1. ctl.pc = "create"
    BY OnlyCreatePlaces DEF Create
  <2> QED
    BY <2>1 DEF IInv, OrderInHand, Label
<1> QED
  BY <1>1, Invariant, PTL DEF Spec, NoOrderWhileTripped

\* upsert_order_projection never lowers a filled quantity nor reopens a closed
\* order: the memory it writes from was restored from the row, or has gone on from it.
THEOREM NeverReopened == Spec => StoredOrderNeverReopens
<1> DEFINE Onward ==
      \A o \in Orders : rows[o] # NoRow =>
          /\ rows'[o].filled >= rows[o].filled
          /\ rows[o].status \in TerminalStatuses => rows'[o].status = rows[o].status
<1>1. IInv /\ [Next]_vars => Onward
  <2> SUFFICES ASSUME IInv, [Next]_vars, NEW o \in Orders, rows[o] # NoRow
               PROVE  /\ rows'[o].filled >= rows[o].filled
                      /\ rows[o].status \in TerminalStatuses => rows'[o].status = rows[o].status
    OBVIOUS
  <2>1. rows \in [Orders -> Row \cup {NoRow}] /\ rows[o].filled \in Nat
    BY UpbitAssumption DEF IInv, TypeOK, Row
  <2>2. CASE rows'[o] = rows[o]
    BY <2>1, <2>2
  <2>3. CASE rows'[o] # rows[o]
    <3>1. Upsert /\ rows' # rows
      BY <2>3, RowsStay
    <3>2. rows' = [rows EXCEPT ![cur] = mem[cur]] /\ ctl.pc = "upsert"
      BY <3>1 DEF Upsert
    <3>3. cur = o /\ rows'[o] = mem[o] /\ mem[o] # NoRow
      BY <2>1, <2>3, <3>2 DEF IInv, OrderInHand, InHand, Handling
    <3>4. Follows(mem[o], rows[o])
      BY <3>3 DEF IInv, OrderOK
    <3> QED
      BY <3>3, <3>4 DEF Follows
  <2> QED
    BY <2>2, <2>3
<1> QED
  BY <1>1, Invariant, PTL DEF Spec, StoredOrderNeverReopens

-----------------------------------------------------------------------------
(***************************************************************************)
(* The append-only tables.  What a step does to them and to the memory is  *)
(* one of six things.                                                      *)
(***************************************************************************)

\* Nothing; and it neither begins an upsert nor ends one that did something.
Quiet ==
    /\ UNCHANGED <<rows, evts, sfills, mem, claimed>>
    /\ UNCHANGED ctl \/ (ctl.pc # "upsert" /\ ctl'.pc \notin {"upsert", "down"})

\* Order o takes projection p in memory, its event is appended, its upsert is next;
\* or the write fails.
Begins(o, p) ==
    /\ mem[o] = NoRow /\ rows[o] = NoRow /\ evts[o] = <<>>
    /\ p.status = "PLANNED" /\ p.filled = 0
    /\ claimed[p.intent] = NoOrder /\ claimed' = [claimed EXCEPT ![p.intent] = o]
Moves(o, p) ==
    /\ mem[o] # NoRow
    /\ p.status \in ALLOWED_TRANSITIONS[mem[o].status]
    /\ p.filled = mem[o].filled /\ p.intent = mem[o].intent
    /\ UNCHANGED claimed
Logs(o, p) ==
    /\ mem' = [mem EXCEPT ![o] = p]
    /\ UNCHANGED <<rows, sfills>>
    /\ ctl.pc # "upsert"
    /\ \/ /\ evts' = [evts EXCEPT ![o] = Append(@, p.status)]
          /\ ctl'.pc = "upsert" /\ ctl'.cur = o
       \/ StoreFails /\ UNCHANGED evts /\ ctl'.pc # "down"
    /\ Begins(o, p) \/ Moves(o, p)

\* The fill of the order in hand.
Fills ==
    /\ ctl.pc = "fill"
    /\ ctl.snap[cur].executed > mem[cur].filled
    /\ ctl.snap[cur].executed <= Quantity
    /\ RecordFill(ctl.snap[cur].executed)
    /\ UNCHANGED claimed

LEMMA TransitionEffect ==
    ASSUME IInv, NEW o \in Orders, mem[o] # NoRow, NEW s, NEW b \in BOOLEAN, NEW next, NEW at,
           NEW p, p = [mem[o] EXCEPT !.status = s, !.acked = b],
           Transition(o, p, next, at), UNCHANGED claimed, ctl.pc # "upsert"
    PROVE  Quiet \/ (p \in Row /\ Logs(o, p))
<1>1. mem[o] \in Row /\ ctl \in Call
  BY DEF IInv, TypeOK, Call
<1>2. /\ p.status = s /\ p.acked = b /\ p.intent = mem[o].intent /\ p.filled = mem[o].filled
  BY <1>1 DEF Row
<1>3. Raise => ctl'.pc \notin {"upsert", "down"}
  BY DEF Raise, Idle
<1>4. CASE s \in ALLOWED_TRANSITIONS[mem[o].status] /\ CanStamp(o, at)
  <2>1. s \in OrderStatus
    BY <1>1, <1>4, MovesAreStatuses DEF Row
  <2>2. p \in Row
    BY <1>1, <2>1 DEF Row
  <2>3. Record(o, p, next, at)
    BY <1>2, <1>4 DEF Transition
  <2>4. Moves(o, p)
    BY <1>2, <1>4 DEF Moves
  <2>5. ctl' = [ctl EXCEPT !.pc = "upsert", !.then = next, !.cur = o]
            => ctl'.pc = "upsert" /\ ctl'.cur = o
    BY <1>1 DEF Call
  <2>6. Logs(o, p)
    BY <1>3, <2>3, <2>4, <2>5 DEF Logs, Record
  <2> QED
    BY <2>2, <2>6
<1>5. CASE ~(s \in ALLOWED_TRANSITIONS[mem[o].status] /\ CanStamp(o, at))
  <2>1. Raise /\ UNCHANGED <<storeVars, mem>>
    BY <1>2, <1>5 DEF Transition
  <2> QED
    BY <1>3, <2>1 DEF Quiet, storeVars
<1> QED
  BY <1>4, <1>5

LEMMA MoveEffect ==
    ASSUME IInv, NEW o \in Orders, mem[o] # NoRow, NEW s, NEW next, NEW at,
           Transition(o, To(o, s), next, at), UNCHANGED claimed, ctl.pc # "upsert"
    PROVE  Quiet \/ \E p \in Row : Logs(o, p)
<1>1. mem[o] \in Row
  BY DEF IInv, TypeOK
<1>2. To(o, s) = [mem[o] EXCEPT !.status = s, !.acked = mem[o].acked] /\ mem[o].acked \in BOOLEAN
  BY <1>1 DEF To, Row
<1> QED
  BY <1>2, TransitionEffect

LEMMA SubmitEffect ==
    ASSUME IInv, NEW i \in Intents, Submit(i)
    PROVE  \E o \in Orders, p \in Row : Logs(o, p)
<1>1. PICK o \in Orders :
        /\ Fresh(o)
        /\ claimed' = [claimed EXCEPT ![i] = o]
        /\ Record(o, [intent |-> i, status |-> "PLANNED", filled |-> 0, acked |-> FALSE],
                  "check", "tick")
  BY DEF Submit
<1> DEFINE p == [intent |-> i, status |-> "PLANNED", filled |-> 0, acked |-> FALSE]
<1>2. p \in Row
  BY UpbitAssumption DEF Row, OrderStatus
<1>3. Begins(o, p)
  BY <1>1 DEF Begins, Fresh, Submit
<1>4. ctl \in Call
  BY DEF IInv, TypeOK, Call
<1>5. Raise => ctl'.pc # "down"
  BY DEF Raise, Idle
<1>6. ctl' = [ctl EXCEPT !.pc = "upsert", !.then = "check", !.cur = o]
             => ctl'.pc = "upsert" /\ ctl'.cur = o
  BY <1>4 DEF Call
<1>7. ctl.pc # "upsert" /\ p.status = "PLANNED"
  BY DEF Submit
<1> HIDE DEF p
<1>8. Logs(o, p)
  BY <1>1, <1>3, <1>5, <1>6, <1>7 DEF Logs, Record, p
<1> QED
  BY <1>2, <1>8

LEMMA HandEffects ==
    ASSUME IInv,
           \/ Check \/ Approved \/ Unbuildable \/ Refused \/ Lost
           \/ Acknowledge \/ Work \/ Settle \/ Pend
    PROVE  Quiet \/ \E o \in Orders, p \in Row : Logs(o, p)
<1>1. ctl.pc \in Handling \ {"upsert"}
  BY DEF Check, Approved, Unbuildable, Refused, Lost, Acknowledge, Work, Settle, Pend,
         Handling, Unsent, Preparing, Applying
<1>2. cur \in Orders /\ mem[cur] \in Row /\ mem[cur] # NoRow /\ ctl.pc # "upsert" /\ ctl \in Call
  BY <1>1, HandFacts DEF IInv, TypeOK, Call
<1>3. UNCHANGED claimed
  BY DEF Check, Approved, Unbuildable, Refused, Lost, Acknowledge, Work, Settle, Pend
<1>4. ASSUME NEW s, NEW next, NEW at, Transition(cur, To(cur, s), next, at)
      PROVE  Quiet \/ \E o \in Orders, p \in Row : Logs(o, p)
  BY <1>2, <1>3, <1>4, MoveEffect
<1>5. ASSUME NEW label \in {"work", "fill", "after", "trip"}, Goto(label),
             UNCHANGED <<storeVars, mem>>
      PROVE  Quiet
  <2>1. ctl'.pc = label
    BY <1>2, <1>5 DEF Goto, Call
  <2> QED
    BY <1>2, <1>3, <1>5, <2>1 DEF Quiet, storeVars
<1>6. CASE Check
  BY <1>4, <1>6 DEF Check
<1>7. CASE Approved \/ Unbuildable \/ Refused \/ Lost
  BY <1>4, <1>7 DEF Approved, Unbuildable, Refused, Lost
<1>8. CASE Acknowledge
  <2>1. CASE mem[cur].acked
    BY <1>5, <1>8, <2>1 DEF Acknowledge
  <2>2. CASE ~mem[cur].acked
    <3>1. [To(cur, "ACKNOWLEDGED") EXCEPT !.acked = TRUE]
            = [mem[cur] EXCEPT !.status = "ACKNOWLEDGED", !.acked = TRUE]
      BY <1>2 DEF To, Row
    <3> QED
      BY <1>2, <1>3, <1>8, <2>2, <3>1, TransitionEffect DEF Acknowledge
  <2> QED
    BY <2>1, <2>2
<1>9. CASE Work
  BY <1>4, <1>5, <1>9 DEF Work
<1>10. CASE Settle
  BY <1>4, <1>5, <1>10 DEF Settle
<1>11. CASE Pend
  BY <1>4, <1>5, <1>11 DEF Pend
<1> QED
  BY <1>6, <1>7, <1>8, <1>9, <1>10, <1>11

LEMMA Kinds ==
    ASSUME IInv, [Next]_vars
    PROVE  \/ Quiet
           \/ \E o \in Orders, p \in Row : Logs(o, p)
           \/ Fills \/ Upsert \/ Crash \/ Restart
<1>1. ctl \in Call
  BY DEF IInv, TypeOK, Call
<1>2. ASSUME NEW i \in Intents, Submit(i) \/ SubmitDuplicate(i)
      PROVE  Quiet \/ \E o \in Orders, p \in Row : Logs(o, p)
  BY <1>2, SubmitEffect DEF SubmitDuplicate, Trigger, Quiet
<1>3. ASSUME NEW o \in Orders, Cancel(o)
      PROVE  Quiet \/ \E q \in Orders, p \in Row : Logs(q, p)
  <2>1. mem[o] # NoRow /\ ctl.pc = "idle" /\ UNCHANGED claimed
    BY <1>3 DEF Cancel, IInv, OrderOK
  <2>2. CASE Transition(o, To(o, "CANCEL_REQUESTED"), "cancel", "tick")
    BY <2>1, <2>2, MoveEffect
  <2>3. CASE ctl' = [ctl EXCEPT !.pc = "cancel", !.cur = o] /\ UNCHANGED <<storeVars, mem>>
    BY <1>1, <2>1, <2>3 DEF Quiet, storeVars, Call
  <2> QED
    BY <1>3, <2>2, <2>3 DEF Cancel
<1>4. CASE Sync \/ GetPortfolioState \/ Refresh \/ NextOrder \/ Trip
  <2>1. UNCHANGED <<rows, evts, sfills, mem, claimed>> /\ ctl.pc # "upsert"
    BY <1>4 DEF Sync, GetPortfolioState, Refresh, NextOrder, Trip, Trigger, storeVars, memVars
  <2>2. ctl'.pc \notin {"upsert", "down"}
    <3>1. Raise => ctl'.pc \in {"idle", "mark"}
      BY DEF Raise, Idle
    <3>2. CASE Sync \/ GetPortfolioState \/ Trip
      <4>1. CASE Sync
        BY <4>1 DEF Sync, Idle
      <4>2. CASE GetPortfolioState \/ Trip
        BY <4>2 DEF GetPortfolioState, Trip, Idle
      <4> QED
        BY <3>2, <4>1, <4>2
    <3>3. CASE Refresh
      BY <1>1, <3>1, <3>3 DEF Refresh, Goto, Idle, Call
    <3>4. CASE NextOrder
      BY <1>1, <3>4 DEF NextOrder, Goto, Call
    <3> QED
      BY <1>4, <3>2, <3>3, <3>4
  <2> QED
    BY <2>1, <2>2 DEF Quiet
<1>5. CASE BuildPayload \/ Create \/ CallCancel
  <2>1. UNCHANGED <<rows, evts, sfills, mem, claimed>> /\ ctl.pc # "upsert"
    BY <1>5 DEF BuildPayload, Create, CallCancel, storeVars, memVars
  <2>2. ctl'.pc \notin {"upsert", "down"}
    <3>1. Raise => ctl'.pc \in {"idle", "mark"}
      BY DEF Raise, Idle
    <3>2. CASE BuildPayload
      BY <1>1, <3>1, <3>2 DEF BuildPayload, Goto, Call
    <3>3. CASE Create
      BY <1>1, <3>3 DEF Create, Goto, Call
    <3>4. CASE CallCancel
      BY <1>1, <3>4 DEF CallCancel, Goto, Call
    <3> QED
      BY <1>5, <3>2, <3>3, <3>4
  <2> QED
    BY <2>1, <2>2 DEF Quiet
<1>6. CASE Reset \/ Exchange \/ UNCHANGED vars
  BY <1>6 DEF Reset, Exchange, Execute, CancelAtExchange, Quiet, vars, storeVars, memVars
<1>7. CASE \/ Check \/ Approved \/ Unbuildable \/ Refused \/ Lost
           \/ Acknowledge \/ Work \/ Settle \/ Pend
  BY <1>7, HandEffects
<1>8. CASE SyncFillDelta
  <2>1. /\ ctl.pc = "fill" /\ ctl.pc \in Applying /\ UNCHANGED claimed
        /\ mem[cur] \in Row /\ ctl.snap[cur] \in Remote
    BY <1>8, SnapFacts DEF SyncFillDelta, Applying
  <2>2. CASE Raise \/ Goto("settle")
    <3>1. UNCHANGED <<storeVars, mem>> => Quiet
      BY <1>1, <2>1, <2>2 DEF Raise, Goto, Idle, Call, Quiet, storeVars
    <3>2. ctl.snap[cur].executed > mem[cur].filled \/ ctl.snap[cur].executed <= mem[cur].filled
      BY <2>1, UpbitAssumption DEF Row, Remote
    <3> QED
      BY <1>8, <2>1, <3>1, <3>2 DEF SyncFillDelta, Fillable, Fills
  <2>3. CASE ~(Raise \/ Goto("settle"))
    <3>1. ctl.snap[cur].executed > mem[cur].filled \/ ctl.snap[cur].executed <= mem[cur].filled
      BY <2>1, UpbitAssumption DEF Row, Remote
    <3> QED
      BY <1>8, <2>1, <2>3, <3>1 DEF SyncFillDelta, Fillable, Fills
  <2> QED
    BY <2>2, <2>3
<1>9. CASE MarkAllOpen
  <2>1. ctl.pc = "mark" /\ UNCHANGED claimed
    BY <1>9 DEF MarkAllOpen
  <2>2. ASSUME NEW o \in OpenInMemory, Transition(o, To(o, "RECONCILE_PENDING"), "mark", "tick")
        PROVE  Quiet \/ \E q \in Orders, p \in Row : Logs(q, p)
    BY <2>1, <2>2, MoveEffect DEF OpenInMemory
  <2>3. CASE (Raise \/ Goto("trip")) /\ UNCHANGED <<storeVars, mem>>
    BY <1>1, <2>1, <2>3 DEF Raise, Goto, Idle, Call, Quiet, storeVars
  <2> QED
    BY <1>9, <2>2, <2>3 DEF MarkAllOpen
<1> QED
  BY <1>2, <1>3, <1>4, <1>5, <1>6, <1>7, <1>8, <1>9 DEF Next, Step

\* Faults are used up by every step.
LEMMA FaultsUsedUp == ASSUME IInv, [Next]_vars PROVE BudgetStep
<1>1. TypeOK /\ \A f \in {"crash", "store", "network", "gateway", "price", "external", "slow",
                          "ahead", "naive"} : f \in FaultKinds
  BY DEF IInv, FaultKinds
<1>2. ASSUME NEW f \in FaultKinds, Strike(f) PROVE BudgetStep
  BY <1>1, <1>2, Struck
<1>3. UNCHANGED budget => BudgetStep
  BY <1>1, Unstruck
<1>4. ASSUME NEW o, NEW at, Stamp(o, at) PROVE BudgetStep
  BY <1>1, <1>2, <1>3, <1>4 DEF Stamp
<1>5. ASSUME NoFault \/ StoreFails \/ \E call \in Failures : NetworkFails(call) PROVE BudgetStep
  BY <1>1, <1>2, <1>3, <1>5 DEF NoFault, StoreFails, NetworkFails
<1>6. ASSUME NEW o, NEW p, NEW next, NEW at, Transition(o, p, next, at) \/ Record(o, p, next, at)
      PROVE  BudgetStep
  BY <1>4, <1>5, <1>6 DEF Transition, Record
<1>7. ASSUME NEW r, Trigger(r) PROVE BudgetStep
  BY <1>5, <1>7 DEF Trigger
<1>8. CASE \E i \in Intents : Submit(i) \/ SubmitDuplicate(i)
  BY <1>6, <1>7, <1>8 DEF Submit, SubmitDuplicate
<1>9. CASE \/ Check \/ Approved \/ Unbuildable \/ Refused \/ Lost
           \/ Acknowledge \/ Work \/ Settle \/ Pend \/ MarkAllOpen \/ \E o \in Orders : Cancel(o)
  BY <1>5, <1>6, <1>9 DEF Check, Approved, Unbuildable, Refused, Lost, Acknowledge, Work, Settle,
                          Pend, MarkAllOpen, Cancel
<1>10. CASE SyncFillDelta
  BY <1>1, <1>2, <1>4, <1>5, <1>10 DEF SyncFillDelta, RecordFill
<1>11. CASE Sync \/ GetPortfolioState \/ Refresh \/ NextOrder \/ Trip \/ Upsert
  BY <1>5, <1>7, <1>11 DEF Sync, GetPortfolioState, Refresh, NextOrder, Trip, Upsert, Failures
<1>12. CASE BuildPayload \/ Create \/ CallCancel
  BY <1>1, <1>2, <1>5, <1>12 DEF BuildPayload, Create, CallCancel, Failures
<1>13. CASE Exchange \/ Crash \/ Restart \/ Reset
  BY <1>1, <1>2, <1>3, <1>5, <1>13
     DEF Exchange, Execute, CancelAtExchange, Crash, Restart, BackFrom, Reset
<1>14. CASE UNCHANGED vars
  BY <1>3, <1>14 DEF vars
<1> QED
  BY <1>8, <1>9, <1>10, <1>11, <1>12, <1>13, <1>14 DEF Next, Step

\* A fault of these kinds that has not struck by the end of a step had not before.
LEMMA SparedBefore ==
    ASSUME IInv, BudgetStep, NEW kinds \in SUBSET FaultKinds, Spared(kinds)'
    PROVE  Spared(kinds) /\ \A f \in kinds : ~Strike(f)
<1>1. budget \in [FaultKinds -> Nat] /\ MaxFaults \in [FaultKinds -> Nat]
  BY UpbitAssumption DEF IInv, TypeOK
<1>2. \A f \in kinds : /\ budget'[f] = MaxFaults[f] /\ budget'[f] <= budget[f]
                       /\ budget[f] <= MaxFaults[f]
  BY DEF IInv, BudgetOK, BudgetStep, Spared
<1>3. \A f \in kinds : budget[f] \in Nat /\ budget'[f] = budget[f]
  <2> TAKE f \in kinds
  <2>1. budget[f] \in Nat /\ MaxFaults[f] \in Nat
    BY <1>1
  <2> QED
    BY <1>2, <2>1
<1>4. \A f \in kinds : ~Strike(f)
  BY <1>1, <1>3 DEF Strike
<1> QED
  BY <1>2, <1>3, <1>4 DEF Spared

-----------------------------------------------------------------------------
(* What the fills of an order add up to.                                   *)

LEMMA FillsAddUpToNat ==
    ASSUME NEW list \in Seq(FillRow)
    PROVE  SumFunction([k \in DOMAIN list |-> list[k].qty]) \in Nat
<1> DEFINE f == [k \in DOMAIN list |-> list[k].qty]
<1>1. DOMAIN f = 1 .. Len(list) /\ Len(list) \in Nat
  OBVIOUS
<1>2. \A k \in DOMAIN f : f[k] \in Nat
  <2>1. \A x \in FillRow : x.qty \in Nat
    BY UpbitAssumption DEF FillRow
  <2>2. \A k \in DOMAIN list : list[k] \in FillRow
    OBVIOUS
  <2> QED
    BY <2>1, <2>2
<1>3. SumFunction(f) = SumFunctionOnSet(f, DOMAIN f)
  BY DEF SumFunction
<1> HIDE DEF f
<1>4. IsFiniteSet(DOMAIN f)
  BY <1>1, FS_Interval
<1>5. SumFunction(f) \in Nat
  BY <1>2, <1>3, <1>4, SumIsNat
<1> QED
  BY <1>5 DEF f

LEMMA StoredFillsAreNat ==
    /\ TypeOK => \A o \in Orders : StoredFilled(o) \in Nat
    /\ TypeOK' => \A o \in Orders : StoredFilled(o)' \in Nat
BY FillsAddUpToNat DEF StoredFilled, TypeOK

LEMMA FillAdds ==
    ASSUME TypeOK, NEW o \in Orders, NEW row \in FillRow,
           sfills' = [sfills EXCEPT ![o] = Append(@, row)]
    PROVE  /\ StoredFilled(o)' = StoredFilled(o) + row.qty
           /\ sfills'[o] = Append(sfills[o], row)
           /\ \A q \in Orders \ {o} : StoredFilled(q)' = StoredFilled(q) /\ sfills'[q] = sfills[q]
<1> DEFINE n == Len(sfills[o])
           f == [k \in DOMAIN sfills[o] |-> sfills[o][k].qty]
           g == [k \in DOMAIN sfills'[o] |-> sfills'[o][k].qty]
<1>1. sfills[o] \in Seq(FillRow) /\ sfills \in [Orders -> Seq(FillRow)] /\ Quantity \in Nat
  BY UpbitAssumption DEF TypeOK
<1>2. sfills'[o] = Append(sfills[o], row) /\ \A q \in Orders \ {o} : sfills'[q] = sfills[q]
  BY <1>1
<1>3. /\ n \in Nat /\ DOMAIN sfills[o] = 1 .. n /\ DOMAIN sfills'[o] = 1 .. n + 1
      /\ sfills'[o][n + 1] = row
      /\ \A k \in 1 .. n : sfills'[o][k] = sfills[o][k]
      /\ \A k \in 1 .. n + 1 : sfills'[o][k] \in FillRow
  BY <1>1, <1>2
<1>4. \A x \in FillRow : x.qty \in Int
  BY <1>1 DEF FillRow
<1>5. /\ DOMAIN f = 1 .. n /\ DOMAIN g = 1 .. n + 1
      /\ \A k \in 1 .. n : g[k] = f[k]
      /\ \A k \in 1 .. n + 1 : g[k] \in Int
      /\ g[n + 1] = row.qty
  BY <1>3, <1>4
<1>6. StoredFilled(o) = SumFunction(f) /\ StoredFilled(o)' = SumFunction(g)
  BY DEF StoredFilled
<1>7. n \in Nat
  BY <1>3
<1>8. \A q \in Orders \ {o} : StoredFilled(q)' = StoredFilled(q)
  BY <1>2 DEF StoredFilled
<1> HIDE DEF f, g, n
<1>9. SumFunction(g) = SumFunction(f) + row.qty
  BY <1>5, <1>7, SumAppend
<1> QED
  BY <1>2, <1>6, <1>8, <1>9

-----------------------------------------------------------------------------
(***************************************************************************)
(* The rows are covered by the append-only tables.                         *)
(***************************************************************************)

\* What LogCoversProjection says of the rows is true of the projections in memory,
\* which the rows are brought up to; and no volume the fills were booked at is
\* beyond what they add up to, so that a fill refused for its id was booked.
Logged(p, o) ==
    /\ \E k \in DOMAIN evts[o] : evts[o][k] = p.status
    /\ p.filled <= StoredFilled(o)
Booked(o) == \A k \in DOMAIN sfills[o] : sfills[o][k].cum <= StoredFilled(o)
LogInv ==
    Spared({"store"}) => \A o \in Orders :
        /\ Booked(o)
        /\ mem[o] # NoRow => Logged(mem[o], o)
        /\ rows[o] # NoRow => Logged(rows[o], o)

\* Lists that only grow keep what they cover.
LEMMA LoggedStays ==
    ASSUME IInv, IInv', NEW o \in Orders, StoredFilled(o)' >= StoredFilled(o),
           \A k \in DOMAIN evts[o] : k \in DOMAIN evts'[o] /\ evts'[o][k] = evts[o][k],
           NEW p \in Row, Logged(p, o)
    PROVE  Logged(p, o)'
<1>1. StoredFilled(o) \in Nat /\ StoredFilled(o)' \in Nat
  BY StoredFillsAreNat DEF IInv
<1>2. p.filled \in Nat
  BY UpbitAssumption DEF Row
<1> QED
  BY <1>1, <1>2 DEF Logged

LEMMA LogsCovers ==
    ASSUME IInv, IInv', Spared({"store"}), LogInv, ~StoreFails,
           NEW o \in Orders, NEW p \in Row, Logs(o, p)
    PROVE  LogInv'
<1>1. /\ mem' = [mem EXCEPT ![o] = p] /\ UNCHANGED <<rows, sfills>>
      /\ evts' = [evts EXCEPT ![o] = Append(@, p.status)]
  BY DEF Logs
<1>2. /\ evts \in [Orders -> Seq(OrderStatus)] /\ mem \in [Orders -> Row \cup {NoRow}]
      /\ rows \in [Orders -> Row \cup {NoRow}] /\ p.status \in OrderStatus /\ p.filled \in Nat
  BY UpbitAssumption DEF IInv, TypeOK, Row
<1>3. \A q \in Orders : StoredFilled(q)' = StoredFilled(q) /\ StoredFilled(q) \in Nat
  BY <1>1, StoredFillsAreNat DEF StoredFilled, IInv
<1>4. \A q \in Orders : \A k \in DOMAIN evts[q] :
          k \in DOMAIN evts'[q] /\ evts'[q][k] = evts[q][k]
  <2> TAKE q \in Orders
  <2>1. CASE q = o
    BY <1>1, <1>2, <2>1
  <2>2. CASE q # o
    BY <1>1, <1>2, <2>2
  <2> QED
    BY <2>1, <2>2
<1>5. Logged(p, o)'
  <2>1. p.filled <= StoredFilled(o)
    <3>1. CASE Begins(o, p)
      BY <1>3, <3>1 DEF Begins
    <3>2. CASE Moves(o, p)
      BY <3>2 DEF Moves, LogInv, Logged
    <3> QED
      BY <3>1, <3>2 DEF Logs
  <2>2. \E k \in DOMAIN evts'[o] : evts'[o][k] = p.status
    <3>1. evts'[o] = Append(evts[o], p.status) /\ evts[o] \in Seq(OrderStatus)
      BY <1>1, <1>2
    <3>2. Len(evts[o]) + 1 \in DOMAIN evts'[o] /\ evts'[o][Len(evts[o]) + 1] = p.status
      BY <1>2, <3>1
    <3> QED
      BY <3>2
  <2> QED
    BY <1>3, <2>1, <2>2 DEF Logged
<1>6. \A q \in Orders : Booked(q)'
  BY <1>1, <1>3 DEF LogInv, Booked
<1>7. \A q \in Orders : \A r \in Row : Logged(r, q) => Logged(r, q)'
  BY <1>3, <1>4, LoggedStays
<1> QED
  BY <1>1, <1>2, <1>5, <1>6, <1>7 DEF LogInv

\* A fill that the store takes adds its quantity; one it refuses was booked before.
LEMMA FillsCovers ==
    ASSUME IInv, IInv', Spared({"store"}), LogInv, ~StoreFails, Fills, NEW o, o = cur,
           NEW executed, executed = ctl.snap[o].executed,
           NEW p, p = [mem[o] EXCEPT !.filled = executed]
    PROVE  LogInv'
<1> DEFINE row == [cum |-> executed, qty |-> executed - mem[o].filled]
<1>1. /\ o \in Orders /\ mem[o] \in Row /\ mem[o] # NoRow /\ ctl.snap[o] \in Remote
  BY SnapFacts DEF Fills, Applying
<1>2. /\ executed \in 0 .. Quantity /\ mem[o].filled \in 0 .. Quantity /\ Quantity \in Nat
      /\ executed > mem[o].filled
  BY <1>1, UpbitAssumption DEF Remote, Row, Fills
<1>3. /\ mem \in [Orders -> Row \cup {NoRow}] /\ rows \in [Orders -> Row \cup {NoRow}]
      /\ sfills \in [Orders -> Seq(FillRow)]
  BY DEF IInv, TypeOK
<1>4. /\ mem' = [mem EXCEPT ![o] = p] /\ p \in Row
      /\ p.status = mem[o].status /\ p.filled = executed
      /\ UNCHANGED <<rows, evts>>
  BY <1>1, <1>2, <1>3 DEF Fills, RecordFill, Row
<1>5. \A q \in Orders : StoredFilled(q) \in Nat
  BY StoredFillsAreNat DEF IInv
<1>6. mem[o].filled <= StoredFilled(o) /\ \E k \in DOMAIN evts[o] : evts[o][k] = p.status
  BY <1>1, <1>4 DEF LogInv, Logged
<1>7. CASE UNCHANGED sfills
  <2>1. \E k \in DOMAIN sfills[o] : sfills[o][k].cum = executed
    <3>1. Append(sfills[o], row) # sfills[o]
      <4>1. sfills[o] \in Seq(FillRow)
        BY <1>1, <1>3
      <4>2. Len(Append(sfills[o], row)) = Len(sfills[o]) + 1 /\ Len(sfills[o]) \in Nat
        BY <4>1
      <4> QED
        BY <4>2
    <3>2. sfills' # [sfills EXCEPT ![o] = Append(@, row)]
      BY <1>1, <1>3, <1>7, <3>1
    <3> QED
      BY <3>2 DEF Fills, RecordFill
  <2>2. executed <= StoredFilled(o)
    BY <1>1, <2>1 DEF LogInv, Booked
  <2>3. \A q \in Orders : StoredFilled(q)' = StoredFilled(q) /\ (Booked(q) => Booked(q)')
    BY <1>7 DEF StoredFilled, Booked
  <2>4. Logged(p, o)
    BY <1>4, <1>6, <2>2 DEF Logged
  <2>5. \A q \in Orders : \A r \in Row : Logged(r, q) => Logged(r, q)'
    BY <1>4, <2>3 DEF Logged
  <2> QED
    BY <1>1, <1>3, <1>4, <2>3, <2>4, <2>5 DEF LogInv
<1>8. CASE sfills' = [sfills EXCEPT ![o] = Append(@, row)]
  <2>1. row \in FillRow /\ row.qty = executed - mem[o].filled /\ row.cum = executed
    <3>1. executed - mem[o].filled \in 0 .. Quantity
      BY <1>2
    <3> QED
      BY <1>2, <3>1 DEF FillRow
  <2> HIDE DEF row
  <2>2. /\ StoredFilled(o)' = StoredFilled(o) + row.qty
        /\ sfills'[o] = Append(sfills[o], row)
        /\ \A q \in Orders \ {o} : StoredFilled(q)' = StoredFilled(q) /\ sfills'[q] = sfills[q]
    BY <1>1, <1>8, <2>1, FillAdds DEF IInv
  <2>3. StoredFilled(o)' >= executed /\ StoredFilled(o)' >= StoredFilled(o)
    BY <1>1, <1>2, <1>5, <1>6, <2>1, <2>2
  <2>4. \A q \in Orders : StoredFilled(q)' >= StoredFilled(q)
    BY <1>5, <2>2, <2>3
  <2>5. Booked(o)'
    <3> SUFFICES ASSUME NEW k \in DOMAIN sfills'[o]
                 PROVE  sfills'[o][k].cum <= StoredFilled(o)'
      BY DEF Booked
    <3>1. sfills[o] \in Seq(FillRow)
      BY <1>1, <1>3
    <3>2. k \in 1 .. Len(sfills[o]) + 1 /\ Len(sfills[o]) \in Nat
      BY <2>1, <2>2, <3>1
    <3>3. CASE k = Len(sfills[o]) + 1
      BY <1>1, <1>2, <1>5, <2>1, <2>2, <2>3, <3>1, <3>3
    <3>4. CASE k \in DOMAIN sfills[o]
      <4>1. sfills'[o][k] = sfills[o][k] /\ sfills[o][k] \in FillRow
        BY <2>2, <3>1, <3>4
      <4>2. sfills[o][k].cum <= StoredFilled(o) /\ sfills[o][k].cum \in Nat
        BY <1>1, <1>2, <3>4, <4>1 DEF LogInv, Booked, FillRow
      <4>3. StoredFilled(o)' \in Nat
        BY <1>1, StoredFillsAreNat DEF IInv
      <4> QED
        BY <1>1, <1>5, <2>3, <4>1, <4>2, <4>3
    <3> QED
      BY <3>1, <3>2, <3>3, <3>4
  <2>6. \A q \in Orders \ {o} : Booked(q)'
    BY <2>2 DEF LogInv, Booked
  <2>7. Logged(p, o)'
    BY <1>4, <1>6, <2>3 DEF Logged
  <2>8. \A q \in Orders : \A r \in Row : Logged(r, q) => Logged(r, q)'
    BY <1>4, <2>4, LoggedStays
  <2> QED
    BY <1>1, <1>3, <1>4, <2>5, <2>6, <2>7, <2>8 DEF LogInv
<1> QED
  BY <1>7, <1>8 DEF Fills, RecordFill

LEMMA LogStep ==
    ASSUME IInv, IInv', [Next]_vars, LogInv PROVE LogInv'
<1> SUFFICES ASSUME Spared({"store"})' PROVE LogInv'
  BY DEF LogInv
<1>1. {"store"} \in SUBSET FaultKinds
  BY DEF FaultKinds
<1>2. Spared({"store"}) /\ ~StoreFails
  BY <1>1, FaultsUsedUp, SparedBefore DEF StoreFails
<1>3. /\ mem \in [Orders -> Row \cup {NoRow}] /\ rows \in [Orders -> Row \cup {NoRow}]
  BY DEF IInv, TypeOK
<1>4. ASSUME UNCHANGED <<evts, sfills>>
      PROVE  \A o \in Orders : /\ Booked(o) => Booked(o)'
                               /\ \A p \in Row : Logged(p, o) => Logged(p, o)'
  BY <1>4 DEF Booked, Logged, StoredFilled
<1>5. CASE Quiet
  BY <1>2, <1>3, <1>4, <1>5 DEF Quiet, LogInv
<1>6. CASE \E o \in Orders, p \in Row : Logs(o, p)
  BY <1>2, <1>6, LogsCovers
<1>7. CASE Fills
  BY <1>2, <1>7, FillsCovers
<1>8. CASE Upsert
  <2>1. ctl.pc = "upsert" /\ UNCHANGED <<evts, sfills, mem>>
    BY <1>8 DEF Upsert, memVars
  <2>2. cur \in Orders /\ mem[cur] \in Row /\ mem[cur] # NoRow
    BY <1>3, <2>1 DEF IInv, OrderInHand, InHand, Handling
  <2>3. \A o \in Orders : rows'[o] = rows[o] \/ (o = cur /\ rows'[o] = mem[o])
    BY <1>3, <1>8, <2>2 DEF Upsert
  <2> QED
    BY <1>2, <1>3, <1>4, <2>1, <2>2, <2>3 DEF LogInv
<1>9. CASE Crash
  BY <1>2, <1>3, <1>4, <1>9 DEF Crash, storeVars, LogInv
<1>10. CASE Restart
  <2>1. UNCHANGED <<rows, evts, sfills>> /\ \A o \in Orders : mem'[o] \in {rows[o], NoRow}
    BY <1>10 DEF Restart, BackFrom, storeVars
  <2> QED
    BY <1>2, <1>3, <1>4, <2>1 DEF LogInv
<1> QED
  BY <1>5, <1>6, <1>7, <1>8, <1>9, <1>10, Kinds

\* Whenever the process dies, each row's status is among the order's events and its
\* filled quantity among its fills, as long as no write has failed: _record_order_event
\* and _record_fill append before they upsert the projection, and a fill whose id the
\* store has already was booked by an earlier call.
THEOREM RowsAreCovered == Spec => []LogCoversProjection
<1>1. Init => LogInv
  BY DEF Init, LogInv, Booked
<1>2. IInv /\ LogInv => LogCoversProjection
  BY DEF LogInv, Logged, LogCoversProjection
<1> QED
  BY <1>1, <1>2, LogStep, Invariant, PTL DEF Spec

-----------------------------------------------------------------------------
(***************************************************************************)
(* Without a crash or a failed write, the tables agree between calls.      *)
(***************************************************************************)

\* A list of statuses that is a walk of the transition table to s.
Walk(list, s) ==
    /\ list # <<>>
    /\ list[1] = "PLANNED"
    /\ \A k \in 1 .. Len(list) - 1 : list[k + 1] \in ALLOWED_TRANSITIONS[list[k]]
    /\ list[Len(list)] = s

LEMMA WalkBegins == Walk(Append(<<>>, "PLANNED"), "PLANNED")
BY DEF Walk

LEMMA WalkGoesOn ==
    ASSUME NEW list \in Seq(OrderStatus), NEW s, Walk(list, s), NEW t \in ALLOWED_TRANSITIONS[s],
           t \in OrderStatus
    PROVE  Walk(Append(list, t), t)
<1> DEFINE n == Len(list)
<1>1. n \in Nat /\ n # 0
  BY DEF Walk
<1>2. /\ Append(list, t) # <<>> /\ Len(Append(list, t)) = n + 1 /\ Append(list, t)[n + 1] = t
      /\ \A k \in 1 .. n : Append(list, t)[k] = list[k]
  OBVIOUS
<1>3. Append(list, t)[1] = "PLANNED"
  BY <1>1, <1>2 DEF Walk
<1>4. ASSUME NEW k \in 1 .. (n + 1) - 1
      PROVE  Append(list, t)[k + 1] \in ALLOWED_TRANSITIONS[Append(list, t)[k]]
  <2>1. CASE k = n
    BY <1>1, <1>2, <2>1 DEF Walk
  <2>2. CASE k # n
    <3>1. k \in 1 .. n - 1 /\ k \in 1 .. n /\ k + 1 \in 1 .. n
      BY <1>1, <2>2
    <3> QED
      BY <1>2, <3>1 DEF Walk
  <2> QED
    BY <2>1, <2>2
<1> QED
  BY <1>2, <1>3, <1>4 DEF Walk

\* The rows are the projections in memory, but for the one whose upsert is next; the
\* intents of the orders in memory are claimed by them; the append-only tables say
\* what the memory says.
MemoryBooks(o) ==
    /\ claimed[mem[o].intent] = o
    /\ Walk(evts[o], mem[o].status)
    /\ StoredFilled(o) = mem[o].filled
    /\ \A k \in DOMAIN sfills[o] : sfills[o][k].cum <= mem[o].filled
BooksOf(o) ==
    IF mem[o] = NoRow
      THEN rows[o] = NoRow /\ sfills[o] = <<>>
      ELSE MemoryBooks(o) /\ (rows[o] = mem[o] \/ (ctl.pc = "upsert" /\ cur = o))
BooksInv ==
    Spared({"crash", "store"}) => ctl.pc # "down" /\ \A o \in Orders : BooksOf(o)

LEMMA LogsBooks ==
    ASSUME IInv, IInv', ~StoreFails, \A q \in Orders : BooksOf(q),
           NEW o \in Orders, NEW p \in Row, Logs(o, p)
    PROVE  ctl'.pc # "down" /\ \A q \in Orders : BooksOf(q)'
<1>1. /\ mem' = [mem EXCEPT ![o] = p] /\ UNCHANGED <<rows, sfills>>
      /\ evts' = [evts EXCEPT ![o] = Append(@, p.status)]
      /\ ctl.pc # "upsert" /\ ctl'.pc = "upsert" /\ ctl'.cur = o
  BY DEF Logs
<1>2. /\ evts \in [Orders -> Seq(OrderStatus)] /\ mem \in [Orders -> Row \cup {NoRow}]
      /\ p.status \in OrderStatus /\ p.filled \in Nat /\ p.intent \in Intents
      /\ claimed \in [Intents -> Orders \cup {NoOrder}] /\ p # NoRow /\ NoOrder \notin Orders
  <2>1. p.status \in OrderStatus /\ p.filled \in Nat /\ p.intent \in Intents
    BY UpbitAssumption DEF Row
  <2>2. p # NoRow /\ NoOrder \notin Orders
    BY UpbitAssumption, NullAssumption
  <2> QED
    BY <2>1, <2>2 DEF IInv, TypeOK
<1>3. \A q \in Orders : StoredFilled(q)' = StoredFilled(q)
  BY <1>1 DEF StoredFilled
<1>4. MemoryBooks(o)'
  <2>1. CASE Begins(o, p)
    <3>1. sfills[o] = <<>>
      BY <2>1 DEF Begins, BooksOf
    <3>2. StoredFilled(o) = 0
      <4>1. [k \in DOMAIN sfills[o] |-> sfills[o][k].qty] = [k \in {} |-> 0]
        BY <3>1
      <4> QED
        BY <4>1, SumOfNone DEF StoredFilled, SumFunction
    <3>3. mem'[o] = p /\ claimed'[p.intent] = o /\ evts'[o] = Append(<<>>, "PLANNED")
      BY <1>1, <1>2, <2>1 DEF Begins
    <3>4. DOMAIN sfills'[o] = {}
      BY <1>1, <3>1
    <3>5. Walk(evts'[o], p.status)
      BY <2>1, <3>3, WalkBegins DEF Begins
    <3> QED
      BY <1>3, <2>1, <3>2, <3>3, <3>4, <3>5 DEF MemoryBooks, Begins
  <2>2. CASE Moves(o, p)
    <3>1. MemoryBooks(o)
      BY <2>2 DEF Moves, BooksOf
    <3>2. mem'[o] = p /\ evts'[o] = Append(evts[o], p.status) /\ evts[o] \in Seq(OrderStatus)
      BY <1>1, <1>2
    <3>3. Walk(evts'[o], p.status)
      BY <1>2, <2>2, <3>1, <3>2, WalkGoesOn DEF MemoryBooks, Moves
    <3> QED
      BY <1>1, <1>3, <2>2, <3>1, <3>2, <3>3 DEF MemoryBooks, Moves
  <2> QED
    BY <2>1, <2>2 DEF Logs
<1>5. ASSUME NEW q \in Orders, q # o PROVE BooksOf(q)'
  <2>1. mem'[q] = mem[q] /\ rows'[q] = rows[q] /\ sfills'[q] = sfills[q] /\ evts'[q] = evts[q]
    BY <1>1, <1>2, <1>5
  <2>2. mem[q] # NoRow => MemoryBooks(q) /\ rows[q] = mem[q] /\ mem[q].intent \in Intents
    BY <1>1, <1>2 DEF BooksOf, Row
  <2>3. mem[q] # NoRow => claimed'[mem[q].intent] = q
    <3>1. CASE Begins(o, p)
      BY <1>2, <2>2, <3>1 DEF Begins, MemoryBooks
    <3>2. CASE Moves(o, p)
      BY <2>2, <3>2 DEF Moves, MemoryBooks
    <3> QED
      BY <3>1, <3>2 DEF Logs
  <2> QED
    BY <1>3, <2>1, <2>2, <2>3 DEF BooksOf, MemoryBooks
<1>6. BooksOf(o)'
  BY <1>1, <1>2, <1>4 DEF BooksOf, cur
<1> QED
  BY <1>1, <1>5, <1>6

LEMMA FillsBooks ==
    ASSUME IInv, IInv', ~StoreFails, \A q \in Orders : BooksOf(q), Fills, NEW o, o = cur,
           NEW executed, executed = ctl.snap[o].executed,
           NEW p, p = [mem[o] EXCEPT !.filled = executed]
    PROVE  ctl'.pc # "down" /\ \A q \in Orders : BooksOf(q)'
<1> DEFINE row == [cum |-> executed, qty |-> executed - mem[o].filled]
<1>1. /\ o \in Orders /\ mem[o] \in Row /\ mem[o] # NoRow /\ ctl.snap[o] \in Remote
  BY SnapFacts DEF Fills, Applying
<1>2. /\ executed \in 0 .. Quantity /\ mem[o].filled \in 0 .. Quantity /\ Quantity \in Nat
      /\ executed > mem[o].filled
  BY <1>1, UpbitAssumption DEF Remote, Row, Fills
<1>3. /\ mem \in [Orders -> Row \cup {NoRow}] /\ sfills \in [Orders -> Seq(FillRow)]
      /\ ctl \in Call
  BY DEF IInv, TypeOK, Call
<1>4. /\ mem' = [mem EXCEPT ![o] = p] /\ p \in Row /\ p # NoRow
      /\ p.status = mem[o].status /\ p.filled = executed /\ p.intent = mem[o].intent
      /\ UNCHANGED <<rows, evts, claimed>> /\ ctl.pc # "upsert"
  BY <1>1, <1>2, <1>3, NullAssumption DEF Fills, RecordFill, Row
<1>5. MemoryBooks(o) /\ rows[o] = mem[o]
  BY <1>1, <1>4 DEF BooksOf
<1>6. \A k \in DOMAIN sfills[o] :
          sfills[o][k].cum \in Nat /\ sfills[o][k].cum <= mem[o].filled
  <2>1. \A x \in FillRow : x.cum \in Nat
    BY <1>2 DEF FillRow
  <2>2. \A k \in DOMAIN sfills[o] : sfills[o][k] \in FillRow
    BY <1>1, <1>3
  <2> QED
    BY <1>5, <2>1, <2>2 DEF MemoryBooks
<1>7. \A k \in DOMAIN sfills[o] : sfills[o][k].cum # executed
  BY <1>2, <1>6
<1>8. /\ sfills' = [sfills EXCEPT ![o] = Append(@, row)]
      /\ ctl' = [ctl EXCEPT !.pc = "upsert", !.then = "settle"]
  BY <1>7 DEF Fills, RecordFill
<1>9. row \in FillRow /\ row.qty = executed - mem[o].filled /\ row.cum = executed
  <2>1. executed - mem[o].filled \in 0 .. Quantity
    BY <1>2
  <2> QED
    BY <1>2, <2>1 DEF FillRow
<1> HIDE DEF row
<1>10. ctl'.pc = "upsert" /\ ctl'.cur = o
  BY <1>3, <1>8 DEF Call, cur
<1>11. /\ StoredFilled(o)' = StoredFilled(o) + row.qty
       /\ sfills'[o] = Append(sfills[o], row)
       /\ \A q \in Orders \ {o} : StoredFilled(q)' = StoredFilled(q) /\ sfills'[q] = sfills[q]
  BY <1>1, <1>8, <1>9, FillAdds DEF IInv
<1>12. StoredFilled(o)' = executed
  BY <1>2, <1>5, <1>9, <1>11 DEF MemoryBooks
<1>13. \A k \in DOMAIN sfills'[o] : sfills'[o][k].cum <= executed
  <2> SUFFICES ASSUME NEW k \in DOMAIN sfills'[o] PROVE sfills'[o][k].cum <= executed
    OBVIOUS
  <2>1. sfills[o] \in Seq(FillRow)
    BY <1>1, <1>3
  <2>2. k \in 1 .. Len(sfills[o]) + 1 /\ Len(sfills[o]) \in Nat
    BY <1>9, <1>11, <2>1
  <2>3. CASE k = Len(sfills[o]) + 1
    BY <1>2, <1>9, <1>11, <2>1, <2>3
  <2>4. CASE k \in DOMAIN sfills[o]
    <3>1. sfills'[o][k] = sfills[o][k]
      BY <1>11, <2>1, <2>4
    <3> QED
      BY <1>2, <1>6, <2>4, <3>1
  <2> QED
    BY <2>1, <2>2, <2>3, <2>4
<1>14. BooksOf(o)'
  <2>1. mem'[o] = p
    BY <1>1, <1>3, <1>4
  <2> QED
    BY <1>4, <1>5, <1>10, <1>12, <1>13, <2>1 DEF BooksOf, MemoryBooks, cur
<1>15. ASSUME NEW q \in Orders, q # o PROVE BooksOf(q)'
  <2>1. mem'[q] = mem[q]
    BY <1>3, <1>4, <1>15
  <2> QED
    BY <1>4, <1>11, <1>15, <2>1 DEF BooksOf, MemoryBooks
<1> QED
  BY <1>10, <1>14, <1>15

\* No other order has the intent of the one that is upserted.
LEMMA NoOtherIntent ==
    ASSUME IInv, \A q \in Orders : BooksOf(q), ctl.pc = "upsert"
    PROVE  ~IntentTaken
<1>1. rows \in [Orders -> Row \cup {NoRow}] /\ mem \in [Orders -> Row \cup {NoRow}]
  BY DEF IInv, TypeOK
<1>2. cur \in Orders /\ mem[cur] # NoRow
  BY DEF IInv, OrderInHand, InHand, Handling
<1> SUFFICES ASSUME NEW o \in Orders \ {cur}, rows[o] # NoRow, rows[o].intent = mem[cur].intent
             PROVE  FALSE
  BY DEF IntentTaken
<1>3. MemoryBooks(cur)
  BY <1>2 DEF BooksOf
<1>4. MemoryBooks(o) /\ rows[o] = mem[o]
  BY <1>1 DEF BooksOf
<1> QED
  BY <1>3, <1>4 DEF MemoryBooks

\* The upsert brings the one row up to date.
LEMMA UpsertBooks ==
    ASSUME IInv, ~StoreFails, \A q \in Orders : BooksOf(q), Upsert
    PROVE  \/ ctl'.pc = "down" /\ ctl.then = "down"
           \/ ctl'.pc # "down" /\ \A q \in Orders : BooksOf(q)'
<1>1. ctl.pc = "upsert" /\ UNCHANGED <<evts, sfills, mem, claimed>>
  BY DEF Upsert, memVars
<1>2. /\ rows \in [Orders -> Row \cup {NoRow}] /\ mem \in [Orders -> Row \cup {NoRow}]
      /\ ctl \in Call
  BY DEF IInv, TypeOK, Call
<1>3. cur \in Orders /\ mem[cur] # NoRow
  BY <1>1 DEF IInv, OrderInHand, InHand, Handling
<1>4. ~IntentTaken
  BY <1>1, NoOtherIntent
<1>5. /\ rows' = [rows EXCEPT ![cur] = mem[cur]]
      /\ ctl' = IF ctl.then = "idle" THEN Idle ELSE [ctl EXCEPT !.pc = ctl.then]
  BY <1>4 DEF Upsert
<1>6. rows'[cur] = mem[cur] /\ \A q \in Orders \ {cur} : rows'[q] = rows[q]
  BY <1>2, <1>3, <1>5
<1>7. \A q \in Orders : BooksOf(q)'
  <2> SUFFICES ASSUME NEW q \in Orders PROVE BooksOf(q)'
    OBVIOUS
  <2>1. MemoryBooks(q) => MemoryBooks(q)'
    BY <1>1 DEF MemoryBooks, StoredFilled
  <2> QED
    BY <1>1, <1>3, <1>6, <2>1 DEF BooksOf
<1>8. ctl'.pc = "down" => ctl.then = "down"
  BY <1>2, <1>5 DEF Idle, Call
<1> QED
  BY <1>7, <1>8

\* A pending upsert does not lead to the process being down.
LEMMA NothingThenDown ==
    ASSUME IInv, [Next]_vars, ctl.then # "down" PROVE ctl'.then # "down"
<1>1. ctl \in Call
  BY DEF IInv, TypeOK, Call
<1>2. Raise => ctl'.then = "idle"
  BY DEF Raise, Idle
<1>3. \A label : Goto(label) => ctl'.then = ctl.then
  BY <1>1 DEF Goto, Call
<1>4. \A o, p, next, at : Record(o, p, next, at) \/ Transition(o, p, next, at)
                            => ctl'.then \in {next, "idle"}
  BY <1>1, <1>2 DEF Transition, Record, Call
<1>5. CASE \E i \in Intents : Submit(i) \/ SubmitDuplicate(i)
  BY <1>4, <1>5 DEF Submit, SubmitDuplicate
<1>6. ASSUME NEW o \in Orders, Cancel(o) PROVE ctl'.then # "down"
  <2>1. ctl' = [ctl EXCEPT !.pc = "cancel", !.cur = o] => ctl'.then = ctl.then
    BY <1>1 DEF Call
  <2> QED
    BY <1>4, <1>6, <2>1 DEF Cancel
<1>7. CASE Check \/ Approved \/ Unbuildable \/ Refused \/ Lost
  BY <1>4, <1>7 DEF Check, Approved, Unbuildable, Refused, Lost
<1>8. CASE Acknowledge \/ Work \/ Settle \/ Pend
  BY <1>3, <1>4, <1>8 DEF Acknowledge, Work, Settle, Pend
<1>9. CASE MarkAllOpen
  BY <1>2, <1>3, <1>4, <1>9 DEF MarkAllOpen
<1>10. CASE SyncFillDelta
  BY <1>1, <1>2, <1>3, <1>10 DEF SyncFillDelta, RecordFill, Call
<1>11. CASE Sync
  BY <1>11 DEF Sync, Idle
<1>12. CASE GetPortfolioState \/ Trip \/ Crash \/ Restart
  BY <1>12 DEF GetPortfolioState, Trip, Crash, Restart, Idle
<1>13. CASE Refresh
  BY <1>2, <1>3, <1>13 DEF Refresh, Idle
<1>14. CASE NextOrder
  BY <1>1, <1>3, <1>14 DEF NextOrder, Call
<1>15. CASE Upsert
  BY <1>1, <1>2, <1>15 DEF Upsert, Idle, Call
<1>16. CASE BuildPayload
  BY <1>2, <1>3, <1>16 DEF BuildPayload
<1>17. CASE Create \/ CallCancel
  BY <1>1, <1>3, <1>17 DEF Create, CallCancel, Call
<1>18. CASE Reset \/ Exchange \/ UNCHANGED vars
  BY <1>18 DEF Reset, Exchange, Execute, CancelAtExchange, vars
<1> QED
  BY <1>5, <1>6, <1>7, <1>8, <1>9, <1>10, <1>11, <1>12, <1>13, <1>14, <1>15, <1>16, <1>17, <1>18
     DEF Next, Step

LEMMA BooksStep ==
    ASSUME IInv, IInv', [Next]_vars, ctl.then # "down", BooksInv PROVE BooksInv'
<1> SUFFICES ASSUME Spared({"crash", "store"})'
             PROVE  ctl'.pc # "down" /\ \A o \in Orders : BooksOf(o)'
  BY DEF BooksInv
<1>1. {"crash", "store"} \in SUBSET FaultKinds
  BY DEF FaultKinds
<1>2. Spared({"crash", "store"}) /\ ~StoreFails /\ ~Crash
  BY <1>1, FaultsUsedUp, SparedBefore DEF StoreFails, Crash
<1>3. ctl.pc # "down" /\ \A o \in Orders : BooksOf(o)
  BY <1>2 DEF BooksInv
<1>4. CASE Quiet
  <2>1. \A o \in Orders : MemoryBooks(o) => MemoryBooks(o)'
    BY <1>4 DEF Quiet, MemoryBooks, StoredFilled
  <2>2. UNCHANGED ctl \/ (ctl.pc # "upsert" /\ ctl'.pc # "down")
    BY <1>4 DEF Quiet
  <2>3. UNCHANGED <<rows, sfills, mem>>
    BY <1>4 DEF Quiet
  <2> QED
    BY <1>3, <2>1, <2>2, <2>3 DEF BooksOf, cur
<1>5. CASE \E o \in Orders, p \in Row : Logs(o, p)
  BY <1>2, <1>3, <1>5, LogsBooks
<1>6. CASE Fills
  BY <1>2, <1>3, <1>6, FillsBooks
<1>7. CASE Upsert
  BY <1>2, <1>3, <1>7, UpsertBooks
<1>8. ~Restart
  BY <1>3 DEF Restart
<1> QED
  BY <1>2, <1>4, <1>5, <1>6, <1>7, <1>8, Kinds

LEMMA BooksAlways == Spec => [](ctl.then # "down" /\ BooksInv)
<1> DEFINE Inv == ctl.then # "down" /\ BooksInv
<1>1. Init => Inv
  BY DEF Init, Idle, BooksInv, BooksOf
<1>2. IInv /\ IInv' /\ Inv /\ [Next]_vars => Inv'
  BY NothingThenDown, BooksStep
<1> QED
  BY <1>1, <1>2, Invariant, PTL DEF Spec

-----------------------------------------------------------------------------
(***************************************************************************)
(* Nothing is booked that was not executed.                                *)
(***************************************************************************)

\* While the process lives, the stored fills add up to no more than the memory
\* shows: they are less when writes have failed.
StoredUpTo(o) == StoredFilled(o) <= IF mem[o] = NoRow THEN 0 ELSE mem[o].filled
StoredInv ==
    Spared({"crash"}) => ctl.pc # "down" /\ \A o \in Orders : StoredUpTo(o)

LEMMA LogsStored ==
    ASSUME IInv, \A q \in Orders : StoredUpTo(q), NEW o \in Orders, NEW p \in Row, Logs(o, p)
    PROVE  ctl'.pc # "down" /\ \A q \in Orders : StoredUpTo(q)'
<1>1. /\ mem' = [mem EXCEPT ![o] = p] /\ UNCHANGED sfills /\ ctl'.pc # "down"
      /\ mem \in [Orders -> Row \cup {NoRow}] /\ p # NoRow
  BY NullAssumption DEF Logs, IInv, TypeOK
<1>2. \A q \in Orders : StoredFilled(q)' = StoredFilled(q)
  BY <1>1 DEF StoredFilled
<1>3. p.filled = IF mem[o] = NoRow THEN 0 ELSE mem[o].filled
  BY DEF Logs, Begins, Moves
<1>4. ASSUME NEW q \in Orders PROVE StoredUpTo(q)'
  <2>1. CASE q = o
    BY <1>1, <1>2, <1>3, <2>1 DEF StoredUpTo
  <2>2. CASE q # o
    BY <1>1, <1>2, <2>2 DEF StoredUpTo
  <2> QED
    BY <2>1, <2>2
<1> QED
  BY <1>1, <1>4

LEMMA FillsStored ==
    ASSUME IInv, \A q \in Orders : StoredUpTo(q), Fills, NEW o, o = cur,
           NEW executed, executed = ctl.snap[o].executed
    PROVE  ctl'.pc # "down" /\ \A q \in Orders : StoredUpTo(q)'
<1> DEFINE row == [cum |-> executed, qty |-> executed - mem[o].filled]
<1>1. /\ o \in Orders /\ mem[o] \in Row /\ mem[o] # NoRow /\ ctl.snap[o] \in Remote
  BY SnapFacts DEF Fills, Applying
<1>2. /\ executed \in 0 .. Quantity /\ mem[o].filled \in 0 .. Quantity /\ Quantity \in Nat
      /\ executed > mem[o].filled
  BY <1>1, UpbitAssumption DEF Remote, Row, Fills
<1>3. /\ mem \in [Orders -> Row \cup {NoRow}] /\ sfills \in [Orders -> Seq(FillRow)]
      /\ ctl \in Call /\ StoredFilled(o) \in Nat
  BY <1>1, StoredFillsAreNat DEF IInv, TypeOK, Call
<1>4. /\ mem'[o] # NoRow /\ mem'[o].filled = executed
      /\ \A q \in Orders \ {o} : mem'[q] = mem[q]
  <2>1. [mem[o] EXCEPT !.filled = executed] \in Row
    BY <1>1, <1>2 DEF Row
  <2> QED
    BY <1>1, <1>3, <2>1, NullAssumption DEF Fills, RecordFill, Row
<1>5. ctl'.pc # "down"
  <2>1. CASE ctl' = [ctl EXCEPT !.pc = "upsert", !.then = "settle"]
    BY <1>3, <2>1 DEF Call
  <2>2. CASE Raise
    BY <2>2 DEF Raise, Idle
  <2> QED
    BY <2>1, <2>2 DEF Fills, RecordFill
<1>6. CASE UNCHANGED sfills
  <2>1. \A q \in Orders : StoredFilled(q)' = StoredFilled(q)
    BY <1>6 DEF StoredFilled
  <2>2. StoredUpTo(o)'
    BY <1>1, <1>2, <1>3, <1>4, <2>1 DEF StoredUpTo
  <2> QED
    BY <1>4, <1>5, <2>1, <2>2 DEF StoredUpTo
<1>7. CASE sfills' = [sfills EXCEPT ![o] = Append(@, row)]
  <2>1. row \in FillRow /\ row.qty = executed - mem[o].filled
    <3>1. executed - mem[o].filled \in 0 .. Quantity
      BY <1>2
    <3> QED
      BY <1>2, <3>1 DEF FillRow
  <2> HIDE DEF row
  <2>2. /\ StoredFilled(o)' = StoredFilled(o) + row.qty
        /\ \A q \in Orders \ {o} : StoredFilled(q)' = StoredFilled(q)
    BY <1>1, <1>7, <2>1, FillAdds DEF IInv
  <2>3. StoredUpTo(o)'
    BY <1>1, <1>2, <1>3, <1>4, <2>1, <2>2 DEF StoredUpTo
  <2> QED
    BY <1>4, <1>5, <2>2, <2>3 DEF StoredUpTo
<1> QED
  BY <1>6, <1>7 DEF Fills, RecordFill

LEMMA StoredStep ==
    ASSUME IInv, [Next]_vars, ctl.then # "down", StoredInv PROVE StoredInv'
<1> SUFFICES ASSUME Spared({"crash"})'
             PROVE  ctl'.pc # "down" /\ \A o \in Orders : StoredUpTo(o)'
  BY DEF StoredInv
<1>1. {"crash"} \in SUBSET FaultKinds
  BY DEF FaultKinds
<1>2. Spared({"crash"}) /\ ~Crash
  BY <1>1, FaultsUsedUp, SparedBefore DEF Crash
<1>3. ctl.pc # "down" /\ \A o \in Orders : StoredUpTo(o)
  BY <1>2 DEF StoredInv
<1>4. CASE Quiet
  BY <1>3, <1>4 DEF Quiet, StoredUpTo, StoredFilled
<1>5. CASE \E o \in Orders, p \in Row : Logs(o, p)
  BY <1>3, <1>5, LogsStored
<1>6. CASE Fills
  BY <1>3, <1>6, FillsStored
<1>7. CASE Upsert
  <2>1. UNCHANGED <<sfills, mem>>
    BY <1>7 DEF Upsert, memVars
  <2>2. ctl \in Call
    BY DEF IInv, TypeOK, Call
  <2>3. ctl'.pc # "down"
    BY <1>7, <2>2 DEF Upsert, Raise, Idle, Call
  <2> QED
    BY <1>3, <2>1, <2>3 DEF StoredUpTo, StoredFilled
<1>8. ~Restart
  BY <1>3 DEF Restart
<1> QED
  BY <1>2, <1>4, <1>5, <1>6, <1>7, <1>8, Kinds

\* No projection, in memory or in the store, ever shows more filled than the exchange
\* has executed, whatever is lost or fails; and while the process has not died the
\* stored fills add up to no more, since each is what the memory lacks of an answer.
THEOREM NothingOverbooked == Spec => []NeverOverbooked
<1>1. Init => StoredInv
  <2>0. Init => ctl.pc # "down"
    BY DEF Init, Idle
  <2> SUFFICES ASSUME Init, NEW o \in Orders PROVE StoredUpTo(o)
    BY <2>0 DEF StoredInv
  <2>1. sfills[o] = <<>> /\ mem[o] = NoRow
    <3>1. /\ sfills = [q \in Orders |-> <<>>]
          /\ mem = [q \in Orders |-> NoRow]
      BY DEF Init
    <3> QED
      BY <3>1
  <2>2. [k \in DOMAIN sfills[o] |-> sfills[o][k].qty] = [k \in {} |-> 0]
    BY <2>1
  <2>3. StoredFilled(o) = 0
    BY <2>2, SumOfNone DEF StoredFilled, SumFunction
  <2> QED
    BY <2>1, <2>3 DEF StoredUpTo
<1>2. IInv /\ StoredInv => NeverOverbooked
  <2> SUFFICES ASSUME IInv, StoredInv, NEW o \in Orders
               PROVE  /\ \A p \in {mem[o], rows[o]} : p # NoRow => p.filled <= Executed(o)
                      /\ Spared({"crash"}) => StoredFilled(o) <= Executed(o)
    BY DEF NeverOverbooked
  <2>1. \A p \in {mem[o], rows[o]} : p # NoRow => p.filled <= Executed(o)
    BY DEF IInv, OrderOK, Backed, Executed, Placed
  <2>2. Spared({"crash"}) => StoredUpTo(o)
    BY DEF StoredInv
  <2>3. Executed(o) \in Nat /\ StoredFilled(o) \in Nat /\ (mem[o] # NoRow => mem[o].filled \in Nat)
    BY UpbitAssumption, StoredFillsAreNat DEF IInv, TypeOK, Executed, Placed, Row, Remote
  <2> QED
    BY <2>1, <2>2, <2>3 DEF StoredUpTo
<1> QED
  BY <1>1, <1>2, StoredStep, BooksAlways, Invariant, PTL DEF Spec

\* Between calls the fills of an order add up to its row's filled quantity, and its
\* events are a walk of the transition table that ends in its row's status, whatever
\* the network and the exchange did: every transition is appended before the row is
\* written, no fill is refused for an id the store has, and no row for an intent an
\* other order has, as long as the process lives and its writes succeed.
THEOREM TablesAgreeBetweenCalls == Spec => []StoreConsistentWhenIdle
<1>1. IInv /\ BooksInv => StoreConsistentWhenIdle
  <2> SUFFICES ASSUME IInv, BooksInv, Spared({"crash", "store"}), ctl.pc = "idle",
                      NEW o \in Orders, rows[o] # NoRow
               PROVE  TablesAgree(o)
    BY DEF StoreConsistentWhenIdle
  <2>1. mem[o] # NoRow /\ rows[o] = mem[o] /\ MemoryBooks(o)
    BY DEF BooksInv, BooksOf
  <2> QED
    BY <2>1 DEF TablesAgree, MemoryBooks, Walk
<1> QED
  BY <1>1, BooksAlways, Invariant, PTL

-----------------------------------------------------------------------------
(***************************************************************************)
(* Failing closed.                                                         *)
(***************************************************************************)

\* Where a call that met a failure of the network goes before the switch is tripped.
Failing == {"lost", "pend", "mark", "trip"}

\* An order whose exchange id is known has been sent, and the store has every order
\* past PLANNED; the clock of an order is touched only once its id is known, and not
\* by the exchange while a cancel is requested.
NotSent == {"PLANNED", "APPROVED", "SUBMITTING", "MANUAL_INTERVENTION"}
SentOK(o) ==
    /\ mem[o] = NoRow \/ ~mem[o].acked => clock[o] = "behind"
    /\ mem[o] # NoRow =>
        /\ o \in known => mem[o].acked
        /\ mem[o].acked => mem[o].status \notin NotSent
        /\ mem[o].status # "PLANNED" => rows[o] # NoRow
        /\ mem[o].status = "CANCEL_REQUESTED" => clock[o] # "ahead"
    /\ rows[o] # NoRow /\ rows[o].acked => rows[o].status \notin NotSent

\* The order in hand: SUBMITTING from its payload on, its id known after that; one
\* that is being cancelled could be marked but for the zone of its last time stamp.
Cancelling == cur \in known /\ mem[cur].status \in Settled \cup {"CANCEL_REQUESTED"}
HandSent ==
    /\ Label \in {"payload", "create", "lost"} => mem[cur].status = "SUBMITTING"
    /\ Label = "ack" => mem[cur].acked \/ mem[cur].status = "SUBMITTING"
    /\ Label \in {"work", "fill", "settle"} => mem[cur].acked
    /\ Label \in {"cancel", "pend"} \/ ctl.pc = "idle" => ~ctl.sync
    /\ Label = "cancel" => Cancelling
    /\ ctl.pc = "upsert" /\ ctl.then \in Failing => mem[cur].status # "PLANNED"

\* The call is on its way to the switch, or has returned for one of the reasons
\* NetworkFailureTrips names.
OnTheWay ==
    "store" \notin trouble /\ kill = {} =>
        /\ "create" \in trouble => Label \in {"lost", "trip"}
        /\ "cancel" \in trouble =>
            \/ Label = "trip"
            \/ Label = "pend" /\ Cancelling
            \/ ctl.pc = "idle" /\ \E o \in known : clock[o] = "naive"
        /\ "read" \in trouble =>
            \/ Label \in {"pend", "mark", "trip"}
            \/ ctl.pc = "idle" /\ (Unsortable \/ \E o \in Orders : Unmarkable(o))

Way ==
    /\ \A o \in Orders : SentOK(o)
    /\ HandSent
    /\ OnTheWay

LEMMA OrdersStay ==
    ASSUME \A o \in Orders : SentOK(o), UNCHANGED <<rows, mem, clock, known>>
    PROVE  \A o \in Orders : SentOK(o)'
BY DEF SentOK

\* The projection of an order changes.
LEMMA OrderMoves ==
    ASSUME IInv, \A q \in Orders : SentOK(q), NEW o \in Orders, NEW p, p # NoRow,
           mem' = [mem EXCEPT ![o] = p], UNCHANGED rows,
           known' = known \/ (known' = known \cup {o} /\ p.acked),
           \/ clock' = clock
           \/ /\ clock' = [clock EXCEPT ![o] = "ahead"]
              /\ p.acked /\ p.status # "CANCEL_REQUESTED",
           o \in known => p.acked,
           ~p.acked => clock[o] = "behind",
           p.acked => p.status \notin NotSent,
           p.status # "PLANNED" => rows[o] # NoRow,
           p.status = "CANCEL_REQUESTED" => clock[o] # "ahead"
    PROVE  \A q \in Orders : SentOK(q)'
<1>1. /\ mem \in [Orders -> Row \cup {NoRow}]
      /\ clock \in [Orders -> {"behind", "ahead", "naive"}]
  BY DEF IInv, TypeOK
<1>2. /\ mem'[o] = p
      /\ clock'[o] = clock[o] \/ (clock'[o] = "ahead" /\ p.acked /\ p.status # "CANCEL_REQUESTED")
      /\ \A q \in Orders \ {o} : mem'[q] = mem[q] /\ clock'[q] = clock[q]
                                 /\ (q \in known' => q \in known)
  BY <1>1
<1>3. SentOK(o)'
  <2>1. SentOK(o)
    OBVIOUS
  <2>2. o \in known' => p.acked
    OBVIOUS
  <2> QED
    BY <1>2, <2>1, <2>2 DEF SentOK
<1>4. ASSUME NEW q \in Orders \ {o} PROVE SentOK(q)'
  <2>1. SentOK(q)
    OBVIOUS
  <2> QED
    BY <1>2, <1>4, <2>1 DEF SentOK
<1> QED
  BY <1>3, <1>4

\* A call that raises has nothing in hand.
LEMMA RaisedHand ==
    ASSUME Raise
    PROVE  /\ HandSent' /\ ctl'.pc \in {"idle", "mark"} /\ Label' = ctl'.pc
           /\ ~ctl.sync => ctl'.pc = "idle"
<1>1. ctl'.pc \in {"idle", "mark"} /\ ~ctl'.sync /\ (~ctl.sync => ctl'.pc = "idle")
  BY DEF Raise, Idle
<1>2. Label' = ctl'.pc
  BY <1>1 DEF Label
<1> QED
  BY <1>1, <1>2 DEF HandSent

\* A step of a call in which nothing has failed so far but the store or the ticker.
LEMMA NothingFailed ==
    ASSUME OnTheWay, Label \notin Failing, kill' = {} => kill = {},
           \/ trouble' = Kept
           \/ trouble' = Kept \cup {"store"}
           \/ trouble' = Kept \cup {"ticker"}
    PROVE  OnTheWay'
<1> SUFFICES ASSUME "store" \notin trouble', kill' = {}
             PROVE  trouble' \cap {"create", "cancel", "read"} = {}
  BY DEF OnTheWay
<1>1. CASE ctl.pc = "idle"
  BY <1>1 DEF Kept
<1>2. CASE ctl.pc # "idle"
  <2>1. "store" \notin trouble /\ kill = {}
    BY <1>2 DEF Kept
  <2> QED
    BY <1>2, <2>1 DEF OnTheWay, Kept, Failing
<1> QED
  BY <1>1, <1>2

\* The allowed moves to a status that is not an order's before it is sent are not
\* made by orders that have been sent.
LEMMA EarlyMoves ==
    ASSUME NEW s \in OrderStatus
    PROVE  /\ {"APPROVED", "PRECHECK_REJECTED"} \cap ALLOWED_TRANSITIONS[s] # {} => s = "PLANNED"
           /\ "SUBMITTING" \in ALLOWED_TRANSITIONS[s] => s = "APPROVED"
BY DEF ALLOWED_TRANSITIONS, OrderStatus

\* Where a transition, recorded or not, leaves the orders and the call.
LEMMA TransitionOnTheWay ==
    ASSUME IInv, Way, NEW o \in Orders, mem[o] # NoRow, rows[o] # NoRow,
           NEW p, p # NoRow, NEW next, NEW at, Transition(o, p, next, at),
           p.status \notin NotSent \ {"APPROVED", "SUBMITTING"},
           p.acked /\ p.status \in ALLOWED_TRANSITIONS[mem[o].status] => p.status \notin NotSent,
           p.acked \/ (~mem[o].acked /\ at = "tick"),
           p.status = "CANCEL_REQUESTED" => at = "tick",
           \/ known' = known
           \/ /\ known' = known \cup {o} /\ p.acked
              /\ p.status \in ALLOWED_TRANSITIONS[mem[o].status] /\ CanStamp(o, at),
           next \in {"payload", "create", "lost"} => p.status = "SUBMITTING",
           next \in {"ack", "work", "fill", "settle"} => p.acked,
           next \in {"cancel", "pend"} => ~ctl.sync,
           next = "cancel" => o \in known /\ p.status = "CANCEL_REQUESTED"
    PROVE  (\A q \in Orders : SentOK(q)') /\ HandSent'
<1>1. ctl \in Call /\ SentOK(o) /\ mem \in [Orders -> Row \cup {NoRow}] /\ mem[o] \in Row
  BY DEF IInv, TypeOK, Call, Way
<1>2. CASE p.status \in ALLOWED_TRANSITIONS[mem[o].status] /\ CanStamp(o, at)
  <2>1. Record(o, p, next, at)
    BY <1>2 DEF Transition
  <2>2. /\ mem' = [mem EXCEPT ![o] = p] /\ UNCHANGED rows
        /\ \/ clock' = clock
           \/ clock' = [clock EXCEPT ![o] = "ahead"] /\ at = "snapshot"
        /\ \/ ctl' = [ctl EXCEPT !.pc = "upsert", !.then = next, !.cur = o]
           \/ Raise
    BY <2>1 DEF Record, Stamp
  <2>3. p.status = "CANCEL_REQUESTED" => clock[o] # "ahead"
    BY <1>2 DEF CanStamp
  <2>4. ~p.acked => clock[o] = "behind"
    BY <1>1 DEF SentOK
  <2>5. o \in known => p.acked
    BY <1>1 DEF SentOK
  <2>6. \A q \in Orders : SentOK(q)'
    BY <1>2, <2>2, <2>3, <2>4, <2>5, OrderMoves DEF Way
  <2>7. CASE ctl' = [ctl EXCEPT !.pc = "upsert", !.then = next, !.cur = o]
    <3>1. ctl'.pc = "upsert" /\ ctl'.then = next /\ ctl'.cur = o /\ ctl'.sync = ctl.sync
      BY <1>1, <2>7 DEF Call
    <3>2. Label' = next /\ cur' = o /\ mem'[o] = p
      BY <1>1, <2>2, <3>1 DEF Label, cur
    <3>3. p.status # "PLANNED" /\ mem'[cur'] = p
      BY <3>2 DEF NotSent
    <3>4. next = "cancel" => Cancelling'
      BY <3>2, <3>3 DEF Cancelling
    <3> QED
      BY <2>6, <3>1, <3>2, <3>3, <3>4 DEF HandSent
  <2> QED
    BY <2>2, <2>6, <2>7, RaisedHand
<1>3. CASE ~(p.status \in ALLOWED_TRANSITIONS[mem[o].status] /\ CanStamp(o, at))
  <2>1. Raise /\ UNCHANGED <<rows, mem, clock, known>>
    BY <1>3 DEF Transition, storeVars
  <2> QED
    BY <2>1, RaisedHand, OrdersStay DEF Way
<1> QED
  BY <1>2, <1>3

LEMMA MoveOnTheWay ==
    ASSUME IInv, Way, NEW o \in Orders, mem[o] # NoRow, rows[o] # NoRow,
           NEW s \in OrderStatus \ {"PLANNED", "MANUAL_INTERVENTION"}, NEW next, NEW at,
           Transition(o, To(o, s), next, at), UNCHANGED known,
           mem[o].acked \/ at = "tick",
           s = "CANCEL_REQUESTED" => at = "tick",
           next \in {"payload", "create", "lost"} => s = "SUBMITTING",
           next \in {"ack", "work", "fill", "settle"} => mem[o].acked,
           next \in {"cancel", "pend"} => ~ctl.sync,
           next = "cancel" => o \in known /\ s = "CANCEL_REQUESTED"
    PROVE  (\A q \in Orders : SentOK(q)') /\ HandSent'
<1>1. mem[o] \in Row /\ NoRow \notin Row
  BY NullAssumption DEF IInv, TypeOK
<1>2. To(o, s) \in Row /\ To(o, s).status = s /\ To(o, s).acked = mem[o].acked
  BY <1>1 DEF To, Row
<1> DEFINE p == To(o, s)
<1>3. p # NoRow /\ p.status = s /\ p.acked = mem[o].acked /\ Transition(o, p, next, at)
  BY <1>1, <1>2
<1>4. p.status \notin NotSent \ {"APPROVED", "SUBMITTING"}
  BY <1>3 DEF NotSent
<1>5. mem[o].acked /\ s \in ALLOWED_TRANSITIONS[mem[o].status] => s \notin NotSent
  <2>1. mem[o].acked => mem[o].status \notin {"PLANNED", "APPROVED"}
    BY DEF Way, SentOK, NotSent
  <2> QED
    BY <1>1, <2>1, EarlyMoves DEF NotSent, Row
<1> HIDE DEF p
<1> QED
  BY <1>3, <1>4, <1>5, TransitionOnTheWay

\* What a transition leaves in trouble.
LEMMA TransitionFailures ==
    ASSUME NEW o, NEW p, NEW next, NEW at, Transition(o, p, next, at)
    PROVE  trouble' \in {Kept, Kept \cup {"store"}}
BY DEF Transition, Record, NoFault, StoreFails

LEMMA UpsertOnTheWay ==
    ASSUME IInv, Way, Upsert PROVE Way'
<1>1. /\ ctl.pc = "upsert" /\ Label = ctl.then /\ ctl \in Call /\ Kept = trouble
      /\ rows \in [Orders -> Row \cup {NoRow}] /\ mem \in [Orders -> Row \cup {NoRow}]
      /\ cur \in Orders /\ mem[cur] # NoRow
  BY DEF Upsert, Label, IInv, TypeOK, Call, Kept, OrderInHand, InHand, Handling
<1>2. UNCHANGED <<mem, clock, known, kill>>
  BY DEF Upsert, memVars
<1>3. ctl.then \in Failing => ~IntentTaken
  <2> SUFFICES ASSUME ctl.then \in Failing, NEW o \in Orders \ {cur}, rows[o] # NoRow,
                      rows[o].intent = mem[cur].intent
               PROVE  FALSE
    BY DEF IntentTaken
  <2>1. rows[cur] # NoRow
    BY <1>1 DEF Way, SentOK, HandSent
  <2>2. rows[cur].intent = mem[cur].intent
    BY <1>1, <2>1 DEF IInv, OrderOK, Follows
  <2> QED
    BY <1>1, <2>1, <2>2 DEF IInv, RowsUnique
<1>4. CASE /\ rows' = [rows EXCEPT ![cur] = mem[cur]]
           /\ ctl' = IF ctl.then = "idle" THEN Idle ELSE [ctl EXCEPT !.pc = ctl.then]
           /\ NoFault
  <2>1. /\ trouble' = trouble /\ rows'[cur] = mem[cur]
        /\ \A q \in Orders \ {cur} : rows'[q] = rows[q]
    BY <1>1, <1>4 DEF NoFault
  <2>2. \A q \in Orders : SentOK(q)'
    <3> SUFFICES ASSUME NEW q \in Orders PROVE SentOK(q)'
      OBVIOUS
    <3>1. SentOK(q)
      BY DEF Way
    <3>2. CASE q = cur
      BY <1>1, <1>2, <2>1, <3>1, <3>2 DEF SentOK
    <3>3. CASE q # cur
      BY <1>2, <2>1, <3>1, <3>3 DEF SentOK
    <3> QED
      BY <3>2, <3>3
  <2>3. CASE ctl.then = "idle"
    <3>1. ctl'.pc = "idle" /\ ~ctl'.sync /\ Label' = "idle"
      BY <1>4, <2>3 DEF Idle, Label
    <3>2. HandSent'
      BY <3>1 DEF HandSent
    <3>3. OnTheWay'
      BY <1>1, <1>2, <1>4, <2>3, NothingFailed DEF Way, Failing, NoFault
    <3> QED
      BY <2>2, <3>2, <3>3 DEF Way
  <2>4. CASE ctl.then # "idle"
    <3>1. ctl'.pc = ctl.then /\ ctl'.then = ctl.then /\ ctl'.cur = ctl.cur /\ ctl'.sync = ctl.sync
      BY <1>1, <1>4, <2>4 DEF Call
    <3>2. Label' = Label /\ cur' = cur
      BY <1>1, <3>1 DEF Label, cur
    <3>3. Cancelling' = Cancelling
      BY <1>2, <3>2 DEF Cancelling
    <3>4. HandSent'
      <4>1. mem'[cur'] = mem[cur] /\ ctl'.pc # "idle" /\ ~(ctl'.pc = "upsert" /\ ctl'.then \in Failing)
        BY <1>2, <2>4, <3>1, <3>2 DEF Failing
      <4>2. HandSent
        BY DEF Way
      <4> QED
        BY <3>1, <3>2, <3>3, <4>1, <4>2 DEF HandSent
    <3>5. OnTheWay'
      BY <1>1, <1>2, <2>1, <3>2, <3>3 DEF Way, OnTheWay
    <3> QED
      BY <2>2, <3>4, <3>5 DEF Way
  <2> QED
    BY <2>3, <2>4
<1>5. CASE Raise /\ UNCHANGED rows /\ ((IntentTaken /\ NoFault) \/ StoreFails)
  <2>1. (\A q \in Orders : SentOK(q)') /\ HandSent'
    BY <1>2, <1>5, OrdersStay, RaisedHand DEF Way
  <2>2. CASE IntentTaken /\ NoFault
    <3>1. OnTheWay'
      BY <1>1, <1>2, <1>3, <2>2, NothingFailed DEF Way, NoFault
    <3> QED
      BY <2>1, <3>1 DEF Way
  <2>3. CASE StoreFails
    <3>1. OnTheWay'
      BY <2>3 DEF StoreFails, OnTheWay
    <3> QED
      BY <2>1, <3>1 DEF Way
  <2> QED
    BY <1>5, <2>2, <2>3
<1> QED
  BY <1>4, <1>5 DEF Upsert

\* Going on in hand with the orders as they are.
LEMMA HandGoesOn ==
    ASSUME IInv, Way, NEW label, Goto(label), NoFault,
           UNCHANGED <<rows, mem, clock, known, kill>>, ctl.pc # "upsert",
           label \in {"create", "ack", "work", "fill", "settle", "after", "refresh", "refused",
                      "unbuildable"},
           label = "create" => mem[cur].status = "SUBMITTING",
           label = "ack" => mem[cur].acked \/ mem[cur].status = "SUBMITTING",
           label \in {"work", "fill", "settle"} => mem[cur].acked,
           Label \notin Failing
    PROVE  Way'
<1>1. ctl \in Call
  BY DEF IInv, TypeOK, Call
<1>2. ctl'.pc = label /\ ctl'.cur = ctl.cur /\ ctl'.sync = ctl.sync
  BY <1>1 DEF Goto, Call
<1>3. Label' = label /\ cur' = cur
  BY <1>2 DEF Label, cur
<1>4. HandSent'
  BY <1>2, <1>3 DEF HandSent
<1>5. OnTheWay'
  BY NothingFailed DEF Way, NoFault
<1> QED
  BY <1>4, <1>5, OrdersStay DEF Way

\* The steps of a call in hand that meet no failure of the network.
LEMMA HandOnTheWay ==
    ASSUME IInv, Way, \/ Check \/ Approved \/ Unbuildable \/ Refused \/ Acknowledge \/ Work \/ Settle
    PROVE  Way'
<1>1. ctl.pc \in Handling \ {"upsert"} /\ ctl.pc \notin Failing
  BY DEF Check, Approved, Unbuildable, Refused, Acknowledge, Work, Settle,
         Handling, Unsent, Preparing, Applying, Failing
<1>2. /\ cur \in Orders /\ mem[cur] \in Row /\ mem[cur] # NoRow /\ rows[cur] # NoRow
      /\ Label = ctl.pc /\ ctl.pc # "upsert" /\ SentOK(cur)
  BY <1>1, HandFacts DEF Way
<1>3. mem[cur].status \in OrderStatus /\ mem[cur].acked \in BOOLEAN
  BY <1>2 DEF Row
<1>4. UNCHANGED kill
  BY DEF Check, Approved, Unbuildable, Refused, Acknowledge, Work, Settle
<1>5. trouble' \in {Kept, Kept \cup {"store"}} => OnTheWay'
  BY <1>1, <1>2, <1>4, NothingFailed DEF Way
<1>6. ASSUME NEW s \in {"APPROVED", "SUBMITTING", "PRECHECK_REJECTED", "BROKER_REJECTED"},
             NEW next \in {"approved", "payload", "idle"},
             Transition(cur, To(cur, s), next, "tick"), UNCHANGED known,
             next = "payload" => s = "SUBMITTING"
      PROVE  Way'
  <2>1. s \in OrderStatus \ {"PLANNED", "MANUAL_INTERVENTION"}
    BY DEF OrderStatus
  <2>2. (\A q \in Orders : SentOK(q)') /\ HandSent'
    BY <1>2, <1>6, <2>1, MoveOnTheWay
  <2>3. OnTheWay'
    BY <1>5, <1>6, TransitionFailures
  <2> QED
    BY <2>2, <2>3 DEF Way
<1>7. CASE Check \/ Approved \/ Unbuildable \/ Refused
  BY <1>6, <1>7 DEF Check, Approved, Unbuildable, Refused
<1>8. ASSUME NEW label \in {"work", "fill", "after"}, Goto(label), NoFault,
             UNCHANGED <<storeVars, mem, clock, known>>,
             label \in {"work", "fill"} => mem[cur].acked
      PROVE  Way'
  BY <1>1, <1>2, <1>4, <1>8, HandGoesOn DEF storeVars
<1>9. ctl.pc \in Applying => Target \in OrderStatus \ (NotSent \cup {"CANCEL_REQUESTED"})
  <2> SUFFICES ASSUME ctl.pc \in Applying
               PROVE  Target \in OrderStatus \ (NotSent \cup {"CANCEL_REQUESTED"})
    OBVIOUS
  <2>1. ctl.snap[cur].state \in {"wait", "done", "cancel", "other"}
    BY SnapFacts DEF Remote
  <2> QED
    BY <2>1 DEF Target, StatusOf, OrderStatus, NotSent
<1>10. CASE Work
  <2>1. ctl.pc = "work" /\ mem[cur].acked /\ "WORKING" \in OrderStatus
    BY <1>2, <1>10 DEF Work, Way, HandSent, OrderStatus
  <2>2. CASE Transition(cur, To(cur, "WORKING"), "fill", "snapshot")
    <3>1. (\A q \in Orders : SentOK(q)') /\ HandSent'
      BY <1>2, <1>10, <2>1, <2>2, MoveOnTheWay DEF Work
    <3> QED
      BY <1>5, <2>2, <3>1, TransitionFailures DEF Way
  <2> QED
    BY <1>8, <1>10, <2>1, <2>2 DEF Work
<1>11. CASE Settle
  <2>1. ctl.pc = "settle" /\ ctl.pc \in Applying /\ mem[cur].acked
    BY <1>2, <1>11 DEF Settle, Applying, Way, HandSent
  <2>2. Target \in OrderStatus \ {"PLANNED", "MANUAL_INTERVENTION"} /\ Target # "CANCEL_REQUESTED"
    BY <1>9, <2>1 DEF NotSent
  <2>3. CASE Transition(cur, To(cur, Target), "after", "snapshot")
    <3>1. (\A q \in Orders : SentOK(q)') /\ HandSent'
      BY <1>2, <1>11, <2>1, <2>2, <2>3, MoveOnTheWay DEF Settle
    <3> QED
      BY <1>5, <2>3, <3>1, TransitionFailures DEF Way
  <2> QED
    BY <1>8, <1>11, <2>3 DEF Settle
<1>12. CASE Acknowledge
  <2>1. ctl.pc = "ack" /\ (mem[cur].acked \/ mem[cur].status = "SUBMITTING")
    BY <1>2, <1>12 DEF Acknowledge, Way, HandSent
  <2>2. CASE mem[cur].acked
    <3>1. known' = known \cup {cur} /\ Goto("work") /\ NoFault /\ UNCHANGED <<storeVars, mem, clock>>
      BY <1>12, <2>2 DEF Acknowledge
    <3>2. mem' = [mem EXCEPT ![cur] = mem[cur]] /\ mem \in [Orders -> Row \cup {NoRow}]
      BY <3>1 DEF IInv, TypeOK
    <3>3. \A q \in Orders : SentOK(q)'
      BY <1>2, <2>2, <3>1, <3>2, OrderMoves DEF Way, SentOK, storeVars
    <3>4. ctl'.pc = "work" /\ ctl'.cur = ctl.cur
      BY <3>1 DEF Goto, IInv, TypeOK
    <3>5. Label' = "work" /\ cur' = cur /\ mem' = mem
      BY <3>1, <3>4 DEF Label, cur
    <3>6. HandSent'
      BY <2>2, <3>4, <3>5 DEF HandSent
    <3> QED
      BY <1>5, <3>1, <3>3, <3>6 DEF Way, NoFault
  <2>3. CASE ~mem[cur].acked
    <3> DEFINE p == [To(cur, "ACKNOWLEDGED") EXCEPT !.acked = TRUE]
    <3>1. p \in Row /\ p.status = "ACKNOWLEDGED" /\ p.acked
      BY <1>2 DEF To, Row, OrderStatus
    <3>2. Transition(cur, p, "work", "snapshot") /\ known' = known \cup {cur}
      BY <1>12, <2>3 DEF Acknowledge
    <3>3. p.status \in ALLOWED_TRANSITIONS[mem[cur].status] /\ CanStamp(cur, "snapshot")
      BY <1>2, <2>1, <2>3, <3>1 DEF SentOK, CanStamp, ALLOWED_TRANSITIONS, OrderStatus
    <3>4. p # NoRow /\ p.status \notin NotSent
      BY <3>1, NullAssumption DEF NotSent
    <3> HIDE DEF p
    <3>5. (\A q \in Orders : SentOK(q)') /\ HandSent'
      BY <1>2, <3>1, <3>2, <3>3, <3>4, TransitionOnTheWay
    <3> QED
      BY <1>5, <3>2, <3>5, TransitionFailures DEF Way
  <2> QED
    BY <2>2, <2>3
<1> QED
  BY <1>7, <1>10, <1>11, <1>12

LEMMA FillOnTheWay ==
    ASSUME IInv, Way, SyncFillDelta PROVE Way'
<1>1. /\ ctl.pc = "fill" /\ ctl.pc \in Applying /\ Label = "fill" /\ Label \notin Failing
      /\ UNCHANGED <<known, kill>>
  BY DEF SyncFillDelta, Label, Applying, Failing
<1>2. /\ cur \in Orders /\ mem[cur] \in Row /\ mem[cur] # NoRow /\ rows[cur] # NoRow
      /\ mem \in [Orders -> Row \cup {NoRow}] /\ ctl \in Call /\ SentOK(cur) /\ mem[cur].acked
      /\ Kept = trouble
  BY <1>1, SnapFacts DEF IInv, TypeOK, Call, Way, HandSent, Kept
<1>3. trouble' \in {Kept, Kept \cup {"store"}} => OnTheWay'
  BY <1>1, NothingFailed DEF Way
<1>4. CASE Raise /\ UNCHANGED <<storeVars, mem, clock>> /\ trouble' = Kept
  BY <1>1, <1>3, <1>4, RaisedHand, OrdersStay DEF Way, storeVars
<1>5. CASE Goto("settle") /\ NoFault /\ UNCHANGED <<storeVars, mem, clock>>
  BY <1>1, <1>2, <1>5, HandGoesOn DEF storeVars
<1>6. ASSUME NEW executed \in 0 .. Quantity, Fillable(executed), RecordFill(executed) PROVE Way'
  <2> DEFINE p == [mem[cur] EXCEPT !.filled = executed]
  <2>1. /\ p.status = mem[cur].status /\ p.acked /\ p \in Row /\ p # NoRow
        /\ p.status \notin NotSent /\ p.status # "CANCEL_REQUESTED"
    BY <1>2, <1>6, NullAssumption DEF Row, Fillable, FillableStatuses, NotSent
  <2>2. mem' = [mem EXCEPT ![cur] = p] /\ UNCHANGED rows
    BY <1>2, <1>6 DEF RecordFill, Row
  <2>3. clock' = clock \/ clock' = [clock EXCEPT ![cur] = "ahead"]
    BY <1>6 DEF RecordFill, Stamp
  <2>4. mem'[cur] = p
    BY <1>2, <2>2
  <2> HIDE DEF p
  <2>5. \A q \in Orders : SentOK(q)'
    BY <1>1, <1>2, <2>1, <2>2, <2>3, OrderMoves DEF Way
  <2>6. CASE ctl' = [ctl EXCEPT !.pc = "upsert", !.then = "settle"] /\ UNCHANGED trouble
    <3>1. ctl'.pc = "upsert" /\ ctl'.then = "settle" /\ ctl'.cur = ctl.cur
      BY <1>2, <2>6 DEF Call
    <3>2. Label' = "settle" /\ cur' = cur /\ mem'[cur'] = p /\ ctl'.then \notin Failing
      BY <2>4, <3>1 DEF Label, cur, Failing
    <3>3. HandSent'
      BY <2>1, <3>1, <3>2 DEF HandSent
    <3> QED
      BY <1>2, <1>3, <2>5, <2>6, <3>3 DEF Way
  <2>7. CASE Raise /\ (NoFault \/ StoreFails)
    <3>1. trouble' \in {Kept, Kept \cup {"store"}}
      BY <2>7 DEF NoFault, StoreFails
    <3> QED
      BY <1>3, <2>5, <2>7, <3>1, RaisedHand DEF Way
  <2> QED
    BY <1>6, <2>6, <2>7 DEF RecordFill
<1>7. ASSUME ctl.snap[cur].executed > mem[cur].filled, Fillable(ctl.snap[cur].executed)
      PROVE  ctl.snap[cur].executed \in 0 .. Quantity
  BY <1>1, <1>2, <1>7, SnapFacts, UpbitAssumption DEF Remote, Row, Fillable
<1> QED
  BY <1>2, <1>4, <1>5, <1>6, <1>7 DEF SyncFillDelta, NoFault

\* The calls that begin.
LEMMA CallsOnTheWay ==
    ASSUME IInv, Way,
           \/ \E i \in Intents : Submit(i) \/ SubmitDuplicate(i)
           \/ \E o \in Orders : Cancel(o)
           \/ Sync \/ GetPortfolioState \/ Reset
    PROVE  Way'
<1>1. /\ ctl.pc = "idle" /\ Label = "idle" /\ Label \notin Failing /\ ~ctl.sync /\ Kept = {}
  <2>1. ctl.pc = "idle"
    BY DEF Submit, SubmitDuplicate, Cancel, Sync, GetPortfolioState, Reset
  <2> QED
    BY <2>1 DEF Label, Failing, Kept, Way, HandSent
<1>2. ctl \in Call /\ mem \in [Orders -> Row \cup {NoRow}]
  BY DEF IInv, TypeOK, Call
<1>3. trouble' \in {Kept, Kept \cup {"store"}} /\ (kill' = {} => kill = {} \/ Reset) => OnTheWay'
  <2>1. Kept = {} /\ trouble' \in {Kept, Kept \cup {"store"}} => OnTheWay'
    BY DEF OnTheWay
  <2> QED
    BY <1>1, <2>1
<1>4. ASSUME NEW i \in Intents, Submit(i) PROVE Way'
  <2>1. PICK o \in Orders :
          /\ Fresh(o)
          /\ Record(o, [intent |-> i, status |-> "PLANNED", filled |-> 0, acked |-> FALSE],
                    "check", "tick")
    BY <1>4 DEF Submit
  <2> DEFINE p == [intent |-> i, status |-> "PLANNED", filled |-> 0, acked |-> FALSE]
  <2>2. /\ mem' = [mem EXCEPT ![o] = p] /\ UNCHANGED <<rows, clock, known, kill>>
        /\ trouble' \in {Kept, Kept \cup {"store"}}
        /\ \/ ctl' = [ctl EXCEPT !.pc = "upsert", !.then = "check", !.cur = o]
           \/ Raise
    <3>1. Record(o, p, "check", "tick") /\ UNCHANGED <<known, kill>>
      BY <1>4, <2>1 DEF Submit
    <3> HIDE DEF p
    <3> QED
      BY <3>1 DEF Record, Stamp, StoreFails
  <2>3. p.status = "PLANNED" /\ ~p.acked /\ p # NoRow
    <3>1. 0 \in 0 .. Quantity /\ "PLANNED" \in OrderStatus
      BY UpbitAssumption DEF OrderStatus
    <3>2. p \in Row
      BY <3>1 DEF Row
    <3> QED
      BY <3>2, NullAssumption
  <2>4. clock[o] = "behind" /\ o \notin known
    BY <2>1 DEF Fresh, Way, SentOK, IInv, OrderOK
  <2> HIDE DEF p
  <2>5. \A q \in Orders : SentOK(q)'
    BY <2>2, <2>3, <2>4, OrderMoves DEF Way
  <2>6. CASE ctl' = [ctl EXCEPT !.pc = "upsert", !.then = "check", !.cur = o]
    <3>1. ctl'.pc = "upsert" /\ ctl'.then = "check"
      BY <1>2, <2>6 DEF Call
    <3>2. HandSent'
      BY <3>1 DEF HandSent, Label, Failing
    <3> QED
      BY <1>3, <2>2, <2>5, <3>2 DEF Way
  <2> QED
    BY <1>3, <2>2, <2>5, <2>6, RaisedHand DEF Way
<1>5. ASSUME UNCHANGED <<rows, mem, clock, known, ctl>>, trouble' \in {Kept, Kept \cup {"store"}},
             kill' = {} => kill = {} \/ Reset
      PROVE  Way'
  <2>1. Label' = Label /\ cur' = cur /\ Cancelling' = Cancelling
    BY <1>5 DEF Label, cur, Cancelling
  <2>2. HandSent'
    BY <1>1, <1>5, <2>1 DEF HandSent, Way
  <2> QED
    BY <1>3, <1>5, <2>2, OrdersStay DEF Way
<1>6. ASSUME NEW i \in Intents, SubmitDuplicate(i) PROVE Way'
  <2>1. /\ UNCHANGED <<rows, mem, clock, known, ctl>> /\ kill' # {}
        /\ trouble' \in {Kept, Kept \cup {"store"}}
    BY <1>6 DEF SubmitDuplicate, Trigger, NoFault, StoreFails
  <2> QED
    BY <1>5, <2>1
<1>7. CASE Reset
  <2>1. UNCHANGED <<rows, mem, clock, known, ctl>> /\ trouble' \in {Kept, Kept \cup {"store"}}
    BY <1>7 DEF Reset, NoFault, StoreFails
  <2> QED
    BY <1>5, <1>7, <2>1
<1>8. ASSUME NEW o \in Orders, Cancel(o) PROVE Way'
  <2>1. o \in known /\ mem[o] # NoRow /\ rows[o] # NoRow /\ UNCHANGED <<kill, known>>
    BY <1>8 DEF Cancel, IInv, OrderOK
  <2>2. mem[o].acked /\ mem[o].status \in OrderStatus \ NotSent
    BY <1>2, <2>1 DEF Way, SentOK, Row
  <2>3. CASE Transition(o, To(o, "CANCEL_REQUESTED"), "cancel", "tick")
    <3>1. "CANCEL_REQUESTED" \in OrderStatus \ {"PLANNED", "MANUAL_INTERVENTION"}
      BY DEF OrderStatus
    <3>2. (\A q \in Orders : SentOK(q)') /\ HandSent'
      BY <1>1, <2>1, <2>2, <2>3, <3>1, MoveOnTheWay
    <3> QED
      BY <1>3, <2>1, <2>3, <3>2, TransitionFailures DEF Way
  <2>4. CASE /\ mem[o].status \notin {"WORKING", "ACKNOWLEDGED", "PARTIALLY_FILLED"}
             /\ ctl' = [ctl EXCEPT !.pc = "cancel", !.cur = o] /\ NoFault
             /\ UNCHANGED <<storeVars, mem, clock>>
    <3>1. ctl'.pc = "cancel" /\ ctl'.cur = o /\ ctl'.sync = ctl.sync
      BY <1>2, <2>4 DEF Call
    <3>2. Label' = "cancel" /\ cur' = o
      BY <3>1 DEF Label, cur
    <3>3. mem[o].status \in Settled \cup {"CANCEL_REQUESTED"}
      BY <2>2, <2>4 DEF OrderStatus, NotSent, Settled
    <3>4. Cancelling'
      BY <2>1, <2>4, <3>2, <3>3 DEF Cancelling
    <3>5. HandSent'
      BY <1>1, <3>1, <3>2, <3>4 DEF HandSent
    <3> QED
      BY <1>3, <2>1, <2>4, <3>5, OrdersStay DEF Way, NoFault, storeVars
  <2> QED
    BY <1>8, <2>3, <2>4 DEF Cancel
<1>9. CASE Sync \/ GetPortfolioState
  <2>1. UNCHANGED <<rows, mem, clock, known, kill>>
    BY <1>9 DEF Sync, GetPortfolioState, memVars, storeVars
  <2>2. \A q \in Orders : SentOK(q)'
    BY <2>1, OrdersStay DEF Way
  <2>3. CASE ctl' = [Idle EXCEPT !.pc = "mark"] /\ NetworkFails("read")
    <3>1. ctl'.pc = "mark" /\ Label' = "mark"
      BY <2>3 DEF Idle, Label
    <3>2. HandSent'
      BY <3>1 DEF HandSent
    <3>3. OnTheWay'
      BY <1>1, <2>3, <3>1 DEF OnTheWay, NetworkFails
    <3> QED
      BY <2>2, <3>2, <3>3 DEF Way
  <2>4. CASE ctl' = [Idle EXCEPT !.pc = "refresh", !.sync = TRUE] /\ NoFault
    <3>1. ctl'.pc = "refresh" /\ Label' = "refresh"
      BY <2>4 DEF Idle, Label
    <3>2. HandSent'
      BY <3>1 DEF HandSent
    <3> QED
      BY <1>3, <2>1, <2>2, <2>4, <3>2 DEF Way, NoFault
  <2>5. ASSUME NEW o \in known, NoFault,
               ctl' = [Idle EXCEPT !.pc = "ack", !.cur = o, !.todo = known \ {o},
                                   !.snap = remote, !.sync = TRUE]
        PROVE  Way'
    <3>1. ctl'.pc = "ack" /\ ctl'.cur = o
      BY <2>5 DEF Idle
    <3>2. Label' = "ack" /\ cur' = o
      BY <3>1 DEF Label, cur
    <3>3. o \in Orders /\ mem[o] # NoRow /\ mem[o].acked
      BY DEF IInv, TypeOK, OrderOK, Way, SentOK
    <3>4. mem'[cur'].acked
      BY <2>1, <3>2, <3>3
    <3>5. HandSent'
      BY <3>1, <3>2, <3>4 DEF HandSent
    <3> QED
      BY <1>3, <2>1, <2>2, <2>5, <3>5 DEF Way, NoFault
  <2> QED
    BY <1>9, <2>3, <2>4, <2>5 DEF Sync, GetPortfolioState
<1> QED
  BY <1>4, <1>6, <1>7, <1>8, <1>9

\* The steps that call the network, or do nothing but go on.
LEMMA NetworkOnTheWay ==
    ASSUME IInv, Way, BuildPayload \/ Create \/ CallCancel \/ NextOrder \/ Refresh \/ Trip
    PROVE  Way'
<1>1. /\ Label = ctl.pc /\ ctl \in Call /\ ctl.pc \notin {"idle", "upsert"} /\ Kept = trouble
      /\ ctl.pc \in {"payload", "create", "cancel", "after", "refresh", "trip"}
  BY DEF BuildPayload, Create, CallCancel, NextOrder, Refresh, Trip, Label, IInv, TypeOK, Call, Kept
<1>2. UNCHANGED <<rows, mem, clock, known>> /\ (Trip \/ UNCHANGED kill)
  BY DEF BuildPayload, Create, CallCancel, NextOrder, Refresh, Trip, Trigger, memVars, storeVars
<1>3. \A q \in Orders : SentOK(q)'
  BY <1>2, OrdersStay DEF Way
<1>4. \A label : Goto(label) => ctl'.pc = label /\ ctl'.cur = ctl.cur /\ ctl'.sync = ctl.sync
  BY <1>1 DEF Goto, Call
<1>5. ctl.pc # "trip" => Label \notin Failing
  BY <1>1 DEF Failing
<1>6. HandSent /\ OnTheWay
  BY DEF Way
<1>7. CASE BuildPayload
  <2>1. ctl.pc = "payload" /\ mem[cur].status = "SUBMITTING" /\ UNCHANGED kill
    BY <1>1, <1>2, <1>6, <1>7 DEF BuildPayload, Trip, HandSent
  <2>2. CASE Goto("create") /\ NoFault
    BY <1>1, <1>2, <1>5, <2>1, <2>2, HandGoesOn DEF Trip
  <2>3. CASE Strike("price") /\ Goto("unbuildable") /\ UNCHANGED trouble
    <3>1. ctl'.pc = "unbuildable" /\ Label' = "unbuildable"
      BY <1>4, <2>3 DEF Label
    <3>2. HandSent'
      BY <3>1 DEF HandSent
    <3>3. OnTheWay'
      BY <1>1, <1>5, <1>6, <2>1, <2>3, NothingFailed
    <3> QED
      BY <1>3, <3>2, <3>3 DEF Way
  <2>4. CASE NetworkFails("ticker") /\ Raise
    <3>1. OnTheWay'
      BY <1>1, <1>5, <1>6, <2>1, <2>4, NothingFailed DEF NetworkFails
    <3> QED
      BY <1>3, <2>4, <3>1, RaisedHand DEF Way
  <2> QED
    BY <1>7, <2>2, <2>3, <2>4 DEF BuildPayload
<1>8. CASE Create
  <2>1. ctl.pc = "create" /\ mem[cur].status = "SUBMITTING" /\ UNCHANGED kill
    BY <1>1, <1>2, <1>6, <1>8 DEF Create, Trip, HandSent
  <2>2. CASE ctl' = [ctl EXCEPT !.pc = "ack", !.snap = remote'] /\ NoFault
    <3>1. ctl'.pc = "ack" /\ ctl'.cur = ctl.cur
      BY <1>1, <2>2 DEF Call
    <3>2. Label' = "ack" /\ mem'[cur'].status = "SUBMITTING"
      BY <1>2, <2>1, <3>1 DEF Label, cur
    <3>3. HandSent'
      BY <3>1, <3>2 DEF HandSent
    <3>4. OnTheWay'
      BY <1>1, <1>5, <1>6, <2>1, <2>2, NothingFailed DEF NoFault
    <3> QED
      BY <1>3, <3>3, <3>4 DEF Way
  <2>3. CASE Goto("refused") /\ UNCHANGED trouble
    <3>1. ctl'.pc = "refused" /\ Label' = "refused"
      BY <1>4, <2>3 DEF Label
    <3>2. HandSent'
      BY <3>1 DEF HandSent
    <3>3. OnTheWay'
      BY <1>1, <1>5, <1>6, <2>1, <2>3, NothingFailed
    <3> QED
      BY <1>3, <3>2, <3>3 DEF Way
  <2>4. CASE NetworkFails("create") /\ Goto("lost")
    <3>1. ctl'.pc = "lost" /\ ctl'.cur = ctl.cur
      BY <1>4, <2>4
    <3>2. Label' = "lost" /\ mem'[cur'].status = "SUBMITTING"
      BY <1>2, <2>1, <3>1 DEF Label, cur
    <3>3. HandSent'
      BY <3>1, <3>2 DEF HandSent
    <3>4. OnTheWay'
      BY <1>1, <1>5, <1>6, <2>1, <2>4, <3>2 DEF OnTheWay, NetworkFails, Failing
    <3> QED
      BY <1>3, <3>3, <3>4 DEF Way
  <2> QED
    BY <1>1, <1>8, <2>2, <2>3, <2>4 DEF Create, NoFault
<1>9. CASE CallCancel
  <2>1. ctl.pc = "cancel" /\ UNCHANGED kill /\ Cancelling /\ ~ctl.sync
    BY <1>1, <1>2, <1>6, <1>9 DEF CallCancel, Trip, HandSent
  <2>2. CASE ctl' = [ctl EXCEPT !.pc = "ack", !.snap = remote'] /\ UNCHANGED trouble
    <3>1. ctl'.pc = "ack" /\ ctl'.cur = ctl.cur
      BY <1>1, <2>2 DEF Call
    <3>2. mem[cur].acked
      BY <2>1 DEF Cancelling, Way, SentOK, IInv, TypeOK, OrderOK
    <3>3. Label' = "ack" /\ mem'[cur'].acked
      BY <1>2, <3>1, <3>2 DEF Label, cur
    <3>4. HandSent'
      BY <3>1, <3>3 DEF HandSent
    <3>5. OnTheWay'
      BY <1>1, <1>5, <1>6, <2>1, <2>2, NothingFailed
    <3> QED
      BY <1>3, <3>4, <3>5 DEF Way
  <2>3. CASE Goto("pend") /\ (UNCHANGED trouble \/ NetworkFails("cancel"))
    <3>1. ctl'.pc = "pend" /\ ctl'.cur = ctl.cur /\ ctl'.sync = ctl.sync
      BY <1>4, <2>3
    <3>2. Label' = "pend" /\ cur' = cur
      BY <3>1 DEF Label, cur
    <3>3. Cancelling'
      BY <1>2, <2>1, <3>2 DEF Cancelling
    <3>4. HandSent'
      BY <2>1, <3>1, <3>2 DEF HandSent
    <3>5. CASE UNCHANGED trouble
      <4>1. OnTheWay'
        BY <1>1, <1>5, <1>6, <2>1, <3>5, NothingFailed
      <4> QED
        BY <1>3, <3>4, <4>1 DEF Way
    <3>6. CASE NetworkFails("cancel")
      <4>1. OnTheWay'
        BY <1>1, <1>5, <1>6, <2>1, <3>2, <3>3, <3>6 DEF OnTheWay, NetworkFails, Failing
      <4> QED
        BY <1>3, <3>4, <4>1 DEF Way
    <3> QED
      BY <2>3, <3>5, <3>6
  <2> QED
    BY <1>1, <1>9, <2>2, <2>3 DEF CallCancel, NoFault
<1>10. CASE NextOrder
  <2>1. ctl.pc = "after" /\ UNCHANGED <<trouble, kill>>
    BY <1>1, <1>2, <1>10 DEF NextOrder, NoFault, Trip
  <2>2. OnTheWay'
    BY <1>1, <1>5, <1>6, <2>1, NothingFailed
  <2>3. CASE Goto("refresh")
    <3>1. ctl'.pc = "refresh" /\ Label' = "refresh"
      BY <1>4, <2>3 DEF Label
    <3> QED
      BY <1>3, <2>2, <3>1 DEF Way, HandSent
  <2>4. ASSUME NEW o \in ctl.todo, ctl' = [ctl EXCEPT !.pc = "ack", !.cur = o, !.todo = @ \ {o}]
        PROVE  Way'
    <3>1. ctl'.pc = "ack" /\ ctl'.cur = o
      BY <1>1, <2>4 DEF Call
    <3>2. o \in Orders /\ mem[o] # NoRow /\ mem[o].acked
      BY <1>1 DEF IInv, TypeOK, OrderOK, AnswerOK, Call, Way, SentOK
    <3>3. Label' = "ack" /\ mem'[cur'].acked
      BY <1>2, <3>1, <3>2 DEF Label, cur
    <3>4. HandSent'
      BY <3>1, <3>3 DEF HandSent
    <3> QED
      BY <1>3, <2>2, <3>4 DEF Way
  <2> QED
    BY <1>10, <2>3, <2>4 DEF NextOrder
<1>11. CASE Refresh
  <2>1. ctl.pc = "refresh" /\ UNCHANGED kill
    BY <1>1, <1>2, <1>11 DEF Refresh, Trip
  <2>2. CASE ctl' = Idle /\ NoFault
    <3>1. ctl'.pc = "idle" /\ ~ctl'.sync /\ Label' = "idle"
      BY <2>2 DEF Idle, Label
    <3>2. HandSent'
      BY <3>1 DEF HandSent
    <3>3. OnTheWay'
      BY <1>1, <1>5, <1>6, <2>1, <2>2, NothingFailed DEF NoFault
    <3> QED
      BY <1>3, <3>2, <3>3 DEF Way
  <2>3. CASE NetworkFails("read") /\ IF ctl.sync THEN Raise ELSE Goto("pend")
    <3>1. Label' \in {"mark", "pend"} /\ ctl'.pc = Label' /\ (Label' = "pend" => ~ctl'.sync)
      <4>1. CASE ctl.sync
        BY <2>3, <4>1 DEF Raise, Idle, Label
      <4>2. CASE ~ctl.sync
        BY <1>4, <2>3, <4>2 DEF Label
      <4> QED
        BY <4>1, <4>2
    <3>2. HandSent'
      BY <3>1 DEF HandSent
    <3>3. OnTheWay'
      BY <1>1, <1>5, <1>6, <2>1, <2>3, <3>1 DEF OnTheWay, NetworkFails, Failing
    <3> QED
      BY <1>3, <3>2, <3>3 DEF Way
  <2> QED
    BY <1>11, <2>2, <2>3 DEF Refresh
<1>12. CASE Trip
  <2>1. ctl'.pc = "idle" /\ ~ctl'.sync /\ Label' = "idle" /\ kill' # {}
    BY <1>12 DEF Trip, Trigger, Idle, Label
  <2> QED
    BY <1>3, <2>1 DEF Way, HandSent, OnTheWay
<1> QED
  BY <1>7, <1>8, <1>9, <1>10, <1>11, <1>12

\* Marking an order RECONCILE_PENDING on the way to the switch: it succeeds, or it is
\* one that cannot be marked.
LEMMA MarkingOnTheWay ==
    ASSUME IInv, Way, ctl.pc \in {"lost", "pend", "mark"},
           NEW o \in Orders, mem[o] # NoRow, mem[o].status \notin Settled,
           ctl.pc # "mark" => o = cur,
           NEW next, next = "trip" \/ (next = "mark" /\ ctl.pc = "mark"),
           Transition(o, To(o, "RECONCILE_PENDING"), next, "tick"), UNCHANGED <<known, kill>>
    PROVE  Way'
<1>1. Label = ctl.pc /\ Kept = trouble /\ ctl \in Call /\ SentOK(o) /\ HandSent /\ OnTheWay
  BY DEF Label, Kept, IInv, TypeOK, Call, Way
<1>2. mem[o] \in Row /\ clock[o] \in {"behind", "ahead", "naive"}
  BY DEF IInv, TypeOK
<1>3. To(o, "RECONCILE_PENDING").status = "RECONCILE_PENDING" /\ "RECONCILE_PENDING" \in OrderStatus
  BY <1>2 DEF To, Row, OrderStatus
<1>4. CASE "RECONCILE_PENDING" \in ALLOWED_TRANSITIONS[mem[o].status] /\ CanStamp(o, "tick")
  <2>1. mem[o].status # "PLANNED"
    BY <1>4 DEF ALLOWED_TRANSITIONS, OrderStatus
  <2>2. (\A q \in Orders : SentOK(q)') /\ HandSent'
    BY <1>1, <1>3, <2>1, MoveOnTheWay DEF SentOK
  <2>3. Record(o, To(o, "RECONCILE_PENDING"), next, "tick")
    BY <1>3, <1>4 DEF Transition
  <2>4. CASE ctl' = [ctl EXCEPT !.pc = "upsert", !.then = next, !.cur = o] /\ trouble' = trouble
    <3>1. Label' = next
      BY <1>1, <2>4 DEF Call, Label
    <3>2. OnTheWay'
      BY <1>1, <2>4, <3>1 DEF OnTheWay
    <3> QED
      BY <2>2, <3>2 DEF Way
  <2>5. CASE StoreFails
    <3>1. OnTheWay'
      BY <2>5 DEF StoreFails, OnTheWay
    <3> QED
      BY <2>2, <3>1 DEF Way
  <2> QED
    BY <1>1, <2>3, <2>4, <2>5 DEF Record
<1>5. CASE ~("RECONCILE_PENDING" \in ALLOWED_TRANSITIONS[mem[o].status] /\ CanStamp(o, "tick"))
  <2>1. Raise /\ NoFault /\ UNCHANGED <<rows, mem, clock>>
    BY <1>3, <1>5 DEF Transition, storeVars
  <2>2. trouble' = trouble /\ HandSent' /\ ctl'.pc \in {"idle", "mark"} /\ Label' = ctl'.pc
        /\ (~ctl.sync => ctl'.pc = "idle")
    BY <1>1, <2>1, RaisedHand DEF NoFault
  <2>3. Unmarkable(o)'
    BY <1>5, <2>1 DEF Unmarkable, CanStamp
  <2>4. ~("store" \notin trouble /\ kill = {} /\ "create" \in trouble)
    <3> SUFFICES ASSUME "store" \notin trouble, kill = {}, "create" \in trouble PROVE FALSE
      OBVIOUS
    <3>1. o = cur /\ mem[o].status = "SUBMITTING"
      BY <1>1 DEF OnTheWay, HandSent
    <3>2. clock[o] = "behind"
      BY <1>1, <3>1 DEF SentOK, NotSent
    <3> QED
      BY <1>5, <3>1, <3>2 DEF CanStamp, ALLOWED_TRANSITIONS, OrderStatus
  <2>5. "store" \notin trouble /\ kill = {} /\ "cancel" \in trouble =>
            ~ctl.sync /\ o \in known /\ clock[o] = "naive"
    <3> SUFFICES ASSUME "store" \notin trouble, kill = {}, "cancel" \in trouble
                 PROVE  ~ctl.sync /\ o \in known /\ clock[o] = "naive"
      OBVIOUS
    <3>1. ctl.pc = "pend" /\ o = cur /\ Cancelling
      BY <1>1 DEF OnTheWay
    <3>2. o \in known /\ mem[o].status = "CANCEL_REQUESTED" /\ ~ctl.sync
      BY <1>1, <3>1 DEF Cancelling, HandSent
    <3>3. "RECONCILE_PENDING" \in ALLOWED_TRANSITIONS["CANCEL_REQUESTED"]
      BY DEF ALLOWED_TRANSITIONS, OrderStatus
    <3> QED
      BY <1>1, <1>2, <1>5, <3>2, <3>3 DEF SentOK, CanStamp
  <2>6. OnTheWay'
    BY <2>1, <2>2, <2>3, <2>4, <2>5 DEF OnTheWay
  <2> QED
    BY <2>1, <2>2, <2>6, OrdersStay DEF Way
<1> QED
  BY <1>4, <1>5

LEMMA MarkOnTheWay ==
    ASSUME IInv, Way, Lost \/ Pend \/ MarkAllOpen PROVE Way'
<1>1. /\ Label = ctl.pc /\ Kept = trouble /\ ctl \in Call /\ ctl.pc \in {"lost", "pend", "mark"}
      /\ UNCHANGED <<known, kill>> /\ HandSent /\ OnTheWay
  BY DEF Lost, Pend, MarkAllOpen, Label, Kept, IInv, TypeOK, Call, Way
<1>2. ASSUME Goto("trip"), NoFault, UNCHANGED <<storeVars, mem, clock>> PROVE Way'
  <2>1. ctl'.pc = "trip" /\ Label' = "trip"
    BY <1>1, <1>2 DEF Goto, Call, Label
  <2>2. HandSent'
    BY <2>1 DEF HandSent
  <2>3. OnTheWay'
    BY <1>1, <1>2, <2>1 DEF OnTheWay, NoFault
  <2> QED
    BY <1>1, <1>2, <2>2, <2>3, OrdersStay DEF Way, storeVars
<1>3. CASE Lost \/ Pend
  <2>1. ctl.pc \in Handling \ {"upsert"} /\ ctl.pc \in {"lost", "pend"}
    BY <1>3 DEF Lost, Pend, Handling
  <2>2. cur \in Orders /\ mem[cur] # NoRow
    BY <2>1, HandFacts
  <2>3. CASE Lost
    <3>1. mem[cur].status = "SUBMITTING"
      BY <1>1, <2>3 DEF Lost, HandSent
    <3> QED
      BY <1>1, <2>1, <2>2, <2>3, <3>1, MarkingOnTheWay DEF Lost, Settled
  <2>4. CASE Pend
    BY <1>1, <1>2, <2>1, <2>2, <2>4, MarkingOnTheWay DEF Pend
  <2> QED
    BY <1>3, <2>3, <2>4
<1>4. CASE MarkAllOpen
  <2>1. ctl.pc = "mark"
    BY <1>4 DEF MarkAllOpen
  <2>2. CASE Unsortable /\ Raise /\ NoFault /\ UNCHANGED <<storeVars, mem, clock>>
    <3>1. Unsortable' /\ trouble' = trouble
      BY <1>1, <2>2 DEF Unsortable, NoFault
    <3>2. HandSent' /\ ctl'.pc \in {"idle", "mark"} /\ Label' = ctl'.pc
      BY <2>2, RaisedHand
    <3>3. OnTheWay'
      BY <1>1, <2>1, <3>1, <3>2 DEF OnTheWay
    <3> QED
      BY <1>1, <2>2, <3>2, <3>3, OrdersStay DEF Way, storeVars
  <2>3. ASSUME NEW o \in OpenInMemory, Transition(o, To(o, "RECONCILE_PENDING"), "mark", "tick")
        PROVE  Way'
    <3>1. o \in Orders /\ mem[o] # NoRow /\ mem[o].status \notin Settled
      BY DEF OpenInMemory, Marked, Settled
    <3> QED
      BY <1>1, <2>1, <2>3, <3>1, MarkingOnTheWay
  <2> QED
    BY <1>2, <1>4, <2>2, <2>3 DEF MarkAllOpen
<1> QED
  BY <1>3, <1>4

LEMMA WayStep ==
    ASSUME IInv, [Next]_vars, Way PROVE Way'
<1>1. CASE Exchange \/ UNCHANGED vars
  <2>1. UNCHANGED <<rows, mem, clock, known, kill, ctl, trouble>>
    BY <1>1 DEF Exchange, Execute, CancelAtExchange, vars, memVars, storeVars
  <2>2. Label' = Label /\ cur' = cur /\ Cancelling' = Cancelling
    BY <2>1 DEF Label, cur, Cancelling
  <2>3. HandSent'
    BY <2>1, <2>2 DEF Way, HandSent
  <2>4. OnTheWay'
    BY <2>1, <2>2 DEF Way, OnTheWay, Unsortable, Unmarkable, CanStamp
  <2> QED
    BY <2>1, <2>3, <2>4, OrdersStay DEF Way
<1>2. CASE Crash
  <2>1. /\ mem' = [o \in Orders |-> NoRow] /\ known' = {} /\ UNCHANGED rows
        /\ clock' = [o \in Orders |-> "behind"] /\ trouble' = {}
        /\ ctl'.pc = "down" /\ Label' = "down"
    BY <1>2 DEF Crash, storeVars, Idle, Label
  <2>2. \A o \in Orders : SentOK(o)'
    BY <2>1 DEF Way, SentOK
  <2>3. HandSent' /\ OnTheWay'
    BY <2>1 DEF HandSent, OnTheWay
  <2> QED
    BY <2>2, <2>3 DEF Way
<1>3. CASE Restart
  <2>1. /\ UNCHANGED rows /\ BackFrom(rows) /\ trouble' = {}
        /\ ctl'.pc = "idle" /\ ~ctl'.sync /\ Label' = "idle"
    BY <1>3 DEF Restart, storeVars, Idle, Label
  <2> DEFINE back == {o \in Orders : rows[o] # NoRow /\ rows[o].acked}
  <2>2. /\ mem' = [o \in Orders |-> IF o \in back THEN rows[o] ELSE NoRow]
        /\ known' = back
        /\ \/ clock' = [o \in Orders |-> "behind"]
           \/ clock' = [o \in Orders |-> IF o \in back THEN "naive" ELSE "behind"]
    BY <2>1 DEF BackFrom
  <2>3. ASSUME NEW o \in Orders PROVE SentOK(o)'
    <3>1. SentOK(o)
      BY DEF Way
    <3>2. CASE o \in back
      <4>1. mem'[o] = rows[o] /\ rows[o] # NoRow /\ rows[o].acked /\ clock'[o] # "ahead"
        BY <2>2, <3>2
      <4> QED
        BY <2>1, <3>1, <4>1 DEF SentOK
    <3>3. CASE o \notin back
      <4>1. mem'[o] = NoRow /\ clock'[o] = "behind"
        BY <2>2, <3>3
      <4> QED
        BY <2>1, <3>1, <4>1 DEF SentOK
    <3> QED
      BY <3>2, <3>3
  <2>4. HandSent' /\ OnTheWay'
    BY <2>1 DEF HandSent, OnTheWay
  <2> QED
    BY <2>3, <2>4 DEF Way
<1> QED
  BY <1>1, <1>2, <1>3, HandOnTheWay, MarkOnTheWay, UpsertOnTheWay, FillOnTheWay,
     CallsOnTheWay, NetworkOnTheWay DEF Next, Step

LEMMA WayAlways == Spec => []Way
<1>1. Init => Way
  <2>1. Init => ctl.pc = "idle" /\ ~ctl.sync /\ Label = "idle" /\ trouble = {}
    BY DEF Init, Idle, Label
  <2>2. Init => \A o \in Orders : SentOK(o)
    <3> SUFFICES ASSUME Init, NEW o \in Orders PROVE SentOK(o)
      OBVIOUS
    <3>1. /\ rows = [q \in Orders |-> NoRow] /\ mem = [q \in Orders |-> NoRow]
          /\ clock = [q \in Orders |-> "behind"]
      BY DEF Init
    <3> QED
      BY <3>1 DEF SentOK
  <2> QED
    BY <2>1, <2>2 DEF Way, HandSent, OnTheWay
<1>2. IInv /\ Way /\ [Next]_vars => Way'
  BY WayStep
<1> QED
  BY <1>1, <1>2, Invariant, PTL DEF Spec

\* A call in which the network failed returns with the switch active, or for one of
\* the reasons the property names: on the way from the failure to KillSwitch.trigger
\* every order is marked before the switch is set, so what stops it is an order that
\* cannot be, and nothing else does as long as the call's writes succeed.
THEOREM FailsClosed == Spec => []NetworkFailureTrips
<1>1. Way => NetworkFailureTrips
  <2> SUFFICES ASSUME Way, ctl.pc = "idle", "store" \notin trouble, kill = {}
               PROVE  /\ "create" \notin trouble
                      /\ "cancel" \in trouble => \E o \in known : clock[o] = "naive"
                      /\ "read" \in trouble => Unsortable \/ \E o \in Orders : Unmarkable(o)
    BY DEF NetworkFailureTrips
  <2>1. Label = "idle"
    BY DEF Label
  <2> QED
    BY <2>1 DEF Way, OnTheWay
<1> QED
  BY <1>1, WayAlways, PTL

-----------------------------------------------------------------------------
(***************************************************************************)
(* Calls that raise half-way.                                              *)
(***************************************************************************)

\* The exchange holds an order that memory shows as not sent: only the one in hand,
\* from create_order to what is made of its answer.
Hidden(o) == Placed(o) /\ mem[o] # NoRow /\ mem[o].status \in UnsentStatuses
Answering(o) ==
    o = cur /\ ctl.pc \in {"ack", "refused", "lost"} /\ mem[o].status = "SUBMITTING"
SentInv == \A o \in Orders : Hidden(o) => Answering(o)

\* Whatever create_order came back with, the order is SUBMITTING no longer after it.
LEMMA AnswerUnhides ==
    ASSUME IInv, Way, NEW o \in Orders, Hidden(o), Answering(o), Acknowledge \/ Refused \/ Lost
    PROVE  ~Hidden(o)'
<1>1. o = cur /\ mem \in [Orders -> Row \cup {NoRow}] /\ mem[o] \in Row /\ mem[o].status = "SUBMITTING"
  BY DEF Hidden, Answering, IInv, TypeOK
<1>2. ~mem[o].acked /\ clock[o] = "behind"
  BY <1>1 DEF Hidden, Way, SentOK, NotSent
<1>3. PICK p \in Row, next \in {"work", "idle", "trip"}, at \in {"tick", "snapshot"} :
        /\ Transition(o, p, next, at)
        /\ p.status \in {"ACKNOWLEDGED", "BROKER_REJECTED", "RECONCILE_PENDING"}
  <2>1. CASE Acknowledge
    <3>1. [To(o, "ACKNOWLEDGED") EXCEPT !.acked = TRUE] =
            [mem[o] EXCEPT !.status = "ACKNOWLEDGED", !.acked = TRUE]
      BY <1>1 DEF To, Row
    <3>2. /\ [To(o, "ACKNOWLEDGED") EXCEPT !.acked = TRUE] \in Row
          /\ [To(o, "ACKNOWLEDGED") EXCEPT !.acked = TRUE].status = "ACKNOWLEDGED"
      BY <1>1, <3>1 DEF Row, OrderStatus
    <3> QED
      BY <1>1, <1>2, <2>1, <3>2 DEF Acknowledge
  <2>2. CASE Refused
    <3>1. To(o, "BROKER_REJECTED") \in Row /\ To(o, "BROKER_REJECTED").status = "BROKER_REJECTED"
      BY <1>1 DEF To, Row, OrderStatus
    <3> QED
      BY <1>1, <2>2, <3>1 DEF Refused
  <2>3. CASE Lost
    <3>1. To(o, "RECONCILE_PENDING") \in Row /\ To(o, "RECONCILE_PENDING").status = "RECONCILE_PENDING"
      BY <1>1 DEF To, Row, OrderStatus
    <3> QED
      BY <1>1, <2>3, <3>1 DEF Lost
  <2> QED
    BY <2>1, <2>2, <2>3
<1>4. p.status \in ALLOWED_TRANSITIONS[mem[o].status] /\ CanStamp(o, at)
  BY <1>1, <1>2, <1>3 DEF CanStamp, ALLOWED_TRANSITIONS, OrderStatus
<1>5. mem'[o] = p
  BY <1>1, <1>3, <1>4 DEF Transition, Record
<1> QED
  BY <1>3, <1>5 DEF Hidden, UnsentStatuses

\* An order the exchange holds is not put back to a status from before it was sent.
LEMMA StaysSeen ==
    ASSUME IInv, Way, [Next]_vars, NEW o \in Orders, Placed(o), ~Hidden(o)
    PROVE  ~Hidden(o)'
<1>1. /\ mem \in [Orders -> Row \cup {NoRow}] /\ rows \in [Orders -> Row \cup {NoRow}]
      /\ rows[o] # NoRow /\ SentOK(o)
  BY DEF IInv, TypeOK, OrderOK, Way
<1>2. mem[o] # NoRow => mem[o].status \notin UnsentStatuses
  BY DEF Hidden
<1>3. CASE UNCHANGED mem
  BY <1>2, <1>3 DEF Hidden
<1>4. ASSUME NEW q \in Orders, NEW p \in Row, Logs(q, p) PROVE ~Hidden(o)'
  <2>1. mem' = [mem EXCEPT ![q] = p] /\ (Begins(q, p) \/ Moves(q, p))
    BY <1>4 DEF Logs
  <2>2. CASE q # o
    BY <1>1, <1>2, <2>1, <2>2 DEF Hidden
  <2>3. CASE q = o
    <3>1. Moves(o, p)
      BY <1>1, <2>1, <2>3 DEF Begins
    <3>2. mem[o].status \in OrderStatus \ UnsentStatuses /\ p.status \in ALLOWED_TRANSITIONS[mem[o].status]
      BY <1>1, <1>2, <3>1 DEF Moves, Row
    <3>3. p.status \notin UnsentStatuses
      BY <3>2 DEF ALLOWED_TRANSITIONS, OrderStatus, UnsentStatuses
    <3> QED
      BY <1>1, <2>1, <2>3, <3>3 DEF Hidden
  <2> QED
    BY <2>2, <2>3
<1>5. CASE Fills
  <2>1. mem' = [mem EXCEPT ![cur].filled = ctl.snap[cur].executed] /\ ctl.pc = "fill"
    BY <1>5 DEF Fills, RecordFill
  <2>2. cur \in Orders /\ mem[cur] \in Row
    BY <2>1, HandFacts DEF Handling, Applying
  <2>3. CASE o = cur
    <3>1. mem[o] \in Row /\ mem'[o].status = mem[o].status
      BY <1>1, <2>1, <2>2, <2>3 DEF Row
    <3> QED
      BY <1>2, <3>1, NullAssumption DEF Hidden
  <2>4. CASE o # cur
    BY <1>1, <1>2, <2>1, <2>4 DEF Hidden
  <2> QED
    BY <2>3, <2>4
<1>6. CASE Crash
  BY <1>6 DEF Crash, Hidden
<1>7. CASE Restart
  <2>1. mem'[o] = NoRow \/ (mem'[o] = rows[o] /\ rows[o].acked)
    BY <1>7 DEF Restart, BackFrom
  <2> QED
    BY <1>1, <2>1 DEF Hidden, SentOK, NotSent, UnsentStatuses
<1>8. Quiet \/ Upsert => UNCHANGED mem
  BY DEF Quiet, Upsert, memVars
<1> QED
  BY <1>3, <1>4, <1>5, <1>6, <1>7, <1>8, Kinds

\* create_order is called for an order that is SUBMITTING, and its answer comes next.
LEMMA CreateAnswers ==
    ASSUME IInv, Way, Create, NEW o \in Orders, ~Placed(o), Placed(o)'
    PROVE  Answering(o)'
<1>1. ctl \in Call /\ ctl.pc = "create" /\ UNCHANGED mem /\ remote \in [Orders -> Remote \cup {NoRemote}]
  BY DEF Create, IInv, TypeOK, Call, memVars
<1>2. mem[cur].status = "SUBMITTING"
  BY <1>1 DEF Way, HandSent, Label
<1>3. remote' # remote
  BY DEF Placed
<1>4. \E executed \in Nat : Place(executed)
  BY <1>1, <1>3, LimitInRange DEF Create
<1>5. o = cur
  BY <1>1, <1>4 DEF Place, Placed
<1>6. ctl'.pc \in {"ack", "refused", "lost"} /\ ctl'.cur = ctl.cur
  BY <1>1 DEF Create, Goto, Call
<1> QED
  BY <1>1, <1>2, <1>5, <1>6 DEF Answering, cur

LEMMA SentStep ==
    ASSUME IInv, Way, [Next]_vars, SentInv PROVE SentInv'
<1> SUFFICES ASSUME NEW o \in Orders, Hidden(o)' PROVE Answering(o)'
  BY DEF SentInv
<1>1. CASE ~Placed(o)
  <2>1. Create /\ Placed(o)'
    BY <1>1, OnlyCreatePlaces DEF Hidden
  <2> QED
    BY <1>1, <2>1, CreateAnswers
<1>2. CASE Placed(o)
  <2>1. Hidden(o) /\ Answering(o)
    BY <1>2, StaysSeen DEF SentInv
  <2>2. CASE Acknowledge \/ Refused \/ Lost
    BY <2>1, <2>2, AnswerUnhides
  <2>3. CASE Crash
    BY <2>3 DEF Crash, Hidden
  <2>4. CASE Exchange \/ UNCHANGED vars
    <3>1. UNCHANGED <<mem, ctl>>
      BY <2>4 DEF Exchange, Execute, CancelAtExchange, vars, memVars
    <3> QED
      BY <2>1, <3>1 DEF Answering, cur
  <2>5. ctl.pc \in {"ack", "refused", "lost"}
    BY <2>1 DEF Answering
  <2>6. ~(\E i \in Intents : Submit(i) \/ SubmitDuplicate(i)) /\ ~(\E q \in Orders : Cancel(q))
    BY <2>5 DEF Submit, SubmitDuplicate, Cancel
  <2>7. ~(Sync \/ GetPortfolioState \/ Reset \/ Restart \/ Upsert \/ Trip)
    BY <2>5 DEF Sync, GetPortfolioState, Reset, Restart, Upsert, Trip
  <2>8. ~(Check \/ Approved \/ BuildPayload \/ Unbuildable \/ Create \/ Pend \/ MarkAllOpen \/ CallCancel)
    BY <2>5 DEF Check, Approved, BuildPayload, Unbuildable, Create, Pend, MarkAllOpen, CallCancel
  <2>9. ~(Work \/ SyncFillDelta \/ Settle \/ NextOrder \/ Refresh)
    BY <2>5 DEF Work, SyncFillDelta, Settle, NextOrder, Refresh
  <2> QED
    BY <2>2, <2>3, <2>4, <2>6, <2>7, <2>8, <2>9 DEF Next, Step
<1> QED
  BY <1>1, <1>2

\* However a call ends, the orders it leaves PLANNED, APPROVED or SUBMITTING in memory
\* were never sent: create_order is the last thing before an answer, and every answer,
\* a failure included, moves the order on in memory before anything else can raise.
THEOREM InterruptedIsUnsent == Spec => []InterruptedWasUnsent
<1>1. Init => SentInv
  BY DEF Init, SentInv, Hidden, Placed
<1>2. IInv /\ Way /\ [Next]_vars /\ SentInv => SentInv'
  BY SentStep
<1>3. SentInv => InterruptedWasUnsent
  BY DEF SentInv, Hidden, Answering, InterruptedWasUnsent
<1> QED
  BY <1>1, <1>2, <1>3, Invariant, WayAlways, PTL DEF Spec
=============================================================================
