---------------------------- MODULE ControlsProofs ----------------------------
(***************************************************************************)
(* The kill switch keeps its promises in the composition, whatever orders,  *)
(* account, market data and reconciliations do around it; and a match of    *)
(* the reconciler means that the process knows what the broker did.         *)
(***************************************************************************)
EXTENDS Controls, KillSwitchProofs, SequenceTheorems, SumTheorems

\* Every step of the composition is, for the kill switch, one of its own or a store
\* failure elsewhere.
LEMMA StepIsKillStep == [Next]_vars => KillStep
<1> SUFFICES ASSUME [Next]_vars PROVE KillStep
  OBVIOUS
<1>1. CASE \E o \in Orders : Submit(o) \/ Sync(o) \/ PlaceByHand(o) \/ Execute(o) \/ Bust(o)
  BY <1>1 DEF Submit, Sync, PlaceByHand, Execute, Bust, KillStep
<1>2. CASE \E move \in Moves : Move(move)
  BY <1>2 DEF Move, KillStep
<1>3. CASE \E reason \in Reasons : Evaluate(reason)
  BY <1>3 DEF Evaluate, KillStep, KillNext
<1>4. CASE Reconcile
  BY <1>4 DEF Reconcile, KillStep, killVars
<1>5. CASE evaluate_reconciliation
  <2>1. "reconciliation_failure" \in Reasons
    BY ControlsAssumption
  <2> QED
    BY <1>5, <2>1 DEF evaluate_reconciliation, KillStep, KillNext
<1>6. CASE Reset \/ ClearNext \/ FinishReset \/ Die \/ Start \/ StartUnread
  BY <1>6 DEF Die, KillStep, KillNext
<1>7. CASE UNCHANGED vars
  BY <1>7 DEF vars, KillStep
<1> QED
  BY <1>1, <1>2, <1>3, <1>4, <1>5, <1>6, <1>7 DEF Next

\* The strengthened invariant of the kill switch, in the composition: its types,
\* events once in the history, what reset has stored so far, one active row per
\* reason.  (kill_switch.py, wiring.py.)
THEOREM KillInvariant == Spec => []KillInv
<1>1. Init => KillInv
  BY KillInitInv DEF Init
<1>2. KillInv /\ [Next]_vars => KillInv'
  BY StepIsKillStep, KillStepKeeps
<1> QED
  BY <1>1, <1>2, PTL DEF Spec

\* Memory and store agree on what is active, through crashes and resets that fail
\* half-way, for any number of reasons, events, times and faults.  (trigger, reset,
\* _hydrate_from_store.)
THEOREM MemoryFollowsStore == Spec => []StoreAndMemoryAgree
BY KillInvariant, KillInvImplies, PTL

\* Nothing but the death of the process or a reset that stored everything lifts an
\* active reason.  (reset.)
THEOREM OnlyResetLifts == Spec => LiftedOnlyByReset
<1>1. KillInv /\ [Next]_vars => [Lift]_killVars
  BY StepIsKillStep, KillStepLifts
<1> QED
  BY <1>1, KillInvariant, PTL DEF Spec, LiftedOnlyByReset, Lift

-----------------------------------------------------------------------------
(* The two sides: their types, and what the steps make of them.             *)

Typed ==
    /\ IsSide(local) /\ IsSide(account)
    /\ recent \in Seq(Orders)
    /\ result \in {"MATCHED", "MISMATCH", NoResult}
    /\ latest \in {"MATCHED", "MISMATCH", NoResult}
    /\ outside \in [cash : Int, positions : [Symbols -> Int]]

LEMMA TermsTypes ==
    ASSUME NEW o \in Orders
    PROVE  /\ Terms[o] \in Range(Terms) /\ Terms[o].symbol \in Symbols
           /\ Terms[o].side \in {"BUY", "SELL"}
           /\ Terms[o].quantity \in Nat \ {0} /\ Terms[o].price \in Nat \ {0}
BY ControlsAssumption DEF Range

\* Units of o as the books count them: bought, or sold.
Signed(o, n) == IF Terms[o].side = "BUY" THEN n ELSE -n

LEMMA BookedFields ==
    ASSUME NEW side, IsSide(side), NEW o \in Orders, NEW n \in Int
    PROVE  /\ IsSide(Booked(side, o, n))
           /\ Booked(side, o, n).cash = side.cash - Signed(o, n) * Terms[o].price
           /\ Booked(side, o, n).positions =
                [side.positions EXCEPT ![Terms[o].symbol] = @ + Signed(o, n)]
           /\ Booked(side, o, n).orders = side.orders
           /\ Booked(side, o, n).fills = side.fills
<1> DEFINE b == Signed(o, n)
           c == side.cash - b * Terms[o].price
           p == [side.positions EXCEPT ![Terms[o].symbol] = @ + b]
<1>1. b \in Int
  BY DEF Signed
<1>2. c \in Int /\ p \in [Symbols -> Int]
  BY <1>1, TermsTypes DEF IsSide
<1>3. Booked(side, o, n) = [side EXCEPT !.cash = c, !.positions = p]
  BY DEF Booked, Signed, IsSide
<1>4. c = side.cash - Signed(o, n) * Terms[o].price
      /\ p = [side.positions EXCEPT ![Terms[o].symbol] = @ + Signed(o, n)]
  OBVIOUS
<1> HIDE DEF b, c, p
<1>5. IsSide([side EXCEPT !.cash = c, !.positions = p])
  BY <1>2 DEF IsSide
<1> QED
  BY <1>2, <1>3, <1>4, <1>5 DEF IsSide

LEMMA FillsFields ==
    ASSUME NEW side, IsSide(side), NEW F \in SUBSET FillKey
    PROVE  /\ IsSide([side EXCEPT !.fills = F])
           /\ [side EXCEPT !.fills = F].cash = side.cash
           /\ [side EXCEPT !.fills = F].positions = side.positions
           /\ [side EXCEPT !.fills = F].orders = side.orders
           /\ [side EXCEPT !.fills = F].fills = F
BY DEF IsSide

LEMMA FillTypes ==
    ASSUME NEW o \in Orders, NEW k \in Nat, NEW n \in Nat \ {0}
    PROVE  /\ Fill(o, k, n) \in FillKey
           /\ Bought(Fill(o, k, n)) = Signed(o, n)
           /\ Fill(o, k, n).terms = Terms[o]
           /\ Fill(o, k, n).id = <<o, k>>
           /\ Fill(o, k, n).quantity = n
BY TermsTypes DEF Fill, FillKey, Bought, Signed

\* What the fills cost, sales counting against.
Spent(fills) == SumFunction([f \in fills |-> Bought(f) * f.terms.price])

LEMMA FillIsTrade ==
    ASSUME NEW f \in FillKey
    PROVE  Bought(f) \in Int /\ f.terms.price \in Nat \ {0} /\ Bought(f) * f.terms.price \in Int
<1>1. PICK o \in Orders : f.terms = Terms[o]
  BY ControlsAssumption DEF FillKey, Range
<1>2. f.quantity \in Nat
  BY DEF FillKey
<1>3. Bought(f) \in Int /\ f.terms.price \in Nat \ {0}
  BY <1>1, <1>2, TermsTypes DEF Bought
<1> QED
  BY <1>3

\* One fill more.
LEMMA SumsAdd ==
    ASSUME NEW F \in SUBSET FillKey, IsFiniteSet(F), NEW e \in FillKey, e \notin F, NEW s
    PROVE  /\ Traded(F \cup {e}, s) = Traded(F, s) + (IF e.terms.symbol = s THEN Bought(e) ELSE 0)
           /\ Spent(F \cup {e}) = Spent(F) + Bought(e) * e.terms.price
           /\ Traded(F, s) \in Int /\ Spent(F) \in Int
<1>1. \A f \in F \cup {e} : Bought(f) \in Int /\ Bought(f) * f.terms.price \in Int
  BY FillIsTrade
<1> DEFINE G == F \cup {e}
           t1 == [f \in F |-> IF f.terms.symbol = s THEN Bought(f) ELSE 0]
           t2 == [f \in G |-> IF f.terms.symbol = s THEN Bought(f) ELSE 0]
           c1 == [f \in F |-> Bought(f) * f.terms.price]
           c2 == [f \in G |-> Bought(f) * f.terms.price]
<1>2. DOMAIN t1 = F /\ DOMAIN t2 = F \cup {e} /\ (\A x \in F : t2[x] = t1[x] /\ t1[x] \in Int) /\ t2[e] \in Int
  BY <1>1
<1>3. DOMAIN c1 = F /\ DOMAIN c2 = F \cup {e} /\ (\A x \in F : c2[x] = c1[x] /\ c1[x] \in Int) /\ c2[e] \in Int
  BY <1>1
<1>4. t2[e] = (IF e.terms.symbol = s THEN Bought(e) ELSE 0) /\ c2[e] = Bought(e) * e.terms.price
  OBVIOUS
<1>5. Traded(F, s) = SumFunction(t1) /\ Traded(F \cup {e}, s) = SumFunction(t2)
      /\ Spent(F) = SumFunction(c1) /\ Spent(F \cup {e}) = SumFunction(c2)
  BY DEF Traded, Spent
<1> HIDE DEF t1, t2, c1, c2
<1>6. SumFunction(t2) = SumFunction(t1) + t2[e] /\ SumFunction(t1) \in Int
  BY <1>2, SumJoin
<1>7. SumFunction(c2) = SumFunction(c1) + c2[e] /\ SumFunction(c1) \in Int
  BY <1>3, SumJoin
<1> QED
  BY <1>4, <1>5, <1>6, <1>7

LEMMA SumsOfNone == \A s : Traded({}, s) = 0 /\ Spent({}) = 0
<1>1. \A s : DOMAIN [f \in {} |-> IF f.terms.symbol = s THEN Bought(f) ELSE 0] = {}
             /\ DOMAIN [f \in {} |-> Bought(f) * f.terms.price] = {}
  OBVIOUS
<1> QED
  BY <1>1, SumOfNone DEF Traded, Spent, SumFunction

LEMMA SumsAreTyped ==
    ASSUME NEW F \in SUBSET FillKey, IsFiniteSet(F), NEW s
    PROVE  Traded(F, s) \in Int /\ Spent(F) \in Int
<1> DEFINE t == [f \in F |-> IF f.terms.symbol = s THEN Bought(f) ELSE 0]
           c == [f \in F |-> Bought(f) * f.terms.price]
<1>1. DOMAIN t = F /\ DOMAIN c = F /\ \A f \in F : t[f] \in Int /\ c[f] \in Int
  BY FillIsTrade
<1>2. Traded(F, s) = SumFunctionOnSet(t, DOMAIN t) /\ Spent(F) = SumFunctionOnSet(c, DOMAIN c)
  BY DEF Traded, Spent, SumFunction
<1> HIDE DEF t, c
<1> QED
  BY <1>1, <1>2, SumType

\* Taking an order out of the recent ones leaves a sequence of orders.
LEMMA RecentOrders ==
    ASSUME recent \in Seq(Orders), NEW o \in Orders, Touched(o)
    PROVE  recent' \in Seq(Orders)
<1>1. RemoveFirst(recent, o) \in Seq(Orders)
  <2>1. CASE ~ \E i \in 1 .. Len(recent) : recent[i] = o
    BY <2>1 DEF RemoveFirst
  <2>2. CASE \E i \in 1 .. Len(recent) : recent[i] = o
    <3> DEFINE I == {i \in 1 .. Len(recent) : recent[i] = o}
               at == Min(I)
    <3>1. I \subseteq Nat /\ I # {} /\ Len(recent) \in Nat
      BY <2>2
    <3>2. PICK i \in I : \A k \in I : ~ <<k, i>> \in OpToRel(<, Nat)
      BY <3>1, NatLessThanWellFounded, WFMin
    <3>3. \A k \in I : i <= k
      <4> SUFFICES ASSUME NEW k \in I, ~ i <= k PROVE FALSE
        OBVIOUS
      <4>1. k \in Nat /\ i \in Nat
        BY <3>1
      <4>2. k < i
        BY <4>1
      <4>3. <<k, i>> \in OpToRel(<, Nat)
        BY <4>1, <4>2 DEF OpToRel
      <4> QED
        BY <3>2, <4>3
    <3>4. at \in I
      <4>1. \E x \in I : \A k \in I : x <= k
        BY <3>3
      <4> HIDE DEF I
      <4> QED
        BY <4>1 DEF Min
    <3>5. at \in 1 .. Len(recent)
      BY <3>4
    <3>6. RemoveFirst(recent, o) = SubSeq(recent, 1, at - 1) \o SubSeq(recent, at + 1, Len(recent))
      BY <2>2 DEF RemoveFirst, RemoveAt, SelectInSeq
    <3> HIDE DEF at, I
    <3>7. SubSeq(recent, 1, at - 1) \in Seq(Orders) /\ SubSeq(recent, at + 1, Len(recent)) \in Seq(Orders)
      BY <3>1, <3>5, SubSeqProperties
    <3> QED
      BY <3>6, <3>7, ConcatProperties
  <2> QED
    BY <2>1, <2>2
<1> QED
  BY <1>1, ConcatProperties DEF Touched

-----------------------------------------------------------------------------
(* The invariant: what either side knows of an order, the fills that stand  *)
(* for what was executed of it, the books that stand for the fills.         *)

StatusOf(o, n) ==
    IF n = 0 THEN "WORKING" ELSE IF n = Terms[o].quantity THEN "FILLED" ELSE "PARTIALLY_FILLED"

Identified(o, x) ==
    x.broker_order_id = o /\ x.terms = Terms[o] /\ x.filled_quantity <= Terms[o].quantity

AccountOrder(o, x) ==
    /\ Identified(o, x)
    /\ \/ x.status = "BUSTED" /\ x.filled_quantity = Terms[o].quantity - 1
       \/ x.status = StatusOf(o, x.filled_quantity)

\* An order of the process whose id is not known: refused, or sent without an answer.
Unidentified(x, statuses) ==
    x.broker_order_id = NoOrder /\ x.filled_quantity = 0 /\ x.status \in statuses

\* As far as the process has seen of it.
Followed(o, x, y) ==
    /\ Identified(o, x)
    /\ x.status = StatusOf(o, x.filled_quantity)
    /\ x.status # "FILLED" => y.status # "BUSTED" /\ x.filled_quantity <= y.filled_quantity

LocalOrder(o, x, ao) ==
    \/ o \notin DOMAIN ao /\ Unidentified(x, {"PRECHECK_REJECTED", "BROKER_REJECTED"})
    \/ o \in DOMAIN ao /\ Unidentified(x, {"RECONCILE_PENDING"})
    \/ o \in DOMAIN ao /\ Followed(o, x, ao[o])

OrdersInv(lo, ao) ==
    /\ \A o \in DOMAIN ao : AccountOrder(o, ao[o])
    /\ \A o \in DOMAIN lo : o \notin ByHand /\ LocalOrder(o, lo[o], ao)
    /\ DOMAIN ao \subseteq ByHand \cup DOMAIN lo

\* The account has a fill for every unit executed.
AccountFills(ao, af) ==
    \A f \in FillKey : f \in af <=>
        \E o \in DOMAIN ao : \E k \in 1 .. ao[o].filled_quantity : f = Fill(o, k, 1)

\* Every unit the process knows of is in one of its fills.
IsFillOf(f, o, filled) == \E k \in 1 .. filled : \E n \in 1 .. k : f = Fill(o, k, n)
Covered(lf, o, filled) ==
    \A j \in 1 .. filled : \E k \in 1 .. filled : \E n \in 1 .. k :
        Fill(o, k, n) \in lf /\ k - n < j /\ j <= k
LocalFills(lo, lf) ==
    /\ \A f \in lf : \E o \in DOMAIN lo : IsFillOf(f, o, lo[o].filled_quantity)
    /\ \A o \in DOMAIN lo : Covered(lf, o, lo[o].filled_quantity)

AccountBooks(side, moved) ==
    /\ IsFiniteSet(side.fills)
    /\ side.cash = StartNav - Spent(side.fills) + moved.cash
    /\ \A s \in Symbols : side.positions[s] = Traded(side.fills, s) + moved.positions[s]

\* What the ledger has beyond its fills: what it refused to give, and was not paid for.
Refused(side, s) == side.positions[s] - Traded(side.fills, s)
Unpaid(side) == StartNav - Spent(side.fills) - side.cash
LocalBooks(side) ==
    /\ IsFiniteSet(side.fills)
    /\ \A s \in Symbols : side.positions[s] >= 0 /\ Refused(side, s) >= 0
    /\ Unpaid(side) >= 0
    /\ Unpaid(side) # 0 <=> \E s \in Symbols : Refused(side, s) # 0
    /\ Unpaid(side) # 0 => \E o \in Orders : Unpaid(side) >= Terms[o].price

TradingInv ==
    /\ OrdersInv(local.orders, account.orders)
    /\ AccountFills(account.orders, account.fills)
    /\ LocalFills(local.orders, local.fills)
    /\ AccountBooks(account, outside)
    /\ LocalBooks(local)
    /\ outside = Flat \/ outside \in Moves

\* How an order is added to those of a side.
Put(orders, o, x) == [k \in DOMAIN orders \cup {o} |-> IF k = o THEN x ELSE orders[k]]

LEMMA PutFields ==
    ASSUME NEW side, IsSide(side), NEW o \in Orders, NEW x \in OrderProjection
    PROVE  /\ IsSide(With(side, o, x))
           /\ With(side, o, x).cash = side.cash
           /\ With(side, o, x).positions = side.positions
           /\ With(side, o, x).fills = side.fills
           /\ With(side, o, x).orders = Put(side.orders, o, x)
<1>1. With(side, o, x) = [side EXCEPT !.orders = Put(side.orders, o, x)]
  BY DEF With, Put
<1>2. DOMAIN Put(side.orders, o, x) \subseteq Orders /\ Range(Put(side.orders, o, x)) \subseteq OrderProjection
  BY DEF Put, IsSide, Range
<1> QED
  BY <1>1, <1>2 DEF IsSide

LEMMA SideTypes ==
    ASSUME NEW side, IsSide(side)
    PROVE  /\ DOMAIN side.orders \subseteq Orders
           /\ \A o \in DOMAIN side.orders :
                /\ side.orders[o] \in OrderProjection
                /\ side.orders[o].filled_quantity \in Nat
                /\ side.orders[o].status \in OrderStatus
           /\ side.fills \in SUBSET FillKey /\ side.cash \in Int
           /\ side.positions \in [Symbols -> Int] /\ \A s \in Symbols : side.positions[s] \in Int
<1>1. \A o \in DOMAIN side.orders : side.orders[o] \in OrderProjection
  BY DEF IsSide, Range
<1> QED
  BY <1>1 DEF IsSide, OrderProjection

-----------------------------------------------------------------------------
(* Orders and fills, step by step.                                         *)

KeysOf(orders) == DOMAIN orders \subseteq Orders /\ \A o \in DOMAIN orders : orders[o] \in OrderProjection

LEMMA SideKeys == ASSUME NEW side, IsSide(side) PROVE KeysOf(side.orders)
BY DEF IsSide, KeysOf, Range

\* A new order changes nothing for the others.
LEMMA NewLocalOrder ==
    ASSUME NEW lo, NEW ao, OrdersInv(lo, ao), NEW o \in Orders, o \notin ByHand, o \notin DOMAIN lo,
           NEW x, LocalOrder(o, x, ao)
    PROVE  OrdersInv(Put(lo, o, x), ao)
<1>1. ASSUME NEW p \in DOMAIN Put(lo, o, x)
      PROVE  p \notin ByHand /\ LocalOrder(p, Put(lo, o, x)[p], ao)
  <2>1. CASE p = o
    BY <2>1 DEF Put
  <2>2. CASE p # o
    BY <2>2 DEF OrdersInv, Put
  <2> QED
    BY <2>1, <2>2
<1> QED
  BY <1>1 DEF OrdersInv, Put

\* The account gets an order, or another state of one: what the process had seen of
\* it is still as far as it got.
LEMMA NewAccountOrder ==
    ASSUME NEW lo, NEW ao, OrdersInv(lo, ao), NEW o \in Orders,
           NEW y, AccountOrder(o, y),
           o \in ByHand \cup DOMAIN lo,
           o \in DOMAIN lo => o \in DOMAIN ao /\ (Followed(o, lo[o], ao[o]) => Followed(o, lo[o], y))
    PROVE  OrdersInv(lo, Put(ao, o, y))
<1>1. ASSUME NEW p \in DOMAIN Put(ao, o, y)
      PROVE  AccountOrder(p, Put(ao, o, y)[p])
  BY DEF OrdersInv, Put
<1>2. ASSUME NEW p \in DOMAIN lo
      PROVE  p \notin ByHand /\ LocalOrder(p, lo[p], Put(ao, o, y))
  <2>0. p \notin ByHand /\ LocalOrder(p, lo[p], ao)
    BY DEF OrdersInv
  <2>1. CASE p = o
    BY <2>0, <2>1 DEF LocalOrder, Put
  <2>2. CASE p # o
    BY <2>0, <2>2 DEF LocalOrder, Put
  <2> QED
    BY <2>0, <2>1, <2>2
<1> QED
  BY <1>1, <1>2 DEF OrdersInv, Put

LEMMA NothingExecutedYet ==
    ASSUME NEW orders, NEW fills, NEW o \in Orders, o \notin DOMAIN orders, NEW x,
           x.filled_quantity = 0
    PROVE  /\ AccountFills(orders, fills) => AccountFills(Put(orders, o, x), fills)
           /\ LocalFills(orders, fills) => LocalFills(Put(orders, o, x), fills)
<1> DEFINE new == Put(orders, o, x)
<1>1. DOMAIN new = DOMAIN orders \cup {o} /\ new[o].filled_quantity = 0
      /\ \A p \in DOMAIN orders : new[p] = orders[p]
  BY DEF Put
<1> HIDE DEF new
<1>2. AccountFills(orders, fills) => AccountFills(new, fills)
  BY <1>1 DEF AccountFills
<1>3. ASSUME LocalFills(orders, fills) PROVE LocalFills(new, fills)
  <2>1. \A f \in fills : \E p \in DOMAIN new : IsFillOf(f, p, new[p].filled_quantity)
    BY <1>1, <1>3 DEF LocalFills
  <2>2. ASSUME NEW p \in DOMAIN new PROVE Covered(fills, p, new[p].filled_quantity)
    <3>1. CASE p = o
      BY <1>1, <3>1 DEF Covered
    <3>2. CASE p # o
      BY <1>1, <1>3, <3>2 DEF LocalFills
    <3> QED
      BY <3>1, <3>2
  <2> QED
    BY <2>1, <2>2 DEF LocalFills
<1> QED
  BY <1>2, <1>3 DEF new

LEMMA OrderTypes ==
    ASSUME NEW o \in Orders, NEW id \in Orders \cup {NoOrder}, NEW status \in OrderStatus, NEW n \in Nat
    PROVE  /\ Order(o, id, status, n) \in OrderProjection
           /\ Order(o, id, status, n).broker_order_id = id
           /\ Order(o, id, status, n).terms = Terms[o]
           /\ Order(o, id, status, n).status = status
           /\ Order(o, id, status, n).filled_quantity = n
BY TermsTypes DEF Order, OrderProjection

LEMMA SubmitKeeps ==
    ASSUME Typed, TradingInv, NEW o \in Orders, Submit(o)
    PROVE  Typed' /\ TradingInv'
<1> DEFINE lo == local.orders
           ao == account.orders
           placed == Order(o, o, "WORKING", 0)
<1> USE DEF OrderStatus
<1>1. /\ o \notin ByHand /\ o \notin DOMAIN lo /\ o \notin DOMAIN ao
      /\ OrdersInv(lo, ao) /\ LocalFills(lo, local.fills) /\ AccountFills(ao, account.fills)
      /\ AccountBooks(account, outside) /\ LocalBooks(local)
      /\ UNCHANGED <<result, latest, outside>> /\ recent' \in Seq(Orders)
      /\ IsSide(local) /\ IsSide(account)
  BY RecentOrders DEF Submit, TradingInv, OrdersInv, Typed
<1>2. /\ placed \in OrderProjection /\ placed.filled_quantity = 0
      /\ AccountOrder(o, placed) /\ Followed(o, placed, placed)
  BY OrderTypes, TermsTypes DEF AccountOrder, Followed, Identified, StatusOf
<1>3. ASSUME NEW status \in {"PRECHECK_REJECTED", "BROKER_REJECTED"},
             local' = With(local, o, Order(o, NoOrder, status, 0)), UNCHANGED account
      PROVE  Typed' /\ TradingInv'
  <2> DEFINE x == Order(o, NoOrder, status, 0)
  <2>1. x \in OrderProjection /\ x.filled_quantity = 0 /\ LocalOrder(o, x, ao)
    <3>1. status \in OrderStatus /\ NoOrder \in Orders \cup {NoOrder} /\ 0 \in Nat
      OBVIOUS
    <3>2. /\ x \in OrderProjection /\ x.broker_order_id = NoOrder /\ x.status = status
          /\ x.filled_quantity = 0
      BY <3>1, OrderTypes
    <3> QED
      BY <1>1, <3>2 DEF LocalOrder, Unidentified
  <2> HIDE DEF x
  <2>2. /\ IsSide(local') /\ local'.cash = local.cash /\ local'.positions = local.positions
        /\ local'.fills = local.fills /\ local'.orders = Put(lo, o, x)
    BY <1>1, <1>3, <2>1, PutFields DEF x
  <2>3. OrdersInv(local'.orders, account'.orders) /\ LocalFills(local'.orders, local'.fills)
    BY <1>1, <1>3, <2>1, <2>2, NewLocalOrder, NothingExecutedYet
  <2>4. LocalBooks(local')
    BY <1>1, <2>2 DEF LocalBooks, Refused, Unpaid
  <2> QED
    BY <1>1, <1>3, <2>2, <2>3, <2>4 DEF Typed, TradingInv
<1>4. ASSUME NEW x \in OrderProjection, x.filled_quantity = 0, LocalOrder(o, x, Put(ao, o, placed)),
             local' = With(local, o, x), account' = With(account, o, placed)
      PROVE  Typed' /\ TradingInv'
  <2> HIDE DEF placed
  <2>1. /\ IsSide(local') /\ local'.cash = local.cash /\ local'.positions = local.positions
        /\ local'.fills = local.fills /\ local'.orders = Put(lo, o, x)
        /\ IsSide(account') /\ account'.cash = account.cash /\ account'.positions = account.positions
        /\ account'.fills = account.fills /\ account'.orders = Put(ao, o, placed)
    BY <1>1, <1>2, <1>4, PutFields
  <2>2. OrdersInv(Put(lo, o, x), Put(ao, o, placed))
    <3>1. ASSUME NEW p \in DOMAIN Put(lo, o, x)
          PROVE  p \notin ByHand /\ LocalOrder(p, Put(lo, o, x)[p], Put(ao, o, placed))
      <4>1. CASE p = o
        BY <1>1, <1>4, <4>1 DEF Put
      <4>2. CASE p # o
        <5>1. p \in DOMAIN lo /\ Put(lo, o, x)[p] = lo[p] /\ p \notin ByHand /\ LocalOrder(p, lo[p], ao)
          BY <1>1, <4>2 DEF OrdersInv, Put
        <5> QED
          BY <4>2, <5>1 DEF LocalOrder, Put
      <4> QED
        BY <4>1, <4>2
    <3>2. ASSUME NEW p \in DOMAIN Put(ao, o, placed)
          PROVE  AccountOrder(p, Put(ao, o, placed)[p])
      BY <1>1, <1>2 DEF OrdersInv, Put
    <3> QED
      BY <1>1, <3>1, <3>2 DEF OrdersInv, Put
  <2>3. LocalFills(local'.orders, local'.fills) /\ AccountFills(account'.orders, account'.fills)
    BY <1>1, <1>2, <1>4, <2>1, NothingExecutedYet
  <2>4. LocalBooks(local') /\ AccountBooks(account', outside')
    BY <1>1, <2>1 DEF LocalBooks, Refused, Unpaid, AccountBooks
  <2> QED
    BY <1>1, <2>1, <2>2, <2>3, <2>4 DEF Typed, TradingInv
<1>5. LocalOrder(o, placed, Put(ao, o, placed))
  BY <1>2 DEF LocalOrder, Put
<1>6. LET x == Order(o, NoOrder, "RECONCILE_PENDING", 0)
      IN  x \in OrderProjection /\ x.filled_quantity = 0 /\ LocalOrder(o, x, Put(ao, o, placed))
  BY OrderTypes DEF LocalOrder, Unidentified, Put
<1> QED
  BY <1>2, <1>3, <1>4, <1>5, <1>6 DEF Submit

\* The process sees of an order what the account has of it.
LEMMA SeenOrder ==
    ASSUME NEW lo, NEW ao, OrdersInv(lo, ao), KeysOf(lo), KeysOf(ao), NEW o \in DOMAIN lo,
           lo[o].broker_order_id = o, lo[o].status \notin ClosedStatuses
    PROVE  /\ o \in DOMAIN ao /\ o \in Orders
           /\ lo[o].filled_quantity \in Nat /\ ao[o].filled_quantity \in Nat
           /\ lo[o].filled_quantity <= ao[o].filled_quantity
           /\ OrdersInv(Put(lo, o, ao[o]), ao)
<1>1. /\ o \in Orders /\ o # NoOrder /\ o \notin ByHand /\ LocalOrder(o, lo[o], ao)
      /\ lo[o].filled_quantity \in Nat
  BY ControlsAssumption DEF OrdersInv, KeysOf, OrderProjection
<1>2. o \in DOMAIN ao /\ Followed(o, lo[o], ao[o])
  BY <1>1 DEF LocalOrder, Unidentified
<1>3. lo[o].status # "FILLED"
  BY DEF ClosedStatuses
<1>4. /\ ao[o].status # "BUSTED" /\ lo[o].filled_quantity <= ao[o].filled_quantity
      /\ AccountOrder(o, ao[o]) /\ ao[o].filled_quantity \in Nat
  BY <1>2, <1>3 DEF Followed, OrdersInv, KeysOf, OrderProjection
<1>5. Followed(o, ao[o], ao[o])
  BY <1>4 DEF Followed, AccountOrder
<1>6. LocalOrder(o, ao[o], ao)
  BY <1>2, <1>5 DEF LocalOrder
<1>7. \A p \in DOMAIN Put(lo, o, ao[o]) : p \notin ByHand /\ LocalOrder(p, Put(lo, o, ao[o])[p], ao)
  BY <1>1, <1>6 DEF OrdersInv, Put
<1> QED
  BY <1>1, <1>2, <1>4, <1>7 DEF OrdersInv, Put

\* One more fill brings the process up to what was executed of an order.
LEMMA NewFill ==
    ASSUME NEW lo, KeysOf(lo), NEW lf, LocalFills(lo, lf), NEW o \in DOMAIN lo,
           NEW x, NEW k \in Nat, x.filled_quantity = k, lo[o].filled_quantity < k,
           NEW n, n = k - lo[o].filled_quantity
    PROVE  LocalFills(Put(lo, o, x), lf \cup {Fill(o, k, n)}) /\ Fill(o, k, n) \notin lf
<1> DEFINE e == Fill(o, k, n)
           old == lo[o].filled_quantity
           new == Put(lo, o, x)
<1>1. old \in Nat /\ n \in 1 .. k /\ k \in 1 .. k /\ k - n = old
  BY DEF KeysOf, OrderProjection
<1>2. /\ DOMAIN new = DOMAIN lo /\ new[o].filled_quantity = k
      /\ \A p \in DOMAIN lo : p # o => new[p] = lo[p]
  BY DEF Put
<1>3. e \notin lf
  <2> SUFFICES ASSUME e \in lf PROVE FALSE
    OBVIOUS
  <2>1. PICK p \in DOMAIN lo : IsFillOf(e, p, lo[p].filled_quantity)
    BY DEF LocalFills
  <2>2. PICK j \in 1 .. lo[p].filled_quantity : \E m \in 1 .. j : e = Fill(p, j, m)
    BY <2>1 DEF IsFillOf
  <2>3. e.id = <<o, k>> /\ e.id = <<p, j>>
    BY <2>2 DEF Fill
  <2> QED
    BY <1>1, <2>2, <2>3
<1> HIDE DEF new
<1>4. ASSUME NEW f \in lf \cup {e}
      PROVE  \E p \in DOMAIN new : IsFillOf(f, p, new[p].filled_quantity)
  <2>1. CASE f = e
    <3>1. IsFillOf(f, o, k)
      BY <1>1, <2>1 DEF IsFillOf
    <3> QED
      BY <1>2, <3>1
  <2>2. CASE f \in lf
    <3>1. PICK p \in DOMAIN lo : IsFillOf(f, p, lo[p].filled_quantity)
      BY <2>2 DEF LocalFills
    <3>2. CASE p = o
      <4>1. 1 .. old \subseteq 1 .. k
        BY <1>1
      <4>2. IsFillOf(f, o, k)
        BY <3>1, <3>2, <4>1 DEF IsFillOf
      <4> QED
        BY <1>2, <4>2
    <3>3. CASE p # o
      BY <1>2, <3>1, <3>3
    <3> QED
      BY <3>2, <3>3
  <2> QED
    BY <2>1, <2>2
<1>5. ASSUME NEW p \in DOMAIN new PROVE Covered(lf \cup {e}, p, new[p].filled_quantity)
  <2>1. Covered(lf, p, lo[p].filled_quantity)
    BY <1>2 DEF LocalFills
  <2>2. CASE p # o
    BY <1>2, <2>1, <2>2 DEF Covered
  <2>3. CASE p = o
    <3>1. Covered(lf \cup {e}, o, k)
      <4> SUFFICES ASSUME NEW j \in 1 .. k
                   PROVE  \E i \in 1 .. k : \E m \in 1 .. i :
                            Fill(o, i, m) \in lf \cup {e} /\ i - m < j /\ j <= i
        BY DEF Covered
      <4>1. CASE j <= old
        <5>1. PICK i \in 1 .. old : \E m \in 1 .. i : Fill(o, i, m) \in lf /\ i - m < j /\ j <= i
          BY <1>1, <2>1, <2>3, <4>1 DEF Covered
        <5>2. i \in 1 .. k
          BY <1>1
        <5> QED
          BY <5>1, <5>2
      <4>2. CASE ~ j <= old
        <5>1. k - n < j /\ j <= k /\ Fill(o, k, n) \in lf \cup {e}
          BY <1>1, <4>2
        <5> QED
          BY <1>1, <5>1
      <4> QED
        BY <4>1, <4>2
    <3> QED
      BY <1>2, <2>3, <3>1
  <2> QED
    BY <2>2, <2>3
<1>6. LocalFills(new, lf \cup {e})
  BY <1>4, <1>5 DEF LocalFills
<1> QED
  BY <1>3, <1>6 DEF new

LEMMA NoNewFill ==
    ASSUME NEW lo, NEW lf, LocalFills(lo, lf), NEW o \in DOMAIN lo,
           NEW x, x.filled_quantity = lo[o].filled_quantity
    PROVE  LocalFills(Put(lo, o, x), lf)
<1>1. /\ DOMAIN Put(lo, o, x) = DOMAIN lo
      /\ \A p \in DOMAIN lo : Put(lo, o, x)[p].filled_quantity = lo[p].filled_quantity
  BY DEF Put
<1> QED
  BY <1>1 DEF LocalFills

\* The ledger takes a fill, or refuses it: then it keeps what it could not give.
LEMMA LedgerKeeps ==
    ASSUME NEW side, IsSide(side), LocalBooks(side), NEW o \in Orders, NEW n \in Nat \ {0},
           NEW e \in FillKey, e \notin side.fills, Bought(e) = Signed(o, n), e.terms = Terms[o],
           NEW new, new = [Ledger(side, o, n) EXCEPT !.fills = @ \cup {e}]
    PROVE  /\ IsSide(new) /\ new.orders = side.orders /\ new.fills = side.fills \cup {e}
           /\ LocalBooks(new)
<1> DEFINE F == side.fills
           G == F \cup {e}
           sym == Terms[o].symbol
           price == Terms[o].price
           b == Signed(o, n)
<1>1. /\ F \in SUBSET FillKey /\ IsFiniteSet(F) /\ G \in SUBSET FillKey /\ IsFiniteSet(G)
      /\ side.cash \in Int /\ side.positions \in [Symbols -> Int]
      /\ sym \in Symbols /\ price \in Nat \ {0} /\ b \in Int
  <2>1. IsFiniteSet(F) /\ F \in SUBSET FillKey
    BY SideTypes DEF LocalBooks
  <2>2. IsFiniteSet(G)
    BY <2>1, FS_AddElement
  <2>3. b \in Int
    BY DEF Signed
  <2> QED
    BY <2>1, <2>2, <2>3, SideTypes, TermsTypes
<1>2. /\ Traded(G, sym) = Traded(F, sym) + b
      /\ \A s \in Symbols : s # sym => Traded(G, s) = Traded(F, s)
      /\ \A s \in Symbols : Traded(F, s) \in Int /\ Traded(G, s) \in Int
      /\ Spent(G) = Spent(F) + b * price /\ Spent(F) \in Int /\ Spent(G) \in Int /\ b * price \in Int
  <2>1. \A s \in Symbols :
            /\ Traded(G, s) = Traded(F, s) + (IF e.terms.symbol = s THEN Bought(e) ELSE 0)
            /\ Traded(F, s) \in Int
    BY <1>1, SumsAdd
  <2>2. Spent(G) = Spent(F) + Bought(e) * e.terms.price /\ Spent(F) \in Int
    BY <1>1, SumsAdd
  <2>3. Bought(e) = b /\ e.terms.symbol = sym /\ e.terms.price = price
    OBVIOUS
  <2>4. b * price \in Int
    BY <1>1
  <2>5. \A s \in Symbols : s # sym => Traded(G, s) = Traded(F, s)
    <3> HIDE DEF G, F, b, sym
    <3> QED
      BY <2>1, <2>3
  <2> DEFINE cost == b * price
  <2>6. Spent(G) = Spent(F) + cost /\ cost \in Int
    BY <2>2, <2>3, <2>4
  <2> HIDE DEF G, F, b, cost
  <2>7. Spent(G) \in Int
    BY <2>2, <2>6
  <2>8. Traded(G, sym) = Traded(F, sym) + b
    BY <1>1, <2>1, <2>3
  <2>9. \A s \in Symbols : Traded(F, s) \in Int /\ Traded(G, s) \in Int
    BY <1>1, <2>1, <2>5, <2>8
  <2> QED
    BY <2>2, <2>5, <2>6, <2>7, <2>8, <2>9 DEF cost
<1>3. /\ \A s \in Symbols : side.positions[s] \in Int /\ side.positions[s] >= 0
                            /\ side.positions[s] - Traded(F, s) >= 0
      /\ StartNav - Spent(F) - side.cash >= 0 /\ StartNav \in Int
  BY <1>1, ControlsAssumption DEF LocalBooks, Refused, Unpaid
<1>4. CASE Terms[o].side = "SELL" /\ side.positions[sym] < n
  <2> DEFINE pos == [side.positions EXCEPT ![sym] = 0]
  <2>0. Ledger(side, o, n) = [side EXCEPT !.positions = pos]
    BY <1>4 DEF Ledger
  <2>1. pos \in [Symbols -> Int] /\ pos[sym] = 0 /\ \A s \in Symbols : s # sym => pos[s] = side.positions[s]
    BY <1>1
  <2>2. b = -n
    BY <1>4 DEF Signed
  <2> HIDE DEF pos, G, b
  <2>3. /\ IsSide(new) /\ new.orders = side.orders /\ new.fills = G
        /\ new.cash = side.cash /\ new.positions = pos
    BY <1>1, <2>0, <2>1 DEF IsSide, G
  <2>4. \A s \in Symbols : s # sym => Refused(new, s) = Refused(side, s)
    BY <1>2, <2>1, <2>3 DEF Refused
  <2>5. Refused(new, sym) > 0
    <3> DEFINE had == side.positions[sym]
               sum == Traded(F, sym)
               sumNow == Traded(G, sym)
    <3>1. had \in Int /\ sum \in Int /\ n \in Nat /\ had < n /\ had - sum >= 0 /\ sumNow = sum + b
      BY <1>1, <1>2, <1>3, <1>4
    <3>2. Refused(new, sym) = 0 - sumNow
      BY <2>1, <2>3 DEF Refused
    <3> HIDE DEF had, sum, sumNow
    <3> QED
      BY <2>2, <3>1, <3>2
  <2>6. Unpaid(new) >= price
    <3>1. n * price >= price /\ n * price \in Int
      BY <1>1
    <3>2. b * price = -(n * price)
      BY <1>1, <2>2
    <3> DEFINE spent == Spent(F)
               spentNow == Spent(G)
               cash == side.cash
               cost == n * price
               refund == b * price
    <3>3. /\ spent \in Int /\ spentNow = spent + refund /\ cash \in Int /\ StartNav \in Int
          /\ StartNav - spent - cash >= 0 /\ refund = -cost /\ cost \in Int /\ cost >= price
          /\ price \in Int
      BY <1>1, <1>2, <1>3, <3>1, <3>2
    <3>4. Unpaid(new) = StartNav - spentNow - cash
      BY <2>3 DEF Unpaid
    <3> HIDE DEF spent, spentNow, cash, cost, refund, price
    <3> QED
      BY <3>3, <3>4
  <2>7. Unpaid(new) \in Int /\ price > 0
    <3>1. Spent(new.fills) \in Int /\ new.cash \in Int
      BY <1>1, <1>2, <2>3
    <3> QED
      BY <1>1, <1>3, <3>1 DEF Unpaid
  <2>8. \A s \in Symbols : new.positions[s] >= 0 /\ Refused(new, s) >= 0
    <3> SUFFICES ASSUME NEW s \in Symbols PROVE new.positions[s] >= 0 /\ Refused(new, s) >= 0
      OBVIOUS
    <3>1. CASE s = sym
      <4>1. Refused(new, sym) \in Int
        <5>1. new.positions[sym] = 0 /\ Traded(new.fills, sym) \in Int
          BY <1>1, <1>2, <2>1, <2>3
        <5> QED
          BY <5>1 DEF Refused
      <4> QED
        BY <2>1, <2>3, <2>5, <3>1, <4>1
    <3>2. CASE s # sym
      <4>1. new.positions[s] = side.positions[s] /\ Refused(new, s) = side.positions[s] - Traded(F, s)
        BY <2>1, <2>3, <2>4, <3>2 DEF Refused
      <4> QED
        BY <1>3, <4>1
    <3> QED
      BY <3>1, <3>2
  <2>9. Refused(new, sym) # 0 /\ Unpaid(new) # 0 /\ Unpaid(new) >= 0
    BY <1>1, <1>2, <2>1, <2>3, <2>5, <2>6, <2>7 DEF Refused
  <2>10. LocalBooks(new)
    BY <1>1, <2>3, <2>6, <2>8, <2>9 DEF LocalBooks, G
  <2> QED
    BY <2>3, <2>10 DEF G
<1>5. CASE ~ (Terms[o].side = "SELL" /\ side.positions[sym] < n)
  <2> DEFINE pos == [side.positions EXCEPT ![sym] = @ + b]
  <2>0. Ledger(side, o, n) = Booked(side, o, n)
    BY <1>5 DEF Ledger
  <2>1. /\ pos \in [Symbols -> Int] /\ pos[sym] = side.positions[sym] + b
        /\ \A s \in Symbols : s # sym => pos[s] = side.positions[s]
    BY <1>1
  <2>2. /\ IsSide(Booked(side, o, n)) /\ Booked(side, o, n).orders = side.orders
        /\ Booked(side, o, n).fills = F /\ Booked(side, o, n).positions = pos
        /\ Booked(side, o, n).cash = side.cash - b * price
    BY BookedFields
  <2>3. side.positions[sym] + b >= 0
    <3>1. CASE Terms[o].side = "SELL"
      <4>1. b = -n /\ side.positions[sym] >= n /\ side.positions[sym] \in Int /\ n \in Nat
        BY <1>1, <1>3, <1>5, <3>1 DEF Signed
      <4> HIDE DEF b
      <4> QED
        BY <4>1
    <3>2. CASE Terms[o].side # "SELL"
      <4>1. b = n /\ side.positions[sym] >= 0 /\ side.positions[sym] \in Int /\ n \in Nat
        BY <1>1, <1>3, <3>2, TermsTypes DEF Signed
      <4> HIDE DEF b
      <4> QED
        BY <4>1
    <3> QED
      BY <3>1, <3>2
  <2> HIDE DEF pos, G, b
  <2>4. new = [Booked(side, o, n) EXCEPT !.fills = G]
    BY <2>0, <2>2 DEF IsSide, G
  <2>5. /\ IsSide(new) /\ new.orders = side.orders /\ new.fills = G
        /\ new.cash = side.cash - b * price /\ new.positions = pos
    <3> DEFINE booked == Booked(side, o, n)
    <3>1. new = [booked EXCEPT !.fills = G] /\ IsSide(booked) /\ G \in SUBSET FillKey
      BY <1>1, <2>2, <2>4
    <3>2. booked.orders = side.orders /\ booked.cash = side.cash - b * price /\ booked.positions = pos
      BY <2>2
    <3> HIDE DEF booked
    <3> DEFINE kept == [booked EXCEPT !.fills = G]
    <3>3. /\ IsSide(kept) /\ kept.cash = booked.cash /\ kept.positions = booked.positions
          /\ kept.orders = booked.orders /\ kept.fills = G
      BY <3>1, FillsFields
    <3>4. new = kept
      BY <3>1
    <3> HIDE DEF kept
    <3> QED
      BY <3>2, <3>3, <3>4
  <2>6. \A s \in Symbols : Refused(new, s) = Refused(side, s)
    <3> SUFFICES ASSUME NEW s \in Symbols PROVE Refused(new, s) = Refused(side, s)
      OBVIOUS
    <3>1. CASE s = sym
      <4> DEFINE had == side.positions[sym]
                 sum == Traded(F, sym)
      <4>1. had \in Int /\ sum \in Int /\ b \in Int
        BY <1>1, <1>2, <1>3
      <4>2. Refused(new, s) = (had + b) - (sum + b) /\ Refused(side, s) = had - sum
        BY <1>2, <2>1, <2>5, <3>1 DEF Refused
      <4> HIDE DEF had, sum
      <4> QED
        BY <4>1, <4>2
    <3>2. CASE s # sym
      BY <1>1, <1>2, <1>3, <2>1, <2>5, <3>2 DEF Refused
    <3> QED
      BY <3>1, <3>2
  <2>7. Unpaid(new) = Unpaid(side)
    <3> DEFINE bp == b * price
    <3>1. bp \in Int /\ Spent(G) = Spent(F) + bp /\ new.cash = side.cash - bp
      BY <1>2, <2>5
    <3> HIDE DEF bp
    <3> DEFINE spent == Spent(F)
               cash == side.cash
    <3>2. spent \in Int /\ cash \in Int /\ StartNav \in Int
      BY <1>1, <1>2, <1>3
    <3>3. Unpaid(new) = StartNav - (spent + bp) - (cash - bp) /\ Unpaid(side) = StartNav - spent - cash
      BY <2>5, <3>1 DEF Unpaid
    <3> HIDE DEF spent, cash
    <3> QED
      BY <3>1, <3>2, <3>3
  <2>8. \A s \in Symbols : new.positions[s] >= 0
    BY <1>3, <2>1, <2>3, <2>5
  <2>9. LocalBooks(new)
    BY <1>1, <2>5, <2>6, <2>7, <2>8 DEF LocalBooks, G
  <2> QED
    BY <2>5, <2>9 DEF G
<1> QED
  BY <1>4, <1>5

LEMMA SyncKeeps ==
    ASSUME Typed, TradingInv, NEW o \in Orders, Sync(o)
    PROVE  Typed' /\ TradingInv'
<1> DEFINE lo == local.orders
           seen == account.orders[o]
           k == seen.filled_quantity
           n == k - lo[o].filled_quantity
           known == With(local, o, seen)
           e == Fill(o, k, n)
<1>1. /\ IsSide(local) /\ IsSide(account) /\ KeysOf(lo) /\ KeysOf(account.orders)
      /\ OrdersInv(lo, account.orders) /\ LocalFills(lo, local.fills)
      /\ LocalBooks(local) /\ recent' \in Seq(Orders)
      /\ UNCHANGED <<account, result, latest, outside>>
  BY RecentOrders, SideKeys DEF Sync, Typed, TradingInv
<1>2. o \in DOMAIN lo /\ lo[o].broker_order_id = o /\ lo[o].status \notin ClosedStatuses
  BY DEF Sync, Behind
<1>3. /\ lo[o].filled_quantity \in Nat /\ k \in Nat /\ lo[o].filled_quantity <= k
      /\ OrdersInv(Put(lo, o, seen), account.orders) /\ seen \in OrderProjection
  <2> HIDE DEF lo
  <2>1. /\ o \in DOMAIN account.orders
        /\ lo[o].filled_quantity \in Nat /\ account.orders[o].filled_quantity \in Nat
        /\ lo[o].filled_quantity <= account.orders[o].filled_quantity
        /\ OrdersInv(Put(lo, o, account.orders[o]), account.orders)
    BY <1>1, <1>2, SeenOrder
  <2> QED
    BY <1>1, <2>1 DEF KeysOf
<1>4. /\ IsSide(known) /\ known.cash = local.cash /\ known.positions = local.positions
      /\ known.fills = local.fills /\ known.orders = Put(lo, o, seen)
  BY <1>1, <1>3, PutFields
<1>5. LocalBooks(known)
  BY <1>1, <1>4 DEF LocalBooks, Refused, Unpaid
<1>6. local' = IF n = 0 THEN known ELSE [Ledger(known, o, n) EXCEPT !.fills = @ \cup {e}]
  BY DEF Sync
<1>7. CASE n = 0
  <2>1. local' = known /\ k = lo[o].filled_quantity
    BY <1>3, <1>6, <1>7
  <2> HIDE DEF known
  <2>2. LocalFills(Put(lo, o, seen), local.fills)
    BY <1>1, <1>2, <2>1, NoNewFill
  <2> QED
    BY <1>1, <1>3, <1>4, <1>5, <2>1, <2>2 DEF Typed, TradingInv
<1>8. CASE n # 0
  <2>1. local' = [Ledger(known, o, n) EXCEPT !.fills = @ \cup {e}] /\ n \in Nat \ {0}
        /\ lo[o].filled_quantity < k
    BY <1>3, <1>6, <1>8
  <2>2. e \in FillKey /\ Bought(e) = Signed(o, n) /\ e.terms = Terms[o]
    BY <1>3, <2>1, FillTypes
  <2>3. LocalFills(Put(lo, o, seen), local.fills \cup {e}) /\ e \notin local.fills
    <3> HIDE DEF lo
    <3>1. n = k - lo[o].filled_quantity /\ seen.filled_quantity = k
      OBVIOUS
    <3> HIDE DEF n, k, seen
    <3> QED
      BY <1>1, <1>2, <1>3, <2>1, <3>1, NewFill
  <2> HIDE DEF known, e, n
  <2>4. /\ IsSide(local') /\ local'.orders = known.orders /\ local'.fills = known.fills \cup {e}
        /\ LocalBooks(local')
    <3> DEFINE kept == [Ledger(known, o, n) EXCEPT !.fills = @ \cup {e}]
    <3>1. e \notin known.fills
      BY <1>4, <2>3
    <3>2. /\ IsSide(kept) /\ kept.orders = known.orders /\ kept.fills = known.fills \cup {e}
          /\ LocalBooks(kept)
      BY <1>4, <1>5, <2>1, <2>2, <3>1, LedgerKeeps
    <3>3. local' = kept
      BY <2>1
    <3> HIDE DEF kept
    <3> QED
      BY <3>2, <3>3
  <2> QED
    BY <1>1, <1>3, <1>4, <2>3, <2>4 DEF Typed, TradingInv
<1> QED
  BY <1>7, <1>8

LEMMA PlaceByHandKeeps ==
    ASSUME Typed, TradingInv, NEW o \in Orders, PlaceByHand(o)
    PROVE  Typed' /\ TradingInv'
<1> DEFINE ao == account.orders
           placed == Order(o, o, "WORKING", 0)
<1>1. /\ IsSide(local) /\ IsSide(account) /\ o \in ByHand /\ o \notin DOMAIN ao
      /\ OrdersInv(local.orders, ao) /\ AccountFills(ao, account.fills) /\ AccountBooks(account, outside)
      /\ account' = With(account, o, placed)
      /\ UNCHANGED <<local, recent, result, latest, outside>>
  BY DEF PlaceByHand, Typed, TradingInv
<1>2. placed \in OrderProjection /\ placed.filled_quantity = 0 /\ AccountOrder(o, placed)
  BY OrderTypes, TermsTypes DEF AccountOrder, Identified, StatusOf, OrderStatus
<1> HIDE DEF placed
<1>3. /\ IsSide(account') /\ account'.cash = account.cash /\ account'.positions = account.positions
      /\ account'.fills = account.fills /\ account'.orders = Put(ao, o, placed)
  BY <1>1, <1>2, PutFields
<1>4. OrdersInv(local.orders, Put(ao, o, placed))
  <2>1. o \notin DOMAIN local.orders
    BY <1>1 DEF OrdersInv
  <2> QED
    BY <1>1, <1>2, <2>1, NewAccountOrder
<1>5. AccountFills(Put(ao, o, placed), account.fills)
  BY <1>1, <1>2, NothingExecutedYet
<1>6. AccountBooks(account', outside')
  BY <1>1, <1>3 DEF AccountBooks
<1> QED
  BY <1>1, <1>3, <1>4, <1>5, <1>6 DEF Typed, TradingInv

\* A fill of o for n units is made, or one is taken back that was for -n.
FillMade(before, after, F, e, o, n) ==
    /\ F \in SUBSET FillKey /\ IsFiniteSet(F) /\ e \in FillKey /\ e \notin F /\ e.terms = Terms[o]
    /\ \/ before = F /\ after = F \cup {e} /\ Bought(e) = Signed(o, n)
       \/ before = F \cup {e} /\ after = F /\ Bought(e) = -Signed(o, n)

TradedAt(before, after, o, n) ==
    /\ after.cash = before.cash - Signed(o, n) * Terms[o].price
    /\ after.positions = [before.positions EXCEPT ![Terms[o].symbol] = @ + Signed(o, n)]

\* One execution at the account.
LEMMA AccountTrades ==
    ASSUME NEW side, IsSide(side), NEW moved \in [cash : Int, positions : [Symbols -> Int]],
           NEW F, NEW e, NEW o \in Orders, NEW n \in Int, NEW new,
           FillMade(side.fills, new.fills, F, e, o, n), TradedAt(side, new, o, n),
           AccountBooks(side, moved)
    PROVE  AccountBooks(new, moved)
<1> DEFINE b == Signed(o, n)
           sym == Terms[o].symbol
           cost == b * Terms[o].price
           G == new.fills
<1>0. /\ F \in SUBSET FillKey /\ IsFiniteSet(F) /\ e \in FillKey /\ e \notin F /\ e.terms = Terms[o]
      /\ \/ side.fills = F /\ G = F \cup {e} /\ Bought(e) = b
         \/ side.fills = F \cup {e} /\ G = F /\ Bought(e) = -b
  BY DEF FillMade
<1>a. /\ new.cash = side.cash - b * Terms[o].price
      /\ new.positions = [side.positions EXCEPT ![sym] = @ + b]
  BY DEF TradedAt
<1>1. b \in Int /\ cost \in Int /\ sym \in Symbols /\ Bought(e) \in Int
  <2>1. b \in Int /\ sym \in Symbols /\ Terms[o].price \in Int
    BY TermsTypes DEF Signed
  <2> QED
    BY <1>0, <2>1, FillIsTrade
<1>2. IsFiniteSet(G) /\ IsFiniteSet(F \cup {e})
  BY <1>0, FS_AddElement
<1>3. /\ Traded(F \cup {e}, sym) = Traded(F, sym) + Bought(e)
      /\ \A s \in Symbols : s # sym => Traded(F \cup {e}, s) = Traded(F, s)
      /\ \A s \in Symbols : Traded(F, s) \in Int
      /\ Spent(F \cup {e}) = Spent(F) + Bought(e) * Terms[o].price /\ Spent(F) \in Int
  <2>1. \A s : /\ Traded(F \cup {e}, s) = Traded(F, s) + (IF e.terms.symbol = s THEN Bought(e) ELSE 0)
               /\ Traded(F, s) \in Int
    BY <1>0, SumsAdd
  <2>2. Spent(F \cup {e}) = Spent(F) + Bought(e) * e.terms.price /\ Spent(F) \in Int
    BY <1>0, SumsAdd
  <2>3. e.terms.symbol = sym /\ e.terms.price = Terms[o].price
    BY <1>0
  <2>4. Traded(F \cup {e}, sym) = Traded(F, sym) + Bought(e)
    BY <2>1, <2>3
  <2>5. \A s \in Symbols : s # sym => Traded(F \cup {e}, s) = Traded(F, s)
    <3> SUFFICES ASSUME NEW s \in Symbols, s # sym PROVE Traded(F \cup {e}, s) = Traded(F, s)
      OBVIOUS
    <3>1. Traded(F \cup {e}, s) = Traded(F, s) + 0 /\ Traded(F, s) \in Int
      BY <2>1, <2>3
    <3> QED
      BY <3>1
  <2> QED
    BY <2>1, <2>2, <2>3, <2>4, <2>5
<1>4. (-b) * Terms[o].price = -cost
  BY <1>1, TermsTypes
<1>5. Spent(G) = Spent(side.fills) + cost /\ Spent(side.fills) \in Int
  <2>1. CASE side.fills = F /\ G = F \cup {e} /\ Bought(e) = b
    BY <1>3, <2>1
  <2>2. CASE side.fills = F \cup {e} /\ G = F /\ Bought(e) = -b
    <3>1. Spent(side.fills) = Spent(F) + -cost
      BY <1>3, <1>4, <2>2
    <3> HIDE DEF cost
    <3> QED
      BY <1>1, <1>3, <2>2, <3>1
  <2> QED
    BY <1>0, <2>1, <2>2
<1>6. /\ Traded(G, sym) = Traded(side.fills, sym) + b
      /\ \A s \in Symbols : s # sym => Traded(G, s) = Traded(side.fills, s)
      /\ \A s \in Symbols : Traded(side.fills, s) \in Int
  <2>1. CASE side.fills = F /\ G = F \cup {e} /\ Bought(e) = b
    BY <1>1, <1>3, <2>1
  <2>2. CASE side.fills = F \cup {e} /\ G = F /\ Bought(e) = -b
    <3> DEFINE sum == Traded(F, sym)
               sumBefore == Traded(F \cup {e}, sym)
    <3>1. sum \in Int /\ b \in Int /\ sumBefore = sum + -b
      BY <1>1, <1>3, <2>2
    <3>2. sum = sumBefore + b /\ sumBefore \in Int
      <4> HIDE DEF sum, sumBefore, b
      <4> QED
        BY <3>1
    <3>3. Traded(G, sym) = sum /\ Traded(side.fills, sym) = sumBefore
      BY <2>2
    <3>4. \A s \in Symbols : s # sym => Traded(G, s) = Traded(side.fills, s) /\ Traded(side.fills, s) \in Int
      BY <1>3, <2>2
    <3> HIDE DEF sum, sumBefore, b
    <3> QED
      BY <1>1, <3>2, <3>3, <3>4
  <2> QED
    BY <1>0, <2>1, <2>2
<1>7. side.cash \in Int /\ side.positions \in [Symbols -> Int] /\ moved.cash \in Int
      /\ moved.positions \in [Symbols -> Int] /\ StartNav \in Int
  BY ControlsAssumption DEF IsSide
<1>8. new.cash = StartNav - Spent(G) + moved.cash
  <2> DEFINE spent == Spent(side.fills)
             cash == moved.cash
  <2>1. side.cash = StartNav - spent + cash /\ new.cash = side.cash - cost /\ Spent(G) = spent + cost
        /\ spent \in Int /\ cash \in Int
    BY <1>a, <1>5, <1>7 DEF AccountBooks
  <2>2. new.cash = StartNav - Spent(G) + cash
    <3> HIDE DEF spent, cash, cost
    <3> QED
      BY <1>1, <1>7, <2>1
  <2> QED
    BY <2>2
<1>9. ASSUME NEW s \in Symbols PROVE new.positions[s] = Traded(G, s) + moved.positions[s]
  <2> DEFINE had == side.positions[s]
             sum == Traded(side.fills, s)
             more == moved.positions[s]
  <2>1. had = sum + more /\ had \in Int /\ sum \in Int /\ more \in Int
    BY <1>6, <1>7 DEF AccountBooks
  <2>2. CASE s = sym
    <3>1. new.positions[s] = had + b /\ Traded(G, s) = sum + b
      BY <1>a, <1>1, <1>6, <1>7, <2>2
    <3>2. new.positions[s] = Traded(G, s) + more
      <4> HIDE DEF had, sum, more, b
      <4> QED
        BY <1>1, <2>1, <3>1
    <3> QED
      BY <3>2
  <2>3. CASE s # sym
    BY <1>a, <1>6, <1>7, <2>1, <2>3
  <2> QED
    BY <2>2, <2>3
<1> QED
  BY <1>2, <1>8, <1>9 DEF AccountBooks

LEMMA ExecuteKeeps ==
    ASSUME Typed, TradingInv, NEW o \in Orders, Execute(o)
    PROVE  Typed' /\ TradingInv'
<1> DEFINE ao == account.orders
           done == ao[o].filled_quantity
           n == done + 1
           status == IF n = Terms[o].quantity THEN "FILLED" ELSE "PARTIALLY_FILLED"
           y == Order(o, o, status, n)
           e == Fill(o, n, 1)
           F == account.fills
           with == With(account, o, y)
           booked == Booked(with, o, 1)
<1>1. /\ IsSide(local) /\ IsSide(account) /\ KeysOf(ao) /\ F \in SUBSET FillKey /\ IsFiniteSet(F)
      /\ OrdersInv(local.orders, ao) /\ AccountFills(ao, F) /\ AccountBooks(account, outside)
      /\ outside \in [cash : Int, positions : [Symbols -> Int]]
      /\ UNCHANGED <<local, recent, result, latest, outside>>
  BY SideKeys, SideTypes DEF Execute, Typed, TradingInv, AccountBooks
<1>2. /\ o \in DOMAIN ao /\ ao[o].status \in {"WORKING", "PARTIALLY_FILLED"}
      /\ account' = [booked EXCEPT !.fills = @ \cup {e}]
  BY DEF Execute
<1>3. done \in Nat /\ done < Terms[o].quantity /\ n \in Nat \ {0} /\ Terms[o].quantity \in Nat \ {0}
  <2>1. AccountOrder(o, ao[o]) /\ done \in Nat
    BY <1>1, <1>2 DEF OrdersInv, KeysOf, OrderProjection
  <2>2. ao[o].status = StatusOf(o, done) /\ done <= Terms[o].quantity
    BY <1>2, <2>1 DEF AccountOrder, Identified
  <2>3. done # Terms[o].quantity
    BY <1>2, <2>2, TermsTypes DEF StatusOf
  <2> QED
    BY <2>1, <2>2, <2>3, TermsTypes
<1>4. /\ y \in OrderProjection /\ y.status = status /\ y.filled_quantity = n
      /\ AccountOrder(o, y) /\ y.status # "BUSTED"
  <2>1. status \in OrderStatus /\ status = StatusOf(o, n)
    BY <1>3 DEF OrderStatus, StatusOf
  <2>2. y \in OrderProjection /\ y.broker_order_id = o /\ y.terms = Terms[o] /\ y.status = status
        /\ y.filled_quantity = n
    <3> HIDE DEF status, n
    <3> QED
      BY <1>3, <2>1, OrderTypes
  <2>3. n <= Terms[o].quantity /\ status # "BUSTED"
    BY <1>3
  <2> HIDE DEF status, n, y
  <2> QED
    BY <2>1, <2>2, <2>3 DEF AccountOrder, Identified
<1>5. OrdersInv(local.orders, Put(ao, o, y))
  <2>1. ASSUME o \in DOMAIN local.orders, Followed(o, local.orders[o], ao[o])
        PROVE  Followed(o, local.orders[o], y)
    <3>1. local.orders[o].filled_quantity \in Nat
      BY <1>1, <2>1, SideTypes
    <3>2. local.orders[o].filled_quantity <= done => local.orders[o].filled_quantity <= n
      BY <1>3, <3>1
    <3> HIDE DEF y, n, done
    <3> QED
      BY <1>4, <2>1, <3>2 DEF Followed, done
  <2>2. o \in ByHand \cup DOMAIN local.orders
    BY <1>1, <1>2 DEF OrdersInv
  <2> HIDE DEF y
  <2> QED
    BY <1>1, <1>2, <1>4, <2>1, <2>2, NewAccountOrder
<1>6. /\ e \in FillKey /\ Bought(e) = Signed(o, 1) /\ e.terms = Terms[o] /\ e.id = <<o, n>>
  <2> HIDE DEF n
  <2> QED
    BY <1>3, FillTypes
<1>7. e \notin F
  <2> SUFFICES ASSUME e \in F PROVE FALSE
    OBVIOUS
  <2>1. PICK p \in DOMAIN ao : \E k \in 1 .. ao[p].filled_quantity : e = Fill(p, k, 1)
    BY <1>1, <1>6 DEF AccountFills
  <2>2. PICK k \in 1 .. ao[p].filled_quantity : e = Fill(p, k, 1)
    BY <2>1
  <2>3. e.id = <<p, k>>
    BY <2>2 DEF Fill
  <2> QED
    BY <1>3, <1>6, <2>2, <2>3
<1>8. AccountFills(Put(ao, o, y), F \cup {e})
  <2> DEFINE new == Put(ao, o, y)
  <2>1. DOMAIN new = DOMAIN ao /\ new[o].filled_quantity = n /\ \A p \in DOMAIN ao : p # o => new[p] = ao[p]
    BY <1>2, <1>4 DEF Put
  <2>2. \A k : k \in 1 .. n <=> k \in 1 .. done \/ k = n
    BY <1>3
  <2> HIDE DEF new, n, e, y
  <2>3. ASSUME NEW f \in FillKey
        PROVE  f \in F \cup {e} <=> \E p \in DOMAIN new : \E k \in 1 .. new[p].filled_quantity : f = Fill(p, k, 1)
    <3>1. ASSUME f \in F
          PROVE  \E p \in DOMAIN new : \E k \in 1 .. new[p].filled_quantity : f = Fill(p, k, 1)
      <4>1. PICK p \in DOMAIN ao : \E k \in 1 .. ao[p].filled_quantity : f = Fill(p, k, 1)
        BY <1>1, <3>1 DEF AccountFills
      <4> QED
        BY <2>1, <2>2, <4>1
    <3>2. ASSUME f = e
          PROVE  \E p \in DOMAIN new : \E k \in 1 .. new[p].filled_quantity : f = Fill(p, k, 1)
      BY <1>2, <2>1, <2>2, <3>2 DEF e
    <3>3. ASSUME NEW p \in DOMAIN new, NEW k \in 1 .. new[p].filled_quantity, f = Fill(p, k, 1)
          PROVE  f \in F \cup {e}
      <4>1. CASE p = o /\ k = n
        BY <3>3, <4>1 DEF e
      <4>2. CASE ~ (p = o /\ k = n)
        <5>1. p \in DOMAIN ao /\ k \in 1 .. ao[p].filled_quantity
          BY <2>1, <2>2, <4>2
        <5> QED
          BY <1>1, <3>3, <5>1 DEF AccountFills
      <4> QED
        BY <4>1, <4>2
    <3> QED
      BY <3>1, <3>2, <3>3
  <2> QED
    BY <2>3 DEF AccountFills, new
<1>9. /\ IsSide(account') /\ account'.orders = Put(ao, o, y) /\ account'.fills = F \cup {e}
      /\ account'.cash = account.cash - Signed(o, 1) * Terms[o].price
      /\ account'.positions = [account.positions EXCEPT ![Terms[o].symbol] = @ + Signed(o, 1)]
  <2>1. /\ IsSide(with) /\ with.cash = account.cash /\ with.positions = account.positions
        /\ with.fills = F /\ with.orders = Put(ao, o, y)
    <3> HIDE DEF y
    <3> QED
      BY <1>1, <1>4, PutFields
  <2> HIDE DEF with, y, e
  <2>2. /\ IsSide(booked) /\ booked.orders = with.orders /\ booked.fills = F
        /\ booked.cash = with.cash - Signed(o, 1) * Terms[o].price
        /\ booked.positions = [with.positions EXCEPT ![Terms[o].symbol] = @ + Signed(o, 1)]
    BY <2>1, BookedFields
  <2> HIDE DEF booked
  <2>3. account' = [booked EXCEPT !.fills = F \cup {e}]
    BY <1>2, <2>2 DEF IsSide
  <2> DEFINE G == F \cup {e}
  <2>4. G \in SUBSET FillKey
    BY <1>1, <1>6
  <2> HIDE DEF G
  <2>5. /\ IsSide([booked EXCEPT !.fills = G]) /\ [booked EXCEPT !.fills = G].cash = booked.cash
        /\ [booked EXCEPT !.fills = G].positions = booked.positions
        /\ [booked EXCEPT !.fills = G].orders = booked.orders
        /\ [booked EXCEPT !.fills = G].fills = G
    BY <2>2, <2>4, FillsFields
  <2> QED
    BY <2>1, <2>2, <2>3, <2>5 DEF G
<1>10. AccountBooks(account', outside)
  <2> DEFINE now == account'
  <2>1. FillMade(account.fills, now.fills, F, e, o, 1) /\ TradedAt(account, now, o, 1) /\ 1 \in Int
    BY <1>1, <1>6, <1>7, <1>9 DEF FillMade, TradedAt
  <2> HIDE DEF F, e, now
  <2>2. AccountBooks(now, outside)
    BY <1>1, <2>1, AccountTrades
  <2> QED
    BY <2>2 DEF now
<1> HIDE DEF y, e, with, booked, n
<1> QED
  BY <1>1, <1>5, <1>8, <1>9, <1>10 DEF Typed, TradingInv

LEMMA SignedBack == ASSUME NEW o, NEW n \in Int PROVE Signed(o, n) = -Signed(o, -n)
BY DEF Signed

LEMMA BustKeeps ==
    ASSUME Typed, TradingInv, NEW o \in Orders, Bust(o)
    PROVE  Typed' /\ TradingInv'
<1> DEFINE ao == account.orders
           n == Terms[o].quantity
           y == Order(o, o, "BUSTED", n - 1)
           e == Fill(o, n, 1)
           F == {f \in account.fills : f.id # <<o, n>>}
           with == With(account, o, y)
           booked == Booked(with, o, -1)
<1>1. /\ IsSide(local) /\ IsSide(account) /\ KeysOf(ao) /\ account.fills \in SUBSET FillKey
      /\ F \in SUBSET FillKey /\ IsFiniteSet(F)
      /\ OrdersInv(local.orders, ao) /\ AccountFills(ao, account.fills) /\ AccountBooks(account, outside)
      /\ outside \in [cash : Int, positions : [Symbols -> Int]]
      /\ UNCHANGED <<local, recent, result, latest, outside>>
  <2>1. IsFiniteSet(account.fills) /\ F \subseteq account.fills
    BY DEF TradingInv, AccountBooks
  <2>2. IsFiniteSet(F)
    <3> HIDE DEF F
    <3> QED
      BY <2>1, FS_Subset
  <2> QED
    BY <2>2, SideKeys, SideTypes DEF Bust, Typed, TradingInv
<1>2. /\ o \in DOMAIN ao /\ ao[o].status = "FILLED" /\ ~Behind(o)
      /\ account' = [booked EXCEPT !.fills = {f \in @ : f.id # <<o, n>>}]
  BY DEF Bust
<1>3. /\ n \in Nat \ {0} /\ n - 1 \in Nat /\ ao[o].filled_quantity = n
  <2>1. AccountOrder(o, ao[o])
    BY <1>2 DEF AccountOrder, OrdersInv, TradingInv
  <2> QED
    BY <1>2, <2>1, TermsTypes DEF AccountOrder, StatusOf
<1>4. /\ y \in OrderProjection /\ y.status = "BUSTED" /\ y.filled_quantity = n - 1
      /\ AccountOrder(o, y)
  <2>1. "BUSTED" \in OrderStatus
    BY DEF OrderStatus
  <2>2. y \in OrderProjection /\ y.broker_order_id = o /\ y.terms = Terms[o] /\ y.status = "BUSTED"
        /\ y.filled_quantity = n - 1
    <3> DEFINE m == n - 1
    <3>1. m \in Nat
      BY <1>3
    <3> HIDE DEF m
    <3>2. /\ Order(o, o, "BUSTED", m) \in OrderProjection
          /\ Order(o, o, "BUSTED", m).broker_order_id = o
          /\ Order(o, o, "BUSTED", m).terms = Terms[o]
          /\ Order(o, o, "BUSTED", m).status = "BUSTED"
          /\ Order(o, o, "BUSTED", m).filled_quantity = m
      BY <2>1, <3>1, OrderTypes
    <3> QED
      BY <3>2 DEF m
  <2>3. n - 1 <= n
    BY <1>3
  <2> HIDE DEF y
  <2> QED
    BY <2>2, <2>3 DEF AccountOrder, Identified
<1>5. OrdersInv(local.orders, Put(ao, o, y))
  <2>1. ASSUME o \in DOMAIN local.orders, Followed(o, local.orders[o], ao[o])
        PROVE  Followed(o, local.orders[o], y)
    <3>1. local.orders[o].status \in ClosedStatuses \/ local.orders[o] = ao[o]
      BY <1>2, <2>1 DEF Behind, Followed, Identified
    <3>2. local.orders[o].status \in {"WORKING", "PARTIALLY_FILLED", "FILLED"}
      BY <2>1 DEF Followed, StatusOf
    <3>3. local.orders[o].status = "FILLED"
      BY <1>2, <3>1, <3>2 DEF ClosedStatuses
    <3> QED
      BY <2>1, <3>3 DEF Followed
  <2>2. o \in ByHand \cup DOMAIN local.orders
    BY <1>1, <1>2 DEF OrdersInv
  <2> HIDE DEF y
  <2> QED
    BY <1>1, <1>2, <1>4, <2>1, <2>2, NewAccountOrder
<1>6. /\ e \in FillKey /\ Bought(e) = Signed(o, 1) /\ e.terms = Terms[o] /\ e.id = <<o, n>>
  <2> HIDE DEF n
  <2> QED
    BY <1>3, FillTypes
<1>7. account.fills = F \cup {e} /\ e \notin F
  <2>1. e \in account.fills
    <3>1. n \in 1 .. ao[o].filled_quantity
      BY <1>3
    <3> QED
      BY <1>1, <1>2, <1>6, <3>1 DEF AccountFills
  <2>2. ASSUME NEW f \in account.fills, f.id = <<o, n>> PROVE f = e
    <3>1. PICK p \in DOMAIN ao : \E k \in 1 .. ao[p].filled_quantity : f = Fill(p, k, 1)
      BY <1>1 DEF AccountFills
    <3>2. PICK k \in 1 .. ao[p].filled_quantity : f = Fill(p, k, 1)
      BY <3>1
    <3>3. f.id = <<p, k>>
      BY <3>2 DEF Fill
    <3> QED
      BY <2>2, <3>2, <3>3
  <2> HIDE DEF e, n
  <2> QED
    BY <1>6, <2>1, <2>2
<1>8. AccountFills(Put(ao, o, y), F)
  <2> DEFINE new == Put(ao, o, y)
  <2>1. DOMAIN new = DOMAIN ao /\ new[o].filled_quantity = n - 1
        /\ \A p \in DOMAIN ao : p # o => new[p] = ao[p]
    BY <1>2, <1>4 DEF Put
  <2>2. \A k : k \in 1 .. n <=> k \in 1 .. n - 1 \/ k = n
    BY <1>3
  <2>3. \A k \in 1 .. n - 1 : k # n
    BY <1>3
  <2> HIDE DEF new, n, y
  <2>4. ASSUME NEW f \in FillKey
        PROVE  f \in F <=> \E p \in DOMAIN new : \E k \in 1 .. new[p].filled_quantity : f = Fill(p, k, 1)
    <3>1. ASSUME f \in F
          PROVE  \E p \in DOMAIN new : \E k \in 1 .. new[p].filled_quantity : f = Fill(p, k, 1)
      <4>1. PICK p \in DOMAIN ao : \E k \in 1 .. ao[p].filled_quantity : f = Fill(p, k, 1)
        BY <1>1, <3>1 DEF AccountFills
      <4>2. PICK k \in 1 .. ao[p].filled_quantity : f = Fill(p, k, 1)
        BY <4>1
      <4>3. <<p, k>> # <<o, n>>
        BY <3>1, <4>2 DEF Fill
      <4>4. k \in 1 .. new[p].filled_quantity
        BY <1>3, <2>1, <2>2, <4>2, <4>3
      <4> QED
        BY <2>1, <4>2, <4>4
    <3>2. ASSUME NEW p \in DOMAIN new, NEW k \in 1 .. new[p].filled_quantity, f = Fill(p, k, 1)
          PROVE  f \in F
      <4>1. k \in 1 .. ao[p].filled_quantity /\ p \in DOMAIN ao
        BY <1>3, <2>1, <2>2
      <4>2. f \in account.fills
        BY <1>1, <3>2, <4>1 DEF AccountFills
      <4>3. f.id = <<p, k>> /\ <<p, k>> # <<o, n>>
        BY <2>1, <2>3, <3>2 DEF Fill
      <4> QED
        BY <4>2, <4>3
    <3> QED
      BY <3>1, <3>2
  <2> QED
    BY <2>4 DEF AccountFills, new
<1>9. /\ IsSide(account') /\ account'.orders = Put(ao, o, y) /\ account'.fills = F
      /\ account'.cash = account.cash - Signed(o, -1) * Terms[o].price
      /\ account'.positions = [account.positions EXCEPT ![Terms[o].symbol] = @ + Signed(o, -1)]
  <2>1. /\ IsSide(with) /\ with.cash = account.cash /\ with.positions = account.positions
        /\ with.fills = account.fills /\ with.orders = Put(ao, o, y)
    <3> HIDE DEF y
    <3> QED
      BY <1>1, <1>4, PutFields
  <2> HIDE DEF with, y
  <2>2. /\ IsSide(booked) /\ booked.orders = with.orders /\ booked.fills = account.fills
        /\ booked.cash = with.cash - Signed(o, -1) * Terms[o].price
        /\ booked.positions = [with.positions EXCEPT ![Terms[o].symbol] = @ + Signed(o, -1)]
    <3> DEFINE minus == -1
    <3>1. minus \in Int
      OBVIOUS
    <3> HIDE DEF minus
    <3>2. LET b == Booked(with, o, minus)
          IN  /\ IsSide(b) /\ b.orders = with.orders /\ b.fills = with.fills
              /\ b.cash = with.cash - Signed(o, minus) * Terms[o].price
              /\ b.positions = [with.positions EXCEPT ![Terms[o].symbol] = @ + Signed(o, minus)]
      BY <2>1, <3>1, BookedFields
    <3> QED
      BY <2>1, <3>2 DEF minus
  <2> HIDE DEF booked
  <2>3. account' = [booked EXCEPT !.fills = F]
    BY <1>2, <2>2 DEF IsSide
  <2> HIDE DEF F
  <2>5. /\ IsSide([booked EXCEPT !.fills = F]) /\ [booked EXCEPT !.fills = F].cash = booked.cash
        /\ [booked EXCEPT !.fills = F].positions = booked.positions
        /\ [booked EXCEPT !.fills = F].orders = booked.orders
        /\ [booked EXCEPT !.fills = F].fills = F
    BY <1>1, <2>2, FillsFields
  <2> QED
    BY <2>1, <2>2, <2>3, <2>5
<1>10. AccountBooks(account', outside)
  <2> DEFINE now == account'
             minus == -1
  <2>1. FillMade(account.fills, now.fills, F, e, o, minus) /\ TradedAt(account, now, o, minus) /\ minus \in Int
    <3>1. Bought(e) = -Signed(o, minus)
      <4> DEFINE unit == 1
      <4>1. unit \in Int /\ Bought(e) = Signed(o, unit)
        BY <1>6
      <4> HIDE DEF unit, e
      <4>2. Signed(o, unit) = -Signed(o, -unit)
        BY <4>1, SignedBack
      <4> QED
        BY <4>1, <4>2 DEF unit
    <3> HIDE DEF e, F
    <3> QED
      BY <1>1, <1>6, <1>7, <1>9, <3>1 DEF FillMade, TradedAt
  <2> HIDE DEF F, e, now, minus
  <2>2. AccountBooks(now, outside)
    BY <1>1, <2>1, AccountTrades
  <2> QED
    BY <2>2 DEF now
<1> HIDE DEF y, e, with, booked, n, F
<1> QED
  BY <1>1, <1>5, <1>8, <1>9, <1>10 DEF Typed, TradingInv

LEMMA MoveKeeps ==
    ASSUME Typed, TradingInv, NEW move \in Moves, Move(move)
    PROVE  Typed' /\ TradingInv'
<1> DEFINE cash == account.cash + move.cash
           positions == [s \in Symbols |-> account.positions[s] + move.positions[s]]
<1>1. /\ IsSide(local) /\ IsSide(account) /\ move.cash \in Int /\ move.positions \in [Symbols -> Int]
      /\ move \in [cash : Int, positions : [Symbols -> Int]]
      /\ outside = Flat /\ AccountBooks(account, outside)
      /\ UNCHANGED <<local, recent, result, latest>>
  BY ControlsAssumption DEF Move, Typed, TradingInv
<1>2. account' = [account EXCEPT !.cash = cash, !.positions = positions]
  BY DEF Move
<1>3. cash \in Int /\ positions \in [Symbols -> Int]
      /\ \A s \in Symbols : positions[s] = account.positions[s] + move.positions[s]
  BY <1>1 DEF IsSide
<1>4. outside' = move
  <2>1. outside' = [cash |-> 0 + move.cash, positions |-> [s \in Symbols |-> 0 + move.positions[s]]]
    <3> DEFINE c == outside.cash + move.cash
               p == [s \in Symbols |-> outside.positions[s] + move.positions[s]]
    <3>1. outside' = [outside EXCEPT !.cash = c, !.positions = p]
      BY DEF Move
    <3>2. c = 0 + move.cash /\ p = [s \in Symbols |-> 0 + move.positions[s]]
      BY <1>1 DEF Flat
    <3> HIDE DEF c, p
    <3>3. outside' = [cash |-> c, positions |-> p]
      BY <1>1, <3>1 DEF Flat
    <3> QED
      BY <3>2, <3>3
  <2>2. 0 + move.cash = move.cash /\ [s \in Symbols |-> 0 + move.positions[s]] = move.positions
    BY <1>1
  <2> QED
    BY <1>1, <2>1, <2>2
<1> HIDE DEF cash, positions
<1>5. /\ IsSide(account') /\ account'.cash = cash /\ account'.positions = positions
      /\ account'.fills = account.fills /\ account'.orders = account.orders
  BY <1>1, <1>2, <1>3 DEF IsSide
<1>6. AccountBooks(account', outside')
  <2>1. account.cash = StartNav - Spent(account.fills) + 0
        /\ \A s \in Symbols : account.positions[s] = Traded(account.fills, s) + 0
    BY <1>1 DEF AccountBooks, Flat
  <2>2. /\ IsFiniteSet(account.fills) /\ account.fills \in SUBSET FillKey /\ StartNav \in Int
    BY <1>1, ControlsAssumption DEF AccountBooks, IsSide
  <2>3. Spent(account.fills) \in Int /\ \A s : Traded(account.fills, s) \in Int
    BY <2>2, SumsAreTyped
  <2>4. cash = StartNav - Spent(account.fills) + move.cash
    BY <1>1, <2>1, <2>2, <2>3 DEF cash
  <2>5. \A s \in Symbols : positions[s] = Traded(account.fills, s) + move.positions[s]
    BY <1>1, <1>3, <2>1, <2>3
  <2> QED
    BY <1>4, <1>5, <2>2, <2>4, <2>5 DEF AccountBooks
<1> QED
  BY <1>1, <1>4, <1>5, <1>6 DEF Typed, TradingInv

LEMMA TradingInit == Init => Typed /\ TradingInv
<1> SUFFICES ASSUME Init PROVE Typed /\ TradingInv
  OBVIOUS
<1>1. /\ local = account /\ local.cash = StartNav /\ local.positions = [s \in Symbols |-> 0]
      /\ local.orders = <<>> /\ local.fills = {}
      /\ DOMAIN local = {"cash", "positions", "orders", "fills"}
      /\ outside = Flat /\ StartNav \in Int
  BY ControlsAssumption DEF Init, Flat
<1>2. DOMAIN local.orders = {}
  BY <1>1
<1>3. Typed
  <2>1. Range(local.orders) \subseteq OrderProjection
    BY <1>2 DEF Range
  <2>2. IsSide(local)
    BY <1>1, <1>2, <2>1 DEF IsSide
  <2>3. outside \in [cash : Int, positions : [Symbols -> Int]] /\ recent \in Seq(Orders)
    BY DEF Init, Flat
  <2> QED
    BY <1>1, <2>2, <2>3 DEF Typed, Init
<1>4. OrdersInv(local.orders, account.orders) /\ LocalFills(local.orders, local.fills)
      /\ AccountFills(account.orders, account.fills)
  BY <1>1, <1>2 DEF OrdersInv, LocalFills, AccountFills
<1>5. /\ IsFiniteSet({}) /\ Spent({}) = 0 /\ \A s \in Symbols : Traded({}, s) = 0
  BY SumsOfNone, FS_EmptySet
<1>6. AccountBooks(account, outside)
  BY <1>1, <1>5 DEF AccountBooks, Flat
<1>7. LocalBooks(local)
  <2>1. Unpaid(local) = 0 /\ \A s \in Symbols : Refused(local, s) = 0 /\ local.positions[s] = 0
    BY <1>1, <1>5 DEF Unpaid, Refused
  <2> QED
    BY <1>1, <1>5, <2>1 DEF LocalBooks
<1> QED
  BY <1>1, <1>3, <1>4, <1>6, <1>7 DEF TradingInv

LEMMA TradingKept ==
    ASSUME Typed, TradingInv, UNCHANGED <<local, account, outside>>, recent' \in Seq(Orders),
           result' \in {"MATCHED", "MISMATCH", NoResult},
           latest' \in {"MATCHED", "MISMATCH", NoResult}
    PROVE  Typed' /\ TradingInv'
BY DEF Typed, TradingInv

LEMMA TradingStep == Typed /\ TradingInv /\ [Next]_vars => Typed' /\ TradingInv'
<1> SUFFICES ASSUME Typed, TradingInv, [Next]_vars PROVE Typed' /\ TradingInv'
  OBVIOUS
<1>0. recent \in Seq(Orders) /\ result \in {"MATCHED", "MISMATCH", NoResult}
      /\ latest \in {"MATCHED", "MISMATCH", NoResult}
  BY DEF Typed
<1>1. ASSUME NEW o \in Orders, Submit(o) \/ Sync(o) \/ PlaceByHand(o) \/ Execute(o) \/ Bust(o)
      PROVE  Typed' /\ TradingInv'
  BY <1>1, SubmitKeeps, SyncKeeps, PlaceByHandKeeps, ExecuteKeeps, BustKeeps
<1>2. ASSUME NEW move \in Moves, Move(move) PROVE Typed' /\ TradingInv'
  BY <1>2, MoveKeeps
<1>3. ASSUME Stays PROVE Typed' /\ TradingInv'
  BY <1>0, <1>3, TradingKept DEF Stays
<1>4. ASSUME NEW reason \in Reasons, Evaluate(reason) PROVE Typed' /\ TradingInv'
  BY <1>3, <1>4 DEF Evaluate
<1>5. CASE Reconcile
  <2>1. UNCHANGED <<local, account, recent, outside>>
        /\ result' \in {"MATCHED", "MISMATCH", NoResult} /\ latest' \in {"MATCHED", "MISMATCH", NoResult}
    BY <1>0, <1>5 DEF Reconcile
  <2> QED
    BY <1>0, <2>1, TradingKept
<1>6. CASE evaluate_reconciliation \/ Die
  <2>1. UNCHANGED <<local, account, recent, latest, outside>> /\ result' = NoResult
    BY <1>6 DEF evaluate_reconciliation, Die
  <2> QED
    BY <1>0, <2>1, TradingKept
<1>7. CASE UNCHANGED vars
  BY <1>0, <1>7, TradingKept DEF vars
<1> QED
  BY <1>1, <1>2, <1>3, <1>4, <1>5, <1>6, <1>7 DEF Next

THEOREM TradingInvariant == Spec => [](Typed /\ TradingInv)
<1>1. Typed /\ TradingInv /\ [Next]_vars => (Typed /\ TradingInv)'
  BY TradingStep
<1> QED
  BY <1>1, TradingInit, PTL DEF Spec

\* The types, of the kill switch's state and of everything around it.
THEOREM TypeCorrect == Spec => []TypeOK
<1>1. Typed /\ KillInv => TypeOK
  BY DEF Typed, TypeOK, KillInv
<1> QED
  BY <1>1, TradingInvariant, KillInvariant, PTL

-----------------------------------------------------------------------------
(* Reconciliation.                                                         *)

\* Where every order is known as it is and every execution by itself, both sides
\* have the same fills.
LEMMA SameFills ==
    ASSUME Typed, TradingInv, OrdersKnown, SeenOneByOne
    PROVE  local.fills = account.fills
<1> DEFINE lo == local.orders
           ao == account.orders
           lf == local.fills
           af == account.fills
<1>1. /\ KeysOf(lo) /\ KeysOf(ao) /\ lf \in SUBSET FillKey /\ af \in SUBSET FillKey
      /\ OrdersInv(lo, ao) /\ AccountFills(ao, af) /\ LocalFills(lo, lf)
  BY SideKeys, SideTypes DEF Typed, TradingInv
<1>2. ASSUME NEW o \in DOMAIN lo, lo[o].filled_quantity # 0
      PROVE  o \in DOMAIN ao /\ lo[o].filled_quantity = ao[o].filled_quantity
  <2>1. o \in DOMAIN ao /\ Followed(o, lo[o], ao[o])
    BY <1>1, <1>2 DEF OrdersInv, LocalOrder, Unidentified
  <2>2. CASE lo[o] = ao[o]
    BY <2>1, <2>2
  <2>3. CASE Nothing(lo, o)
    BY <1>2, <2>3 DEF Nothing
  <2> QED
    BY <2>1, <2>2, <2>3 DEF OrdersKnown
<1>3. ASSUME NEW o \in DOMAIN ao, ao[o].filled_quantity # 0
      PROVE  o \in DOMAIN lo /\ lo[o].filled_quantity = ao[o].filled_quantity
  BY <1>3 DEF OrdersKnown, Nothing
<1>4. ASSUME NEW f \in lf PROVE f \in af
  <2>1. PICK o \in DOMAIN lo : IsFillOf(f, o, lo[o].filled_quantity)
    BY <1>1 DEF LocalFills
  <2>2. PICK k \in 1 .. lo[o].filled_quantity : \E n \in 1 .. k : f = Fill(o, k, n)
    BY <2>1 DEF IsFillOf
  <2>3. PICK n \in 1 .. k : f = Fill(o, k, n)
    BY <2>2
  <2>4. n = 1
    BY <2>3 DEF SeenOneByOne, Fill
  <2>5. lo[o].filled_quantity \in Nat /\ lo[o].filled_quantity # 0
    BY <1>1, <2>2 DEF KeysOf, OrderProjection
  <2>6. o \in DOMAIN ao /\ k \in 1 .. ao[o].filled_quantity
    BY <1>2, <2>2, <2>5
  <2> QED
    BY <1>1, <2>3, <2>4, <2>6 DEF AccountFills
<1>5. ASSUME NEW f \in af PROVE f \in lf
  <2>1. PICK o \in DOMAIN ao : \E k \in 1 .. ao[o].filled_quantity : f = Fill(o, k, 1)
    BY <1>1 DEF AccountFills
  <2>2. PICK k \in 1 .. ao[o].filled_quantity : f = Fill(o, k, 1)
    BY <2>1
  <2>3. ao[o].filled_quantity \in Nat /\ ao[o].filled_quantity # 0
    BY <1>1, <2>2 DEF KeysOf, OrderProjection
  <2>4. o \in DOMAIN lo /\ k \in 1 .. lo[o].filled_quantity
    BY <1>3, <2>2, <2>3
  <2>5. PICK i \in 1 .. lo[o].filled_quantity : \E m \in 1 .. i :
            Fill(o, i, m) \in lf /\ i - m < k /\ k <= i
    BY <1>1, <2>4 DEF LocalFills, Covered
  <2>6. PICK m \in 1 .. i : Fill(o, i, m) \in lf /\ i - m < k /\ k <= i
    BY <2>5
  <2>7. m = 1
    BY <2>6 DEF SeenOneByOne, Fill
  <2>8. i = k
    BY <2>2, <2>5, <2>6, <2>7
  <2> QED
    BY <2>2, <2>6, <2>7, <2>8
<1> QED
  BY <1>4, <1>5

OpenOf(orders) == {o \in DOMAIN orders : orders[o].status \notin ClosedStatuses}

\* Equal open orders have equal keys; and every open one is found on the other side.
LEMMA SameKeys ==
    ASSUME NEW lo, NEW ao, OpenOf(lo) = OpenOf(ao), \A o \in OpenOf(lo) : lo[o] = ao[o]
    PROVE  _normalize_orders(OpenOrders(lo)) = _normalize_orders(OpenOrders(ao))
<1>1. OpenOrders(lo) = [o \in OpenOf(lo) |-> lo[o]] /\ OpenOrders(ao) = [o \in OpenOf(ao) |-> ao[o]]
  BY DEF OpenOrders, OpenOf
<1>2. OpenOrders(lo) = OpenOrders(ao)
  BY <1>1
<1> QED
  BY <1>2

LEMMA KeyFound ==
    ASSUME NEW lo, NEW ao, _normalize_orders(OpenOrders(lo)) = _normalize_orders(OpenOrders(ao))
    PROVE  /\ \A o \in OpenOf(lo) :
                \E p \in OpenOf(ao) : ao[p].broker_order_id = lo[o].broker_order_id
           /\ \A o \in OpenOf(ao) :
                \E p \in OpenOf(lo) : lo[p].broker_order_id = ao[o].broker_order_id
<1>1. ASSUME NEW orders
      PROVE  DOMAIN _normalize_orders(OpenOrders(orders)) = {_order_key(orders[o]) : o \in OpenOf(orders)}
  <2>1. OpenOrders(orders) = [o \in OpenOf(orders) |-> orders[o]]
    BY DEF OpenOrders, OpenOf
  <2>2. DOMAIN OpenOrders(orders) = OpenOf(orders) /\ \A o \in OpenOf(orders) : OpenOrders(orders)[o] = orders[o]
    BY <2>1
  <2> QED
    BY <2>2 DEF _normalize_orders
<1>2. {_order_key(lo[o]) : o \in OpenOf(lo)} = {_order_key(ao[o]) : o \in OpenOf(ao)}
  BY <1>1
<1>3. /\ \A o \in OpenOf(lo) : \E p \in OpenOf(ao) : _order_key(ao[p]) = _order_key(lo[o])
      /\ \A o \in OpenOf(ao) : \E p \in OpenOf(lo) : _order_key(lo[p]) = _order_key(ao[o])
  BY <1>2
<1>4. \A a, b : _order_key(a) = _order_key(b) => a.broker_order_id = b.broker_order_id
  BY DEF _order_key
<1> QED
  BY <1>3, <1>4

\* Where every order is known, the open ones are the same.
LEMMA KnownMatch ==
    ASSUME Typed, TradingInv, OrdersKnown
    PROVE  _normalize_orders(OpenOrders(local.orders)) = _normalize_orders(OpenOrders(account.orders))
<1> DEFINE lo == local.orders
           ao == account.orders
<1>1. OrdersInv(lo, ao)
  BY DEF TradingInv
<1>2. ASSUME NEW o \in OpenOf(lo) PROVE o \in DOMAIN ao /\ lo[o] = ao[o]
  <2>1. o \in DOMAIN lo /\ lo[o].status \notin ClosedStatuses
    BY DEF OpenOf
  <2>2. o \in DOMAIN ao
    BY <1>1, <2>1 DEF OrdersInv, LocalOrder, Unidentified, ClosedStatuses
  <2> QED
    BY <2>1, <2>2 DEF OrdersKnown, Nothing
<1>3. ASSUME NEW o \in OpenOf(ao) PROVE o \in DOMAIN lo /\ lo[o] = ao[o]
  BY DEF OpenOf, OrdersKnown, Nothing
<1>4. OpenOf(lo) = OpenOf(ao) /\ \A o \in OpenOf(lo) : lo[o] = ao[o]
  BY <1>2, <1>3 DEF OpenOf
<1> QED
  BY <1>4, SameKeys

\* Equal fills and equal open orders leave no order unknown.
LEMMA MatchKnows ==
    ASSUME Typed, TradingInv, local.fills = account.fills,
           _normalize_orders(OpenOrders(local.orders)) = _normalize_orders(OpenOrders(account.orders))
    PROVE  OrdersKnown
<1> DEFINE lo == local.orders
           ao == account.orders
           lf == local.fills
<1>1. /\ KeysOf(lo) /\ KeysOf(ao) /\ lf \in SUBSET FillKey
      /\ OrdersInv(lo, ao) /\ AccountFills(ao, lf) /\ LocalFills(lo, lf)
  BY SideKeys, SideTypes DEF Typed, TradingInv
<1>0. /\ \A p \in OpenOf(lo) : \E q \in OpenOf(ao) : ao[q].broker_order_id = lo[p].broker_order_id
      /\ \A p \in OpenOf(ao) : \E q \in OpenOf(lo) : lo[q].broker_order_id = ao[p].broker_order_id
  <2>1. _normalize_orders(OpenOrders(lo)) = _normalize_orders(OpenOrders(ao))
    OBVIOUS
  <2> HIDE DEF lo, ao
  <2> QED
    BY <2>1, KeyFound
<1> SUFFICES ASSUME NEW o \in DOMAIN ao
             PROVE  \/ Nothing(ao, o) /\ Nothing(lo, o)
                    \/ o \in DOMAIN lo /\ lo[o] = ao[o]
  BY DEF OrdersKnown
<1>2. o \in Orders /\ ao[o] \in OrderProjection /\ ao[o].filled_quantity \in Nat /\ AccountOrder(o, ao[o])
  BY <1>1 DEF KeysOf, OrderProjection, OrdersInv
<1>3. \A p \in DOMAIN ao : ao[p].broker_order_id = p /\ p # NoOrder
  BY <1>1, ControlsAssumption DEF OrdersInv, AccountOrder, Identified, KeysOf
<1>4. CASE o \notin DOMAIN lo
  <2>1. o \notin OpenOf(ao)
    <3> SUFFICES ASSUME o \in OpenOf(ao) PROVE FALSE
      OBVIOUS
    <3>1. PICK p \in OpenOf(lo) : lo[p].broker_order_id = ao[o].broker_order_id
      BY <1>0
    <3>2. p \in DOMAIN lo /\ lo[p].broker_order_id = o /\ o # NoOrder
      BY <1>3, <3>1 DEF OpenOf
    <3>3. p = o
      BY <1>1, <3>2 DEF OrdersInv, LocalOrder, Unidentified, Followed, Identified
    <3> QED
      BY <1>4, <3>2, <3>3
  <2>2. ao[o].filled_quantity = 0
    <3> SUFFICES ASSUME ao[o].filled_quantity # 0 PROVE FALSE
      OBVIOUS
    <3>1. 1 \in 1 .. ao[o].filled_quantity /\ Fill(o, 1, 1) \in FillKey
      BY <1>2, FillTypes
    <3>2. Fill(o, 1, 1) \in lf
      BY <1>1, <3>1 DEF AccountFills
    <3>3. PICK p \in DOMAIN lo : IsFillOf(Fill(o, 1, 1), p, lo[p].filled_quantity)
      BY <1>1, <3>2 DEF LocalFills
    <3>4. p = o
      BY <3>3 DEF IsFillOf, Fill
    <3> QED
      BY <1>4, <3>4
  <2>3. Nothing(ao, o) /\ Nothing(lo, o)
    BY <1>4, <2>1, <2>2 DEF Nothing, OpenOf
  <2> QED
    BY <2>3
<1>5. CASE o \in DOMAIN lo
  <2>1. LocalOrder(o, lo[o], ao) /\ lo[o] \in OrderProjection /\ lo[o].filled_quantity \in Nat
    BY <1>1, <1>5 DEF OrdersInv, KeysOf, OrderProjection
  <2>2. lo[o].broker_order_id # NoOrder
    <3> SUFFICES ASSUME lo[o].broker_order_id = NoOrder PROVE FALSE
      OBVIOUS
    <3>1. lo[o].status = "RECONCILE_PENDING"
      BY <1>2, <1>3, <2>1 DEF LocalOrder, Unidentified, Followed, Identified
    <3>2. o \in OpenOf(lo)
      BY <1>5, <3>1 DEF OpenOf, ClosedStatuses
    <3>3. PICK p \in OpenOf(ao) : ao[p].broker_order_id = lo[o].broker_order_id
      BY <1>0, <3>2
    <3>4. p \in DOMAIN ao
      BY DEF OpenOf
    <3> QED
      BY <1>3, <3>3, <3>4
  <2>3. Followed(o, lo[o], ao[o])
    BY <2>1, <2>2 DEF LocalOrder, Unidentified
  <2>4. ASSUME NEW k \in 1 .. ao[o].filled_quantity PROVE k <= lo[o].filled_quantity
    <3>1. Fill(o, k, 1) \in lf
      BY <1>1, <1>2, FillTypes DEF AccountFills
    <3>2. PICK p \in DOMAIN lo : IsFillOf(Fill(o, k, 1), p, lo[p].filled_quantity)
      BY <1>1, <3>1 DEF LocalFills
    <3>3. PICK i \in 1 .. lo[p].filled_quantity : \E n \in 1 .. i : Fill(o, k, 1) = Fill(p, i, n)
      BY <3>2 DEF IsFillOf
    <3>4. p = o /\ i = k
      BY <3>3 DEF Fill
    <3> QED
      BY <2>1, <3>3, <3>4
  <2>5. ao[o].filled_quantity <= lo[o].filled_quantity
    <3>1. CASE ao[o].filled_quantity = 0
      BY <1>2, <2>1, <3>1
    <3>2. CASE ao[o].filled_quantity # 0
      <4>1. ao[o].filled_quantity \in 1 .. ao[o].filled_quantity
        BY <1>2, <3>2
      <4> QED
        BY <2>4, <4>1
    <3> QED
      BY <3>1, <3>2
  <2>6. CASE lo[o].status # "FILLED"
    <3>1. lo[o].filled_quantity = ao[o].filled_quantity /\ ao[o].status # "BUSTED"
      BY <1>2, <2>1, <2>3, <2>5, <2>6 DEF Followed
    <3>2. lo[o].status = ao[o].status /\ lo[o].terms = ao[o].terms
          /\ lo[o].broker_order_id = ao[o].broker_order_id
      BY <1>2, <2>3, <3>1 DEF Followed, AccountOrder, Identified
    <3> QED
      BY <1>2, <1>5, <2>1, <3>1, <3>2 DEF OrderProjection
  <2>7. CASE lo[o].status = "FILLED"
    <3>1. lo[o].filled_quantity = Terms[o].quantity /\ Terms[o].quantity \in Nat \ {0}
      BY <1>2, <2>3, <2>7, TermsTypes DEF Followed, StatusOf
    <3>2. Terms[o].quantity \in 1 .. lo[o].filled_quantity
      BY <3>1
    <3>3. PICK i \in 1 .. lo[o].filled_quantity : \E m \in 1 .. i :
              Fill(o, i, m) \in lf /\ i - m < Terms[o].quantity /\ Terms[o].quantity <= i
      BY <1>1, <1>5, <3>2 DEF LocalFills, Covered
    <3>4. PICK m \in 1 .. i : Fill(o, i, m) \in lf
      BY <3>3
    <3>5. i = Terms[o].quantity
      BY <3>1, <3>3
    <3>6. PICK p \in DOMAIN ao : \E k \in 1 .. ao[p].filled_quantity : Fill(o, i, m) = Fill(p, k, 1)
      BY <1>1, <3>4 DEF AccountFills
    <3>7. PICK k \in 1 .. ao[p].filled_quantity : Fill(o, i, m) = Fill(p, k, 1)
      BY <3>6
    <3>8. p = o /\ k = i
      BY <3>7 DEF Fill
    <3>9. ao[o].filled_quantity = Terms[o].quantity
      BY <1>2, <2>1, <2>5, <3>1, <3>5, <3>7, <3>8
    <3>10. ao[o].status = "FILLED"
      BY <1>2, <3>1, <3>9 DEF AccountOrder, StatusOf
    <3>11. lo[o].terms = ao[o].terms /\ lo[o].broker_order_id = ao[o].broker_order_id
      BY <1>2, <2>3 DEF Followed, AccountOrder, Identified
    <3> QED
      BY <1>2, <1>5, <2>1, <2>7, <3>1, <3>9, <3>10, <3>11 DEF OrderProjection
  <2> QED
    BY <2>6, <2>7
<1> QED
  BY <1>4, <1>5

\* With the same fills on both sides, cash and positions agree if and only if the
\* ledger refused nothing and what was moved is within the tolerances: a refusal
\* leaves positions and takes cash that no deposit, withdrawal or transfer makes good.
LEMMA BooksMatch ==
    ASSUME Typed, TradingInv, TradesExceedTolerances, local.fills = account.fills
    PROVE  ~CashDiffers(local, account) /\ ~PositionsDiffer(local, account)
             <=> Within(outside) /\ LedgerFollows
<1> DEFINE refused(s) == Refused(local, s)
           unpaid == Unpaid(local)
<1>1. /\ local.cash \in Int /\ account.cash \in Int
      /\ local.positions \in [Symbols -> Int] /\ account.positions \in [Symbols -> Int]
      /\ local.fills \in SUBSET FillKey /\ IsFiniteSet(local.fills)
      /\ outside.cash \in Int /\ outside.positions \in [Symbols -> Int]
      /\ StartNav \in Int /\ cash_tolerance \in Nat /\ position_tolerance \in Nat
      /\ position_tolerance = 0
  BY SideTypes, ControlsAssumption, ToleranceAssumption
     DEF Typed, TradingInv, LocalBooks, TradesExceedTolerances
<1>2. Spent(local.fills) \in Int /\ \A s : Traded(local.fills, s) \in Int
  BY <1>1, SumsAreTyped
<1>3. unpaid \in Int /\ \A s \in Symbols : refused(s) \in Int /\ refused(s) >= 0
  BY <1>1, <1>2 DEF Unpaid, Refused, TradingInv, LocalBooks
<1>4. local.cash - account.cash = -(outside.cash + unpaid)
  <2> DEFINE spent == Spent(local.fills)
             out == outside.cash
             here == local.cash
             there == account.cash
  <2>1. there = StartNav - spent + out /\ unpaid = StartNav - spent - here
        /\ spent \in Int /\ out \in Int /\ here \in Int
    BY <1>1, <1>2 DEF TradingInv, AccountBooks, Unpaid
  <2>2. here - there = -(out + unpaid)
    <3> HIDE DEF spent, out, here, there, unpaid
    <3> QED
      BY <1>1, <2>1
  <2> QED
    BY <2>2
<1>5. ASSUME NEW s \in Symbols
      PROVE  local.positions[s] - account.positions[s] = refused(s) - outside.positions[s]
  <2> DEFINE sum == Traded(local.fills, s)
             out == outside.positions[s]
             here == local.positions[s]
             there == account.positions[s]
  <2>1. there = sum + out /\ refused(s) = here - sum /\ sum \in Int /\ out \in Int /\ here \in Int
    BY <1>1, <1>2 DEF TradingInv, AccountBooks, Refused
  <2>2. here - there = refused(s) - out
    <3> HIDE DEF sum, out, here, there, refused
    <3> QED
      BY <2>1
  <2> QED
    BY <2>2
<1>6. /\ unpaid >= 0
      /\ unpaid # 0 <=> \E s \in Symbols : refused(s) # 0
      /\ unpaid # 0 => \E o \in Orders : unpaid >= Terms[o].price
  BY DEF TradingInv, LocalBooks
<1>7. LedgerFollows <=> \A s \in Symbols : refused(s) = 0
  <2>1. ASSUME NEW s \in Symbols PROVE local.positions[s] = Traded(local.fills, s) <=> refused(s) = 0
    <3>1. local.positions[s] \in Int /\ Traded(local.fills, s) \in Int
      BY <1>1, <1>2
    <3> QED
      BY <3>1 DEF Refused
  <2> HIDE DEF refused
  <2> QED
    BY <2>1 DEF LedgerFollows
<1>8. ~CashDiffers(local, account) <=> Magnitude(outside.cash + unpaid) <= cash_tolerance
  <2> DEFINE d == outside.cash + unpaid
  <2>1. d \in Int /\ Magnitude(-d) = Magnitude(d) /\ Magnitude(d) \in Int
    <3>1. d \in Int
      BY <1>1, <1>3
    <3> HIDE DEF d
    <3> QED
      BY <3>1 DEF Magnitude
  <2>2. CashDiffers(local, account) <=> Magnitude(-d) > cash_tolerance
    BY <1>4 DEF CashDiffers
  <2> HIDE DEF d
  <2>3. ~CashDiffers(local, account) <=> Magnitude(d) <= cash_tolerance
    BY <1>1, <2>1, <2>2
  <2> QED
    BY <2>3 DEF d
<1>9. ~PositionsDiffer(local, account) <=> \A s \in Symbols : outside.positions[s] = refused(s)
  <2>1. ASSUME NEW s \in Symbols
        PROVE  Magnitude(Get(local.positions, s) - Get(account.positions, s)) > position_tolerance
                 <=> outside.positions[s] # refused(s)
    <3>1. Get(local.positions, s) = local.positions[s] /\ Get(account.positions, s) = account.positions[s]
      BY <1>1 DEF Get
    <3> DEFINE r == refused(s)
               out == outside.positions[s]
    <3>2. r \in Int /\ out \in Int
      BY <1>1, <1>3
    <3>3. Magnitude(Get(local.positions, s) - Get(account.positions, s)) = Magnitude(r - out)
      BY <1>5, <3>1
    <3>4. Magnitude(r - out) > 0 <=> out # r
      <4> HIDE DEF r, out
      <4> QED
        BY <3>2 DEF Magnitude
    <3> QED
      BY <1>1, <3>3, <3>4
  <2> HIDE DEF refused
  <2> QED
    BY <2>1 DEF PositionsDiffer
<1>10. \A s \in Symbols : outside.positions[s] \in Int
                           /\ (Magnitude(outside.positions[s]) <= position_tolerance <=> outside.positions[s] = 0)
  BY <1>1 DEF Magnitude
<1>11. Within(outside) <=> Magnitude(outside.cash) <= cash_tolerance
                            /\ \A s \in Symbols : outside.positions[s] = 0
  BY <1>10 DEF Within
<1>12. ~IsPurchase(outside)
  <2>1. CASE outside = Flat
    BY <2>1 DEF Flat, IsPurchase
  <2>2. CASE outside \in Moves
    BY <2>2, ControlsAssumption
  <2> QED
    BY <2>1, <2>2 DEF TradingInv
<1>13. \A o \in Orders : Terms[o].price > cash_tolerance /\ Terms[o].price \in Nat
  BY <1>1, TermsTypes DEF TradesExceedTolerances
<1> HIDE DEF refused, unpaid
<1>14. ASSUME ~CashDiffers(local, account), ~PositionsDiffer(local, account)
       PROVE  Within(outside) /\ LedgerFollows
  <2>1. Magnitude(outside.cash + unpaid) <= cash_tolerance
        /\ \A s \in Symbols : outside.positions[s] = refused(s)
    BY <1>8, <1>9, <1>14
  <2>2. unpaid = 0
    <3> SUFFICES ASSUME unpaid # 0 PROVE FALSE
      OBVIOUS
    <3>1. unpaid > cash_tolerance
      <4>1. PICK o \in Orders : unpaid >= Terms[o].price
        BY <1>6
      <4> QED
        BY <1>1, <1>3, <1>13, <4>1
    <3>2. outside.cash < 0
      BY <1>1, <1>3, <2>1, <3>1 DEF Magnitude
    <3>3. \A s \in Symbols : refused(s) >= 0 /\ ~refused(s) > 0
      BY <1>3, <1>12, <2>1, <3>2 DEF IsPurchase
    <3>4. \A s \in Symbols : refused(s) = 0
      BY <1>3, <3>3
    <3> QED
      BY <1>6, <3>4
  <2>3. \A s \in Symbols : refused(s) = 0
    BY <1>6, <2>2
  <2>4. Magnitude(outside.cash) <= cash_tolerance
    <3>1. outside.cash + unpaid = outside.cash
      BY <1>1, <2>2
    <3> QED
      BY <2>1, <3>1
  <2> QED
    BY <1>7, <1>11, <2>1, <2>3, <2>4
<1>15. ASSUME Within(outside), LedgerFollows
       PROVE  ~CashDiffers(local, account) /\ ~PositionsDiffer(local, account)
  <2>1. (\A s \in Symbols : refused(s) = 0 /\ outside.positions[s] = 0) /\ unpaid = 0
    BY <1>6, <1>7, <1>11, <1>15
  <2>2. outside.cash + unpaid = outside.cash
    BY <1>1, <2>1
  <2> QED
    BY <1>8, <1>9, <1>11, <1>15, <2>1, <2>2
<1> QED
  BY <1>14, <1>15

LEMMA MatchedInSync == Typed /\ TradingInv => MatchedMeansInSync
<1> SUFFICES ASSUME Typed, TradingInv, TradesExceedTolerances
             PROVE  reconcile(local, account) = {} <=> InSync
  BY DEF MatchedMeansInSync
<1>1. reconcile(local, account) = {} <=>
        /\ ~CashDiffers(local, account) /\ ~PositionsDiffer(local, account)
        /\ _normalize_orders(OpenOrders(local.orders)) = _normalize_orders(OpenOrders(account.orders))
        /\ account.fills \ local.fills = {} /\ MissingFills(local, account) = {}
  BY DEF reconcile
<1>2. account.fills \ local.fills = {} /\ MissingFills(local, account) = {}
        <=> local.fills = account.fills
  BY DEF MissingFills
<1>3. ASSUME local.fills = account.fills PROVE SeenOneByOne
  <2> SUFFICES ASSUME NEW f \in account.fills PROVE f.quantity = 1
    BY <1>3 DEF SeenOneByOne
  <2>1. f \in FillKey
    BY SideTypes DEF Typed
  <2>2. PICK o \in DOMAIN account.orders : \E k \in 1 .. account.orders[o].filled_quantity : f = Fill(o, k, 1)
    BY <2>1 DEF TradingInv, AccountFills
  <2> QED
    BY <2>2 DEF Fill
<1>4. ASSUME InSync PROVE reconcile(local, account) = {}
  BY <1>1, <1>2, <1>4, SameFills, KnownMatch, BooksMatch DEF InSync
<1>5. ASSUME reconcile(local, account) = {} PROVE InSync
  BY <1>1, <1>2, <1>3, <1>5, MatchKnows, BooksMatch DEF InSync
<1> QED
  BY <1>4, <1>5

\* Reconciliation matches exactly when the process knows everything the broker did,
\* for any orders, terms, prices and moves of the account, however long the two have
\* drifted apart and come together again: no error cancels out with another.
\* (reconcile.)
THEOREM MatchIsSync == Spec => []MatchedMeansInSync
BY TradingInvariant, MatchedInSync, PTL
=============================================================================
