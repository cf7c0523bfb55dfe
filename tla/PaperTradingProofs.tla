-------------------------- MODULE PaperTradingProofs --------------------------
(***************************************************************************)
(* What the simulated execution path keeps, for any portfolio, policies,    *)
(* intents, faults and number of restarts: an intent is executed at most    *)
(* once, cash covers what it pays for, the books are the fills, executed    *)
(* orders are paid, and the store is the books while nothing fails.         *)
(***************************************************************************)
EXTENDS PaperTrading, SequenceTheorems, SumTheorems, TLAPS

\* Before an order is executed, and while it is being executed.
Unfilled == Underway \ {"CANCEL_REQUESTED"}
Busy == {"upsert", "step", "cash", "snapshot", "settle"}

\* The shape of the variables the argument is about.  Amounts need only be whole
\* numbers here.
StoredFill == [order : Orders, intent : Ids, symbol : Symbols, side : {"BUY", "SELL"},
               qty : Int, price : Int, fee : Int]
Shape ==
    /\ rows \in [Orders -> Row \cup {NoRow}]
    /\ mem \in [Orders -> Row \cup {NoRow}]
    /\ sfills \in Seq(StoredFill)
    /\ prices \in [Symbols -> Int]
    /\ policy \in Policies
    /\ ctl \in [pc : Busy \cup {"down", "idle"}, cur : Orders \cup {NoOrder}]

\* What the unique column gives: no two rows of one intent.
RowsUnique ==
    \A p, q \in Orders :
        rows[p] # NoRow /\ rows[q] # NoRow /\ rows[p].intent = rows[q].intent => p = q

\* A row and the order in memory are of the same intent.
SameIntent ==
    \A o \in Orders : rows[o] # NoRow /\ mem[o] # NoRow => rows[o].intent = mem[o].intent

\* A stored fill is one of an order that has a row, and whose filled quantity in
\* memory says so as long as the order is there.
FillsHaveRows ==
    \A k \in DOMAIN sfills :
        /\ rows[sfills[k].order] # NoRow
        /\ rows[sfills[k].order].intent = sfills[k].intent
        /\ mem[sfills[k].order] # NoRow => mem[sfills[k].order].filled > 0

OneFillPerOrder ==
    \A j, k \in DOMAIN sfills : sfills[j].order = sfills[k].order => j = k

\* The order of the call in progress: it is in memory, it has a row once the
\* first upsert is done, and nothing is filled before the fill.
CallOK ==
    ctl.pc \in Busy =>
        /\ cur \in Orders
        /\ mem[cur] # NoRow
        /\ ctl.pc # "upsert" => rows[cur] # NoRow
        /\ ctl.pc \in {"upsert", "step"} /\ mem[cur].status \in Unfilled => mem[cur].filled = 0

IInv == Shape /\ RowsUnique /\ SameIntent /\ FillsHaveRows /\ OneFillPerOrder /\ CallOK

\* The invariant says what the property asks for.
LEMMA InvariantImplies == IInv => IntentExecutedOnce
<1> SUFFICES ASSUME IInv, NEW j \in DOMAIN sfills, NEW k \in DOMAIN sfills,
                    sfills[j].intent = sfills[k].intent
             PROVE  j = k
  BY DEF IntentExecutedOnce
<1>1. sfills[j].order \in Orders /\ sfills[k].order \in Orders
  <2>1. sfills \in Seq(StoredFill)
    BY DEF IInv, Shape
  <2>2. sfills[j] \in StoredFill /\ sfills[k] \in StoredFill
    BY <2>1
  <2> QED
    BY <2>2 DEF StoredFill
<1>2. sfills[j].order = sfills[k].order
  BY <1>1 DEF IInv, FillsHaveRows, RowsUnique
<1> QED
  BY <1>2 DEF IInv, OneFillPerOrder

LEMMA InitialInvariant == Init => IInv
<1> SUFFICES ASSUME Init PROVE IInv
  OBVIOUS
<1>1. Shape
  BY PaperAssumption DEF Init, LedgerInit, Shape, Idle, Busy
<1>2. RowsUnique /\ SameIntent
  BY DEF Init, RowsUnique, SameIntent
<1>3. FillsHaveRows /\ OneFillPerOrder
  BY DEF Init, FillsHaveRows, OneFillPerOrder
<1>4. CallOK
  BY DEF Init, CallOK, Idle, Busy
<1> QED
  BY <1>1, <1>2, <1>3, <1>4 DEF IInv

-----------------------------------------------------------------------------
\* Moves stay within the statuses, and none leads back before the execution.
LEMMA MovesForward ==
    ASSUME NEW s \in OrderStatus, NEW t \in ALLOWED_TRANSITIONS[s]
    PROVE  t \in OrderStatus /\ (t \in Unfilled => s \in Unfilled)
BY DEF OrderStatus, ALLOWED_TRANSITIONS, Unfilled, Underway

\* Recording an event of an order that is new, or keeps its intent and does not
\* lose what is filled of it.
LEMMA RecordStep ==
    ASSUME IInv, NEW o \in Orders, NEW p \in Row, Record(o, p), UNCHANGED <<prices, policy>>,
           mem[o] = NoRow => rows[o] = NoRow,
           mem[o] # NoRow => p.intent = mem[o].intent /\ p.filled = mem[o].filled,
           p.status \in Unfilled => p.filled = 0
    PROVE  IInv'
<1>1. /\ mem' = [mem EXCEPT ![o] = p]
      /\ rows' = rows /\ sfills' = sfills
      /\ ctl' = [pc |-> "upsert", cur |-> o] \/ ctl' = [pc |-> "idle", cur |-> NoOrder]
  BY DEF Record, StoreFails, storeVars, Idle
<1>2. p # NoRow
  BY PaperNullAssumption
<1>3. mem \in [Orders -> Row \cup {NoRow}]
  BY DEF IInv, Shape
<1>4. mem'[o] = p /\ \A q \in Orders : q # o => mem'[q] = mem[q]
  BY <1>1, <1>3
<1>5. Shape'
  <2>1. mem' \in [Orders -> Row \cup {NoRow}]
    BY <1>1, <1>3
  <2>2. ctl' \in [pc : Busy \cup {"down", "idle"}, cur : Orders \cup {NoOrder}]
    BY <1>1 DEF Busy
  <2> QED
    BY <1>1, <2>1, <2>2 DEF IInv, Shape
<1>6. RowsUnique' /\ OneFillPerOrder'
  BY <1>1 DEF IInv, RowsUnique, OneFillPerOrder
<1>7. SameIntent'
  BY <1>1, <1>4 DEF IInv, SameIntent
<1>8. FillsHaveRows'
  <2> SUFFICES ASSUME NEW k \in DOMAIN sfills
               PROVE  /\ rows[sfills[k].order] # NoRow
                      /\ rows[sfills[k].order].intent = sfills[k].intent
                      /\ mem'[sfills[k].order] # NoRow => mem'[sfills[k].order].filled > 0
    BY <1>1 DEF FillsHaveRows
  <2>1. sfills[k].order \in Orders
    <3>1. sfills \in Seq(StoredFill)
      BY DEF IInv, Shape
    <3>2. sfills[k] \in StoredFill
      BY <3>1
    <3> QED
      BY <3>2 DEF StoredFill
  <2>2. /\ rows[sfills[k].order] # NoRow
        /\ rows[sfills[k].order].intent = sfills[k].intent
        /\ mem[sfills[k].order] # NoRow => mem[sfills[k].order].filled > 0
    BY DEF IInv, FillsHaveRows
  <2>3. CASE sfills[k].order = o
    BY <2>2, <2>3, <1>4
  <2>4. CASE sfills[k].order # o
    BY <2>1, <2>2, <2>4, <1>4
  <2> QED
    BY <2>3, <2>4
<1>9. CallOK'
  <2>1. CASE ctl' = [pc |-> "upsert", cur |-> o]
    BY <2>1, <1>1, <1>2, <1>4 DEF CallOK, cur
  <2>2. CASE ctl' = [pc |-> "idle", cur |-> NoOrder]
    BY <2>2 DEF CallOK, Busy
  <2> QED
    BY <1>1, <2>1, <2>2
<1> QED
  BY <1>5, <1>6, <1>7, <1>8, <1>9 DEF IInv

\* A move of an order in memory.
LEMMA MoveStep ==
    ASSUME IInv, NEW o \in Orders, NEW status, Move(o, status), UNCHANGED <<prices, policy>>,
           mem[o] # NoRow,
           mem[o].status \in Unfilled /\ status \in Unfilled => mem[o].filled = 0
    PROVE  IInv'
<1>1. mem[o] \in Row
  BY DEF IInv, Shape
<1>2. mem[o].status \in OrderStatus
  BY <1>1 DEF Row
<1>3. status \in OrderStatus /\ (status \in Unfilled => mem[o].status \in Unfilled)
  BY <1>2, MovesForward DEF Move
<1> DEFINE p == [mem[o] EXCEPT !.status = status]
<1>4. p \in Row /\ p.intent = mem[o].intent /\ p.filled = mem[o].filled /\ p.status = status
  BY <1>1, <1>3 DEF Row
<1>5. Record(o, p)
  BY DEF Move
<1> HIDE DEF p
<1> QED
  BY <1>3, <1>4, <1>5, RecordStep

\* A step that leaves rows, fills, prices and orders in memory alone, and either
\* ends the call or goes on past the fill.
LEMMA QuietStep ==
    ASSUME IInv, UNCHANGED <<rows, mem, sfills, prices, policy>>,
           \/ UNCHANGED ctl
           \/ ctl' \in [pc : {"idle", "down"}, cur : {NoOrder}]
           \/ /\ ctl.pc \in {"cash", "snapshot"}
              /\ ctl' \in [pc : {"snapshot", "settle"}, cur : {cur}]
    PROVE  IInv'
<1>1. Shape'
  <2>1. ctl' \in [pc : Busy \cup {"down", "idle"}, cur : Orders \cup {NoOrder}]
    BY DEF IInv, Shape, Busy, cur
  <2> QED
    BY <2>1 DEF IInv, Shape
<1>2. RowsUnique' /\ SameIntent' /\ FillsHaveRows' /\ OneFillPerOrder'
  BY DEF IInv, RowsUnique, SameIntent, FillsHaveRows, OneFillPerOrder
<1>3. CallOK'
  BY DEF IInv, CallOK, Busy, cur
<1> QED
  BY <1>1, <1>2, <1>3 DEF IInv

-----------------------------------------------------------------------------
\* One lemma per action.
LEMMA SubmitStep == ASSUME IInv, NEW i \in Ids, Submit(i) PROVE IInv'
<1> DEFINE o == CHOOSE new_id \in Fresh : TRUE
           p == [intent |-> i, status |-> "PLANNED", filled |-> 0]
<1>1. o \in Fresh
  BY DEF Submit
<1>2. o \in Orders /\ rows[o] = NoRow /\ mem[o] = NoRow
  BY <1>1 DEF Fresh
<1>3. Record(o, p) /\ UNCHANGED <<prices, policy>>
  BY DEF Submit, bookVars
<1>4. p \in Row /\ p.filled = 0
  BY DEF Row, OrderStatus
<1> HIDE DEF o, p
<1> QED
  BY <1>2, <1>3, <1>4, RecordStep

LEMMA AdvanceStep == ASSUME IInv, Advance PROVE IInv'
<1>1. cur \in Orders /\ mem[cur] # NoRow /\ (mem[cur].status \in Unfilled => mem[cur].filled = 0)
  BY DEF Advance, IInv, CallOK, Busy
<1>2. Move(cur, NextStatus(mem[cur].status)) /\ UNCHANGED <<prices, policy>>
  BY DEF Advance, bookVars
<1> QED
  BY <1>1, <1>2, MoveStep

LEMMA SettleStep == ASSUME IInv, Settle PROVE IInv'
<1> DEFINE status == IF mem[cur].filled = Order.qty THEN "FILLED" ELSE "PARTIALLY_FILLED"
<1>1. cur \in Orders /\ mem[cur] # NoRow
  BY DEF Settle, IInv, CallOK, Busy
<1>2. status \notin Unfilled
  BY DEF Unfilled, Underway
<1>3. Move(cur, status) /\ UNCHANGED <<prices, policy>>
  BY DEF Settle, bookVars
<1> HIDE DEF status
<1> QED
  BY <1>1, <1>2, <1>3, MoveStep

LEMMA CancelStep == ASSUME IInv, NEW o \in Orders, Cancel(o) PROVE IInv'
<1>1. "CANCEL_REQUESTED" \notin Unfilled
  BY DEF Unfilled, Underway
<1>2. mem[o] # NoRow /\ Move(o, "CANCEL_REQUESTED") /\ UNCHANGED <<prices, policy>>
  BY DEF Cancel, bookVars
<1> QED
  BY <1>1, <1>2, MoveStep

LEMMA UpsertStep == ASSUME IInv, Upsert PROVE IInv'
<1>1. cur \in Orders /\ mem[cur] # NoRow
  BY DEF Upsert, IInv, CallOK, Busy
<1>2. UNCHANGED <<mem, sfills, prices, policy>>
  BY DEF Upsert, StoreFails, storeVars, bookVars
<1>3. CASE rows' = rows /\ ctl' = Idle
  BY <1>2, <1>3, QuietStep DEF Idle
<1>4. CASE /\ ~IntentTaken
           /\ rows' = [rows EXCEPT ![cur] = mem[cur]]
           /\ AfterUpsert
  <2>1. rows \in [Orders -> Row \cup {NoRow}] /\ mem[cur] \in Row
    BY <1>1 DEF IInv, Shape
  <2>2. rows'[cur] = mem[cur] /\ \A q \in Orders : q # cur => rows'[q] = rows[q]
    BY <1>1, <1>4, <2>1
  <2>3. ctl' = [pc |-> "step", cur |-> cur] \/ ctl' = Idle
    <3>1. ctl \in [pc : Busy \cup {"down", "idle"}, cur : Orders \cup {NoOrder}]
      BY DEF IInv, Shape
    <3> QED
      BY <1>4, <3>1 DEF AfterUpsert, cur
  <2>4. Shape'
    <3>1. rows' \in [Orders -> Row \cup {NoRow}]
      BY <1>4, <2>1
    <3>2. ctl' \in [pc : Busy \cup {"down", "idle"}, cur : Orders \cup {NoOrder}]
      BY <1>1, <2>3 DEF Busy, Idle
    <3> QED
      BY <1>2, <3>1, <3>2 DEF IInv, Shape
  <2>5. RowsUnique'
    <3>1. \A q \in Orders : q # cur /\ rows[q] # NoRow => rows[q].intent # mem[cur].intent
      BY <1>4 DEF IntentTaken
    <3> QED
      BY <1>1, <2>2, <3>1 DEF IInv, RowsUnique
  <2>6. SameIntent'
    BY <1>2, <2>2 DEF IInv, SameIntent
  <2>7. FillsHaveRows'
    <3> SUFFICES ASSUME NEW k \in DOMAIN sfills
                 PROVE  /\ rows'[sfills[k].order] # NoRow
                        /\ rows'[sfills[k].order].intent = sfills[k].intent
                        /\ mem[sfills[k].order] # NoRow => mem[sfills[k].order].filled > 0
      BY <1>2 DEF FillsHaveRows
    <3>1. sfills[k].order \in Orders
      <4>1. sfills \in Seq(StoredFill)
        BY DEF IInv, Shape
      <4>2. sfills[k] \in StoredFill
        BY <4>1
      <4> QED
        BY <4>2 DEF StoredFill
    <3>2. /\ rows[sfills[k].order] # NoRow
          /\ rows[sfills[k].order].intent = sfills[k].intent
          /\ mem[sfills[k].order] # NoRow => mem[sfills[k].order].filled > 0
      BY DEF IInv, FillsHaveRows
    <3>3. CASE sfills[k].order = cur
      BY <1>1, <2>2, <3>2, <3>3 DEF IInv, SameIntent
    <3>4. CASE sfills[k].order # cur
      BY <2>2, <3>1, <3>2, <3>4
    <3> QED
      BY <3>3, <3>4
  <2>8. OneFillPerOrder'
    BY <1>2 DEF IInv, OneFillPerOrder
  <2>9. CallOK'
    <3>1. CASE ctl' = [pc |-> "step", cur |-> cur]
      <4>1. ctl.pc = "upsert"
        BY DEF Upsert
      <4>2. mem[cur].status \in Unfilled => mem[cur].filled = 0
        BY <4>1 DEF IInv, CallOK, Busy
      <4>3. cur' = cur /\ ctl'.pc = "step"
        BY <3>1 DEF cur
      <4> QED
        BY <1>1, <1>2, <2>2, <4>2, <4>3 DEF CallOK
    <3>2. CASE ctl' = Idle
      BY <3>2 DEF CallOK, Busy, Idle
    <3> QED
      BY <2>3, <3>1, <3>2
  <2> QED
    BY <2>4, <2>5, <2>6, <2>7, <2>8, <2>9 DEF IInv
<1>5. \/ rows' = rows /\ ctl' = Idle
      \/ (~IntentTaken /\ rows' = [rows EXCEPT ![cur] = mem[cur]] /\ AfterUpsert)
  BY DEF Upsert, StoreFails, storeVars
<1> QED
  BY <1>3, <1>4, <1>5

\* The fill: the state machine, the ledger and the store, as far as each gets.
LEMMA RecordFillStep == ASSUME IInv, RecordFill PROVE IInv'
<1>1. /\ cur \in Orders /\ mem[cur] # NoRow /\ rows[cur] # NoRow
      /\ mem[cur].status = "WORKING" /\ mem[cur].filled = 0
      /\ ctl.pc = "step"
  BY DEF RecordFill, IInv, CallOK, Busy, Unfilled, Underway
<1>2. UNCHANGED <<rows, policy>>
  BY DEF RecordFill, Keep, StoreFails, storeVars
<1>3. CASE ctl' = Idle /\ UNCHANGED <<storeVars, bookVars, mem, budget>>
  BY <1>2, <1>3, QuietStep DEF Idle, storeVars, bookVars
<1>4. CASE /\ FillQuantity > 0
           /\ mem' = [mem EXCEPT ![cur].filled = FillQuantity]
           /\ \/ Keep(TheFill)
              \/ ctl' = Idle /\ UNCHANGED <<sfills, prices>>
  <2>1. mem[cur] \in Row /\ mem \in [Orders -> Row \cup {NoRow}] /\ prices \in [Symbols -> Int]
        /\ policy \in Policies
    BY <1>1 DEF IInv, Shape
  <2>2. Order \in [symbol : Symbols, side : {"BUY", "SELL"}, qty : Nat \ {0}]
    BY <2>1, PaperAssumption DEF Order, Row
  <2>3. FillQuantity \in Int /\ FillPrice \in Int /\ Fee \in Int
    <3>1. policy.ratio \in Int /\ Rate \in Nat \ {0} /\ Slippage \in Int /\ Commission \in Int
          /\ Scale \in Nat \ {0}
      BY <2>1, PaperAssumption, LedgerAssumption
    <3>2. \A a \in Int, b \in Nat \ {0} : HalfUp(a, b) \in Int
      BY DEF HalfUp
    <3>3. FillQuantity \in Int
      BY <2>2, <3>1, <3>2 DEF FillQuantity
    <3>4. FillPrice \in Int
      <4>1. prices[Order.symbol] \in Int
        BY <2>1, <2>2
      <4>2. (IF Order.side = "BUY" THEN Rate + Slippage ELSE Rate - Slippage) \in Int
        BY <3>1
      <4> DEFINE f == IF Order.side = "BUY" THEN Rate + Slippage ELSE Rate - Slippage
      <4>3. f \in Int
        BY <4>2
      <4> HIDE DEF f
      <4>4. prices[Order.symbol] * f \in Int
        BY <4>1, <4>3
      <4>5. HalfUp(prices[Order.symbol] * f, Rate) \in Int
        BY <3>1, <3>2, <4>4
      <4> QED
        BY <4>5 DEF FillPrice, f
    <3>5. Fee \in Int
      <4>1. Order.qty * FillPrice * Commission \in Int
        BY <2>2, <3>1, <3>4
      <4>2. Scale * Rate \in Nat \ {0}
        BY <3>1
      <4> QED
        BY <3>2, <4>1, <4>2 DEF Fee
    <3> QED
      BY <3>3, <3>4, <3>5
  <2>4. TheFill \in StoredFill /\ TheFill.order = cur /\ TheFill.intent = mem[cur].intent
    BY <1>1, <2>1, <2>2, <2>3 DEF TheFill, StoredFill, Row
  <2>5. mem'[cur] \in Row /\ mem'[cur].filled > 0 /\ mem'[cur].intent = mem[cur].intent
        /\ mem'[cur].status = "WORKING" /\ \A q \in Orders : q # cur => mem'[q] = mem[q]
    BY <1>1, <1>4, <2>1, <2>3 DEF Row
  <2>6. mem'[cur] # NoRow
    BY <2>5, PaperNullAssumption
  <2>7. mem' \in [Orders -> Row \cup {NoRow}]
    BY <1>1, <1>4, <2>1, <2>5
  <2>8. \/ ctl' = [pc |-> "cash", cur |-> cur] /\ sfills' = Append(sfills, TheFill)
        \/ ctl' = Idle /\ sfills' = sfills
    <3>1. ctl \in [pc : Busy \cup {"down", "idle"}, cur : Orders \cup {NoOrder}]
      BY DEF IInv, Shape
    <3> QED
      BY <1>4, <3>1 DEF Keep, Goto, StoreFails, storeVars, cur
  <2>9. prices' \in [Symbols -> Int]
    <3>1. TheFill.symbol \in Symbols /\ TheFill.price \in Int
      BY <2>4 DEF StoredFill
    <3> QED
      BY <1>4, <2>1, <3>1 DEF Keep
  <2>10. sfills \in Seq(StoredFill)
    BY DEF IInv, Shape
  <2>11. Shape'
    <3>1. sfills' \in Seq(StoredFill)
      BY <2>4, <2>8, <2>10
    <3>2. ctl' \in [pc : Busy \cup {"down", "idle"}, cur : Orders \cup {NoOrder}]
      BY <1>1, <2>8 DEF Busy, Idle
    <3> QED
      BY <1>2, <2>7, <2>9, <3>1, <3>2 DEF IInv, Shape
  <2>12. RowsUnique'
    BY <1>2 DEF IInv, RowsUnique
  <2>13. SameIntent'
    BY <1>1, <1>2, <2>5 DEF IInv, SameIntent
  <2>14. \A k \in DOMAIN sfills :
            /\ sfills[k].order \in Orders /\ sfills[k].order # cur
            /\ rows[sfills[k].order] # NoRow
            /\ rows[sfills[k].order].intent = sfills[k].intent
            /\ mem'[sfills[k].order] # NoRow => mem'[sfills[k].order].filled > 0
    <3> SUFFICES ASSUME NEW k \in DOMAIN sfills
                 PROVE  /\ sfills[k].order \in Orders /\ sfills[k].order # cur
                        /\ rows[sfills[k].order] # NoRow
                        /\ rows[sfills[k].order].intent = sfills[k].intent
                        /\ mem'[sfills[k].order] # NoRow => mem'[sfills[k].order].filled > 0
      OBVIOUS
    <3>1. sfills[k] \in StoredFill
      BY <2>10
    <3>2. /\ rows[sfills[k].order] # NoRow
          /\ rows[sfills[k].order].intent = sfills[k].intent
          /\ mem[sfills[k].order] # NoRow => mem[sfills[k].order].filled > 0
      BY DEF IInv, FillsHaveRows
    <3>3. sfills[k].order \in Orders
      BY <3>1 DEF StoredFill
    <3>4. sfills[k].order # cur
      BY <1>1, <3>2
    <3> QED
      BY <2>5, <3>2, <3>3, <3>4
  <2>15. FillsHaveRows' /\ OneFillPerOrder'
    <3>1. CASE sfills' = sfills
      BY <1>2, <2>14, <3>1 DEF IInv, FillsHaveRows, OneFillPerOrder
    <3>2. CASE sfills' = Append(sfills, TheFill)
      <4>1. /\ DOMAIN sfills' = DOMAIN sfills \cup {Len(sfills) + 1}
            /\ sfills'[Len(sfills) + 1] = TheFill
            /\ \A k \in DOMAIN sfills : sfills'[k] = sfills[k]
        BY <2>4, <2>10, <3>2
      <4>2. rows[cur].intent = TheFill.intent
        BY <1>1, <2>4 DEF IInv, SameIntent
      <4>3. FillsHaveRows'
        BY <1>1, <1>2, <2>4, <2>5, <2>14, <4>1, <4>2 DEF FillsHaveRows
      <4>4. OneFillPerOrder'
        <5> SUFFICES ASSUME NEW j \in DOMAIN sfills', NEW k \in DOMAIN sfills',
                            sfills'[j].order = sfills'[k].order
                     PROVE  j = k
          BY DEF OneFillPerOrder
        <5>1. CASE j \in DOMAIN sfills /\ k \in DOMAIN sfills
          BY <4>1, <5>1 DEF IInv, OneFillPerOrder
        <5>2. CASE j \in DOMAIN sfills /\ k = Len(sfills) + 1
          BY <2>4, <2>14, <4>1, <5>2
        <5>3. CASE j = Len(sfills) + 1 /\ k \in DOMAIN sfills
          BY <2>4, <2>14, <4>1, <5>3
        <5> QED
          BY <4>1, <5>1, <5>2, <5>3
      <4> QED
        BY <4>3, <4>4
    <3> QED
      BY <2>8, <3>1, <3>2
  <2>16. CallOK'
    <3>1. CASE ctl' = [pc |-> "cash", cur |-> cur]
      <4>1. cur' = cur /\ ctl'.pc = "cash"
        BY <3>1 DEF cur
      <4> QED
        BY <1>1, <1>2, <2>6, <4>1 DEF CallOK
    <3>2. CASE ctl' = Idle
      BY <3>2 DEF CallOK, Busy, Idle
    <3> QED
      BY <2>8, <3>1, <3>2
  <2> QED
    BY <2>11, <2>12, <2>13, <2>15, <2>16 DEF IInv
<1>5. \/ ctl' = Idle /\ UNCHANGED <<storeVars, bookVars, mem, budget>>
      \/ /\ FillQuantity > 0
         /\ mem' = [mem EXCEPT ![cur].filled = FillQuantity]
         /\ \/ Keep(TheFill)
            \/ ctl' = Idle /\ UNCHANGED <<sfills, prices>>
  BY DEF RecordFill, storeVars
<1> QED
  BY <1>3, <1>4, <1>5

\* What is stored after the fill, and the calls that store no order, go by
\* without touching rows, fills or orders.
LEMMA BookkeepingStep ==
    ASSUME IInv, PutCash \/ PutSnapshot \/ Reset \/ Restart \/ \E i \in Ids : SubmitDuplicate(i)
    PROVE  IInv'
<1>1. UNCHANGED <<rows, mem, sfills, prices, policy>>
  BY DEF PutCash, PutSnapshot, Reset, Restart, SubmitDuplicate, StoreFails, storeVars, bookVars
<1>2. ctl \in [pc : Busy \cup {"down", "idle"}, cur : Orders \cup {NoOrder}]
  BY DEF IInv, Shape
<1>3. CASE PutCash
  BY <1>1, <1>2, <1>3, QuietStep DEF PutCash, Goto, StoreFails, Idle, cur
<1>4. CASE PutSnapshot
  BY <1>1, <1>2, <1>4, QuietStep DEF PutSnapshot, Goto, StoreFails, Idle, cur
<1>5. CASE Reset
  <2>1. CASE UNCHANGED ctl
    BY <1>1, <2>1, QuietStep
  <2>2. CASE ctl' = Idle
    BY <1>1, <2>2, QuietStep DEF Idle
  <2> QED
    BY <1>5, <2>1, <2>2 DEF Reset, StoreFails
<1>6. CASE Restart
  BY <1>1, <1>6, QuietStep DEF Restart, Idle
<1>7. CASE \E i \in Ids : SubmitDuplicate(i)
  <2>1. CASE UNCHANGED ctl
    BY <1>1, <2>1, QuietStep
  <2>2. CASE ctl' = Idle
    BY <1>1, <2>2, QuietStep DEF Idle
  <2> QED
    BY <1>7, <2>1, <2>2 DEF SubmitDuplicate, StoreFails
<1> QED
  BY <1>3, <1>4, <1>5, <1>6, <1>7

LEMMA CrashStep == ASSUME IInv, Crash PROVE IInv'
<1>1. /\ mem' = [o \in Orders |-> NoRow]
      /\ prices' = InitialPrice
      /\ ctl' = [pc |-> "down", cur |-> NoOrder]
      /\ UNCHANGED <<rows, sfills, policy>>
  BY DEF Crash, NewAdapter, Idle, storeVars
<1>2. Shape'
  BY <1>1, PaperAssumption DEF IInv, Shape
<1>3. RowsUnique' /\ SameIntent' /\ OneFillPerOrder'
  BY <1>1 DEF IInv, RowsUnique, SameIntent, OneFillPerOrder
<1>4. FillsHaveRows'
  <2> SUFFICES ASSUME NEW k \in DOMAIN sfills
               PROVE  /\ rows[sfills[k].order] # NoRow
                      /\ rows[sfills[k].order].intent = sfills[k].intent
                      /\ mem'[sfills[k].order] # NoRow => mem'[sfills[k].order].filled > 0
    BY <1>1 DEF FillsHaveRows
  <2>1. sfills \in Seq(StoredFill)
    BY DEF IInv, Shape
  <2>2. sfills[k] \in StoredFill
    BY <2>1
  <2>3. mem'[sfills[k].order] = NoRow
    BY <1>1, <2>2 DEF StoredFill
  <2> QED
    BY <2>3 DEF IInv, FillsHaveRows
<1>5. CallOK'
  BY <1>1 DEF CallOK, Busy
<1> QED
  BY <1>2, <1>3, <1>4, <1>5 DEF IInv

LEMMA InvariantStep == IInv /\ [Next]_vars => IInv'
<1> SUFFICES ASSUME IInv, [Next]_vars PROVE IInv'
  OBVIOUS
<1>1. CASE \E i \in Ids : Submit(i)
  BY <1>1, SubmitStep
<1>2. CASE \E o \in Orders : Cancel(o)
  BY <1>2, CancelStep
<1>3. CASE Upsert
  BY <1>3, UpsertStep
<1>4. CASE Advance
  BY <1>4, AdvanceStep
<1>5. CASE RecordFill
  BY <1>5, RecordFillStep
<1>6. CASE Settle
  BY <1>6, SettleStep
<1>7. CASE PutCash \/ PutSnapshot \/ Reset \/ Restart \/ \E i \in Ids : SubmitDuplicate(i)
  BY <1>7, BookkeepingStep
<1>8. CASE Crash
  BY <1>8, CrashStep
<1>9. CASE UNCHANGED vars
  BY <1>9, QuietStep DEF vars, storeVars, bookVars
<1> QED
  BY <1>1, <1>2, <1>3, <1>4, <1>5, <1>6, <1>7, <1>8, <1>9 DEF Next

\* submit_intent executes an intent at most once: through resubmissions, failed
\* writes, crashes and restarts the store never holds two fills for it.
THEOREM ExecutedOnce == Spec => []IntentExecutedOnce
<1>1. Init => IInv
  BY InitialInvariant
<1>2. IInv /\ [Next]_vars => IInv'
  BY InvariantStep
<1>3. IInv => IntentExecutedOnce
  BY InvariantImplies
<1> QED
  BY <1>1, <1>2, <1>3, PTL DEF Spec

-----------------------------------------------------------------------------
(***************************************************************************)
(* The lots of a symbol, in sums: what LiveLots keeps and what a sale       *)
(* takes, lot by lot.                                                       *)
(***************************************************************************)
QtyOf(ls) == [k \in DOMAIN ls |-> ls[k].qty]
CostOf(ls) == [k \in DOMAIN ls |-> ls[k].qty * ls[k].cost]
LeftOf(ls) == [k \in DOMAIN ls |-> IF ls[k].qty > 0 THEN 1 ELSE 0]

\* The sequences of the live lots among the first 0, 1, ..., n lots.
LiveUpTo(g, ls, n) ==
    g = [k \in 0 .. n |->
            IF k = 0 THEN <<>>
            ELSE IF ls[k].qty > 0 THEN Append(g[k - 1], ls[k]) ELSE g[k - 1]]

LEMMA LiveListsExist == ASSUME NEW ls, NEW n \in Nat PROVE \E g : LiveUpTo(g, ls, n)
<1> DEFINE P == {m \in Nat : \E g : LiveUpTo(g, ls, m)}
<1>1. 0 \in P
  <2> DEFINE g == [k \in 0 .. 0 |-> <<>>]
  <2>1. LiveUpTo(g, ls, 0)
    BY DEF LiveUpTo
  <2> QED
    BY <2>1
<1>2. ASSUME NEW m \in P PROVE m + 1 \in P
  <2>1. PICK g : LiveUpTo(g, ls, m)
    OBVIOUS
  <2>2. m \in Nat
    OBVIOUS
  <2> DEFINE last == IF ls[m + 1].qty > 0 THEN Append(g[m], ls[m + 1]) ELSE g[m]
             h == [k \in 0 .. m + 1 |-> IF k = m + 1 THEN last ELSE g[k]]
  <2>3. \A k \in 0 .. m : h[k] = g[k]
    BY <2>2
  <2>4. ASSUME NEW k \in 0 .. m + 1
        PROVE  h[k] = IF k = 0 THEN <<>>
                      ELSE IF ls[k].qty > 0 THEN Append(h[k - 1], ls[k]) ELSE h[k - 1]
    <3>1. CASE k = m + 1
      <4>1. h[k - 1] = g[m] /\ h[k] = last /\ k # 0
        BY <2>2, <2>3, <3>1
      <4> HIDE DEF h
      <4> QED
        BY <3>1, <4>1
    <3>2. CASE k \in 1 .. m
      <4>1. k - 1 \in 0 .. m /\ k \in 0 .. m /\ k # 0
        BY <2>2, <3>2
      <4>2. h[k] = g[k] /\ h[k - 1] = g[k - 1]
        BY <2>3, <4>1
      <4> HIDE DEF h
      <4> QED
        BY <2>1, <4>1, <4>2 DEF LiveUpTo
    <3>3. CASE k = 0
      <4>1. h[k] = g[0] /\ 0 \in 0 .. m
        BY <2>2, <2>3, <3>3
      <4> HIDE DEF h
      <4> QED
        BY <2>1, <3>3, <4>1 DEF LiveUpTo
    <3> QED
      BY <2>2, <3>1, <3>2, <3>3
  <2>5. LiveUpTo(h, ls, m + 1)
    <3>1. h = [k \in 0 .. m + 1 |-> h[k]]
      OBVIOUS
    <3> HIDE DEF h
    <3> QED
      BY <2>4, <3>1 DEF LiveUpTo
  <2> QED
    BY <2>2, <2>5
<1>3. P \in SUBSET Nat
  OBVIOUS
<1> HIDE DEF P
<1>4. P = Nat
  BY <1>1, <1>2, <1>3, NumberInduction
<1> QED
  BY <1>4 DEF P

LEMMA LiveLotsAreLast ==
    ASSUME NEW ls \in Seq(Lot)
    PROVE  \E g : LiveUpTo(g, ls, Len(ls)) /\ LiveLots(ls) = g[Len(ls)]
<1>1. \E g : LiveUpTo(g, ls, Len(ls))
  BY LiveListsExist
<1> QED
  BY <1>1 DEF LiveUpTo, LiveLots

\* A list of lots that gets one more.
LEMMA LotAdded ==
    ASSUME NEW ls \in Seq(Lot), NEW lot \in Lot
    PROVE  LET new == Append(ls, lot)
           IN  /\ new \in Seq(Lot) /\ Len(new) = Len(ls) + 1
               /\ SumFunction(QtyOf(new)) = SumFunction(QtyOf(ls)) + lot.qty
               /\ SumFunction(CostOf(new)) = SumFunction(CostOf(ls)) + lot.qty * lot.cost
               /\ SumFunction(QtyOf(ls)) \in Int /\ SumFunction(CostOf(ls)) \in Int
<1> DEFINE new == Append(ls, lot)
           n == Len(ls)
<1>1. /\ new \in Seq(Lot) /\ n \in Nat /\ Len(new) = n + 1
      /\ DOMAIN ls = 1 .. n /\ DOMAIN new = 1 .. n + 1
      /\ new[n + 1] = lot /\ \A k \in 1 .. n : new[k] = ls[k]
  OBVIOUS
<1>2. \A l \in Lot : l.qty \in Int /\ l.qty * l.cost \in Int
  BY DEF Lot
<1>3. \A k \in 1 .. n + 1 : new[k] \in Lot
  BY <1>1
<1> HIDE DEF new, n
<1>4. /\ DOMAIN QtyOf(ls) = 1 .. n /\ DOMAIN QtyOf(new) = 1 .. n + 1
      /\ \A k \in 1 .. n : QtyOf(new)[k] = QtyOf(ls)[k]
      /\ \A k \in 1 .. n + 1 : QtyOf(new)[k] \in Int
      /\ QtyOf(new)[n + 1] = lot.qty
  BY <1>1, <1>2, <1>3 DEF QtyOf
<1>5. /\ DOMAIN CostOf(ls) = 1 .. n /\ DOMAIN CostOf(new) = 1 .. n + 1
      /\ \A k \in 1 .. n : CostOf(new)[k] = CostOf(ls)[k]
      /\ \A k \in 1 .. n + 1 : CostOf(new)[k] \in Int
      /\ CostOf(new)[n + 1] = lot.qty * lot.cost
  BY <1>1, <1>2, <1>3 DEF CostOf
<1>6. SumFunction(QtyOf(new)) = SumFunction(QtyOf(ls)) + lot.qty /\ SumFunction(QtyOf(ls)) \in Int
  BY <1>1, <1>4, SumAppend
<1>7. /\ SumFunction(CostOf(new)) = SumFunction(CostOf(ls)) + lot.qty * lot.cost
      /\ SumFunction(CostOf(ls)) \in Int
  BY <1>1, <1>5, SumAppend
<1> QED
  BY <1>1, <1>6, <1>7 DEF new, n

\* The lots that are left out are empty, so they leave the sums alone.
LEMMA LiveLotsKeepSums ==
    ASSUME NEW ls \in Seq(Lot)
    PROVE  /\ LiveLots(ls) \in Seq(Lot)
           /\ Len(LiveLots(ls)) = SumTo(LeftOf(ls), Len(ls))
           /\ SumFunction(QtyOf(LiveLots(ls))) = SumTo(QtyOf(ls), Len(ls))
           /\ SumFunction(CostOf(LiveLots(ls))) = SumTo(CostOf(ls), Len(ls))
<1>1. PICK g : LiveUpTo(g, ls, Len(ls)) /\ LiveLots(ls) = g[Len(ls)]
  BY LiveLotsAreLast
<1> DEFINE N == Len(ls)
           Fine(n) == /\ g[n] \in Seq(Lot)
                      /\ Len(g[n]) = SumTo(LeftOf(ls), n)
                      /\ SumFunction(QtyOf(g[n])) = SumTo(QtyOf(ls), n)
                      /\ SumFunction(CostOf(g[n])) = SumTo(CostOf(ls), n)
           P == {n \in Nat : n <= N => Fine(n)}
<1>2. N \in Nat /\ DOMAIN ls = 1 .. N
  OBVIOUS
<1>3. 0 \in P
  <2>1. g[0] = <<>>
    BY <1>1, <1>2 DEF LiveUpTo
  <2>2. QtyOf(<<>>) = <<>> /\ CostOf(<<>>) = <<>>
    BY DEF QtyOf, CostOf
  <2>3. SumFunction(<<>>) = 0
    BY SumOfNone DEF SumFunction
  <2>4. \A f : SumTo(f, 0) = 0
    BY SumToNone
  <2>5. g[0] \in Seq(Lot) /\ Len(g[0]) = 0
    BY <2>1
  <2>6. SumFunction(QtyOf(g[0])) = 0 /\ SumFunction(CostOf(g[0])) = 0
    BY <2>1, <2>2, <2>3
  <2>7. Fine(0)
    BY <2>4, <2>5, <2>6
  <2> QED
    BY <2>7
<1>4. ASSUME NEW n \in P PROVE n + 1 \in P
  <2> SUFFICES ASSUME n + 1 <= N PROVE Fine(n + 1)
    OBVIOUS
  <2> DEFINE lot == ls[n + 1]
  <2>1. n \in Nat /\ n + 1 \in 1 .. N /\ n \in 0 .. N /\ n + 1 \in 0 .. N
    BY <1>2
  <2>2. Fine(n)
    BY <1>2, <2>1
  <2>3. lot \in Lot
    BY <1>2, <2>1
  <2>4. lot.qty \in Nat /\ lot.cost \in Nat /\ lot.qty * lot.cost \in Int
    BY <2>3 DEF Lot
  <2>5. \A k \in 1 .. n + 1 : ls[k] \in Lot /\ k \in DOMAIN ls
    BY <1>2, <2>1
  <2>6. \A l \in Lot : l.qty \in Int /\ l.qty * l.cost \in Int
    BY DEF Lot
  <2>7. /\ SumTo(QtyOf(ls), n + 1) = SumTo(QtyOf(ls), n) + lot.qty
        /\ SumTo(QtyOf(ls), n) \in Int
    <3>1. (\A k \in 1 .. n + 1 : QtyOf(ls)[k] \in Int) /\ QtyOf(ls)[n + 1] = lot.qty
      BY <2>1, <2>5, <2>6 DEF QtyOf
    <3> QED
      BY <2>1, <3>1, SumToStep
  <2>8. /\ SumTo(CostOf(ls), n + 1) = SumTo(CostOf(ls), n) + lot.qty * lot.cost
        /\ SumTo(CostOf(ls), n) \in Int
    <3>1. (\A k \in 1 .. n + 1 : CostOf(ls)[k] \in Int)
          /\ CostOf(ls)[n + 1] = lot.qty * lot.cost
      BY <2>1, <2>5, <2>6 DEF CostOf
    <3> QED
      BY <2>1, <3>1, SumToStep
  <2>9. /\ SumTo(LeftOf(ls), n + 1) = SumTo(LeftOf(ls), n) + (IF lot.qty > 0 THEN 1 ELSE 0)
        /\ SumTo(LeftOf(ls), n) \in Int
    <3>1. (\A k \in 1 .. n + 1 : LeftOf(ls)[k] \in Int)
          /\ LeftOf(ls)[n + 1] = IF lot.qty > 0 THEN 1 ELSE 0
      BY <2>1, <2>5 DEF LeftOf
    <3> QED
      BY <2>1, <3>1, SumToStep
  <2>10. g[n + 1] = IF lot.qty > 0 THEN Append(g[n], lot) ELSE g[n]
    <3> DEFINE m == n + 1
    <3>1. m \in 0 .. Len(ls) /\ m # 0 /\ m - 1 = n
      BY <2>1
    <3> HIDE DEF m
    <3>2. g[m] = IF ls[m].qty > 0 THEN Append(g[m - 1], ls[m]) ELSE g[m - 1]
      BY <1>1, <3>1 DEF LiveUpTo
    <3> QED
      BY <3>1, <3>2 DEF m
  <2> HIDE DEF lot, P
  <2>11. CASE lot.qty > 0
    <3>1. g[n + 1] = Append(g[n], lot)
      BY <2>10, <2>11
    <3>2. /\ g[n + 1] \in Seq(Lot) /\ Len(g[n + 1]) = Len(g[n]) + 1
          /\ SumFunction(QtyOf(g[n + 1])) = SumFunction(QtyOf(g[n])) + lot.qty
          /\ SumFunction(CostOf(g[n + 1])) = SumFunction(CostOf(g[n])) + lot.qty * lot.cost
      BY <2>2, <2>3, <3>1, LotAdded
    <3> QED
      BY <2>2, <2>7, <2>8, <2>9, <2>11, <3>2
  <2>12. CASE lot.qty = 0
    <3>1. g[n + 1] = g[n] /\ lot.qty * lot.cost = 0
      BY <2>4, <2>10, <2>12
    <3> QED
      BY <2>2, <2>7, <2>8, <2>9, <2>12, <3>1
  <2> QED
    BY <2>4, <2>11, <2>12
<1>5. P \in SUBSET Nat
  OBVIOUS
<1> HIDE DEF P
<1>6. P = Nat
  BY <1>3, <1>4, <1>5, NumberInduction
<1>7. Fine(N)
  BY <1>2, <1>6 DEF P
<1> QED
  BY <1>1, <1>7

-----------------------------------------------------------------------------
(***************************************************************************)
(* Rounding.                                                               *)
(***************************************************************************)
LEMMA DivBounds ==
    ASSUME NEW x \in Int, NEW m \in Nat \ {0}
    PROVE  x \div m \in Int /\ m * (x \div m) <= x /\ x < m * (x \div m) + m
OBVIOUS

LEMMA HalfUpDivides ==
    ASSUME NEW a \in Int, NEW b \in Nat \ {0}
    PROVE  /\ HalfUp(a, b) \in Int
           /\ (2 * b) * HalfUp(a, b) <= 2 * a + b
           /\ 2 * a + b < (2 * b) * HalfUp(a, b) + 2 * b
<1> DEFINE x == 2 * a + b
           m == 2 * b
<1>1. x \in Int /\ m \in Nat \ {0}
  OBVIOUS
<1> HIDE DEF x, m
<1>2. x \div m \in Int /\ m * (x \div m) <= x /\ x < m * (x \div m) + m
  BY <1>1, DivBounds
<1> QED
  BY <1>2 DEF x, m, HalfUp

\* What is rounded is at most half a unit off.
LEMMA HalfUpNear ==
    ASSUME NEW a \in Int, NEW b \in Nat \ {0}
    PROVE  /\ HalfUp(a, b) \in Int /\ b * HalfUp(a, b) \in Int
           /\ 2 * (b * HalfUp(a, b) - a) <= b
           /\ -(2 * (b * HalfUp(a, b) - a)) <= b
<1> DEFINE h == HalfUp(a, b)
           p == b * h
<1>1. h \in Int /\ (2 * b) * h <= 2 * a + b /\ 2 * a + b < (2 * b) * h + 2 * b
  BY HalfUpDivides
<1> HIDE DEF h
<1>2. (2 * b) * h = 2 * p /\ p \in Int
  BY <1>1
<1> HIDE DEF p
<1>3. 2 * (p - a) <= b /\ -(2 * (p - a)) <= b
  BY <1>1, <1>2
<1> QED
  BY <1>1, <1>2, <1>3 DEF p, h

\* More is not rounded to less.
LEMMA HalfUpGrows ==
    ASSUME NEW a \in Int, NEW c \in Int, a <= c, NEW b \in Nat \ {0}
    PROVE  HalfUp(a, b) <= HalfUp(c, b)
<1> DEFINE h == HalfUp(a, b)
           i == HalfUp(c, b)
           m == 2 * b
<1>1. /\ h \in Int /\ i \in Int /\ m \in Nat \ {0}
      /\ m * h <= 2 * a + b /\ 2 * c + b < m * i + m
  BY HalfUpDivides
<1> HIDE DEF h, i, m
<1> SUFFICES ASSUME i < h PROVE FALSE
  BY <1>1 DEF h, i
<1>2. i + 1 <= h
  BY <1>1
<1>3. m * (i + 1) <= m * h /\ m * (i + 1) = m * i + m /\ m * h \in Int /\ m * i \in Int
  BY <1>1, <1>2
<1> QED
  BY <1>1, <1>3

\* A whole number stays as it is.
LEMMA HalfUpWhole ==
    ASSUME NEW n \in Int, NEW b \in Nat \ {0}
    PROVE  HalfUp(n * b, b) = n
<1> DEFINE h == HalfUp(n * b, b)
           a == n * b
<1>1. a \in Int
  OBVIOUS
<1>2. h \in Int /\ (2 * b) * h <= 2 * a + b /\ 2 * a + b < (2 * b) * h + 2 * b
  <2> HIDE DEF a
  <2>1. HalfUp(a, b) = h
    BY DEF a
  <2> HIDE DEF h
  <2> QED
    BY <1>1, <2>1, HalfUpDivides
<1> HIDE DEF h
<1>3. (2 * b) * h <= (2 * b) * n + b /\ (2 * b) * n + b < (2 * b) * h + 2 * b
  BY <1>2
<1> DEFINE m == 2 * b
<1>4. m \in Nat \ {0} /\ m * h <= m * n + b /\ m * n + b < m * h + m /\ b < m
  BY <1>3
<1> HIDE DEF m
<1>5. CASE h < n
  <2>1. m * (h + 1) <= m * n /\ m * (h + 1) = m * h + m /\ m * h \in Int /\ m * n \in Int
    BY <1>2, <1>4, <1>5
  <2> QED
    BY <1>4, <2>1
<1>6. CASE h > n
  <2>1. m * (n + 1) <= m * h /\ m * (n + 1) = m * n + m /\ m * h \in Int /\ m * n \in Int
    BY <1>2, <1>4, <1>6
  <2> QED
    BY <1>4, <2>1
<1>7. h = n
  BY <1>2, <1>5, <1>6
<1> QED
  BY <1>7 DEF h

LEMMA HalfUpIsNat ==
    ASSUME NEW a \in Nat, NEW b \in Nat \ {0} PROVE HalfUp(a, b) \in Nat
<1>1. HalfUp(0 * b, b) = 0 /\ 0 * b = 0
  BY HalfUpWhole
<1>2. HalfUp(0, b) <= HalfUp(a, b) /\ HalfUp(a, b) \in Int
  BY HalfUpGrows, HalfUpNear
<1> QED
  BY <1>1, <1>2

-----------------------------------------------------------------------------
(***************************************************************************)
(* A sale, lot by lot.                                                     *)
(***************************************************************************)
TouchedBy(s, q) == [k \in DOMAIN lots[s] |-> IF Taken(s, q, k) > 0 THEN 1 ELSE 0]
CostTaken(s, q) == [k \in DOMAIN lots[s] |-> Taken(s, q, k) * lots[s][k].cost]
BasisOf(s, q) ==
    [k \in DOMAIN lots[s] |-> HalfUp(Taken(s, q, k) * lots[s][k].cost, Scale)]

\* What the oldest n lots hold, and what a sale of q takes from the next one.
Older(s, n) == SumTo(QtyOf(lots[s]), n)

LEMMA OlderIsNat ==
    ASSUME NEW s, lots[s] \in Seq(Lot), NEW n \in Nat, n <= Len(lots[s])
    PROVE  Older(s, n) \in Nat
<1>1. \A k \in 1 .. n : k \in DOMAIN lots[s] /\ lots[s][k] \in Lot
  OBVIOUS
<1>2. \A l \in Lot : l.qty \in Nat
  BY DEF Lot
<1>3. \A k \in 1 .. n : QtyOf(lots[s])[k] \in Nat
  BY <1>1, <1>2 DEF QtyOf
<1>4. IsFiniteSet(1 .. n)
  BY FS_Interval
<1> QED
  BY <1>3, <1>4, SumIsNat DEF Older, SumTo

LEMMA OlderLots ==
    ASSUME NEW s, lots[s] \in Seq(Lot), NEW q \in Nat, NEW n \in Nat, n + 1 <= Len(lots[s])
    PROVE  Taken(s, q, n + 1) =
               IF q - Older(s, n) < 0 THEN 0
               ELSE IF q - Older(s, n) < lots[s][n + 1].qty THEN q - Older(s, n)
               ELSE lots[s][n + 1].qty
<1> DEFINE f == [j \in 1 .. n |-> lots[s][j].qty]
<1>1. (n + 1) - 1 = n
  OBVIOUS
<1>2. SumFunction(f) = Older(s, n)
  <2>1. \A k \in 1 .. n : k \in DOMAIN lots[s]
    OBVIOUS
  <2>2. \A k \in 1 .. n : f[k] = QtyOf(lots[s])[k]
    BY <2>1 DEF QtyOf
  <2>3. IsFiniteSet(1 .. n) /\ DOMAIN f = 1 .. n
    BY FS_Interval
  <2> HIDE DEF f
  <2> QED
    BY <2>2, <2>3, SumSame DEF SumFunction, Older, SumTo
<1>3. SumFunction([j \in 1 .. (n + 1) - 1 |-> lots[s][j].qty]) = Older(s, n)
  BY <1>1, <1>2
<1> QED
  BY <1>3 DEF Taken

\* A sale takes no more than there is, so what remains is lots again.
LEMMA TakenFits ==
    ASSUME NEW s, lots[s] \in Seq(Lot), NEW q \in Nat, NEW k \in DOMAIN lots[s]
    PROVE  /\ Taken(s, q, k) \in Nat /\ Taken(s, q, k) <= lots[s][k].qty
           /\ lots[s][k].qty \in Nat /\ lots[s][k].cost \in Nat
<1> DEFINE n == k - 1
<1>1. n \in Nat /\ n + 1 = k /\ n + 1 <= Len(lots[s]) /\ lots[s][k] \in Lot
  OBVIOUS
<1>2. lots[s][k].qty \in Nat /\ lots[s][k].cost \in Nat
  BY <1>1 DEF Lot
<1> HIDE DEF n
<1>3. Older(s, n) \in Nat
  BY <1>1, OlderIsNat
<1>4. Taken(s, q, n + 1) =
          IF q - Older(s, n) < 0 THEN 0
          ELSE IF q - Older(s, n) < lots[s][n + 1].qty THEN q - Older(s, n)
          ELSE lots[s][n + 1].qty
  BY <1>1, OlderLots
<1>5. Taken(s, q, n + 1) \in Nat /\ Taken(s, q, n + 1) <= lots[s][k].qty
  BY <1>1, <1>2, <1>3, <1>4
<1> QED
  BY <1>1, <1>2, <1>5

LEMMA RemainingLots ==
    ASSUME NEW s, lots[s] \in Seq(Lot), NEW q \in Nat
    PROVE  /\ Remaining(s, q) \in Seq(Lot)
           /\ Len(Remaining(s, q)) = Len(lots[s])
           /\ \A k \in DOMAIN lots[s] :
                 /\ Remaining(s, q)[k].qty = lots[s][k].qty - Taken(s, q, k)
                 /\ Remaining(s, q)[k].cost = lots[s][k].cost
<1>1. ASSUME NEW k \in DOMAIN lots[s]
      PROVE  /\ Remaining(s, q)[k].qty = lots[s][k].qty - Taken(s, q, k)
             /\ Remaining(s, q)[k].cost = lots[s][k].cost
             /\ Remaining(s, q)[k] \in Lot
  <2>1. lots[s][k] \in Lot
    OBVIOUS
  <2>2. lots[s][k].qty - Taken(s, q, k) \in Nat
    <3>1. /\ Taken(s, q, k) \in Nat /\ Taken(s, q, k) <= lots[s][k].qty
          /\ lots[s][k].qty \in Nat
      BY TakenFits
    <3> QED
      BY <3>1
  <2>3. Remaining(s, q)[k] = [lots[s][k] EXCEPT !.qty = lots[s][k].qty - Taken(s, q, k)]
    BY DEF Remaining
  <2> QED
    BY <2>1, <2>2, <2>3 DEF Lot
<1>2. DOMAIN Remaining(s, q) = 1 .. Len(lots[s]) /\ DOMAIN lots[s] = 1 .. Len(lots[s])
  BY DEF Remaining
<1>3. Remaining(s, q) = [k \in 1 .. Len(lots[s]) |-> Remaining(s, q)[k]]
  BY DEF Remaining
<1>4. Remaining(s, q) \in Seq(Lot) /\ Len(Remaining(s, q)) = Len(lots[s])
  <2> DEFINE r == Remaining(s, q)
             n == Len(lots[s])
  <2>1. n \in Nat /\ r = [k \in 1 .. n |-> r[k]]
    BY <1>3
  <2>2. \A k \in 1 .. n : r[k] \in Lot
    BY <1>1, <1>2
  <2> HIDE DEF r, n
  <2>3. r \in Seq(Lot) /\ Len(r) = n
    BY <2>1, <2>2
  <2> QED
    BY <2>3 DEF r, n
<1> QED
  BY <1>1, <1>4

\* The sums up to lot n: of what is left, of its cost, of the lots touched and
\* left, and of what rounding the cost of each makes of the profit.
SaleSums(s, q, n) ==
    /\ SumTo(QtyOf(Remaining(s, q)), n) = IF Older(s, n) <= q THEN 0 ELSE Older(s, n) - q
    /\ SumTo(CostOf(Remaining(s, q)), n) =
           SumTo(CostOf(lots[s]), n) - SumTo(CostTaken(s, q), n)
    /\ SumTo(TouchedBy(s, q), n) + SumTo(LeftOf(Remaining(s, q)), n)
           <= n + (IF Older(s, n) > q THEN 1 ELSE 0)
    /\ LET drift == Scale * SumTo(BasisOf(s, q), n) - SumTo(CostTaken(s, q), n)
       IN  /\ 2 * drift <= Scale * SumTo(TouchedBy(s, q), n)
           /\ -(2 * drift) <= Scale * SumTo(TouchedBy(s, q), n)

\* One more member of each of the sums.
Adds(f, n, v) == SumTo(f, n + 1) = SumTo(f, n) + v /\ SumTo(f, n) \in Int

LEMMA Adding ==
    ASSUME NEW n \in Nat, NEW f, NEW v, f[n + 1] = v, \A k \in 1 .. n + 1 : f[k] \in Int
    PROVE  Adds(f, n, v)
BY SumToStep DEF Adds

LEMMA NextInSums ==
    ASSUME NEW s, lots[s] \in Seq(Lot), NEW q \in Nat, NEW n \in Nat, n + 1 <= Len(lots[s])
    PROVE  LET lot == lots[s][n + 1]
               taken == Taken(s, q, n + 1)
           IN  /\ Adds(QtyOf(lots[s]), n, lot.qty)
               /\ Adds(CostOf(lots[s]), n, lot.qty * lot.cost)
               /\ Adds(QtyOf(Remaining(s, q)), n, lot.qty - taken)
               /\ Adds(CostOf(Remaining(s, q)), n, (lot.qty - taken) * lot.cost)
               /\ Adds(LeftOf(Remaining(s, q)), n, IF lot.qty - taken > 0 THEN 1 ELSE 0)
               /\ Adds(TouchedBy(s, q), n, IF taken > 0 THEN 1 ELSE 0)
               /\ Adds(CostTaken(s, q), n, taken * lot.cost)
               /\ Adds(BasisOf(s, q), n, HalfUp(taken * lot.cost, Scale))
<1> DEFINE ls == lots[s]
           r == Remaining(s, q)
           lot == lots[s][n + 1]
           taken == Taken(s, q, n + 1)
<1>1. \A k \in 1 .. n + 1 : k \in DOMAIN ls
  OBVIOUS
<1>2. r \in Seq(Lot) /\ Len(r) = Len(ls) /\ DOMAIN r = DOMAIN ls
  BY RemainingLots
<1>4. ASSUME NEW k \in DOMAIN ls
      PROVE  /\ ls[k].qty \in Int /\ ls[k].cost \in Int /\ Taken(s, q, k) \in Int
             /\ r[k].qty = ls[k].qty - Taken(s, q, k) /\ r[k].cost = ls[k].cost
             /\ r[k].qty \in Int
             /\ ls[k].qty * ls[k].cost \in Int
             /\ Taken(s, q, k) * ls[k].cost \in Int
             /\ (ls[k].qty - Taken(s, q, k)) * ls[k].cost \in Int
             /\ HalfUp(Taken(s, q, k) * ls[k].cost, Scale) \in Int
  <2>1. ls[k].qty \in Int /\ ls[k].cost \in Int /\ Taken(s, q, k) \in Int
    <3>1. Taken(s, q, k) \in Nat /\ lots[s][k].qty \in Nat /\ lots[s][k].cost \in Nat
      BY TakenFits
    <3> QED
      BY <3>1
  <2>2. r[k].qty = ls[k].qty - Taken(s, q, k) /\ r[k].cost = ls[k].cost
    BY RemainingLots
  <2> HIDE DEF ls, r
  <2>3. /\ ls[k].qty * ls[k].cost \in Int
        /\ Taken(s, q, k) * ls[k].cost \in Int
        /\ (ls[k].qty - Taken(s, q, k)) * ls[k].cost \in Int
    BY <2>1
  <2>4. HalfUp(Taken(s, q, k) * ls[k].cost, Scale) \in Int
    BY <2>3, LedgerAssumption, HalfUpNear
  <2> QED
    BY <2>1, <2>2, <2>3, <2>4
<1>5. n + 1 \in DOMAIN ls /\ n + 1 \in 1 .. n + 1
  OBVIOUS
<1> HIDE DEF r
<1>6. Adds(QtyOf(ls), n, lot.qty)
  <2>1. QtyOf(ls)[n + 1] = lot.qty
    BY <1>1, <1>4, <1>5 DEF QtyOf
  <2>2. \A k \in 1 .. n + 1 : QtyOf(ls)[k] \in Int
    BY <1>1, <1>4, <1>5 DEF QtyOf
  <2> QED
    BY <2>1, <2>2, Adding
<1>7. Adds(CostOf(ls), n, lot.qty * lot.cost)
  <2>1. CostOf(ls)[n + 1] = lot.qty * lot.cost
    BY <1>1, <1>4, <1>5 DEF CostOf
  <2>2. \A k \in 1 .. n + 1 : CostOf(ls)[k] \in Int
    BY <1>1, <1>4, <1>5 DEF CostOf
  <2> QED
    BY <2>1, <2>2, Adding
<1>8. Adds(QtyOf(r), n, lot.qty - taken)
  <2>1. QtyOf(r)[n + 1] = lot.qty - taken
    BY <1>1, <1>2, <1>4, <1>5 DEF QtyOf
  <2>2. \A k \in 1 .. n + 1 : QtyOf(r)[k] \in Int
    BY <1>1, <1>2, <1>4, <1>5 DEF QtyOf
  <2> QED
    BY <2>1, <2>2, Adding
<1>9. Adds(CostOf(r), n, (lot.qty - taken) * lot.cost)
  <2>1. CostOf(r)[n + 1] = (lot.qty - taken) * lot.cost
    BY <1>1, <1>2, <1>4, <1>5 DEF CostOf
  <2>2. \A k \in 1 .. n + 1 : CostOf(r)[k] \in Int
    BY <1>1, <1>2, <1>4, <1>5 DEF CostOf
  <2> QED
    BY <2>1, <2>2, Adding
<1>10. Adds(LeftOf(r), n, IF lot.qty - taken > 0 THEN 1 ELSE 0)
  <2>1. LeftOf(r)[n + 1] = (IF lot.qty - taken > 0 THEN 1 ELSE 0)
    BY <1>1, <1>2, <1>4, <1>5 DEF LeftOf
  <2>2. \A k \in 1 .. n + 1 : LeftOf(r)[k] \in Int
    BY <1>1, <1>2, <1>4, <1>5 DEF LeftOf
  <2> QED
    BY <2>1, <2>2, Adding
<1>11. Adds(TouchedBy(s, q), n, IF taken > 0 THEN 1 ELSE 0)
  <2>1. TouchedBy(s, q)[n + 1] = (IF taken > 0 THEN 1 ELSE 0)
    BY <1>1, <1>4, <1>5 DEF TouchedBy
  <2>2. \A k \in 1 .. n + 1 : TouchedBy(s, q)[k] \in Int
    BY <1>1, <1>4, <1>5 DEF TouchedBy
  <2> QED
    BY <2>1, <2>2, Adding
<1>12. Adds(CostTaken(s, q), n, taken * lot.cost)
  <2>1. CostTaken(s, q)[n + 1] = taken * lot.cost
    BY <1>1, <1>4, <1>5 DEF CostTaken
  <2>2. \A k \in 1 .. n + 1 : CostTaken(s, q)[k] \in Int
    BY <1>1, <1>4, <1>5 DEF CostTaken
  <2> QED
    BY <2>1, <2>2, Adding
<1>13. Adds(BasisOf(s, q), n, HalfUp(taken * lot.cost, Scale))
  <2>1. BasisOf(s, q)[n + 1] = HalfUp(taken * lot.cost, Scale)
    BY <1>1, <1>4, <1>5 DEF BasisOf
  <2>2. \A k \in 1 .. n + 1 : BasisOf(s, q)[k] \in Int
    BY <1>1, <1>4, <1>5 DEF BasisOf
  <2> QED
    BY <2>1, <2>2, Adding
<1> QED
  BY <1>6, <1>7, <1>8, <1>9, <1>10, <1>11, <1>12, <1>13 DEF r

LEMMA SaleSumsHold ==
    ASSUME NEW s, lots[s] \in Seq(Lot), NEW q \in Nat
    PROVE  \A n \in 0 .. Len(lots[s]) : SaleSums(s, q, n)
<1> DEFINE P == {n \in Nat : n <= Len(lots[s]) => SaleSums(s, q, n)}
<1>0. Scale \in Nat
  BY LedgerAssumption
<1>1. 0 \in P
  <2>1. \A f : SumTo(f, 0) = 0
    BY SumToNone
  <2> QED
    BY <1>0, <2>1 DEF SaleSums, Older
<1>2. ASSUME NEW n \in P PROVE n + 1 \in P
  <2> SUFFICES ASSUME n + 1 <= Len(lots[s]) PROVE SaleSums(s, q, n + 1)
    OBVIOUS
  <2> DEFINE lot == lots[s][n + 1]
             taken == Taken(s, q, n + 1)
             r == Remaining(s, q)
             cost == CostOf(lots[s])
             basis == HalfUp(taken * lot.cost, Scale)
  <2>1. n \in Nat /\ Len(lots[s]) \in Nat
    OBVIOUS
  <2>2. SaleSums(s, q, n)
    BY <2>1
  <2>3. /\ taken \in Nat /\ taken <= lot.qty /\ lot.qty \in Nat /\ lot.cost \in Nat
    <3>1. n + 1 \in DOMAIN lots[s]
      BY <2>1
    <3> QED
      BY <3>1, TakenFits
  <2>4. taken = IF q - Older(s, n) < 0 THEN 0
                ELSE IF q - Older(s, n) < lot.qty THEN q - Older(s, n) ELSE lot.qty
    BY <2>1, OlderLots
  <2>5. Older(s, n) \in Nat /\ Older(s, n + 1) = Older(s, n) + lot.qty
    <3>1. Older(s, n) \in Nat
      BY <2>1, OlderIsNat
    <3>2. Adds(QtyOf(lots[s]), n, lot.qty)
      BY <2>1, NextInSums
    <3> QED
      BY <3>1, <3>2 DEF Adds, Older
  <2>6. /\ Adds(cost, n, lot.qty * lot.cost)
        /\ Adds(QtyOf(r), n, lot.qty - taken)
        /\ Adds(CostOf(r), n, (lot.qty - taken) * lot.cost)
        /\ Adds(LeftOf(r), n, IF lot.qty - taken > 0 THEN 1 ELSE 0)
        /\ Adds(TouchedBy(s, q), n, IF taken > 0 THEN 1 ELSE 0)
        /\ Adds(CostTaken(s, q), n, taken * lot.cost)
        /\ Adds(BasisOf(s, q), n, basis)
    BY <2>1, NextInSums
  <2>7. /\ taken * lot.cost \in Int /\ basis \in Int /\ Scale * basis \in Int
        /\ 2 * (Scale * basis - taken * lot.cost) <= Scale
        /\ -(2 * (Scale * basis - taken * lot.cost)) <= Scale
    <3>1. taken * lot.cost \in Int
      BY <2>3
    <3> QED
      BY <3>1, LedgerAssumption, HalfUpNear
  <2>8. taken = 0 => taken * lot.cost = 0 /\ Scale * basis = 0
    <3> SUFFICES ASSUME taken = 0 PROVE taken * lot.cost = 0 /\ Scale * basis = 0
      OBVIOUS
    <3>1. taken * lot.cost = 0 /\ 0 = 0 * Scale
      BY <1>0, <2>3
    <3>2. HalfUp(0 * Scale, Scale) = 0
      BY LedgerAssumption, HalfUpWhole
    <3> QED
      BY <1>0, <3>1, <3>2
  <2>9. (lot.qty - taken) * lot.cost = lot.qty * lot.cost - taken * lot.cost
        /\ lot.qty * lot.cost \in Int
    BY <2>3
  <2> DEFINE a == Older(s, n)
             x == SumTo(CostTaken(s, q), n)
             c == SumTo(BasisOf(s, q), n)
             t == SumTo(TouchedBy(s, q), n)
  <2> HIDE DEF P, lot, taken, r, cost, basis
  <2>10. SumTo(QtyOf(r), n + 1) = IF Older(s, n + 1) <= q THEN 0 ELSE Older(s, n + 1) - q
    <3>1. /\ SumTo(QtyOf(r), n) = IF a <= q THEN 0 ELSE a - q
          /\ SumTo(QtyOf(r), n + 1) = SumTo(QtyOf(r), n) + (lot.qty - taken)
          /\ Older(s, n + 1) = a + lot.qty /\ a \in Nat
          /\ taken = IF q - a < 0 THEN 0 ELSE IF q - a < lot.qty THEN q - a ELSE lot.qty
      BY <2>2, <2>4, <2>5, <2>6 DEF SaleSums, Adds, r
    <3> HIDE DEF a
    <3>2. CASE a > q
      BY <2>3, <3>1, <3>2
    <3>3. CASE a <= q
      BY <2>3, <3>1, <3>3
    <3> QED
      BY <3>1, <3>2, <3>3
  <2>11. SumTo(CostOf(r), n + 1) = SumTo(cost, n + 1) - SumTo(CostTaken(s, q), n + 1)
    BY <2>2, <2>6, <2>7, <2>9 DEF SaleSums, Adds, r, cost
  <2>12. SumTo(TouchedBy(s, q), n + 1) + SumTo(LeftOf(r), n + 1)
             <= (n + 1) + (IF Older(s, n + 1) > q THEN 1 ELSE 0)
    <3> DEFINE l == SumTo(LeftOf(r), n)
    <3>1. /\ t + l <= n + (IF a > q THEN 1 ELSE 0)
          /\ SumTo(LeftOf(r), n + 1) = l + (IF lot.qty - taken > 0 THEN 1 ELSE 0)
          /\ SumTo(TouchedBy(s, q), n + 1) = t + (IF taken > 0 THEN 1 ELSE 0)
          /\ l \in Int /\ t \in Int
          /\ Older(s, n + 1) = a + lot.qty /\ a \in Nat
          /\ taken = IF q - a < 0 THEN 0 ELSE IF q - a < lot.qty THEN q - a ELSE lot.qty
      BY <2>2, <2>4, <2>5, <2>6 DEF SaleSums, Adds, r
    <3> HIDE DEF a, l, t
    <3>2. CASE a > q
      BY <2>1, <2>3, <3>1, <3>2
    <3>3. CASE a <= q /\ q < a + lot.qty
      BY <2>1, <2>3, <3>1, <3>3
    <3>4. CASE a + lot.qty <= q
      BY <2>1, <2>3, <3>1, <3>4
    <3> QED
      BY <2>3, <3>1, <3>2, <3>3, <3>4
  <2>13. LET drift == Scale * SumTo(BasisOf(s, q), n + 1) - SumTo(CostTaken(s, q), n + 1)
         IN  /\ 2 * drift <= Scale * SumTo(TouchedBy(s, q), n + 1)
             /\ -(2 * drift) <= Scale * SumTo(TouchedBy(s, q), n + 1)
    <3>1. /\ c \in Int /\ x \in Int /\ t \in Int
          /\ SumTo(BasisOf(s, q), n + 1) = c + basis
          /\ SumTo(CostTaken(s, q), n + 1) = x + taken * lot.cost
          /\ SumTo(TouchedBy(s, q), n + 1) = t + (IF taken > 0 THEN 1 ELSE 0)
      BY <2>6 DEF Adds
    <3>2. 2 * (Scale * c - x) <= Scale * t /\ -(2 * (Scale * c - x)) <= Scale * t
      BY <2>2 DEF SaleSums
    <3> HIDE DEF c, x, t
    <3>3. /\ Scale * (c + basis) = Scale * c + Scale * basis
          /\ Scale * (t + 1) = Scale * t + Scale
          /\ Scale * c \in Int /\ Scale * t \in Int
      BY <1>0, <2>7, <3>1
    <3>4. CASE taken = 0
      <4>1. /\ Scale * SumTo(BasisOf(s, q), n + 1) = Scale * c
            /\ SumTo(CostTaken(s, q), n + 1) = x
            /\ SumTo(TouchedBy(s, q), n + 1) = t
        BY <2>8, <3>1, <3>3, <3>4
      <4> QED
        BY <3>2, <4>1
    <3>5. CASE taken > 0
      <4>1. SumTo(TouchedBy(s, q), n + 1) = t + 1
        BY <3>1, <3>5
      <4> DEFINE u == Scale * c
                 v == Scale * basis
                 w == taken * lot.cost
                 z == Scale * t
      <4>2. /\ u \in Int /\ v \in Int /\ w \in Int /\ z \in Int
            /\ 2 * (u - x) <= z /\ -(2 * (u - x)) <= z
            /\ 2 * (v - w) <= Scale /\ -(2 * (v - w)) <= Scale
        BY <2>7, <3>2, <3>3
      <4> HIDE DEF u, v, w, z
      <4>3. 2 * ((u + v) - (x + w)) <= z + Scale /\ -(2 * ((u + v) - (x + w))) <= z + Scale
        BY <1>0, <3>1, <4>2
      <4> QED
        BY <3>1, <3>3, <4>1, <4>3 DEF u, v, w, z
    <3> QED
      BY <2>3, <3>4, <3>5
  <2> QED
    BY <2>10, <2>11, <2>12, <2>13 DEF SaleSums, r, cost
<1>3. P \in SUBSET Nat
  OBVIOUS
<1> HIDE DEF P
<1>4. P = Nat
  BY <1>1, <1>2, <1>3, NumberInduction
<1> QED
  BY <1>4 DEF P

-----------------------------------------------------------------------------
(***************************************************************************)
(* What a fill the ledger takes does to the books of its symbol.           *)
(***************************************************************************)
LedgerTyped ==
    cash \in Int /\ realized \in Int /\ lots \in [Symbols -> Seq(Lot)] /\ entries \in Seq(Entry)

QtyIn(s) == SumFunction(QtyOf(lots[s]))
CostIn(s) == SumFunction(CostOf(lots[s]))
Worth(s) == Scale * (cash - realized) + CostIn(s)

Takes(fill) ==
    LET s == fill.symbol
        drift == Worth(s)' - Worth(s)
        bought == IF fill.side = "BUY" THEN fill.qty ELSE 0
        allowed == bought + Scale * (1 + Len(lots[s]) - Len(lots'[s]))
    IN  /\ LedgerTyped'
        /\ cash' = cash + SignedAmount(fill) /\ SignedAmount(fill) \in Int
        /\ \E e \in Entry : entries' = Append(entries, e) /\ e.order = fill.order
        /\ \A r \in Symbols : r # s => lots'[r] = lots[r]
        /\ QtyIn(s) \in Int
        /\ QtyIn(s)' = QtyIn(s) + (IF fill.side = "BUY" THEN fill.qty ELSE -fill.qty)
        /\ CostIn(s) \in Int /\ CostIn(s)' \in Int
        /\ 2 * drift <= allowed /\ -(2 * drift) <= allowed

LEMMA LotSums ==
    ASSUME NEW ls \in Seq(Lot)
    PROVE  /\ SumFunction(QtyOf(ls)) \in Nat /\ SumFunction(CostOf(ls)) \in Nat
           /\ SumFunction(QtyOf(ls)) = SumTo(QtyOf(ls), Len(ls))
           /\ SumFunction(CostOf(ls)) = SumTo(CostOf(ls), Len(ls))
<1>1. Len(ls) \in Nat /\ DOMAIN ls = 1 .. Len(ls) /\ IsFiniteSet(1 .. Len(ls))
  BY FS_Interval
<1>2. \A k \in 1 .. Len(ls) : ls[k] \in Lot
  BY <1>1
<1>3. \A l \in Lot : l.qty \in Nat /\ l.qty * l.cost \in Nat
  BY DEF Lot
<1>4. DOMAIN QtyOf(ls) = 1 .. Len(ls) /\ \A k \in 1 .. Len(ls) : QtyOf(ls)[k] \in Nat
  BY <1>1, <1>2, <1>3 DEF QtyOf
<1>5. DOMAIN CostOf(ls) = 1 .. Len(ls) /\ \A k \in 1 .. Len(ls) : CostOf(ls)[k] \in Nat
  BY <1>1, <1>2, <1>3 DEF CostOf
<1> QED
  BY <1>1, <1>4, <1>5, SumIsNat DEF SumFunction, SumTo

LEMMA HoldingIsQty == \A s : Holding(s) = QtyIn(s)
BY DEF Holding, QtyIn, QtyOf

LEMMA FillAmountsAreWhole ==
    ASSUME NEW fill \in Fill
    PROVE  /\ Gross(fill) \in Nat /\ SignedAmount(fill) \in Int
           /\ fill.qty \in Nat /\ fill.fee \in Nat /\ fill.price \in Nat
           /\ fill.symbol \in Symbols /\ fill.order \in Orders
           /\ fill.side \in {"BUY", "SELL"}
<1>1. /\ fill.qty \in Nat /\ fill.fee \in Nat /\ fill.price \in Nat
      /\ fill.symbol \in Symbols /\ fill.order \in Orders /\ fill.side \in {"BUY", "SELL"}
  BY DEF Fill
<1>2. fill.qty * fill.price \in Nat
  BY <1>1
<1>3. Gross(fill) \in Nat
  BY <1>2, LedgerAssumption, HalfUpIsNat DEF Gross
<1> QED
  BY <1>1, <1>3 DEF SignedAmount

LEMMA PayTakes ==
    ASSUME LedgerTyped, NEW fill \in Fill, Pay(fill, SignedAmount(fill))
    PROVE  /\ cash' = cash + SignedAmount(fill) /\ cash' \in Int /\ entries' \in Seq(Entry)
           /\ \E e \in Entry : entries' = Append(entries, e) /\ e.order = fill.order
<1> DEFINE e == [order |-> fill.order, amount |-> SignedAmount(fill),
                 balance |-> cash + SignedAmount(fill)]
<1>1. cash' = cash + SignedAmount(fill) /\ entries' = Append(entries, e)
  BY DEF Pay
<1>2. SignedAmount(fill) \in Int /\ fill.order \in Orders /\ cash \in Int
  BY FillAmountsAreWhole DEF LedgerTyped
<1>3. e \in Entry /\ e.order = fill.order
  BY <1>2 DEF Entry
<1> HIDE DEF e
<1>4. entries' \in Seq(Entry)
  BY <1>1, <1>3 DEF LedgerTyped
<1> QED
  BY <1>1, <1>2, <1>3, <1>4

\* A buy: its cost goes into the new lot, up to half a unit for each unit bought.
LEMMA BuyTakes ==
    ASSUME LedgerTyped, NEW fill \in Fill, fill.qty > 0, BookBuy(fill)
    PROVE  Takes(fill)
<1> DEFINE s == fill.symbol
           ls == lots[s]
           spent == Gross(fill) + fill.fee
           unit == UnitCost(fill)
           lot == [qty |-> fill.qty, cost |-> unit]
<1>1. /\ s \in Symbols /\ spent \in Nat /\ fill.qty \in Nat \ {0} /\ Scale \in Nat \ {0}
      /\ fill.side = "BUY"
  BY FillAmountsAreWhole, LedgerAssumption DEF BookBuy
<1>2. SignedAmount(fill) = -spent
  BY <1>1 DEF SignedAmount
<1>3. ls \in Seq(Lot) /\ lots \in [Symbols -> Seq(Lot)] /\ cash \in Int /\ realized \in Int
  BY <1>1 DEF LedgerTyped
<1>4. /\ lots' = [lots EXCEPT ![s] = Append(ls, lot)]
      /\ Pay(fill, SignedAmount(fill)) /\ realized' = realized
  BY <1>2 DEF BookBuy
<1>5. spent * Scale \in Nat /\ unit = HalfUp(spent * Scale, fill.qty)
  BY <1>1 DEF UnitCost
<1>6. /\ unit \in Nat /\ fill.qty * unit \in Int
      /\ 2 * (fill.qty * unit - spent * Scale) <= fill.qty
      /\ -(2 * (fill.qty * unit - spent * Scale)) <= fill.qty
  <2> DEFINE a == spent * Scale
             q == fill.qty
  <2>1. a \in Nat /\ a \in Int /\ q \in Nat \ {0} /\ unit = HalfUp(a, q)
    BY <1>1, <1>5
  <2> HIDE DEF a, q, unit
  <2>2. /\ unit \in Nat /\ q * unit \in Int
        /\ 2 * (q * unit - a) <= q /\ -(2 * (q * unit - a)) <= q
    BY <2>1, HalfUpNear, HalfUpIsNat
  <2> QED
    BY <2>2 DEF a, q
<1>7. lot \in Lot /\ lot.qty = fill.qty /\ lot.qty * lot.cost = fill.qty * unit
  BY <1>1, <1>6 DEF Lot
<1> HIDE DEF spent, unit, lot
<1>8. /\ Append(ls, lot) \in Seq(Lot) /\ Len(Append(ls, lot)) = Len(ls) + 1
      /\ SumFunction(QtyOf(Append(ls, lot))) = SumFunction(QtyOf(ls)) + fill.qty
      /\ SumFunction(CostOf(Append(ls, lot))) = SumFunction(CostOf(ls)) + fill.qty * unit
      /\ SumFunction(QtyOf(ls)) \in Int /\ SumFunction(CostOf(ls)) \in Int
  BY <1>3, <1>7, LotAdded
<1>9. lots'[s] = Append(ls, lot) /\ \A r \in Symbols : r # s => lots'[r] = lots[r]
  BY <1>1, <1>3, <1>4
<1>10. /\ cash' = cash + SignedAmount(fill) /\ cash' \in Int /\ entries' \in Seq(Entry)
       /\ \E e \in Entry : entries' = Append(entries, e) /\ e.order = fill.order
  BY <1>4, PayTakes
<1>11. LedgerTyped'
  <2>1. lots' \in [Symbols -> Seq(Lot)]
    BY <1>3, <1>4, <1>8
  <2> QED
    BY <1>3, <1>4, <1>10, <2>1 DEF LedgerTyped
<1>12. /\ QtyIn(s)' = QtyIn(s) + fill.qty /\ QtyIn(s) \in Int
       /\ CostIn(s)' = CostIn(s) + fill.qty * unit /\ CostIn(s) \in Int
       /\ CostIn(s)' \in Int /\ Len(lots'[s]) = Len(ls) + 1
  BY <1>6, <1>8, <1>9 DEF QtyIn, CostIn
<1>13. Worth(s)' - Worth(s) = fill.qty * unit - spent * Scale
  <2>1. cash' - realized' = (cash - realized) - spent
    BY <1>1, <1>2, <1>3, <1>4, <1>10
  <2>2. Scale * ((cash - realized) - spent) = Scale * (cash - realized) - spent * Scale
        /\ Scale * (cash - realized) \in Int /\ spent * Scale \in Int
    BY <1>1, <1>3
  <2>3. /\ Worth(s)' = Scale * (cash' - realized') + CostIn(s)'
        /\ Worth(s) = Scale * (cash - realized) + CostIn(s)
    BY DEF Worth
  <2> QED
    BY <1>6, <1>12, <2>1, <2>2, <2>3
<1>14. Scale * (1 + Len(ls) - Len(lots'[s])) = 0
  <2>1. Len(ls) \in Nat
    BY <1>3
  <2> DEFINE d == 1 + Len(ls) - Len(lots'[s])
  <2>2. d = 0
    BY <1>12, <2>1
  <2> HIDE DEF d
  <2>3. Scale * d = 0
    BY <1>1, <2>2
  <2> QED
    BY <2>3 DEF d
<1>15. SignedAmount(fill) \in Int
  BY FillAmountsAreWhole
<1>16. LET drift == Worth(s)' - Worth(s)
           bought == IF fill.side = "BUY" THEN fill.qty ELSE 0
           allowed == bought + Scale * (1 + Len(ls) - Len(lots'[s]))
       IN  2 * drift <= allowed /\ -(2 * drift) <= allowed
  <2>1. (IF fill.side = "BUY" THEN fill.qty ELSE 0) = fill.qty
    BY <1>1
  <2> DEFINE x == Worth(s)' - Worth(s)
             z == Scale * (1 + Len(ls) - Len(lots'[s]))
             b == IF fill.side = "BUY" THEN fill.qty ELSE 0
  <2>2. 2 * x <= fill.qty /\ -(2 * x) <= fill.qty /\ z = 0 /\ b = fill.qty /\ fill.qty \in Nat
    BY <1>1, <1>6, <1>13, <1>14, <2>1
  <2> HIDE DEF x, z, b
  <2>3. 2 * x <= b + z /\ -(2 * x) <= b + z
    BY <2>2
  <2> QED
    BY <2>3 DEF x, z, b
<1> QED
  BY <1>1, <1>9, <1>10, <1>11, <1>12, <1>15, <1>16 DEF Takes

\* A sale: the lots it empties leave, so that each lot it takes from but the last
\* makes one lot less.
LEMMA Sold ==
    ASSUME NEW s, lots[s] \in Seq(Lot), NEW q \in Nat, q <= Holding(s)
    PROVE  LET new == LiveLots(Remaining(s, q))
           IN  /\ new \in Seq(Lot)
               /\ SumFunction(QtyOf(new)) = QtyIn(s) - q
               /\ CostBasis(s, q) \in Int
               /\ \E x \in Int, t \in Int :
                     /\ SumFunction(CostOf(new)) = CostIn(s) - x
                     /\ t + Len(new) <= Len(lots[s]) + 1
                     /\ 2 * (Scale * CostBasis(s, q) - x) <= Scale * t
                     /\ -(2 * (Scale * CostBasis(s, q) - x)) <= Scale * t
<1> DEFINE r == Remaining(s, q)
           new == LiveLots(r)
           n == Len(lots[s])
           x == SumTo(CostTaken(s, q), n)
           t == SumTo(TouchedBy(s, q), n)
           c == SumTo(BasisOf(s, q), n)
<1>1. r \in Seq(Lot) /\ Len(r) = n /\ n \in Nat
  BY RemainingLots
<1>2. /\ new \in Seq(Lot) /\ Len(new) = SumTo(LeftOf(r), n)
      /\ SumFunction(QtyOf(new)) = SumTo(QtyOf(r), n)
      /\ SumFunction(CostOf(new)) = SumTo(CostOf(r), n)
  BY <1>1, LiveLotsKeepSums
<1>3. SaleSums(s, q, n)
  BY <1>1, SaleSumsHold
<1>4. /\ Older(s, n) = QtyIn(s) /\ QtyIn(s) \in Nat /\ q <= QtyIn(s)
      /\ SumTo(CostOf(lots[s]), n) = CostIn(s)
  BY LotSums, HoldingIsQty DEF Older, QtyIn, CostIn
<1>5. c = CostBasis(s, q)
  <2>1. BasisOf(s, q) = [k \in DOMAIN lots[s] |-> HalfUp(Taken(s, q, k) * lots[s][k].cost, Scale)]
    BY DEF BasisOf
  <2>2. DOMAIN BasisOf(s, q) = 1 .. n
    BY DEF BasisOf
  <2>3. SumFunction(BasisOf(s, q)) = c
    BY <2>2 DEF SumFunction, SumTo
  <2> QED
    BY <2>1, <2>3 DEF CostBasis
<1>6. c \in Int /\ x \in Int /\ t \in Int
  <2>1. ASSUME NEW k \in 1 .. n
        PROVE  /\ BasisOf(s, q)[k] \in Int /\ CostTaken(s, q)[k] \in Int
               /\ TouchedBy(s, q)[k] \in Int
    <3>1. k \in DOMAIN lots[s]
      OBVIOUS
    <3>2. Taken(s, q, k) \in Nat /\ lots[s][k].cost \in Nat
      BY <3>1, TakenFits
    <3>3. Taken(s, q, k) * lots[s][k].cost \in Int
      BY <3>2
    <3>4. HalfUp(Taken(s, q, k) * lots[s][k].cost, Scale) \in Int
      BY <3>3, LedgerAssumption, HalfUpNear
    <3> QED
      BY <3>1, <3>3, <3>4 DEF BasisOf, CostTaken, TouchedBy
  <2>2. IsFiniteSet(1 .. n)
    BY <1>1, FS_Interval
  <2> QED
    BY <2>1, <2>2, SumType DEF SumTo
<1> HIDE DEF r, n, x, t, c
<1>7. SumFunction(QtyOf(new)) = QtyIn(s) - q
  <2>1. SumTo(QtyOf(r), n) = IF Older(s, n) <= q THEN 0 ELSE Older(s, n) - q
    BY <1>3 DEF SaleSums, r
  <2> QED
    BY <1>2, <1>4, <2>1
<1>8. SumFunction(CostOf(new)) = CostIn(s) - x
  BY <1>2, <1>3, <1>4 DEF SaleSums, r, x
<1>9. t + Len(new) <= n + 1
  <2>1. t + SumTo(LeftOf(r), n) <= n + (IF Older(s, n) > q THEN 1 ELSE 0)
    BY <1>3 DEF SaleSums, r, t
  <2>2. Len(new) \in Nat
    BY <1>2
  <2> QED
    BY <1>1, <1>2, <1>6, <2>1, <2>2
<1>10. 2 * (Scale * c - x) <= Scale * t /\ -(2 * (Scale * c - x)) <= Scale * t
  BY <1>3 DEF SaleSums, c, x, t
<1> QED
  BY <1>2, <1>5, <1>6, <1>7, <1>8, <1>9, <1>10 DEF r, n

LEMMA SellTakes ==
    ASSUME LedgerTyped, NEW fill \in Fill, BookSell(fill)
    PROVE  Takes(fill)
<1> DEFINE s == fill.symbol
           q == fill.qty
           ls == lots[s]
           net == Gross(fill) - fill.fee
           basis == CostBasis(s, q)
           new == LiveLots(Remaining(s, q))
<1>1. /\ s \in Symbols /\ net \in Int /\ q \in Nat /\ Scale \in Nat \ {0}
      /\ fill.side = "SELL" /\ q <= Holding(s)
  BY FillAmountsAreWhole, LedgerAssumption DEF BookSell
<1>2. SignedAmount(fill) = net
  BY <1>1 DEF SignedAmount
<1>3. ls \in Seq(Lot) /\ lots \in [Symbols -> Seq(Lot)] /\ cash \in Int /\ realized \in Int
  BY <1>1 DEF LedgerTyped
<1>4. /\ lots' = [lots EXCEPT ![s] = new]
      /\ Pay(fill, SignedAmount(fill)) /\ realized' = realized + net - basis
  BY <1>2 DEF BookSell
<1>5. /\ new \in Seq(Lot) /\ SumFunction(QtyOf(new)) = QtyIn(s) - q /\ basis \in Int
      /\ \E x \in Int, t \in Int :
            /\ SumFunction(CostOf(new)) = CostIn(s) - x
            /\ t + Len(new) <= Len(ls) + 1
            /\ 2 * (Scale * basis - x) <= Scale * t
            /\ -(2 * (Scale * basis - x)) <= Scale * t
  BY <1>1, <1>3, Sold
<1> HIDE DEF net, basis, new
<1>6. PICK x \in Int, t \in Int :
            /\ SumFunction(CostOf(new)) = CostIn(s) - x
            /\ t + Len(new) <= Len(ls) + 1
            /\ 2 * (Scale * basis - x) <= Scale * t
            /\ -(2 * (Scale * basis - x)) <= Scale * t
  BY <1>5
<1>7. lots'[s] = new /\ \A r \in Symbols : r # s => lots'[r] = lots[r]
  BY <1>1, <1>3, <1>4
<1>8. /\ cash' = cash + SignedAmount(fill) /\ cash' \in Int /\ entries' \in Seq(Entry)
      /\ \E e \in Entry : entries' = Append(entries, e) /\ e.order = fill.order
  BY <1>4, PayTakes
<1>9. LedgerTyped'
  <2>1. lots' \in [Symbols -> Seq(Lot)] /\ realized' \in Int
    BY <1>1, <1>3, <1>4, <1>5
  <2> QED
    BY <1>8, <2>1 DEF LedgerTyped
<1>10. QtyIn(s) \in Int /\ CostIn(s) \in Int
  <2>1. SumFunction(QtyOf(ls)) \in Nat /\ SumFunction(CostOf(ls)) \in Nat
    BY <1>3, LotSums
  <2> QED
    BY <2>1 DEF QtyIn, CostIn
<1>11. /\ QtyIn(s)' = QtyIn(s) + -q /\ CostIn(s)' = CostIn(s) - x /\ CostIn(s)' \in Int
       /\ Len(lots'[s]) = Len(new)
  BY <1>1, <1>5, <1>6, <1>7, <1>10 DEF QtyIn, CostIn
<1>12. Worth(s)' - Worth(s) = Scale * basis - x
  <2>1. cash' - realized' = (cash - realized) + basis
    BY <1>1, <1>2, <1>3, <1>4, <1>5, <1>8
  <2>2. Scale * ((cash - realized) + basis) = Scale * (cash - realized) + Scale * basis
        /\ Scale * (cash - realized) \in Int /\ Scale * basis \in Int
    BY <1>1, <1>3, <1>5
  <2>3. /\ Worth(s)' = Scale * (cash' - realized') + CostIn(s)'
        /\ Worth(s) = Scale * (cash - realized) + CostIn(s)
    BY DEF Worth
  <2> QED
    BY <1>10, <1>11, <2>1, <2>2, <2>3
<1>13. Scale * t <= Scale * (1 + Len(ls) - Len(lots'[s]))
  <2> DEFINE d == 1 + Len(ls) - Len(lots'[s])
  <2>1. d \in Int /\ t <= d
    <3>1. Len(ls) \in Nat /\ Len(new) \in Nat
      BY <1>3, <1>5
    <3> QED
      BY <1>6, <1>11, <3>1
  <2> HIDE DEF d
  <2>2. Scale * t <= Scale * d
    BY <1>1, <2>1
  <2> QED
    BY <2>2 DEF d
<1>14. SignedAmount(fill) \in Int
  BY FillAmountsAreWhole
<1>15. LET drift == Worth(s)' - Worth(s)
           bought == IF fill.side = "BUY" THEN fill.qty ELSE 0
           allowed == bought + Scale * (1 + Len(ls) - Len(lots'[s]))
       IN  2 * drift <= allowed /\ -(2 * drift) <= allowed
  <2> DEFINE y == Worth(s)' - Worth(s)
             d == 1 + Len(ls) - Len(lots'[s])
             z == Scale * d
             u == Scale * t
             b == IF fill.side = "BUY" THEN fill.qty ELSE 0
  <2>1. b = 0 /\ 2 * y <= u /\ -(2 * y) <= u /\ u <= z
    BY <1>1, <1>6, <1>12, <1>13
  <2>2. y \in Int /\ u \in Int /\ z \in Int
    <3>1. Len(ls) \in Nat /\ Len(new) \in Nat
      BY <1>3, <1>5
    <3>2. d \in Int
      BY <1>11, <3>1
    <3> HIDE DEF d
    <3>3. u \in Int /\ z \in Int
      BY <1>1, <1>6, <3>2
    <3>4. Scale * basis - x \in Int
      BY <1>1, <1>5, <1>6
    <3> QED
      BY <1>12, <3>3, <3>4
  <2> HIDE DEF y, z, b, u
  <2>3. 2 * y <= b + z /\ -(2 * y) <= b + z
    BY <2>1, <2>2
  <2> QED
    BY <2>3 DEF y, z, b
<1> QED
  BY <1>1, <1>7, <1>8, <1>9, <1>10, <1>11, <1>14, <1>15 DEF Takes

-----------------------------------------------------------------------------
(***************************************************************************)
(* Types: amounts stay whole numbers, and prices, quantities, fees and      *)
(* holdings never go below zero.                                            *)
(***************************************************************************)
StoreTyped ==
    /\ rows \in [Orders -> Row \cup {NoRow}]
    /\ evts \in [Orders -> Seq(OrderStatus)]
    /\ sfills \in Seq(Fill)
    /\ cashRows \in Seq(Entry)
    /\ snap \in Snapshot \cup {NoRow}
    /\ killRow \in BOOLEAN
CallTyped ==
    /\ ctl \in [pc : Busy \cup {"down", "idle"}, cur : Orders \cup {NoOrder}]
    /\ budget \in [FaultKinds -> Nat]
AdapterTyped ==
    /\ kill \in BOOLEAN
    /\ mem \in [Orders -> Row \cup {NoRow}]
    /\ claimed \in [Ids -> Orders \cup {NoOrder}]
    /\ declined \subseteq Orders
    /\ prices \in [Symbols -> Nat]
    /\ log \in Seq(Fill)
    /\ policy \in Policies

LEMMA TypeParts == TypeOK <=> LedgerTyped /\ StoreTyped /\ CallTyped /\ AdapterTyped
<1>1. Busy \cup {"down", "idle"}
        = {"down", "idle", "upsert", "step", "cash", "snapshot", "settle"}
  BY DEF Busy
<1> QED
  BY <1>1 DEF TypeOK, LedgerTyped, StoreTyped, CallTyped, AdapterTyped

LEMMA NextTypeParts == LedgerTyped' /\ StoreTyped' /\ CallTyped' /\ AdapterTyped' => TypeOK'
<1>1. Busy \cup {"down", "idle"}
        = {"down", "idle", "upsert", "step", "cash", "snapshot", "settle"}
  BY DEF Busy
<1> QED
  BY <1>1 DEF TypeOK, LedgerTyped, StoreTyped, CallTyped, AdapterTyped

\* The amounts of a fill that is about to be made.
LEMMA OrderAmounts ==
    ASSUME TypeOK, cur \in Orders, mem[cur] # NoRow
    PROVE  /\ Order \in [symbol : Symbols, side : {"BUY", "SELL"}, qty : Nat \ {0}]
           /\ FillPrice \in Nat /\ Fee \in Nat
           /\ FillQuantity \in Nat /\ FillQuantity <= Order.qty
           /\ TheFill \in Fill
<1>1. mem[cur] \in Row /\ prices \in [Symbols -> Nat] /\ policy \in Policies
  BY DEF TypeOK
<1>2. mem[cur].intent \in Ids
  BY <1>1 DEF Row
<1>3. Order \in [symbol : Symbols, side : {"BUY", "SELL"}, qty : Nat \ {0}]
  BY <1>2, PaperAssumption DEF Order
<1>4. /\ Order.symbol \in Symbols /\ Order.side \in {"BUY", "SELL"}
      /\ Order.qty \in Nat \ {0} /\ prices[Order.symbol] \in Nat
  BY <1>1, <1>3
<1>5. /\ policy.ratio \in 1 .. Rate /\ Rate \in Nat \ {0} /\ Scale \in Nat \ {0}
      /\ Slippage \in 0 .. Rate - 1 /\ Commission \in Nat
  BY <1>1, PaperAssumption, LedgerAssumption
<1>6. FillPrice \in Nat
  <2> DEFINE f == IF Order.side = "BUY" THEN Rate + Slippage ELSE Rate - Slippage
  <2>1. f \in Nat
    BY <1>5
  <2> HIDE DEF f
  <2>2. prices[Order.symbol] * f \in Nat
    BY <1>4, <2>1
  <2>3. HalfUp(prices[Order.symbol] * f, Rate) \in Nat
    BY <1>5, <2>2, HalfUpIsNat
  <2> QED
    BY <2>3 DEF FillPrice, f
<1>7. Fee \in Nat
  <2>1. Order.qty * FillPrice * Commission \in Nat /\ Scale * Rate \in Nat \ {0}
    BY <1>4, <1>5, <1>6
  <2> QED
    BY <2>1, HalfUpIsNat DEF Fee
<1>8. FillQuantity \in Nat /\ FillQuantity <= Order.qty
  <2> DEFINE a == Order.qty * policy.ratio
             b == Order.qty * Rate
  <2>1. a \in Nat /\ b \in Nat /\ a <= b
    BY <1>4, <1>5
  <2> DEFINE q == Order.qty
  <2>2. HalfUp(b, Rate) = q
    <3>1. q \in Int /\ b = q * Rate
      BY <1>4
    <3> HIDE DEF q, b
    <3> QED
      BY <1>5, <3>1, HalfUpWhole
  <2> HIDE DEF a, b
  <2>3. HalfUp(a, Rate) \in Nat /\ HalfUp(a, Rate) <= HalfUp(b, Rate)
    BY <1>5, <2>1, HalfUpIsNat, HalfUpGrows
  <2> QED
    BY <2>2, <2>3 DEF FillQuantity, a
<1>9. TheFill \in Fill
  BY <1>2, <1>4, <1>6, <1>7, <1>8 DEF TheFill, Fill
<1> QED
  BY <1>3, <1>6, <1>7, <1>8, <1>9

LEMMA FailureTypes ==
    ASSUME StoreTyped, CallTyped, StoreFails PROVE StoreTyped' /\ CallTyped'
<1>1. UNCHANGED <<rows, evts, sfills, cashRows, snap, killRow>>
  BY DEF StoreFails, storeVars
<1>2. StoreTyped'
  BY <1>1 DEF StoreTyped
<1>3. ctl' \in [pc : Busy \cup {"down", "idle"}, cur : Orders \cup {NoOrder}]
  BY DEF StoreFails, Idle
<1>4. budget' \in [FaultKinds -> Nat]
  <2>1. budget' = [budget EXCEPT !["store"] = @ - 1] /\ budget["store"] > 0
    BY DEF StoreFails, Strike
  <2>2. budget["store"] - 1 \in Nat
    BY <2>1 DEF CallTyped, FaultKinds
  <2> QED
    BY <2>1, <2>2 DEF CallTyped
<1> QED
  BY <1>2, <1>3, <1>4 DEF CallTyped

LEMMA RecordTypes ==
    ASSUME TypeOK, NEW o \in Orders, NEW p \in Row, Record(o, p),
           UNCHANGED <<bookVars, kill, policy>>,
           claimed' \in [Ids -> Orders \cup {NoOrder}], declined' \subseteq Orders
    PROVE  TypeOK'
<1>1. LedgerTyped /\ StoreTyped /\ CallTyped /\ AdapterTyped
  BY TypeParts
<1>2. LedgerTyped'
  BY <1>1 DEF LedgerTyped, bookVars, ledgerVars
<1>3. AdapterTyped'
  <2>1. mem' \in [Orders -> Row \cup {NoRow}]
    BY <1>1 DEF Record, AdapterTyped
  <2> QED
    BY <1>1, <2>1 DEF AdapterTyped, bookVars
<1>4. CASE /\ evts' = [evts EXCEPT ![o] = Append(@, p.status)]
           /\ ctl' = [pc |-> "upsert", cur |-> o]
           /\ UNCHANGED <<rows, sfills, cashRows, snap, killRow, budget>>
  <2>1. p.status \in OrderStatus
    BY DEF Row
  <2>2. evts' \in [Orders -> Seq(OrderStatus)]
    BY <1>1, <1>4, <2>1 DEF StoreTyped
  <2>3. StoreTyped' /\ CallTyped'
    BY <1>1, <1>4, <2>2 DEF StoreTyped, CallTyped, Busy
  <2> QED
    BY <1>2, <1>3, <2>3, NextTypeParts
<1>5. CASE StoreFails
  <2>1. StoreTyped' /\ CallTyped'
    BY <1>1, <1>5, FailureTypes
  <2> QED
    BY <1>2, <1>3, <2>1, NextTypeParts
<1> QED
  BY <1>4, <1>5 DEF Record

LEMMA MoveTypes ==
    ASSUME TypeOK, NEW o \in Orders, NEW status, Move(o, status), mem[o] # NoRow,
           UNCHANGED <<bookVars, claimed, declined, kill, policy>>
    PROVE  TypeOK'
<1>1. mem[o] \in Row
  BY DEF TypeOK
<1>2. status \in OrderStatus
  BY <1>1, MovesForward DEF Move, Row
<1> DEFINE p == [mem[o] EXCEPT !.status = status]
<1>3. p \in Row
  BY <1>1, <1>2 DEF Row
<1>4. Record(o, p)
  BY DEF Move
<1>5. claimed' \in [Ids -> Orders \cup {NoOrder}] /\ declined' \subseteq Orders
  BY DEF TypeOK
<1> HIDE DEF p
<1> QED
  BY <1>3, <1>4, <1>5, RecordTypes

LEMMA SubmitTypes == ASSUME TypeOK, NEW i \in Ids, Submit(i) PROVE TypeOK'
<1> DEFINE o == CHOOSE new_id \in Fresh : TRUE
           p == [intent |-> i, status |-> "PLANNED", filled |-> 0]
<1>1. o \in Fresh
  BY DEF Submit
<1>2. o \in Orders
  BY <1>1 DEF Fresh
<1>3. p \in Row
  BY DEF Row, OrderStatus
<1>4. /\ Record(o, p) /\ UNCHANGED <<bookVars, kill, policy>>
      /\ \/ declined' = declined \cup {o} /\ UNCHANGED claimed
         \/ claimed' = [claimed EXCEPT ![i] = o] /\ UNCHANGED declined
  BY DEF Submit
<1> HIDE DEF o, p
<1>5. claimed' \in [Ids -> Orders \cup {NoOrder}] /\ declined' \subseteq Orders
  BY <1>2, <1>4 DEF TypeOK
<1> QED
  BY <1>2, <1>3, <1>4, <1>5, RecordTypes

LEMMA UpsertTypes == ASSUME TypeOK, IInv, Upsert PROVE TypeOK'
<1>1. cur \in Orders /\ mem[cur] # NoRow
  BY DEF Upsert, IInv, CallOK, Busy
<1>2. LedgerTyped /\ StoreTyped /\ CallTyped /\ AdapterTyped
  BY TypeParts
<1>3. LedgerTyped' /\ AdapterTyped'
  BY <1>2 DEF Upsert, LedgerTyped, AdapterTyped, bookVars, ledgerVars
<1>4. CASE /\ rows' = [rows EXCEPT ![cur] = mem[cur]]
           /\ AfterUpsert
           /\ UNCHANGED <<evts, sfills, cashRows, snap, killRow, budget>>
  <2>1. rows' \in [Orders -> Row \cup {NoRow}]
    BY <1>1, <1>2, <1>4 DEF StoreTyped, AdapterTyped
  <2>2. StoreTyped'
    BY <1>2, <1>4, <2>1 DEF StoreTyped
  <2>3. ctl' \in [pc : Busy \cup {"down", "idle"}, cur : Orders \cup {NoOrder}]
    BY <1>2, <1>4 DEF AfterUpsert, CallTyped, Idle, Busy
  <2> QED
    BY <1>2, <1>3, <1>4, <2>2, <2>3, NextTypeParts DEF CallTyped
<1>5. CASE ctl' = Idle /\ UNCHANGED <<storeVars, budget>>
  BY <1>2, <1>3, <1>5, NextTypeParts DEF StoreTyped, CallTyped, storeVars, Idle
<1>6. CASE StoreFails
  BY <1>2, <1>3, <1>6, FailureTypes, NextTypeParts
<1> QED
  BY <1>4, <1>5, <1>6 DEF Upsert

LEMMA RecordFillTypes == ASSUME TypeOK, IInv, RecordFill PROVE TypeOK'
<1>1. cur \in Orders /\ mem[cur] # NoRow
  BY DEF RecordFill, IInv, CallOK, Busy
<1>2. LedgerTyped /\ StoreTyped /\ CallTyped /\ AdapterTyped
  BY TypeParts
<1>3. CASE /\ ctl' = Idle
           /\ UNCHANGED <<storeVars, bookVars, mem, budget>>
           /\ UNCHANGED <<claimed, declined, kill, policy>>
  <2>1. LedgerTyped' /\ AdapterTyped'
    BY <1>2, <1>3 DEF LedgerTyped, AdapterTyped, bookVars, ledgerVars
  <2>2. StoreTyped' /\ CallTyped'
    BY <1>2, <1>3 DEF StoreTyped, CallTyped, storeVars, Idle
  <2> QED
    BY <2>1, <2>2, NextTypeParts
<1>4. CASE /\ FillQuantity > 0
           /\ mem' = [mem EXCEPT ![cur].filled = FillQuantity]
           /\ UNCHANGED <<claimed, declined, kill, policy>>
  <2>1. TheFill \in Fill /\ FillQuantity \in Nat /\ TheFill.qty = FillQuantity
    BY <1>1, OrderAmounts DEF TheFill
  <2>2. mem' \in [Orders -> Row \cup {NoRow}]
    <3>1. mem \in [Orders -> Row \cup {NoRow}] /\ mem[cur] \in Row
      BY <1>1, <1>2 DEF AdapterTyped
    <3>2. [mem[cur] EXCEPT !.filled = FillQuantity] \in Row
      BY <2>1, <3>1 DEF Row
    <3> QED
      BY <1>1, <1>4, <3>1, <3>2
  <2> DEFINE fill == TheFill
  <2> HIDE DEF fill
  <2>3. CASE (BookBuy(fill) \/ BookSell(fill)) /\ Keep(fill)
    <3>1. fill \in Fill /\ fill.qty > 0 /\ fill.symbol \in Symbols /\ fill.price \in Nat
      BY <1>4, <2>1, FillAmountsAreWhole DEF fill
    <3>2. LedgerTyped'
      BY <1>2, <2>3, <3>1, BuyTakes, SellTakes DEF Takes
    <3>3. prices' \in [Symbols -> Nat] /\ log' \in Seq(Fill)
      BY <1>2, <2>3, <3>1 DEF Keep, AdapterTyped
    <3>4. AdapterTyped'
      BY <1>2, <1>4, <2>2, <3>3 DEF AdapterTyped
    <3>5. StoreTyped' /\ CallTyped'
      <4>1. CASE /\ sfills' = Append(sfills, fill) /\ Goto("cash")
                 /\ UNCHANGED <<rows, evts, cashRows, snap, killRow, budget>>
        <5>1. sfills' \in Seq(Fill)
          BY <1>2, <3>1, <4>1 DEF StoreTyped
        <5> QED
          BY <1>2, <4>1, <5>1 DEF StoreTyped, CallTyped, Goto, Busy
      <4>2. CASE StoreFails
        BY <1>2, <4>2, FailureTypes
      <4> QED
        BY <2>3, <4>1, <4>2 DEF Keep
    <3> QED
      BY <3>2, <3>4, <3>5, NextTypeParts
  <2>4. CASE /\ RefuseBuy(fill) \/ RefuseSell(fill)
             /\ ctl' = Idle
             /\ UNCHANGED <<storeVars, prices, log, budget>>
    <3>1. fill \in Fill /\ fill.qty \in Nat /\ fill.symbol \in Symbols
      BY <2>1, FillAmountsAreWhole DEF fill
    <3>2. LedgerTyped'
      <4>1. CASE RefuseBuy(fill)
        BY <1>2, <4>1 DEF RefuseBuy, ledgerVars, LedgerTyped
      <4>2. CASE RefuseSell(fill)
        <5>1. lots[fill.symbol] \in Seq(Lot)
          BY <1>2, <3>1 DEF LedgerTyped
        <5>2. Remaining(fill.symbol, fill.qty) \in Seq(Lot)
          BY <3>1, <5>1, RemainingLots
        <5> QED
          BY <1>2, <4>2, <5>2 DEF RefuseSell, LedgerTyped
      <4> QED
        BY <2>4, <4>1, <4>2
    <3>3. AdapterTyped'
      BY <1>2, <1>4, <2>2, <2>4 DEF AdapterTyped
    <3>4. StoreTyped' /\ CallTyped'
      BY <1>2, <2>4 DEF StoreTyped, CallTyped, storeVars, Idle
    <3> QED
      BY <3>2, <3>3, <3>4, NextTypeParts
  <2> QED
    <3>1. \/ (BookBuy(TheFill) \/ BookSell(TheFill)) /\ Keep(TheFill)
          \/ /\ RefuseBuy(TheFill) \/ RefuseSell(TheFill)
             /\ ctl' = Idle
             /\ UNCHANGED <<storeVars, prices, log, budget>>
          \/ TypeOK'
      BY <1>3, <1>4 DEF RecordFill
    <3> QED
      BY <2>3, <2>4, <3>1 DEF fill
<1> QED
  BY <1>3, <1>4 DEF RecordFill

\* The entry that is about to be stored is there, and of the order under way.
EntryPending ==
    ctl.pc = "cash" => entries # <<>> /\ entries[Len(entries)].order = cur

LEMMA BookkeepingTypes ==
    ASSUME TypeOK, EntryPending,
           PutCash \/ PutSnapshot \/ Reset \/ Restart \/ \E i \in Ids : SubmitDuplicate(i)
    PROVE  TypeOK'
<1>1. LedgerTyped /\ StoreTyped /\ CallTyped /\ AdapterTyped
  BY TypeParts
<1>2. /\ UNCHANGED <<bookVars, mem, claimed, declined, policy>>
      /\ kill' \in BOOLEAN
  BY <1>1 DEF PutCash, PutSnapshot, Reset, Restart, SubmitDuplicate, AdapterTyped, StoreTyped
<1>3. LedgerTyped' /\ AdapterTyped'
  BY <1>1, <1>2 DEF LedgerTyped, AdapterTyped, bookVars, ledgerVars
<1>4. CASE StoreFails
  BY <1>1, <1>3, <1>4, FailureTypes, NextTypeParts
<1>5. CASE PutCash /\ ~StoreFails
  <2>1. cashRows' = Append(cashRows, entries[Len(entries)]) /\ Goto("snapshot")
        /\ UNCHANGED <<rows, evts, sfills, snap, killRow, budget>>
    BY <1>5 DEF PutCash
  <2>2. entries \in Seq(Entry) /\ entries # <<>>
    BY <1>1, <1>5 DEF PutCash, EntryPending, LedgerTyped
  <2>3. cashRows' \in Seq(Entry)
    BY <1>1, <2>1, <2>2 DEF StoreTyped
  <2> QED
    BY <1>1, <1>3, <2>1, <2>3, NextTypeParts DEF StoreTyped, CallTyped, Goto, Busy
<1>6. CASE PutSnapshot /\ ~StoreFails
  <2>1. snap' = Books /\ Goto("settle")
        /\ UNCHANGED <<rows, evts, sfills, cashRows, killRow, budget>>
    BY <1>6 DEF PutSnapshot
  <2>2. \A s \in Symbols : Holding(s) \in Nat
    BY <1>1, LotSums, HoldingIsQty DEF LedgerTyped, QtyIn
  <2>3. Books \in Snapshot
    BY <1>1, <2>2 DEF Books, Snapshot, LedgerTyped
  <2> QED
    BY <1>1, <1>3, <2>1, <2>3, NextTypeParts DEF StoreTyped, CallTyped, Goto, Busy
<1>7. CASE /\ Reset \/ Restart \/ \E i \in Ids : SubmitDuplicate(i)
           /\ ~StoreFails
  <2>1. /\ UNCHANGED <<rows, evts, sfills, cashRows, snap, budget>>
        /\ killRow' \in BOOLEAN
        /\ UNCHANGED ctl \/ ctl' = Idle
    BY <1>1, <1>7 DEF Reset, Restart, SubmitDuplicate, StoreTyped, storeVars
  <2> QED
    BY <1>1, <1>3, <2>1, NextTypeParts DEF StoreTyped, CallTyped, Idle
<1> QED
  BY <1>4, <1>5, <1>6, <1>7

LEMMA CrashTypes == ASSUME TypeOK, Crash PROVE TypeOK'
<1>1. LedgerTyped /\ StoreTyped /\ CallTyped /\ AdapterTyped
  BY TypeParts
<1>2. LedgerTyped'
  BY LedgerAssumption DEF Crash, NewAdapter, LedgerTyped
<1>3. AdapterTyped'
  <2>1. InitialPrice \in [Symbols -> Nat]
    BY PaperAssumption
  <2>2. /\ mem' = [o \in Orders |-> NoRow] /\ claimed' = [i \in Ids |-> NoOrder]
        /\ declined' = {} /\ prices' = InitialPrice /\ log' = <<>>
        /\ kill' = FALSE /\ policy' = policy
    BY DEF Crash, NewAdapter
  <2>3. mem' \in [Orders -> Row \cup {NoRow}] /\ claimed' \in [Ids -> Orders \cup {NoOrder}]
    BY <2>2
  <2>4. log' \in Seq(Fill)
    BY <2>2
  <2>5. declined' \subseteq Orders /\ kill' \in BOOLEAN
    BY <2>2
  <2> QED
    BY <1>1, <2>1, <2>2, <2>3, <2>4, <2>5 DEF AdapterTyped
<1>4. StoreTyped'
  BY <1>1 DEF Crash, storeVars, StoreTyped
<1>5. CallTyped'
  <2>1. budget' = [budget EXCEPT !["crash"] = @ - 1] /\ budget["crash"] > 0
    BY DEF Crash, Strike
  <2>2. budget["crash"] - 1 \in Nat
    BY <1>1, <2>1 DEF CallTyped, FaultKinds
  <2>3. budget' \in [FaultKinds -> Nat]
    BY <1>1, <2>1, <2>2 DEF CallTyped
  <2>4. ctl' = [pc |-> "down", cur |-> NoOrder]
    BY DEF Crash, NewAdapter, Idle
  <2> QED
    BY <2>3, <2>4 DEF CallTyped
<1> QED
  BY <1>2, <1>3, <1>4, <1>5, NextTypeParts

TInv == IInv /\ TypeOK /\ EntryPending

LEMMA TypesStep == ASSUME TInv, [Next]_vars PROVE TypeOK'
<1>1. TypeOK /\ IInv /\ EntryPending
  BY DEF TInv
<1>2. CASE \E i \in Ids : Submit(i)
  BY <1>1, <1>2, SubmitTypes
<1>3. CASE \E o \in Orders : Cancel(o)
  BY <1>1, <1>3, MoveTypes DEF Cancel
<1>4. CASE Upsert
  BY <1>1, <1>4, UpsertTypes
<1>5. CASE Advance \/ Settle
  <2>1. cur \in Orders /\ mem[cur] # NoRow
    BY <1>1, <1>5 DEF Advance, Settle, IInv, CallOK, Busy
  <2>2. CASE Advance
    BY <1>1, <2>1, <2>2, MoveTypes DEF Advance
  <2>3. CASE Settle
    BY <1>1, <2>1, <2>3, MoveTypes DEF Settle
  <2> QED
    BY <1>5, <2>2, <2>3
<1>6. CASE RecordFill
  BY <1>1, <1>6, RecordFillTypes
<1>7. CASE PutCash \/ PutSnapshot \/ Reset \/ Restart \/ \E i \in Ids : SubmitDuplicate(i)
  BY <1>1, <1>7, BookkeepingTypes
<1>8. CASE Crash
  BY <1>1, <1>8, CrashTypes
<1>9. CASE UNCHANGED vars
  <2>1. LedgerTyped /\ StoreTyped /\ CallTyped /\ AdapterTyped
    BY <1>1, TypeParts
  <2> QED
    BY <1>9, <2>1, NextTypeParts
       DEF LedgerTyped, StoreTyped, CallTyped, AdapterTyped, vars, storeVars, bookVars, ledgerVars
<1> QED
  BY <1>2, <1>3, <1>4, <1>5, <1>6, <1>7, <1>8, <1>9 DEF Next

LEMMA EntryPendingStep == ASSUME TInv, [Next]_vars PROVE EntryPending'
<1> SUFFICES ASSUME ctl'.pc = "cash"
             PROVE  entries' # <<>> /\ entries'[Len(entries')].order = ctl'.cur
  BY DEF EntryPending, cur
<1>1. ctl \in [pc : Busy \cup {"down", "idle"}, cur : Orders \cup {NoOrder}]
  BY DEF TInv, IInv, Shape
<1>2. CASE UNCHANGED <<ctl, entries>>
  BY <1>2 DEF TInv, EntryPending, cur
<1>3. CASE RecordFill /\ ctl' # Idle
  <2>1. /\ BookBuy(TheFill) \/ BookSell(TheFill)
        /\ ctl' = [ctl EXCEPT !.pc = "cash"] /\ FillQuantity > 0
    BY <1>3 DEF RecordFill, Keep, Goto, StoreFails
  <2>2. cur \in Orders /\ mem[cur] # NoRow
    BY <1>3 DEF RecordFill, TInv, IInv, CallOK, Busy
  <2>3. TheFill \in Fill /\ TheFill.qty = FillQuantity /\ TheFill.order = cur
    BY <2>2, OrderAmounts DEF TheFill, TInv
  <2>4. LedgerTyped
    BY TypeParts DEF TInv
  <2>5. Takes(TheFill)
    BY <2>1, <2>3, <2>4, BuyTakes, SellTakes
  <2>6. PICK e \in Entry : entries' = Append(entries, e) /\ e.order = cur
    BY <2>3, <2>5 DEF Takes
  <2>7. entries \in Seq(Entry) /\ ctl'.cur = cur
    BY <1>1, <2>1, <2>4 DEF LedgerTyped, cur
  <2> QED
    BY <2>6, <2>7
<1>4. ctl' = Idle => FALSE
  BY DEF Idle
<1>5. ~Crash
  BY DEF Crash, NewAdapter, Idle
<1>6. ASSUME NEW o \in Orders, NEW p, Record(o, p) PROVE FALSE
  BY <1>4, <1>6 DEF Record, StoreFails
<1>7. CASE (\E i \in Ids : Submit(i)) \/ (\E o \in Orders : Cancel(o)) \/ Advance \/ Settle
  <2>1. ASSUME NEW i \in Ids, Submit(i) PROVE FALSE
    <3>1. (CHOOSE new_id \in Fresh : TRUE) \in Orders
      BY <2>1 DEF Submit, Fresh
    <3> QED
      BY <1>6, <2>1, <3>1 DEF Submit
  <2>2. ASSUME NEW o \in Orders, Cancel(o) PROVE FALSE
    BY <1>6, <2>2 DEF Cancel, Move
  <2>3. Advance \/ Settle => FALSE
    <3>1. Advance \/ Settle => cur \in Orders
      BY DEF Advance, Settle, TInv, IInv, CallOK, Busy
    <3> QED
      BY <1>6, <3>1 DEF Advance, Settle, Move
  <2> QED
    BY <1>7, <2>1, <2>2, <2>3
<1>8. CASE Upsert
  BY <1>1, <1>4, <1>8 DEF Upsert, AfterUpsert, StoreFails
<1>9. CASE PutCash \/ PutSnapshot
  BY <1>1, <1>4, <1>9 DEF PutCash, PutSnapshot, StoreFails, Goto
<1>10. CASE Reset \/ Restart \/ \E i \in Ids : SubmitDuplicate(i)
  BY <1>2, <1>4, <1>10
     DEF Reset, Restart, SubmitDuplicate, StoreFails, bookVars, ledgerVars
<1>11. CASE UNCHANGED vars
  BY <1>2, <1>11 DEF vars, bookVars, ledgerVars
<1> QED
  BY <1>3, <1>4, <1>5, <1>7, <1>8, <1>9, <1>10, <1>11 DEF Next

LEMMA InitialTypes == Init => TInv
<1> SUFFICES ASSUME Init PROVE TInv
  OBVIOUS
<1>1. TypeOK
  <2>1. LedgerTyped
    BY LedgerAssumption DEF Init, LedgerInit, LedgerTyped
  <2>2. StoreTyped
    <3>1. rows \in [Orders -> Row \cup {NoRow}] /\ evts \in [Orders -> Seq(OrderStatus)]
      BY DEF Init
    <3>2. sfills \in Seq(Fill) /\ cashRows \in Seq(Entry)
      BY DEF Init
    <3>3. snap \in Snapshot \cup {NoRow} /\ killRow \in BOOLEAN
      BY DEF Init
    <3> QED
      BY <3>1, <3>2, <3>3 DEF StoreTyped
  <2>3. CallTyped
    BY PaperAssumption DEF Init, Idle, CallTyped
  <2>4. AdapterTyped
    <3>1. InitialPrice \in [Symbols -> Nat]
      BY PaperAssumption
    <3>2. mem \in [Orders -> Row \cup {NoRow}] /\ claimed \in [Ids -> Orders \cup {NoOrder}]
      BY DEF Init
    <3>3. log \in Seq(Fill)
      BY DEF Init
    <3>4. declined \subseteq Orders /\ kill \in BOOLEAN
      BY DEF Init
    <3>5. prices = InitialPrice /\ policy \in Policies
      BY DEF Init
    <3> QED
      BY <3>1, <3>2, <3>3, <3>4, <3>5 DEF AdapterTyped
  <2> QED
    BY <2>1, <2>2, <2>3, <2>4, TypeParts
<1>2. EntryPending
  BY DEF Init, Idle, EntryPending
<1> QED
  BY <1>1, <1>2, InitialInvariant DEF TInv

\* Amounts stay whole numbers; prices, quantities, lots and fees never go below zero,
\* though a sale takes lots apart and every product is rounded.
THEOREM TypeCorrect == Spec => []TypeOK
<1>1. Init => TInv
  BY InitialTypes
<1>2. TInv /\ [Next]_vars => TInv'
  BY InvariantStep, TypesStep, EntryPendingStep DEF TInv
<1>3. TInv => TypeOK
  BY DEF TInv
<1> QED
  BY <1>1, <1>2, <1>3, PTL DEF Spec

-----------------------------------------------------------------------------
(***************************************************************************)
(* The books and the fills.                                                *)
(***************************************************************************)

\* The sums over a list of fills that got one more.
Flow(fills) == SumFunction([k \in DOMAIN fills |-> SignedAmount(fills[k])])

LEMMA FlowAdded ==
    ASSUME NEW fills \in Seq(Fill), NEW fill \in Fill
    PROVE  /\ Flow(Append(fills, fill)) = Flow(fills) + SignedAmount(fill)
           /\ Flow(fills) \in Int
<1> DEFINE new == Append(fills, fill)
           n == Len(fills)
           f == [k \in DOMAIN fills |-> SignedAmount(fills[k])]
           g == [k \in DOMAIN new |-> SignedAmount(new[k])]
<1>1. /\ n \in Nat /\ DOMAIN fills = 1 .. n /\ DOMAIN new = 1 .. n + 1
      /\ new[n + 1] = fill /\ \A k \in 1 .. n : new[k] = fills[k]
  OBVIOUS
<1>2. \A k \in 1 .. n + 1 : new[k] \in Fill
  OBVIOUS
<1>3. \A x \in Fill : SignedAmount(x) \in Int
  BY FillAmountsAreWhole
<1> HIDE DEF new, n
<1>4. /\ DOMAIN f = 1 .. n /\ DOMAIN g = 1 .. n + 1
      /\ \A k \in 1 .. n : g[k] = f[k]
      /\ \A k \in 1 .. n + 1 : g[k] \in Int
      /\ g[n + 1] = SignedAmount(fill)
  BY <1>1, <1>2, <1>3
<1>5. Flow(fills) = SumFunction(f) /\ Flow(new) = SumFunction(g)
  BY DEF Flow
<1> HIDE DEF f, g
<1>6. SumFunction(g) = SumFunction(f) + g[n + 1] /\ SumFunction(f) \in Int
  BY <1>1, <1>4, SumAppend
<1> QED
  BY <1>4, <1>5, <1>6 DEF new

LEMMA TradedAdded ==
    ASSUME NEW fills \in Seq(Fill), NEW fill \in Fill, NEW s, NEW side
    PROVE  /\ Traded(Append(fills, fill), s, side) = Traded(fills, s, side)
                  + (IF fill.symbol = s /\ fill.side = side THEN fill.qty ELSE 0)
           /\ Traded(fills, s, side) \in Int
<1> DEFINE new == Append(fills, fill)
           n == Len(fills)
           f == [k \in DOMAIN fills |-> IF fills[k].symbol = s /\ fills[k].side = side THEN fills[k].qty ELSE 0]
           g == [k \in DOMAIN new |-> IF new[k].symbol = s /\ new[k].side = side THEN new[k].qty ELSE 0]
<1>1. /\ n \in Nat /\ DOMAIN fills = 1 .. n /\ DOMAIN new = 1 .. n + 1
      /\ new[n + 1] = fill /\ \A k \in 1 .. n : new[k] = fills[k]
  OBVIOUS
<1>2. \A k \in 1 .. n + 1 : new[k] \in Fill
  OBVIOUS
<1>3. \A x \in Fill : (IF x.symbol = s /\ x.side = side THEN x.qty ELSE 0) \in Int
  BY FillAmountsAreWhole
<1> HIDE DEF new, n
<1>4. /\ DOMAIN f = 1 .. n /\ DOMAIN g = 1 .. n + 1
      /\ \A k \in 1 .. n : g[k] = f[k]
      /\ \A k \in 1 .. n + 1 : g[k] \in Int
      /\ g[n + 1] = (IF fill.symbol = s /\ fill.side = side THEN fill.qty ELSE 0)
  BY <1>1, <1>2, <1>3
<1>5. Traded(fills, s, side) = SumFunction(f) /\ Traded(new, s, side) = SumFunction(g)
  BY DEF Traded
<1> HIDE DEF f, g
<1>6. SumFunction(g) = SumFunction(f) + g[n + 1] /\ SumFunction(f) \in Int
  BY <1>1, <1>4, SumAppend
<1> QED
  BY <1>4, <1>5, <1>6 DEF new

LEMMA TradedIsWhole ==
    ASSUME NEW fills \in Seq(Fill), NEW s, NEW side PROVE Traded(fills, s, side) \in Int
<1> DEFINE f == [k \in DOMAIN fills |->
                    IF fills[k].symbol = s /\ fills[k].side = side THEN fills[k].qty ELSE 0]
<1>1. DOMAIN f = 1 .. Len(fills) /\ IsFiniteSet(1 .. Len(fills))
  BY FS_Interval
<1>2. \A k \in 1 .. Len(fills) : fills[k] \in Fill /\ k \in DOMAIN fills
  OBVIOUS
<1>3. \A x \in Fill : x.qty \in Int
  BY FillAmountsAreWhole
<1>4. \A k \in 1 .. Len(fills) : f[k] \in Int
  BY <1>2, <1>3
<1>5. Traded(fills, s, side) = SumFunction(f)
  BY DEF Traded
<1> HIDE DEF f
<1> QED
  BY <1>1, <1>4, <1>5, SumType DEF SumFunction

LEMMA FilledAdded ==
    ASSUME NEW fills \in Seq(Fill), NEW fill \in Fill, NEW o
    PROVE  /\ FilledIn(Append(fills, fill), o) = FilledIn(fills, o)
                  + (IF fill.order = o THEN fill.qty ELSE 0)
           /\ FilledIn(fills, o) \in Int
<1> DEFINE new == Append(fills, fill)
           n == Len(fills)
           f == [k \in DOMAIN fills |-> IF fills[k].order = o THEN fills[k].qty ELSE 0]
           g == [k \in DOMAIN new |-> IF new[k].order = o THEN new[k].qty ELSE 0]
<1>1. /\ n \in Nat /\ DOMAIN fills = 1 .. n /\ DOMAIN new = 1 .. n + 1
      /\ new[n + 1] = fill /\ \A k \in 1 .. n : new[k] = fills[k]
  OBVIOUS
<1>2. \A k \in 1 .. n + 1 : new[k] \in Fill
  OBVIOUS
<1>3. \A x \in Fill : (IF x.order = o THEN x.qty ELSE 0) \in Int
  BY FillAmountsAreWhole
<1> HIDE DEF new, n
<1>4. /\ DOMAIN f = 1 .. n /\ DOMAIN g = 1 .. n + 1
      /\ \A k \in 1 .. n : g[k] = f[k]
      /\ \A k \in 1 .. n + 1 : g[k] \in Int
      /\ g[n + 1] = (IF fill.order = o THEN fill.qty ELSE 0)
  BY <1>1, <1>2, <1>3
<1>5. FilledIn(fills, o) = SumFunction(f) /\ FilledIn(new, o) = SumFunction(g)
  BY DEF FilledIn
<1> HIDE DEF f, g
<1>6. SumFunction(g) = SumFunction(f) + g[n + 1] /\ SumFunction(f) \in Int
  BY <1>1, <1>4, SumAppend
<1> QED
  BY <1>4, <1>5, <1>6 DEF new

\* An order without a fill in the list has nothing filled there.
LEMMA NothingFilled ==
    ASSUME NEW fills \in Seq(Fill), NEW o, \A k \in DOMAIN fills : fills[k].order # o
    PROVE  FilledIn(fills, o) = 0
<1> DEFINE f == [k \in DOMAIN fills |-> IF fills[k].order = o THEN fills[k].qty ELSE 0]
<1>1. DOMAIN f = 1 .. Len(fills) /\ IsFiniteSet(1 .. Len(fills))
  BY FS_Interval
<1>2. \A k \in 1 .. Len(fills) : f[k] = 0
  OBVIOUS
<1> HIDE DEF f
<1>3. SumFunction(f) = 0
  BY <1>1, <1>2, SumOfZeros DEF SumFunction
<1> QED
  BY <1>3 DEF FilledIn, f

LEMMA NothingTraded ==
    /\ Flow(<<>>) = 0
    /\ \A s, side : Traded(<<>>, s, side) = 0
<1>1. \A f : DOMAIN f = {} => SumFunction(f) = 0
  BY SumOfNone DEF SumFunction
<1> QED
  BY <1>1 DEF Traded, Flow

CashFollows == cash = InitialCash + Flow(log)
HoldingsFollow ==
    \A s \in Symbols :
        Holding(s) = InitialHolding(s) + Traded(log, s, "BUY") - Traded(log, s, "SELL")

\* What rounding may have cost so far, but for what each lot that is still there
\* may cost when it is sold.
LotCount == SumFunction([s \in Symbols |-> Len(lots[s])])
RoundingsLeft == Roundings - Scale * LotCount
DriftWithin == 2 * Drift <= RoundingsLeft /\ -(2 * Drift) <= RoundingsLeft

LEMMA CashStep ==
    ASSUME log \in Seq(Fill), cash \in Int, NEW fill \in Fill, Takes(fill),
           log' = Append(log, fill), CashFollows
    PROVE  CashFollows'
<1>1. Flow(log') = Flow(log) + SignedAmount(fill) /\ Flow(log) \in Int
  BY FlowAdded
<1>2. cash' = cash + SignedAmount(fill) /\ SignedAmount(fill) \in Int /\ InitialCash \in Int
  BY LedgerAssumption DEF Takes
<1>3. cash' = InitialCash + Flow(log')
  BY <1>1, <1>2 DEF CashFollows
<1> QED
  BY <1>3 DEF CashFollows, Flow

LEMMA HoldingsStep ==
    ASSUME log \in Seq(Fill), LedgerTyped, NEW fill \in Fill, Takes(fill),
           log' = Append(log, fill), HoldingsFollow
    PROVE  HoldingsFollow'
<1> SUFFICES ASSUME NEW r \in Symbols
             PROVE  Holding(r)' = InitialHolding(r) + Traded(log', r, "BUY")
                                      - Traded(log', r, "SELL")
  BY DEF HoldingsFollow
<1> DEFINE B(x) == IF fill.symbol = r /\ fill.side = x THEN fill.qty ELSE 0
<1>1. /\ Traded(log', r, "BUY") = Traded(log, r, "BUY") + B("BUY")
      /\ Traded(log', r, "SELL") = Traded(log, r, "SELL") + B("SELL")
      /\ Traded(log, r, "BUY") \in Int /\ Traded(log, r, "SELL") \in Int
  <2>1. \A s, side :
           /\ Traded(log', s, side) = Traded(log, s, side)
                  + (IF fill.symbol = s /\ fill.side = side THEN fill.qty ELSE 0)
           /\ Traded(log, s, side) \in Int
    BY TradedAdded
  <2> QED
    BY <2>1
<1>2. Holding(r) = InitialHolding(r) + Traded(log, r, "BUY") - Traded(log, r, "SELL")
  BY DEF HoldingsFollow
<1>3. Holding(r) = QtyIn(r) /\ Holding(r)' = QtyIn(r)'
  BY DEF Holding, QtyIn, QtyOf
<1>4. QtyIn(r) \in Int /\ InitialHolding(r) \in Int
  <2>1. lots[r] \in Seq(Lot) /\ InitialLots[r] \in Seq(Lot)
    BY LedgerAssumption DEF LedgerTyped
  <2>2. SumFunction(QtyOf(lots[r])) \in Nat /\ SumFunction(QtyOf(InitialLots[r])) \in Nat
    BY <2>1, LotSums
  <2>3. InitialHolding(r) = SumFunction(QtyOf(InitialLots[r]))
    BY DEF InitialHolding, QtyOf
  <2> QED
    BY <2>2, <2>3 DEF QtyIn
<1>5. fill.qty \in Nat /\ fill.side \in {"BUY", "SELL"}
  BY FillAmountsAreWhole
<1>6. CASE fill.symbol = r
  <2>1. QtyIn(r)' = QtyIn(r) + (IF fill.side = "BUY" THEN fill.qty ELSE -fill.qty)
    BY <1>6 DEF Takes
  <2>2. CASE fill.side = "BUY"
    <3>1. B("BUY") = fill.qty /\ B("SELL") = 0
      BY <1>6, <2>2
    <3> QED
      BY <1>1, <1>2, <1>3, <1>4, <1>5, <2>1, <2>2, <3>1
  <2>3. CASE fill.side = "SELL"
    <3>1. B("BUY") = 0 /\ B("SELL") = fill.qty
      BY <1>6, <2>3
    <3> QED
      BY <1>1, <1>2, <1>3, <1>4, <1>5, <2>1, <2>3, <3>1
  <2> QED
    BY <1>5, <2>2, <2>3
<1>7. CASE fill.symbol # r
  <2>1. QtyIn(r)' = QtyIn(r)
    BY <1>7 DEF Takes, QtyIn
  <2>2. B("BUY") = 0 /\ B("SELL") = 0
    BY <1>7
  <2> QED
    BY <1>1, <1>2, <1>3, <1>4, <2>1, <2>2
<1> QED
  BY <1>6, <1>7

\* The sums over the symbols, and what a fill of one of them changes.
Costs == [s \in Symbols |-> CostIn(s)]
Lengths == [s \in Symbols |-> Len(lots[s])]
BuysIn(fills) == [s \in Symbols |-> Traded(fills, s, "BUY")]

LEMMA DriftParts ==
    /\ Drift = Scale * (cash - InitialCash - realized) + SumFunction(Costs) - AtCost(InitialLots)
    /\ RoundingsLeft = (SumFunction(BuysIn(log))
           + Scale * (Len(log) + SumFunction([s \in Symbols |-> Len(InitialLots[s])])))
           - Scale * SumFunction(Lengths)
<1>1. AtCost(lots) = SumFunction(Costs)
  BY DEF AtCost, Costs, CostIn, CostOf
<1>2. Drift = Scale * (cash - InitialCash - realized) + SumFunction(Costs) - AtCost(InitialLots)
  BY <1>1 DEF Drift
<1>3. Roundings = SumFunction(BuysIn(log))
           + Scale * (Len(log) + SumFunction([s \in Symbols |-> Len(InitialLots[s])]))
  BY DEF Roundings, BuysIn
<1>4. LotCount = SumFunction(Lengths)
  BY DEF LotCount, Lengths
<1>5. RoundingsLeft = Roundings - Scale * LotCount
  BY DEF RoundingsLeft
<1>6. RoundingsLeft = (SumFunction(BuysIn(log))
           + Scale * (Len(log) + SumFunction([s \in Symbols |-> Len(InitialLots[s])])))
           - Scale * SumFunction(Lengths)
  <2> DEFINE total == SumFunction(BuysIn(log))
           + Scale * (Len(log) + SumFunction([s \in Symbols |-> Len(InitialLots[s])]))
  <2>1. Roundings = total
    BY <1>3
  <2> HIDE DEF total
  <2>2. RoundingsLeft = total - Scale * SumFunction(Lengths)
    BY <1>4, <1>5, <2>1
  <2> QED
    BY <2>2 DEF total
<1> QED
  BY <1>2, <1>6

LEMMA NextDriftParts ==
    /\ Drift' = Scale * (cash' - InitialCash - realized') + SumFunction(Costs')
                    - AtCost(InitialLots)
    /\ RoundingsLeft' = (SumFunction(BuysIn(log'))
           + Scale * (Len(log') + SumFunction([s \in Symbols |-> Len(InitialLots[s])])))
           - Scale * SumFunction(Lengths')
<1>1. AtCost(lots') = SumFunction(Costs')
  BY DEF AtCost, Costs, CostIn, CostOf
<1>2. Drift' = Scale * (cash' - InitialCash - realized') + SumFunction(Costs')
                  - AtCost(InitialLots)
  BY <1>1 DEF Drift
<1>3. Roundings' = SumFunction(BuysIn(log'))
           + Scale * (Len(log') + SumFunction([s \in Symbols |-> Len(InitialLots[s])]))
  BY DEF Roundings, BuysIn
<1>4. LotCount' = SumFunction(Lengths')
  BY DEF LotCount, Lengths
<1>5. RoundingsLeft' = Roundings' - Scale * LotCount'
  BY DEF RoundingsLeft
<1>6. RoundingsLeft' = (SumFunction(BuysIn(log'))
           + Scale * (Len(log') + SumFunction([s \in Symbols |-> Len(InitialLots[s])])))
           - Scale * SumFunction(Lengths')
  <2> DEFINE total == SumFunction(BuysIn(log'))
           + Scale * (Len(log') + SumFunction([s \in Symbols |-> Len(InitialLots[s])]))
  <2>1. Roundings' = total
    BY <1>3
  <2> HIDE DEF total
  <2>2. RoundingsLeft' = total - Scale * SumFunction(Lengths')
    BY <1>4, <1>5, <2>1
  <2> QED
    BY <2>2 DEF total
<1> QED
  BY <1>2, <1>6

LEMMA InitialSums ==
    /\ AtCost(InitialLots) \in Int
    /\ SumFunction([s \in Symbols |-> Len(InitialLots[s])]) \in Int
<1>1. \A s \in Symbols : InitialLots[s] \in Seq(Lot)
  BY LedgerAssumption
<1>2. \A s \in Symbols : SumFunction(CostOf(InitialLots[s])) \in Int /\ Len(InitialLots[s]) \in Int
  BY <1>1, LotSums
<1> DEFINE f == [s \in Symbols |-> SumFunction(CostOf(InitialLots[s]))]
           g == [s \in Symbols |-> Len(InitialLots[s])]
<1>3. DOMAIN f = Symbols /\ DOMAIN g = Symbols /\ \A s \in Symbols : f[s] \in Int /\ g[s] \in Int
  BY <1>2
<1>4. AtCost(InitialLots) = SumFunction(f)
  BY DEF AtCost, CostOf
<1> HIDE DEF f, g
<1>5. SumFunction(f) \in Int /\ SumFunction(g) \in Int
  BY <1>3, LedgerAssumption, SumType DEF SumFunction
<1> QED
  BY <1>4, <1>5 DEF g

LEMMA DriftStep ==
    ASSUME log \in Seq(Fill), LedgerTyped, NEW fill \in Fill, Takes(fill),
           log' = Append(log, fill), DriftWithin
    PROVE  DriftWithin'
<1> DEFINE s == fill.symbol
           bought == IF fill.side = "BUY" THEN fill.qty ELSE 0
           costs == SumFunction(Costs)
           lengths == SumFunction(Lengths)
           buys == SumFunction(BuysIn(log))
           first == SumFunction([r \in Symbols |-> Len(InitialLots[r])])
           change == Len(lots'[s]) - Len(lots[s])
<1>1. s \in Symbols /\ fill.qty \in Nat /\ bought \in Int /\ IsFiniteSet(Symbols)
  BY FillAmountsAreWhole, LedgerAssumption
<1>2. /\ cash \in Int /\ realized \in Int /\ cash' \in Int /\ realized' \in Int
      /\ \A r \in Symbols : lots[r] \in Seq(Lot) /\ lots'[r] \in Seq(Lot)
  BY DEF LedgerTyped, Takes
<1>3. SumFunction(Costs') = costs - CostIn(s) + CostIn(s)' /\ costs \in Int
  <2>1. \A r \in Symbols : CostIn(r) \in Int /\ CostIn(r)' \in Int
    BY <1>2, LotSums DEF CostIn
  <2>2. \A r \in Symbols \ {s} : CostIn(r)' = CostIn(r)
    BY DEF Takes, CostIn
  <2> DEFINE f == Costs
             g == Costs'
  <2>3. /\ DOMAIN f = Symbols /\ DOMAIN g = Symbols
        /\ \A r \in Symbols : f[r] \in Int /\ g[r] \in Int
        /\ \A r \in Symbols \ {s} : g[r] = f[r]
        /\ f[s] = CostIn(s) /\ g[s] = CostIn(s)'
    BY <1>1, <2>1, <2>2 DEF Costs
  <2> HIDE DEF f, g
  <2>4. SumFunction(g) = SumFunction(f) - f[s] + g[s] /\ SumFunction(f) \in Int
    <3>1. s \in Symbols /\ IsFiniteSet(Symbols)
      BY <1>1
    <3> HIDE DEF s
    <3>2. ChangedAt(f, g, Symbols, s)
      BY <2>3 DEF ChangedAt
    <3>3. /\ SumFunctionOnSet(g, Symbols) = SumFunctionOnSet(f, Symbols) - f[s] + g[s]
          /\ SumFunctionOnSet(f, Symbols) \in Int
      BY <3>1, <3>2, SumChange
    <3> QED
      BY <2>3, <3>3 DEF SumFunction
  <2> QED
    BY <2>3, <2>4 DEF f, g
<1>4. SumFunction(Lengths') = lengths + change /\ lengths \in Int /\ change \in Int
  <2>1. \A r \in Symbols : Len(lots[r]) \in Int /\ Len(lots'[r]) \in Int
    BY <1>2
  <2>2. \A r \in Symbols \ {s} : lots'[r] = lots[r]
    BY DEF Takes
  <2> DEFINE f == Lengths
             g == Lengths'
  <2>3. /\ DOMAIN f = Symbols /\ DOMAIN g = Symbols
        /\ \A r \in Symbols : f[r] \in Int /\ g[r] \in Int
        /\ \A r \in Symbols \ {s} : g[r] = f[r]
        /\ f[s] = Len(lots[s]) /\ g[s] = Len(lots'[s])
    BY <1>1, <2>1, <2>2 DEF Lengths
  <2> HIDE DEF f, g
  <2>4. SumFunction(g) = SumFunction(f) - f[s] + g[s] /\ SumFunction(f) \in Int
    <3>1. s \in Symbols /\ IsFiniteSet(Symbols)
      BY <1>1
    <3> HIDE DEF s
    <3>2. ChangedAt(f, g, Symbols, s)
      BY <2>3 DEF ChangedAt
    <3>3. /\ SumFunctionOnSet(g, Symbols) = SumFunctionOnSet(f, Symbols) - f[s] + g[s]
          /\ SumFunctionOnSet(f, Symbols) \in Int
      BY <3>1, <3>2, SumChange
    <3> QED
      BY <2>3, <3>3 DEF SumFunction
  <2>5. f[s] \in Int /\ g[s] \in Int
    BY <1>1, <2>3
  <2>6. SumFunction(g) = SumFunction(f) + (g[s] - f[s]) /\ g[s] - f[s] \in Int
    BY <2>4, <2>5
  <2> QED
    BY <2>3, <2>4, <2>6 DEF f, g
<1>5. SumFunction(BuysIn(log')) = buys + bought /\ buys \in Int
  <2>1. \A r, side :
           /\ Traded(log', r, side) = Traded(log, r, side)
                  + (IF fill.symbol = r /\ fill.side = side THEN fill.qty ELSE 0)
           /\ Traded(log, r, side) \in Int
    BY TradedAdded
  <2> DEFINE f == BuysIn(log)
             g == BuysIn(log')
  <2>2. /\ DOMAIN f = Symbols /\ DOMAIN g = Symbols
        /\ \A r \in Symbols : f[r] \in Int /\ g[r] \in Int
        /\ \A r \in Symbols \ {s} : g[r] = f[r]
        /\ g[s] = f[s] + bought
    BY <1>1, <2>1 DEF BuysIn
  <2> HIDE DEF f, g, bought
  <2>3. SumFunction(g) = SumFunction(f) - f[s] + g[s] /\ SumFunction(f) \in Int
    <3>1. s \in Symbols /\ IsFiniteSet(Symbols)
      BY <1>1
    <3> HIDE DEF s
    <3>2. ChangedAt(f, g, Symbols, s)
      BY <2>2 DEF ChangedAt
    <3>3. /\ SumFunctionOnSet(g, Symbols) = SumFunctionOnSet(f, Symbols) - f[s] + g[s]
          /\ SumFunctionOnSet(f, Symbols) \in Int
      BY <3>1, <3>2, SumChange
    <3> QED
      BY <2>2, <3>3 DEF SumFunction
  <2>4. f[s] \in Int
    BY <1>1, <2>2
  <2>5. SumFunction(g) = SumFunction(f) + bought
    BY <1>1, <2>2, <2>3, <2>4
  <2> QED
    BY <2>3, <2>5 DEF f, g
<1>6. Len(log) \in Int /\ Len(log') = Len(log) + 1
  OBVIOUS
<1> DEFINE drift == Worth(s)' - Worth(s)
           allowed == bought + Scale * (1 + Len(lots[s]) - Len(lots'[s]))
<1>7. 2 * drift <= allowed /\ -(2 * drift) <= allowed /\ CostIn(s) \in Int /\ CostIn(s)' \in Int
  BY DEF Takes
<1>8. Scale \in Nat /\ InitialCash \in Int /\ AtCost(InitialLots) \in Int /\ first \in Int
  BY LedgerAssumption, InitialSums
<1>9. Drift' = Drift + drift /\ Drift \in Int /\ drift \in Int
  <2>1. Drift = Scale * (cash - InitialCash - realized) + costs - AtCost(InitialLots)
    BY DriftParts
  <2>2. Drift' = Scale * (cash' - InitialCash - realized') + SumFunction(Costs')
                     - AtCost(InitialLots)
    BY NextDriftParts
  <2>3. drift = (Scale * (cash' - realized') + CostIn(s)') - (Scale * (cash - realized) + CostIn(s))
    BY DEF Worth
  <2> DEFINE x == cash - realized
             y == cash' - realized'
  <2>4. /\ cash - InitialCash - realized = x - InitialCash
        /\ cash' - InitialCash - realized' = y - InitialCash
        /\ x \in Int /\ y \in Int
    BY <1>2, <1>8
  <2> HIDE DEF x, y
  <2>5. /\ Scale * (x - InitialCash) = Scale * x - Scale * InitialCash
        /\ Scale * (y - InitialCash) = Scale * y - Scale * InitialCash
        /\ Scale * x \in Int /\ Scale * y \in Int /\ Scale * InitialCash \in Int
    BY <1>8, <2>4
  <2>6. drift = (Scale * y + CostIn(s)') - (Scale * x + CostIn(s))
    BY <2>3 DEF x, y
  <2> DEFINE u == Scale * x
             v == Scale * y
             w == Scale * InitialCash
             c == CostIn(s)
             d == CostIn(s)'
             i == AtCost(InitialLots)
  <2>7. /\ u \in Int /\ v \in Int /\ w \in Int /\ c \in Int /\ d \in Int /\ i \in Int
        /\ costs \in Int
        /\ Drift = (u - w) + costs - i
        /\ Drift' = (v - w) + (costs - c + d) - i
        /\ drift = (v + d) - (u + c)
    BY <1>3, <1>7, <1>8, <2>1, <2>2, <2>4, <2>5, <2>6
  <2> HIDE DEF drift, costs, u, v, w, c, d, i
  <2> QED
    BY <2>7
<1>10. RoundingsLeft' = RoundingsLeft + allowed /\ RoundingsLeft \in Int /\ allowed \in Int
  <2>1. RoundingsLeft = (buys + Scale * (Len(log) + first)) - Scale * lengths
    BY DriftParts
  <2>2. RoundingsLeft' = (SumFunction(BuysIn(log')) + Scale * (Len(log') + first))
                             - Scale * SumFunction(Lengths')
    BY NextDriftParts
  <2> HIDE DEF change, lengths, buys, first, bought
  <2>3. /\ Scale * (Len(log') + first) = Scale * (Len(log) + first) + Scale
        /\ Scale * (lengths + change) = Scale * lengths + Scale * change
        /\ Scale * (1 - change) = Scale - Scale * change
        /\ Scale * (Len(log) + first) \in Int /\ Scale * lengths \in Int /\ Scale * change \in Int
    BY <1>4, <1>6, <1>8
  <2>4. allowed = bought + Scale * (1 - change)
    <3>1. 1 + Len(lots[s]) - Len(lots'[s]) = 1 - change
      BY <1>1, <1>2 DEF change
    <3> QED
      BY <3>1
  <2> HIDE DEF allowed
  <2> QED
    BY <1>1, <1>4, <1>5, <1>8, <2>1, <2>2, <2>3, <2>4
<1>11. 2 * Drift <= RoundingsLeft /\ -(2 * Drift) <= RoundingsLeft
  BY DEF DriftWithin
<1> HIDE DEF drift, allowed
<1>12. 2 * Drift' <= RoundingsLeft' /\ -(2 * Drift') <= RoundingsLeft'
  BY <1>7, <1>9, <1>10, <1>11
<1> QED
  BY <1>12 DEF DriftWithin

-----------------------------------------------------------------------------
(***************************************************************************)
(* The inductive invariant of the books.                                   *)
(***************************************************************************)
LoggedOrdersFilled ==
    \A k \in DOMAIN log : mem[log[k].order] # NoRow /\ mem[log[k].order].filled > 0

\* What has passed the check of submit_intent can be paid until it is filled.
Checked == Unfilled \ {"PLANNED"}
CashCovers ==
    ctl.pc \in {"upsert", "step"} /\ mem[cur].status \in Checked /\ Order.side = "BUY"
    => cash >= HalfUp(Order.qty * FillPrice, Scale) + Fee

BooksFollow == CashFollows /\ (NoFillRefused => HoldingsFollow /\ DriftWithin)
BooksInv == LoggedOrdersFilled /\ BooksFollow /\ CashCovers /\ CashNeverNegative

\* The order of the call has more to do when a step is next.
StepUnderway == ctl.pc = "step" => mem[cur].status \in Underway

LEMMA BooksFollowImplies == BooksFollow => BooksFollowFills
BY DEF BooksFollow, BooksFollowFills, CashFollows, HoldingsFollow, Flow

LEMMA ProfitImplies == TypeOK /\ BooksFollow => ProfitWithinRounding
<1> SUFFICES ASSUME TypeOK, BooksFollow, NoFillRefused
             PROVE  2 * Drift <= Roundings /\ -(2 * Drift) <= Roundings
  BY DEF ProfitWithinRounding
<1>1. LedgerTyped /\ log \in Seq(Fill)
  BY TypeParts DEF AdapterTyped
<1>2. LotCount \in Nat
  <2>1. \A s \in Symbols : Len(lots[s]) \in Nat
    BY <1>1 DEF LedgerTyped
  <2> DEFINE f == [s \in Symbols |-> Len(lots[s])]
  <2>2. DOMAIN f = Symbols /\ \A s \in Symbols : f[s] \in Nat
    BY <2>1
  <2>3. LotCount = SumFunction(f)
    BY DEF LotCount
  <2> HIDE DEF f
  <2> QED
    BY <2>2, <2>3, LedgerAssumption, SumIsNat DEF SumFunction
<1>3. RoundingsLeft = Roundings - Scale * LotCount /\ Scale * LotCount \in Nat
  BY <1>2, LedgerAssumption DEF RoundingsLeft
<1>4. Roundings \in Int /\ Drift \in Int
  <2>1. \A s \in Symbols : Traded(log, s, "BUY") \in Int /\ CostIn(s) \in Int
    <3>1. ASSUME NEW s \in Symbols PROVE Traded(log, s, "BUY") \in Int
      BY <1>1, TradedIsWhole
    <3>2. ASSUME NEW s \in Symbols PROVE CostIn(s) \in Int
      <4>1. lots[s] \in Seq(Lot)
        BY <1>1 DEF LedgerTyped
      <4> QED
        BY <4>1, LotSums DEF CostIn
    <3> QED
      BY <3>1, <3>2
  <2>2. SumFunction(BuysIn(log)) \in Int /\ SumFunction(Costs) \in Int
    <3>1. DOMAIN BuysIn(log) = Symbols /\ \A s \in Symbols : BuysIn(log)[s] \in Int
      BY <2>1 DEF BuysIn
    <3>2. DOMAIN Costs = Symbols /\ \A s \in Symbols : Costs[s] \in Int
      BY <2>1 DEF Costs
    <3> QED
      BY <3>1, <3>2, LedgerAssumption, SumType DEF SumFunction
  <2>3. Roundings = SumFunction(BuysIn(log))
           + Scale * (Len(log) + SumFunction([s \in Symbols |-> Len(InitialLots[s])]))
    BY DEF Roundings, BuysIn
  <2>4. Len(log) \in Int /\ Scale \in Int /\ InitialCash \in Int /\ cash \in Int /\ realized \in Int
    BY <1>1, LedgerAssumption DEF LedgerTyped
  <2> DEFINE first == SumFunction([s \in Symbols |-> Len(InitialLots[s])])
  <2>5. first \in Int /\ AtCost(InitialLots) \in Int
    BY InitialSums
  <2> HIDE DEF first
  <2>6. Scale * (Len(log) + first) \in Int
    BY <2>4, <2>5
  <2>7. Roundings \in Int
    BY <2>2, <2>3, <2>6 DEF first
  <2>8. Scale * (cash - InitialCash - realized) \in Int
    BY <2>4
  <2>9. Drift \in Int
    BY <2>2, <2>5, <2>8, DriftParts
  <2> QED
    BY <2>7, <2>9
<1>5. 2 * Drift <= RoundingsLeft /\ -(2 * Drift) <= RoundingsLeft
  BY DEF BooksFollow, DriftWithin
<1> DEFINE left == Scale * LotCount
<1> HIDE DEF left
<1>6. RoundingsLeft = Roundings - left /\ left \in Nat
  BY <1>3 DEF left
<1> QED
  BY <1>4, <1>5, <1>6

LEMMA SameBooks ==
    ASSUME UNCHANGED <<cash, realized, lots, log>>
    PROVE  /\ CashFollows => CashFollows'
           /\ HoldingsFollow => HoldingsFollow'
           /\ DriftWithin => DriftWithin'
<1>1. CashFollows => CashFollows'
  BY DEF CashFollows, Flow
<1>2. HoldingsFollow => HoldingsFollow'
  BY DEF HoldingsFollow, Holding, Traded
<1>3. DriftWithin => DriftWithin'
  BY DEF DriftWithin, Drift, RoundingsLeft, Roundings, LotCount, AtCost, Traded
<1> QED
  BY <1>1, <1>2, <1>3

\* A step that leaves the books alone, and the order of the call as it was.
LEMMA BooksSame ==
    ASSUME BooksInv, UNCHANGED <<bookVars, mem, policy>>,
           ctl'.pc \in {"upsert", "step"} => ctl.pc \in {"upsert", "step"} /\ ctl'.cur = ctl.cur
    PROVE  BooksInv'
<1>1. UNCHANGED <<cash, realized, lots, entries, prices, log, mem, policy>>
  BY DEF bookVars, ledgerVars
<1>2. LoggedOrdersFilled' /\ CashNeverNegative'
  BY <1>1 DEF BooksInv, LoggedOrdersFilled, CashNeverNegative
<1>3. BooksFollow'
  BY <1>1, SameBooks DEF BooksInv, BooksFollow, NoFillRefused
<1>4. CashCovers'
  <2>1. CASE ctl'.pc \in {"upsert", "step"}
    <3>1. ctl'.cur = ctl.cur /\ ctl.pc \in {"upsert", "step"}
      BY <2>1
    <3> QED
      BY <1>1, <3>1 DEF BooksInv, CashCovers, cur, Order, FillPrice, Fee
  <2>2. CASE ctl'.pc \notin {"upsert", "step"}
    BY <2>2 DEF CashCovers
  <2> QED
    BY <2>1, <2>2
<1> QED
  BY <1>2, <1>3, <1>4 DEF BooksInv

-----------------------------------------------------------------------------
(***************************************************************************)
(* What a recorded event says, whichever action records it.                *)
(***************************************************************************)
Executed == {"FILLED", "PARTIALLY_FILLED"}

RecordedAs(o, p) ==
    /\ Record(o, p) /\ UNCHANGED <<bookVars, policy>>
    /\ ctl.pc \notin {"cash", "snapshot", "upsert"}
    /\ mem[o] = NoRow => rows[o] = NoRow /\ p.filled = 0
    /\ mem[o] # NoRow => p.filled = mem[o].filled /\ p.intent = mem[o].intent
    /\ p.status \in Executed => ctl.pc = "settle" /\ o = cur
    /\ p.status \in Checked =>
          /\ ctl.pc = "step" /\ o = cur /\ mem[cur].status \in Unfilled
          /\ mem[cur].status = "PLANNED" => ~PrecheckFails

LEMMA SubmitRecords ==
    ASSUME NEW i \in Ids, Submit(i)
    PROVE  \E o \in Orders, p \in Row : RecordedAs(o, p)
<1> DEFINE o == CHOOSE new_id \in Fresh : TRUE
           p == [intent |-> i, status |-> "PLANNED", filled |-> 0]
<1>1. o \in Fresh /\ ctl.pc = "idle"
  BY DEF Submit
<1>2. o \in Orders /\ rows[o] = NoRow /\ mem[o] = NoRow
  BY <1>1 DEF Fresh
<1>3. Record(o, p) /\ UNCHANGED <<bookVars, policy>>
  BY DEF Submit
<1>4. p \in Row /\ p.filled = 0 /\ p.status = "PLANNED"
  BY DEF Row, OrderStatus
<1> HIDE DEF o, p
<1>5. p.status \notin Executed \cup Checked
  BY <1>4 DEF Executed, Checked
<1>6. RecordedAs(o, p)
  BY <1>1, <1>2, <1>3, <1>5, <1>4 DEF RecordedAs
<1> QED
  BY <1>2, <1>4, <1>6

LEMMA MoveRecords ==
    ASSUME TInv, NEW o \in Orders, NEW status, Move(o, status), UNCHANGED <<bookVars, policy>>,
           mem[o] # NoRow, ctl.pc \notin {"cash", "snapshot", "upsert"},
           status \in Executed => ctl.pc = "settle" /\ o = cur,
           status \in Checked =>
              /\ ctl.pc = "step" /\ o = cur /\ mem[cur].status \in Unfilled
              /\ mem[cur].status = "PLANNED" => ~PrecheckFails
    PROVE  \E q \in Orders, p \in Row : RecordedAs(q, p)
<1>1. mem[o] \in Row
  BY DEF TInv, IInv, Shape
<1>2. status \in OrderStatus
  BY <1>1, MovesForward DEF Move, Row
<1> DEFINE p == [mem[o] EXCEPT !.status = status]
<1>3. p \in Row /\ p.intent = mem[o].intent /\ p.filled = mem[o].filled /\ p.status = status
  BY <1>1, <1>2 DEF Row
<1>4. Record(o, p)
  BY DEF Move
<1> HIDE DEF p
<1>5. RecordedAs(o, p)
  BY <1>3, <1>4 DEF RecordedAs
<1> QED
  BY <1>3, <1>5

LEMMA Recordings ==
    ASSUME TInv, StepUnderway,
           (\E i \in Ids : Submit(i)) \/ (\E o \in Orders : Cancel(o)) \/ Advance \/ Settle
    PROVE  \E o \in Orders, p \in Row : RecordedAs(o, p)
<1>1. CASE \E i \in Ids : Submit(i)
  BY <1>1, SubmitRecords
<1>2. CASE \E o \in Orders : Cancel(o)
  <2>1. PICK o \in Orders : Cancel(o)
    BY <1>2
  <2>2. "CANCEL_REQUESTED" \notin Executed \cup Checked
    BY DEF Executed, Checked, Unfilled
  <2>3. /\ mem[o] # NoRow /\ Move(o, "CANCEL_REQUESTED") /\ UNCHANGED <<bookVars, policy>>
        /\ ctl.pc = "idle"
    BY <2>1 DEF Cancel
  <2> QED
    BY <2>2, <2>3, MoveRecords
<1>3. CASE Advance
  <2>1. cur \in Orders /\ mem[cur] # NoRow /\ ctl.pc = "step" /\ mem[cur].status \in Underway
    BY <1>3 DEF Advance, TInv, IInv, CallOK, Busy, StepUnderway
  <2> DEFINE status == NextStatus(mem[cur].status)
  <2>2. /\ status \notin Executed
        /\ status \in Checked =>
              /\ mem[cur].status \in Unfilled
              /\ mem[cur].status = "PLANNED" => ~PrecheckFails
    <3>1. mem[cur].status \in Underway \ {"WORKING"}
      BY <1>3, <2>1 DEF Advance
    <3> QED
      BY <3>1 DEF NextStatus, Executed, Checked, Unfilled, Underway
  <2>3. Move(cur, status) /\ UNCHANGED <<bookVars, policy>>
    BY <1>3 DEF Advance
  <2> HIDE DEF status
  <2> QED
    BY <2>1, <2>2, <2>3, MoveRecords
<1>4. CASE Settle
  <2>1. cur \in Orders /\ mem[cur] # NoRow /\ ctl.pc = "settle"
    BY <1>4 DEF Settle, TInv, IInv, CallOK, Busy
  <2> DEFINE status == IF mem[cur].filled = Order.qty THEN "FILLED" ELSE "PARTIALLY_FILLED"
  <2>2. status \notin Checked
    BY DEF Checked, Unfilled, Underway
  <2>3. Move(cur, status) /\ UNCHANGED <<bookVars, policy>>
    BY <1>4 DEF Settle
  <2> HIDE DEF status
  <2> QED
    BY <2>1, <2>2, <2>3, MoveRecords
<1> QED
  BY <1>1, <1>2, <1>3, <1>4

\* What a recorded event leaves in memory.
LEMMA RecordedMemory ==
    ASSUME TInv, NEW o \in Orders, NEW p \in Row, RecordedAs(o, p)
    PROVE  /\ mem'[o] = p /\ mem'[o] # NoRow
           /\ \A q \in Orders : q # o => mem'[q] = mem[q]
           /\ UNCHANGED <<rows, sfills, cashRows, snap, cash, realized, lots, entries, prices,
                          log, policy>>
           /\ \/ ctl'.pc = "upsert" /\ ctl'.cur = o /\ UNCHANGED budget
              \/ ctl' = Idle /\ Strike("store")
<1>1. mem' = [mem EXCEPT ![o] = p] /\ UNCHANGED <<bookVars, policy>>
      /\ UNCHANGED <<rows, sfills, cashRows, snap>>
      /\ \/ ctl' = [pc |-> "upsert", cur |-> o] /\ UNCHANGED budget
         \/ ctl' = Idle /\ Strike("store")
  BY DEF RecordedAs, Record, StoreFails, storeVars
<1>2. mem \in [Orders -> Row \cup {NoRow}] /\ p # NoRow
  BY PaperNullAssumption DEF TInv, TypeOK
<1> QED
  BY <1>1, <1>2 DEF bookVars, ledgerVars

LEMMA StepUnderwayStep == ASSUME TInv, StepUnderway, [Next]_vars PROVE StepUnderway'
<1> SUFFICES ASSUME ctl'.pc = "step" PROVE mem'[ctl'.cur].status \in Underway
  BY DEF StepUnderway, cur
<1>1. ctl \in [pc : Busy \cup {"down", "idle"}, cur : Orders \cup {NoOrder}]
  BY DEF TInv, IInv, Shape
<1>2. CASE UNCHANGED <<ctl, mem>>
  BY <1>2 DEF StepUnderway, cur
<1>3. ctl' # Idle
  BY DEF Idle
<1>4. CASE (\E i \in Ids : Submit(i)) \/ (\E o \in Orders : Cancel(o)) \/ Advance \/ Settle
  <2>1. PICK o \in Orders, p \in Row : RecordedAs(o, p)
    BY <1>4, Recordings
  <2> QED
    BY <1>3, <2>1, RecordedMemory
<1>5. CASE Upsert
  <2>1. UNCHANGED mem /\ AfterUpsert
    BY <1>3, <1>5 DEF Upsert, StoreFails
  <2>2. mem[cur].status \in Underway /\ ctl' = [ctl EXCEPT !.pc = "step"]
    BY <1>3, <2>1 DEF AfterUpsert
  <2> QED
    BY <1>1, <2>1, <2>2 DEF cur
<1>6. CASE RecordFill
  BY <1>1, <1>3, <1>6 DEF RecordFill, Keep, StoreFails, Goto
<1>7. CASE PutCash \/ PutSnapshot
  BY <1>1, <1>3, <1>7 DEF PutCash, PutSnapshot, StoreFails, Goto
<1>8. CASE Reset \/ Restart \/ \E i \in Ids : SubmitDuplicate(i)
  BY <1>2, <1>3, <1>8 DEF Reset, Restart, SubmitDuplicate, StoreFails
<1>9. CASE Crash
  BY <1>9 DEF Crash, NewAdapter, Idle
<1>10. CASE UNCHANGED vars
  BY <1>2, <1>10 DEF vars
<1> QED
  BY <1>4, <1>5, <1>6, <1>7, <1>8, <1>9, <1>10 DEF Next

\* The filled quantities say no less after the event than before.
LEMMA RecordedFills ==
    ASSUME TInv, LoggedOrdersFilled, NEW o \in Orders, NEW p \in Row, RecordedAs(o, p)
    PROVE  LoggedOrdersFilled' /\ (NoFillRefused' => NoFillRefused)
<1>1. /\ mem'[o] = p /\ mem'[o] # NoRow /\ log' = log
      /\ \A q \in Orders : q # o => mem'[q] = mem[q]
  BY RecordedMemory
<1>2. mem[o] # NoRow => p.filled = mem[o].filled
  BY DEF RecordedAs
<1>3. log \in Seq(Fill)
  BY DEF TInv, TypeOK
<1>4. \A k \in DOMAIN log : log[k].order \in Orders
  <2>1. \A k \in DOMAIN log : log[k] \in Fill
    BY <1>3
  <2> QED
    BY <2>1 DEF Fill
<1>5. LoggedOrdersFilled'
  <2> SUFFICES ASSUME NEW k \in DOMAIN log
               PROVE  mem'[log[k].order] # NoRow /\ mem'[log[k].order].filled > 0
    BY <1>1 DEF LoggedOrdersFilled
  <2>1. mem[log[k].order] # NoRow /\ mem[log[k].order].filled > 0
    BY DEF LoggedOrdersFilled
  <2>2. CASE log[k].order = o
    BY <1>1, <1>2, <2>1, <2>2
  <2>3. CASE log[k].order # o
    BY <1>1, <1>4, <2>1, <2>3
  <2> QED
    BY <2>2, <2>3
<1>6. ASSUME NoFillRefused' PROVE NoFillRefused
  <2> SUFFICES ASSUME NEW q \in Orders, mem[q] # NoRow
               PROVE  mem[q].filled = FilledIn(log, q)
    BY DEF NoFillRefused
  <2>1. mem'[q] # NoRow /\ mem'[q].filled = mem[q].filled
    BY <1>1, <1>2
  <2>2. mem'[q].filled = FilledIn(log', q)
    BY <1>6, <2>1 DEF NoFillRefused, FilledIn
  <2> QED
    BY <1>1, <2>1, <2>2
<1> QED
  BY <1>5, <1>6

LEMMA BooksRecorded ==
    ASSUME TInv, BooksInv, NEW o \in Orders, NEW p \in Row, RecordedAs(o, p)
    PROVE  BooksInv'
<1>1. /\ mem'[o] = p /\ mem'[o] # NoRow
      /\ \A q \in Orders : q # o => mem'[q] = mem[q]
      /\ UNCHANGED <<cash, realized, lots, entries, prices, log, policy>>
      /\ (ctl'.pc = "upsert" /\ ctl'.cur = o) \/ ctl'.pc = "idle"
  BY RecordedMemory DEF Idle
<1>2. LoggedOrdersFilled' /\ BooksFollow'
  <2>1. LoggedOrdersFilled' /\ (NoFillRefused' => NoFillRefused)
    BY RecordedFills DEF BooksInv
  <2> QED
    BY <1>1, <2>1, SameBooks DEF BooksInv, BooksFollow
<1>3. CashNeverNegative'
  BY <1>1 DEF BooksInv, CashNeverNegative
<1>4. CashCovers'
  <2> SUFFICES ASSUME ctl'.pc \in {"upsert", "step"}, mem'[ctl'.cur].status \in Checked,
                      Intents[mem'[ctl'.cur].intent].side = "BUY"
               PROVE  CashCovers'
    BY DEF CashCovers, cur, Order
  <2>1. ctl'.cur = o /\ p.status \in Checked
    BY <1>1
  <2>2. /\ ctl.pc = "step" /\ o = cur /\ mem[cur].status \in Unfilled
        /\ mem[cur].status = "PLANNED" => ~PrecheckFails
    BY <2>1 DEF RecordedAs
  <2>3. mem[cur] # NoRow
    BY <2>2 DEF TInv, IInv, CallOK, Busy
  <2>4. p.intent = mem[cur].intent
    BY <2>2, <2>3 DEF RecordedAs
  <2>5. Order' = Order /\ Order.side = "BUY"
    BY <1>1, <2>1, <2>2, <2>4 DEF Order, cur
  <2>6. FillPrice' = FillPrice /\ Fee' = Fee
    BY <1>1, <2>5 DEF FillPrice, Fee
  <2>7. cash >= HalfUp(Order.qty * FillPrice, Scale) + Fee
    <3>1. CASE mem[cur].status = "PLANNED"
      <4>1. FillPrice \in Nat /\ Fee \in Nat /\ Order.qty \in Nat /\ cash \in Int
        BY <2>2, <2>3, OrderAmounts DEF TInv, TypeOK
      <4>2. HalfUp(Order.qty * FillPrice, Scale) \in Nat
        <5>1. Order.qty * FillPrice \in Nat
          BY <4>1
        <5> QED
          BY <5>1, LedgerAssumption, HalfUpIsNat
      <4> QED
        BY <2>2, <2>5, <3>1, <4>1, <4>2 DEF PrecheckFails
    <3>2. CASE mem[cur].status # "PLANNED"
      BY <2>2, <2>5, <3>2 DEF BooksInv, CashCovers, Checked
    <3> QED
      BY <3>1, <3>2
  <2>8. cash' >= HalfUp(Order'.qty * FillPrice', Scale) + Fee'
    BY <1>1, <2>5, <2>6, <2>7
  <2> QED
    BY <2>8 DEF CashCovers
<1> QED
  BY <1>2, <1>3, <1>4 DEF BooksInv

-----------------------------------------------------------------------------
(***************************************************************************)
(* A fill can be paid.                                                     *)
(***************************************************************************)
LEMMA HalfUpScaled ==
    ASSUME NEW a \in Nat, NEW b \in Nat \ {0}, NEW c \in Nat \ {0}
    PROVE  HalfUp(a * c, b * c) <= HalfUp(a, b)
<1> DEFINE h == HalfUp(a, b)
           i == HalfUp(a * c, b * c)
           x == 2 * a + b
           m == 2 * b
<1>1. /\ h \in Int /\ x < m * h + m /\ m \in Nat \ {0} /\ x \in Nat
  BY HalfUpDivides
<1>2. i \in Int /\ (2 * (b * c)) * i <= 2 * (a * c) + b * c
  <2>1. a * c \in Int /\ b * c \in Nat \ {0}
    OBVIOUS
  <2> QED
    BY <2>1, HalfUpDivides
<1>3. (2 * (b * c)) * i = c * (m * i) /\ 2 * (a * c) + b * c = c * x
  BY <1>2
<1> HIDE DEF h, i, x, m
<1>4. c * (m * i) <= c * x /\ x \in Nat /\ m * i \in Int
  BY <1>1, <1>2, <1>3
<1>5. m * i <= x
  <2> DEFINE y == m * i
  <2>1. c * y <= c * x /\ y \in Int
    BY <1>4
  <2> HIDE DEF y
  <2>2. y <= x
    <3> SUFFICES ASSUME y > x PROVE FALSE
      BY <1>4, <2>1
    <3>1. y >= x + 1 /\ c * y >= c * (x + 1) /\ c * (x + 1) = c * x + c
      BY <1>4, <2>1
    <3>2. c * x \in Nat /\ c * y \in Int
      BY <1>4, <2>1
    <3> QED
      BY <2>1, <3>1, <3>2
  <2> QED
    BY <2>2 DEF y
<1>6. i < h + 1
  <2> SUFFICES ASSUME i >= h + 1 PROVE FALSE
    BY <1>1, <1>2
  <2>1. m * i >= m * (h + 1) /\ m * (h + 1) = m * h + m /\ m * h \in Int
    BY <1>1, <1>2
  <2> QED
    BY <1>1, <1>4, <1>5, <2>1
<1> QED
  BY <1>1, <1>2, <1>6 DEF h, i

\* The commission on the whole quantity is covered by what a part of it sells for.
LEMMA FeeFits ==
    ASSUME NEW price \in Nat, NEW qty \in Nat, NEW part \in Nat \ {0},
           qty * Commission <= Rate * part
    PROVE  HalfUp(qty * price * Commission, Scale * Rate) <= HalfUp(part * price, Scale)
<1>1. Rate \in Nat \ {0} /\ Scale \in Nat \ {0} /\ Commission \in Nat /\ Scale * Rate \in Nat \ {0}
  BY PaperAssumption, LedgerAssumption
<1> DEFINE u == qty * Commission
           v == Rate * part
           w == part * price
<1>2. u \in Nat /\ v \in Nat /\ u <= v /\ w \in Nat /\ w * Rate \in Nat
  BY <1>1
<1>3. qty * price * Commission = price * u /\ w * Rate = price * v
  BY <1>1
<1> HIDE DEF u, v, w
<1>4. price * u \in Nat /\ price * u <= price * v
  BY <1>2
<1>5. HalfUp(price * u, Scale * Rate) <= HalfUp(w * Rate, Scale * Rate)
  <2> DEFINE x == price * u
             y == w * Rate
             z == Scale * Rate
  <2>1. x \in Int /\ y \in Int /\ x <= y /\ z \in Nat \ {0}
    BY <1>1, <1>2, <1>3, <1>4
  <2> HIDE DEF x, y, z
  <2>2. HalfUp(x, z) <= HalfUp(y, z)
    BY <2>1, HalfUpGrows
  <2> QED
    BY <2>2 DEF x, y, z
<1>6. HalfUp(w * Rate, Scale * Rate) <= HalfUp(w, Scale)
  BY <1>1, <1>2, HalfUpScaled
<1>7. /\ HalfUp(price * u, Scale * Rate) \in Int /\ HalfUp(w, Scale) \in Int
      /\ HalfUp(w * Rate, Scale * Rate) \in Int
  BY <1>1, <1>2, <1>4, HalfUpIsNat
<1>8. HalfUp(price * u, Scale * Rate) <= HalfUp(w, Scale)
  BY <1>5, <1>6, <1>7
<1> QED
  BY <1>3, <1>8 DEF w

\* A part of at least half a unit is rounded to at least two thirds of itself.
LEMMA PartCovers ==
    ASSUME NEW qty \in Nat, NEW ratio \in Nat, 2 * Commission <= ratio,
           HalfUp(qty * ratio, Rate) > 0
    PROVE  qty * Commission <= Rate * HalfUp(qty * ratio, Rate)
<1> DEFINE a == qty * ratio
           h == HalfUp(a, Rate)
           p == Rate * h
           u == qty * Commission
<1>1. Rate \in Nat \ {0} /\ Commission \in Nat
  BY PaperAssumption
<1>2. a \in Nat /\ u \in Nat /\ 2 * u <= a
  <2>1. qty * (2 * Commission) <= qty * ratio /\ qty * (2 * Commission) = 2 * (qty * Commission)
    BY <1>1
  <2> QED
    BY <1>1, <2>1
<1> HIDE DEF a, u
<1>3. h \in Int /\ p \in Int /\ -(2 * (p - a)) <= Rate
  <2>1. HalfUp(a, Rate) \in Int /\ Rate * HalfUp(a, Rate) \in Int
        /\ -(2 * (Rate * HalfUp(a, Rate) - a)) <= Rate
    <3>1. a \in Int /\ Rate \in Nat \ {0}
      BY <1>1, <1>2
    <3> QED
      BY ONLY <3>1, HalfUpNear, Zenon
  <2> QED
    BY <2>1
<1>4. h > 0
  BY DEF a
<1> HIDE DEF h
<1>5. Rate <= p
  BY <1>1, <1>3, <1>4
<1> HIDE DEF p
<1>6. u <= p
  BY <1>1, <1>2, <1>3, <1>5
<1> QED
  BY <1>6 DEF u, p, h, a

LEMMA FillPaid ==
    ASSUME TInv, BooksInv, cur \in Orders, mem[cur] # NoRow, ctl.pc = "step",
           mem[cur].status = "WORKING", FillQuantity > 0, 2 * Commission <= policy.ratio
    PROVE  cash + SignedAmount(TheFill) >= 0
<1>1. /\ Order \in [symbol : Symbols, side : {"BUY", "SELL"}, qty : Nat \ {0}]
      /\ FillPrice \in Nat /\ Fee \in Nat
      /\ FillQuantity \in Nat /\ FillQuantity <= Order.qty
      /\ TheFill \in Fill /\ cash \in Int /\ policy \in Policies
  BY OrderAmounts DEF TInv, TypeOK
<1>2. /\ TheFill.side = Order.side /\ TheFill.fee = Fee
      /\ Gross(TheFill) = HalfUp(FillQuantity * FillPrice, Scale)
  BY DEF TheFill, Gross
<1>3. Gross(TheFill) \in Nat
  BY <1>1, FillAmountsAreWhole
<1>4. cash >= 0 /\ Scale \in Nat \ {0} /\ policy.ratio \in Nat
  BY <1>1, PaperAssumption, LedgerAssumption DEF BooksInv, CashNeverNegative
<1>5. CASE Order.side = "BUY"
  <2> DEFINE a == FillQuantity * FillPrice
             b == Order.qty * FillPrice
  <2>1. a \in Nat /\ b \in Nat /\ a <= b
    BY <1>1
  <2>2. cash >= HalfUp(b, Scale) + Fee
    BY <1>5 DEF BooksInv, CashCovers, Checked, Unfilled, Underway
  <2> HIDE DEF a, b
  <2>3. HalfUp(a, Scale) <= HalfUp(b, Scale) /\ HalfUp(a, Scale) \in Nat /\ HalfUp(b, Scale) \in Nat
    BY <1>4, <2>1, HalfUpGrows, HalfUpIsNat
  <2>4. SignedAmount(TheFill) = -(HalfUp(a, Scale) + Fee)
    BY <1>2, <1>5 DEF SignedAmount, a
  <2> QED
    BY <1>1, <2>2, <2>3, <2>4
<1>6. CASE Order.side = "SELL"
  <2>1. Order.qty * Commission <= Rate * FillQuantity
    BY <1>1, <1>4, PartCovers DEF FillQuantity
  <2>2. Fee <= Gross(TheFill)
    <3> DEFINE price == FillPrice
               qty == Order.qty
               part == FillQuantity
    <3>1. price \in Nat /\ qty \in Nat /\ part \in Nat \ {0}
      BY <1>1
    <3>2. Fee = HalfUp(qty * price * Commission, Scale * Rate)
      BY DEF Fee
    <3>3. qty * Commission <= Rate * part /\ Gross(TheFill) = HalfUp(part * price, Scale)
      BY <1>2, <2>1
    <3> HIDE DEF price, qty, part
    <3> QED
      BY <3>1, <3>2, <3>3, FeeFits
  <2>3. SignedAmount(TheFill) = Gross(TheFill) - Fee
    BY <1>2, <1>6 DEF SignedAmount
  <2> QED
    BY <1>1, <1>3, <1>4, <2>2, <2>3
<1> QED
  BY <1>1, <1>5, <1>6

-----------------------------------------------------------------------------
(***************************************************************************)
(* The steps of the books.                                                 *)
(***************************************************************************)

\* Before a fill of the order under way nothing of it is in the log.
LEMMA FillIsFirst ==
    ASSUME TInv, LoggedOrdersFilled, RecordFill
    PROVE  /\ cur \in Orders /\ mem[cur] # NoRow /\ mem[cur].filled = 0
           /\ mem[cur].status = "WORKING" /\ ctl.pc = "step"
           /\ log \in Seq(Fill) /\ LedgerTyped
           /\ \A k \in DOMAIN log : log[k].order # cur
           /\ FilledIn(log, cur) = 0
<1>1. /\ cur \in Orders /\ mem[cur] # NoRow /\ mem[cur].filled = 0
      /\ mem[cur].status = "WORKING" /\ ctl.pc = "step"
  BY DEF RecordFill, TInv, IInv, CallOK, Busy, Unfilled, Underway
<1>2. log \in Seq(Fill) /\ LedgerTyped
  BY TypeParts DEF TInv, AdapterTyped
<1>3. \A k \in DOMAIN log : log[k].order # cur
  BY <1>1 DEF LoggedOrdersFilled
<1> QED
  BY <1>1, <1>2, <1>3, NothingFilled

\* The order under way in memory once it has its fill.
LEMMA FillInMemory ==
    ASSUME TInv, cur \in Orders, mem[cur] # NoRow,
           mem' = [mem EXCEPT ![cur].filled = FillQuantity]
    PROVE  /\ mem'[cur] # NoRow /\ mem'[cur].filled = FillQuantity
           /\ mem'[cur].intent = mem[cur].intent /\ mem'[cur].status = mem[cur].status
           /\ \A q \in Orders : q # cur => mem'[q] = mem[q]
<1>1. mem \in [Orders -> Row \cup {NoRow}] /\ mem[cur] \in Row
  BY DEF TInv, TypeOK
<1>2. FillQuantity \in Nat
  BY OrderAmounts DEF TInv
<1>3. [mem[cur] EXCEPT !.filled = FillQuantity] \in Row
  BY <1>1, <1>2 DEF Row
<1>4. /\ mem'[cur] = [mem[cur] EXCEPT !.filled = FillQuantity]
      /\ \A q \in Orders : q # cur => mem'[q] = mem[q]
  BY <1>1
<1> QED
  BY <1>1, <1>3, <1>4, PaperNullAssumption DEF Row

LEMMA BooksTake ==
    ASSUME TInv, BooksInv, RecordFill, FillQuantity > 0,
           mem' = [mem EXCEPT ![cur].filled = FillQuantity],
           BookBuy(TheFill) \/ BookSell(TheFill), log' = Append(log, TheFill),
           UNCHANGED policy, ctl'.pc \notin {"upsert", "step"}
    PROVE  BooksInv'
<1>1. /\ cur \in Orders /\ mem[cur] # NoRow /\ mem[cur].filled = 0
      /\ mem[cur].status = "WORKING" /\ ctl.pc = "step"
      /\ log \in Seq(Fill) /\ LedgerTyped
      /\ \A k \in DOMAIN log : log[k].order # cur
      /\ FilledIn(log, cur) = 0
  BY FillIsFirst DEF BooksInv
<1>2. /\ mem'[cur] # NoRow /\ mem'[cur].filled = FillQuantity
      /\ \A q \in Orders : q # cur => mem'[q] = mem[q]
  BY <1>1, FillInMemory
<1> DEFINE fill == TheFill
<1>3. fill \in Fill /\ fill.qty = FillQuantity /\ fill.order = cur
  BY <1>1, OrderAmounts DEF TInv, TheFill
<1>4. 2 * Commission <= policy.ratio => cash + SignedAmount(fill) >= 0
  BY <1>1, FillPaid
<1>5. BookBuy(fill) \/ BookSell(fill)
  OBVIOUS
<1>6. log' = Append(log, fill)
  OBVIOUS
<1> HIDE DEF fill
<1>7. Takes(fill)
  BY <1>1, <1>3, <1>5, BuyTakes, SellTakes
<1>8. LoggedOrdersFilled'
  <2> SUFFICES ASSUME NEW k \in DOMAIN log'
               PROVE  mem'[log'[k].order] # NoRow /\ mem'[log'[k].order].filled > 0
    BY DEF LoggedOrdersFilled
  <2>1. CASE k = Len(log) + 1
    <3>1. log'[k] = fill
      BY <1>1, <1>6, <2>1
    <3> QED
      BY <1>2, <1>3, <3>1
  <2>2. CASE k # Len(log) + 1
    <3>1. k \in DOMAIN log /\ log'[k] = log[k]
      BY <1>1, <1>3, <1>6, <2>2
    <3>2. log[k] \in Fill
      BY <1>1, <3>1
    <3>3. log[k].order \in Orders /\ log[k].order # cur
      BY <1>1, <3>1, <3>2 DEF Fill
    <3> QED
      BY <1>2, <3>1, <3>3 DEF BooksInv, LoggedOrdersFilled
  <2> QED
    BY <2>1, <2>2
<1>9. NoFillRefused' => NoFillRefused
  <2> SUFFICES ASSUME NoFillRefused', NEW q \in Orders, mem[q] # NoRow
               PROVE  mem[q].filled = FilledIn(log, q)
    BY DEF NoFillRefused
  <2>1. CASE q = cur
    BY <1>1, <2>1
  <2>2. CASE q # cur
    <3>1. mem'[q] = mem[q]
      BY <1>2, <2>2
    <3>2. mem'[q].filled = FilledIn(log', q)
      BY <3>1 DEF NoFillRefused, FilledIn
    <3>3. FilledIn(log', q) = FilledIn(log, q) + 0 /\ FilledIn(log, q) \in Int
      BY <1>1, <1>3, <1>6, <2>2, FilledAdded
    <3> QED
      BY <3>1, <3>2, <3>3
  <2> QED
    BY <2>1, <2>2
<1>10. CashFollows'
  BY <1>1, <1>3, <1>6, <1>7, CashStep DEF BooksInv, BooksFollow, LedgerTyped
<1>11. NoFillRefused' => HoldingsFollow' /\ DriftWithin'
  BY <1>1, <1>3, <1>6, <1>7, <1>9, HoldingsStep, DriftStep DEF BooksInv, BooksFollow
<1>12. CashNeverNegative'
  BY <1>4, <1>7 DEF CashNeverNegative, Takes
<1>13. CashCovers'
  BY DEF CashCovers
<1> QED
  BY <1>8, <1>10, <1>11, <1>12, <1>13 DEF BooksInv, BooksFollow

\* A fill that the ledger refuses leaves cash and the log alone; the holdings no
\* longer follow the fills, and nobody says they do.
LEMMA BooksRefuse ==
    ASSUME TInv, BooksInv, RecordFill, FillQuantity > 0,
           mem' = [mem EXCEPT ![cur].filled = FillQuantity],
           RefuseBuy(TheFill) \/ RefuseSell(TheFill), UNCHANGED <<log, policy>>, ctl' = Idle
    PROVE  BooksInv'
<1>1. /\ cur \in Orders /\ mem[cur] # NoRow /\ mem[cur].filled = 0
      /\ log \in Seq(Fill)
      /\ \A k \in DOMAIN log : log[k].order # cur
      /\ FilledIn(log, cur) = 0
  BY FillIsFirst DEF BooksInv
<1>2. /\ mem'[cur] # NoRow /\ mem'[cur].filled = FillQuantity
      /\ \A q \in Orders : q # cur => mem'[q] = mem[q]
  BY <1>1, FillInMemory
<1>3. UNCHANGED <<cash, log, policy>>
  BY DEF RefuseBuy, RefuseSell, ledgerVars
<1>4. LoggedOrdersFilled'
  <2> SUFFICES ASSUME NEW k \in DOMAIN log
               PROVE  mem'[log[k].order] # NoRow /\ mem'[log[k].order].filled > 0
    BY <1>3 DEF LoggedOrdersFilled
  <2>1. log[k] \in Fill
    BY <1>1
  <2>2. log[k].order \in Orders /\ log[k].order # cur
    BY <1>1, <2>1 DEF Fill
  <2> QED
    BY <1>2, <2>2 DEF BooksInv, LoggedOrdersFilled
<1>5. ~NoFillRefused'
  <2> SUFFICES ASSUME NoFillRefused' PROVE FALSE
    OBVIOUS
  <2>1. FillQuantity = FilledIn(log', cur)
    BY <1>1, <1>2 DEF NoFillRefused, FilledIn
  <2> QED
    BY <1>1, <1>3, <2>1
<1>6. CashFollows' /\ CashNeverNegative'
  BY <1>3 DEF BooksInv, BooksFollow, CashFollows, Flow, CashNeverNegative
<1>7. CashCovers'
  BY DEF CashCovers, Idle
<1> QED
  BY <1>4, <1>5, <1>6, <1>7 DEF BooksInv, BooksFollow

LEMMA BooksFilled == ASSUME TInv, BooksInv, RecordFill PROVE BooksInv'
<1>1. UNCHANGED policy
  BY DEF RecordFill
<1>2. CASE ctl' = Idle /\ UNCHANGED <<bookVars, mem>>
  BY <1>1, <1>2, BooksSame DEF Idle
<1>3. CASE /\ FillQuantity > 0
           /\ mem' = [mem EXCEPT ![cur].filled = FillQuantity]
           /\ BookBuy(TheFill) \/ BookSell(TheFill)
           /\ Keep(TheFill)
  <2>1. log' = Append(log, TheFill) /\ ctl'.pc \notin {"upsert", "step"}
    <3>1. ctl \in [pc : Busy \cup {"down", "idle"}, cur : Orders \cup {NoOrder}]
      BY DEF TInv, IInv, Shape
    <3> QED
      BY <1>3, <3>1 DEF Keep, Goto, StoreFails, Idle
  <2> QED
    BY <1>1, <1>3, <2>1, BooksTake
<1>4. CASE /\ FillQuantity > 0
           /\ mem' = [mem EXCEPT ![cur].filled = FillQuantity]
           /\ RefuseBuy(TheFill) \/ RefuseSell(TheFill)
           /\ ctl' = Idle /\ UNCHANGED log
  BY <1>1, <1>4, BooksRefuse
<1> QED
  BY <1>2, <1>3, <1>4 DEF RecordFill

\* The books of a new adapter: nothing traded, nothing rounded.
BooksNew ==
    /\ cash = InitialCash /\ realized = 0 /\ lots = InitialLots /\ log = <<>>
    /\ \A o \in Orders : mem[o] = NoRow

LEMMA NewBooksFollow == BooksNew => CashFollows /\ HoldingsFollow /\ DriftWithin
<1> SUFFICES ASSUME BooksNew PROVE CashFollows /\ HoldingsFollow /\ DriftWithin
  OBVIOUS
<1>1. cash = InitialCash /\ realized = 0 /\ lots = InitialLots /\ log = <<>>
  BY DEF BooksNew
<1>2. CashFollows
  BY <1>1, NothingTraded, LedgerAssumption DEF CashFollows
<1>3. HoldingsFollow
  <2> SUFFICES ASSUME NEW s \in Symbols
               PROVE  Holding(s) = InitialHolding(s) + Traded(log, s, "BUY") - Traded(log, s, "SELL")
    BY DEF HoldingsFollow
  <2>1. Holding(s) = InitialHolding(s)
    BY <1>1 DEF Holding, InitialHolding
  <2>2. InitialHolding(s) \in Int
    <3>1. InitialLots[s] \in Seq(Lot)
      BY LedgerAssumption
    <3>2. SumFunction(QtyOf(InitialLots[s])) \in Nat
      BY <3>1, LotSums
    <3>3. InitialHolding(s) = SumFunction(QtyOf(InitialLots[s]))
      BY DEF InitialHolding, QtyOf
    <3> QED
      BY <3>2, <3>3
  <2>3. Traded(log, s, "BUY") = 0 /\ Traded(log, s, "SELL") = 0
    BY <1>1, NothingTraded
  <2> QED
    BY <2>1, <2>2, <2>3
<1>4. DriftWithin
  <2> DEFINE first == SumFunction([s \in Symbols |-> Len(InitialLots[s])])
             worth == AtCost(InitialLots)
  <2>1. first \in Int /\ worth \in Int /\ Scale \in Int /\ InitialCash \in Int
    BY InitialSums, LedgerAssumption
  <2>2. SumFunction(Costs) = worth
    BY <1>1 DEF AtCost, Costs, CostIn, CostOf
  <2>3. SumFunction(Lengths) = first
    BY <1>1 DEF Lengths
  <2>4. SumFunction(BuysIn(log)) = 0
    <3>1. DOMAIN BuysIn(log) = Symbols /\ \A s \in Symbols : BuysIn(log)[s] = 0
      BY <1>1, NothingTraded DEF BuysIn
    <3> QED
      BY <3>1, LedgerAssumption, SumOfZeros DEF SumFunction
  <2>5. Len(log) = 0
    BY <1>1
  <2>6. Drift = Scale * (InitialCash - InitialCash - 0) + worth - worth
    BY <1>1, <2>2, DriftParts
  <2>7. RoundingsLeft = (0 + Scale * (0 + first)) - Scale * first
    BY <2>3, <2>4, <2>5, DriftParts
  <2> HIDE DEF first, worth
  <2>8. Drift = 0
    <3>1. InitialCash - InitialCash - 0 = 0 /\ Scale * 0 = 0 /\ worth - worth = 0
      BY <2>1
    <3> QED
      BY <2>1, <2>6, <3>1
  <2>9. RoundingsLeft = 0
    BY <2>1, <2>7
  <2> QED
    BY <2>8, <2>9 DEF DriftWithin
<1> QED
  BY <1>2, <1>3, <1>4

LEMMA NewBooksInv == BooksNew /\ ctl.pc \in {"idle", "down"} => BooksInv
<1> SUFFICES ASSUME BooksNew, ctl.pc \in {"idle", "down"} PROVE BooksInv
  OBVIOUS
<1>1. LoggedOrdersFilled /\ CashNeverNegative /\ CashCovers
  BY LedgerAssumption DEF BooksNew, LoggedOrdersFilled, CashNeverNegative, CashCovers
<1>2. BooksFollow
  BY NewBooksFollow DEF BooksFollow
<1> QED
  BY <1>1, <1>2 DEF BooksInv

LEMMA NextNewBooksInv == (BooksNew /\ ctl.pc \in {"idle", "down"} => BooksInv)'
BY NewBooksInv, PTL

LEMMA BooksStep == ASSUME TInv, StepUnderway, BooksInv, [Next]_vars PROVE BooksInv'
<1>1. CASE (\E i \in Ids : Submit(i)) \/ (\E o \in Orders : Cancel(o)) \/ Advance \/ Settle
  BY <1>1, Recordings, BooksRecorded
<1>2. CASE RecordFill
  BY <1>2, BooksFilled
<1>3. CASE Upsert
  <2>1. UNCHANGED <<bookVars, mem, policy>>
    BY <1>3 DEF Upsert
  <2>2. ctl.pc = "upsert" /\ (ctl' = Idle \/ ctl' = [ctl EXCEPT !.pc = "step"])
    BY <1>3 DEF Upsert, AfterUpsert, StoreFails
  <2>3. ctl \in [pc : Busy \cup {"down", "idle"}, cur : Orders \cup {NoOrder}]
    BY DEF TInv, IInv, Shape
  <2>4. ctl'.pc \in {"upsert", "step"} => ctl.pc \in {"upsert", "step"} /\ ctl'.cur = ctl.cur
    BY <2>2, <2>3 DEF Idle
  <2> QED
    BY <2>1, <2>4, BooksSame
<1>4. CASE PutCash \/ PutSnapshot
  <2>1. UNCHANGED <<bookVars, mem, policy>>
    BY <1>4 DEF PutCash, PutSnapshot
  <2>2. ctl'.pc \notin {"upsert", "step"}
    <3>1. ctl \in [pc : Busy \cup {"down", "idle"}, cur : Orders \cup {NoOrder}]
      BY DEF TInv, IInv, Shape
    <3> QED
      BY <1>4, <3>1 DEF PutCash, PutSnapshot, StoreFails, Goto, Idle
  <2> QED
    BY <2>1, <2>2, BooksSame
<1>5. CASE Reset \/ Restart \/ \E i \in Ids : SubmitDuplicate(i)
  <2>1. UNCHANGED <<bookVars, mem, policy>> /\ (UNCHANGED ctl \/ ctl' = Idle)
    BY <1>5 DEF Reset, Restart, SubmitDuplicate, StoreFails
  <2>2. ctl'.pc \in {"upsert", "step"} => ctl.pc \in {"upsert", "step"} /\ ctl'.cur = ctl.cur
    BY <2>1 DEF Idle
  <2> QED
    BY <2>1, <2>2, BooksSame
<1>6. CASE Crash
  <2>1. BooksNew' /\ ctl'.pc \in {"idle", "down"}
    BY <1>6 DEF Crash, NewAdapter, Idle, BooksNew
  <2> QED
    BY <2>1, NextNewBooksInv
<1>7. CASE UNCHANGED vars
  BY <1>7, BooksSame DEF vars
<1> QED
  BY <1>1, <1>2, <1>3, <1>4, <1>5, <1>6, <1>7 DEF Next

LEMMA InitialBooks == Init => StepUnderway /\ BooksInv
<1> SUFFICES ASSUME Init PROVE StepUnderway /\ BooksInv
  OBVIOUS
<1>1. BooksNew /\ ctl.pc = "idle"
  BY DEF Init, LedgerInit, Idle, BooksNew
<1> QED
  BY <1>1, NewBooksInv DEF StepUnderway

\* Everything the books depend on.
BInv == TInv /\ StepUnderway /\ BooksInv

LEMMA BooksInvariant == Spec => []BInv
<1>1. Init => BInv
  BY InitialTypes, InitialBooks DEF BInv
<1>2. BInv /\ [Next]_vars => BInv'
  BY InvariantStep, TypesStep, EntryPendingStep, StepUnderwayStep, BooksStep DEF BInv, TInv
<1> QED
  BY <1>1, <1>2, PTL DEF Spec

\* The check of submit_intent is made on the price before the fill and on the whole
\* quantity; the fill is at that price, of a part, and every product is rounded: cash
\* never goes below zero for that, nor for a commission that a sale must pay.
THEOREM CashCovered == Spec => []CashNeverNegative
<1>1. BInv => CashNeverNegative
  BY DEF BInv, BooksInv
<1> QED
  BY <1>1, BooksInvariant, PTL

\* Cash and holdings are what the fills in the log make of the initial portfolio,
\* however the first-in-first-out lots were split, emptied and dropped.
THEOREM BooksAreFills == Spec => []BooksFollowFills
<1>1. BInv => BooksFollowFills
  BY BooksFollowImplies DEF BInv, BooksInv
<1> QED
  BY <1>1, BooksInvariant, PTL

\* The profit the ledger has realized and the cost of its lots explain its cash, up
\* to half a unit of rounding for each lot touched and each whole unit bought.
THEOREM ProfitKept == Spec => []ProfitWithinRounding
<1>1. BInv => ProfitWithinRounding
  BY ProfitImplies DEF BInv, TInv, BooksInv
<1> QED
  BY <1>1, BooksInvariant, PTL

-----------------------------------------------------------------------------
(***************************************************************************)
(* What is executed is paid.  The last event of an order follows its fill, *)
(* its cash entry and the snapshot, so the argument follows the order      *)
(* through them; that a fill of the order is stored, besides how much,     *)
(* tells an executed order from one that is about to have its first fill.  *)
(***************************************************************************)
HasFill(o) == \E k \in DOMAIN sfills : sfills[k].order = o
HasEntry(o) == \E k \in DOMAIN cashRows : cashRows[k].order = o
Stored(o, n) == FilledIn(sfills, o) = n /\ HasFill(o)
Paid(o, n) == Stored(o, n) /\ HasEntry(o)

RowsPaid ==
    \A o \in Orders : rows[o] # NoRow /\ rows[o].status \in Executed => Paid(o, rows[o].filled)
MemoryPaid ==
    \A o \in Orders : mem[o] # NoRow /\ mem[o].status \in Executed => Paid(o, mem[o].filled)
CallPaid ==
    /\ ctl.pc = "cash" => Stored(cur, mem[cur].filled)
    /\ ctl.pc \in {"snapshot", "settle"} => Paid(cur, mem[cur].filled)
PaidInv == RowsPaid /\ MemoryPaid /\ CallPaid

LEMMA PaidStays ==
    ASSUME UNCHANGED <<sfills, cashRows>>
    PROVE  \A o, n : (Paid(o, n) => Paid(o, n)') /\ (Stored(o, n) => Stored(o, n)')
BY DEF Paid, Stored, HasFill, HasEntry, FilledIn

\* A step that leaves orders, fills and entries alone.
LEMMA PaidSame ==
    ASSUME PaidInv, UNCHANGED <<rows, mem, sfills, cashRows>>,
           \/ ctl'.pc \notin {"cash", "snapshot", "settle"}
           \/ UNCHANGED ctl
           \/ ctl.pc = "snapshot" /\ ctl'.pc = "settle" /\ ctl'.cur = ctl.cur
    PROVE  PaidInv'
BY DEF PaidInv, RowsPaid, MemoryPaid, CallPaid, Paid, Stored, HasFill, HasEntry, FilledIn, cur

LEMMA PaidRecorded ==
    ASSUME TInv, PaidInv, NEW o \in Orders, NEW p \in Row, RecordedAs(o, p)
    PROVE  PaidInv'
<1>1. /\ mem'[o] = p /\ mem'[o] # NoRow
      /\ \A q \in Orders : q # o => mem'[q] = mem[q]
      /\ UNCHANGED <<rows, sfills, cashRows>>
      /\ ctl'.pc \in {"upsert", "idle"}
  BY RecordedMemory DEF Idle
<1>2. RowsPaid'
  BY <1>1, PaidStays DEF PaidInv, RowsPaid, Paid, Stored, HasFill, HasEntry, FilledIn
<1>3. MemoryPaid'
  <2> SUFFICES ASSUME NEW q \in Orders, mem'[q] # NoRow, mem'[q].status \in Executed,
                      NEW n, n = mem'[q].filled
               PROVE  Paid(q, n)'
    BY DEF MemoryPaid, Paid, Stored, HasFill, HasEntry, FilledIn
  <2>1. CASE q = o
    <3>1. ctl.pc = "settle" /\ o = cur
      BY <1>1, <2>1 DEF RecordedAs
    <3>2. mem[o] # NoRow
      BY <3>1 DEF TInv, IInv, CallOK, Busy
    <3>3. p.filled = mem[o].filled
      BY <3>2 DEF RecordedAs
    <3>4. Paid(q, n)
      BY <1>1, <2>1, <3>1, <3>3 DEF PaidInv, CallPaid
    <3> QED
      BY <1>1, <3>4, PaidStays
  <2>2. CASE q # o
    <3>1. Paid(q, n)
      BY <1>1, <2>2 DEF PaidInv, MemoryPaid
    <3> QED
      BY <1>1, <3>1, PaidStays
  <2> QED
    BY <2>1, <2>2
<1>4. CallPaid'
  BY <1>1 DEF CallPaid
<1> QED
  BY <1>2, <1>3, <1>4 DEF PaidInv

LEMMA PaidUpserted == ASSUME TInv, PaidInv, Upsert PROVE PaidInv'
<1>1. cur \in Orders /\ mem[cur] # NoRow
  BY DEF Upsert, TInv, IInv, CallOK, Busy
<1>2. UNCHANGED <<mem, sfills, cashRows>>
  BY DEF Upsert, StoreFails, storeVars
<1>3. ctl'.pc \in {"step", "idle"}
  <2>1. ctl \in [pc : Busy \cup {"down", "idle"}, cur : Orders \cup {NoOrder}]
    BY DEF TInv, IInv, Shape
  <2> QED
    BY <2>1 DEF Upsert, AfterUpsert, StoreFails, Idle
<1>4. CASE UNCHANGED rows
  BY <1>2, <1>3, <1>4, PaidSame
<1>5. CASE rows' = [rows EXCEPT ![cur] = mem[cur]]
  <2>1. rows \in [Orders -> Row \cup {NoRow}]
    BY DEF TInv, TypeOK
  <2>2. rows'[cur] = mem[cur] /\ \A q \in Orders : q # cur => rows'[q] = rows[q]
    BY <1>1, <1>5, <2>1
  <2>3. RowsPaid'
    <3> SUFFICES ASSUME NEW q \in Orders, rows'[q] # NoRow, rows'[q].status \in Executed,
                        NEW n, n = rows'[q].filled
                 PROVE  Paid(q, n)'
      BY DEF RowsPaid, Paid, Stored, HasFill, HasEntry, FilledIn
    <3>1. Paid(q, n)
      BY <1>1, <2>2 DEF PaidInv, RowsPaid, MemoryPaid
    <3> QED
      BY <1>2, <3>1, PaidStays
  <2>4. MemoryPaid'
    BY <1>2 DEF PaidInv, MemoryPaid, Paid, Stored, HasFill, HasEntry, FilledIn
  <2> QED
    BY <1>3, <2>3, <2>4 DEF PaidInv, CallPaid
<1> QED
  BY <1>4, <1>5 DEF Upsert, StoreFails, storeVars

LEMMA PaidFilled == ASSUME TInv, PaidInv, RecordFill PROVE PaidInv'
<1>1. /\ cur \in Orders /\ mem[cur] # NoRow /\ mem[cur].filled = 0
      /\ mem[cur].status = "WORKING"
  BY DEF RecordFill, TInv, IInv, CallOK, Busy, Unfilled, Underway
<1>2. UNCHANGED <<rows, cashRows>>
  BY DEF RecordFill, Keep, StoreFails, storeVars
<1>3. CASE ctl' = Idle /\ UNCHANGED <<mem, sfills>>
  BY <1>2, <1>3, PaidSame DEF Idle
<1>4. CASE mem' = [mem EXCEPT ![cur].filled = FillQuantity] /\ FillQuantity > 0
  <2>1. /\ mem'[cur] # NoRow /\ mem'[cur].filled = FillQuantity
        /\ mem'[cur].status = "WORKING"
        /\ \A q \in Orders : q # cur => mem'[q] = mem[q]
    BY <1>1, <1>4, FillInMemory
  <2>2. "WORKING" \notin Executed
    BY DEF Executed
  <2> DEFINE o == cur
             fill == TheFill
  <2>3. o = cur
    OBVIOUS
  <2>4. fill \in Fill /\ fill.qty = FillQuantity /\ fill.order = o /\ FillQuantity \in Nat
    BY <1>1, OrderAmounts DEF TInv, TheFill
  <2>5. /\ o \in Orders /\ mem'[o].filled = FillQuantity /\ mem'[o].status \notin Executed
        /\ \A q \in Orders : q # o => mem'[q] = mem[q]
    BY <1>1, <2>1, <2>2
  <2>6. sfills \in Seq(Fill)
    BY DEF TInv, TypeOK
  <2>7. \A k \in DOMAIN sfills : sfills[k].order # o
    BY <1>1 DEF TInv, IInv, FillsHaveRows
  <2>8. FilledIn(sfills, o) = 0
    BY <2>6, <2>7, NothingFilled
  <2> HIDE DEF o, fill
  <2>9. CASE UNCHANGED sfills /\ ctl' = Idle
    <3>1. RowsPaid' /\ CallPaid'
      BY <1>2, <2>9 DEF PaidInv, RowsPaid, CallPaid, Paid, Stored, HasFill, HasEntry, FilledIn, Idle
    <3>2. MemoryPaid'
      BY <1>2, <2>5, <2>9 DEF PaidInv, MemoryPaid, Paid, Stored, HasFill, HasEntry, FilledIn
    <3> QED
      BY <3>1, <3>2 DEF PaidInv
  <2>10. CASE sfills' = Append(sfills, fill) /\ Goto("cash")
    <3>1. ctl'.pc = "cash" /\ ctl'.cur = o
      <4>1. ctl \in [pc : Busy \cup {"down", "idle"}, cur : Orders \cup {NoOrder}]
        BY DEF TInv, IInv, Shape
      <4> QED
        BY <2>3, <2>10, <4>1 DEF Goto, cur
    <3>2. ASSUME NEW q \in Orders, NEW n, Paid(q, n) PROVE q # o /\ Paid(q, n)'
      <4>1. q # o
        BY <2>7, <3>2 DEF Paid, Stored, HasFill
      <4>2. FilledIn(sfills', q) = n
        <5>1. FilledIn(sfills', q) = FilledIn(sfills, q) + 0 /\ FilledIn(sfills, q) \in Int
          BY <2>4, <2>6, <2>10, <4>1, FilledAdded
        <5> QED
          BY <3>2, <5>1 DEF Paid, Stored
      <4>3. HasFill(q)'
        <5>1. PICK k \in DOMAIN sfills : sfills[k].order = q
          BY <3>2 DEF Paid, Stored, HasFill
        <5>2. k \in DOMAIN sfills' /\ sfills'[k] = sfills[k]
          BY <2>4, <2>6, <2>10, <5>1
        <5> QED
          BY <5>1, <5>2 DEF HasFill
      <4>4. HasEntry(q)'
        BY <1>2, <3>2 DEF Paid, HasEntry
      <4> QED
        BY <4>1, <4>2, <4>3, <4>4 DEF Paid, Stored, FilledIn
    <3>3. RowsPaid'
      <4> SUFFICES ASSUME NEW q \in Orders, rows'[q] # NoRow, rows'[q].status \in Executed,
                          NEW n, n = rows'[q].filled
                   PROVE  Paid(q, n)'
        BY DEF RowsPaid, Paid, Stored, HasFill, HasEntry, FilledIn
      <4>1. Paid(q, n)
        BY <1>2 DEF PaidInv, RowsPaid
      <4> QED
        BY <3>2, <4>1
    <3>4. MemoryPaid'
      <4> SUFFICES ASSUME NEW q \in Orders, mem'[q] # NoRow, mem'[q].status \in Executed,
                          NEW n, n = mem'[q].filled
                   PROVE  Paid(q, n)'
        BY DEF MemoryPaid, Paid, Stored, HasFill, HasEntry, FilledIn
      <4>1. q # o
        BY <2>5
      <4>2. Paid(q, n)
        BY <2>5, <4>1 DEF PaidInv, MemoryPaid
      <4> QED
        BY <3>2, <4>2
    <3>5. CallPaid'
      <4>1. FilledIn(sfills', o) = FillQuantity
        <5>1. FilledIn(sfills', o) = FilledIn(sfills, o) + FillQuantity
          BY <2>4, <2>6, <2>10, FilledAdded
        <5> QED
          BY <2>4, <2>8, <5>1
      <4>2. sfills'[Len(sfills) + 1].order = o /\ Len(sfills) + 1 \in DOMAIN sfills'
        BY <2>4, <2>6, <2>10
      <4>4. \E k \in DOMAIN sfills' : sfills'[k].order = o
        BY <4>2
      <4> QED
        BY <2>5, <3>1, <4>1, <4>4 DEF CallPaid, Stored, HasFill, FilledIn, cur
    <3> QED
      BY <3>3, <3>4, <3>5 DEF PaidInv
  <2> QED
    BY <1>4, <2>9, <2>10 DEF RecordFill, Keep, StoreFails, storeVars, fill
<1> QED
  BY <1>3, <1>4 DEF RecordFill, storeVars

LEMMA PaidCash == ASSUME TInv, PaidInv, PutCash PROVE PaidInv'
<1>1. UNCHANGED <<rows, mem, sfills>> /\ ctl.pc = "cash"
  BY DEF PutCash, StoreFails, storeVars
<1>2. CASE UNCHANGED cashRows /\ ctl' = Idle
  BY <1>1, <1>2, PaidSame DEF Idle
<1>3. CASE cashRows' = Append(cashRows, entries[Len(entries)]) /\ Goto("snapshot")
  <2>1. /\ entries # <<>> /\ entries[Len(entries)].order = cur
        /\ entries \in Seq(Entry) /\ cashRows \in Seq(Entry)
    BY <1>1 DEF TInv, EntryPending, TypeOK
  <2>2. ctl'.pc = "snapshot" /\ ctl'.cur = cur
    <3>1. ctl \in [pc : Busy \cup {"down", "idle"}, cur : Orders \cup {NoOrder}]
      BY DEF TInv, IInv, Shape
    <3> QED
      BY <1>3, <3>1 DEF Goto, cur
  <2> DEFINE e == entries[Len(entries)]
             o == cur
  <2>3. e \in Entry /\ e.order = o
    BY <2>1
  <2>4. cashRows' = Append(cashRows, e) /\ ctl'.cur = o
    BY <1>3, <2>2
  <2>5. Stored(o, mem[o].filled)
    BY <1>1 DEF PaidInv, CallPaid
  <2> HIDE DEF e, o
  <2>6. \A k \in DOMAIN cashRows : k \in DOMAIN cashRows' /\ cashRows'[k] = cashRows[k]
    BY <2>1, <2>3, <2>4
  <2>7. ASSUME NEW q, NEW n, Paid(q, n) PROVE Paid(q, n)'
    <3>1. HasEntry(q)'
      BY <2>6, <2>7 DEF Paid, HasEntry
    <3> QED
      BY <1>1, <2>7, <3>1 DEF Paid, Stored, HasFill, FilledIn
  <2>8. RowsPaid'
    <3> SUFFICES ASSUME NEW q \in Orders, rows'[q] # NoRow, rows'[q].status \in Executed,
                        NEW n, n = rows'[q].filled
                 PROVE  Paid(q, n)'
      BY DEF RowsPaid, Paid, Stored, HasFill, HasEntry, FilledIn
    <3>1. Paid(q, n)
      BY <1>1 DEF PaidInv, RowsPaid
    <3> QED
      BY <2>7, <3>1
  <2>9. MemoryPaid'
    <3> SUFFICES ASSUME NEW q \in Orders, mem'[q] # NoRow, mem'[q].status \in Executed,
                        NEW n, n = mem'[q].filled
                 PROVE  Paid(q, n)'
      BY DEF MemoryPaid, Paid, Stored, HasFill, HasEntry, FilledIn
    <3>1. Paid(q, n)
      BY <1>1 DEF PaidInv, MemoryPaid
    <3> QED
      BY <2>7, <3>1
  <2>10. CallPaid'
    <3>1. \E k \in DOMAIN cashRows' : cashRows'[k].order = o
      <4>1. Len(cashRows) + 1 \in DOMAIN cashRows' /\ cashRows'[Len(cashRows) + 1] = e
        BY <2>1, <2>3, <2>4
      <4> QED
        BY <2>3, <4>1
    <3> QED
      BY <1>1, <2>2, <2>4, <2>5, <3>1 DEF CallPaid, Paid, Stored, HasFill, HasEntry, FilledIn, cur
  <2> QED
    BY <2>8, <2>9, <2>10 DEF PaidInv
<1> QED
  BY <1>2, <1>3 DEF PutCash, StoreFails, storeVars

LEMMA PaidStep == ASSUME TInv, StepUnderway, PaidInv, [Next]_vars PROVE PaidInv'
<1>1. CASE (\E i \in Ids : Submit(i)) \/ (\E o \in Orders : Cancel(o)) \/ Advance \/ Settle
  BY <1>1, Recordings, PaidRecorded
<1>2. CASE Upsert
  BY <1>2, PaidUpserted
<1>3. CASE RecordFill
  BY <1>3, PaidFilled
<1>4. CASE PutCash
  BY <1>4, PaidCash
<1>5. CASE PutSnapshot
  <2>1. UNCHANGED <<rows, mem, sfills, cashRows>> /\ ctl.pc = "snapshot"
        /\ (ctl' = Idle \/ ctl' = [ctl EXCEPT !.pc = "settle"])
    BY <1>5 DEF PutSnapshot, StoreFails, storeVars, Goto
  <2>2. ctl \in [pc : Busy \cup {"down", "idle"}, cur : Orders \cup {NoOrder}]
    BY DEF TInv, IInv, Shape
  <2>3. \/ ctl'.pc \notin {"cash", "snapshot", "settle"}
        \/ ctl.pc = "snapshot" /\ ctl'.pc = "settle" /\ ctl'.cur = ctl.cur
    BY <2>1, <2>2 DEF Idle
  <2> QED
    BY <2>1, <2>3, PaidSame
<1>6. CASE Reset \/ Restart \/ \E i \in Ids : SubmitDuplicate(i)
  <2>1. UNCHANGED <<rows, mem, sfills, cashRows>> /\ (UNCHANGED ctl \/ ctl' = Idle)
    BY <1>6 DEF Reset, Restart, SubmitDuplicate, StoreFails, storeVars
  <2>2. UNCHANGED ctl \/ ctl'.pc \notin {"cash", "snapshot", "settle"}
    BY <2>1 DEF Idle
  <2> QED
    BY <2>1, <2>2, PaidSame
<1>7. CASE Crash
  <2>1. UNCHANGED <<rows, sfills, cashRows>> /\ ctl'.pc = "down" /\ \A o \in Orders : mem'[o] = NoRow
    BY <1>7 DEF Crash, NewAdapter, Idle, storeVars
  <2>2. RowsPaid'
    BY <2>1 DEF PaidInv, RowsPaid, Paid, Stored, HasFill, HasEntry, FilledIn
  <2> QED
    BY <2>1, <2>2 DEF PaidInv, MemoryPaid, CallPaid
<1>8. CASE UNCHANGED vars
  BY <1>8, PaidSame DEF vars, storeVars
<1> QED
  BY <1>1, <1>2, <1>3, <1>4, <1>5, <1>6, <1>7, <1>8 DEF Next

\* An order that is FILLED or PARTIALLY_FILLED in the store has a stored fill of that
\* quantity and a cash entry, at whatever write the process died or the store failed.
THEOREM ExecutedIsPaid == Spec => []ExecutedOrdersArePaid
<1>1. Init => PaidInv
  BY DEF Init, Idle, PaidInv, RowsPaid, MemoryPaid, CallPaid
<1>2. BInv /\ PaidInv /\ [Next]_vars => PaidInv'
  BY PaidStep DEF BInv
<1>3. PaidInv => ExecutedOrdersArePaid
  BY DEF PaidInv, RowsPaid, Paid, Stored, HasEntry, Executed, ExecutedOrdersArePaid
<1> QED
  BY <1>1, <1>2, <1>3, BooksInvariant, PTL DEF Spec

-----------------------------------------------------------------------------
(***************************************************************************)
(* Without a fault the store follows the books write by write.             *)
(***************************************************************************)
NoFaults == Spared(FaultKinds)
BudgetKept == \A f \in FaultKinds : budget[f] <= MaxFaults[f]
EntriesSaved ==
    IF ctl.pc = "cash" THEN entries = Append(cashRows, entries[Len(entries)])
                       ELSE cashRows = entries
SnapshotSaved == ctl.pc \notin {"cash", "snapshot"} /\ NoFillRefused /\ log # <<>> => snap = Books
SavedInv == BudgetKept /\ (NoFaults => sfills = log /\ EntriesSaved /\ SnapshotSaved)

\* A fault that strikes is seen in the budget from then on.
LEMMA SavedFault ==
    ASSUME TInv, SavedInv, NEW f \in FaultKinds, Strike(f) PROVE SavedInv'
<1>1. /\ budget \in [FaultKinds -> Nat] /\ MaxFaults \in [FaultKinds -> Nat]
      /\ budget[f] <= MaxFaults[f]
  BY PaperAssumption DEF TInv, TypeOK, SavedInv, BudgetKept
<1>2. budget' = [budget EXCEPT ![f] = @ - 1] /\ budget[f] > 0
  BY DEF Strike
<1>3. budget'[f] = budget[f] - 1 /\ \A g \in FaultKinds : g # f => budget'[g] = budget[g]
  BY <1>1, <1>2
<1>4. BudgetKept'
  <2> SUFFICES ASSUME NEW g \in FaultKinds PROVE budget'[g] <= MaxFaults[g]
    BY DEF BudgetKept
  <2>1. budget[g] <= MaxFaults[g] /\ budget[g] \in Nat /\ MaxFaults[g] \in Nat
    BY <1>1 DEF SavedInv, BudgetKept
  <2> QED
    BY <1>3, <2>1
<1>5. budget'[f] # MaxFaults[f]
  BY <1>1, <1>3
<1>6. ~NoFaults'
  BY <1>5 DEF NoFaults, Spared
<1> QED
  BY <1>4, <1>6 DEF SavedInv

\* A step between the writes of a fill.
LEMMA SavedSame ==
    ASSUME SavedInv,
           UNCHANGED <<sfills, cashRows, snap, cash, realized, lots, entries, log, budget>>,
           \/ ctl.pc \notin {"cash", "snapshot"} /\ ctl'.pc \notin {"cash", "snapshot"}
           \/ UNCHANGED ctl,
           NoFillRefused' => NoFillRefused
    PROVE  SavedInv'
<1>1. BudgetKept' /\ (NoFaults' => NoFaults)
  BY DEF SavedInv, BudgetKept, NoFaults, Spared
<1>2. Books' = Books
  BY DEF Books, Holding
<1>3. ctl'.pc = "cash" <=> ctl.pc = "cash"
  OBVIOUS
<1>4. EntriesSaved => EntriesSaved'
  BY <1>3 DEF EntriesSaved
<1>5. SnapshotSaved => SnapshotSaved'
  BY <1>2 DEF SnapshotSaved
<1> QED
  BY <1>1, <1>4, <1>5 DEF SavedInv

LEMMA SavedFilled == ASSUME TInv, BooksInv, SavedInv, RecordFill PROVE SavedInv'
<1>1. /\ cur \in Orders /\ mem[cur] # NoRow /\ mem[cur].filled = 0 /\ ctl.pc = "step"
      /\ LedgerTyped /\ FilledIn(log, cur) = 0
  BY FillIsFirst DEF BooksInv
<1>2. CASE Strike("store")
  BY <1>2, SavedFault DEF FaultKinds
<1>3. CASE ctl' = Idle /\ UNCHANGED <<storeVars, bookVars, mem, budget>>
  BY <1>1, <1>3, SavedSame DEF Idle, storeVars, bookVars, ledgerVars, NoFillRefused
<1>4. CASE /\ FillQuantity > 0 /\ mem' = [mem EXCEPT ![cur].filled = FillQuantity]
           /\ BookBuy(TheFill) \/ BookSell(TheFill)
           /\ log' = Append(log, TheFill) /\ sfills' = Append(sfills, TheFill)
           /\ Goto("cash") /\ UNCHANGED <<cashRows, budget>>
  <2>1. ctl'.pc = "cash"
    <3>1. ctl \in [pc : Busy \cup {"down", "idle"}, cur : Orders \cup {NoOrder}]
      BY DEF TInv, IInv, Shape
    <3> QED
      BY <1>4, <3>1 DEF Goto
  <2>2. TheFill \in Fill /\ TheFill.qty = FillQuantity
    BY <1>1, OrderAmounts DEF TInv, TheFill
  <2>3. Takes(TheFill)
    BY <1>1, <1>4, <2>2, BuyTakes, SellTakes
  <2>4. PICK e \in Entry : entries' = Append(entries, e)
    BY <2>3 DEF Takes
  <2>5. entries' = Append(entries, entries'[Len(entries')])
    BY <1>1, <2>4 DEF LedgerTyped
  <2>6. BudgetKept' /\ (NoFaults' => NoFaults)
    BY <1>4 DEF SavedInv, BudgetKept, NoFaults, Spared
  <2>7. NoFaults => sfills = log /\ cashRows = entries
    BY <1>1 DEF SavedInv, EntriesSaved
  <2> QED
    BY <1>4, <2>1, <2>5, <2>6, <2>7 DEF SavedInv, EntriesSaved, SnapshotSaved
<1>5. CASE /\ FillQuantity > 0 /\ mem' = [mem EXCEPT ![cur].filled = FillQuantity]
           /\ RefuseBuy(TheFill) \/ RefuseSell(TheFill)
           /\ ctl' = Idle /\ UNCHANGED <<storeVars, log, budget>>
  <2>1. UNCHANGED <<entries, sfills, cashRows>>
    BY <1>5 DEF RefuseBuy, RefuseSell, ledgerVars, storeVars
  <2>2. ~NoFillRefused'
    <3> SUFFICES ASSUME NoFillRefused' PROVE FALSE
      OBVIOUS
    <3>1. mem'[cur] # NoRow /\ mem'[cur].filled = FillQuantity
      BY <1>1, <1>5, FillInMemory
    <3>2. FillQuantity = FilledIn(log', cur)
      BY <1>1, <3>1 DEF NoFillRefused, FilledIn
    <3> QED
      BY <1>1, <1>5, <3>2
  <2>3. BudgetKept' /\ (NoFaults' => NoFaults)
    BY <1>5 DEF SavedInv, BudgetKept, NoFaults, Spared
  <2>4. NoFaults => sfills = log /\ cashRows = entries
    BY <1>1 DEF SavedInv, EntriesSaved
  <2> QED
    BY <1>5, <2>1, <2>2, <2>3, <2>4 DEF SavedInv, EntriesSaved, SnapshotSaved, Idle
<1> QED
  BY <1>2, <1>3, <1>4, <1>5 DEF RecordFill, Keep, StoreFails

LEMMA SavedStep ==
    ASSUME TInv, StepUnderway, BooksInv, SavedInv, [Next]_vars PROVE SavedInv'
<1>1. CASE Strike("store") \/ Strike("crash")
  BY <1>1, SavedFault DEF FaultKinds
<1>2. ctl \in [pc : Busy \cup {"down", "idle"}, cur : Orders \cup {NoOrder}]
  BY DEF TInv, IInv, Shape
<1>3. CASE (\E i \in Ids : Submit(i)) \/ (\E o \in Orders : Cancel(o)) \/ Advance \/ Settle
  <2>1. PICK o \in Orders, p \in Row : RecordedAs(o, p)
    BY <1>3, Recordings
  <2>2. /\ UNCHANGED <<sfills, cashRows, snap, cash, realized, lots, entries, log>>
        /\ (ctl'.pc = "upsert" /\ UNCHANGED budget) \/ Strike("store")
    BY <2>1, RecordedMemory
  <2>3. ctl.pc \notin {"cash", "snapshot"} /\ (NoFillRefused' => NoFillRefused)
    BY <2>1, RecordedFills DEF RecordedAs, BooksInv
  <2> QED
    BY <1>1, <2>2, <2>3, SavedSame
<1>4. CASE Upsert /\ ~Strike("store")
  <2>1. UNCHANGED <<sfills, cashRows, snap, bookVars, mem, budget>> /\ ctl.pc = "upsert"
        /\ ctl'.pc \notin {"cash", "snapshot"}
    BY <1>2, <1>4 DEF Upsert, AfterUpsert, StoreFails, Idle, storeVars
  <2> QED
    BY <2>1, SavedSame DEF bookVars, ledgerVars, NoFillRefused
<1>5. CASE RecordFill
  BY <1>5, SavedFilled
<1>6. CASE PutCash /\ ~Strike("store")
  <2>1. /\ cashRows' = Append(cashRows, entries[Len(entries)]) /\ ctl.pc = "cash"
        /\ UNCHANGED <<sfills, log, entries, budget>>
        /\ ctl'.pc = "snapshot"
    BY <1>2, <1>6 DEF PutCash, StoreFails, Goto, bookVars, ledgerVars
  <2>2. BudgetKept' /\ (NoFaults' => NoFaults)
    BY <2>1 DEF SavedInv, BudgetKept, NoFaults, Spared
  <2> QED
    BY <2>1, <2>2 DEF SavedInv, EntriesSaved, SnapshotSaved
<1>7. CASE PutSnapshot /\ ~Strike("store")
  <2>1. /\ snap' = Books /\ ctl.pc = "snapshot" /\ UNCHANGED <<sfills, cashRows, budget, bookVars>>
        /\ ctl'.pc = "settle"
    BY <1>2, <1>7 DEF PutSnapshot, StoreFails, Goto
  <2>2. BudgetKept' /\ (NoFaults' => NoFaults)
    BY <2>1 DEF SavedInv, BudgetKept, NoFaults, Spared
  <2>3. Books' = Books
    BY <2>1 DEF bookVars, ledgerVars, Books, Holding
  <2> QED
    BY <2>1, <2>2, <2>3 DEF SavedInv, EntriesSaved, SnapshotSaved, bookVars, ledgerVars
<1>8. CASE (Reset \/ Restart \/ \E i \in Ids : SubmitDuplicate(i)) /\ ~Strike("store")
  <2>1. /\ UNCHANGED <<sfills, cashRows, snap, bookVars, mem, budget>>
        /\ \/ UNCHANGED ctl
           \/ ctl.pc = "down" /\ ctl' = Idle
    BY <1>8 DEF Reset, Restart, SubmitDuplicate, StoreFails, storeVars
  <2> QED
    BY <2>1, SavedSame DEF bookVars, ledgerVars, NoFillRefused, Idle
<1>9. CASE Crash
  BY <1>1, <1>9 DEF Crash
<1>10. CASE UNCHANGED vars
  BY <1>10, SavedSame DEF vars, storeVars, bookVars, ledgerVars, NoFillRefused
<1> QED
  BY <1>1, <1>3, <1>4, <1>5, <1>6, <1>7, <1>8, <1>9, <1>10 DEF Next

LEMMA SavedImplies == SavedInv => StoredBooksAgreeWhenIdle
<1>1. FaultKinds = {"crash", "store"}
  BY DEF FaultKinds
<1> QED
  BY <1>1 DEF SavedInv, NoFaults, Spared, EntriesSaved, SnapshotSaved, StoredBooksAgreeWhenIdle

\* As long as nothing has failed, the store's fills and cash entries are the ledger's
\* between calls, and its last snapshot shows the books after the last fill.
THEOREM StoreAgrees == Spec => []StoredBooksAgreeWhenIdle
<1>1. Init => SavedInv
  <2> SUFFICES ASSUME Init PROVE SavedInv
    OBVIOUS
  <2>1. BudgetKept
    BY PaperAssumption DEF Init, BudgetKept
  <2>2. sfills = log /\ EntriesSaved /\ SnapshotSaved
    BY DEF Init, LedgerInit, Idle, EntriesSaved, SnapshotSaved
  <2> QED
    BY <2>1, <2>2 DEF SavedInv
<1>2. BInv /\ SavedInv /\ [Next]_vars => SavedInv'
  BY SavedStep DEF BInv
<1> QED
  BY <1>1, <1>2, SavedImplies, BooksInvariant, PTL DEF Spec
=============================================================================
