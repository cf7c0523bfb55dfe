--------------------------- MODULE KillSwitchProofs ---------------------------
(***************************************************************************)
(* For any reasons, times and faults: what is active in memory and what is  *)
(* active in the store agree as far as the store could be read and written, *)
(* and only a reset that has stored everything, or the death of the         *)
(* process, lifts anything.                                                 *)
(***************************************************************************)
EXTENDS KillSwitch, FiniteSetTheorems, TLAPS

\* A process that is not there has no memory.
NothingWhenDown ==
    ~running => active = NoneActive /\ history = <<>> /\ clearing = 0

\* _active_by_reason holds active events; an event is once in the history.
ActiveAreActive == \A r \in Reasons : active[r] # NoEvent => active[r].is_active
IdsUnique == \A i, j \in DOMAIN history : history[i].id = history[j].id => i = j

\* What reset has stored so far, and what it has not come to.
ClearedSoFar ==
    \A i \in DOMAIN history : i < clearing /\ history[i].is_active =>
        kill_rows[history[i].id] = Cleared(history[i])
StillStored ==
    NeverStruck("store") =>
        \A i \in DOMAIN history : i >= clearing /\ history[i].is_active =>
            kill_rows[history[i].id] = history[i]

\* Hydration finds one active row per reason.
OneRowPerReason ==
    ~running /\ NeverStruck("unread") =>
        \A i, j \in ActiveRows : kill_rows[i].reason = kill_rows[j].reason => i = j

KillInv ==
    /\ KillTypeOK
    /\ NothingWhenDown
    /\ ActiveAreActive
    /\ IdsUnique
    /\ ClearedSoFar
    /\ StillStored
    /\ OneRowPerReason
    /\ RowsAreKnown

\* A step of the composition: one of the kill switch, or a store failure elsewhere.
KillStep ==
    \/ KillNext
    \/ Strike("store") /\ UNCHANGED <<running, memoryVars, kill_rows>>
    \/ UNCHANGED killVars

-----------------------------------------------------------------------------
\* The invariant says what the property asks for: every active reason has its
\* event in the history.
LEMMA KillInvImplies == KillInv => StoreAndMemoryAgree
<1> SUFFICES ASSUME KillInv PROVE TripsAreStored
  BY DEF KillInv, StoreAndMemoryAgree
<1> SUFFICES ASSUME Called, NeverStruck("store"), NEW r \in Reasons, active[r] # NoEvent
             PROVE  kill_rows[active[r].id] = active[r]
  BY DEF TripsAreStored
<1>1. PICK i \in DOMAIN history : history[i] = active[r]
  BY DEF KillInv, KillTypeOK
<1>2. history[i].is_active
  BY <1>1 DEF KillInv, ActiveAreActive
<1>3. clearing = 0 /\ i >= clearing
  BY DEF Called, KillInv, KillTypeOK
<1> QED
  BY <1>1, <1>2, <1>3 DEF KillInv, StillStored

LEMMA KillInitInv == KillInit => KillInv
<1> SUFFICES ASSUME KillInit PROVE KillInv
  OBVIOUS
<1> USE DEF KillInit, NoneActive
<1>1. KillTypeOK
  BY KillSwitchAssumption DEF KillTypeOK
<1>2. NothingWhenDown /\ ActiveAreActive /\ IdsUnique /\ ClearedSoFar /\ StillStored
  BY DEF NothingWhenDown, ActiveAreActive, IdsUnique, ClearedSoFar, StillStored
<1>3. OneRowPerReason /\ RowsAreKnown
  BY DEF OneRowPerReason, RowsAreKnown, ActiveRows
<1> QED
  BY <1>1, <1>2, <1>3 DEF KillInv

\* Faults only get fewer: one that has not struck after a step had not before.
LEMMA FaultsGetFewer ==
    ASSUME KillTypeOK, NEW f \in FaultKinds, NEW g \in FaultKinds, Strike(f)
    PROVE  /\ budget' \in [FaultKinds -> Nat]
           /\ \A h \in FaultKinds : budget'[h] <= MaxFaults[h]
           /\ ~NeverStruck(f)'
           /\ NeverStruck(g)' => NeverStruck(g)
<1>1. \A h \in FaultKinds : budget[h] \in Nat /\ MaxFaults[h] \in Nat /\ budget[h] <= MaxFaults[h]
  BY KillSwitchAssumption DEF KillTypeOK
<1>2. budget[f] > 0 /\ budget' = [budget EXCEPT ![f] = @ - 1]
  BY DEF Strike
<1>3. budget \in [FaultKinds -> Nat]
  BY DEF KillTypeOK
<1> QED
  BY <1>1, <1>2, <1>3 DEF NeverStruck

-----------------------------------------------------------------------------
(* Each action keeps the invariant.                                        *)

LEMMA TriggerKeeps ==
    ASSUME KillInv, NEW r \in Reasons, NEW at \in Times, Trigger(r, at)
    PROVE  KillInv'
<1> DEFINE new == CHOOSE id \in Fresh : TRUE
<1> DEFINE event == [id |-> new, reason |-> r, triggered_at |-> at, is_active |-> TRUE]
<1>a. /\ running /\ clearing = 0 /\ active[r] = NoEvent
      /\ running' = running /\ clearing' = clearing
      /\ active' = [active EXCEPT ![r] = event]
      /\ history' = Append(history, event)
      /\ Save(event) \/ SaveFails
  BY DEF Trigger, Called
<1>b. new \in Fresh
  BY DEF Trigger
<1> HIDE DEF new
<1>i. /\ new \in Ids
      /\ kill_rows[new] = NoEvent
      /\ \A i \in DOMAIN history : history[i].id # new
  BY <1>b DEF Fresh
<1>c. /\ event \in Event /\ event.id \in Ids
      /\ event.reason = r /\ event.is_active
      /\ event # NoEvent
      /\ kill_rows[event.id] = NoEvent
      /\ \A i \in DOMAIN history : history[i].id # event.id
  <2>1. event \in Event
    BY <1>i DEF Event
  <2>2. event.id = new /\ event.reason = r /\ event.is_active
    OBVIOUS
  <2> HIDE DEF event
  <2> QED
    BY <2>1, <2>2, <1>i, KillSwitchAssumption
<1> HIDE DEF event
<1>d. /\ active \in [Reasons -> Event \cup {NoEvent}]
      /\ history \in Seq(Event)
      /\ kill_rows \in [Ids -> Event \cup {NoEvent}]
      /\ \A id \in Ids : kill_rows[id] # NoEvent => kill_rows[id].id = id
      /\ \A s \in Reasons : active[s] # NoEvent =>
            active[s].reason = s /\ \E i \in DOMAIN history : history[i] = active[s]
      /\ \A i \in DOMAIN history : history[i].is_active => active[history[i].reason] = history[i]
  BY DEF KillInv, KillTypeOK
<1>e. /\ history' \in Seq(Event)
      /\ Len(history) \in Nat
      /\ DOMAIN history = 1 .. Len(history)
      /\ DOMAIN history' = 1 .. Len(history) + 1
      /\ \A i \in DOMAIN history : history'[i] = history[i]
      /\ history'[Len(history) + 1] = event
  BY <1>a, <1>c, <1>d
<1>f. /\ active' \in [Reasons -> Event \cup {NoEvent}]
      /\ active'[r] = event
      /\ \A s \in Reasons : s # r => active'[s] = active[s]
  BY <1>a, <1>c, <1>d
<1>g. /\ budget' \in [FaultKinds -> Nat]
      /\ \A f \in FaultKinds : budget'[f] <= MaxFaults[f]
      /\ NeverStruck("unread")' => NeverStruck("unread")
      /\ NeverStruck("store")' => NeverStruck("store") /\ Save(event)
  <2>1. CASE Save(event)
    BY <2>1 DEF Save, NeverStruck, KillInv, KillTypeOK
  <2>2. CASE SaveFails
    <3>1. "store" \in FaultKinds /\ "unread" \in FaultKinds /\ Strike("store") /\ KillTypeOK
      BY <2>2 DEF FaultKinds, SaveFails, KillInv
    <3> QED
      BY <3>1, FaultsGetFewer
  <2> QED
    BY <1>a, <2>1, <2>2
<1>h. /\ kill_rows' \in [Ids -> Event \cup {NoEvent}]
      /\ \A id \in Ids : id # event.id => kill_rows'[id] = kill_rows[id]
      /\ kill_rows'[event.id] \in {NoEvent, event}
      /\ Save(event) => kill_rows'[event.id] = event
  <2>1. kill_rows' = [kill_rows EXCEPT ![event.id] = event] \/ (kill_rows' = kill_rows /\ ~Save(event))
    BY <1>a DEF Save, SaveFails
  <2> QED
    BY <2>1, <1>c, <1>d DEF Save
<1>1. KillTypeOK'
  <2>1. clearing' \in 0 .. Len(history') + 1 /\ running' \in BOOLEAN
    BY <1>a, <1>e DEF KillInv, KillTypeOK
  <2>2. \A s \in Reasons : active'[s] # NoEvent =>
            active'[s].reason = s /\ \E i \in DOMAIN history' : history'[i] = active'[s]
    BY <1>c, <1>d, <1>e, <1>f
  <2>3. ASSUME NEW i \in DOMAIN history', history'[i].is_active
        PROVE  active'[history'[i].reason] = history'[i]
    <3>1. CASE i = Len(history) + 1
      BY <3>1, <1>e, <1>c, <1>f
    <3>2. CASE i # Len(history) + 1
      <4>1. i \in DOMAIN history /\ history'[i] = history[i] /\ history[i] \in Event
        BY <3>2, <1>e, <1>d
      <4>2. active[history[i].reason] = history[i] /\ history[i].reason \in Reasons
        BY <2>3, <4>1, <1>d DEF Event
      <4>3. history[i] # NoEvent
        BY <4>1, KillSwitchAssumption
      <4> QED
        BY <4>1, <4>2, <4>3, <1>a, <1>f
    <3> QED
      BY <3>1, <3>2
  <2>4. \A id \in Ids : kill_rows'[id] # NoEvent => kill_rows'[id].id = id
    BY <1>h, <1>c, <1>d
  <2> QED
    BY <2>1, <2>2, <2>3, <2>4, <1>e, <1>f, <1>g, <1>h DEF KillTypeOK
<1>2. NothingWhenDown' /\ OneRowPerReason'
  BY <1>a DEF NothingWhenDown, OneRowPerReason
<1>3. ActiveAreActive'
  BY <1>f, <1>c DEF ActiveAreActive, KillInv
<1>4. IdsUnique'
  BY <1>e, <1>c DEF IdsUnique, KillInv
<1>5. ClearedSoFar'
  BY <1>a, <1>e DEF ClearedSoFar
<1>6. StillStored'
  <2> SUFFICES ASSUME NeverStruck("store")', NEW i \in DOMAIN history', history'[i].is_active
               PROVE  kill_rows'[history'[i].id] = history'[i]
    BY DEF StillStored
  <2>1. CASE i = Len(history) + 1
    BY <2>1, <1>e, <1>g, <1>h
  <2>2. CASE i # Len(history) + 1
    <3>1. i \in DOMAIN history /\ history'[i] = history[i] /\ history[i] \in Event /\ i >= clearing
      BY <2>2, <1>e, <1>d, <1>a
    <3>2. kill_rows[history[i].id] = history[i]
      BY <3>1, <1>g DEF StillStored, KillInv
    <3> QED
      BY <3>1, <3>2, <1>c, <1>h DEF Event
  <2> QED
    BY <2>1, <2>2
<1>7. RowsAreKnown'
  <2> SUFFICES ASSUME NeverStruck("unread")', NEW id \in ActiveRows'
               PROVE  active'[kill_rows'[id].reason] = kill_rows'[id]
    BY DEF RowsAreKnown
  <2>1. CASE id = event.id
    BY <2>1, <1>h, <1>c, <1>f DEF ActiveRows
  <2>2. CASE id # event.id
    <3>1. id \in ActiveRows /\ kill_rows'[id] = kill_rows[id] /\ kill_rows[id] \in Event
      BY <2>2, <1>h, <1>d DEF ActiveRows
    <3>2. active[kill_rows[id].reason] = kill_rows[id] /\ kill_rows[id].reason \in Reasons
      BY <3>1, <1>a, <1>g DEF RowsAreKnown, KillInv, Event
    <3> QED
      BY <3>1, <3>2, <1>a, <1>f, KillSwitchAssumption
  <2> QED
    BY <2>1, <2>2
<1> QED
  BY <1>1, <1>2, <1>3, <1>4, <1>5, <1>6, <1>7 DEF KillInv
LEMMA ResetKeeps == KillInv /\ Reset => KillInv'
<1> SUFFICES ASSUME KillInv, Reset PROVE KillInv'
  OBVIOUS
<1>1. running /\ clearing = 0 /\ clearing' = 1
      /\ UNCHANGED <<running, active, history, kill_rows, budget>>
  BY DEF Reset, Called
<1>2. history \in Seq(Event) /\ DOMAIN history = 1 .. Len(history) /\ Len(history) \in Nat
  BY DEF KillInv, KillTypeOK
<1>3. KillTypeOK'
  BY <1>1, <1>2 DEF KillInv, KillTypeOK
<1>4. NothingWhenDown' /\ ActiveAreActive' /\ IdsUnique' /\ OneRowPerReason'
  BY <1>1 DEF KillInv, NothingWhenDown, ActiveAreActive, IdsUnique, OneRowPerReason
<1>5. ClearedSoFar' /\ StillStored'
  BY <1>1, <1>2 DEF KillInv, ClearedSoFar, StillStored, NeverStruck
<1>6. RowsAreKnown'
  BY <1>1 DEF KillInv, RowsAreKnown, ActiveRows, NeverStruck
<1> QED
  BY <1>3, <1>4, <1>5, <1>6 DEF KillInv

\* One turn of reset's loop.  What is stored as cleared is the event looked at.
LEMMA ClearNextKeeps == KillInv /\ ClearNext => KillInv'
<1> SUFFICES ASSUME KillInv, ClearNext PROVE KillInv'
  OBVIOUS
<1> DEFINE event == history[clearing]
<1>a. /\ clearing \in DOMAIN history /\ UNCHANGED <<running, active, history>>
      /\ history \in Seq(Event) /\ event \in Event
      /\ DOMAIN history = 1 .. Len(history) /\ Len(history) \in Nat
      /\ kill_rows \in [Ids -> Event \cup {NoEvent}]
      /\ active \in [Reasons -> Event \cup {NoEvent}]
  BY DEF ClearNext, KillInv, KillTypeOK
<1>b. running /\ running'
  BY <1>a DEF KillInv, NothingWhenDown
<1>c. /\ Cleared(event) \in Event
      /\ Cleared(event).id = event.id
      /\ ~Cleared(event).is_active
      /\ Cleared(event) # NoEvent
      /\ event.id \in Ids
  <2>1. event = [id |-> event.id, reason |-> event.reason, triggered_at |-> event.triggered_at,
                 is_active |-> event.is_active]
    BY <1>a DEF Event
  <2>2. \A e \in Event : [e EXCEPT !.is_active = FALSE] \in Event
    BY DEF Event
  <2>3. \A e \in Event : [e EXCEPT !.is_active = FALSE].id = e.id /\ ~[e EXCEPT !.is_active = FALSE].is_active
    BY DEF Event
  <2> QED
    BY <1>a, <2>2, <2>3, KillSwitchAssumption DEF Cleared, Event
<1>d. NothingWhenDown' /\ ActiveAreActive' /\ IdsUnique' /\ OneRowPerReason'
  BY <1>a, <1>b DEF KillInv, NothingWhenDown, ActiveAreActive, IdsUnique, OneRowPerReason
<1>1. CASE IsCleared(event) /\ Save(Cleared(event)) /\ clearing' = clearing + 1
  <2> HIDE DEF event
  <2>1. kill_rows' = [kill_rows EXCEPT ![event.id] = Cleared(event)] /\ budget' = budget
    <3>1. kill_rows' = [kill_rows EXCEPT ![Cleared(event).id] = Cleared(event)] /\ budget' = budget
      BY <1>1, Zenon DEF Save
    <3> QED
      BY <3>1, <1>c
  <2>2. /\ kill_rows' \in [Ids -> Event \cup {NoEvent}]
        /\ kill_rows'[event.id] = Cleared(event)
        /\ \A id \in Ids : id # event.id => kill_rows'[id] = kill_rows[id]
    BY <2>1, <1>a, <1>c
  <2>3. \A id \in Ids : kill_rows'[id] # NoEvent => kill_rows'[id].id = id
    BY <2>2, <1>c DEF KillInv, KillTypeOK
  <2>4. KillTypeOK'
    BY <2>1, <2>2, <2>3, <1>a, <1>1 DEF KillInv, KillTypeOK
  <2>5. ASSUME NEW i \in DOMAIN history, i # clearing
        PROVE  kill_rows'[history[i].id] = kill_rows[history[i].id]
    <3>1. history[i].id # event.id
      BY <2>5, <1>a DEF KillInv, IdsUnique, event
    <3>2. history[i].id \in Ids
      <4>1. history[i] \in Event
        BY <1>a
      <4> QED
        BY <4>1 DEF Event
    <3> QED
      BY <3>1, <3>2, <2>2
  <2>6. ClearedSoFar'
    <3> SUFFICES ASSUME NEW i \in DOMAIN history, i < clearing + 1, history[i].is_active
                 PROVE  kill_rows'[history[i].id] = Cleared(history[i])
      BY <1>1, <1>a DEF ClearedSoFar, Cleared
    <3>1. CASE i = clearing
      BY <3>1, <2>2 DEF event
    <3>2. CASE i # clearing
      <4>1. i < clearing
        BY <3>2, <1>a
      <4> QED
        BY <3>2, <4>1, <2>5 DEF KillInv, ClearedSoFar
    <3> QED
      BY <3>1, <3>2
  <2>7. StillStored'
    <3> SUFFICES ASSUME NeverStruck("store"), NEW i \in DOMAIN history, i >= clearing + 1,
                        history[i].is_active
                 PROVE  kill_rows'[history[i].id] = history[i]
      BY <1>1, <1>a, <2>1 DEF StillStored, NeverStruck
    <3>1. i >= clearing /\ i # clearing
      BY <1>a
    <3> QED
      BY <3>1, <2>5 DEF KillInv, StillStored
  <2>8. RowsAreKnown'
    <3> SUFFICES ASSUME NeverStruck("unread"), NEW id \in ActiveRows'
                 PROVE  active[kill_rows'[id].reason] = kill_rows'[id]
      BY <1>a, <2>1 DEF RowsAreKnown, NeverStruck
    <3>1. id # event.id
      BY <2>2, <1>c DEF ActiveRows
    <3>2. id \in ActiveRows /\ kill_rows'[id] = kill_rows[id]
      BY <3>1, <2>2 DEF ActiveRows
    <3> QED
      BY <3>2, <1>b DEF KillInv, RowsAreKnown
  <2> QED
    BY <2>4, <1>d, <2>6, <2>7, <2>8 DEF KillInv
<1>2. CASE IsCleared(event) /\ SaveFails /\ clearing' = 0
  <2>1. /\ budget' \in [FaultKinds -> Nat]
        /\ \A f \in FaultKinds : budget'[f] <= MaxFaults[f]
        /\ ~NeverStruck("store")'
        /\ NeverStruck("unread")' => NeverStruck("unread")
        /\ kill_rows' = kill_rows
    <3>1. "store" \in FaultKinds /\ "unread" \in FaultKinds /\ Strike("store") /\ KillTypeOK
      BY <1>2 DEF FaultKinds, SaveFails, KillInv
    <3> QED
      BY <3>1, <1>2, FaultsGetFewer DEF SaveFails
  <2>2. KillTypeOK'
    BY <2>1, <1>a, <1>2 DEF KillInv, KillTypeOK
  <2>3. ClearedSoFar' /\ StillStored'
    BY <2>1, <1>a, <1>2 DEF ClearedSoFar, StillStored
  <2>4. RowsAreKnown'
    BY <2>1, <1>a DEF KillInv, RowsAreKnown, ActiveRows
  <2> QED
    BY <2>2, <2>3, <2>4, <1>d DEF KillInv
<1>3. CASE ~IsCleared(event) /\ clearing' = clearing + 1 /\ UNCHANGED <<kill_rows, budget>>
  <2>1. ~event.is_active
    BY <1>3, <1>a, KillSwitchAssumption DEF IsCleared, KillInv, KillTypeOK
  <2>2. KillTypeOK'
    BY <1>a, <1>3 DEF KillInv, KillTypeOK
  <2>3. ClearedSoFar'
    <3> SUFFICES ASSUME NEW i \in DOMAIN history, i < clearing + 1, history[i].is_active
                 PROVE  kill_rows[history[i].id] = Cleared(history[i])
      BY <1>3, <1>a DEF ClearedSoFar, Cleared
    <3>1. i # clearing
      BY <2>1
    <3>2. i < clearing
      BY <3>1, <1>a
    <3> QED
      BY <3>2 DEF KillInv, ClearedSoFar
  <2>4. StillStored'
    BY <1>a, <1>3 DEF KillInv, StillStored, NeverStruck
  <2>5. RowsAreKnown'
    BY <1>a, <1>3 DEF KillInv, RowsAreKnown, ActiveRows, NeverStruck
  <2> QED
    BY <2>2, <2>3, <2>4, <2>5, <1>d DEF KillInv
<1> QED
  BY <1>1, <1>2, <1>3 DEF ClearNext
\* At the end of reset every active event of the history is stored as cleared.
LEMMA AllCleared ==
    ASSUME KillInv, FinishReset, NEW r \in Reasons, active[r] # NoEvent
    PROVE  kill_rows[active[r].id] = Cleared(active[r])
<1>1. PICK i \in DOMAIN history : history[i] = active[r]
  BY DEF KillInv, KillTypeOK
<1>2. history[i].is_active
  BY <1>1 DEF KillInv, ActiveAreActive
<1>3. i < clearing
  BY DEF FinishReset, KillInv, KillTypeOK
<1> QED
  BY <1>1, <1>2, <1>3 DEF KillInv, ClearedSoFar

LEMMA FinishResetKeeps == KillInv /\ FinishReset => KillInv'
<1> SUFFICES ASSUME KillInv, FinishReset PROVE KillInv'
  OBVIOUS
<1>a. /\ clearing = Len(history) + 1 /\ clearing' = 0
      /\ active' = NoneActive
      /\ UNCHANGED <<running, kill_rows, budget>>
      /\ history' = [i \in DOMAIN history |->
                       IF IsCleared(history[i]) THEN Cleared(history[i]) ELSE history[i]]
  BY DEF FinishReset
<1>b. /\ history \in Seq(Event)
      /\ DOMAIN history = 1 .. Len(history) /\ Len(history) \in Nat
      /\ kill_rows \in [Ids -> Event \cup {NoEvent}]
      /\ running
  BY <1>a DEF KillInv, KillTypeOK, NothingWhenDown
<1>c. ASSUME NEW i \in DOMAIN history
      PROVE  history'[i] \in Event /\ history'[i].id = history[i].id /\ ~history'[i].is_active
  <2>1. history[i] \in Event
    BY <1>b
  <2>2. \A e \in Event : [e EXCEPT !.is_active = FALSE] \in Event
    BY DEF Event
  <2>3. \A e \in Event : [e EXCEPT !.is_active = FALSE].id = e.id /\ ~[e EXCEPT !.is_active = FALSE].is_active
    BY DEF Event
  <2>4. Cleared(history[i]) \in Event /\ Cleared(history[i]).id = history[i].id /\ ~Cleared(history[i]).is_active
    BY <2>1, <2>2, <2>3 DEF Cleared
  <2>5. CASE IsCleared(history[i])
    BY <2>4, <2>5, <1>a
  <2>6. CASE ~IsCleared(history[i])
    <3>1. history'[i] = history[i]
      BY <2>6, <1>a
    <3>2. ~history[i].is_active
      BY <2>1, <2>6, KillSwitchAssumption DEF IsCleared, KillInv, KillTypeOK
    <3> QED
      BY <3>1, <3>2, <2>1
  <2> QED
    BY <2>5, <2>6
<1>d. history' \in Seq(Event) /\ DOMAIN history' = DOMAIN history /\ Len(history') \in Nat
  <2>1. DOMAIN history' = 1 .. Len(history)
    BY <1>a, <1>b
  <2>2. history' \in [1 .. Len(history) -> Event]
    BY <2>1, <1>a, <1>b, <1>c
  <2> QED
    BY <2>1, <2>2, <1>b
<1>1. KillTypeOK'
  <2>1. active' \in [Reasons -> Event \cup {NoEvent}] /\ \A r \in Reasons : active'[r] = NoEvent
    BY <1>a DEF NoneActive
  <2>2. clearing' \in 0 .. Len(history') + 1
    BY <1>a, <1>d
  <2> QED
    BY <2>1, <2>2, <1>a, <1>b, <1>c, <1>d DEF KillInv, KillTypeOK
<1>2. NothingWhenDown' /\ OneRowPerReason'
  BY <1>a, <1>b DEF NothingWhenDown, OneRowPerReason
<1>3. ActiveAreActive'
  BY <1>a DEF ActiveAreActive, NoneActive
<1>4. IdsUnique'
  BY <1>c, <1>d DEF KillInv, IdsUnique
<1>5. ClearedSoFar' /\ StillStored'
  BY <1>c, <1>d DEF ClearedSoFar, StillStored
<1>6. RowsAreKnown'
  <2> SUFFICES ASSUME NeverStruck("unread"), NEW id \in ActiveRows PROVE FALSE
    BY <1>a DEF RowsAreKnown, NeverStruck, ActiveRows
  <2>1. /\ kill_rows[id] # NoEvent /\ kill_rows[id].is_active /\ kill_rows[id] \in Event
        /\ kill_rows[id].id = id
        /\ active[kill_rows[id].reason] = kill_rows[id]
    BY <1>b DEF ActiveRows, KillInv, KillTypeOK, RowsAreKnown
  <2>2. kill_rows[id].reason \in Reasons
    BY <2>1 DEF Event
  <2>3. kill_rows[id] = Cleared(kill_rows[id])
    BY <2>1, <2>2, AllCleared
  <2>4. \A e \in Event : ~[e EXCEPT !.is_active = FALSE].is_active
    BY DEF Event
  <2> QED
    BY <2>1, <2>3, <2>4 DEF Cleared
<1> QED
  BY <1>1, <1>2, <1>3, <1>4, <1>5, <1>6 DEF KillInv

LEMMA CrashKeeps == KillInv /\ Crash => KillInv'
<1> SUFFICES ASSUME KillInv, Crash PROVE KillInv'
  OBVIOUS
<1>a. /\ running /\ ~running' /\ active' = NoneActive /\ history' = <<>> /\ clearing' = 0
      /\ kill_rows' = kill_rows /\ running' \in BOOLEAN
  BY DEF Crash
<1>b. /\ budget' \in [FaultKinds -> Nat]
      /\ \A f \in FaultKinds : budget'[f] <= MaxFaults[f]
      /\ NeverStruck("unread")' => NeverStruck("unread")
  <2>1. "crash" \in FaultKinds /\ "unread" \in FaultKinds /\ Strike("crash") /\ KillTypeOK
    BY DEF FaultKinds, Crash, KillInv
  <2> QED
    BY <2>1, FaultsGetFewer
<1>1. KillTypeOK'
  BY <1>a, <1>b DEF KillInv, KillTypeOK, NoneActive
<1>2. NothingWhenDown' /\ ActiveAreActive' /\ IdsUnique' /\ ClearedSoFar' /\ StillStored'
  BY <1>a DEF NothingWhenDown, ActiveAreActive, IdsUnique, ClearedSoFar, StillStored, NoneActive
<1>3. OneRowPerReason'
  <2> SUFFICES ASSUME NeverStruck("unread")', NEW i \in ActiveRows, NEW j \in ActiveRows,
                      kill_rows[i].reason = kill_rows[j].reason
               PROVE  i = j
    BY <1>a DEF OneRowPerReason, ActiveRows
  <2>1. active[kill_rows[i].reason] = kill_rows[i] /\ active[kill_rows[j].reason] = kill_rows[j]
    BY <1>a, <1>b DEF KillInv, RowsAreKnown
  <2>2. kill_rows[i].id = i /\ kill_rows[j].id = j
    BY DEF KillInv, KillTypeOK, ActiveRows
  <2> QED
    BY <2>1, <2>2
<1>4. RowsAreKnown'
  BY <1>a DEF RowsAreKnown
<1> QED
  BY <1>1, <1>2, <1>3, <1>4 DEF KillInv

LEMMA StartUnreadKeeps == KillInv /\ StartUnread => KillInv'
<1> SUFFICES ASSUME KillInv, StartUnread PROVE KillInv'
  OBVIOUS
<1>a. /\ ~running /\ running' = TRUE /\ UNCHANGED <<active, history, clearing, kill_rows>>
      /\ active = NoneActive /\ history = <<>> /\ clearing = 0
  BY DEF StartUnread, memoryVars, KillInv, NothingWhenDown
<1>b. /\ budget' \in [FaultKinds -> Nat]
      /\ \A f \in FaultKinds : budget'[f] <= MaxFaults[f]
      /\ ~NeverStruck("unread")'
  <2>1. "unread" \in FaultKinds /\ Strike("unread") /\ KillTypeOK
    BY DEF FaultKinds, StartUnread, KillInv
  <2> QED
    BY <2>1, FaultsGetFewer
<1>1. KillTypeOK'
  BY <1>a, <1>b DEF KillInv, KillTypeOK
<1>2. /\ NothingWhenDown' /\ ActiveAreActive' /\ IdsUnique' /\ ClearedSoFar' /\ StillStored'
      /\ OneRowPerReason' /\ RowsAreKnown'
  BY <1>a, <1>b DEF NothingWhenDown, ActiveAreActive, IdsUnique, ClearedSoFar, StillStored, NoneActive,
                    OneRowPerReason, RowsAreKnown
<1> QED
  BY <1>1, <1>2 DEF KillInv

\* A store failure elsewhere spends the fault and nothing else.
LEMMA FailureKeeps ==
    KillInv /\ Strike("store") /\ UNCHANGED <<running, memoryVars, kill_rows>> => KillInv'
<1> SUFFICES ASSUME KillInv, Strike("store"), UNCHANGED <<running, memoryVars, kill_rows>>
             PROVE  KillInv'
  OBVIOUS
<1>a. UNCHANGED <<running, active, history, clearing, kill_rows>>
  BY DEF memoryVars
<1>b. /\ budget' \in [FaultKinds -> Nat]
      /\ \A f \in FaultKinds : budget'[f] <= MaxFaults[f]
      /\ ~NeverStruck("store")'
      /\ NeverStruck("unread")' => NeverStruck("unread")
  <2>1. "store" \in FaultKinds /\ "unread" \in FaultKinds /\ KillTypeOK
    BY DEF FaultKinds, KillInv
  <2> QED
    BY <2>1, FaultsGetFewer
<1>1. KillTypeOK'
  BY <1>a, <1>b DEF KillInv, KillTypeOK
<1>2. /\ NothingWhenDown' /\ ActiveAreActive' /\ IdsUnique' /\ ClearedSoFar' /\ StillStored'
  BY <1>a, <1>b DEF KillInv, NothingWhenDown, ActiveAreActive, IdsUnique, ClearedSoFar, StillStored,
                    Cleared, NoneActive
<1>3. OneRowPerReason' /\ RowsAreKnown'
  BY <1>a, <1>b DEF KillInv, OneRowPerReason, RowsAreKnown, ActiveRows
<1> QED
  BY <1>1, <1>2, <1>3 DEF KillInv
\* Hydration: the kept rows are all the active ones when every start read the store,
\* and the history is made of them.
LEMMA StartKeeps == KillInv /\ Start => KillInv'
<1> SUFFICES ASSUME KillInv, Start PROVE KillInv'
  OBVIOUS
<1>a. /\ ~running /\ running' = TRUE /\ UNCHANGED <<clearing, kill_rows, budget>>
      /\ clearing = 0
  BY DEF Start, KillInv, NothingWhenDown
<1>b. PICK ids \in SUBSET ActiveRows :
        /\ Kept(ids)
        /\ active' = [r \in Reasons |->
                        IF \E id \in ids : kill_rows[id].reason = r
                        THEN kill_rows[CHOOSE id \in ids : kill_rows[id].reason = r]
                        ELSE NoEvent]
        /\ \E h \in Bijection(1 .. Cardinality(ids), ids) :
            history' = [i \in 1 .. Cardinality(ids) |-> kill_rows[h[i]]]
  BY DEF Start
<1> DEFINE n == Cardinality(ids)
<1>c. n \in Nat
  <2>1. ids \subseteq Ids
    BY DEF ActiveRows
  <2> QED
    BY <2>1, FS_Subset, FS_CardinalityType, KillSwitchAssumption
<1> HIDE DEF n
<1>d. PICK h \in [1 .. n -> ids] :
        /\ \A i, j \in 1 .. n : h[i] = h[j] => i = j
        /\ \A id \in ids : \E i \in 1 .. n : h[i] = id
        /\ history' = [i \in 1 .. n |-> kill_rows[h[i]]]
  <2>1. PICK h \in Bijection(1 .. n, ids) : history' = [i \in 1 .. n |-> kill_rows[h[i]]]
    BY <1>b, Zenon DEF n
  <2>2. h \in [1 .. n -> ids] /\ \A id \in ids : \E i \in 1 .. n : h[i] = id
    BY <2>1 DEF Bijection, Surjection
  <2>3. \A i, j \in 1 .. n : h[i] = h[j] => i = j
    BY <2>1, <2>2 DEF Bijection, Injection, IsInjective
  <2> QED
    BY <2>1, <2>2, <2>3
<1>e. ASSUME NEW id \in ids
      PROVE  /\ id \in Ids /\ kill_rows[id] \in Event /\ kill_rows[id] # NoEvent
             /\ kill_rows[id].is_active /\ kill_rows[id].id = id
             /\ kill_rows[id].reason \in Reasons
  <2>1. id \in Ids /\ kill_rows[id] # NoEvent /\ kill_rows[id].is_active
    BY <1>b DEF ActiveRows
  <2>2. kill_rows[id] \in Event /\ kill_rows[id].id = id
    BY <2>1 DEF KillInv, KillTypeOK
  <2> QED
    BY <2>1, <2>2 DEF Event
<1>f. \A id, other \in ids : kill_rows[id].reason = kill_rows[other].reason => id = other
  BY <1>b DEF Kept
<1>g. /\ history' \in Seq(Event) /\ Len(history') \in Nat
      /\ DOMAIN history' = 1 .. n
      /\ \A i \in 1 .. n : h[i] \in ids /\ history'[i] = kill_rows[h[i]]
  <2>1. history' \in [1 .. n -> Event]
    BY <1>d, <1>e
  <2> QED
    BY <2>1, <1>c, <1>d
<1>h. ASSUME NEW id \in ids PROVE active'[kill_rows[id].reason] = kill_rows[id]
  <2>1. (CHOOSE other \in ids : kill_rows[other].reason = kill_rows[id].reason) = id
    BY <1>f
  <2> QED
    BY <2>1, <1>b, <1>e
<1>i. ASSUME NEW r \in Reasons, active'[r] # NoEvent
      PROVE  \E id \in ids : active'[r] = kill_rows[id] /\ kill_rows[id].reason = r
  BY <1>i, <1>b
<1>1. KillTypeOK'
  <2>1. active' \in [Reasons -> Event \cup {NoEvent}]
    <3>1. \A r \in Reasons : active'[r] \in Event \cup {NoEvent}
      BY <1>e, <1>i
    <3> QED
      BY <3>1, <1>b
  <2>2. \A r \in Reasons : active'[r] # NoEvent =>
          active'[r].reason = r /\ \E i \in DOMAIN history' : history'[i] = active'[r]
    BY <1>d, <1>g, <1>i
  <2>3. \A i \in DOMAIN history' : active'[history'[i].reason] = history'[i]
    BY <1>g, <1>h
  <2>4. clearing' \in 0 .. Len(history') + 1
    BY <1>a, <1>g
  <2> QED
    BY <2>1, <2>2, <2>3, <2>4, <1>a, <1>g DEF KillInv, KillTypeOK
<1>2. NothingWhenDown' /\ OneRowPerReason'
  BY <1>a DEF NothingWhenDown, OneRowPerReason
<1>3. ActiveAreActive'
  BY <1>e, <1>i DEF ActiveAreActive
<1>4. IdsUnique'
  BY <1>d, <1>e, <1>g DEF IdsUnique
<1>5. ClearedSoFar'
  BY <1>a, <1>c, <1>g DEF ClearedSoFar
<1>6. StillStored'
  BY <1>a, <1>e, <1>g DEF StillStored
<1>7. RowsAreKnown'
  <2> SUFFICES ASSUME NeverStruck("unread"), NEW other \in ActiveRows
               PROVE  active'[kill_rows[other].reason] = kill_rows[other]
    BY <1>a DEF RowsAreKnown, NeverStruck, ActiveRows
  <2>1. PICK id \in ids : kill_rows[id].reason = kill_rows[other].reason
    BY <1>b DEF Kept
  <2>2. id = other
    BY <2>1, <1>a, <1>b DEF KillInv, OneRowPerReason
  <2> QED
    BY <2>2, <1>h
<1> QED
  BY <1>1, <1>2, <1>3, <1>4, <1>5, <1>6, <1>7 DEF KillInv

-----------------------------------------------------------------------------
LEMMA StutterKeeps == KillInv /\ UNCHANGED killVars => KillInv'
BY DEF killVars, memoryVars, KillInv, KillTypeOK, NothingWhenDown, ActiveAreActive, IdsUnique,
       ClearedSoFar, StillStored, OneRowPerReason, RowsAreKnown, ActiveRows, NeverStruck, Cleared,
       NoneActive

LEMMA KillStepKeeps == KillInv /\ KillStep => KillInv'
BY TriggerKeeps, ResetKeeps, ClearNextKeeps, FinishResetKeeps, CrashKeeps, StartKeeps,
   StartUnreadKeeps, FailureKeeps, StutterKeeps DEF KillStep, KillNext

\* What a step may lift of the active reasons.
Lift ==
    \A r \in Reasons : active[r] # NoEvent /\ active'[r] = NoEvent =>
        \/ ~running'
        \/ /\ active' = NoneActive
           /\ \A s \in Reasons : active[s] # NoEvent =>
                kill_rows[active[s].id] = Cleared(active[s])

LEMMA KillStepLifts == KillInv /\ KillStep => Lift
<1> SUFFICES ASSUME KillInv, KillStep PROVE Lift
  OBVIOUS
<1>1. CASE \E r \in Reasons, at \in Times : Trigger(r, at)
  <2>1. PICK r \in Reasons, at \in Times : Trigger(r, at)
    BY <1>1
  <2>2. PICK id : active' = [active EXCEPT ![r] = [id |-> id, reason |-> r, triggered_at |-> at,
                                                  is_active |-> TRUE]]
    BY <2>1 DEF Trigger
  <2>3. active[r] = NoEvent /\ DOMAIN active = Reasons
    BY <2>1 DEF Trigger, KillInv, KillTypeOK
  <2> QED
    BY <2>2, <2>3 DEF Lift
<1>2. CASE FinishReset
  BY <1>2, AllCleared DEF FinishReset, Lift
<1>3. CASE Crash
  BY <1>3 DEF Crash, Lift
<1>4. CASE Start
  BY <1>4 DEF Start, Lift, KillInv, NothingWhenDown, NoneActive
<1>5. CASE active' = active
  BY <1>5 DEF Lift
<1>6. Reset \/ ClearNext \/ StartUnread \/ UNCHANGED <<running, memoryVars, kill_rows>> \/ UNCHANGED killVars
        => active' = active
  BY DEF Reset, ClearNext, StartUnread, memoryVars, killVars
<1> QED
  BY <1>1, <1>2, <1>3, <1>4, <1>5, <1>6 DEF KillStep, KillNext
=============================================================================
