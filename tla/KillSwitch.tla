------------------------------ MODULE KillSwitch ------------------------------
(***************************************************************************)
(* KillSwitch (quant_os/risk/kill_switch.py) over the kill_switch_events    *)
(* table, in one process that dies and is started again.  Every evaluation  *)
(* ends in trigger or does nothing; its caller's data decide which, so any  *)
(* reason may be triggered at any time here.  Controls has the conditions.  *)
(*                                                                         *)
(* One action is the code up to the end of a store transaction: reset saves *)
(* its events one by one.                                                  *)
(***************************************************************************)
EXTENDS Integers, Sequences, FiniteSets, Functions

CONSTANTS
    Reasons,       \* KillSwitchReason
    Ids,           \* event ids
    Times,
    MaxFaults,     \* MaxFaults[f]: how often fault f may strike
    NoEvent

FaultKinds == {"crash", "store", "unread"}
Event == [id : Ids, reason : Reasons, triggered_at : Times, is_active : BOOLEAN]

ASSUME KillSwitchAssumption ==
    /\ IsFiniteSet(Ids)
    /\ Times \subseteq Int
    /\ MaxFaults \in [FaultKinds -> Nat]
    /\ NoEvent \notin Event

VARIABLES
    running,       \* a process is there
    active,        \* _active_by_reason
    history,       \* _history
    clearing,      \* the next event reset looks at, 0 outside reset
    kill_rows,     \* kill_switch_events
    budget         \* the faults that may still strike

memoryVars == <<active, history, clearing>>
killVars == <<running, memoryVars, kill_rows, budget>>

NoneActive == [r \in Reasons |-> NoEvent]

\* The types, and what ties the fields together: rows by their primary key,
\* _active_by_reason the active events of _history, at most one per reason.
KillTypeOK ==
    /\ running \in BOOLEAN
    /\ active \in [Reasons -> Event \cup {NoEvent}]
    /\ history \in Seq(Event)
    /\ clearing \in 0 .. Len(history) + 1
    /\ kill_rows \in [Ids -> Event \cup {NoEvent}]
    /\ budget \in [FaultKinds -> Nat]
    /\ \A f \in FaultKinds : budget[f] <= MaxFaults[f]
    /\ \A id \in Ids : kill_rows[id] # NoEvent => kill_rows[id].id = id
    /\ \A r \in Reasons : active[r] # NoEvent =>
        active[r].reason = r /\ \E i \in DOMAIN history : history[i] = active[r]
    /\ \A i \in DOMAIN history : history[i].is_active => active[history[i].reason] = history[i]

KillInit ==
    /\ running = TRUE
    /\ active = NoneActive
    /\ history = <<>>
    /\ clearing = 0
    /\ kill_rows = [id \in Ids |-> NoEvent]
    /\ budget = MaxFaults

Strike(f) == budget[f] > 0 /\ budget' = [budget EXCEPT ![f] = @ - 1]
NeverStruck(f) == budget[f] = MaxFaults[f]

can_submit_orders == active = NoneActive

\* A call can be made: the process has one thread.
Called == running /\ clearing = 0

-----------------------------------------------------------------------------
Fresh == {id \in Ids : kill_rows[id] = NoEvent /\ \A i \in DOMAIN history : history[i].id # id}

\* save_kill_switch_event: one transaction, by primary key.
Save(event) ==
    /\ kill_rows' = [kill_rows EXCEPT ![event.id] = event]
    /\ UNCHANGED budget

SaveFails == Strike("store") /\ UNCHANGED kill_rows

\* Mutant: the reason may be active already.
TriggerAgain(reason, at) ==
    /\ Called
    /\ Fresh # {}
    /\ LET event == [id |-> CHOOSE id \in Fresh : TRUE, reason |-> reason,
                     triggered_at |-> at, is_active |-> TRUE]
       IN  /\ active' = [active EXCEPT ![reason] = event]
           /\ history' = Append(history, event)
           /\ Save(event) \/ SaveFails
    /\ UNCHANGED <<running, clearing>>

\* trigger for a reason that is not active yet; for one that is, nothing changes.
\* When the save fails the event stays in memory and the caller gets the error.
Trigger(reason, at) ==
    /\ Called
    /\ active[reason] = NoEvent
    /\ Fresh # {}
    /\ LET event == [id |-> CHOOSE id \in Fresh : TRUE, reason |-> reason,
                     triggered_at |-> at, is_active |-> TRUE]
       IN  /\ active' = [active EXCEPT ![reason] = event]
           /\ history' = Append(history, event)
           /\ Save(event) \/ SaveFails
    /\ UNCHANGED <<running, clearing>>

\* Mutant: memory is cleared before the events are saved.
ResetMemoryFirst ==
    /\ Called
    /\ ~can_submit_orders
    /\ clearing' = 1
    /\ active' = NoneActive
    /\ UNCHANGED <<running, history, kill_rows, budget>>

Reset ==
    /\ Called
    /\ ~can_submit_orders
    /\ clearing' = 1
    /\ UNCHANGED <<running, active, history, kill_rows, budget>>

Cleared(event) == [event EXCEPT !.is_active = FALSE]
IsCleared(event) == active[event.reason] # NoEvent /\ event.is_active

\* Mutant: an event that could not be saved is passed over.
ClearNextBestEffort ==
    /\ clearing \in DOMAIN history
    /\ \/ IsCleared(history[clearing]) /\ Save(Cleared(history[clearing]))
       \/ IsCleared(history[clearing]) /\ SaveFails
       \/ ~IsCleared(history[clearing]) /\ UNCHANGED <<kill_rows, budget>>
    /\ clearing' = clearing + 1
    /\ UNCHANGED <<running, active, history>>

\* The body of reset's loop.  A failed save ends it, with nothing lifted in memory.
ClearNext ==
    /\ clearing \in DOMAIN history
    /\ \/ /\ IsCleared(history[clearing])
          /\ Save(Cleared(history[clearing]))
          /\ clearing' = clearing + 1
       \/ /\ IsCleared(history[clearing])
          /\ SaveFails
          /\ clearing' = 0
       \/ /\ ~IsCleared(history[clearing])
          /\ clearing' = clearing + 1
          /\ UNCHANGED <<kill_rows, budget>>
    /\ UNCHANGED <<running, active, history>>

FinishReset ==
    /\ clearing = Len(history) + 1
    /\ history' = [i \in DOMAIN history |->
                     IF IsCleared(history[i]) THEN Cleared(history[i]) ELSE history[i]]
    /\ active' = NoneActive
    /\ clearing' = 0
    /\ UNCHANGED <<running, kill_rows, budget>>

-----------------------------------------------------------------------------
Crash ==
    /\ running
    /\ Strike("crash")
    /\ running' = FALSE
    /\ active' = NoneActive
    /\ history' = <<>>
    /\ clearing' = 0
    /\ UNCHANGED kill_rows

ActiveRows == {id \in Ids : kill_rows[id] # NoEvent /\ kill_rows[id].is_active}

\* The rows hydration keeps: for each reason a newest one (of equal ones the first
\* that is read).
Kept(ids) ==
    /\ \A id \in ids, other \in ActiveRows : kill_rows[id].reason = kill_rows[other].reason =>
        kill_rows[id].triggered_at >= kill_rows[other].triggered_at
    /\ \A id, other \in ids : kill_rows[id].reason = kill_rows[other].reason => id = other
    /\ \A other \in ActiveRows : \E id \in ids : kill_rows[id].reason = kill_rows[other].reason

\* _hydrate_from_store.  The history has the kept events in the order of their times.
Start ==
    /\ ~running
    /\ running' = TRUE
    /\ \E ids \in SUBSET ActiveRows :
        /\ Kept(ids)
        /\ active' = [r \in Reasons |->
                        IF \E id \in ids : kill_rows[id].reason = r
                        THEN kill_rows[CHOOSE id \in ids : kill_rows[id].reason = r]
                        ELSE NoEvent]
        /\ \E h \in Bijection(1 .. Cardinality(ids), ids) :
            /\ \A i, j \in DOMAIN h :
                i < j => kill_rows[h[i]].triggered_at <= kill_rows[h[j]].triggered_at
            /\ history' = [i \in 1 .. Cardinality(ids) |-> kill_rows[h[i]]]
    /\ UNCHANGED <<clearing, kill_rows, budget>>

\* active_kill_switch_events answers an OperationalError with an empty list.
StartUnread ==
    /\ ~running
    /\ Strike("unread")
    /\ running' = TRUE
    /\ UNCHANGED <<memoryVars, kill_rows>>

KillNext ==
    \/ \E r \in Reasons, at \in Times : Trigger(r, at)
    \/ Reset
    \/ ClearNext
    \/ FinishReset
    \/ Crash
    \/ Start
    \/ StartUnread

KillSpec == KillInit /\ [][KillNext]_killVars

-----------------------------------------------------------------------------
(* Properties.                                                             *)

\* What is active in memory is lifted by the death of the process or by the end of
\* a reset that has stored every active event of the history as cleared; nothing
\* of it is lifted by a reset that fails half-way.  (reset, trigger.)
LiftedOnlyByReset ==
    [][\A r \in Reasons : active[r] # NoEvent /\ active'[r] = NoEvent =>
        \/ ~running'
        \/ /\ active' = NoneActive
           /\ \A s \in Reasons : active[s] # NoEvent =>
                kill_rows[active[s].id] = Cleared(active[s])]_killVars

\* A process whose starts have all read the store knows every active row as the
\* active event of its reason: no row is shadowed by a newer one, none outlives a
\* reset.
RowsAreKnown ==
    running /\ NeverStruck("unread") =>
        \A id \in ActiveRows : active[kill_rows[id].reason] = kill_rows[id]

\* As long as no write failed, what is active in memory is active in the store,
\* outside of a reset: a crash at any moment then loses no trip.
TripsAreStored ==
    Called /\ NeverStruck("store") =>
        \A r \in Reasons : active[r] # NoEvent => kill_rows[active[r].id] = active[r]

\* Memory and store agree on what is active, through crashes and resets that fail
\* half-way, as long as the store was read at every start and every save succeeded;
\* each direction needs only one of the two.  (trigger, reset, _hydrate_from_store.)
StoreAndMemoryAgree == RowsAreKnown /\ TripsAreStored

\* What the store has as active is active in every running process, until reset:
\* after a trip orders stop until somebody resets by hand.
ManualResetNeeded ==
    running => \A id \in ActiveRows : active[kill_rows[id].reason] # NoEvent
=============================================================================
