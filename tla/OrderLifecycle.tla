---------------------------- MODULE OrderLifecycle ----------------------------
(***************************************************************************)
(* The life of an order as everything above the execution layer sees it.   *)
(* Abstract: it says which phases follow each other and when the filled    *)
(* quantity may grow, and nothing about events, times or broker ids.       *)
(***************************************************************************)
EXTENDS Integers

CONSTANTS
    Orders,
    Quantities     \* the quantities an order can have, positive integers

VARIABLES
    phase,         \* phase[o]: where order o is in its life
    filled,        \* filled[o]: how much of it was executed
    quantity    \* quantity[o]: its quantity, fixed when it is prepared

lifeVars == <<phase, filled, quantity>>

Init ==
    /\ phase = [o \in Orders |-> "absent"]
    /\ filled = [o \in Orders |-> 0]
    /\ quantity = [o \in Orders |-> 0]

\* An order is prepared once, with a quantity of its own.
Prepare(o) ==
    /\ phase[o] = "absent"
    /\ phase' = [phase EXCEPT ![o] = "preparing"]
    /\ \E q \in Quantities : quantity' = [quantity EXCEPT ![o] = q]
    /\ UNCHANGED filled

\* It moves on, never back into preparation and never out of "done" (executed)
\* or "closed" (refused, cancelled, expired, written off); an order whose
\* outcome is unknown can only be written off, by hand.
Successors ==
    [absent |-> {}, preparing |-> {"sending", "closed"},
     sending |-> {"open", "limbo", "closed"},
     open |-> {"done", "cancelling", "limbo", "closed"},
     cancelling |-> {"limbo", "closed"}, limbo |-> {"closed"},
     done |-> {}, closed |-> {}]

Advance(o) ==
    /\ \E p \in Successors[phase[o]] : phase' = [phase EXCEPT ![o] = p]
    /\ UNCHANGED <<filled, quantity>>

\* Executions are booked while the order is open, or late once it is done, and
\* never beyond its quantity.
Execute(o) ==
    /\ phase[o] \in {"open", "done"}
    /\ \E q \in filled[o] + 1 .. quantity[o] : filled' = [filled EXCEPT ![o] = q]
    /\ UNCHANGED <<phase, quantity>>

Next == \E o \in Orders : Prepare(o) \/ Advance(o) \/ Execute(o)

Spec == Init /\ [][Next]_lifeVars
=============================================================================
