----------------------------- MODULE MCUpbitLive -----------------------------
(* TLC instances of UpbitLive.  Two local orders and one intent are what it   *)
(* takes to submit an intent again after a restart; a quantity of two lots    *)
(* is what it takes to fill an order in parts.  The runs differ in the faults *)
(* that may strike.                                                           *)
EXTENDS UpbitLive, FiniteSets, TLC

NoFaults == [f \in FaultKinds |-> 0]
Once(kinds) == [f \in FaultKinds |-> IF f \in kinds THEN 1 ELSE 0]
NobodyElse == Once(FaultKinds \ {"external"})
Others == Once({"external", "ahead"})
Network == Once({"network"})

\* At most so many faults of different kinds in one behaviour.
FaultsInOneRun == 3
FewFaults == Cardinality({f \in FaultKinds : budget[f] < MaxFaults[f]}) <= FaultsInOneRun

Symmetry == Permutations(Orders) \cup Permutations(Intents)
=============================================================================
