------------------------------ MODULE MCControls ------------------------------
EXTENDS Controls

CONSTANTS e1, e2, e3

AllReasons == {"daily_loss_limit", "unexpected_exposure", "stale_market_data",
               "reconciliation_failure", "event_write_failure", "duplicate_intent",
               "reject_rate_spike", "unknown_open_order"}
FaultsOnce == [f \in FaultKinds |-> 1]
TheTerms == [o \in Orders |->
    [symbol |-> "A", side |-> IF o = 2 THEN "SELL" ELSE "BUY", quantity |-> IF o = 1 THEN 2 ELSE 1,
     price |-> 10]]
TheMoves == {[cash |-> m[1], positions |-> [s \in Symbols |-> m[2]]] :
                m \in {<<-10, 0>>, <<9, 0>>, <<9, 1>>}}
ThePrices == {[s \in Symbols |-> p] : p \in {5, 10}}

\* The crashes, the faults and the resets on a quiet account, with two of the reasons
\* that do not depend on it; the trading without faults, with one trip and its reset.
Quiet ==
    /\ DOMAIN account.orders = {} /\ DOMAIN local.orders = {} /\ outside = Flat
    /\ \A i \in DOMAIN history : history[i].reason \in {"event_write_failure", "stale_market_data"}
Steady ==
    /\ \A f \in FaultKinds : NeverStruck(f)
    /\ Len(history) <= 1
    /\ \A i \in DOMAIN history :
        /\ history[i].triggered_at = 1
        /\ history[i].reason \notin {"event_write_failure", "duplicate_intent", "stale_market_data"}
Families == Quiet \/ Steady
=============================================================================
