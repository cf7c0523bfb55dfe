---------------------------- MODULE OrderStatuses ----------------------------
(***************************************************************************)
(* The statuses of an order and the moves between them that the execution  *)
(* state machine allows (quant_os/execution/state_machine.py).  The module *)
(* has no state: every module that follows an order's life uses it.        *)
(***************************************************************************)

OrderStatus ==
    {"PLANNED", "PRECHECK_REJECTED", "APPROVED", "SUBMITTING", "ACKNOWLEDGED",
     "WORKING", "PARTIALLY_FILLED", "FILLED", "CANCEL_REQUESTED", "CANCELLED",
     "CANCELLED_PARTIAL", "EXPIRED", "BROKER_REJECTED", "RECONCILE_PENDING",
     "MANUAL_INTERVENTION", "BUSTED"}

ALLOWED_TRANSITIONS ==
    [s \in OrderStatus |->
        CASE s = "PLANNED"      -> {"PRECHECK_REJECTED", "APPROVED"}
          [] s = "APPROVED"     -> {"SUBMITTING"}
          [] s = "SUBMITTING"   -> {"ACKNOWLEDGED", "BROKER_REJECTED", "RECONCILE_PENDING"}
          [] s = "ACKNOWLEDGED" -> {"WORKING", "PARTIALLY_FILLED", "FILLED",
                                    "CANCEL_REQUESTED", "RECONCILE_PENDING"}
          [] s = "WORKING"      -> {"PARTIALLY_FILLED", "FILLED", "CANCEL_REQUESTED",
                                    "EXPIRED", "BROKER_REJECTED", "RECONCILE_PENDING"}
          [] s = "PARTIALLY_FILLED" -> {"FILLED", "CANCEL_REQUESTED", "CANCELLED_PARTIAL",
                                        "EXPIRED", "RECONCILE_PENDING"}
          [] s = "CANCEL_REQUESTED" -> {"CANCELLED", "CANCELLED_PARTIAL", "RECONCILE_PENDING"}
          [] s = "RECONCILE_PENDING"   -> {"MANUAL_INTERVENTION", "BUSTED"}
          [] s = "MANUAL_INTERVENTION" -> {"BUSTED"}
          [] OTHER -> {}]

\* The statuses record_fill accepts.
FillableStatuses == {"ACKNOWLEDGED", "WORKING", "PARTIALLY_FILLED", "FILLED"}

\* The statuses no transition leaves.
TerminalStatuses == {s \in OrderStatus : ALLOWED_TRANSITIONS[s] = {}}
=============================================================================
