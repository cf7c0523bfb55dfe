---------------------------- MODULE Reconciliation ----------------------------
(***************************************************************************)
(* PortfolioReconciler.reconcile (quant_os/reconciliation/service.py).  A   *)
(* side is a record of cash, positions, orders and fills: the local         *)
(* portfolio with the adapter's orders and fills, or a snapshot of the      *)
(* account.  A fill stands for its key.  An issue is its code; there is one *)
(* currency, and one order type.                                            *)
(***************************************************************************)
EXTENDS PortfolioAnalytics, OrderStatuses

CONSTANTS cash_tolerance, position_tolerance

ASSUME ToleranceAssumption == cash_tolerance \in Nat /\ position_tolerance \in Nat

ClosedStatuses == {"FILLED", "CANCELLED", "CANCELLED_PARTIAL", "EXPIRED",
                   "BROKER_REJECTED", "PRECHECK_REJECTED", "BUSTED"}

\* Mutant: withdrawals go unnoticed.
DepositMade(local, external) == external.cash - local.cash > cash_tolerance

CashDiffers(local, external) == Magnitude(local.cash - external.cash) > cash_tolerance

PositionsDiffer(local, external) ==
    \E s \in Symbols :
        Magnitude(Get(local.positions, s) - Get(external.positions, s)) > position_tolerance

\* The caller gives the open ones of a side's orders.
OpenOrders(orders) ==
    [o \in {p \in DOMAIN orders : orders[p].status \notin ClosedStatuses} |-> orders[o]]

\* What an order is compared by: a price is not part of it.
_order_key(order) ==
    <<order.broker_order_id, order.terms.symbol, order.terms.side, order.status,
      order.terms.quantity, order.filled_quantity>>

\* The orders sorted by key: how often each key occurs.
_normalize_orders(orders) ==
    LET Keyed(k) == {o \in DOMAIN orders : _order_key(orders[o]) = k}
    IN  [k \in {_order_key(orders[o]) : o \in DOMAIN orders} |-> Cardinality(Keyed(k))]

\* Mutant: what the account no longer shows is not looked for.
NoneMissing(local, external) == {}

MissingFills(local, external) == local.fills \ external.fills

\* The codes of the issues; the sides match when there is none.
reconcile(local, external) ==
    {code \in {"cash_balance_mismatch", "position_quantity_mismatch", "open_order_mismatch",
               "unknown_external_fill", "missing_external_fill"} :
        \/ code = "cash_balance_mismatch" /\ CashDiffers(local, external)
        \/ code = "position_quantity_mismatch" /\ PositionsDiffer(local, external)
        \/ /\ code = "open_order_mismatch"
           /\ _normalize_orders(OpenOrders(local.orders)) # _normalize_orders(OpenOrders(external.orders))
        \/ code = "unknown_external_fill" /\ external.fills \ local.fills # {}
        \/ code = "missing_external_fill" /\ MissingFills(local, external) # {}}
=============================================================================
