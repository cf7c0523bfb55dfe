------------------------- MODULE MCOrderStateMachine -------------------------
(* TLC instance of OrderStateMachine: one order; intents of two lots, of a    *)
(* lot and a quarter and of less than half a lot; fills of a quarter, a half  *)
(* and a whole lot and of less than nothing; three times: fills can be        *)
(* partial, complete and too large, can be rounded either way, and calls can  *)
(* come out of order.                                                         *)
EXTENDS OrderStateMachine, TLC

CONSTANTS i1, i2, i3

MCFillQuantities == {-4, 1, 2, 4}
MCQuantity == (i1 :> 8) @@ (i2 :> 5) @@ (i3 :> 1)
=============================================================================
