--------------------------- MODULE MCServiceOrder ---------------------------
(* ServiceOrder on small instances: two orders with one task each, or one    *)
(* order with two tasks; one or two ODTs.                                    *)
EXTENDS ServiceOrder, TLC

CONSTANTS o1, o2, k1, k2, r1, r2, tec1, tec2

MCTaskApart      == (k1 :> o1) @@ (k2 :> o2)
MCTaskTogether   == (k1 :> o1) @@ (k2 :> o1)
MCOneRequest     == r1 :> o1
MCTwoRequests    == (r1 :> o1) @@ (r2 :> o1)
=============================================================================
