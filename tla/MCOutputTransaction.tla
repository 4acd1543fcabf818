--------------------------- MODULE MCOutputTransaction ---------------------------
(* Instances of OutputTransaction for TLC: two transactions that race for  *)
(* one destination, or run beside each other for two.                      *)
EXTENDS OutputTransaction

CONSTANTS w1, w2, p1, p2

MCPlans == {[w \in Writers |-> p1], [w \in Writers |-> IF w = w1 THEN p1 ELSE p2]}
=============================================================================
