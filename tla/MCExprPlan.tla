----------------------------- MODULE MCExprPlan -----------------------------
(* Two activations, two transactions, one exception block at a time.       *)
EXTENDS ExprPlan
=============================================================================
