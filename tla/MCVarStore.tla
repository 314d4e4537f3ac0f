----------------------------- MODULE MCVarStore -----------------------------
(***************************************************************************)
(* Two variables of every combination of types, scopes and declarations,   *)
(* in an activation that may commit.  Neither the two variables nor the    *)
(* objects have an identity: states that differ only in how those are      *)
(* numbered are one state (View).                                          *)
(***************************************************************************)
EXTENDS VarStore

(* Objects nobody holds, which are never looked at again.  What the caller *)
(* owns and what bare calls left may be there or not.                      *)
Unheld == {i \in DOMAIN heap : /\ \A x \in Vars : var[x].obj # i
                               /\ heap[i].ctx # "caller"
                               /\ ~(heap[i].ctx = "datum" /\ heap[i].maker = "bare")}

Held(x) == IF var[x].obj \in DOMAIN heap THEN {heap[var[x].obj]} ELSE {}

View ==
  <<site,
    {<<decl[x], meaning[x], [var[x] EXCEPT !.obj = <<@ = None, Held(x)>>]>> : x \in Vars},
    \E x, y \in Vars : x # y /\ var[x].obj # None /\ var[x].obj = var[y].obj,
    {heap[i].maker : i \in Unheld}, Cardinality(Unheld)>>
=============================================================================
