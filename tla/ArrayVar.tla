------------------------------ MODULE ArrayVar ------------------------------
(***************************************************************************)
(* What a PL/pgSQL program may expect of an array variable: one value,     *)
(* which statements assign, extend and read.  A statement that raises      *)
(* leaves the value alone.                                                 *)
(***************************************************************************)
EXTENDS PgArray

VARIABLES value,   \* the variable
          stmt,    \* the last statement that used it
          out      \* what that statement delivered

Assigned(s) ==
  CASE s.op = "assign" -> s.arr
    [] s.op = "fill"   -> array_fill(s.v, s.i, s.arr.lb)
    [] s.op = "append" -> array_append(value, s.v)
    [] s.op = "set"    -> IF s.i = NULL THEN Failure ELSE array_set_element(value, s.i, s.v)
    [] OTHER           -> value

Delivered(s) ==
  CASE Assigned(s) = Failure -> <<"error">>
    [] s.op = "get"  -> <<"elem", IF s.i = NULL THEN NULL ELSE array_get_element(value, s.i)>>
    [] s.op = "read" -> <<"array", value>>
    [] OTHER         -> <<"none">>

Init == stmt = [op |-> "none", arr |-> NullArray, i |-> NULL, v |-> NULL] /\ out = <<"none">>

Step(s) ==
  /\ stmt' = s
  /\ value' = IF Assigned(s) = Failure THEN value ELSE Assigned(s)
  /\ out' = Delivered(s)

Next == Step(stmt')

Spec == Init /\ [][Next]_<<value, stmt, out>>
=============================================================================
