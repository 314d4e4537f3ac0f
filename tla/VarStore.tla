------------------------------ MODULE VarStore ------------------------------
(***************************************************************************)
(* Who owns the value of a variable.  Variables of by-reference types hold *)
(* pointers: to flat values, to expanded arrays, to expanded records.      *)
(* Assignments (common/upl_exec.c, and the helpers of compiled code in     *)
(* common/upl_runtime.c) copy a value, take it over or let an expression   *)
(* change it in place, and free what the variable held.                    *)
(*                                                                         *)
(* One activation of a function with a block that has exception handlers   *)
(* and, in it, a plain block.  A variable is declared in the outermost     *)
(* block ("outer"), by the block with handlers ("block") or by the plain   *)
(* block ("inner").  A value is 0 or 1, Junk once its memory was spoilt.   *)
(***************************************************************************)
EXTENDS Integers, FiniteSets, FiniteSetsExt, Functions, TLC

CONSTANTS Vars,      \* numbers of the variables
          Type,      \* types they may have
          atomic,    \* estate->atomic: no COMMIT in this activation
          MaxHeap    \* objects allocated at a time

VARIABLES
  decl,      \* declaration of each variable: type, scope, NOT NULL, row type
  site,      \* where control is
  heap,      \* the objects that exist
  var,       \* what each variable holds
  meaning    \* the value each variable has for the program (auxiliary)

vars == <<decl, site, heap, var, meaning>>

Junk == 2
None == 0                          \* no object, no variable
NullValue == 3                     \* meaning of a NULL
RowType == {"T", "U"}

(* An object: a flat value or an expanded one, the memory it is in         *)
(* ("datum": the activation's, "eval": the evaluation's, "caller"), its    *)
(* value, whether that is, or a field of it is, a TOAST pointer; for a     *)
(* composite value its row type and whether a tuple is at hand             *)
(* (ER_FLAG_FVALUE_VALID).  maker (auxiliary): "value", or who left it     *)
(* behind, a "promise" or a "bare" call, one in no allocation scope.       *)
Object(exp, ctx, val, toast, typ, tuple) ==
  [exp |-> exp, ctx |-> ctx, val |-> val, toast |-> toast, typ |-> typ, tuple |-> tuple,
   maker |-> "value"]
Flat(ctx, val) == Object(FALSE, ctx, val, FALSE, "T", FALSE)

(* A Datum: the object, and for an expanded one if the pointer is R/W.     *)
NullDatum == [obj |-> None, rw |-> FALSE]
(* UPLpgSQL_var and UPLpgSQL_rec.                                          *)
NullVar == [obj |-> None, rw |-> FALSE, freeval |-> FALSE, promise |-> FALSE]

Simple(x) == decl[x].type # "record"
Promised(x) == decl[x].type \in {"promise", "argv"}
Visible(x) == \/ decl[x].scope = "outer"
              \/ decl[x].scope = "block" /\ site \in {"block", "inner", "handler"}
              \/ decl[x].scope = "inner" /\ site = "inner"

-----------------------------------------------------------------------------
(* Memory.  The operators work on st = [h: the heap, v: the variables].    *)
St == [h |-> heap, v |-> var]

(* An object nobody refers to.                                             *)
NewObj(st) ==
  CHOOSE i \in 1 .. MaxHeap + 5 : i \notin DOMAIN st.h /\ \A x \in Vars : st.v[x].obj # i
Alloc(st, o) == [st EXCEPT !.h = (NewObj(st) :> o) @@ st.h]
Free(st, i) == [st EXCEPT !.h = Restrict(st.h, DOMAIN st.h \ {i})]
IsRW(st, d) == d.obj # None /\ d.rw /\ st.h[d.obj].exp

(* ResetExprContext.                                                       *)
exec_eval_cleanup(st) ==
  [st EXCEPT !.h = Restrict(st.h, {i \in DOMAIN st.h : st.h[i].ctx # "eval"})]

(* datumCopy to the current context: expanded objects become flat.         *)
datumCopy(st, d, ctx) ==
  Alloc(st, [st.h[d.obj] EXCEPT !.exp = FALSE, !.ctx = ctx, !.maker = "value"])

(* TransferExpandedObject: the object stays, its memory changes hands.     *)
TransferExpandedObject(st, i, ctx) == [st EXCEPT !.h[i].ctx = ctx]

(* assign_simple_var: detoast outside atomic contexts, free the old value. *)
assign_simple_var(st, x, d, freeable) ==
  LET toasted == ~atomic /\ d.obj # None /\ ~st.h[d.obj].exp /\ st.h[d.obj].toast
      n  == NewObj(st)
      s1 == IF ~toasted THEN st
            ELSE LET s == Alloc(st, [st.h[d.obj] EXCEPT !.toast = FALSE, !.ctx = "datum"])
                 IN  IF freeable THEN Free(s, d.obj) ELSE s
      s2 == IF st.v[x].freeval THEN Free(s1, st.v[x].obj) ELSE s1
  IN  [s2 EXCEPT !.v[x] = [obj |-> IF toasted THEN n ELSE d.obj, rw |-> d.rw,
                           freeval |-> freeable \/ toasted, promise |-> FALSE]]

(* uplpgsql_fulfill_promise: the value is made when it is first read, in   *)
(* the activation's memory, with all it takes to make it: TG_ARGV ("argv") *)
(* leaves the elements of the array there, the others nothing.  TG_ARGV of *)
(* a trigger with no arguments is NULL.                                    *)
uplpgsql_fulfill_promise(st, x) ==
  LET s == Alloc(st, Flat("datum", 0))
      t == IF decl[x].type = "argv" THEN Alloc(s, [Flat("datum", 0) EXCEPT !.maker = "promise"]) ELSE s
  IN  IF ~st.v[x].promise THEN st
      ELSE IF meaning[x] = NullValue THEN assign_simple_var(st, x, NullDatum, FALSE)
      ELSE assign_simple_var(t, x, [obj |-> NewObj(st), rw |-> FALSE], TRUE)

-----------------------------------------------------------------------------
(* Records.                                                                *)

(* Mutant: the record the variable held is not freed.                      *)
assign_record_var_keep(st, x, i) ==
  [TransferExpandedObject(st, i, "datum") EXCEPT !.v[x].obj = i, !.v[x].rw = TRUE, !.v[x].freeval = TRUE]

(* assign_record_var: the new record moves to the activation's memory.     *)
assign_record_var(st, x, i) ==
  LET s == TransferExpandedObject(st, i, "datum")
      t == IF st.v[x].obj # None THEN Free(s, st.v[x].obj) ELSE s
  IN  [t EXCEPT !.v[x].obj = i, !.v[x].rw = TRUE, !.v[x].freeval = TRUE]

(* exec_move_row with no tuple: the variable becomes NULL (composite       *)
(* domains, which may not be NULL, are left out).                          *)
exec_move_row_null(st, x) ==
  LET s == IF st.v[x].obj # None THEN Free(st, st.v[x].obj) ELSE st
  IN  [s EXCEPT !.v[x] = NullVar]

(* make_expanded_record_for_rec: the row type of the variable, or of the   *)
(* source if it was declared RECORD; in the evaluation's memory.           *)
RecType(x, e) == IF decl[x].rectype = "RECORD" THEN e.typ ELSE decl[x].rectype
make_expanded_record_for_rec(st, x, e) ==
  Alloc(st, Object(TRUE, "eval", e.val, e.toast /\ atomic, RecType(x, e), e.tuple /\ RecType(x, e) = e.typ))

(* expanded_record_set_tuple on the record the variable has.               *)
expanded_record_set_tuple(st, x, e) ==
  [st EXCEPT !.h[st.v[x].obj].val = e.val, !.h[st.v[x].obj].tuple = TRUE,
             !.h[st.v[x].obj].toast = e.toast /\ atomic]

(* Must the fields be cast one by one?  T and U differ in their fields.    *)
NeedsCast(x, e) == decl[x].rectype \notin {"RECORD", e.typ}

(* exec_move_row_from_datum: nothing for the same record; take over a R/W  *)
(* one; put the tuple into the record there is; else make a new record.    *)
exec_move_row_from_datum(st, x, d) ==
  LET e == st.h[d.obj]
      i == st.v[x].obj
  IN  IF e.exp /\ d.obj = i THEN st
      ELSE IF IsRW(st, d) /\ ~NeedsCast(x, e) THEN assign_record_var(st, x, d.obj)
      ELSE IF i # None /\ (e.exp => e.tuple) /\ e.typ = st.h[i].typ THEN expanded_record_set_tuple(st, x, e)
      ELSE assign_record_var(make_expanded_record_for_rec(st, x, e), x, NewObj(st))

-----------------------------------------------------------------------------
(* exec_assign_value to a simple variable: an array is kept expanded, a    *)
(* R/W expanded value is taken over, anything else copied.                 *)
assign_value_simple(st, x, d) ==
  IF d.obj = None THEN assign_simple_var(st, x, NullDatum, FALSE)
  ELSE LET new == [obj |-> IF IsRW(st, d) THEN d.obj ELSE NewObj(st), rw |-> TRUE]
           s == IF IsRW(st, d) THEN TransferExpandedObject(st, d.obj, "datum")
                ELSE IF decl[x].type = "array"
                THEN Alloc(st, [st.h[d.obj] EXCEPT !.exp = TRUE, !.ctx = "datum", !.toast = FALSE])
                ELSE datumCopy(st, d, "datum")
       IN  IF st.v[x].obj = new.obj THEN [s EXCEPT !.v[x].promise = FALSE]
           ELSE assign_simple_var(s, x, new, TRUE)

exec_assign_value(st, x, d) ==
  IF Simple(x) THEN assign_value_simple(st, x, d)
  ELSE IF d.obj = None THEN exec_move_row_null(st, x)
  ELSE exec_move_row_from_datum(st, x, d)

(* The errors of exec_assign_value: NULL for a NOT NULL variable.          *)
NotNullError(x, d) == d.obj = None /\ decl[x].notnull

-----------------------------------------------------------------------------
(* Expressions.                                                            *)

(* Mutant: a variable counts as local whatever block declares it.          *)
mark_expr_all(x) == TRUE

(* uplpgsql_mark_local_assignment_targets, mark_stmt, mark_expr: nobody    *)
(* can look at the variable once the evaluation has failed.  Nothing is    *)
(* local to a block with handlers, its own variables included.             *)
mark_expr(x) == \/ site = "outer" /\ decl[x].scope = "outer"
                \/ site = "inner" /\ decl[x].scope = "inner"

(* exec_check_rw_parameter: how the expression gets the R/W value of its   *)
(* own target.  trusted: the support function of the expression's function *)
(* says that it changes its argument only once nothing can fail.           *)
exec_check_rw_parameter(x, refs, trusted) ==
  IF mark_expr(x) /\ refs = 1 THEN "transfer"
  ELSE IF trusted THEN "inplace" ELSE "nope"

(* exec_eval_datum: a record that was only instantiated is a NULL.         *)
exec_eval_datum(st, y) ==
  LET v == st.v[y]
  IN  IF v.obj # None /\ st.h[v.obj].val = NullValue THEN NullDatum ELSE [obj |-> v.obj, rw |-> v.rw]

(* uplpgsql_param_eval_var_check and _transfer, _var, _var_ro, _generic_ro:*)
(* the value of parameter y of an assignment to x.                         *)
param_eval(st, x, y, refs, trusted) ==
  LET s   == uplpgsql_fulfill_promise(st, y)
      d   == exec_eval_datum(s, y)
      opt == exec_check_rw_parameter(x, refs, trusted)
  IN  IF ~(x = y /\ Simple(y) /\ IsRW(s, d)) \/ opt = "nope"
      THEN [st |-> s, d |-> [d EXCEPT !.rw = FALSE]]
      ELSE IF opt = "inplace" THEN [st |-> s, d |-> d]
      ELSE [st |-> [TransferExpandedObject(s, d.obj, "eval") EXCEPT !.v[y] = NullVar], d |-> d]

Flip(val) == IF val = Junk THEN Junk ELSE 1 - val

(* What a function may do with its argument d (external): return it,       *)
(* change it (in place when the pointer is R/W, else a copy), return       *)
(* something new, return NULL, or fail: one that is not trusted with the   *)
(* argument half changed.  f: the form of a new result.                    *)
Result(f, val) == Object(f.exp, "eval", val, f.toast, f.typ, ~f.exp)
NewResult(st, f, val) ==
  [st |-> Alloc(st, Result(f, val)), d |-> [obj |-> NewObj(st), rw |-> TRUE]]
Apply(st, d, trusted, out, f) ==
  CASE out = "same"   -> [st |-> st, d |-> d]
    [] out = "modify" -> IF IsRW(st, d)
                         THEN [st |-> [st EXCEPT !.h[d.obj].val = Flip(@)], d |-> d]
                         ELSE NewResult(st, [f EXCEPT !.typ = st.h[d.obj].typ], Flip(st.h[d.obj].val))
    [] out = "fresh"  -> IF IsRW(st, d) /\ st.h[d.obj].ctx = "eval"
                         THEN NewResult(Free(st, d.obj), f, 0)
                         ELSE NewResult(st, f, 0)
    [] out = "null"   -> [st |-> st, d |-> NullDatum]
    [] out = "fail"   -> [st |-> IF IsRW(st, d) /\ ~trusted THEN [st EXCEPT !.h[d.obj].val = Junk] ELSE st,
                          d |-> NullDatum]

Outcome == {"same", "modify", "fresh", "null", "fail"}
(* Forms of a new result for a variable x.  Expanded arrays have no TOAST  *)
(* pointers; the fields of an expanded record may, when the function that  *)
(* returns it is atomic.                                                   *)
FlatForm == [exp |-> FALSE, toast |-> FALSE, typ |-> "T"]
Forms(x, out) ==
  IF out # "fresh" THEN {FlatForm}
  ELSE {f \in [exp : BOOLEAN, toast : BOOLEAN, typ : RowType] :
          /\ f.toast /\ f.exp => ~Simple(x)
          /\ decl[x].type = "text" \/ Promised(x) => ~f.exp
          /\ Simple(x) => f.typ = "T"}
Kind(x) == IF decl[x].type \in {"array", "native"} THEN "array"
           ELSE IF decl[x].type = "record" THEN "record" ELSE "text"

(* The value the program means the expression to have.                     *)
Meant(y, out) ==
  IF out = "null" \/ (y # None /\ meaning[y] = NullValue) THEN NullValue
  ELSE CASE out = "same" -> meaning[y] [] out = "modify" -> 1 - meaning[y] [] OTHER -> 0

-----------------------------------------------------------------------------
(* Control.                                                                *)

Running == {"outer", "block", "inner", "handler"}
Put(st) == \E s \in {st} : heap' = s.h /\ var' = s.v

(* An error: caught by the block with handlers if control is inside it,    *)
(* with the evaluation's memory reset; else the activation ends.           *)
Caught == IF site \in {"block", "inner"} THEN "handler" ELSE "done"
Throw(st) ==
  /\ Put(exec_eval_cleanup(st))
  /\ site' = Caught
  /\ UNCHANGED <<decl, meaning>>

(* An argument: a flat value of the caller, a R/O pointer to an expanded   *)
(* value of the caller, or one that was handed over.                       *)
StoreSimpleArg(st, x, d) ==
  LET s == assign_simple_var(st, x, d, FALSE)
      e == s.h[s.v[x].obj]
  IN  IF d.obj = None THEN s
      ELSE IF IsRW(s, d) THEN assign_simple_var(TransferExpandedObject(s, d.obj, "datum"), x, d, TRUE)
      ELSE IF e.exp \/ decl[x].type # "array" THEN s
      ELSE assign_simple_var(Alloc(s, [e EXCEPT !.exp = TRUE, !.ctx = "datum", !.toast = FALSE]), x,
                             [obj |-> NewObj(s), rw |-> TRUE], TRUE)

(* uplpgsql_exec_function, exec_function_jit: one argument.                *)
StoreArg(x, rw, null) ==
  /\ site = "call" /\ decl[x].arg /\ meaning[x] = NullValue
  /\ \E f \in Forms(x, "fresh") :
       LET d == IF null THEN NullDatum ELSE [obj |-> NewObj(St), rw |-> rw]
           s == IF null THEN St ELSE Alloc(St, [Result(f, 0) EXCEPT !.ctx = IF rw THEN "eval" ELSE "caller"])
       IN  /\ rw => f.exp
           /\ ~NeedsCast(x, Result(f, 0))
           /\ Put(IF Simple(x) THEN StoreSimpleArg(s, x, d)
                  ELSE exec_eval_cleanup(exec_assign_value(s, x, d)))
  /\ meaning' = [meaning EXCEPT ![x] = IF null THEN NullValue ELSE 0]
  /\ UNCHANGED <<decl, site>>

(* uplpgsql_rt_init_var, and exec_stmt_block's loop: NULL, or the constant *)
(* default a NOT NULL variable must have.  A record with a default is not  *)
(* cleared first.                                                          *)
init_var(x, st) ==
  LET s == IF Simple(x) THEN assign_simple_var(st, x, NullDatum, FALSE)
           ELSE IF decl[x].notnull THEN st ELSE exec_move_row_null(st, x)
      c == NewResult(s, FlatForm, 0)
  IN  IF decl[x].notnull THEN exec_eval_cleanup(exec_assign_value(c.st, x, c.d)) ELSE s

(* Control enters the block that declares the variables of a scope.        *)
Enter(from, scope) ==
  LET xs == {x \in Vars : decl[x].scope = scope /\ ~decl[x].arg /\ ~Promised(x) /\ decl[x].type # "native"}
  IN  /\ site = from
      /\ site' = scope
      /\ Put(FoldSet(init_var, St, xs))
      /\ meaning' = [x \in Vars |-> IF x \notin xs THEN meaning[x]
                                    ELSE IF decl[x].notnull THEN 0 ELSE NullValue]
      /\ UNCHANGED decl

(* The end of a block, or of a handler.                                    *)
Leave(from, to) ==
  /\ site = from
  /\ site' = to
  /\ UNCHANGED <<decl, heap, var, meaning>>

(* COMMIT: a TOAST pointer may have lost what it points to.                *)
exec_stmt_commit ==
  /\ site = "outer" /\ ~atomic
  /\ heap' = [i \in DOMAIN heap |-> IF heap[i].toast /\ heap[i].ctx # "caller"
                                    THEN [heap[i] EXCEPT !.val = Junk] ELSE heap[i]]
  /\ UNCHANGED <<decl, site, var, meaning>>

(* A record taken over with TOAST pointers in it, after such a COMMIT: the *)
(* variable is no NULL, and whoever reads the field gets an error.         *)
Stale(x) ==
  ~Simple(x) /\ var[x].obj # None /\ heap[var[x].obj].toast /\ heap[var[x].obj].val = Junk

-----------------------------------------------------------------------------
(* Interpreted assignments.                                                *)

Usable(x) == Visible(x) /\ decl[x].type # "native"

(* exec_eval_expr: the value of the expression, of which y is an argument. *)
EvalExpr(x, y, refs, trusted, out, f) ==
  LET p == IF y = None THEN [st |-> St, d |-> NullDatum] ELSE param_eval(St, x, y, refs, trusted)
  IN  IF y # None /\ p.d.obj = None THEN [st |-> p.st, d |-> NullDatum]
      ELSE Apply(p.st, p.d, trusted, out, f)

(* The expressions there are.  refs: how often the target is read;         *)
(* castfails: the cast of the result to the variable's type, or of one     *)
(* field, fails.  There is none after a function changed the variable in   *)
(* place, as that function was the top of the expression.                  *)
Expression ==
  {e \in [refs : 1 .. 2, trusted : BOOLEAN, castfails : BOOLEAN, out : Outcome] :
     /\ e.trusted => e.out \in {"modify", "fail"}
     /\ e.castfails => e.out \in {"fresh", "modify"} /\ e.refs = 1}
Plain     == {e \in Expression : e.refs = 1 /\ ~e.trusted}
Dependent == {e \in Plain : e.out \in {"same", "modify"}}
Constant  == Plain \ Dependent

(* The ones an assignment to x may have with argument y.  What the result  *)
(* does not depend on is an argument only if it is a promise or may be     *)
(* handed over R/W: otherwise the outcome is that of no argument.          *)
Expressions(x, y) ==
  CASE y = None -> Constant
    [] x = y /\ Kind(x) = "array" -> Expression
    [] x = y /\ Promised(x) -> Plain
    [] OTHER -> IF Kind(x) = Kind(y) THEN Dependent ELSE {}

(* exec_assign_expr: evaluate, exec_assign_value, exec_eval_cleanup.  The  *)
(* value a failing cast was given does not matter but for its row type.  A *)
(* stale record cannot be copied.                                          *)
exec_assign_expr(x, y) ==
  /\ site \in Running /\ Usable(x) /\ (y # None => Usable(y))
  /\ \E e \in Expressions(x, y) : \E f \in Forms(x, e.out) :
       LET r == EvalExpr(x, y, e.refs, e.trusted, e.out, f)
       IN  /\ e.castfails => /\ ~f.exp /\ ~f.toast
                             /\ r.d.obj \notin {None, var[x].obj}
                             /\ Simple(x) \/ NeedsCast(x, r.st.h[r.d.obj])
           /\ IF \/ e.out = "fail" \/ e.castfails \/ NotNullError(x, r.d)
                 \/ y # None /\ Stale(y) /\ (x = y => e.out = "modify") THEN Throw(r.st)
              ELSE /\ Put(exec_eval_cleanup(exec_assign_value(r.st, x, r.d)))
                   /\ meaning' = [meaning EXCEPT ![x] = Meant(y, e.out)]
                   /\ UNCHANGED <<decl, site>>

(* instantiate_empty_record_variable: a record with no value yet.          *)
instantiate_empty_record_variable(st, x) ==
  [Alloc(st, Object(TRUE, "datum", NullValue, FALSE, decl[x].rectype, FALSE))
     EXCEPT !.v[x].obj = NewObj(st), !.v[x].rw = TRUE, !.v[x].freeval = TRUE]

(* Assignment to a field of a record: a NULL record of a known row type is *)
(* instantiated, one declared RECORD is an error.  The cast of the value   *)
(* may fail after that.  The record loses its tuple; the other fields of a *)
(* stale record are stale still.                                           *)
AssignField(x, castfails) ==
  LET s == IF var[x].obj # None THEN St ELSE instantiate_empty_record_variable(St, x)
      v == IF meaning[x] = 1 THEN 0 ELSE 1
  IN  /\ site \in Running /\ Visible(x) /\ ~Simple(x)
      /\ IF var[x].obj = None /\ decl[x].rectype = "RECORD" THEN Throw(St)
         ELSE IF castfails THEN Throw(s)
         ELSE /\ Put([s EXCEPT !.h[s.v[x].obj].val = IF Stale(x) THEN Junk ELSE v, !.h[s.v[x].obj].tuple = FALSE])
              /\ meaning' = [meaning EXCEPT ![x] = v]
              /\ UNCHANGED <<decl, site>>

(* exec_move_row to a row of two variables (SELECT ... INTO a, b): one     *)
(* after the other, so an error at the second leaves the first assigned.   *)
exec_move_row_from_fields(x, y, castfails) ==
  /\ site \in Running
  /\ x # y /\ Usable(x) /\ Usable(y) /\ Simple(x) /\ Simple(y)
  /\ \E f \in Forms(x, "fresh") \intersect Forms(y, "fresh") :
       LET c1 == NewResult(St, f, 1)
           s1 == exec_assign_value(c1.st, x, c1.d)
           c2 == NewResult(s1, f, 1)
           s2 == exec_assign_value(c2.st, y, c2.d)
       IN  Put(exec_eval_cleanup(IF castfails THEN s1 ELSE s2))
  /\ meaning' = IF castfails THEN [meaning EXCEPT ![x] = 1] ELSE [meaning EXCEPT ![x] = 1, ![y] = 1]
  /\ site' = IF castfails THEN Caught ELSE site
  /\ UNCHANGED decl

-----------------------------------------------------------------------------
(* Compiled assignments and conditions (Tier 2, by-reference types).       *)

(* Mutant: an expression that marshals a native array gets a scope too.    *)
fmgr_expr_wants_alloc_scope_any(y, byref) == byref

(* fmgr_expr_wants_alloc_scope: some call in the tree has a by-reference   *)
(* result (fmgr_expr_allocates), and it reads no whole native array, whose *)
(* Datum must outlive the statement.                                       *)
fmgr_expr_wants_alloc_scope(y, byref) == byref /\ (y # None => decl[y].type # "native")

(* What a compiled call allocates: gone with the scope, if there is one.   *)
ScopeContext(y, byref) == IF fmgr_expr_wants_alloc_scope(y, byref) THEN "eval" ELSE "datum"
Temporary(o, y, byref) ==
  [o EXCEPT !.ctx = ScopeContext(y, byref),
            !.maker = IF fmgr_expr_wants_alloc_scope(y, byref) THEN "value" ELSE "bare"]

(* emit_load_param_datum: the variable as it is; a native array is         *)
(* marshalled into its variable first (uplpgsql_rt_native_array_to_datum). *)
emit_load_param_datum(st, y, ctx) ==
  IF decl[y].type = "native"
  THEN assign_simple_var(Alloc(st, Flat(ctx, meaning[y])), y,
                         [obj |-> NewObj(st), rw |-> FALSE], TRUE)
  ELSE uplpgsql_fulfill_promise(st, y)

(* The value of a compiled expression: a variable or a constant as it is   *)
(* or a call, with a by-reference result like the variable's.              *)
CompiledExpr(y, call, out, f) ==
  LET s == IF y = None THEN St ELSE emit_load_param_datum(St, y, ScopeContext(y, call))
      d == IF y = None THEN NullDatum ELSE [obj |-> s.v[y].obj, rw |-> FALSE]
  IN  IF y # None /\ d.obj = None THEN [st |-> s, d |-> NullDatum]
      ELSE IF out \in {"fresh", "modify"}
      THEN [st |-> Alloc(s, Temporary(Result(f, IF out = "fresh" THEN 0 ELSE Flip(s.h[d.obj].val)), y, call)),
            d |-> [obj |-> NewObj(s), rw |-> FALSE]]
      ELSE Apply(s, d, TRUE, out, f)

(* Which expressions are compiled: a variable, a constant, or a call.      *)
CompiledExpressions(y) ==
  {[call |-> FALSE, out |-> IF y = None THEN "null" ELSE "same"]}
  \union [call : {TRUE}, out : IF y = None THEN {"fresh", "null", "fail"} ELSE Outcome]

(* uplpgsql_rt_copy_assign_var_datum: the variable gets a copy.            *)
uplpgsql_rt_copy_assign_var_datum(st, x, d) ==
  IF d.obj = None THEN assign_simple_var(st, x, NullDatum, FALSE)
  ELSE assign_simple_var(datumCopy(st, d, "datum"), x, [obj |-> NewObj(st), rw |-> FALSE], TRUE)

(* uplpgsql_rt_alloc_scope_exit, if there was a scope.                     *)
alloc_scope_exit(st, y, byref) ==
  IF fmgr_expr_wants_alloc_scope(y, byref) THEN exec_eval_cleanup(st) ELSE st

(* try_compile_assign_fmgr: x := expression.                               *)
CompiledAssign(x, y) ==
  /\ site \in Running
  /\ Visible(x) /\ decl[x].type \in {"text", "array"}
  /\ y # None => Visible(y) /\ Simple(y)
  /\ \E e \in CompiledExpressions(y) :
       /\ e.out \in {"same", "modify"} => Kind(x) = Kind(y)
       /\ \E f \in {f \in Forms(x, e.out) : ~f.exp} :
            LET r == CompiledExpr(y, e.call, e.out, f)
            IN  IF e.out = "fail" THEN Throw(r.st)
                ELSE /\ Put(alloc_scope_exit(uplpgsql_rt_copy_assign_var_datum(r.st, x, r.d), y, e.call))
                     /\ meaning' = [meaning EXCEPT ![x] = Meant(y, e.out)]
                     /\ UNCHANGED <<decl, site>>

(* try_compile_bool, and try_compile_assign to a by-value variable: the    *)
(* result is a boolean, a number.  byref: there is a by-reference result   *)
(* on the way to it.  copies: a function detoasts the value of y for       *)
(* itself and does not free the copy (external).                           *)
CompiledCondition(y, byref, copies, fails) ==
  LET s == emit_load_param_datum(St, y, ScopeContext(y, byref))
      t == IF (byref \/ copies) /\ s.v[y].obj # None
           THEN Alloc(s, Temporary(Flat("eval", 0), y, byref)) ELSE s
  IN  /\ site \in Running
      /\ Visible(y) /\ Simple(y)
      /\ IF fails THEN Throw(t)
         ELSE Put(alloc_scope_exit(t, y, byref)) /\ UNCHANGED <<decl, site, meaning>>

-----------------------------------------------------------------------------
(* The declarations explored.  A NOT NULL variable is a text or a record   *)
(* of the outermost block; native arrays and promises are known to the     *)
(* whole function.  Records are never passed R/W, so that it makes no      *)
(* difference to them which of the two inner blocks declares them.  A      *)
(* record and a simple variable never get a value from each other: the     *)
(* variables are all of one sort or all of the other.                      *)
Decl ==
  {d \in [type : Type, scope : {"outer", "block", "inner"}, notnull : BOOLEAN, arg : BOOLEAN,
          rectype : {"RECORD", "T"}] :
     /\ IF d.type = "record" THEN d.scope # "block" ELSE d.rectype = "T"
     /\ d.notnull \/ d.arg => d.scope = "outer"
     /\ d.notnull => d.type # "array"
     /\ ~(d.notnull /\ d.arg)
     /\ d.type \in {"native", "promise", "argv"} => d.scope = "outer" /\ ~d.notnull /\ ~d.arg}

Init ==
  /\ decl \in [Vars -> Decl]
  /\ \A x, y \in Vars : Simple(x) = Simple(y)
  /\ site = "call"
  /\ heap = << >>
  /\ var = [x \in Vars |-> [NullVar EXCEPT !.promise = Promised(x)]]
  /\ meaning \in [Vars -> {0, NullValue}]
  /\ \A x \in Vars : decl[x].type # "argv" => (meaning[x] = 0 <=> decl[x].type \in {"promise", "native"})

Next ==
  \/ \E x \in Vars, null, rw \in BOOLEAN : StoreArg(x, rw, null)
  \/ Enter("call", "outer") \/ Enter("outer", "block") \/ Enter("block", "inner")
  \/ Leave("inner", "block") \/ Leave("block", "outer") \/ Leave("handler", "outer")
  \/ exec_stmt_commit
  \/ \E x \in Vars, y \in Vars \union {None} : exec_assign_expr(x, y)
  \/ \E x \in Vars, castfails \in BOOLEAN : AssignField(x, castfails)
  \/ \E x, y \in Vars, castfails \in BOOLEAN : exec_move_row_from_fields(x, y, castfails)
  \/ \E x \in Vars, y \in Vars \union {None} : CompiledAssign(x, y)
  \/ \E y \in Vars, byref, copies, fails \in BOOLEAN : CompiledCondition(y, byref, copies, fails)

(* A bound on memory.                                                      *)
Bound == Cardinality(DOMAIN heap) <= MaxHeap

Spec == Init /\ [][Next]_vars

-----------------------------------------------------------------------------
(* Properties.                                                             *)

(* Between statements every variable the program can see has the value it  *)
(* would have if assignment always copied: an error in the middle of an    *)
(* expression that was given the variable to change leaves no trace        *)
(* (exec_check_rw_parameter, mark_expr), no assignment shares an object,   *)
(* and no COMMIT takes the value away (assign_simple_var's detoasting).    *)
(* One value is not kept: a R/W record with TOAST pointers in it is taken  *)
(* over as it is (exec_move_row_from_datum), and COMMIT makes it stale.    *)
ValuesKept ==
  site \in Running =>
    \A x \in Vars :
      Visible(x) /\ decl[x].type # "native" /\ ~var[x].promise =>
        \/ meaning[x] = IF var[x].obj = None THEN NullValue ELSE heap[var[x].obj].val
        \/ Stale(x)

(* Every pointer leads to an object that exists, and an object that will   *)
(* be freed with a variable (freeval) is in the activation's memory and    *)
(* belongs to no other variable: nothing is used after it was freed or     *)
(* freed twice.                                                            *)
PointersOwned ==
  \A x \in Vars : var[x].obj # None =>
    /\ var[x].obj \in DOMAIN heap
    /\ heap[var[x].obj].ctx = IF var[x].freeval THEN "datum" ELSE "caller"
    /\ \A y \in Vars \ {x} : var[x].freeval => var[y].obj # var[x].obj

(* Between statements the activation's memory holds the values of the      *)
(* variables: what an evaluation, an assignment or an allocation scope     *)
(* made is gone.  Two things stay until the function returns, by design:   *)
(* what compiled calls allocate outside a scope, and what making a promise *)
(* true leaves, which happens once for a promise ("at most once per        *)
(* function call", uplpgsql_fulfill_promise).                              *)
NothingLeaks ==
  /\ \A i \in DOMAIN heap :
       \/ heap[i].ctx = "caller"
       \/ \E x \in Vars : var[x].freeval /\ var[x].obj = i
       \/ heap[i].ctx = "datum" /\ heap[i].maker \in {"promise", "bare"}
  /\ Cardinality({i \in DOMAIN heap : heap[i].maker = "promise"})
       <= Cardinality({x \in Vars : decl[x].type = "argv"})
=============================================================================
