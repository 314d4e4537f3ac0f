----------------------------- MODULE NativeExpr -----------------------------
(***************************************************************************)
(* How a statement's expression is compiled and what the compiled code     *)
(* computes.  The compiler tries three tiers: native instructions (Tier    *)
(* 1), direct calls of built-in functions (Tier 2), and the interpreter.   *)
(* Each tier has its own treatment of NULL and of errors; PostgreSQL's     *)
(* (the operators Pg...) is the reference.                                 *)
(*                                                                         *)
(* A behaviour compiles one statement and runs it in one environment.      *)
(* Integers have Bits4 and Bits8 bits instead of 32 and 64; a float is a   *)
(* multiple of 1/2 of magnitude at most FloatMax/2, an infinity or NaN.    *)
(***************************************************************************)
EXTENDS Integers, Sequences

CONSTANTS Bits4, Bits8,  \* widths of int4 and int8
          FloatMax,      \* the largest finite float, in halves
          Cases,         \* statements to compile, with environments to run them in
          MaxIter        \* iterations after which a loop is taken to be endless

VARIABLES stmt,     \* the statement
          env,      \* its variables and the array a
          tier,     \* what the compiler made of it
          result    \* what running it delivered

vars == <<stmt, env, tier, result>>

ASSUME WidthAssumption == Bits4 \in Nat \ {0, 1} /\ Bits8 \in Nat /\ Bits8 >= Bits4
ASSUME RangeAssumption == FloatMax \in Nat \ {0} /\ MaxIter \in Nat

(* An outcome: a value, NULL with the bits of its Datum, or an error.  An  *)
(* element store also delivers the subscript.                              *)
Val(d)  == [tag |-> "val", v |-> d, i |-> 0]
Null(d) == [tag |-> "null", v |-> d, i |-> 0]
Err(t)  == [tag |-> t, v |-> 0, i |-> 0]
IsErr(r) == r.tag \notin {"val", "null"}
Bit(b) == IF b THEN 1 ELSE 0

(* Expression nodes.  cls is the type: INT4, INT8, FLOAT8, BOOL or another.*)
Node(node, fn, cls, x, v, args) ==
  [node |-> node, fn |-> fn, cls |-> cls, x |-> x, v |-> v, args |-> args]
Const(cls, v)      == Node("Const", "", cls, "", v, <<>>)
NullConst(cls)     == Node("Const", "null", cls, "", 0, <<>>)
Var(cls, x)        == Node("Var", "", cls, x, 0, <<>>)
Op(fn, cls, args)  == Node("Op", fn, cls, "", 0, args)
Func(fn, cls, a)   == Node("Func", fn, cls, "", 0, a)
Bool(fn, args)     == Node("Bool", fn, "BOOL", "", 0, args)
Elem(cls, x, idx)  == Node("Elem", "", cls, x, 0, <<idx>>)
Sublink(cls)       == Node("Sublink", "", cls, "", 0, <<>>)

RECURSIVE Subexpressions(_)
Subexpressions(e) == {e} \union UNION {Subexpressions(e.args[k]) : k \in DOMAIN e.args}

Arith   == {"pl", "mi", "mul", "div"}
Compare == {"eq", "ne", "lt", "le", "gt", "ge"}
IntCls     == {"INT4", "INT8"}

(* Built-in functions with polymorphic arguments, functions that are not   *)
(* built in, and functions that are called on NULL arguments too.          *)
Polymorphic == {"array_length"}
UserDefined == {"my_function"}
NonStrict   == {"quote_nullable"}
Volatile    == {"nextval"}

-----------------------------------------------------------------------------
(* Machine arithmetic: what LLVM's instructions compute (external).        *)

Width(cls) == IF cls = "INT4" THEN Bits4 ELSE Bits8
MinOf(cls) == -(2 ^ (Width(cls) - 1))
MaxOf(cls) == 2 ^ (Width(cls) - 1) - 1
Trunc(v, cls) == ((v - MinOf(cls)) % (2 ^ Width(cls))) + MinOf(cls)
Abs(v)  == IF v < 0 THEN -v ELSE v
Sign(v) == IF v < 0 THEN -1 ELSE IF v > 0 THEN 1 ELSE 0
Quot(l, r) == Sign(l) * Sign(r) * (Abs(l) \div Abs(r))
Rem(l, r)  == l - r * Quot(l, r)
Exact(fn, l, r) == CASE fn = "pl" -> l + r [] fn = "mi" -> l - r [] fn = "mul" -> l * r

(* Floats are encoded as integers in PostgreSQL's order: -Infinity, the    *)
(* finite values, Infinity, NaN.                                           *)
Inf == FloatMax + 1
NaN == FloatMax + 2
IsNaN(f) == f = NaN
IsInf(f) == f \in {Inf, -Inf}
Finite(f) == Abs(f) <= FloatMax
Round(f) == IF f > FloatMax THEN Inf ELSE IF f < -FloatMax THEN -Inf ELSE f
FNeg(f) == IF IsNaN(f) THEN f ELSE -f
FAdd(l, r) == IF IsNaN(l) \/ IsNaN(r) \/ (IsInf(l) /\ r = -l) THEN NaN
              ELSE IF IsInf(l) THEN l ELSE IF IsInf(r) THEN r ELSE Round(l + r)
FMul(l, r) == IF IsNaN(l) \/ IsNaN(r) \/ (IsInf(l) /\ r = 0) \/ (l = 0 /\ IsInf(r)) THEN NaN
              ELSE IF IsInf(l) \/ IsInf(r) THEN Sign(l) * Sign(r) * Inf
              ELSE Round(Quot(l * r, 2))
FDiv(l, r) == IF IsNaN(l) \/ IsNaN(r) \/ (IsInf(l) /\ IsInf(r)) \/ (l = 0 /\ r = 0) THEN NaN
              ELSE IF IsInf(l) THEN Sign(l) * (IF r < 0 THEN -1 ELSE 1) * Inf
              ELSE IF r = 0 THEN Sign(l) * Inf
              ELSE IF IsInf(r) THEN 0 ELSE Round(Quot(2 * l, r))
Ordered(fn, l, r) == CASE fn = "eq" -> l = r [] fn = "ne" -> l # r [] fn = "lt" -> l < r
                       [] fn = "le" -> l <= r [] fn = "gt" -> l > r [] fn = "ge" -> l >= r

-----------------------------------------------------------------------------
(* The operators of Tier 1.                                                *)

emit_int_arith_checked(fn, cls, l, r) ==
  LET exact == Exact(fn, l, r)
  IN  IF Trunc(exact, cls) # exact THEN Err("overflow") ELSE Val(exact)

(* Mutant: MIN / -1 is not told apart.                                     *)
emit_int_divmod_wraps(fn, cls, l, r) ==
  IF r = 0 THEN Err("division_by_zero")
  ELSE IF fn = "div" THEN Val(Trunc(Quot(l, r), cls))
  ELSE Val(IF r = -1 THEN 0 ELSE Rem(l, r))

emit_int_divmod(fn, cls, l, r) ==
  IF r = 0 THEN Err("division_by_zero")
  ELSE IF fn = "div"
       THEN IF l = MinOf(cls) /\ r = -1 THEN Err("overflow") ELSE Val(Quot(l, r))
       ELSE Val(IF r = -1 THEN 0 ELSE Rem(l, r))

emit_int_negate(cls, a) == IF a = MinOf(cls) THEN Err("overflow") ELSE Val(-a)
emit_int_abs(cls, a)    == IF a = MinOf(cls) THEN Err("overflow") ELSE Val(IF a >= 0 THEN a ELSE -a)

emit_float_addsub(fn, l, r) ==
  LET sum == IF fn = "pl" THEN FAdd(l, r) ELSE FAdd(l, FNeg(r))
  IN  IF IsInf(sum) /\ ~IsInf(l) /\ ~IsInf(r) THEN Err("float_overflow") ELSE Val(sum)

emit_float_mul(l, r) ==
  LET product == FMul(l, r)
  IN  IF IsInf(product) /\ ~IsInf(l) /\ ~IsInf(r) THEN Err("float_overflow")
      ELSE IF product = 0 /\ l # 0 /\ r # 0 THEN Err("float_underflow")
      ELSE Val(product)

emit_float_div(l, r) ==
  LET quotient == FDiv(l, r)
  IN  IF r = 0 /\ ~IsNaN(l) THEN Err("division_by_zero")
      ELSE IF IsInf(quotient) /\ ~IsInf(l) THEN Err("float_overflow")
      ELSE IF quotient = 0 /\ l # 0 /\ ~IsInf(r) THEN Err("float_underflow")
      ELSE Val(quotient)

(* LLVM's ordered predicates are false when an operand is NaN.             *)
FCmp(fn, l, r) == ~IsNaN(l) /\ ~IsNaN(r) /\ Ordered(fn, l, r)

emit_float_cmp(fn, l, r) ==
  CASE fn = "eq" -> IF IsNaN(l) THEN IsNaN(r) ELSE ~IsNaN(r) /\ FCmp("eq", l, r)
    [] fn = "ne" -> IF IsNaN(l) THEN ~IsNaN(r) ELSE IsNaN(r) \/ FCmp("ne", l, r)
    [] fn = "lt" -> ~IsNaN(l) /\ (IsNaN(r) \/ FCmp("lt", l, r))
    [] fn = "le" -> IsNaN(r) \/ (~IsNaN(l) /\ FCmp("le", l, r))
    [] fn = "gt" -> ~IsNaN(r) /\ (IsNaN(l) \/ FCmp("gt", l, r))
    [] fn = "ge" -> IsNaN(l) \/ (~IsNaN(r) /\ FCmp("ge", l, r))

(* Library functions of one float argument.  The values they return play   *)
(* no role, only where PostgreSQL raises and the instruction does not.     *)
MathIntrinsic(fn, f) ==
  CASE fn = "sqrt"  -> IF IsNaN(f) \/ f < 0 THEN NaN ELSE f
    [] fn = "floor" -> IF IsNaN(f) \/ IsInf(f) THEN f ELSE 2 * (f \div 2)

-----------------------------------------------------------------------------
(* PostgreSQL's functions and its expression evaluation (the reference).   *)

PgInt(fn, cls, l, r) ==
  IF fn \in {"div", "mod"} /\ r = 0 THEN Err("division_by_zero")
  ELSE LET exact == CASE fn = "div" -> Quot(l, r) [] fn = "mod" -> Rem(l, r)
                      [] fn = "um" -> -l [] fn = "abs" -> Abs(l) [] OTHER -> Exact(fn, l, r)
       IN  IF exact \in MinOf(cls) .. MaxOf(cls) THEN Val(exact) ELSE Err("overflow")

(* A finite operation whose exact result is too large raises, and one      *)
(* whose exact result is not zero but rounds to zero raises.               *)
PgFloat(fn, l, r) ==
  CASE fn = "um"    -> Val(FNeg(l))
    [] fn = "abs"   -> Val(IF IsNaN(l) THEN l ELSE Abs(l))
    [] fn = "sqrt"  -> IF ~IsNaN(l) /\ l < 0 THEN Err("invalid_argument") ELSE Val(l)
    [] fn = "floor" -> Val(IF Finite(l) THEN 2 * (l \div 2) ELSE l)
    [] fn = "div" /\ r = 0 /\ ~IsNaN(l) -> Err("division_by_zero")
    [] OTHER ->
       LET v == CASE fn = "pl" -> FAdd(l, r) [] fn = "mi" -> FAdd(l, FNeg(r))
                  [] fn = "mul" -> FMul(l, r) [] fn = "div" -> FDiv(l, r)
           finite == Finite(l) /\ Finite(r)
           exact  == CASE fn = "pl" -> l + r [] fn = "mi" -> l - r
                       [] fn = "mul" -> l * r [] fn = "div" -> l
       IN  IF finite /\ IsInf(v) THEN Err("float_overflow")
           ELSE IF finite /\ exact # 0 /\ v = 0 /\ fn \in {"mul", "div"} THEN Err("float_underflow")
           ELSE Val(v)

(* The value of function fn, of result type cls, for argument values d.    *)
PgCall(fn, cls, argcls, d) ==
  CASE fn \in Compare -> Val(Bit(Ordered(fn, d[1], d[Len(d)])))
    [] fn = "to_float8" -> Val(Round(2 * d[1]))
    [] fn \in Polymorphic \union UserDefined \union Volatile \union NonStrict -> Val(d[1])
    [] cls = "FLOAT8" -> PgFloat(fn, d[1], d[Len(d)])
    [] OTHER -> PgInt(fn, cls, d[1], d[Len(d)])

array_get_element(e, k) ==
  LET a == env.arr
  IN  IF k \notin a.lb .. a.lb + a.len - 1 \/ a.nulls[k - a.lb + 1] THEN Null(0)
      ELSE Val(a.cells[k - a.lb + 1])

FirstErr(rs) == rs[CHOOSE k \in DOMAIN rs : IsErr(rs[k]) /\ \A j \in 1 .. k - 1 : ~IsErr(rs[j])]
SomeErr(rs)  == \E k \in DOMAIN rs : IsErr(rs[k])
SomeNull(rs) == \E k \in DOMAIN rs : rs[k].tag = "null"
(* What a function is given: one that takes NULLs looks at the flag and    *)
(* not at the bits.                                                        *)
Values(rs) == [k \in DOMAIN rs |-> IF rs[k].tag = "null" THEN 0 ELSE rs[k].v]

(* The connectives stop at the first argument that settles them.           *)
RECURSIVE PgBool(_, _)
PgBool(settles, rs) ==
  IF rs = <<>> THEN Val(1 - settles)
  ELSE IF IsErr(rs[1]) \/ (rs[1].tag = "val" /\ rs[1].v = settles) THEN rs[1]
  ELSE LET rest == PgBool(settles, Tail(rs))
       IN  IF rs[1].tag = "null" /\ rest = Val(1 - settles) THEN Null(0) ELSE rest

RECURSIVE PgEval(_)
PgEval(e) ==
  LET rs == [k \in DOMAIN e.args |-> PgEval(e.args[k])]
  IN  CASE e.node = "Const"   -> IF e.fn = "null" THEN Null(0) ELSE Val(e.v)
        [] e.node = "Sublink" -> Val(1)
        [] e.node = "Var"     -> IF env.var[e.x].null THEN Null(0) ELSE Val(env.var[e.x].v)
        [] e.node = "Relabel" -> rs[1]
        [] e.node = "Bool" /\ e.fn = "not" -> IF rs[1].tag = "val" THEN Val(1 - rs[1].v) ELSE rs[1]
        [] e.node = "Bool" /\ e.fn = "and" -> PgBool(0, rs)
        [] e.node = "Bool" /\ e.fn = "or"  -> PgBool(1, rs)
        [] e.node = "Elem" -> IF rs[1].tag # "val" THEN rs[1] ELSE array_get_element(e, rs[1].v)
        [] e.node \in {"Op", "Func"} ->
             IF SomeErr(rs) THEN FirstErr(rs)
             ELSE IF SomeNull(rs) /\ e.fn \notin NonStrict THEN Null(0)
             ELSE PgCall(e.fn, e.cls, e.args[1].cls, Values(rs))

(* FOR i IN [REVERSE] lower .. upper BY step: how often the body runs, and *)
(* the last value of i.                                                    *)
PgFor(s) ==
  IF s.step <= 0 THEN Err("invalid_step")
  ELSE LET span == IF s.reverse THEN s.lower - s.upper ELSE s.upper - s.lower
           n    == IF span < 0 THEN 0 ELSE span \div s.step + 1
           way  == IF s.reverse THEN -1 ELSE 1
       IN  [Val(n) EXCEPT !.i = IF n = 0 THEN 0 ELSE s.lower + way * (n - 1) * s.step]

-----------------------------------------------------------------------------
(* Tier 1.                                                                 *)

NativeCls == {"INT4", "INT8", "FLOAT8", "BOOL"}

(* classify_expr on operators and on functions, from the classes of their  *)
(* arguments.  int4 and int8 mix, except under %.                          *)
classify_op(e, cls) ==
  LET All(c) == \A k \in DOMAIN cls : cls[k] = c
      Ints == \A k \in DOMAIN cls : cls[k] \in IntCls
  IN  IF e.fn \in Arith \union {"mod", "um"} /\ e.cls \in NativeCls
           /\ (All(e.cls) \/ (Ints /\ e.cls = "INT8" /\ e.fn \in Arith)) THEN e.cls
      ELSE IF e.fn \in Compare
           /\ (All("FLOAT8") \/ Ints \/ (All("BOOL") /\ e.fn \in {"eq", "ne"})) THEN "BOOL"
      ELSE "UNKNOWN"

classify_func(e, cls) ==
  IF e.fn = "abs" /\ e.cls = cls[1] THEN e.cls
  ELSE IF e.fn \in {"sqrt", "floor"} /\ cls[1] = "FLOAT8" THEN "FLOAT8"
  ELSE IF e.fn = "to_float8" /\ (cls[1] \in IntCls \/ e.args[1].cls = "FLOAT4") THEN "FLOAT8"
  ELSE "UNKNOWN"

(* classify_expr: the native class of an expression, or UNKNOWN.           *)
RECURSIVE uplpgsql_classify_expr(_)
uplpgsql_classify_expr(e) ==
  LET cls == [k \in DOMAIN e.args |-> uplpgsql_classify_expr(e.args[k])]
  IN  CASE e.node = "Const" /\ e.fn # "null" /\ e.cls \in NativeCls -> e.cls
        [] e.node = "Var" /\ e.cls \in NativeCls -> e.cls
        [] e.node = "Relabel" -> cls[1]
        [] e.node = "Elem" /\ cls[1] = "INT4" /\ e.cls \in NativeCls -> e.cls
        [] e.node = "Op" -> classify_op(e, cls)
        [] e.node = "Func" -> classify_func(e, cls)
        [] OTHER -> "UNKNOWN"

(* Variable slots: the Datum, and the flag that says NULL.  The number of  *)
(* a record's field is fixed when the loop that fills the record is        *)
(* compiled; where its values are at hand the field is read by that number *)
(* (inlined), and otherwise by name.  A field is never taken to be NULL.   *)
emit_load_param_datum(x)  == IF env.var[x].inlined THEN env.var[x].at_number ELSE env.var[x].v
emit_load_param_isnull(x) == ~env.var[x].field /\ env.var[x].null

(* compile_expr_datum: the value, computed whatever is NULL.               *)
compile_op(e, l, r) ==
  CASE e.fn = "um" -> IF e.cls = "FLOAT8" THEN Val(FNeg(l)) ELSE emit_int_negate(e.cls, l)
    [] e.cls = "FLOAT8" /\ e.fn \in {"pl", "mi"} -> emit_float_addsub(e.fn, l, r)
    [] e.cls = "FLOAT8" /\ e.fn = "mul" -> emit_float_mul(l, r)
    [] e.cls = "FLOAT8" /\ e.fn = "div" -> emit_float_div(l, r)
    [] e.fn \in {"div", "mod"} -> emit_int_divmod(e.fn, e.cls, l, r)
    [] OTHER -> emit_int_arith_checked(e.fn, e.cls, l, r)

compile_func(e, l) ==
  CASE e.fn = "to_float8" -> Val(Round(2 * l))
    [] e.fn = "abs" /\ e.cls = "FLOAT8" -> Val(IF FCmp("ge", l, 0) THEN l ELSE FNeg(l))
    [] e.fn = "abs" -> emit_int_abs(e.cls, l)
    [] OTHER -> Val(MathIntrinsic(e.fn, l))

(* Elements of a native array are loaded without a range check.            *)
compile_element(e, k) ==
  LET i0 == k - env.arr.lb + 1
  IN  IF ~env.arr.native THEN Val(array_get_element(e, k).v)
      ELSE IF i0 \in 1 .. env.arr.len THEN Val(env.arr.cells[i0]) ELSE Err("wild_load")

RECURSIVE uplpgsql_compile_expr_datum(_)
uplpgsql_compile_expr_datum(e) ==
  LET rs == [k \in DOMAIN e.args |-> uplpgsql_compile_expr_datum(e.args[k])]
  IN  CASE e.node = "Const" -> Val(e.v)
        [] e.node = "Var" -> Val(IF e.cls = "INT4" THEN Trunc(emit_load_param_datum(e.x), "INT4")
                                 ELSE emit_load_param_datum(e.x))
        [] SomeErr(rs) -> FirstErr(rs)
        [] e.node = "Relabel" -> rs[1]
        [] e.node = "Elem" -> compile_element(e, rs[1].v)
        [] e.node = "Func" -> compile_func(e, rs[1].v)
        [] e.node = "Op" -> compile_op(e, rs[1].v, rs[Len(rs)].v)

(* compile_expr_bool: comparisons.                                         *)
RECURSIVE uplpgsql_compile_expr_bool(_)
uplpgsql_compile_expr_bool(e) ==
  IF e.node \in {"Const", "Var"}
  THEN Val(IF e.node = "Const" THEN e.v ELSE emit_load_param_datum(e.x))
  ELSE LET bools == e.args[1].cls = "BOOL"
           rs == [k \in DOMAIN e.args |-> IF bools THEN uplpgsql_compile_expr_bool(e.args[k])
                                          ELSE uplpgsql_compile_expr_datum(e.args[k])]
       IN  IF SomeErr(rs) THEN FirstErr(rs)
           ELSE IF e.args[1].cls = "FLOAT8" THEN Val(Bit(emit_float_cmp(e.fn, rs[1].v, rs[2].v)))
           ELSE Val(Bit(Ordered(e.fn, rs[1].v, rs[2].v)))

(* The range test of a subscript.                                          *)
Outside(k) == env.arr.len < 0 \/ k < env.arr.lb \/ k > env.arr.lb + env.arr.len - 1

(* The NULL flag of element k.  The load is guarded by the existence of    *)
(* the flags and not by the range of k: beyond is what is found outside,   *)
(* or that the load fails.                                                 *)
emit_native_array_elem_isnull(k) ==
  IF \A j \in DOMAIN env.arr.nulls : ~env.arr.nulls[j] THEN Val(0)
  ELSE IF Outside(k) THEN env.arr.beyond
  ELSE Val(Bit(env.arr.nulls[k - env.arr.lb + 1]))

(* tier1_expr_any_null: 1 if some leaf is NULL.  A subscript is computed,  *)
(* without a test of its own leaves, to look at the element.               *)
element_any_null(e, idx_null) ==
  LET idx  == uplpgsql_compile_expr_datum(e.args[1])
      flag == IF env.arr.native THEN emit_native_array_elem_isnull(idx.v)
              ELSE Val(Bit(array_get_element(e, idx.v).tag = "null"))
  IN  IF IsErr(idx) THEN idx
      ELSE IF IsErr(flag) THEN flag
      ELSE Val(Bit(idx_null \/ Outside(idx.v) \/ flag.v = 1))

RECURSIVE tier1_expr_any_null(_)
tier1_expr_any_null(e) ==
  LET rs == [k \in DOMAIN e.args |-> tier1_expr_any_null(e.args[k])]
      some == \E k \in DOMAIN rs : rs[k].v = 1
  IN  CASE e.node = "Const" -> Val(0)
        [] e.node = "Var" -> Val(Bit(emit_load_param_isnull(e.x)))
        [] SomeErr(rs) -> FirstErr(rs)
        [] e.node = "Elem" -> element_any_null(e, some)
        [] OTHER -> Val(Bit(some))

(* Mutant: the value is computed first and dropped when a leaf is NULL.    *)
tier1_compile_value_first(e) ==
  LET any_null == tier1_expr_any_null(e)
      value == IF e.cls = "BOOL" THEN uplpgsql_compile_expr_bool(e) ELSE uplpgsql_compile_expr_datum(e)
  IN  IF IsErr(any_null) THEN any_null
      ELSE IF IsErr(value) THEN value
      ELSE IF any_null.v = 1 THEN Null(0) ELSE value

(* tier1_compile_value_guarded, and the same branch of an assignment: the  *)
(* value is computed only if no leaf is NULL.                              *)
tier1_compile_value_guarded(e) ==
  LET any_null == tier1_expr_any_null(e)
  IN  IF IsErr(any_null) THEN any_null
      ELSE IF any_null.v = 1 THEN Null(0)
      ELSE IF e.cls = "BOOL" THEN uplpgsql_compile_expr_bool(e) ELSE uplpgsql_compile_expr_datum(e)

(* Expressions classify_expr admits and the emitters then give up on: the  *)
(* whole function stays with the interpreter.                              *)
RECURSIVE Unhandled(_)
Unhandled(e) ==
  \/ e.node \in {"Elem", "Relabel"} /\ e.cls = "BOOL"
  \/ e.node = "Func" /\ e.fn = "to_float8" /\ e.args[1].cls = "FLOAT4"
  \/ \E k \in DOMAIN e.args : Unhandled(e.args[k])

-----------------------------------------------------------------------------
(* Tier 2.                                                                 *)

RECURSIVE uplpgsql_can_fmgr_compile(_)
uplpgsql_can_fmgr_compile(e) ==
  /\ e.node \in {"Const", "Var", "Relabel", "Op", "Func", "Bool"}
  /\ e.fn \notin UserDefined
  /\ \A k \in DOMAIN e.args : uplpgsql_can_fmgr_compile(e.args[k])

(* compile_expr_fmgr_full returns nothing when it meets a polymorphic      *)
(* function.                                                               *)
RECURSIVE Bails(_)
Bails(e) == e.fn \in Polymorphic \/ \E k \in DOMAIN e.args : Bails(e.args[k])

(* Calls whose code has been emitted by then, and stays.                   *)
RECURSIVE Emitted(_)
Emitted(e) ==
  IF ~Bails(e) THEN <<e>>
  ELSE IF e.fn \in Polymorphic THEN <<>>
  ELSE LET k == CHOOSE k \in DOMAIN e.args : Bails(e.args[k]) /\ \A j \in 1 .. k - 1 : ~Bails(e.args[j])
       IN  SubSeq(e.args, 1, k - 1) \o Emitted(e.args[k])

(* Mutant: three-valued logic forgotten, any NULL argument makes the       *)
(* connective NULL.                                                        *)
fmgr_bool_strict(is_and, rs) ==
  LET value == Bit(IF is_and THEN \A k \in DOMAIN rs : rs[k].v = 1 ELSE \E k \in DOMAIN rs : rs[k].v = 1)
  IN  IF SomeNull(rs) THEN Null(value) ELSE Val(value)

(* AND and OR: every argument has been evaluated; NULL unless one settles. *)
fmgr_bool(is_and, rs) ==
  LET value == Bit(IF is_and THEN \A k \in DOMAIN rs : rs[k].v = 1 ELSE \E k \in DOMAIN rs : rs[k].v = 1)
      decided == \E k \in DOMAIN rs : rs[k] = Val(Bit(~is_and))
  IN  IF SomeNull(rs) /\ ~decided THEN Null(value) ELSE Val(value)

(* Leaves: the Datum and the NULL flag of a variable or a constant.        *)
fmgr_load_arg(e) ==
  IF e.node = "Const" THEN IF e.fn = "null" THEN Null(0) ELSE Val(e.v)
  ELSE IF emit_load_param_isnull(e.x) THEN Null(emit_load_param_datum(e.x))
  ELSE Val(emit_load_param_datum(e.x))

(* A strict function is not called if one of its arguments is NULL.        *)
fmgr_call(e, rs) ==
  IF SomeNull(rs) /\ e.fn \notin NonStrict THEN Null(0)
  ELSE PgCall(e.fn, e.cls, e.args[1].cls, Values(rs))

RECURSIVE uplpgsql_compile_expr_fmgr_full(_)
uplpgsql_compile_expr_fmgr_full(e) ==
  LET rs == [k \in DOMAIN e.args |-> uplpgsql_compile_expr_fmgr_full(e.args[k])]
  IN  CASE e.node \in {"Const", "Var"} -> fmgr_load_arg(e)
        [] SomeErr(rs) -> FirstErr(rs)
        [] e.node = "Relabel" -> rs[1]
        [] e.node = "Bool" /\ e.fn = "not" -> [rs[1] EXCEPT !.v = 1 - rs[1].v]
        [] e.node = "Bool" -> fmgr_bool(e.fn = "and", rs)
        [] OTHER -> fmgr_call(e, rs)

-----------------------------------------------------------------------------
(* Compiling a statement.                                                  *)

oid_to_type_class(cls) == IF cls \in {"INT4", "INT8", "FLOAT8"} THEN cls ELSE "UNKNOWN"

(* prepare_and_get_expr: only a single simple expression has a tree the    *)
(* compiler can look at.                                                   *)
prepare_and_get_expr(e) == \A sub \in Subexpressions(e) : sub.node # "Sublink"

(* The tier of expression e in a place that takes native class want.       *)
Tier(e, want) ==
  IF ~prepare_and_get_expr(e) THEN "interpreter"
  ELSE IF uplpgsql_classify_expr(e) # "UNKNOWN" /\ uplpgsql_classify_expr(e) = want
       THEN IF Unhandled(e) THEN "refused" ELSE "native"
  ELSE IF uplpgsql_can_fmgr_compile(e) /\ ~Bails(e) THEN "fmgr"
  ELSE "interpreter"

uplpgsql_try_compile_assign(s) == s.kind = "assign" /\ tier' = Tier(s.e, oid_to_type_class(s.e.cls))
uplpgsql_try_compile_bool(s)   == s.kind = "cond" /\ tier' = Tier(s.e, "BOOL")

(* a[i] := e, a native: the subscript must be native, the value native or  *)
(* a direct call.                                                          *)
uplpgsql_compile_element_set(s) ==
  /\ s.kind = "set"
  /\ tier' = IF uplpgsql_classify_expr(s.idx) # "INT4" THEN "interpreter"
             ELSE Tier(s.e, uplpgsql_classify_expr(s.e))

upl_emit_fori(s) == s.kind = "fori" /\ tier' = "native"

-----------------------------------------------------------------------------
(* Running it.                                                             *)

AsCondition(r) == IF r.tag = "null" THEN Val(0) ELSE r
AsValue(r)     == IF r.tag = "null" THEN Null(0) ELSE r

(* The value by the tier chosen.  Code of calls emitted before Tier 2 gave *)
(* up runs before the interpreter evaluates the expression.                *)
ValueBy(t, e) ==
  LET before == IF t = "interpreter" /\ prepare_and_get_expr(e) /\ uplpgsql_can_fmgr_compile(e)
                THEN [k \in DOMAIN Emitted(e) |-> uplpgsql_compile_expr_fmgr_full(Emitted(e)[k])]
                ELSE <<>>
  IN  CASE t = "native" -> tier1_compile_value_guarded(e)
        [] t = "fmgr" -> uplpgsql_compile_expr_fmgr_full(e)
        [] SomeErr(before) -> FirstErr(before)
        [] OTHER -> PgEval(e)

(* An element store: subscript, its NULL test, then the value.             *)
SetOutcome(idx, value) ==
  IF IsErr(idx) THEN idx
  ELSE IF idx.tag = "null" THEN Err("subscript_null")
  ELSE IF IsErr(value) THEN value ELSE [AsValue(value) EXCEPT !.i = idx.v]

emit_set_subscript_null_check(idx) == tier1_compile_value_guarded(idx)

(* The next value has gone round the end of the integers.                  *)
Wrapped(s, cur, next) == IF s.reverse THEN next > cur ELSE next < cur

(* The loop of upl_emit_fori with the loop variable at cur and n           *)
(* iterations done.                                                        *)
RECURSIVE ForFrom(_, _, _)
ForFrom(s, cur, n) ==
  LET next == Trunc(IF s.reverse THEN cur - s.step ELSE cur + s.step, "INT4")
      beyond(k) == IF s.reverse THEN k < s.upper ELSE k > s.upper
  IN  IF beyond(cur) THEN Val(0)
      ELSE IF n >= MaxIter THEN Err("endless")
      ELSE IF Wrapped(s, cur, next) \/ beyond(next) THEN [Val(n + 1) EXCEPT !.i = cur]
      ELSE ForFrom(s, next, n + 1)

Outcome(s, t) ==
  CASE s.kind = "assign" -> AsValue(ValueBy(t, s.e))
    [] s.kind = "cond"   -> AsCondition(ValueBy(t, s.e))
    [] s.kind = "set"    -> SetOutcome(IF t \in {"native", "fmgr"} THEN emit_set_subscript_null_check(s.idx)
                                       ELSE PgEval(s.idx), ValueBy(t, s.e))
    [] s.kind = "fori"   -> IF t = "native" THEN ForFrom(s, s.lower, 0) ELSE PgFor(s)

Reference(s) == Outcome(s, "reference")

-----------------------------------------------------------------------------
NoResult == Err("none")

Init ==
  /\ \E c \in Cases : stmt \in c.stmts /\ env \in c.envs
  /\ tier = "none" /\ result = NoResult

Compile ==
  /\ tier = "none"
  /\ \/ uplpgsql_try_compile_assign(stmt)
     \/ uplpgsql_try_compile_bool(stmt)
     \/ uplpgsql_compile_element_set(stmt)
     \/ upl_emit_fori(stmt)
  /\ UNCHANGED <<stmt, env, result>>

Run ==
  /\ tier # "none" /\ result = NoResult
  /\ result' = Outcome(stmt, tier)
  /\ UNCHANGED <<stmt, env, tier>>

Next == Compile \/ Run

Spec == Init /\ [][Next]_vars

-----------------------------------------------------------------------------
Done == result # NoResult

Expressions(s) == IF s.kind = "fori" THEN {}
                  ELSE Subexpressions(s.e) \union IF s.kind = "set" THEN Subexpressions(s.idx) ELSE {}

(* The statement reads a record's field that is NULL, or that is not where *)
(* it was when the number was fixed: the record has been given another row *)
(* type since.  Compiled code has no test for either                       *)
(* (upl_compile_expr.c:353, :481).                                         *)
ReadsUntestedField(s) ==
  \E e \in Expressions(s) :
    /\ e.node = "Var" /\ env.var[e.x].field
    /\ env.var[e.x].null \/ (env.var[e.x].inlined /\ env.var[e.x].at_number # env.var[e.x].v)

(* What is raised in looking for a NULL element, before any NULL test: a   *)
(* subscript is computed from the garbage of a NULL part of it             *)
(* (upl_compile_expr.c:676, :756), or the flag of an element out of range  *)
(* cannot be loaded (:552).                                                *)
RaisedByProbe(s) ==
  {r \in {uplpgsql_compile_expr_datum(e.args[1]) :
            e \in {e \in Expressions(s) : e.node = "Elem" /\ uplpgsql_classify_expr(e) # "UNKNOWN"
                                          /\ \E p \in Subexpressions(e.args[1]) : PgEval(p).tag = "null"}}
         \union {env.arr.beyond} : IsErr(r)}

(* The compiled statement delivers the interpreter's value, NULL where     *)
(* that is NULL, whichever tier it went to (upl_compile_expr.c:3731,       *)
(* :5120, core/upl_compile.c:525), unless it reads a record's field that   *)
(* is NULL or has moved.                                                   *)
ValuesAgree ==
  Done /\ ~IsErr(result) /\ ~IsErr(Reference(stmt)) /\ ~ReadsUntestedField(stmt)
    => result = Reference(stmt)

(* Compiled code raises on the garbage of a NULL variable in one place     *)
(* only, the subscript of an element it looks at: any other error is one   *)
(* PostgreSQL raises for the statement or for a part of its expression     *)
(* (upl_compile_expr.c:838, "The arithmetic must not run on the NULL       *)
(* path").                                                                 *)
ErrorsAreGenuine ==
  Done /\ IsErr(result) /\ ~ReadsUntestedField(stmt) =>
    \/ result = Reference(stmt)
    \/ \E e \in Expressions(stmt) : PgEval(e) = result
    \/ result \in RaisedByProbe(stmt)

(* Compiled code raises where the interpreter does, unless a NULL operand  *)
(* elsewhere in the expression made it skip the computation.               *)
ErrorsAreKept ==
  Done /\ IsErr(Reference(stmt)) /\ ~ReadsUntestedField(stmt) =>
    \/ IsErr(result)
    \/ \E e \in Expressions(stmt) : PgEval(e).tag = "null"
=============================================================================
