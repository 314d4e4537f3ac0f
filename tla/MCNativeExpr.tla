---- MODULE MCNativeExpr ----
(* Statements and environments for NativeExpr: every operator on leaves and one
   level below itself, each tier, the boundaries of both integer widths, NULL
   in every position. *)
EXTENDS NativeExpr

X == Var("INT4", "x")
Y == Var("INT4", "y")
Z == Var("INT8", "z")
F == Var("FLOAT8", "f")
G == Var("FLOAT8", "g")
B == Var("BOOL", "b")
R == Var("INT4", "r")
Two == Const("INT4", 2)

Assign(e) == [kind |-> "assign", e |-> e]
Cond(e)   == [kind |-> "cond", e |-> e]
Set(idx, e) == [kind |-> "set", idx |-> idx, e |-> e]

ArithMod == Arith \union {"mod"}
Int4 == {Op(fn, "INT4", <<X, Y>>) : fn \in ArithMod} \union {Op("um", "INT4", <<X>>), Func("abs", "INT4", <<X>>)}
Int8 == {Op(fn, "INT8", <<Z, X>>) : fn \in Arith} \union {Op(fn, "INT8", <<X, Z>>) : fn \in Arith}
          \union {Op("um", "INT8", <<Z>>), Func("abs", "INT8", <<Z>>), Op("mod", "INT8", <<Z, Z>>)}
Nested4 == {Op(fn, "INT4", <<e, Two>>) : fn \in ArithMod, e \in Int4}
             \union {Op(fn, "INT4", <<Y, e>>) : fn \in {"pl", "div"}, e \in Int4}
Comparisons == {Op(fn, "BOOL", <<X, Y>>) : fn \in Compare} \union {Op(fn, "BOOL", <<Z, X>>) : fn \in Compare}
                 \union {Op(fn, "BOOL", <<e, Y>>) : fn \in {"lt", "eq"}, e \in Int4}
Guard == Op("ne", "BOOL", <<X, Const("INT4", 0)>>)
Quotient == Op("gt", "BOOL", <<Op("div", "INT4", <<Y, X>>), Two>>)
Connectives == {Bool("not", <<e>>) : e \in {B, Guard}}
                 \union {Bool(fn, <<l, r>>) : fn \in {"and", "or"}, l \in {B, Guard, NullConst("BOOL")}, r \in {B, Guard, Quotient}}
Elements == {Elem("INT4", "a", e) : e \in {X, Op("pl", "INT4", <<X, Two>>), Op("div", "INT4", <<Y, X>>),
                                           Elem("INT4", "a", X)}}
              \union {Op("div", "INT4", <<Y, Elem("INT4", "a", X)>>)}
Calls == {Func("quote_nullable", "OTHER", <<X>>), Func("array_length", "INT4", <<Y>>), Func("my_function", "INT4", <<X>>),
          Op("pl", "INT4", <<Op("div", "INT4", <<X, Y>>), Func("array_length", "INT4", <<Y>>)>>),
          Op("pl", "INT4", <<Func("nextval", "INT4", <<Two>>), Y>>),
          Op("pl", "INT4", <<Func("nextval", "INT4", <<Two>>), Func("array_length", "INT4", <<Y>>)>>),
          Op("pl", "INT4", <<X, NullConst("INT4")>>), Sublink("INT4")}

IntStmts == {Assign(e) : e \in Int4 \union Int8 \union Nested4 \union Calls \union Connectives}
              \union {Cond(e) : e \in Comparisons \union Connectives
                                  \union {B, Op("eq", "BOOL", <<B, Guard>>), Elem("BOOL", "a", X)}}
ElemStmts == {Assign(e) : e \in Elements} \union {Cond(Op("gt", "BOOL", <<e, Two>>)) : e \in Elements}
               \union {Set(idx, e) : idx \in {X, Elem("INT4", "a", X), Sublink("INT4")},
                                     e \in {Y, Op("div", "INT4", <<Two, Y>>), Op("pl", "INT4", <<Y, NullConst("INT4")>>)}}
FieldStmts == {Assign(Op(fn, "INT4", <<R, X>>)) : fn \in ArithMod} \union {Assign(Func("quote_nullable", "OTHER", <<R>>))}
                \union {Cond(Op("lt", "BOOL", <<R, X>>)), Set(R, X), Assign(Elem("INT4", "a", R))}
FloatStmts == {Assign(Op(fn, "FLOAT8", <<F, G>>)) : fn \in Arith}
                \union {Assign(e) : e \in {Op("um", "FLOAT8", <<F>>), Func("abs", "FLOAT8", <<F>>), Func("floor", "FLOAT8", <<F>>),
                                           Func("to_float8", "FLOAT8", <<X>>), Func("to_float8", "FLOAT8", <<Var("FLOAT4", "f")>>),
                                           Op("div", "FLOAT8", <<Op("mul", "FLOAT8", <<F, G>>), G>>)}}
                \union {Cond(Op(fn, "BOOL", <<F, G>>)) : fn \in Compare}
ForStmts == [kind : {"fori"}, lower : -4 .. 3, upper : -4 .. 3, step : 1 .. 3, reverse : BOOLEAN]

Slot(v)     == [v |-> v, null |-> FALSE, field |-> FALSE, inlined |-> FALSE, at_number |-> 0]
NullSlot(v) == [Slot(v) EXCEPT !.null = TRUE]
Garbage == {-4, 0, 1}
Zero == Slot(0)
Slots(S)    == {Slot(v) : v \in S} \union {NullSlot(v) : v \in Garbage}
Field(v)    == [Slot(v) EXCEPT !.field = TRUE]
Inlined(v, w) == [Field(v) EXCEPT !.inlined = TRUE, !.at_number = w]
Fields == {Field(v) : v \in {0, 1, 3}} \union {Inlined(v, v) : v \in {0, 1, 3}}
            \union {Inlined(1, 3), [Field(0) EXCEPT !.null = TRUE]}

Array(native, lb, cells, nulls, beyond) ==
  [native |-> native, lb |-> lb, cells |-> cells, nulls |-> nulls, len |-> Len(cells), beyond |-> beyond]
Arrays == {Array(native, lb, <<1, 0, 3>>, nulls, beyond) : native \in BOOLEAN, lb \in {0, 1},
             nulls \in {<<FALSE, FALSE, FALSE>>, <<FALSE, TRUE, FALSE>>},
             beyond \in {Val(0), Val(1), Err("wild_load")}}
            \union {Array(TRUE, 1, <<>>, <<>>, Val(0))}
SomeArray == Array(TRUE, 0, <<1, 0, 3>>, <<FALSE, FALSE, FALSE>>, Val(0))

Environment(x, y, z, f, g, b, arr) ==
  [var |-> [x |-> x, y |-> y, z |-> z, f |-> f, g |-> g, b |-> b, r |-> Zero], arr |-> arr]
IntEnvs == {Environment(x, y, z, Zero, Zero, b, SomeArray) : x, y \in Slots({-4, -1, 0, 1, 3}),
              z \in Slots({-8, -1, 7}), b \in Slots({0, 1})}
ElemEnvs == {Environment(x, y, Zero, Zero, Zero, Zero, a) : x \in Slots(-2 .. 3), y \in Slots({0, 1}), a \in Arrays}
FloatEnvs == {Environment(x, Zero, Zero, f, g, Zero, SomeArray) : x \in Slots({-4, 3}),
                f, g \in Slots({-Inf, -FloatMax, -1, 0, 1, 2, 3, FloatMax, Inf, NaN})}
FieldEnvs == {[Environment(x, Zero, Zero, Zero, Zero, Zero, SomeArray) EXCEPT !.var.r = r] : x \in Slots({-1, 0, 3}), r \in Fields}
OneEnv == {Environment(Zero, Zero, Zero, Zero, Zero, Zero, SomeArray)}

MCCases == {[stmts |-> IntStmts, envs |-> IntEnvs], [stmts |-> ElemStmts, envs |-> ElemEnvs],
            [stmts |-> FieldStmts, envs |-> FieldEnvs],
            [stmts |-> FloatStmts, envs |-> FloatEnvs], [stmts |-> ForStmts, envs |-> OneEnv]}
====
