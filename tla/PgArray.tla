------------------------------ MODULE PgArray ------------------------------
(***************************************************************************)
(* PostgreSQL array values and the functions of the server the handler     *)
(* calls on them.  A value is its number of dimensions, its lower bound    *)
(* and its elements; what is inside a two-dimensional value is not         *)
(* modelled, because single subscripts never reach it.                     *)
(***************************************************************************)
EXTENDS Integers, Sequences

CONSTANTS Val,           \* element values
          NULL,          \* a NULL element, value or subscript
          MaxArraySize   \* most elements the server allows in an array

ASSUME ElementAssumption == NULL \notin Val
ASSUME SizeAssumption == MaxArraySize \in Nat \ {0}

Elem == Val \union {NULL}

OneD(lb, s) == [ndim |-> 1, lb |-> lb, elems |-> s]
NullArray   == [ndim |-> -1, lb |-> 1, elems |-> <<>>]
EmptyArray  == [ndim |-> 0, lb |-> 1, elems |-> <<>>]
TwoD        == [ndim |-> 2, lb |-> 1, elems |-> <<>>]
Failure     == [ndim |-> -2, lb |-> 1, elems |-> <<>>]   \* the call raised

(* The values an array variable can have.                                  *)
IsArray(a) ==
  \/ a \in {NullArray, EmptyArray, TwoD}
  \/ /\ a \in [ndim : {1}, lb : Int, elems : Seq(Elem)]
     /\ Len(a.elems) \in 1 .. MaxArraySize

Upper(a) == a.lb + Len(a.elems) - 1
InRange(a, i) == a.ndim = 1 /\ i \in a.lb .. Upper(a)

(* An element outside the array, or of a value that has not one dimension, *)
(* reads as NULL.                                                          *)
array_get_element(a, i) == IF InRange(a, i) THEN a.elems[i - a.lb + 1] ELSE NULL

(* A write outside the array extends it and fills the gap with NULLs.      *)
array_set_element(a, i, v) ==
  LET lo == IF i < a.lb THEN i ELSE a.lb
      hi == IF i > Upper(a) THEN i ELSE Upper(a)
  IN  IF a.ndim = 2 THEN Failure
      ELSE IF a.ndim < 1 THEN OneD(i, <<v>>)
      ELSE IF hi - lo >= MaxArraySize THEN Failure
      ELSE OneD(lo, [k \in 1 .. hi - lo + 1 |->
                       IF k + lo - 1 = i THEN v ELSE array_get_element(a, k + lo - 1)])

(* a || v *)
array_append(a, v) ==
  IF a.ndim < 1 THEN OneD(1, <<v>>) ELSE array_set_element(a, Upper(a) + 1, v)

(* array_fill(v, ARRAY[n], ARRAY[l]) *)
array_fill(v, n, l) ==
  IF n = NULL THEN Failure
  ELSE IF n < 0 \/ n > MaxArraySize THEN Failure
  ELSE IF n = 0 THEN EmptyArray
  ELSE OneD(l, [k \in 1 .. n |-> v])
=============================================================================
