---- MODULE MCNativeArray ----
EXTENDS NativeArray

MCSource == {NullArray, EmptyArray, TwoD, OneD(1, <<1, NULL>>), OneD(2, <<NULL>>), OneD(2, <<2>>)}

(* Sizes on both sides of every limit: nothing, the stack buffer (1), the  *)
(* largest array (2) and the largest allocation (3).                       *)
MCFillSize == {-1, 0, 1, 2, 3, 4}
====
