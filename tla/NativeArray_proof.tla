-------------------------- MODULE NativeArray_proof --------------------------
(***************************************************************************)
(* For every size of arrays, buffers and allocations, every subscript and  *)
(* every argument of array_fill: a native array implements ArrayVar until  *)
(* a statement departs from PL/pgSQL, and the buffers are in order whatever*)
(* the program does.                                                       *)
(***************************************************************************)
EXTENDS NativeArray, SequenceTheorems, TLAPS

(* The elements flat memory holds are in its buffers, NULL or a value.     *)
Filled ==
  /\ data # NoBuffer /\ len <= cap
  /\ \A k \in 1 .. len : IsNull(k) \/ data.cells[k] \in Val

(* What every statement keeps: buffers have the capacity the code believes *)
(* in, and hold the elements unless the length is more than an allocation  *)
(* can hold, which a failed array_fill leaves behind.                      *)
Shape ==
  /\ native \in BOOLEAN /\ IsArray(datum)
  /\ len \in Int /\ lb \in Int /\ cap \in Int /\ cap <= MaxAlloc
  /\ data = NoBuffer => cap <= 0 /\ nulls = NoBuffer
  /\ data # NoBuffer =>
       /\ cap \in Nat
       /\ data \in [at : {"stack", "heap"}, cells : [1 .. cap -> Elem \union {Undef}]]
  /\ nulls # NoBuffer => nulls \in [at : {"heap"}, cells : [1 .. cap -> BOOLEAN]]
  /\ len \in 1 .. MaxAlloc => Filled

(* Flat memory that holds no element has no buffers, and the Datum says    *)
(* why.                                                                    *)
Vacant ==
  /\ data = NoBuffer /\ nulls = NoBuffer
  /\ len = 0  => cap = 0 /\ datum \in {NullArray, EmptyArray}
  /\ len = -1 => datum = TwoD

(* What holds while the two copies are one variable.                       *)
IInv ==
  /\ Shape
  /\ native => /\ len \in -1 .. MaxArraySize /\ cap <= MaxArraySize
               /\ len <= 0 => Vacant

-----------------------------------------------------------------------------
(* Array values.                                                           *)
LEMMA OneDIsArray ==
  ASSUME NEW l \in Int, NEW n \in 1 .. MaxArraySize, NEW f \in [1 .. n -> Elem]
  PROVE  f \in Seq(Elem) /\ Len(f) = n /\ IsArray(OneD(l, f))
<1>1. n \in Nat
  BY SizeAssumption
<1>2. f \in Seq(Elem) /\ Len(f) = n
  BY <1>1
<1> QED BY <1>2 DEF IsArray, OneD

LEMMA NotFailure == \A a : IsArray(a) => a # Failure
<1> TAKE a
<1>1. NullArray # Failure /\ EmptyArray # Failure /\ TwoD # Failure
  BY DEF NullArray, EmptyArray, TwoD, Failure
<1>2. ASSUME a \in [ndim : {1}, lb : Int, elems : Seq(Elem)] PROVE a # Failure
  BY <1>2 DEF Failure
<1> QED BY <1>1, <1>2 DEF IsArray

(* The functions of the server return arrays, or fail.                     *)
LEMMA SetElementIsArray ==
  ASSUME NEW a, IsArray(a), NEW i \in Int, NEW v \in Elem
  PROVE  array_set_element(a, i, v) = Failure \/ IsArray(array_set_element(a, i, v))
<1>1. CASE a \in {NullArray, EmptyArray}
  <2>1. array_set_element(a, i, v) = OneD(i, <<v>>)
    BY <1>1 DEF array_set_element, NullArray, EmptyArray
  <2>2. <<v>> \in Seq(Elem) /\ Len(<<v>>) = 1
    OBVIOUS
  <2> QED BY <2>1, <2>2, SizeAssumption DEF IsArray, OneD
<1>2. CASE a = TwoD
  BY <1>2 DEF array_set_element, TwoD
<1>3. CASE a \in [ndim : {1}, lb : Int, elems : Seq(Elem)] /\ Len(a.elems) \in 1 .. MaxArraySize
  <2> DEFINE lo == IF i < a.lb THEN i ELSE a.lb
             hi == IF i > Upper(a) THEN i ELSE Upper(a)
             f  == [k \in 1 .. hi - lo + 1 |->
                      IF k + lo - 1 = i THEN v ELSE array_get_element(a, k + lo - 1)]
  <2>1. lo \in Int /\ hi \in Int /\ lo <= hi /\ Upper(a) \in Int
    BY <1>3 DEF Upper
  <2>2. \A j \in Int : array_get_element(a, j) \in Elem
    BY <1>3, <2>1 DEF array_get_element, InRange, Upper, Elem
  <2>3. CASE hi - lo >= MaxArraySize
    BY <1>3, <2>3 DEF array_set_element
  <2>4. CASE ~(hi - lo >= MaxArraySize)
    <3>1. array_set_element(a, i, v) = OneD(lo, f)
      BY <1>3, <2>4 DEF array_set_element
    <3>2. hi - lo + 1 \in 1 .. MaxArraySize
      BY <2>1, <2>4, SizeAssumption
    <3> HIDE DEF lo, hi
    <3>3. f \in [1 .. hi - lo + 1 -> Elem]
      BY <2>1, <2>2
    <3> HIDE DEF f
    <3> QED BY <2>1, <3>1, <3>2, <3>3, OneDIsArray
  <2> QED BY <2>3, <2>4
<1> QED BY <1>1, <1>2, <1>3 DEF IsArray

LEMMA AppendIsArray ==
  ASSUME NEW a, IsArray(a), NEW v \in Elem
  PROVE  array_append(a, v) = Failure \/ IsArray(array_append(a, v))
<1>1. CASE a.ndim < 1
  <2>1. array_append(a, v) = OneD(1, <<v>>)
    BY <1>1 DEF array_append
  <2>2. <<v>> \in Seq(Elem) /\ Len(<<v>>) = 1
    OBVIOUS
  <2> QED BY <2>1, <2>2, SizeAssumption DEF IsArray, OneD
<1>2. CASE ~(a.ndim < 1)
  <2>1. Upper(a) + 1 \in Int
    BY DEF IsArray, NullArray, EmptyArray, TwoD, Upper
  <2>2. array_append(a, v) = array_set_element(a, Upper(a) + 1, v)
    BY <1>2 DEF array_append
  <2> QED BY <2>1, <2>2, SetElementIsArray
<1> QED BY <1>1, <1>2

LEMMA FillIsArray ==
  ASSUME NEW n \in FillSize \union {NULL}, NEW v \in Elem, NEW l \in Int
  PROVE  /\ n # NULL /\ n \in 1 .. MaxArraySize =>
              array_fill(v, n, l) = OneD(l, [k \in 1 .. n |-> v])
         /\ array_fill(v, n, l) = Failure \/ IsArray(array_fill(v, n, l))
<1> DEFINE f == [k \in 1 .. n |-> v]
<1>1. CASE n # NULL /\ n \in 1 .. MaxArraySize
  <2>1. array_fill(v, n, l) = OneD(l, f)
    BY <1>1, SizeAssumption DEF array_fill
  <2>2. f \in [1 .. n -> Elem]
    OBVIOUS
  <2> HIDE DEF f
  <2>3. IsArray(OneD(l, f))
    BY <1>1, <2>2, OneDIsArray
  <2> QED BY <2>1, <2>3 DEF f
<1>2. CASE ~(n # NULL /\ n \in 1 .. MaxArraySize)
  <2>1. n = NULL \/ (n # NULL /\ n \in Int)
    BY FillAssumption
  <2>2. array_fill(v, n, l) \in {Failure, EmptyArray}
    BY <1>2, <2>1, SizeAssumption DEF array_fill
  <2> QED BY <1>2, <2>2 DEF IsArray
<1> QED BY <1>1, <1>2

\* The three integers of the invariant, by themselves: the leaves that only do
\* arithmetic on the header fields cite this and not the buffers' types.
LEMMA HeaderTypes ==
  ASSUME IInv
  PROVE  /\ len \in Int /\ lb \in Int /\ cap \in Int
         /\ native => len \in Int /\ -1 <= len /\ len <= MaxArraySize /\ cap <= MaxArraySize
<1>1. len \in Int /\ lb \in Int /\ cap \in Int
  BY Zenon DEF IInv, Shape
<1>2. native => len \in -1 .. MaxArraySize /\ cap <= MaxArraySize
  BY Zenon DEF IInv
<1> QED BY <1>1, <1>2, SizeAssumption

-----------------------------------------------------------------------------
(* The two copies.                                                         *)
LEMMA LiveIsArray ==
  ASSUME IInv
  PROVE  IsArray(Live)
<1>1. CASE native /\ len > 0
  <2> DEFINE f == [k \in 1 .. len |-> IF IsNull(k) THEN NULL ELSE data.cells[k]]
  <2>1. len \in 1 .. MaxArraySize /\ lb \in Int /\ Filled
    BY <1>1, CapacityAssumption, SizeAssumption DEF IInv, Shape
  <2>2. f \in [1 .. len -> Elem]
    BY <2>1 DEF Filled, Elem
  <2>3. Live = OneD(lb, f)
    BY <1>1 DEF Live, Flat
  <2> HIDE DEF f
  <2> QED BY <2>1, <2>2, <2>3, OneDIsArray
<1>2. CASE ~(native /\ len > 0)
  BY <1>2 DEF IInv, Shape, Live
<1> QED BY <1>1, <1>2

(* Marshalling out gives the variable's value.                             *)
LEMMA SyncIsLive ==
  ASSUME IInv
  PROVE  sync = Live /\ sync # Failure /\ datum # Failure
<1>1. sync = Live
  BY SizeAssumption, CapacityAssumption
     DEF IInv, Shape, Filled, Vacant, sync, Live, native_array_to_datum
<1>2. datum # Failure
  BY NotFailure DEF IInv, Shape
<1> QED BY <1>1, <1>2, LiveIsArray, NotFailure

(* Marshalling, and a statement that raises on the way, leaves the         *)
(* variable as it was.                                                     *)
LEMMA KeepsLive ==
  ASSUME IInv, datum' \in {datum, sync}, UNCHANGED <<native, flat>>
  PROVE  IInv' /\ Live' = Live
<1>1. IsArray(datum')
  BY SyncIsLive, LiveIsArray DEF IInv, Shape
<1>2. (native /\ len <= 0) => datum' = datum
  BY DEF IInv, Vacant, sync, native_array_to_datum
<1>3. ~native => datum' = datum
  BY DEF sync
<1>4. native' = native /\ data' = data /\ nulls' = nulls /\ len' = len /\ lb' = lb /\ cap' = cap
  BY DEF flat
<1>5. Flat' = Flat
  BY <1>4 DEF Flat, IsNull
<1>6. Filled' <=> Filled
  BY <1>4 DEF Filled, IsNull
<1>7. (native /\ len <= 0 /\ Vacant) => Vacant'
  BY <1>2, <1>4 DEF Vacant
<1>8. IInv'
  BY <1>1, <1>4, <1>6, <1>7 DEF IInv, Shape
<1>9. Live' = Live
  BY <1>2, <1>3, <1>4, <1>5 DEF Live, IInv
<1> QED BY <1>8, <1>9

(* Reloading flat memory makes the Datum the variable's value, whatever    *)
(* was there before.                                                       *)
LEMMA RefreshIsLive ==
  ASSUME Shape, NEW d, IsArray(d), refresh(d), native' = native
  PROVE  IInv' /\ Live' = d
<1>1. CASE ~native
  <2>1. datum' = d /\ data' = data /\ nulls' = nulls /\ len' = len /\ lb' = lb /\ cap' = cap
    BY <1>1 DEF refresh, flat
  <2>2. Filled' <=> Filled
    BY <2>1 DEF Filled, IsNull
  <2>3. Shape'
    BY <2>1, <2>2 DEF Shape
  <2> QED BY <1>1, <2>1, <2>3 DEF IInv, Live
<1>2. CASE native /\ d \in {NullArray, EmptyArray, TwoD}
  <2>1. d.ndim < 1 \/ d.ndim = 2
    BY <1>2 DEF NullArray, EmptyArray, TwoD
  <2>2. /\ len' = IF d.ndim < 1 THEN 0 ELSE -1
        /\ cap' = len' /\ data' = NoBuffer /\ nulls' = NoBuffer
        /\ lb' = d.lb /\ datum' = d
    BY <1>2, <2>1 DEF refresh, native_array_from_datum
  <2>3. d.lb = 1 /\ (d.ndim < 1 => d \in {NullArray, EmptyArray}) /\ (d.ndim = 2 => d = TwoD)
    BY <1>2 DEF NullArray, EmptyArray, TwoD
  <2>4. d.ndim \in {-1, 0, 2}
    BY <1>2 DEF NullArray, EmptyArray, TwoD
  <2>5. len' \in {-1, 0}
    BY <2>2
  <2>6. Shape'
    BY <1>2, <2>2, <2>3, <2>5, CapacityAssumption DEF Shape, IsArray
  <2> QED BY <1>2, <2>2, <2>3, <2>4, <2>6, SizeAssumption DEF IInv, Vacant, Live
<1>3. CASE /\ native /\ d \in [ndim : {1}, lb : Int, elems : Seq(Elem)]
           /\ Len(d.elems) \in 1 .. MaxArraySize
  <2> DEFINE n == Len(d.elems)
             absent == [k \in 1 .. n |-> d.elems[k] = NULL]
             cells  == [k \in 1 .. n |-> IF absent[k] THEN Undef ELSE d.elems[k]]
  <2>1. n \in 1 .. MaxArraySize /\ n \in Nat
    BY <1>3, SizeAssumption
  <2>2. /\ len' = n /\ cap' = n /\ lb' = d.lb /\ datum' = d /\ native'
        /\ data' = Buffer("heap", cells)
        /\ nulls' = IF \E k \in 1 .. n : absent[k] THEN Buffer("heap", absent) ELSE NoBuffer
    <3>1. native_array_from_datum(d) =
            [data  |-> Buffer("heap", cells),
             nulls |-> IF \E k \in 1 .. n : absent[k] THEN Buffer("heap", absent) ELSE NoBuffer,
             len   |-> n,
             lb    |-> d.lb]
      <4>1. ~(d.ndim < 1) /\ d.ndim # 2 /\ n > 0
        BY <1>3
      <4> QED BY <4>1, Zenon DEF native_array_from_datum
    <3> HIDE DEF n, absent, cells
    <3> QED BY <1>3, <3>1 DEF refresh
  <2>3. \A k \in 1 .. n : IsNull(k)' <=> d.elems[k] = NULL
    <3>1. \A k \in 1 .. n : absent[k] <=> d.elems[k] = NULL
      OBVIOUS
    <3>2. Buffer("heap", absent) # NoBuffer /\ Buffer("heap", absent).cells = absent
      BY DEF Buffer, NoBuffer
    <3> HIDE DEF absent
    <3>3. CASE \E k \in 1 .. n : absent[k]
      BY <2>2, <3>1, <3>2, <3>3 DEF IsNull
    <3>4. CASE ~ \E k \in 1 .. n : absent[k]
      BY <2>2, <3>1, <3>4 DEF IsNull
    <3> QED BY <3>3, <3>4
  <2>4. \A k \in 1 .. n : d.elems[k] # NULL => data'.cells[k] = d.elems[k] /\ d.elems[k] \in Val
    <3> SUFFICES ASSUME NEW k \in 1 .. n, d.elems[k] # NULL
                 PROVE  data'.cells[k] = d.elems[k] /\ d.elems[k] \in Val
      OBVIOUS
    <3>1. ~absent[k]
      OBVIOUS
    <3>2. cells[k] = d.elems[k]
      BY <3>1
    <3>3. data'.cells = cells
      BY <2>2 DEF Buffer
    <3>4. d.elems[k] \in Elem
      BY <1>3
    <3> HIDE DEF n, absent, cells
    <3> QED BY <3>2, <3>3, <3>4 DEF Elem
  <2>5. Shape'
    <3>1. cells \in [1 .. n -> Elem \union {Undef}] /\ absent \in [1 .. n -> BOOLEAN]
      BY <1>3
    <3>2. data' \in [at : {"stack", "heap"}, cells : [1 .. n -> Elem \union {Undef}]]
      BY <2>2, <3>1 DEF Buffer
    <3>3. data' # NoBuffer
      BY <2>2 DEF Buffer, NoBuffer
    <3>4. nulls' # NoBuffer => nulls' \in [at : {"heap"}, cells : [1 .. n -> BOOLEAN]]
      BY <2>2, <3>1 DEF Buffer
    <3>5. \A k \in 1 .. n : IsNull(k)' \/ data'.cells[k] \in Val
      BY <2>3, <2>4
    <3> HIDE DEF n, absent, cells
    <3>6. Filled'
      BY <2>1, <2>2, <3>3, <3>5 DEF Filled
    <3>7. n \in Int /\ n <= MaxAlloc
      BY <2>1, SizeAssumption, CapacityAssumption
    <3>8. Shape'
      BY <1>3, <2>1, <2>2, <3>2, <3>3, <3>4, <3>6, <3>7 DEF Shape, IsArray
    <3> QED BY <3>8
  <2>6. Flat' = d
    <3>1. d.elems = [k \in 1 .. n |-> IF IsNull(k)' THEN NULL ELSE data'.cells[k]]
      <4>1. d.elems \in [1 .. n -> Elem]
        BY <1>3
      <4> HIDE DEF n, absent, cells
      <4> QED BY <2>3, <2>4, <4>1
    <3>2. Flat' = OneD(d.lb, d.elems)
      BY <2>2, <3>1 DEF Flat
    <3> QED BY <1>3, <3>2 DEF OneD
  <2> HIDE DEF n, absent, cells
  <2> QED BY <1>3, <2>1, <2>2, <2>5, <2>6 DEF IInv, Live
<1>4. native \in BOOLEAN
  BY DEF Shape
<1> QED BY <1>1, <1>2, <1>3, <1>4 DEF IsArray

-----------------------------------------------------------------------------
(* What ArrayVar says of each statement, in terms of the variable's value. *)
LEMMA AbstractFunctions ==
  /\ AV!NullArray = NullArray /\ AV!Failure = Failure
  /\ \A v, n, l : AV!array_fill(v, n, l) = array_fill(v, n, l)
  /\ \A a, v : AV!array_append(a, v) = array_append(a, v)
  /\ \A a, i, v : AV!array_set_element(a, i, v) = array_set_element(a, i, v)
  /\ \A a, i : AV!array_get_element(a, i) = array_get_element(a, i)
<1>1. AV!NullArray = NullArray /\ AV!Failure = Failure
  BY DEF AV!NullArray, AV!Failure, NullArray, Failure
<1>2. \A v, n, l : AV!array_fill(v, n, l) = array_fill(v, n, l)
  BY <1>1 DEF AV!array_fill, AV!OneD, AV!EmptyArray, array_fill, OneD, EmptyArray
<1>3. \A a, i : AV!array_get_element(a, i) = array_get_element(a, i)
  BY DEF AV!array_get_element, AV!InRange, AV!Upper, array_get_element, InRange, Upper
<1>4. \A a, i, v : AV!array_set_element(a, i, v) = array_set_element(a, i, v)
  <2> TAKE a, i, v
  <2> DEFINE lo == IF i < a.lb THEN i ELSE a.lb
             hi == IF i > Upper(a) THEN i ELSE Upper(a)
  <2>1. [k \in 1 .. hi - lo + 1 |->
           IF k + lo - 1 = i THEN v ELSE AV!array_get_element(a, k + lo - 1)]
        = [k \in 1 .. hi - lo + 1 |->
             IF k + lo - 1 = i THEN v ELSE array_get_element(a, k + lo - 1)]
    BY <1>3
  <2>2. AV!Upper(a) = Upper(a) /\ \A l, f : AV!OneD(l, f) = OneD(l, f)
    BY DEF AV!Upper, AV!OneD, Upper, OneD
  <2> QED BY <1>1, <2>1, <2>2, Zenon DEF AV!array_set_element, array_set_element
<1>5. \A a, v : AV!array_append(a, v) = array_append(a, v)
  BY <1>4 DEF AV!array_append, AV!Upper, AV!OneD, array_append, Upper, OneD
<1> QED BY <1>1, <1>2, <1>3, <1>4, <1>5

LEMMA AbstractAssigned ==
  ASSUME NEW a, NEW i, NEW v
  PROVE  /\ AV!Assigned(Stmt("assign", a, i, v)) = a
         /\ AV!Assigned(Stmt("fill", a, i, v)) = array_fill(v, i, a.lb)
         /\ AV!Assigned(Stmt("append", a, i, v)) = array_append(Live, v)
         /\ AV!Assigned(Stmt("set", a, i, v)) =
              IF i = NULL THEN Failure ELSE array_set_element(Live, i, v)
         /\ \A op \in {"none", "read", "get"} : AV!Assigned(Stmt(op, a, i, v)) = Live
BY AbstractFunctions DEF AV!Assigned, Stmt

LEMMA AbstractDelivered ==
  ASSUME NEW a, NEW i, NEW v, NEW op, AV!Assigned(Stmt(op, a, i, v)) # Failure
  PROVE  AV!Delivered(Stmt(op, a, i, v)) =
           CASE op = "get"  -> <<"elem", IF i = NULL THEN NULL ELSE array_get_element(Live, i)>>
             [] op = "read" -> <<"array", Live>>
             [] OTHER       -> None
BY AbstractFunctions DEF AV!Delivered, Stmt, None

(* A statement that stores what the server computed from the value.        *)
LEMMA StoredStep ==
  ASSUME IInv, UNCHANGED native, NEW d, d = Failure \/ IsArray(d), StoreAndRefresh(d),
         NEW op \in {"assign", "fill", "append", "set"}, NEW a, NEW i, NEW v,
         stmt' = Stmt(op, a, i, v), AV!Assigned(Stmt(op, a, i, v)) = d
  PROVE  IInv' /\ AV!Next
<1>1. CASE d = Failure
  <2>1. out' = Error /\ IInv' /\ Live' = Live
    BY <1>1, KeepsLive, SyncIsLive DEF StoreAndRefresh, Raise
  <2>2. AV!Delivered(stmt') = <<"error">>
    <3>1. stmt'.op = op
      BY DEF Stmt
    <3> QED BY <1>1, <3>1, AbstractFunctions DEF AV!Delivered
  <2> QED BY <1>1, <2>1, <2>2, AbstractFunctions DEF AV!Next, AV!Step, Error
<1>2. CASE d # Failure
  <2>1. out' = None /\ IInv' /\ Live' = d
    BY <1>2, RefreshIsLive DEF StoreAndRefresh, IInv
  <2>2. AV!Delivered(stmt') = None
    BY <1>2, AbstractDelivered
  <2> QED BY <1>2, <2>1, <2>2, AbstractFunctions DEF AV!Next, AV!Step
<1> QED BY <1>1, <1>2

(* A statement that leaves the value alone and delivers something of it.   *)
LEMMA ReadingStep ==
  ASSUME IInv, datum' \in {datum, sync}, UNCHANGED <<native, flat>>,
         NEW op \in {"none", "read", "get"}, NEW i, NEW v,
         stmt' = Stmt(op, NullArray, i, v),
         out' = CASE op = "get"  -> <<"elem", IF i = NULL THEN NULL ELSE array_get_element(Live, i)>>
                  [] op = "read" -> <<"array", Live>>
                  [] OTHER       -> None
  PROVE  IInv' /\ AV!Next
<1>1. IInv' /\ Live' = Live
  BY KeepsLive
<1>2. AV!Assigned(stmt') = Live /\ Live # Failure
  BY AbstractAssigned, LiveIsArray, NotFailure
<1>3. AV!Delivered(stmt') = out'
  BY <1>2, AbstractDelivered
<1> QED BY <1>1, <1>2, <1>3, AbstractFunctions DEF AV!Next, AV!Step

LEMMA ReadStep ==
  ASSUME IInv, NEW k \in Reader, Read(k), intact'
  PROVE  IInv' /\ AV!Next
<1>1. k \in SyncedReader \/ ~native
  BY DEF Read, DepartsUnless
<1>2. ~native => sync = datum
  BY DEF sync
<1>3. (IF k \in SyncedReader THEN sync ELSE datum) = sync
  BY <1>1, <1>2
<1>4. datum' = sync /\ out' = <<"array", sync>> /\ UNCHANGED <<native, flat>>
  BY <1>3, SyncIsLive, Zenon DEF Read
<1> QED BY <1>4, SyncIsLive, ReadingStep DEF Read

LEMMA AssignOtherStep ==
  ASSUME IInv, NEW prepared \in BOOLEAN, NEW reads \in BOOLEAN, AssignOther(prepared, reads)
  PROVE  IInv' /\ AV!Next
<1>1. CASE reads
  <2>1. datum' = Live /\ datum' = sync /\ out' = <<"array", Live>> /\ UNCHANGED <<native, flat>>
    BY <1>1, SyncIsLive, Zenon DEF AssignOther, sync_native_arrays_for_expr
  <2> QED BY <1>1, <2>1, ReadingStep DEF AssignOther
<1>2. CASE ~reads
  <2>1. datum' \in {datum, sync} /\ out' = None /\ UNCHANGED <<native, flat>>
    BY <1>2, SyncIsLive DEF AssignOther, sync_native_arrays_for_expr
  <2> QED BY <1>2, <2>1, ReadingStep DEF AssignOther
<1> QED BY <1>1, <1>2

LEMMA GetStep ==
  ASSUME IInv, NEW i \in Subscript \union {NULL}, Get(i), intact'
  PROVE  IInv' /\ AV!Next
<1>0. ~native \/ out' # Wild
  BY DEF Get, DepartsUnless
<1>1. out' = <<"elem", IF i = NULL THEN NULL ELSE array_get_element(Live, i)>>
  <2>1. CASE ~native
    BY <2>1 DEF Live, Get
  <2>2. CASE native /\ i = NULL
    <3>1. PICK j \in Subscript :
            out' \in {<<"elem", NULL>>} \union (IF FlagOutside(j) THEN {Wild} ELSE {})
      BY <2>2, Zenon DEF Get
    <3> QED BY <1>0, <2>2, <3>1
  <2>3. CASE native /\ i # NULL
    <3>0. i \in Int /\ GetNative(i)
      BY <2>3, SubscriptAssumption DEF Get
    <3>1. PICK isnull \in native_array_elem_isnull(i) :
            out' = IF isnull \/ ~in_range(i) THEN <<"elem", NULL>>
                   ELSE IF i - lb + 1 \in DOMAIN data.cells THEN <<"elem", data.cells[i - lb + 1]>>
                   ELSE Wild
      BY <1>0, <2>3, <3>0, Zenon DEF GetNative
    <3>2. CASE len <= 0
      <4>1. Live \in {NullArray, EmptyArray, TwoD}
        BY <2>3, <3>2 DEF IInv, Vacant, Live
      <4>2. array_get_element(Live, i) = NULL
        BY <4>1 DEF array_get_element, InRange, NullArray, EmptyArray, TwoD
      <4>3. ~in_range(i)
        BY <2>3, <3>0, <3>2 DEF IInv, Shape, in_range
      <4> QED BY <2>3, <3>1, <4>2, <4>3
    <3>3. CASE len > 0
      <4> DEFINE f == [k \in 1 .. len |-> IF IsNull(k) THEN NULL ELSE data.cells[k]]
      <4>1. len \in 1 .. MaxArraySize /\ lb \in Int /\ Filled
        BY <2>3, <3>3, SizeAssumption, CapacityAssumption DEF IInv, Shape
      <4>2. f \in [1 .. len -> Elem]
        BY <4>1 DEF Filled, Elem
      <4>3. Live.ndim = 1 /\ Live.lb = lb /\ Live.elems = f
        BY <2>3, <3>3 DEF Live, Flat, OneD
      <4>4. \A k \in 1 .. len : f[k] = IF IsNull(k) THEN NULL ELSE data.cells[k]
        OBVIOUS
      <4> HIDE DEF f
      <4>5. Len(f) = len
        BY <4>1, <4>2, OneDIsArray
      <4>6. InRange(Live, i) <=> in_range(i)
        BY <3>0, <4>1, <4>3, <4>5 DEF InRange, in_range, Upper
      <4>7. CASE ~in_range(i)
        BY <2>3, <3>1, <4>6, <4>7 DEF array_get_element
      <4>8. CASE in_range(i)
        <5>1. i - lb + 1 \in 1 .. len /\ i - lb + 1 \in 1 .. cap
          BY <3>0, <4>1, <4>8 DEF in_range, Filled, IInv, Shape
        <5>2. DOMAIN data.cells = 1 .. cap /\ (nulls # NoBuffer => DOMAIN nulls.cells = 1 .. cap)
          BY <4>1 DEF IInv, Shape, Filled
        <5>3. ~FlagOutside(i)
          BY <5>1, <5>2 DEF FlagOutside
        <5>4. isnull = IsNull(i - lb + 1)
          <6>1. CASE nulls = NoBuffer
            BY <6>1, <3>1, Zenon DEF native_array_elem_isnull, IsNull
          <6>2. CASE nulls # NoBuffer
            <7>1. isnull = nulls.cells[i - lb + 1]
              BY <3>1, <5>3, <6>2, Zenon DEF native_array_elem_isnull
            <7>2. nulls.cells[i - lb + 1] \in BOOLEAN
              BY <5>1, <6>2 DEF IInv, Shape
            <7> QED BY <6>2, <7>1, <7>2, Zenon DEF IsNull
          <6> QED BY <6>1, <6>2
        <5>5. array_get_element(Live, i) = f[i - lb + 1]
          BY <4>3, <4>6, <4>8 DEF array_get_element
        <5> QED BY <2>3, <3>1, <4>4, <4>8, <5>1, <5>2, <5>4, <5>5
      <4> QED BY <4>7, <4>8
    <3> QED BY <2>3, <3>2, <3>3 DEF IInv, Shape
  <2> QED BY <2>1, <2>2, <2>3
<1> QED BY <1>1, ReadingStep DEF Get

LEMMA WriteStep ==
  ASSUME IInv, NEW k \in Writer, NEW a \in Source, Write(k, a), intact'
  PROVE  IInv' /\ AV!Next
<1>1. IsArray(a) /\ a # Failure
  BY SourceAssumption, NotFailure
<1>2. StoreAndRefresh(a)
  <2>1. k \in RefreshedWriter \/ ~native
    BY DEF Write, DepartsUnless
  <2>2. refresh(a)
    BY <2>1, Zenon DEF Write, refresh
  <2> QED BY <1>1, <2>2, Zenon DEF Write, StoreAndRefresh
<1> QED BY <1>1, <1>2, AbstractAssigned, StoredStep DEF Write

LEMMA AppendFallbackStep ==
  ASSUME IInv, NEW v \in Elem, NEW prepared \in BOOLEAN, AppendFallback(v, prepared)
  PROVE  IInv' /\ AV!Next
<1>1. sync_native_arrays_for_expr(prepared, TRUE) = Live
  BY SyncIsLive DEF sync_native_arrays_for_expr
<1>2. array_append(Live, v) = Failure \/ IsArray(array_append(Live, v))
  BY LiveIsArray, AppendIsArray
<1>3. StoreAndRefresh(array_append(Live, v)) /\ stmt' = Stmt("append", NullArray, NULL, v)
  BY <1>1, SyncIsLive DEF AppendFallback, From
<1> QED BY <1>2, <1>3, AbstractAssigned, StoredStep DEF AppendFallback

LEMMA SetStored ==
  ASSUME IInv, UNCHANGED native, NEW i \in Int, i # NULL, NEW v \in Elem,
         stmt' = Stmt("set", NullArray, i, v),
         StoreAndRefresh(array_set_element(Live, i, v))
  PROVE  IInv' /\ AV!Next
<1>1. array_set_element(Live, i, v) = Failure \/ IsArray(array_set_element(Live, i, v))
  BY LiveIsArray, SetElementIsArray
<1> QED BY <1>1, AbstractAssigned, StoredStep

(* A statement that raises what the server would raise.                    *)
LEMMA RaisedStep ==
  ASSUME IInv, UNCHANGED native, NEW d \in {datum, sync}, Raise(d),
         NEW i, NEW v, stmt' = Stmt("set", NullArray, i, v), AV!Assigned(stmt') = Failure
  PROVE  IInv' /\ AV!Next
<1>1. out' = Error /\ IInv' /\ Live' = Live
  BY KeepsLive, SyncIsLive DEF Raise
<1>2. stmt'.op = "set"
  BY DEF Stmt
<1>3. AV!Delivered(stmt') = <<"error">>
  BY <1>2, AbstractFunctions DEF AV!Delivered
<1> QED BY <1>1, <1>3, AbstractFunctions DEF AV!Next, AV!Step, Error

LEMMA SetDatumStep ==
  ASSUME IInv, NEW i \in Subscript \union {NULL}, NEW v \in Elem, NEW prepared \in BOOLEAN,
         SetDatum(i, v, prepared)
  PROVE  IInv' /\ AV!Next
<1>1. sync_native_arrays_for_expr(prepared, TRUE) = sync /\ sync = Live
  BY SyncIsLive DEF sync_native_arrays_for_expr
<1>2. CASE i = NULL
  <2>1. AV!Assigned(stmt') = Failure
    BY <1>2, AbstractAssigned DEF SetDatum
  <2> QED BY <1>1, <1>2, <2>1, RaisedStep DEF SetDatum
<1>3. CASE i # NULL
  BY <1>1, <1>3, SubscriptAssumption, SyncIsLive, SetStored DEF SetDatum, From
<1> QED BY <1>2, <1>3

(* A statement that stores a value into flat memory alone.                 *)
LEMMA NativeStored ==
  ASSUME IInv, native, UNCHANGED <<native, datum>>, out' = None,
         len' \in 1 .. MaxArraySize, cap' <= MaxArraySize, Shape',
         NEW op \in {"fill", "set"}, NEW i, NEW v, stmt' = Stmt(op, NullArray, i, v),
         AV!Assigned(stmt') = Flat'
  PROVE  IInv' /\ AV!Next
<1>1. IInv'
  BY DEF IInv
<1>2. Live' = Flat'
  BY DEF Live
<1>3. Flat' # Failure
  BY DEF Flat, OneD, Failure
<1>4. AV!Delivered(stmt') = None
  BY <1>3, AbstractDelivered
<1> QED BY <1>1, <1>2, <1>3, <1>4, AbstractFunctions DEF AV!Next, AV!Step

(* The buffer array_fill makes, of a size that can be allocated.           *)
LEMMA FillShape ==
  ASSUME Shape, NEW n \in 0 .. MaxAlloc, NEW v \in Val, FillNative(n, v), UNCHANGED <<native, datum>>
  PROVE  /\ Shape' /\ len' = n /\ cap' = n /\ out' = None
         /\ Flat' = OneD(1, [k \in 1 .. n |-> v])
<1> DEFINE f == [k \in 1 .. n |-> v]
           at == IF n > StackMax THEN "heap" ELSE "stack"
<1>0. n \in Int /\ n \in Nat /\ n <= MaxAlloc /\ ~(n < 0) /\ ~(n > MaxAlloc)
  BY CapacityAssumption
<1>1. /\ len' = n /\ lb' = 1 /\ nulls' = NoBuffer /\ cap' = n /\ data' = Buffer(at, f)
      /\ out' = None
  BY <1>0, Zenon DEF FillNative, FillBuffer
<1>2. f \in [1 .. n -> Val] /\ at \in {"stack", "heap"}
  OBVIOUS
<1>3. \A k \in 1 .. n : f[k] = v
  OBVIOUS
<1> HIDE DEF f, at
<1>4. data'.cells = f /\ data' # NoBuffer
  BY <1>1, <1>2 DEF Buffer, NoBuffer
<1>5. \A k \in 1 .. n : ~IsNull(k)' /\ data'.cells[k] = v
  BY <1>1, <1>3, <1>4 DEF IsNull
<1>6. Filled'
  BY <1>0, <1>1, <1>4, <1>5 DEF Filled
<1>7. data' \in [at : {"stack", "heap"}, cells : [1 .. n -> Elem \union {Undef}]]
  BY <1>1, <1>2 DEF Buffer, Elem
<1>8. Shape'
  BY <1>0, <1>1, <1>4, <1>6, <1>7 DEF Shape
<1>9. [k \in 1 .. n |-> IF IsNull(k)' THEN NULL ELSE data'.cells[k]] = f
  BY <1>2, <1>3, <1>5
<1>10. Flat' = OneD(1, f)
  BY <1>1, <1>9 DEF Flat
<1> QED BY <1>1, <1>8, <1>10 DEF f

LEMMA FillStep ==
  ASSUME IInv, NEW n \in FillSize \union {NULL}, NEW v \in Elem, NEW l \in FillBound,
         Fill(n, v, l), intact'
  PROVE  IInv' /\ AV!Next
<1>1. /\ stmt' = Stmt("fill", LowerBound(l), n, v) /\ LowerBound(l).lb = l /\ l \in Int
      /\ AV!Assigned(stmt') = array_fill(v, n, l) /\ UNCHANGED native
  BY AbstractAssigned, FillAssumption DEF Fill, LowerBound, NullArray
<1>2. array_fill(v, n, l) = Failure \/ IsArray(array_fill(v, n, l))
  BY <1>1, FillIsArray
<1>3. CASE ~native
  <2>1. StoreAndRefresh(array_fill(v, n, l))
    BY <1>3 DEF Fill
  <2> QED BY <1>1, <1>2, <2>1, StoredStep
<1>4. CASE native
  <2>1. n # NULL /\ n \in 1 .. MaxArraySize /\ v \in Val /\ l = 1
    BY <1>4 DEF Fill, DepartsUnless, Elem
  <2>2. FillNative(n, v) /\ UNCHANGED datum
    <3>1. v # NULL
      BY <2>1, ElementAssumption
    <3> QED BY <1>4, <2>1, <3>1 DEF Fill
  <2>3. n \in 0 .. MaxAlloc /\ n \in 1 .. MaxArraySize /\ n <= MaxArraySize
    BY <2>1, SizeAssumption, CapacityAssumption
  <2>4. /\ Shape' /\ len' = n /\ cap' = n /\ out' = None
        /\ Flat' = OneD(1, [k \in 1 .. n |-> v])
    BY <1>1, <2>1, <2>2, <2>3, FillShape DEF IInv
  <2>5. array_fill(v, n, l) = OneD(1, [k \in 1 .. n |-> v])
    BY <1>1, <2>1, FillIsArray
  <2>6. LowerBound(l) = NullArray
    BY <2>1 DEF LowerBound, NullArray
  <2>7. stmt' = Stmt("fill", NullArray, n, v) /\ AV!Assigned(stmt') = Flat'
    BY <1>1, <2>4, <2>5, <2>6
  <2> QED BY <1>1, <1>4, <2>2, <2>3, <2>4, <2>7, NativeStored
<1>5. native \in BOOLEAN
  BY DEF IInv, Shape
<1> QED BY <1>3, <1>4, <1>5

-----------------------------------------------------------------------------
(* x[i] := v in flat memory.  Cell i - lb + 1 takes v and the other cells  *)
(* are kept: that is what the server's function does with the value, when  *)
(* the array holds elements and i is one of its subscripts or the next.    *)
Flagged(b, k) == b # NoBuffer /\ b.cells[k]

LEMMA CellStored ==
  ASSUME IInv, native, len > 0, UNCHANGED <<native, datum, lb>>, out' = None, Shape',
         cap' <= MaxArraySize,
         NEW i \in Int, i # NULL, NEW v \in Val, stmt' = Stmt("set", NullArray, i, v),
         i - lb + 1 \in 1 .. len + 1,
         len' = (IF i = lb + len THEN len + 1 ELSE len), len' <= MaxArraySize,
         ~Flagged(nulls', i - lb + 1) /\ data'.cells[i - lb + 1] = v,
         \A k \in 1 .. len : k # i - lb + 1 =>
           (Flagged(nulls', k) <=> IsNull(k)) /\ data'.cells[k] = data.cells[k]
  PROVE  IInv' /\ AV!Next
<1> DEFINE f == [k \in 1 .. len |-> IF IsNull(k) THEN NULL ELSE data.cells[k]]
           g == [k \in 1 .. len' |-> IF IsNull(k)' THEN NULL ELSE data'.cells[k]]
           hi == IF i > Upper(Live) THEN i ELSE Upper(Live)
<1>0. \A k : IsNull(k)' <=> Flagged(nulls', k)
  BY Zenon DEF IsNull, Flagged
<1>1. len \in 1 .. MaxArraySize /\ lb \in Int /\ Filled /\ MaxArraySize \in Nat
  BY SMTT(30), SizeAssumption, CapacityAssumption DEF IInv, Shape
<1>2. f \in [1 .. len -> Elem]
  BY <1>1 DEF Filled, Elem
<1>3. Live.ndim = 1 /\ Live.lb = lb /\ Live.elems = f
  BY DEF Live, Flat, OneD
<1>4. Len(f) = len
  <2> HIDE DEF f
  <2> QED BY <1>1, <1>2, OneDIsArray
<1>5. Upper(Live) = lb + len - 1
  <2> HIDE DEF f
  <2> QED BY <1>3, <1>4 DEF Upper
<1>6. ~(i < Live.lb) /\ hi - lb + 1 = len' /\ ~(hi - lb >= MaxArraySize) /\ len' \in 1 .. MaxArraySize
  <2> HIDE DEF f
  <2> QED BY <1>1, <1>3, <1>5
<1>7. \A k \in 1 .. len' :
        (IF k + lb - 1 = i THEN v ELSE array_get_element(Live, k + lb - 1)) = g[k]
  <2> SUFFICES ASSUME NEW k \in 1 .. len'
               PROVE  (IF k + lb - 1 = i THEN v ELSE array_get_element(Live, k + lb - 1))
                        = IF IsNull(k)' THEN NULL ELSE data'.cells[k]
    OBVIOUS
  <2>1. CASE k = i - lb + 1
    BY <1>0, <1>1, <2>1
  <2>2. CASE k # i - lb + 1
    <3>1. k \in 1 .. len
      BY <1>1, <2>2
    <3>2. f[k] = IF IsNull(k)' THEN NULL ELSE data'.cells[k]
      BY <1>0, <2>2, <3>1
    <3> HIDE DEF f
    <3>3. InRange(Live, k + lb - 1) /\ (k + lb - 1) - Live.lb + 1 = k
      BY <1>1, <1>3, <1>5, <3>1 DEF InRange
    <3>4. array_get_element(Live, k + lb - 1) = f[k]
      BY SMTT(30), <1>3, <3>3 DEF array_get_element
    <3> QED BY <1>1, <2>2, <3>1, <3>2, <3>4
  <2> QED BY <2>1, <2>2
<1>8. array_set_element(Live, i, v) =
        OneD(lb, [k \in 1 .. hi - lb + 1 |->
                    IF k + lb - 1 = i THEN v ELSE array_get_element(Live, k + lb - 1)])
  <2>1. ~(Live.ndim = 2) /\ ~(Live.ndim < 1)
    BY <1>3
  <2> HIDE DEF f, g
  <2> QED BY <1>3, <1>6, <2>1 DEF array_set_element
<1>9. array_set_element(Live, i, v) = OneD(lb, g)
  <2>1. DOMAIN g = 1 .. len'
    OBVIOUS
  <2>2. [k \in 1 .. len' |-> IF k + lb - 1 = i THEN v ELSE array_get_element(Live, k + lb - 1)]
          = [k \in 1 .. len' |-> g[k]]
    <3> HIDE DEF g, f
    <3> QED BY <1>7
  <2>3. g = [k \in 1 .. len' |-> g[k]]
    OBVIOUS
  <2> HIDE DEF g, f, hi
  <2> QED BY <1>6, <1>8, <2>2, <2>3
<1>10. Flat' = OneD(lb, g)
  BY DEF Flat
<1>11. AV!Assigned(stmt') = array_set_element(Live, i, v)
  BY AbstractAssigned
<1> HIDE DEF f, g, hi
<1> QED BY <1>1, <1>6, <1>9, <1>10, <1>11, NativeStored

LEMMA InRangeShape ==
  ASSUME Shape, UNCHANGED <<native, datum>>, NEW i \in Int, NEW v \in Val,
         i - lb + 1 \in DOMAIN data.cells, StoreInRange(i, v)
  PROVE  /\ Shape' /\ len' = len /\ lb' = lb /\ cap' = cap
         /\ data # NoBuffer /\ data'.at = data.at /\ i - lb + 1 \in 1 .. cap
         /\ ~Flagged(nulls', i - lb + 1) /\ data'.cells[i - lb + 1] = v
         /\ \A k \in 1 .. cap : k # i - lb + 1 =>
              (Flagged(nulls', k) <=> IsNull(k)) /\ data'.cells[k] = data.cells[k]
<1> DEFINE j == i - lb + 1
<1>1. data # NoBuffer
  BY DEF NoBuffer
<1>2. /\ data \in [at : {"stack", "heap"}, cells : [1 .. cap -> Elem \union {Undef}]]
      /\ cap \in Nat /\ j \in 1 .. cap /\ len \in Int /\ lb \in Int
  BY <1>1 DEF Shape
<1>3. len' = len /\ lb' = lb /\ cap' = cap
  BY DEF StoreInRange
<1>4. /\ data'.cells = [data.cells EXCEPT ![j] = v] /\ data'.at = data.at
      /\ data' \in [at : {"stack", "heap"}, cells : [1 .. cap -> Elem \union {Undef}]]
  BY <1>2 DEF StoreInRange, Elem
<1>5. data' # NoBuffer
  BY <1>4 DEF NoBuffer
<1>6. data'.cells[j] = v /\ \A k \in 1 .. cap : k # j => data'.cells[k] = data.cells[k]
  <2> HIDE DEF j
  <2> QED BY <1>2, <1>4
<1>7. /\ ~Flagged(nulls', j) /\ \A k \in 1 .. cap : k # j => (Flagged(nulls', k) <=> IsNull(k))
      /\ nulls' # NoBuffer => nulls' \in [at : {"heap"}, cells : [1 .. cap -> BOOLEAN]]
  <2>1. CASE nulls = NoBuffer
    <3>1. nulls' = NoBuffer
      BY <2>1 DEF StoreInRange
    <3> QED BY <2>1, <3>1 DEF IsNull, Flagged
  <2>2. CASE nulls # NoBuffer
    <3>1. nulls' = [nulls EXCEPT !.cells[j] = FALSE]
      BY <2>2 DEF StoreInRange
    <3>2. nulls \in [at : {"heap"}, cells : [1 .. cap -> BOOLEAN]]
      BY <2>2 DEF Shape
    <3> HIDE DEF j
    <3>3. /\ nulls' \in [at : {"heap"}, cells : [1 .. cap -> BOOLEAN]]
          /\ nulls'.cells = [nulls.cells EXCEPT ![j] = FALSE]
      BY <1>2, <3>1, <3>2
    <3>4. nulls' # NoBuffer
      BY <3>3 DEF NoBuffer
    <3>5. nulls'.cells[j] = FALSE /\ \A k \in 1 .. cap : k # j => nulls'.cells[k] = nulls.cells[k]
      BY <1>2, <3>2, <3>3
    <3> QED BY <2>2, <3>3, <3>4, <3>5, Zenon DEF IsNull, Flagged
  <2> QED BY <2>1, <2>2
<1> HIDE DEF j
<1>8. Filled => Filled'
  <2>1. \A k : IsNull(k)' <=> Flagged(nulls', k)
    BY Zenon DEF IsNull, Flagged
  <2>2. SUFFICES ASSUME Filled, NEW k \in 1 .. len PROVE IsNull(k)' \/ data'.cells[k] \in Val
    BY <1>3, <1>5 DEF Filled
  <2>3. k \in 1 .. cap
    BY <1>2, <2>2 DEF Filled
  <2> QED BY <1>6, <1>7, <2>1, <2>2, <2>3 DEF Filled
<1>9. Shape'
  BY SMTT(30), <1>2, <1>3, <1>4, <1>5, <1>7, <1>8 DEF Shape
<1> QED BY <1>1, <1>2, <1>3, <1>4, <1>6, <1>7, <1>9 DEF j

LEMMA StoreInRangeStep ==
  ASSUME IInv, native, UNCHANGED <<native, datum>>, out' = None,
         NEW i \in Int, i # NULL, NEW v \in Val, stmt' = Stmt("set", NullArray, i, v),
         in_range(i), i - lb + 1 \in DOMAIN data.cells, StoreInRange(i, v)
  PROVE  IInv' /\ AV!Next
<1>1. len > 0 /\ i - lb + 1 \in 1 .. len /\ i # lb + len /\ len <= MaxArraySize /\ len <= cap
  BY SMTT(30), SizeAssumption, CapacityAssumption DEF IInv, Shape, Filled, in_range
<1>2. /\ Shape' /\ len' = len /\ lb' = lb /\ cap' = cap
      /\ ~Flagged(nulls', i - lb + 1) /\ data'.cells[i - lb + 1] = v
      /\ \A k \in 1 .. cap : k # i - lb + 1 =>
           (Flagged(nulls', k) <=> IsNull(k)) /\ data'.cells[k] = data.cells[k]
  BY InRangeShape DEF IInv
<1>3. \A k \in 1 .. len : k \in 1 .. cap
  BY SMTT(30), <1>1 DEF IInv, Shape
<1>4. i - lb + 1 \in 1 .. len + 1 /\ cap' <= MaxArraySize
  BY <1>1, <1>2 DEF IInv, Shape
<1> QED BY <1>1, <1>2, <1>3, <1>4, CellStored

(* The capacity a buffer grows to.                                         *)
LEMMA NewCap ==
  ASSUME cap \in Int, len \in Nat, len < MaxArraySize
  PROVE  newcap \in len + 1 .. MaxArraySize
BY SizeAssumption, CapacityAssumption DEF newcap

(* One past the end, in any state.                                         *)
LEMMA AppendShape ==
  ASSUME Shape, UNCHANGED <<native, datum>>, len >= 0, ~(len >= cap /\ len >= MaxArraySize),
         NEW v \in Val, stmt'.v = v, StoreAppend(v)
  PROVE  /\ Shape' /\ len' = len + 1 /\ lb' = lb /\ data' # NoBuffer
         /\ cap' = cap \/ cap' <= MaxArraySize
         /\ len < cap => data # NoBuffer /\ data'.at = data.at
         /\ ~Flagged(nulls', len + 1) /\ data'.cells[len + 1] = v
         /\ \A k \in 1 .. len :
              (Flagged(nulls', k) <=> IsNull(k)) /\ data'.cells[k] = data.cells[k]
<1> DEFINE old == data.cells
<1>0. MaxArraySize \in Nat /\ MaxAlloc \in Nat /\ MaxArraySize <= MaxAlloc
  BY SizeAssumption, CapacityAssumption
<1>1. /\ len \in 0 .. MaxAlloc /\ cap \in Int /\ cap <= MaxAlloc /\ lb \in Int
      /\ len >= cap => len < MaxArraySize
      /\ len < cap => data # NoBuffer /\ len + 1 <= cap
      /\ len > 0 => Filled
      /\ data # NoBuffer => len <= cap /\ cap \in Nat
  BY <1>0 DEF Shape, Filled
<1>2. len' = len + 1 /\ lb' = lb
  BY DEF StoreAppend
<1>3. Len(old) \in Nat /\ old \in [1 .. Len(old) -> Elem \union {Undef}] /\ len <= Len(old)
  <2>1. CASE data = NoBuffer
    <3>1. old = <<>> /\ Len(old) = 0 /\ len = 0
      BY <1>1, <2>1 DEF NoBuffer, Filled
    <3>2. <<>> \in [1 .. 0 -> Elem \union {Undef}]
      OBVIOUS
    <3> QED BY <3>1, <3>2
  <2>2. CASE data # NoBuffer
    <3>1. old \in [1 .. cap -> Elem \union {Undef}] /\ cap \in Nat
      BY <1>1, <2>2 DEF Shape
    <3>2. Len(old) = cap
      BY <3>1
    <3> QED BY <1>1, <2>2, <3>1, <3>2
  <2> QED BY <2>1, <2>2
<1>4. /\ cap' \in Nat /\ cap' <= MaxAlloc /\ len + 1 <= cap' /\ data' # NoBuffer
      /\ cap' = cap \/ cap' <= MaxArraySize
      /\ len < cap => data # NoBuffer /\ data'.at = data.at
      /\ data' \in [at : {"stack", "heap"}, cells : [1 .. cap' -> Elem \union {Undef}]]
      /\ data'.cells[len + 1] = v
      /\ \A k \in 1 .. len : data'.cells[k] = data.cells[k]
  <2>1. CASE len >= cap
    <3> DEFINE h == [k \in 1 .. newcap |-> IF k <= Len(old) THEN old[k] ELSE Undef]
    <3>1. newcap \in len + 1 .. MaxArraySize
      BY <1>0, <1>1, <2>1, NewCap
    <3>2. cap' = newcap /\ data' = Buffer("heap", [h EXCEPT ![len + 1] = v])
      BY <2>1 DEF StoreAppend, native_array_reserve, Grown
    <3> HIDE DEF old
    <3>3. h \in [1 .. newcap -> Elem \union {Undef}] /\ \A k \in 1 .. len : h[k] = old[k]
      BY <1>0, <1>1, <1>3, <3>1
    <3> HIDE DEF h
    <3> DEFINE h1 == [h EXCEPT ![len + 1] = v]
    <3>4. /\ h1 \in [1 .. newcap -> Elem \union {Undef}]
          /\ h1[len + 1] = v /\ \A k \in 1 .. len : h1[k] = h[k]
      BY <1>0, <1>1, <3>1, <3>3 DEF Elem
    <3> HIDE DEF h1
    <3>5. data'.cells = h1 /\ data' # NoBuffer
      BY <3>2 DEF Buffer, NoBuffer, h1
    <3>6. data' \in [at : {"stack", "heap"}, cells : [1 .. newcap -> Elem \union {Undef}]]
      BY <3>2, <3>4 DEF Buffer, h1
    <3>7. /\ newcap \in Nat /\ newcap <= MaxAlloc /\ newcap <= MaxArraySize /\ len + 1 <= newcap
          /\ ~(len < cap)
      BY <1>0, <1>1, <2>1, <3>1
    <3>8. \A k \in 1 .. len : data'.cells[k] = data.cells[k]
      BY <3>3, <3>4, <3>5, Zenon DEF old
    <3>9. cap' = newcap
      BY <3>2
    <3>10. data'.cells[len + 1] = v
      BY <3>4, <3>5, Zenon
    <3> QED BY <3>5, <3>6, <3>7, <3>8, <3>9, <3>10, Zenon
  <2>2. CASE ~(len >= cap)
    <3>0. data # NoBuffer /\ len + 1 \in 1 .. cap /\ cap \in Nat
      BY <1>1, <2>2
    <3>1. cap' = cap /\ data' = [data EXCEPT !.cells[len + 1] = v]
      BY <2>2 DEF StoreAppend
    <3>2. data \in [at : {"stack", "heap"}, cells : [1 .. cap -> Elem \union {Undef}]]
      BY <3>0 DEF Shape
    <3>3. /\ data'.cells = [data.cells EXCEPT ![len + 1] = v] /\ data'.at = data.at
          /\ data' \in [at : {"stack", "heap"}, cells : [1 .. cap -> Elem \union {Undef}]]
      BY <3>0, <3>1, <3>2 DEF Elem
    <3>4. data' # NoBuffer
      BY <3>3 DEF NoBuffer
    <3>5. data'.cells[len + 1] = v
      BY <3>0, <3>2, <3>3
    <3>6. \A k \in 1 .. len : data'.cells[k] = data.cells[k]
      <4> TAKE k \in 1 .. len
      <4>1. k \in 1 .. cap /\ k # len + 1
        BY <1>1, <3>0
      <4> QED BY <3>2, <3>3, <4>1
    <3>7. cap' = cap /\ len + 1 <= cap /\ cap <= MaxAlloc /\ cap \in Nat
      BY <1>1, <3>0, <3>1
    <3> QED BY <3>0, <3>3, <3>4, <3>5, <3>6, <3>7, Zenon
  <2> QED BY <2>1, <2>2
<1> HIDE DEF old
<1>5. /\ nulls' # NoBuffer => nulls' \in [at : {"heap"}, cells : [1 .. cap' -> BOOLEAN]]
      /\ ~Flagged(nulls', len + 1)
      /\ \A k \in 1 .. len : Flagged(nulls', k) <=> IsNull(k)
  <2>1. CASE nulls = NoBuffer
    <3>1. nulls' = NoBuffer
      BY <2>1 DEF StoreAppend, native_array_reserve
    <3> QED BY <2>1, <3>1 DEF IsNull, Flagged
  <2>2. CASE nulls # NoBuffer
    <3>1. nulls \in [at : {"heap"}, cells : [1 .. cap -> BOOLEAN]] /\ data # NoBuffer
      BY <2>2 DEF Shape
    <3>0. len <= cap /\ cap \in Nat
      BY <1>1, <3>1
    <3>2. Len(nulls.cells) = cap /\ nulls.cells \in [1 .. cap -> BOOLEAN]
      BY <3>0, <3>1
    <3>3. CASE len >= cap
      <4> DEFINE h == [k \in 1 .. newcap |-> IF k <= Len(nulls.cells) THEN nulls.cells[k] ELSE FALSE]
      <4>1. newcap \in len + 1 .. MaxArraySize
        BY <1>0, <1>1, <3>3, NewCap
      <4>2. cap' = newcap /\ nulls' = Buffer("heap", h)
        BY <2>2, <3>3 DEF StoreAppend, native_array_reserve, Grown
      <4>3. h \in [1 .. newcap -> BOOLEAN] /\ ~h[len + 1] /\ \A k \in 1 .. len : h[k] = nulls.cells[k]
        <5>1. newcap \in Nat /\ len + 1 \in 1 .. newcap /\ ~(len + 1 <= cap)
          BY <1>0, <1>1, <3>0, <3>3, <4>1
        <5>2. h[len + 1] = FALSE
          BY <3>2, <5>1
        <5>3. \A k \in 1 .. len : h[k] = nulls.cells[k]
          <6> TAKE k \in 1 .. len
          <6>1. k \in 1 .. newcap /\ k <= Len(nulls.cells)
            BY <1>1, <3>0, <3>2, <5>1
          <6> QED BY <6>1, Zenon
        <5>4. \A k \in 1 .. newcap : k <= cap => nulls.cells[k] \in BOOLEAN
          BY <3>0, <3>2, <5>1
        <5>5. h \in [1 .. newcap -> BOOLEAN]
          BY <3>2, <5>4
        <5> QED BY <5>2, <5>3, <5>5
      <4> HIDE DEF h
      <4>4. nulls'.cells = h /\ nulls' # NoBuffer
        BY <4>2 DEF Buffer, NoBuffer
      <4>5. nulls' \in [at : {"heap"}, cells : [1 .. cap' -> BOOLEAN]]
        BY <4>2, <4>3 DEF Buffer
      <4> QED BY <2>2, <4>3, <4>4, <4>5, Zenon DEF IsNull, Flagged
    <3>4. CASE ~(len >= cap)
      <4>1. cap' = cap /\ nulls' = [nulls EXCEPT !.cells[len + 1] = FALSE]
        BY <2>2, <3>4 DEF StoreAppend
      <4>2. len + 1 \in 1 .. cap
        BY <1>1, <3>4
      <4>3. /\ nulls'.cells = [nulls.cells EXCEPT ![len + 1] = FALSE]
            /\ nulls' \in [at : {"heap"}, cells : [1 .. cap -> BOOLEAN]]
        BY <3>1, <4>1, <4>2
      <4>4. nulls' # NoBuffer
        BY <4>3 DEF NoBuffer
      <4>5. nulls'.cells[len + 1] = FALSE
        BY <3>2, <4>2, <4>3
      <4>6. \A k \in 1 .. len : nulls'.cells[k] = nulls.cells[k]
        <5> TAKE k \in 1 .. len
        <5>1. k \in 1 .. cap /\ k # len + 1
          BY <1>1, <3>0
        <5> QED BY <3>2, <4>3, <5>1
      <4> QED BY <2>2, <4>1, <4>3, <4>4, <4>5, <4>6, Zenon DEF IsNull, Flagged
    <3> QED BY <3>3, <3>4
  <2> QED BY <2>1, <2>2
<1>6. Filled'
  <2>1. \A k : IsNull(k)' <=> Flagged(nulls', k)
    BY Zenon DEF IsNull, Flagged
  <2>2. ASSUME NEW k \in 1 .. len + 1 PROVE IsNull(k)' \/ data'.cells[k] \in Val
    <3>1. CASE k = len + 1
      BY <1>4, <3>1, Zenon
    <3>2. CASE k # len + 1
      <4>1. k \in 1 .. len /\ len > 0
        BY <1>1, <2>2, <3>2
      <4>2. IsNull(k) \/ data.cells[k] \in Val
        BY <1>1, <4>1 DEF Filled
      <4> QED BY <1>4, <1>5, <2>1, <4>1, <4>2, Zenon
    <3> QED BY <3>1, <3>2
  <2> QED BY <1>2, <1>4, <2>2 DEF Filled
<1>7. Shape'
  BY SMTT(30), <1>1, <1>2, <1>4, <1>5, <1>6 DEF Shape
<1> QED BY <1>2, <1>4, <1>5, <1>7, Zenon

(* One past the end of an array that holds elements.                       *)
LEMMA StoreAppendStep ==
  ASSUME IInv, native, len > 0, UNCHANGED <<native, datum>>, out' = None,
         NEW i \in Int, i # NULL, NEW v \in Val, stmt' = Stmt("set", NullArray, i, v),
         is_append(i), len < MaxArraySize, StoreAppend(v)
  PROVE  IInv' /\ AV!Next
<1>1. /\ len \in Int /\ lb \in Int /\ i - lb + 1 = len + 1 /\ i = lb + len
      /\ cap \in Int /\ cap <= MaxArraySize /\ Shape
  BY DEF IInv, Shape, is_append
<1>2. stmt'.v = v /\ len >= 0 /\ ~(len >= cap /\ len >= MaxArraySize)
  BY <1>1, SizeAssumption DEF Stmt
<1>3. /\ Shape' /\ len' = len + 1 /\ lb' = lb
      /\ cap' = cap \/ cap' <= MaxArraySize
      /\ ~Flagged(nulls', len + 1) /\ data'.cells[len + 1] = v
      /\ \A k \in 1 .. len : (Flagged(nulls', k) <=> IsNull(k)) /\ data'.cells[k] = data.cells[k]
  BY <1>1, <1>2, AppendShape, Zenon
<1>4. /\ i - lb + 1 \in 1 .. len + 1 /\ len' <= MaxArraySize /\ cap' <= MaxArraySize
      /\ i = lb + len
  BY <1>1, <1>3, SizeAssumption
<1>5. ~Flagged(nulls', i - lb + 1) /\ data'.cells[i - lb + 1] = v
  BY <1>1, <1>3
<1> QED BY <1>3, <1>4, <1>5, CellStored

(* The first element of an array that holds none.                          *)
LEMMA StoreFirstStep ==
  ASSUME IInv, native, len = 0, UNCHANGED <<native, datum>>, out' = None,
         NEW i \in Int, i # NULL, NEW v \in Val, stmt' = Stmt("set", NullArray, i, v),
         is_append(i), StoreAppend(v)
  PROVE  IInv' /\ AV!Next
<1>1. /\ lb \in Int /\ i = lb /\ cap = 0 /\ Shape /\ datum \in {NullArray, EmptyArray}
  BY DEF IInv, Shape, Vacant, is_append
<1>2. stmt'.v = v /\ len >= 0 /\ ~(len >= cap /\ len >= MaxArraySize)
  BY <1>1, SizeAssumption DEF Stmt
<1>3. /\ Shape' /\ len' = len + 1 /\ lb' = lb
      /\ cap' = cap \/ cap' <= MaxArraySize
      /\ ~Flagged(nulls', len + 1) /\ data'.cells[len + 1] = v
  BY <1>1, <1>2, AppendShape, Zenon
<1>4. len' = 1 /\ len + 1 = 1 /\ len' \in 1 .. MaxArraySize /\ cap' <= MaxArraySize
  BY <1>1, <1>3, SizeAssumption
<1>5. ~IsNull(1)' /\ data'.cells[1] = v
  BY <1>3, <1>4 DEF IsNull, Flagged
<1>6. Flat' = OneD(i, <<v>>)
  <2>1. [k \in 1 .. 1 |-> IF IsNull(k)' THEN NULL ELSE data'.cells[k]] = [k \in 1 .. 1 |-> v]
    BY <1>5
  <2>2. [k \in 1 .. 1 |-> v] = <<v>>
    OBVIOUS
  <2> QED BY <1>1, <1>3, <1>4, <2>1, <2>2 DEF Flat
<1>7. AV!Assigned(stmt') = OneD(i, <<v>>)
  <2>1. Live = datum
    BY DEF Live
  <2>2. array_set_element(Live, i, v) = OneD(i, <<v>>)
    BY <1>1, <2>1 DEF array_set_element, NullArray, EmptyArray
  <2> QED BY <2>2, AbstractAssigned
<1> QED BY <1>3, <1>4, <1>6, <1>7, NativeStored

LEMMA SetNativeStep ==
  ASSUME IInv, NEW i \in Subscript \union {NULL}, NEW v \in Elem, SetNative(i, v)
  PROVE  IInv' /\ AV!Next
<1>1. native /\ stmt' = Stmt("set", NullArray, i, v) /\ UNCHANGED native
  BY DEF SetNative
<1>2. CASE i = NULL
  <2>1. AV!Assigned(stmt') = Failure
    BY SMTT(30), <1>1, <1>2, AbstractAssigned
  <2> QED BY <1>1, <1>2, <2>1, RaisedStep DEF SetNative
<1>3. CASE /\ i # NULL /\ v # NULL /\ in_range(i) /\ UNCHANGED datum
           /\ IF i - lb + 1 \in DOMAIN data.cells THEN StoreInRange(i, v) /\ out' = None
              ELSE out' = Wild /\ UNCHANGED flat
  <2>1. i \in Int /\ v \in Val
    BY <1>3, SubscriptAssumption DEF Elem
  <2>2. i - lb + 1 \in DOMAIN data.cells
    <3>0. len \in Int /\ lb \in Int /\ len <= MaxArraySize
      BY <1>1, HeaderTypes
    <3>1. len \in 1 .. MaxAlloc /\ i - lb + 1 \in 1 .. len
      BY SMTT(30), <1>3, <2>1, <3>0, SizeAssumption, CapacityAssumption DEF in_range
    <3>2. data # NoBuffer /\ len <= cap /\ cap \in Nat /\ DOMAIN data.cells = 1 .. cap
      BY <3>1 DEF IInv, Shape, Filled
    <3> QED BY <3>1, <3>2
  <2> QED BY ZenonT(30), <1>1, <1>3, <2>1, <2>2, StoreInRangeStep
<1>4. CASE /\ i # NULL /\ v # NULL /\ is_append(i)
           /\ IF len >= cap /\ len >= MaxArraySize THEN Raise(datum)
              ELSE StoreAppend(v) /\ out' = None /\ UNCHANGED datum
  <2>1. i \in Int /\ v \in Val
    BY <1>4, SubscriptAssumption DEF Elem
  <2>2. len \in 0 .. MaxArraySize /\ lb \in Int /\ i = lb + len
    BY <1>1, <1>4, HeaderTypes, SizeAssumption DEF is_append
  <2>3. CASE len = 0
    BY <1>1, <1>4, <2>1, <2>3, SizeAssumption, StoreFirstStep
  <2>4. CASE len > 0 /\ len < MaxArraySize
    <3>1. ~(len >= MaxArraySize)
      BY <2>2, <2>4, SizeAssumption
    <3> QED BY <1>1, <1>4, <2>1, <2>4, <3>1, StoreAppendStep
  <2>5. CASE len > 0 /\ len >= MaxArraySize
    <3> DEFINE f == [k \in 1 .. len |-> IF IsNull(k) THEN NULL ELSE data.cells[k]]
    <3>1. len >= cap /\ Raise(datum)
      BY <1>1, <1>4, <2>2, <2>5, SizeAssumption DEF IInv, Shape
    <3>2. f \in [1 .. len -> Elem]
      <4>1. Filled
        BY SMTT(30), <1>1, <2>2, <2>5, SizeAssumption, CapacityAssumption DEF IInv, Shape
      <4> QED BY <4>1 DEF Filled, Elem
    <3>3. Live.ndim = 1 /\ Live.lb = lb /\ Live.elems = f
      BY <1>1, <2>5 DEF Live, Flat, OneD
    <3> HIDE DEF f
    <3>4. Upper(Live) = lb + len - 1
      BY <2>2, <2>5, <3>2, <3>3, OneDIsArray DEF Upper
    <3>5. array_set_element(Live, i, v) = Failure
      BY <2>1, <2>2, <2>5, <3>3, <3>4, SizeAssumption DEF array_set_element
    <3>6. AV!Assigned(stmt') = Failure
      BY <1>1, <1>4, <3>5, AbstractAssigned
    <3> QED BY <1>1, <3>1, <3>6, RaisedStep
  <2> QED BY <2>2, <2>3, <2>4, <2>5, SizeAssumption
<1>5. CASE i # NULL /\ StoreSlow(i, v)
  <2>1. i \in Int
    BY <1>5, SubscriptAssumption
  <2>2. StoreAndRefresh(array_set_element(Live, i, v))
    BY <1>5, SyncIsLive DEF StoreSlow, From
  <2> QED BY <1>1, <1>5, <2>1, <2>2, SetStored
<1> QED BY SMTT(30), <1>2, <1>3, <1>4, <1>5 DEF SetNative

-----------------------------------------------------------------------------
(* Each statement keeps the invariant and is a statement on one variable.  *)
LEMMA StepIInv ==
  ASSUME IInv, Next, intact'
  PROVE  IInv' /\ AV!Next
BY SMTT(30), WriteStep, ReadStep, AppendFallbackStep, AssignOtherStep, FillStep, SetNativeStep,
   SetDatumStep, GetStep DEF Next, Statement

LEMMA InitIInv == Init => IInv
<1> SUFFICES ASSUME Init PROVE IInv
  OBVIOUS
<1>1. PICK is_param \in BOOLEAN, elem_ok \in BOOLEAN, analysed \in {{}, {"raise"}, {"exit"}} :
        /\ native = uplpgsql_analyze_native_arrays(is_param, elem_ok, analysed)
        /\ datum \in IF is_param THEN Source ELSE {NullArray}
  BY Zenon DEF Init
<1>2. native \in BOOLEAN
  BY <1>1, Zenon DEF uplpgsql_analyze_native_arrays
<1>3. native => datum = NullArray
  BY <1>1 DEF uplpgsql_analyze_native_arrays
<1>4. IsArray(datum)
  BY <1>1, SourceAssumption DEF IsArray
<1>5. data = NoBuffer /\ nulls = NoBuffer /\ len = 0 /\ lb = 1 /\ cap = 0
  BY DEF Init
<1> QED BY <1>2, <1>3, <1>4, <1>5, SizeAssumption, CapacityAssumption DEF IInv, Shape, Vacant

(* A statement is intact only if all before it were.                       *)
LEMMA IntactBefore ==
  ASSUME Next, intact'
  PROVE  intact
<1>1. \A ok : DepartsUnless(ok) => intact
  BY Zenon DEF DepartsUnless
<1>2. UNCHANGED intact \/ \E ok : DepartsUnless(ok)
  BY Zenon DEF Next, Statement, Write, Read, AppendFallback, AssignOther, Fill, SetNative,
               SetDatum, Get
<1> QED BY <1>1, <1>2, Zenon

(* The flat copy and the Datum together behave as one array variable: each *)
(* read, interpreted or compiled, delivers what the last statement left,   *)
(* and a statement that raises changes nothing                             *)
(* (upl_compile_stmts.c:2381-2586), as long as no statement has departed   *)
(* from PL/pgSQL.                                                          *)
THEOREM Implements == Spec => ImplementsArrayVar
<1>1. Init => AV!Init
  BY AbstractFunctions DEF Init, AV!Init, Stmt, None
<1>2. Init => (intact => IInv)
  BY InitIInv
<1>3. (intact => IInv) /\ [Next]_vars => (intact => IInv)' /\ [intact' => AV!Next]_vars
  <2> SUFFICES ASSUME intact => IInv, [Next]_vars
               PROVE  (intact => IInv)' /\ [intact' => AV!Next]_vars
    OBVIOUS
  <2>1. CASE UNCHANGED vars
    <3>1. UNCHANGED <<native, datum, flat, intact>>
      BY <2>1 DEF vars
    <3>2. IInv => IInv'
      BY <3>1, KeepsLive
    <3> QED BY <2>1, <3>1, <3>2
  <2>2. CASE Next /\ intact'
    BY <2>2, IntactBefore, StepIInv
  <2> QED BY <2>1, <2>2
<1> QED BY <1>1, <1>2, <1>3, PTL DEF Spec, ImplementsArrayVar

-----------------------------------------------------------------------------
(* The buffers, whatever the program does.                                 *)
LEMMA SyncIsArray ==
  ASSUME Shape
  PROVE  sync = Failure \/ IsArray(sync)
<1>1. CASE native /\ data # NoBuffer /\ len > 0 /\ ~(len > MaxArraySize)
  <2> DEFINE f == [k \in 1 .. len |-> IF IsNull(k) THEN NULL ELSE data.cells[k]]
  <2>1. len \in 1 .. MaxArraySize /\ lb \in Int /\ Filled
    BY <1>1, SizeAssumption, CapacityAssumption DEF Shape
  <2>2. f \in [1 .. len -> Elem]
    BY <2>1 DEF Filled, Elem
  <2>3. sync = OneD(lb, f)
    <3>1. ~(len <= 0)
      BY <2>1, SizeAssumption
    <3> QED BY <1>1, <3>1, Zenon DEF sync, native_array_to_datum, Flat
  <2> HIDE DEF f
  <2> QED BY <2>1, <2>2, <2>3, OneDIsArray
<1>2. CASE ~(native /\ data # NoBuffer /\ len > 0 /\ ~(len > MaxArraySize))
  BY <1>2 DEF Shape, sync, native_array_to_datum
<1> QED BY <1>1, <1>2

(* is_heap tells where the buffer is.                                      *)
Bookkept == data = NoBuffer \/ is_heap = (data.at = "heap")

LEMMA SameBuffers ==
  ASSUME Shape, Bookkept, IsArray(datum'), UNCHANGED <<native, flat>>
  PROVE  Shape' /\ Bookkept'
<1>1. /\ native' = native /\ data' = data /\ nulls' = nulls /\ len' = len /\ lb' = lb
      /\ cap' = cap /\ is_heap' = is_heap
  BY Zenon DEF flat
<1>2. Filled' <=> Filled
  BY SMTT(30), <1>1 DEF Filled, IsNull
<1>3. Shape'
  BY <1>1, <1>2 DEF Shape
<1> QED BY <1>1, <1>3, Zenon DEF Bookkept

LEMMA RefreshBuffers ==
  ASSUME Shape, Bookkept, NEW d, IsArray(d), refresh(d), UNCHANGED native
  PROVE  Shape' /\ Bookkept'
<1>1. Shape'
  BY RefreshIsLive DEF IInv
<1>2. CASE ~native
  BY <1>1, <1>2, Zenon DEF refresh, Bookkept, flat
<1>3. CASE native
  <2>1. is_heap' = TRUE /\ data' = native_array_from_datum(d).data
    BY <1>3, Zenon DEF refresh
  <2>2. data' = NoBuffer \/ data'.at = "heap"
    BY <2>1 DEF native_array_from_datum, Buffer
  <2> QED BY <1>1, <2>1, <2>2, Zenon DEF Bookkept
<1> QED BY <1>2, <1>3

LEMMA RaiseBuffers ==
  ASSUME Shape, Bookkept, NEW d \in {datum, sync}, Raise(d), UNCHANGED native
  PROVE  Shape' /\ Bookkept' /\ out' = Error
<1>1. IsArray(datum')
  BY SyncIsArray DEF Raise, Shape
<1> QED BY <1>1, SameBuffers DEF Raise

LEMMA StoredBuffers ==
  ASSUME Shape, Bookkept, NEW d, d = Failure \/ IsArray(d), StoreAndRefresh(d), UNCHANGED native
  PROVE  Shape' /\ Bookkept' /\ out' \in {None, Error}
<1>1. CASE d = Failure
  BY <1>1, RaiseBuffers DEF StoreAndRefresh
<1>2. CASE d # Failure
  BY <1>2, RefreshBuffers DEF StoreAndRefresh
<1> QED BY <1>1, <1>2

(* Memory outside the buffers is touched for one of these reasons.         *)
Cause == stmt.op = "fill" \/ len > MaxAlloc \/ (stmt.op = "get" /\ nulls # NoBuffer)

LEMMA NotWild ==
  /\ None # Wild /\ Error # Wild
  /\ \A d : <<"array", d>> # Wild /\ <<"elem", d>> # Wild
BY DEF None, Error, Wild

LEMMA FillBuffers ==
  ASSUME Shape, Bookkept, NEW n \in FillSize \union {NULL}, NEW v \in Elem, NEW l \in FillBound,
         Fill(n, v, l)
  PROVE  Shape' /\ Bookkept' /\ (out' = Wild => Cause')
<1>1. Cause'
  BY DEF Fill, Cause, Stmt
<1>2. CASE ~native
  <2>1. l \in Int
    BY FillAssumption
  <2> QED BY <1>1, <1>2, <2>1, FillIsArray, StoredBuffers DEF Fill
<1>3. CASE native
  <2>1. PICK m \in FillSize, w \in Val : FillNative(m, w)
    BY <1>3 DEF Fill, Elem
  <2>2. UNCHANGED <<native, datum>> /\ m \in Int
    BY <1>3, FillAssumption DEF Fill
  <2>3. CASE m < 0
    <3>1. UNCHANGED flat
      BY <2>1, <2>3, Zenon DEF FillNative
    <3> QED BY <1>1, <2>2, <3>1, SameBuffers DEF Shape
  <2>4. CASE ~(m < 0) /\ m > MaxAlloc
    <3>1. /\ len' = m /\ lb' = 1 /\ nulls' = NoBuffer
          /\ data' = data /\ cap' = cap /\ is_heap' = is_heap
      BY <2>1, <2>4, Zenon DEF FillNative
    <3>2. ~(len' \in 1 .. MaxAlloc)
      BY SMTT(30), <2>2, <2>4, <3>1, CapacityAssumption
    <3>3. Shape'
      BY <2>2, <3>1, <3>2 DEF Shape
    <3> QED BY <1>1, <3>1, <3>3, Zenon DEF Bookkept
  <2>5. CASE ~(m < 0) /\ ~(m > MaxAlloc)
    <3>1. m \in 0 .. MaxAlloc
      BY <2>2, <2>5, CapacityAssumption
    <3>2. Shape'
      BY <2>1, <2>2, <3>1, FillShape
    <3>3. /\ is_heap' = (m > StackMax)
          /\ data' = Buffer(IF m > StackMax THEN "heap" ELSE "stack", [k \in 1 .. m |-> w])
      BY <2>1, <2>5, Zenon DEF FillNative, FillBuffer
    <3>4. data'.at = IF m > StackMax THEN "heap" ELSE "stack"
      BY <3>3 DEF Buffer
    <3>5. CASE m > StackMax
      BY <1>1, <3>2, <3>3, <3>4, <3>5, Zenon DEF Bookkept
    <3>6. CASE ~(m > StackMax)
      <4>1. data'.at # "heap"
        BY <3>4, <3>6
      <4>2. (m > StackMax) = FALSE /\ (data'.at = "heap") = FALSE
        BY <3>6, <4>1
      <4>3. is_heap' = (data'.at = "heap")
        BY <3>3, <4>2, Zenon
      <4> QED BY <1>1, <3>2, <4>3, Zenon DEF Bookkept
    <3> QED BY <3>5, <3>6
  <2> QED BY <2>3, <2>4, <2>5
<1> QED BY <1>2, <1>3

(* An element in range that is not in the buffer is one of too many.       *)
LEMMA InBuffer ==
  ASSUME Shape, NEW i \in Int, in_range(i), ~(i - lb + 1 \in DOMAIN data.cells)
  PROVE  len > MaxAlloc
<1>1. len \in Int /\ len >= 1 /\ i - lb + 1 \in 1 .. len
  BY DEF Shape, in_range
<1>2. ASSUME len \in 1 .. MaxAlloc PROVE FALSE
  <2>1. data # NoBuffer /\ len <= cap /\ cap \in Nat /\ DOMAIN data.cells = 1 .. cap
    BY SMTT(30), <1>2 DEF Shape, Filled
  <2> QED BY <1>1, <2>1
<1> QED BY <1>1, <1>2, CapacityAssumption

LEMMA SetNativeBuffers ==
  ASSUME Shape, Bookkept, NEW i \in Subscript \union {NULL}, NEW v \in Elem, SetNative(i, v)
  PROVE  Shape' /\ Bookkept' /\ (out' = Wild => Cause')
<1>1. native /\ UNCHANGED native /\ stmt' = Stmt("set", NullArray, i, v)
  BY ZenonT(30) DEF SetNative
<1>2. CASE i = NULL
  BY ZenonT(30), <1>1, <1>2, RaiseBuffers, NotWild DEF SetNative
<1>3. CASE /\ i # NULL /\ v # NULL /\ in_range(i) /\ UNCHANGED datum
           /\ IF i - lb + 1 \in DOMAIN data.cells THEN StoreInRange(i, v) /\ out' = None
              ELSE out' = Wild /\ UNCHANGED flat
  <2>1. i \in Int /\ v \in Val
    BY <1>3, SubscriptAssumption DEF Elem
  <2>2. CASE i - lb + 1 \in DOMAIN data.cells
    <3>1. Shape' /\ data # NoBuffer /\ data'.at = data.at
      BY <1>1, <1>3, <2>1, <2>2, InRangeShape
    <3>2. is_heap' = is_heap /\ out' = None
      BY <1>3, <2>2, Zenon DEF StoreInRange
    <3> QED BY <3>1, <3>2, NotWild, Zenon DEF Bookkept
  <2>3. CASE ~(i - lb + 1 \in DOMAIN data.cells)
    <3>1. len > MaxAlloc
      BY <1>3, <2>1, <2>3, InBuffer
    <3>2. UNCHANGED flat /\ len' = len
      BY <1>3, <2>3, ZenonT(30) DEF flat
    <3>3. Shape' /\ Bookkept'
      BY <1>1, <1>3, <3>2, SameBuffers DEF Shape
    <3> QED BY <3>1, <3>2, <3>3 DEF Cause
  <2> QED BY SMTT(30), <2>2, <2>3
<1>4. CASE /\ i # NULL /\ v # NULL /\ is_append(i)
           /\ IF len >= cap /\ len >= MaxArraySize THEN Raise(datum)
              ELSE StoreAppend(v) /\ out' = None /\ UNCHANGED datum
  <2>1. CASE len >= cap /\ len >= MaxArraySize
    BY <1>1, <1>4, <2>1, RaiseBuffers, NotWild
  <2>2. CASE ~(len >= cap /\ len >= MaxArraySize)
    <3>1. v \in Val /\ stmt'.v = v /\ len >= 0 /\ len \in Int /\ cap \in Int
      BY <1>1, <1>4 DEF Elem, Stmt, is_append, Shape
    <3>2. StoreAppend(v) /\ out' = None /\ UNCHANGED <<native, datum>>
      BY SMTT(30), <1>1, <1>4, <2>2
    <3>3. Shape' /\ data' # NoBuffer /\ (len < cap => data # NoBuffer /\ data'.at = data.at)
      BY <2>2, <3>1, <3>2, AppendShape
    <3>4. CASE len >= cap
      <4>1. is_heap' = TRUE /\ data'.at = "heap"
        BY <3>2, <3>4 DEF StoreAppend, native_array_reserve, Buffer
      <4> QED BY <3>2, <3>3, <4>1, NotWild, Zenon DEF Bookkept
    <3>5. CASE ~(len >= cap)
      <4>1. is_heap' = is_heap
        BY <3>2, <3>5, Zenon DEF StoreAppend
      <4>2. data # NoBuffer /\ data'.at = data.at
        BY SMTT(30), <3>1, <3>3, <3>5
      <4> QED BY <3>2, <3>3, <4>1, <4>2, NotWild, Zenon DEF Bookkept
    <3> QED BY SMTT(30), <3>4, <3>5
  <2> QED BY SMTT(30), <2>1, <2>2
<1>5. CASE i # NULL /\ StoreSlow(i, v)
  <2>1. i \in Int
    BY <1>5, SubscriptAssumption
  <2>2. From(sync, array_set_element(sync, i, v)) = Failure
        \/ IsArray(From(sync, array_set_element(sync, i, v)))
    BY <2>1, SyncIsArray, SetElementIsArray DEF From
  <2> QED BY <1>1, <1>5, <2>2, StoredBuffers, NotWild DEF StoreSlow
<1> QED BY SMTT(30), <1>2, <1>3, <1>4, <1>5 DEF SetNative

LEMMA GetBuffers ==
  ASSUME Shape, Bookkept, NEW i \in Subscript \union {NULL}, Get(i)
  PROVE  Shape' /\ Bookkept' /\ (out' = Wild => Cause')
<1>1. UNCHANGED <<native, datum, flat>> /\ stmt' = Stmt("get", NullArray, i, NULL)
  BY SMTT(30) DEF Get
<1>2. Shape' /\ Bookkept'
  BY <1>1, SameBuffers DEF Shape
<1>3. stmt'.op = "get" /\ nulls' = nulls /\ len' = len
  BY <1>1 DEF Stmt, flat
<1>4. ASSUME out' = Wild PROVE nulls # NoBuffer \/ len > MaxAlloc
  <2>1. native
    BY <1>4, NotWild DEF Get
  <2>2. CASE i = NULL
    BY <1>4, <2>1, <2>2, NotWild DEF Get, FlagOutside
  <2>3. CASE i # NULL
    <3>1. GetNative(i) /\ i \in Int
      BY <2>1, <2>3, SubscriptAssumption DEF Get
    <3>2. FlagOutside(i) \/ (in_range(i) /\ ~(i - lb + 1 \in DOMAIN data.cells))
      BY SMTT(30), <1>4, <3>1, NotWild DEF GetNative
    <3> QED BY <3>1, <3>2, InBuffer DEF FlagOutside
  <2> QED BY <2>2, <2>3
<1> QED BY <1>2, <1>3, <1>4 DEF Cause

LEMMA StepBuffers ==
  ASSUME Shape, Bookkept, Next
  PROVE  Shape' /\ Bookkept' /\ (out' = Wild => Cause')
<1>0. IsArray(datum) /\ (sync = Failure \/ IsArray(sync))
  BY SyncIsArray DEF Shape
<1>1. ASSUME NEW k \in Writer, NEW a \in Source, Write(k, a)
      PROVE  Shape' /\ Bookkept' /\ out' = None
  <2>1. IsArray(a) /\ UNCHANGED native /\ out' = None
    BY <1>1, SourceAssumption DEF Write
  <2>2. CASE k \in RefreshedWriter
    BY <1>1, <2>1, <2>2, RefreshBuffers DEF Write
  <2>3. CASE k \notin RefreshedWriter
    BY <1>1, <2>1, <2>3, SameBuffers DEF Write
  <2> QED BY <2>2, <2>3
<1>2. ASSUME NEW k \in Reader, Read(k)
      PROVE  Shape' /\ Bookkept' /\ (out' = Error \/ \E d : out' = <<"array", d>>)
  <2> DEFINE d == IF k \in SyncedReader THEN sync ELSE datum
  <2>1. d \in {datum, sync} /\ UNCHANGED native
    BY <1>2 DEF Read
  <2>2. IF d = Failure THEN Raise(d)
        ELSE datum' = d /\ out' = <<"array", d>> /\ UNCHANGED flat
    BY <1>2, Zenon DEF Read
  <2> HIDE DEF d
  <2>3. CASE d = Failure
    BY <2>1, <2>2, <2>3, RaiseBuffers
  <2>4. CASE d # Failure
    BY <1>0, <2>1, <2>2, <2>4, SameBuffers
  <2> QED BY <2>3, <2>4
<1>3. \A prepared \in BOOLEAN, reads \in BOOLEAN :
        sync_native_arrays_for_expr(prepared, reads) \in {datum, sync}
  BY DEF sync_native_arrays_for_expr
<1>4. ASSUME NEW v \in Elem, NEW prepared \in BOOLEAN, AppendFallback(v, prepared)
      PROVE  Shape' /\ Bookkept' /\ out' \in {None, Error}
  <2> DEFINE d == sync_native_arrays_for_expr(prepared, TRUE)
  <2>1. d = Failure \/ IsArray(d)
    BY <1>0, <1>3
  <2>2. StoreAndRefresh(From(d, array_append(d, v))) /\ UNCHANGED native
    BY <1>4, Zenon DEF AppendFallback
  <2> HIDE DEF d
  <2>3. From(d, array_append(d, v)) = Failure \/ IsArray(From(d, array_append(d, v)))
    BY <2>1, AppendIsArray DEF From
  <2> QED BY <2>2, <2>3, StoredBuffers
<1>5. ASSUME NEW prepared \in BOOLEAN, NEW reads \in BOOLEAN, AssignOther(prepared, reads)
      PROVE  Shape' /\ Bookkept' /\ (out' \in {None, Error} \/ \E d : out' = <<"array", d>>)
  <2> DEFINE d == sync_native_arrays_for_expr(prepared, reads)
  <2>1. d \in {datum, sync} /\ UNCHANGED native
    BY <1>3, <1>5 DEF AssignOther
  <2>2. IF d = Failure THEN Raise(d)
        ELSE datum' = d /\ UNCHANGED flat /\ out' = (IF reads THEN <<"array", d>> ELSE None)
    BY <1>5, Zenon DEF AssignOther
  <2> HIDE DEF d
  <2>3. CASE d = Failure
    BY <2>1, <2>2, <2>3, RaiseBuffers
  <2>4. CASE d # Failure
    BY <1>0, <2>1, <2>2, <2>4, SameBuffers
  <2> QED BY <2>3, <2>4
<1>6. ASSUME NEW i \in Subscript \union {NULL}, NEW v \in Elem, NEW prepared \in BOOLEAN,
             SetDatum(i, v, prepared)
      PROVE  Shape' /\ Bookkept' /\ out' \in {None, Error}
  <2> DEFINE d == sync_native_arrays_for_expr(prepared, TRUE)
  <2>1. d \in {datum, sync} /\ (d = Failure \/ IsArray(d)) /\ UNCHANGED native
    BY <1>0, <1>3, <1>6 DEF SetDatum
  <2>2. IF i = NULL THEN Raise(d) ELSE StoreAndRefresh(From(d, array_set_element(d, i, v)))
    BY <1>6, Zenon DEF SetDatum
  <2> HIDE DEF d
  <2>3. CASE i = NULL
    BY <2>1, <2>2, <2>3, RaiseBuffers
  <2>4. CASE i # NULL
    <3>1. From(d, array_set_element(d, i, v)) = Failure
          \/ IsArray(From(d, array_set_element(d, i, v)))
      BY <2>1, <2>4, SubscriptAssumption, SetElementIsArray DEF From
    <3> QED BY <2>1, <2>2, <2>4, <3>1, StoredBuffers
  <2> QED BY <2>3, <2>4
<1> QED BY ZenonT(30), <1>1, <1>2, <1>4, <1>5, <1>6, FillBuffers, SetNativeBuffers, GetBuffers, NotWild
        DEF Next, Statement

(* Buffers have the capacity the code believes in and hold the elements it *)
(* counts, only memory of palloc is freed, and an access outside them has  *)
(* one of three causes, whatever statements the program runs and for every *)
(* size of arrays, of allocations and of the stack buffer                  *)
(* (upl_compile_expr.c:4600-4790, upl_runtime.c:1803).                     *)
THEOREM BuffersSafe == Spec => []BuffersHoldTheArray
<1> DEFINE Safe == Shape /\ Bookkept /\ (out = Wild => Cause)
<1>1. Init => Safe
  <2>1. Init => Shape
    BY InitIInv DEF IInv
  <2> QED BY <2>1, NotWild, Zenon DEF Init, Bookkept
<1>2. Safe /\ [Next]_vars => Safe'
  <2> SUFFICES ASSUME Safe, [Next]_vars PROVE Safe'
    BY SMTT(30)
  <2>1. CASE UNCHANGED vars
    <3>1. UNCHANGED <<native, flat>> /\ datum' = datum /\ out' = out /\ stmt' = stmt
      BY <2>1 DEF vars
    <3>2. Cause' <=> Cause
      BY <3>1 DEF Cause, flat
    <3> QED BY <3>1, <3>2, SameBuffers DEF Shape
  <2>2. CASE Next
    BY <2>2, StepBuffers
  <2> QED BY <2>1, <2>2
<1>3. Safe => BuffersHoldTheArray
  <2> SUFFICES ASSUME Safe PROVE BuffersHoldTheArray
    OBVIOUS
  <2>1. is_heap = (data.at = "heap") \/ data = NoBuffer
    BY Zenon DEF Bookkept
  <2>2. data # NoBuffer => Len(data.cells) = cap
    <3>1. ASSUME data # NoBuffer PROVE cap \in Nat /\ data.cells \in [1 .. cap -> Elem \union {Undef}]
      BY <3>1 DEF Shape
    <3> QED BY <3>1
  <2>3. nulls # NoBuffer => Len(nulls.cells) = cap
    <3>1. ASSUME nulls # NoBuffer PROVE cap \in Nat /\ nulls.cells \in [1 .. cap -> BOOLEAN]
      BY <3>1 DEF Shape
    <3> QED BY <3>1
  <2>4. len \in 1 .. MaxAlloc => /\ len <= cap
                                 /\ \A k \in 1 .. len : IsNull(k) \/ data.cells[k] # Undef
    BY UndefAssumption DEF Shape, Filled, Elem
  <2> QED BY <2>1, <2>2, <2>3, <2>4, Zenon DEF BuffersHoldTheArray, Cause
<1> QED BY <1>1, <1>2, <1>3, PTL DEF Spec
=============================================================================
