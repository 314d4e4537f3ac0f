---------------------------- MODULE NativeArray ----------------------------
(***************************************************************************)
(* A native array: a local array variable of a compiled function that is   *)
(* kept twice, as the variable's Datum and as flat memory the compiled     *)
(* code indexes directly.  Flat memory is the live copy; it is marshalled  *)
(* out (to_datum) before the interpreter reads the variable and reloaded   *)
(* (from_datum) after the interpreter has written it.                      *)
(*                                                                         *)
(* Each step is one statement of a program that uses the variable.  Some   *)
(* statements do to it what PL/pgSQL would not; intact says that none of   *)
(* them has been run yet.                                                  *)
(***************************************************************************)
EXTENDS PgArray

CONSTANTS Subscript,   \* subscripts programs use
          Source,      \* array values programs assign
          FillSize,    \* sizes programs give to array_fill
          FillBound,   \* lower bounds programs give to array_fill
          MaxAlloc,    \* elements that fit one allocation (MaxAllocSize bytes)
          StackMax,    \* elements that fit NATIVE_ARRAY_STACK_THRESHOLD
          MinCap,      \* first capacity of a buffer that grows from nothing (8)
          Reader,      \* statements that read the variable in the interpreter
          Writer,      \* statements that assign the variable in the interpreter
          Undef        \* what memory holds that nobody has written

ASSUME UndefAssumption == Undef \notin Elem
ASSUME SubscriptAssumption == Subscript \subseteq Int /\ NULL \notin Subscript
ASSUME SourceAssumption == \A a \in Source : IsArray(a)
ASSUME FillAssumption ==
  FillSize \subseteq Int /\ NULL \notin FillSize /\ FillBound \subseteq Int
ASSUME CapacityAssumption ==
  /\ MaxAlloc \in Nat /\ MaxArraySize <= MaxAlloc
  /\ StackMax \in 0 .. MaxAlloc /\ MinCap \in Nat \ {0}

VARIABLES
  native,    \* escape analysis chose the flat representation
  datum,     \* var->value and var->isnull
  data,      \* what data_ptr points to: where it is, and its cells
  nulls,     \* what nulls_ptr points to
  len, lb,   \* elements in flat memory (-1: not one-dimensional), lower bound
  cap,       \* cells data is believed to hold
  is_heap,   \* data may be repalloc'd and freed
  stmt,      \* the last statement
  out,       \* what it delivered
  intact     \* no statement has departed from PL/pgSQL so far

flat == <<data, nulls, len, lb, cap, is_heap>>
vars == <<native, datum, flat, stmt, out, intact>>

NoBuffer == [at |-> "none", cells |-> <<>>]
Buffer(at, s) == [at |-> at, cells |-> s]

Stmt(op, a, i, v) == [op |-> op, arr |-> a, i |-> i, v |-> v]
LowerBound(l) == [NullArray EXCEPT !.lb = l]    \* of array_fill, in place of arr
None   == <<"none">>
Error  == <<"error">>
Wild   == <<"wild">>    \* memory outside the buffers was touched; anything may follow

-----------------------------------------------------------------------------
(* Which arrays become native (uplpgsql_analyze_native_arrays).            *)

(* Statements native_array_check_stmt looks into.  ASSIGN is left to the   *)
(* compiler of assignments; EXIT, ASSERT, OPEN and FETCH are not looked at.*)
EscapeStmt == {"return", "return_next", "return_query", "raise", "execsql", "dynexecute",
               "perform", "call", "foreach", "if", "case", "while", "fori", "fors",
               "dynfors", "forc"}

(* expr_references_dno sees only expressions that parse analysis has been  *)
(* through; before the function has run there are none.                    *)
native_array_check_stmts(analysed) == analysed \intersect EscapeStmt = {}

uplpgsql_analyze_native_arrays(is_param, elem_ok, analysed) ==
  elem_ok /\ ~is_param /\ native_array_check_stmts(analysed)

-----------------------------------------------------------------------------
(* The two copies.                                                         *)

IsNull(k) == nulls # NoBuffer /\ nulls.cells[k]
Flat == OneD(lb, [k \in 1 .. len |-> IF IsNull(k) THEN NULL ELSE data.cells[k]])

(* The Datum uplpgsql_rt_native_array_to_datum leaves in the variable, or  *)
(* that palloc raised there.                                               *)
native_array_to_datum ==
  IF data = NoBuffer \/ len <= 0 THEN datum
  ELSE IF len > MaxArraySize THEN Failure ELSE Flat

(* uplpgsql_emit_sync_native_array, emitted for native arrays only.        *)
sync == IF native THEN native_array_to_datum ELSE datum

(* uplpgsql_rt_native_array_from_datum: flat memory for the value d.  NULL *)
(* and empty values have length 0; any other number of dimensions than one *)
(* has length -1.                                                          *)
native_array_from_datum(d) ==
  LET n == CASE d.ndim < 1 -> 0 [] d.ndim = 2 -> -1 [] OTHER -> Len(d.elems)
      absent == [k \in 1 .. n |-> d.elems[k] = NULL]
      cells  == [k \in 1 .. n |-> IF absent[k] THEN Undef ELSE d.elems[k]]
  IN  [data  |-> IF n > 0 THEN Buffer("heap", cells) ELSE NoBuffer,
       nulls |-> IF \E k \in 1 .. n : absent[k] THEN Buffer("heap", absent) ELSE NoBuffer,
       len   |-> n,
       lb    |-> d.lb]

(* uplpgsql_emit_refresh_native_array: release the buffers, reload flat    *)
(* memory from the Datum d the variable now holds.                         *)
refresh(d) ==
  /\ datum' = d
  /\ IF native
     THEN LET f == native_array_from_datum(d)
          IN  /\ data' = f.data /\ nulls' = f.nulls
              /\ len' = f.len /\ lb' = f.lb
              /\ cap' = f.len /\ is_heap' = TRUE
     ELSE UNCHANGED flat

(* Capacity after uplpgsql_rt_native_array_reserve.                        *)
newcap ==
  LET doubled == IF cap > 0 THEN 2 * cap ELSE MinCap
      enough  == IF doubled <= len THEN len + 1 ELSE doubled
  IN  IF enough > MaxArraySize THEN MaxArraySize ELSE enough

Grown(s, n, fill) == [k \in 1 .. n |-> IF k <= Len(s) THEN s[k] ELSE fill]

(* Mutant: the null flags keep their size when data grows.                 *)
native_array_reserve_data ==
  /\ data' = Buffer("heap", [Grown(data.cells, newcap, Undef) EXCEPT ![len + 1] = stmt'.v])
  /\ nulls' = nulls
  /\ cap' = newcap
  /\ is_heap' = TRUE

(* uplpgsql_rt_native_array_reserve, and the store into the new slot.      *)
native_array_reserve ==
  /\ data' = Buffer("heap", [Grown(data.cells, newcap, Undef) EXCEPT ![len + 1] = stmt'.v])
  /\ nulls' = IF nulls = NoBuffer THEN NoBuffer
              ELSE Buffer("heap", Grown(nulls.cells, newcap, FALSE))
  /\ cap' = newcap
  /\ is_heap' = TRUE

-----------------------------------------------------------------------------
(* Statements.                                                             *)

(* A statement that raises leaves flat memory as it was; the variable's    *)
(* Datum may have been brought up to date on the way.                      *)
Raise(d) == out' = Error /\ datum' = (IF d = Failure THEN datum ELSE d) /\ UNCHANGED flat

(* What the server computes from the marshalled Datum, if there is one.    *)
From(d, result) == IF d = Failure THEN Failure ELSE result

(* Store the value d the server computed, or raise.                        *)
StoreAndRefresh(d) ==
  IF d = Failure THEN Raise(sync) ELSE refresh(d) /\ out' = None

(* A statement that the compiled code may run differently from PL/pgSQL    *)
(* when the array is native does so unless ok.                             *)
DepartsUnless(ok) == intact' = (intact /\ (native => ok))

(* Statements that reload flat memory once they have written the variable: *)
(* DECLARE (uplpgsql_emit_init_vars), an assignment exec_assign_expr or a  *)
(* built-in function evaluates, SELECT INTO.                               *)
RefreshedWriter == {"declare", "assign", "assign_fmgr", "select_into"}

(* Statement k stores the value a into the variable, as a Datum.  The      *)
(* others are FETCH INTO, EXECUTE INTO, CALL with INOUT arguments and      *)
(* assignments in a FOREACH body, which is left to the interpreter.        *)
Write(k, a) ==
  /\ stmt' = Stmt("assign", a, NULL, NULL)
  /\ out' = None
  /\ IF k \in RefreshedWriter THEN refresh(a) ELSE datum' = a /\ UNCHANGED flat
  /\ DepartsUnless(k \in RefreshedWriter)
  /\ UNCHANGED native

(* uplpgsql_sync_native_arrays_for_expr: with a plan, paramnos is the read *)
(* set; without one, every array is marshalled.                            *)
sync_native_arrays_for_expr(prepared, reads) ==
  IF prepared /\ ~reads THEN datum ELSE sync

(* x := x || v, evaluated by exec_assign_expr: the expression reads the    *)
(* variable it assigns (uplpgsql_compile_assign).                          *)
AppendFallback(v, prepared) ==
  /\ stmt' = Stmt("append", NullArray, NULL, v)
  /\ LET d == sync_native_arrays_for_expr(prepared, TRUE)
     IN  StoreAndRefresh(From(d, array_append(d, v)))
  /\ UNCHANGED <<native, intact>>

(* y := e, evaluated by exec_assign_expr.  If e reads the variable, it     *)
(* sees the Datum.                                                         *)
AssignOther(prepared, reads) ==
  /\ stmt' = Stmt(IF reads THEN "read" ELSE "none", NullArray, NULL, NULL)
  /\ LET d == sync_native_arrays_for_expr(prepared, reads)
     IN  IF d = Failure THEN Raise(d)
         ELSE /\ datum' = d /\ UNCHANGED flat
              /\ out' = IF reads THEN <<"array", d>> ELSE None
  /\ UNCHANGED <<native, intact>>

(* Statements whose expressions the interpreter evaluates.  The exec_stmt_*)
(* functions are called through uplpgsql_call_exec, which marshals every   *)
(* native array; RETURN and the row loops marshal before they call; a      *)
(* built-in function's argument is marshalled when it is loaded; a         *)
(* condition that no tier takes is marshalled for where the compiler gives *)
(* up on it; the WHENs of a simple CASE follow its test expression, which  *)
(* went through uplpgsql_call_exec.  A condition that is more than an      *)
(* expression (a sub-select, an aggregate) is none of these:               *)
(* uplpgsql_try_compile_bool returns before it marshals.                   *)
SyncedReader == {"call_exec", "return", "open_loop", "fmgr_arg", "condition", "case_when"}

(* Statement k reads the whole variable.                                   *)
Read(k) ==
  /\ stmt' = Stmt("read", NullArray, NULL, NULL)
  /\ LET d == IF k \in SyncedReader THEN sync ELSE datum
     IN  IF d = Failure THEN Raise(d)
         ELSE datum' = d /\ out' = <<"array", d>> /\ UNCHANGED flat
  /\ DepartsUnless(k \in SyncedReader)
  /\ UNCHANGED native

(* The buffer array_fill allocates, on the stack when it is small, and the *)
(* loop that fills it.                                                     *)
FillBuffer(n, v) ==
  /\ data' = Buffer(IF n > StackMax THEN "heap" ELSE "stack", [k \in 1 .. n |-> v])
  /\ cap' = n
  /\ is_heap' = (n > StackMax)
  /\ out' = None

(* array_fill in flat memory.  Length, lower bound and null flags are      *)
(* stored before the buffer is allocated, and nothing looks at the sign of *)
(* the size: a negative one is a stack buffer of that many bytes, cleared. *)
FillNative(n, v) ==
  IF n < 0 THEN out' = Wild /\ UNCHANGED flat
  ELSE /\ len' = n /\ lb' = 1 /\ nulls' = NoBuffer
       /\ IF n > MaxAlloc THEN out' = Error /\ UNCHANGED <<data, cap, is_heap>>
          ELSE FillBuffer(n, v)

(* x := array_fill(v, ARRAY[n], ARRAY[l]).  Compiled code takes the bits   *)
(* of a NULL size or value for one, whatever was left there, and does not  *)
(* look at the lower bound.                                                *)
Fill(n, v, l) ==
  /\ stmt' = Stmt("fill", LowerBound(l), n, v)
  /\ IF native
     THEN /\ \E m \in (IF n = NULL THEN FillSize ELSE {n}), w \in (IF v = NULL THEN Val ELSE {v}) :
               FillNative(m, w)
          /\ UNCHANGED datum
     ELSE StoreAndRefresh(array_fill(v, n, l))
  /\ DepartsUnless(n # NULL /\ n \in 1 .. MaxArraySize /\ v # NULL /\ l = 1)
  /\ UNCHANGED native

in_range(i)  == len >= 0 /\ i >= lb /\ i <= lb + len - 1
is_append(i) == len >= 0 /\ i = lb + len

(* Mutant: the flag of a NULL element survives a store.                    *)
StoreInRange_keepflag(i, v) ==
  /\ data' = [data EXCEPT !.cells[i - lb + 1] = v]
  /\ nulls' = nulls
  /\ UNCHANGED <<len, lb, cap, is_heap>>

(* In range: one store, and the element's NULL flag cleared.               *)
StoreInRange(i, v) ==
  /\ data' = [data EXCEPT !.cells[i - lb + 1] = v]
  /\ nulls' = IF nulls = NoBuffer THEN nulls ELSE [nulls EXCEPT !.cells[i - lb + 1] = FALSE]
  /\ UNCHANGED <<len, lb, cap, is_heap>>

(* One past the end: grow the buffers when they are full, store, count.    *)
StoreAppend(v) ==
  /\ IF len >= cap THEN native_array_reserve
     ELSE /\ data' = [data EXCEPT !.cells[len + 1] = v]
          /\ nulls' = IF nulls = NoBuffer THEN nulls ELSE [nulls EXCEPT !.cells[len + 1] = FALSE]
          /\ UNCHANGED <<cap, is_heap>>
  /\ len' = len + 1
  /\ UNCHANGED lb

(* Whatever flat memory cannot do goes to array_set_element on the         *)
(* marshalled Datum.                                                       *)
StoreSlow(i, v) == StoreAndRefresh(From(sync, array_set_element(sync, i, v)))

(* x[i] := v compiled to flat memory.                                      *)
SetNative(i, v) ==
  /\ native
  /\ stmt' = Stmt("set", NullArray, i, v)
  /\ \/ i = NULL /\ Raise(datum)
     \/ /\ i # NULL /\ v # NULL /\ in_range(i) /\ UNCHANGED datum
        /\ IF i - lb + 1 \in DOMAIN data.cells THEN StoreInRange(i, v) /\ out' = None
           ELSE out' = Wild /\ UNCHANGED flat
     \/ /\ i # NULL /\ v # NULL /\ is_append(i)
        /\ IF len >= cap /\ len >= MaxArraySize THEN Raise(datum)
           ELSE StoreAppend(v) /\ out' = None /\ UNCHANGED datum
     \/ i # NULL /\ (v = NULL \/ ~(in_range(i) \/ is_append(i))) /\ StoreSlow(i, v)
  /\ UNCHANGED <<native, intact>>

(* x[i] := v through uplpgsql_rt_array_set_element (not native) or, when   *)
(* no tier takes v, through exec_assign_expr.                              *)
SetDatum(i, v, prepared) ==
  /\ stmt' = Stmt("set", NullArray, i, v)
  /\ IF i = NULL THEN Raise(sync_native_arrays_for_expr(prepared, TRUE))
     ELSE LET d == sync_native_arrays_for_expr(prepared, TRUE)
          IN  StoreAndRefresh(From(d, array_set_element(d, i, v)))
  /\ UNCHANGED <<native, intact>>

(* The NULL flag of x[i] is loaded whether or not i is in range: what it   *)
(* says can be anything when i is not, and the load itself may fail.       *)
FlagOutside(i) == nulls # NoBuffer /\ i - lb + 1 \notin DOMAIN nulls.cells
native_array_elem_isnull(i) ==
  IF nulls = NoBuffer THEN {FALSE}
  ELSE IF FlagOutside(i) THEN BOOLEAN ELSE {nulls.cells[i - lb + 1]}

(* y := x[i] in flat memory.  tier1_expr_any_null is the flag or that i is *)
(* out of range; the element is loaded where it is FALSE.                  *)
GetNative(i) ==
  \/ \E isnull \in native_array_elem_isnull(i) :
       out' = IF isnull \/ ~in_range(i) THEN <<"elem", NULL>>
              ELSE IF i - lb + 1 \in DOMAIN data.cells THEN <<"elem", data.cells[i - lb + 1]>>
              ELSE Wild
  \/ FlagOutside(i) /\ out' = Wild

(* y := x[i].  A NULL subscript is the bits of a NULL variable to compiled *)
(* code, and its NULL flag decides.                                        *)
Get(i) ==
  /\ stmt' = Stmt("get", NullArray, i, NULL)
  /\ IF ~native THEN out' = <<"elem", IF i = NULL THEN NULL ELSE array_get_element(datum, i)>>
     ELSE IF i # NULL THEN GetNative(i)
     ELSE \E j \in Subscript : out' \in {<<"elem", NULL>>} \union (IF FlagOutside(j) THEN {Wild} ELSE {})
  /\ DepartsUnless(out' # Wild)
  /\ UNCHANGED <<native, datum, flat>>

-----------------------------------------------------------------------------
(* uplpgsql_setup_entry: flat memory is empty when the function starts.    *)
(* A parameter has its value by then, a local variable is NULL until its   *)
(* block is entered.                                                       *)
Init ==
  /\ \E is_param, elem_ok \in BOOLEAN, analysed \in {{}, {"raise"}, {"exit"}} :
       /\ native = uplpgsql_analyze_native_arrays(is_param, elem_ok, analysed)
       /\ datum \in IF is_param THEN Source ELSE {NullArray}
  /\ data = NoBuffer /\ nulls = NoBuffer
  /\ len = 0 /\ lb = 1 /\ cap = 0 /\ is_heap = FALSE
  /\ stmt = Stmt("none", NullArray, NULL, NULL) /\ out = None /\ intact = TRUE

Statement ==
  \/ \E k \in Writer, a \in Source : Write(k, a)
  \/ \E k \in Reader : Read(k)
  \/ \E v \in Elem, prepared \in BOOLEAN : AppendFallback(v, prepared)
  \/ \E prepared, reads \in BOOLEAN : AssignOther(prepared, reads)
  \/ \E n \in FillSize \union {NULL}, v \in Elem, l \in FillBound : Fill(n, v, l)
  \/ \E i \in Subscript \union {NULL}, v \in Elem : SetNative(i, v)
  \/ \E i \in Subscript \union {NULL}, v \in Elem, prepared \in BOOLEAN : SetDatum(i, v, prepared)
  \/ \E i \in Subscript \union {NULL} : Get(i)

Next == out # Wild /\ Statement

Spec == Init /\ [][Next]_vars

-----------------------------------------------------------------------------
(* Which copy is the variable: flat memory when it holds elements, and the *)
(* Datum when there is nothing in it.                                      *)
Live == IF native /\ len > 0 THEN Flat ELSE datum

AV == INSTANCE ArrayVar WITH value <- Live

(* Every buffer is as large as the code that indexes it believes, and      *)
(* elements that are not NULL have been written, in every program: a load  *)
(* or a store of an element stays inside the buffer                        *)
(* (upl_compile_expr.c:4600-4790, upl_runtime.c:1803).  There are three    *)
(* ways to touch other memory: array_fill of a negative size; array_fill   *)
(* of more than can be allocated, which raises when the length is stored   *)
(* and the buffer is not (4184); and the NULL flag of a subscript out of   *)
(* range (552-554), which is loaded and then ignored.                      *)
BuffersHoldTheArray ==
  /\ data # NoBuffer => Len(data.cells) = cap
  /\ nulls # NoBuffer => Len(nulls.cells) = cap
  /\ len \in 1 .. MaxAlloc => /\ len <= cap
                             /\ \A k \in 1 .. len : IsNull(k) \/ data.cells[k] # Undef
  /\ is_heap = (data.at = "heap") \/ data = NoBuffer
  /\ out = Wild => \/ stmt.op = "fill" \/ len > MaxAlloc
                   \/ stmt.op = "get" /\ nulls # NoBuffer

(* The two copies behave as one variable: whatever the order of native     *)
(* stores, appends, whole-array assignments and interpreted reads, each    *)
(* statement sees what the last assignment left                            *)
(* (upl_compile_stmts.c:2381-2586).  It is so until the program runs one   *)
(* of the statements that depart from PL/pgSQL: a write that does not      *)
(* refresh flat memory, a condition that is not marshalled for, array_fill *)
(* of a NULL, with a lower bound, or of a size the server refuses or makes *)
(* empty, and a flag load that fails.                                      *)
ImplementsArrayVar == AV!Init /\ [][intact' => AV!Next]_vars

(* A value the interpreter stores into the variable is the variable's      *)
(* value (upl_compile_stmts.c:2499, "Called after the interpreter has      *)
(* written a whole array Datum into the variable").                        *)
StoredValueIsLive == stmt.op = "assign" => Live = stmt.arr
=============================================================================
