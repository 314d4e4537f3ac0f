---------------------------- MODULE RowLoop_proof ----------------------------
(***************************************************************************)
(* The safety properties of RowLoop for every number of rows and every     *)
(* size of the fetches: the code's 10 and 50 are no special case.          *)
(***************************************************************************)
EXTENDS RowLoop, TLAPS

(* The types of the loop's state, its flags apart.                         *)
TypeOK ==
  /\ engine \in {"jit", "interp"} /\ stmt \in {"implicit", "forc"}
  /\ rows \in 0 .. MaxRows /\ rectype \in {"record", "same", "other"}
  /\ pc \in {"open", "cond", "body", "exit", "closed"}
  /\ portal_pos \in Nat /\ batch_start \in Nat /\ batch_count \in Nat /\ batch_idx \in Nat
  /\ tuptabs \in Int /\ delivered \in Nat
  /\ target \in Int /\ erh \in 0 .. 2 /\ batch_tupdesc_id \in 0 .. 2

(* Where the loop is in the rows of a query nobody else fetches from: the  *)
(* rows delivered are those before the batch and those used of it, and the *)
(* portal is at the end of the batch, or past the end of the rows.         *)
Place ==
  (stmt = "implicit" /\ pc \in {"open", "cond", "body"}) =>
    /\ delivered = batch_start + batch_idx
    /\ batch_idx <= batch_count /\ batch_start + batch_count <= rows
    /\ \/ portal_pos = batch_start + batch_count
       \/ portal_pos = rows + 1 /\ batch_start + batch_count = rows

(* Without prefetching a batch is one row, and it is used up when the body *)
(* runs.                                                                   *)
Single(cond) == cond => /\ batch_count <= 1
                        /\ pc = "body" => batch_idx = batch_count

(* The row an interpreted FOR over an explicit cursor is about to deliver  *)
(* is the one the portal is on.                                            *)
OnRow ==
  (engine = "interp" /\ stmt = "forc" /\ pc \in {"open", "cond"} /\ batch_idx < batch_count)
    => portal_pos = batch_start + 1

(* An interpreted loop that has fetched or delivered rows has a tuple      *)
(* table.                                                                  *)
HasTable ==
  (engine = "interp" /\ pc \in {"open", "cond", "body"} /\ (batch_count > 0 \/ delivered > 0))
    => batch_tuptab

(* While the verdict on the descriptors is good, the one remembered is the *)
(* query's.                                                                *)
Matching == batch_tupdescs_match => batch_tupdesc_id \in {0, 1}

IInv ==
  /\ TypeOK /\ Place /\ OnRow /\ HasTable /\ Matching
  /\ Single(~atomic) /\ Single(engine = "interp" /\ stmt = "forc")
  /\ TupleTablesAccounted

-----------------------------------------------------------------------------
LEMMA MaxOfTwo ==
  ASSUME NEW a \in Int, NEW b \in Int
  PROVE  Max({a, b}) = IF a >= b THEN a ELSE b
<1>1. PICK m \in {a, b} : \A y \in {a, b} : m >= y
  OBVIOUS
<1>2. Max({a, b}) \in {a, b} /\ \A y \in {a, b} : Max({a, b}) >= y
  BY <1>1 DEF Max
<1> QED BY <1>2

LEMMA MinOfTwo ==
  ASSUME NEW a \in Int, NEW b \in Int
  PROVE  Min({a, b}) = IF a <= b THEN a ELSE b
<1>1. PICK m \in {a, b} : \A y \in {a, b} : m <= y
  OBVIOUS
<1>2. Min({a, b}) \in {a, b} /\ \A y \in {a, b} : Min({a, b}) <= y
  BY <1>1 DEF Min
<1> QED BY <1>2

(* The rows delivered are counted.                                         *)
LEMMA Counted ==
  ASSUME delivered \in Nat
  PROVE  /\ Min({delivered + 1, MaxRows}) \in Nat
         /\ delivered < MaxRows => Min({delivered + 1, MaxRows}) = delivered + 1
BY MinOfTwo, BoundAssumption

(* What a fetch asks for: one row where prefetching is off.                *)
LEMMA FetchCount ==
  /\ fetch_count \in Nat \ {0}
  /\ ~atomic => fetch_count = 1
  /\ (engine = "interp" /\ stmt = "forc") => fetch_count = 1
BY FetchAssumption DEF fetch_count

(* What a fetch delivers and where it leaves the portal.                   *)
LEMMA Fetched ==
  ASSUME rows \in Nat, portal_pos \in Nat
  PROVE  /\ SPI_processed \in Nat /\ SPI_processed <= fetch_count
         /\ SPI_processed = 0 <=> rows <= portal_pos
         /\ portal_pos <= rows => portal_pos + SPI_processed <= rows
         /\ PosAfterFetch \in Nat
         /\ \/ PosAfterFetch = portal_pos + SPI_processed /\ SPI_processed = fetch_count
            \/ /\ PosAfterFetch = rows + 1 /\ SPI_processed < fetch_count
               /\ portal_pos <= rows => portal_pos + SPI_processed = rows
<1> DEFINE left == Max({rows - portal_pos, 0})
<1>1. left = IF rows - portal_pos >= 0 THEN rows - portal_pos ELSE 0
  BY MaxOfTwo
<1>2. left \in Nat
  BY <1>1
<1>3. fetch_count \in Nat \ {0}
  BY FetchCount
<1>4. SPI_processed = IF fetch_count <= left THEN fetch_count ELSE left
  <2> HIDE DEF left
  <2>1. SPI_processed = Min({fetch_count, left})
    BY DEF SPI_processed, left
  <2> QED BY <2>1, <1>2, <1>3, MinOfTwo
<1> HIDE DEF left
<1> QED BY <1>1, <1>2, <1>3, <1>4 DEF PosAfterFetch

LEMMA InitIInv == Init => IInv
<1> SUFFICES ASSUME Init PROVE IInv
  OBVIOUS
<1>2. TypeOK
  BY BoundAssumption DEF Init, TypeOK, NULL
<1>3. Place /\ OnRow /\ HasTable /\ Matching /\ TupleTablesAccounted
  BY BoundAssumption DEF Init, Place, OnRow, HasTable, Matching, TupleTablesAccounted
<1>4. Single(~atomic) /\ Single(engine = "interp" /\ stmt = "forc")
  BY DEF Init, Single
<1> QED BY <1>2, <1>3, <1>4 DEF IInv

USE DEF input, batch, desc, NULL, USER

LEMMA NextOfBatchStep ==
  ASSUME IInv, NextOfBatch
  PROVE  IInv'
<1>0. delivered \in Nat
  BY DEF IInv, TypeOK
<1>1. TypeOK'
  BY <1>0, Counted DEF IInv, TypeOK, NextOfBatch, AssignRow, DescAfterMove
<1>2. Place' /\ OnRow' /\ HasTable' /\ TupleTablesAccounted'
  BY <1>0, Counted, BoundAssumption
     DEF IInv, TypeOK, Place, OnRow, HasTable, TupleTablesAccounted, NextOfBatch, AssignRow
<1>3. Matching'
  BY DEF IInv, TypeOK, Matching, NextOfBatch, AssignRow, DescAfterMove
<1>4. Single(~atomic)' /\ Single(engine = "interp" /\ stmt = "forc")'
  BY DEF IInv, TypeOK, Single, NextOfBatch, AssignRow
<1> QED BY <1>1, <1>2, <1>3, <1>4 DEF IInv

LEMMA FetchJitStep ==
  ASSUME IInv, uplpgsql_rt_fetch_cursor_row
  PROVE  IInv'
<1> USE DEF uplpgsql_rt_fetch_cursor_row, FetchBatch
<1>0. rows \in Nat /\ rows <= MaxRows /\ portal_pos \in Nat /\ delivered \in Nat
  BY BoundAssumption DEF IInv, TypeOK
<1>1. TypeOK'
  BY <1>0, Fetched, Counted DEF IInv, TypeOK, AssignRow, DescAfterMove
<1>2. Place'
  BY <1>0, Fetched, Counted, BoundAssumption DEF IInv, TypeOK, Place, AssignRow
<1>3. OnRow' /\ HasTable' /\ TupleTablesAccounted'
  BY DEF IInv, TypeOK, OnRow, HasTable, TupleTablesAccounted, AssignRow
<1>4. Matching'
  BY DEF IInv, TypeOK, Matching, AssignRow, DescAfterMove
<1>5. Single(~atomic)' /\ Single(engine = "interp" /\ stmt = "forc")'
  BY <1>0, Fetched, FetchCount DEF IInv, TypeOK, Single, AssignRow
<1> QED BY <1>1, <1>2, <1>3, <1>4, <1>5 DEF IInv

LEMMA FetchInterpStep ==
  ASSUME IInv, exec_for_query
  PROVE  IInv'
<1> USE DEF exec_for_query, FetchBatch
<1>0. rows \in Nat /\ portal_pos \in Nat
  BY BoundAssumption DEF IInv, TypeOK
<1>1. TypeOK'
  BY <1>0, Fetched DEF IInv, TypeOK
<1>2. Place'
  BY <1>0, Fetched DEF IInv, TypeOK, Place
<1>3. OnRow' /\ HasTable' /\ TupleTablesAccounted'
  BY <1>0, Fetched, FetchCount DEF IInv, TypeOK, OnRow, HasTable, TupleTablesAccounted
<1>4. Matching'
  BY DEF IInv, TypeOK, Matching
<1>5. Single(~atomic)' /\ Single(engine = "interp" /\ stmt = "forc")'
  BY <1>0, Fetched, FetchCount DEF IInv, TypeOK, Single
<1> QED BY <1>1, <1>2, <1>3, <1>4, <1>5 DEF IInv

(* Steps that fetch and deliver nothing.                                   *)
LEMMA OtherStep ==
  ASSUME IInv,
         \/ OpenCursor \/ AssignTarget \/ UserFetch \/ CloseCursor \/ Done
         \/ \E next \in {"cond", "exit"} : EndBody(next)
         \/ UNCHANGED vars
  PROVE  IInv'
<1> USE DEF IInv, TypeOK, Place, OnRow, HasTable, Matching, Single, TupleTablesAccounted
<1>1. CASE OpenCursor
  BY <1>1 DEF OpenCursor
<1>2. CASE AssignTarget
  BY <1>2 DEF AssignTarget
<1>3. CASE UserFetch
  BY <1>3 DEF UserFetch
<1>4. CASE CloseCursor
  BY <1>4 DEF CloseCursor
<1>5. CASE Done \/ UNCHANGED vars
  BY <1>5 DEF Done, vars
<1>6. ASSUME NEW next \in {"cond", "exit"}, EndBody(next) PROVE IInv'
  BY <1>6 DEF EndBody
<1> QED BY <1>1, <1>2, <1>3, <1>4, <1>5, <1>6

LEMMA StepIInv == IInv /\ [Next]_vars => IInv'
BY NextOfBatchStep, FetchJitStep, FetchInterpStep, OtherStep DEF Next

LEMMA IInvHolds == Spec => []IInv
BY InitIInv, StepIInv, PTL DEF Spec

-----------------------------------------------------------------------------
(* No prefetched row waits while the body of a loop in a non-atomic        *)
(* context runs: a COMMIT there finds none (uplpgsql_rt_fetch_cursor_row,  *)
(* exec_for_query).                                                        *)
THEOREM CommitSafe == Spec => []NoPrefetchAcrossCommit
<1>1. IInv => NoPrefetchAcrossCommit
  BY DEF IInv, Single, NoPrefetchAcrossCommit
<1> QED BY <1>1, IInvHolds, PTL

(* The loop's tuple table is freed once, whichever way the loop is left    *)
(* (uplpgsql_rt_close_cursor, loop_exit of exec_for_query).                *)
THEOREM TablesFreed == Spec => []TupleTablesAccounted
<1>1. IInv => TupleTablesAccounted
  BY DEF IInv
<1> QED BY <1>1, IInvHolds, PTL

(* Rows are delivered each once and in order, and a loop that runs out has *)
(* delivered all of them, for every size of the batches.                   *)
THEOREM InOrder == Spec => RowsInOrder
<1> DEFINE A == stmt = "implicit" =>
                  /\ Delivers => target' = delivered'
                  /\ (pc = "cond" /\ pc' = "exit") => delivered = rows
<1>1. IInv /\ [Next]_vars => [A]_vars
  <2> SUFFICES ASSUME IInv, Next, stmt = "implicit"
               PROVE  /\ Delivers => target' = delivered'
                      /\ (pc = "cond" /\ pc' = "exit") => delivered = rows
    OBVIOUS
  <2>0. rows \in Nat /\ rows <= MaxRows /\ portal_pos \in Nat /\ delivered \in Nat
    BY BoundAssumption DEF IInv, TypeOK
  <2>1. CASE NextOfBatch
    BY <2>0, <2>1, Counted, BoundAssumption DEF IInv, TypeOK, Place, NextOfBatch, AssignRow
  <2>2. CASE uplpgsql_rt_fetch_cursor_row
    BY <2>0, <2>2, Fetched, FetchCount, Counted, BoundAssumption
       DEF IInv, TypeOK, Place, uplpgsql_rt_fetch_cursor_row, FetchBatch, AssignRow,
           Delivers
  <2>3. CASE exec_for_query
    BY <2>0, <2>3, Fetched, FetchCount DEF IInv, TypeOK, Place, exec_for_query, FetchBatch, Delivers
  <2>4. ASSUME NEW next \in {"cond", "exit"}, EndBody(next)
        PROVE  ~Delivers /\ pc # "cond"
    BY <2>4 DEF EndBody, Delivers
  <2>5. CASE OpenCursor \/ AssignTarget \/ UserFetch \/ CloseCursor \/ Done
    BY <2>5 DEF OpenCursor, AssignTarget, UserFetch, CloseCursor, Done, vars, Delivers
  <2> QED BY <2>1, <2>2, <2>3, <2>4, <2>5 DEF Next
<1>2. RowsInOrder <=> [][A]_vars
  BY DEF RowsInOrder
<1> HIDE DEF A
<1> QED BY <1>1, <1>2, IInvHolds, PTL DEF Spec

(* A row is stored as it is only into a record of the query's descriptor.  *)
THEOREM FastPathTyped == Spec => FastPathSafe
<1> DEFINE A == Delivers /\ fast' => erh = 1
<1>1. IInv /\ [Next]_vars => [A]_vars
  <2> SUFFICES ASSUME IInv, Next, Delivers, fast'
               PROVE  erh = 1
    OBVIOUS
  <2>1. CASE NextOfBatch
    BY <2>1 DEF IInv, TypeOK, Matching, NextOfBatch, AssignRow, FastPath
  <2>2. CASE uplpgsql_rt_fetch_cursor_row
    BY <2>2 DEF uplpgsql_rt_fetch_cursor_row, AssignRow, Delivers
  <2>3. ASSUME NEW next \in {"cond", "exit"}, EndBody(next)
        PROVE  ~Delivers
    BY <2>3 DEF EndBody, Delivers
  <2>4. CASE exec_for_query \/ OpenCursor \/ AssignTarget \/ UserFetch \/ CloseCursor \/ Done
    BY <2>4 DEF exec_for_query, OpenCursor, AssignTarget, UserFetch, CloseCursor, Done, vars,
                Delivers
  <2> QED BY <2>1, <2>2, <2>3, <2>4 DEF Next
<1>2. FastPathSafe <=> [][A]_vars
  BY DEF FastPathSafe
<1> HIDE DEF A
<1> QED BY <1>1, <1>2, IInvHolds, PTL DEF Spec

(* In an interpreted loop the body runs with the cursor on its row, and    *)
(* the last fetch leaves the loop variable alone, however the body itself  *)
(* fetches from the cursor or moves it.                                    *)
THEOREM KeepsItsPlace == Spec => InterpretedLoopKeepsItsPlace
<1> DEFINE A == engine = "interp" =>
                  /\ stmt = "forc" /\ Delivers => target' = portal_pos'
                  /\ pc = "cond" /\ pc' = "exit" /\ delivered > 0 => target' = target
<1>1. IInv /\ [Next]_vars => [A]_vars
  <2> SUFFICES ASSUME IInv, Next, engine = "interp"
               PROVE  /\ stmt = "forc" /\ Delivers => target' = portal_pos'
                      /\ pc = "cond" /\ pc' = "exit" /\ delivered > 0 => target' = target
    OBVIOUS
  <2>1. CASE NextOfBatch
    BY <2>1 DEF IInv, TypeOK, Single, OnRow, NextOfBatch, AssignRow
  <2>2. CASE exec_for_query
    BY <2>2 DEF IInv, HasTable, exec_for_query, Delivers
  <2>3. ASSUME NEW next \in {"cond", "exit"}, EndBody(next)
        PROVE  ~Delivers /\ target' = target
    BY <2>3 DEF EndBody, Delivers
  <2>4. CASE OpenCursor \/ AssignTarget \/ UserFetch \/ CloseCursor \/ Done
    BY <2>4 DEF OpenCursor, AssignTarget, UserFetch, CloseCursor, Done, vars, Delivers
  <2> QED BY <2>1, <2>2, <2>3, <2>4 DEF Next, uplpgsql_rt_fetch_cursor_row
<1>2. InterpretedLoopKeepsItsPlace <=> [][A]_vars
  BY DEF InterpretedLoopKeepsItsPlace
<1> HIDE DEF A
<1> QED BY <1>1, <1>2, IInvHolds, PTL DEF Spec
=============================================================================
