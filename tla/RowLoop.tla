------------------------------ MODULE RowLoop ------------------------------
(***************************************************************************)
(* One FOR loop over the rows of a query or cursor: the portal, the batch  *)
(* of prefetched rows, the loop variable and the cursor variable.  Both    *)
(* engines are here: the compiled loop, which calls                        *)
(* uplpgsql_rt_fetch_cursor_row once per iteration, and exec_for_query of  *)
(* the interpreter, which keeps the batch in local variables.              *)
(*                                                                         *)
(* A row is its number; descriptor 1 is the query's, 2 any other.  The     *)
(* loop body may assign the loop variable, and in a FOR over an explicit   *)
(* cursor it may FETCH from that cursor and MOVE it, in any direction.     *)
(***************************************************************************)
EXTENDS Integers, FiniteSetsExt

CONSTANTS MaxRows,      \* bound on the rows the query returns
          FirstFetch,   \* rows of the first prefetch (10 in the code)
          NextFetch     \* rows of the later ones (50 in the code)

ASSUME BoundAssumption == MaxRows \in Nat
ASSUME FetchAssumption == FirstFetch \in Nat \ {0} /\ NextFetch \in Nat \ {0}

VARIABLES
  engine,          \* "jit" or "interp"
  stmt,            \* "implicit" (FORS, DYNFORS) or "forc"
  atomic,          \* estate->atomic: no COMMIT in the body
  rows,            \* how many rows the query returns
  rectype,         \* the loop variable: "record", or composite "same"/"other"
  pc,              \* "open", "cond", "body", "exit" or "closed"
  portal_pos,      \* the portal's current row; rows + 1 past the end
  pinned,          \* the portal is open and pinned
  batch_start,     \* the batch holds rows batch_start + 1 .. + batch_count
  batch_count, batch_idx,
  batch_tuptab,    \* the batch's tuple table exists
  tuptabs,         \* tuple tables allocated and not freed
  target,          \* the row in the loop variable, or NULL, or USER
  erh,             \* descriptor of the loop variable's expanded record, 0 if none
  batch_tupdesc_id,      \* descriptor seen at the last slow assignment
  batch_tupdescs_match,  \* rows can be stored without conversion
  fast,            \* the last assignment took the fast path
  delivered,       \* rows given to the body so far, counted up to MaxRows
  found,           \* the FOUND variable, once the loop is over
  curvar           \* the cursor variable: "null", "named" or "generated"

input == <<engine, stmt, atomic, rows, rectype>>
batch == <<batch_start, batch_count, batch_idx, batch_tuptab, tuptabs>>
desc  == <<target, erh, batch_tupdesc_id, batch_tupdescs_match, fast>>
vars  == <<input, pc, portal_pos, pinned, batch, desc, delivered, found, curvar>>

NULL == 0
USER == -1      \* a value the loop body put there

Init ==
  /\ engine \in {"jit", "interp"} /\ stmt \in {"implicit", "forc"}
  /\ atomic \in BOOLEAN /\ rows \in 0 .. MaxRows
  /\ rectype \in {"record", "same", "other"}
  /\ pc = "open" /\ portal_pos = 0 /\ pinned = FALSE
  /\ batch_start = 0 /\ batch_count = 0 /\ batch_idx = 0
  /\ batch_tuptab = FALSE /\ tuptabs = 0
  /\ target = NULL /\ erh = 0 /\ batch_tupdesc_id = 0
  /\ batch_tupdescs_match = (engine = "interp") /\ fast = FALSE
  /\ delivered = 0 /\ found = FALSE
  /\ curvar \in (IF stmt = "forc" THEN {"null", "named"} ELSE {"null"})

(* Open the portal and pin it; a FORC cursor variable that is null gets    *)
(* the generated portal name.                                              *)
OpenCursor ==
  /\ pc = "open"
  /\ pinned' = TRUE /\ pc' = "cond"
  /\ curvar' = IF stmt = "forc" /\ curvar = "null" THEN "generated" ELSE curvar
  /\ UNCHANGED <<input, portal_pos, batch, desc, delivered, found>>

(* Mutant: rows are prefetched whatever the context.                       *)
fetch_count_any ==
  IF engine = "interp" /\ stmt = "forc" THEN 1
  ELSE IF batch_count = 0 THEN FirstFetch ELSE NextFetch

(* Mutant: rows are prefetched whatever the cursor.                        *)
fetch_count_forc == IF ~atomic THEN 1 ELSE IF batch_count = 0 THEN FirstFetch ELSE NextFetch

(* How many rows the next fetch asks for.  The interpreter prefetches for  *)
(* implicit cursors in atomic contexts; the compiled loop in atomic        *)
(* contexts, whatever the cursor.                                          *)
fetch_count ==
  IF ~atomic \/ (engine = "interp" /\ stmt = "forc") THEN 1
  ELSE IF batch_count = 0 THEN FirstFetch ELSE NextFetch

(* SPI_cursor_fetch: the rows there are, up to the number asked for.       *)
SPI_processed == Min({fetch_count, Max({rows - portal_pos, 0})})
PosAfterFetch ==
  IF SPI_processed < fetch_count THEN rows + 1 ELSE portal_pos + SPI_processed

(* Mutant: the verdict on the descriptors is trusted although the body may *)
(* have given the variable another record.                                 *)
FastPath_trusting == erh # 0 /\ batch_tupdescs_match

(* Is the loop variable's record one that the row can be stored into as it *)
(* is?                                                                     *)
FastPath ==
  /\ erh # 0 /\ erh = batch_tupdesc_id /\ batch_tupdescs_match

(* exec_move_row gives the variable the query's descriptor, or converts to *)
(* the variable's own composite type.                                      *)
DescAfterMove == IF rectype = "other" THEN 2 ELSE 1

(* The row assigned; "recheck" says whether descriptors are compared again *)
(* after a slow assignment or the earlier verdict is kept.                 *)
AssignRow(row, fastpath, recheck) ==
  /\ target' = row
  /\ fast' = fastpath
  /\ erh' = IF fastpath THEN erh ELSE DescAfterMove
  /\ batch_tupdesc_id' = IF fastpath THEN batch_tupdesc_id ELSE DescAfterMove
  /\ batch_tupdescs_match' = IF fastpath \/ ~recheck THEN batch_tupdescs_match
                             ELSE rectype # "other"
  /\ delivered' = Min({delivered + 1, MaxRows})
  /\ pc' = "body"

(* Mutant: the batch is indexed from one.                                  *)
NextOfBatch_off_by_one ==
  /\ pc = "cond" /\ batch_idx < batch_count
  /\ AssignRow(batch_start + batch_idx, FastPath, batch_tupdescs_match)
  /\ batch_idx' = batch_idx + 1
  /\ UNCHANGED <<input, portal_pos, pinned, batch_start, batch_count, batch_tuptab,
                 tuptabs, found, curvar>>

(* The next row of the batch.  Both engines compare descriptors again only *)
(* while they have matched so far.                                         *)
NextOfBatch ==
  /\ pc = "cond" /\ batch_idx < batch_count
  /\ AssignRow(batch_start + batch_idx + 1, FastPath, batch_tupdescs_match)
  /\ batch_idx' = batch_idx + 1
  /\ UNCHANGED <<input, portal_pos, pinned, batch_start, batch_count, batch_tuptab,
                 tuptabs, found, curvar>>

FetchBatch ==
  /\ portal_pos' = PosAfterFetch
  /\ batch_start' = portal_pos /\ batch_count' = SPI_processed

(* Compiled: the batch is used up; free it and fetch another.  The first   *)
(* row goes in by the slow path and descriptors are compared afresh.       *)
uplpgsql_rt_fetch_cursor_row ==
  /\ engine = "jit" /\ pc = "cond" /\ batch_idx >= batch_count
  /\ FetchBatch
  /\ \/ /\ SPI_processed > 0
        /\ AssignRow(portal_pos + 1, FALSE, TRUE)
        /\ batch_idx' = 1 /\ batch_tuptab' = TRUE
        /\ tuptabs' = IF batch_tuptab THEN tuptabs ELSE tuptabs + 1
     \/ /\ SPI_processed = 0
        /\ target' = NULL /\ pc' = "exit"
        /\ batch_idx' = 0 /\ batch_tuptab' = FALSE
        /\ tuptabs' = IF batch_tuptab THEN tuptabs - 1 ELSE tuptabs
        /\ UNCHANGED <<erh, batch_tupdesc_id, batch_tupdescs_match, fast, delivered>>
  /\ UNCHANGED <<input, pinned, found, curvar>>

(* Mutant: an empty batch does not end the loop.                           *)
exec_for_query_goes_on ==
  /\ engine = "interp" /\ pc = "cond" /\ batch_idx >= batch_count
  /\ FetchBatch
  /\ batch_idx' = 0 /\ batch_tuptab' = TRUE
  /\ tuptabs' = IF batch_tuptab THEN tuptabs ELSE tuptabs + 1
  /\ UNCHANGED <<input, pc, pinned, desc, delivered, found, curvar>>

(* Interpreted: the same, but the rows are assigned by the inner loop, and *)
(* the variable is set to NULL only when the very first fetch is empty.    *)
(* The last, empty tuple table is freed at loop_exit.                      *)
exec_for_query ==
  /\ engine = "interp" /\ pc = "cond" /\ batch_idx >= batch_count
  /\ FetchBatch
  /\ batch_idx' = 0 /\ batch_tuptab' = TRUE
  /\ tuptabs' = IF batch_tuptab THEN tuptabs ELSE tuptabs + 1
  /\ target' = IF SPI_processed = 0 /\ ~batch_tuptab THEN NULL ELSE target
  /\ pc' = IF SPI_processed = 0 THEN "exit" ELSE "cond"
  /\ UNCHANGED <<input, pinned, erh, batch_tupdesc_id, batch_tupdescs_match, fast,
                 delivered, found, curvar>>

(* The body ends, by its last statement or CONTINUE, or leaves the loop.   *)
EndBody(next) ==
  /\ pc = "body"
  /\ pc' = next
  /\ UNCHANGED <<input, portal_pos, pinned, batch, desc, delivered, found, curvar>>

(* The body assigns the loop variable: a record takes the value's          *)
(* descriptor.                                                             *)
AssignTarget ==
  /\ pc = "body"
  /\ target' = USER
  /\ erh' \in IF rectype = "record" THEN {1, 2} ELSE {erh}
  /\ UNCHANGED <<input, pc, portal_pos, pinned, batch, batch_tupdesc_id,
                 batch_tupdescs_match, fast, delivered, found, curvar>>

(* The body fetches from the loop's own cursor, or moves it: by its        *)
(* direction and count (exec_stmt_fetch) a cursor that scrolls goes to any *)
(* row, before the first or past the last.  A FETCH into the loop variable *)
(* assigns it as well.                                                     *)
UserFetch ==
  /\ pc = "body" /\ stmt = "forc"
  /\ portal_pos' \in 0 .. rows + 1
  /\ UNCHANGED <<input, pc, pinned, batch, desc, delivered, found, curvar>>

(* Mutant: leaving the loop early keeps the batch's tuple table.           *)
CloseCursor_keeps_batch ==
  /\ pc = "exit"
  /\ pc' = "closed" /\ pinned' = FALSE
  /\ found' = (delivered > 0)
  /\ curvar' = IF engine = "interp" /\ curvar = "generated" THEN "null" ELSE curvar
  /\ UNCHANGED <<input, portal_pos, batch, desc, delivered>>

(* Free what is left of the batch, unpin and close the portal, set FOUND.  *)
(* Only the interpreter clears a cursor variable it named.                 *)
CloseCursor ==
  /\ pc = "exit"
  /\ pc' = "closed" /\ pinned' = FALSE
  /\ batch_tuptab' = FALSE
  /\ tuptabs' = IF batch_tuptab THEN tuptabs - 1 ELSE tuptabs
  /\ found' = (delivered > 0)
  /\ curvar' = IF engine = "interp" /\ curvar = "generated" THEN "null" ELSE curvar
  /\ UNCHANGED <<input, portal_pos, batch_start, batch_count, batch_idx, desc, delivered>>

Done == pc = "closed" /\ UNCHANGED vars

Next ==
  \/ OpenCursor \/ NextOfBatch \/ uplpgsql_rt_fetch_cursor_row \/ exec_for_query
  \/ \E next \in {"cond", "exit"} : EndBody(next)
  \/ AssignTarget \/ UserFetch \/ CloseCursor \/ Done

(* The loop's own code runs on, and the body comes to an end.              *)
Fairness ==
  /\ WF_vars(OpenCursor \/ NextOfBatch \/ uplpgsql_rt_fetch_cursor_row
             \/ exec_for_query \/ CloseCursor)
  /\ WF_vars(EndBody("cond"))

Spec == Init /\ [][Next]_vars /\ Fairness

-----------------------------------------------------------------------------

(* The body is given a row.                                                *)
Delivers == pc # "body" /\ pc' = "body"

(* Rows are neither lost, repeated nor reordered by batching: unless the   *)
(* body moves the cursor itself, it sees row k in its k-th iteration, and  *)
(* a loop that runs out has shown every row.                               *)
RowsInOrder ==
  [][stmt = "implicit" =>
       /\ Delivers => target' = delivered'
       /\ (pc = "cond" /\ pc' = "exit") => delivered = rows]_vars

(* In a non-atomic context no fetched row is waiting while the body runs:  *)
(* a COMMIT there would leave its toast references dangling.               *)
NoPrefetchAcrossCommit == (pc = "body" /\ ~atomic) => batch_idx = batch_count

(* At most one tuple table is alive, the one the loop knows of, and none   *)
(* once the loop is over, however it was left.                             *)
TupleTablesAccounted ==
  /\ tuptabs = IF batch_tuptab THEN 1 ELSE 0
  /\ pc = "closed" => tuptabs = 0

(* A row is stored without conversion only into a record that has the      *)
(* query's descriptor, whatever the body assigned to it in between.        *)
FastPathSafe == [][Delivers /\ fast' => erh = 1]_vars

(* An interpreted loop keeps its place, however the body moves the cursor: *)
(* a FOR over an explicit cursor runs its body with the cursor on the row  *)
(* it was given, for UPDATE WHERE CURRENT OF (exec_stmt_forc), and the     *)
(* fetch that finds no more rows leaves the variable as the body left it   *)
(* (exec_for_query).  Compiled loops do neither.                           *)
InterpretedLoopKeepsItsPlace ==
  [][engine = "interp" =>
       /\ stmt = "forc" /\ Delivers => target' = portal_pos'
       /\ pc = "cond" /\ pc' = "exit" /\ delivered > 0 => target' = target]_vars

(* The body moves the cursor back over rows the loop has had.              *)
MovesBack == pc = "body" /\ portal_pos' < portal_pos

(* A loop whose body comes to an end each time comes to an end itself,     *)
(* unless the body moves the cursor back again and again: whatever is      *)
(* prefetched, skipped or gone over a second time, the fetch that finds no *)
(* row is reached (uplpgsql_rt_fetch_cursor_row, exec_for_query).          *)
LoopEnds == <>[][~MovesBack]_vars => <>(pc = "closed")
=============================================================================
