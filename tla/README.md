# A TLA+ model of uplpgsql

uplpgsql runs PL/pgSQL functions inside a PostgreSQL backend. It keeps a fork of
the PL/pgSQL interpreter and adds a compiler that turns a parsed function into
native code with LLVM. Two engines then have to mean the same thing by the same
function. The modules here model the parts of both engines in which that is hard
to get right, check them with TLC on small instances, and prove the central facts
about the function caches, the row loops and the native arrays with TLAPS.

A backend is one process with one thread. What interleaves is nesting: a function
calls itself or replaces itself while it runs, an error jumps out of the middle of
a statement, a `ROLLBACK` brings back an earlier catalog row.

## Inventory

| Part | State it keeps | Operations | What is hard |
|---|---|---|---|
| Control-flow emitters (`core/upl_compile.c`) | loop stack, cleanup stack, `return_bb` (at compile time) | push/pop of loops, labels and cleanups; `upl_emit_loop_exit`, `upl_emit_return` | a jump must release everything it crosses once, and not its target |
| Compiled statements (`common/upl_compile_stmts.c`) | the emitted blocks; native-array copies | one compiler per statement | exception blocks built on `sigsetjmp`; delegated statements |
| Exception helpers (`common/upl_runtime.c` 1003-1364) | exception frame, `PG_exception_stack`, subtransaction, statement memory context, current error | push_frame, arm, try_exit, catch, set_handler_vars, handler_done, rethrow | errors inside handlers; blocks left in five ways |
| Row-loop helpers (`common/upl_runtime.c` 543-773) | portal, batch of rows, fast-path state | open, fetch row, close | batch boundaries; stale descriptors; the body using the loop's cursor |
| Interpreter (`common/upl_exec.c`) | return code and exit label, statement contexts, `FOUND` | one `exec_stmt_*` per statement | return codes passed up through blocks, loops and `PG_TRY` |
| Expression evaluation (`common/upl_exec.c` 6757-6960, 8750-9530) | plans, evaluation trees, cast cache, econtext stack | evaluate, replan, cast; econtexts; transaction callbacks | trees die with their transaction and must not be entered twice |
| Assignment (`common/upl_exec.c` 5780-6050, 7900-8500, 9538; `upl_runtime.c`) | values of variables, expanded objects | assign, move row, field store, copy | copy, take over or change in place; errors in the middle |
| Call handler (`drivers/plpgsql/uplpgsql_handler.c`) | use count, `cur_estate` | call, validate, inline | nesting, errors, replacement while running |
| Parsed-function cache (`common/upl_comp.c`, PostgreSQL's `funccache.c`) | structs and their trees, hash table | `uplpgsql_compile`, delete callback | structs are rebuilt in place |
| Compiled-code cache (`core/upl_cache.c`) | OID to entry | lookup, store, store_skip | compiled code embeds pointers into a tree |
| Native arrays (`common/upl_runtime.c` 1592-1889, `upl_compile_stmts.c` 2381-2586) | a second copy of an array variable | to_datum, from_datum, reserve, element access | either copy may be stale; buffers that grow |
| Compiled expressions (`common/upl_compile_expr.c`) | plans during compilation | three expression tiers | NULL, overflow and errors as in PostgreSQL |
| LLVM lifecycle, datum access, grammar, scanner | none that lives on | | |

What makes each correct: after any way out of any construct, the resources held are
exactly those of the constructs still entered (emitters, helpers); both engines make
the jumps PL/pgSQL's rules name (emitters, interpreter); each row is delivered once
and in order (row loops); a running call keeps its tree, and the code it runs is of
the visible version and made from that tree (handler, caches); the two copies of an
array are one variable (native arrays); a compiled expression has the interpreter's value
and errors (expressions); nothing that runs or that a variable points to is freed, and
nothing is kept that is not needed (evaluation, assignment).

## Modules

| Module | Models | Correspondence |
|---|---|---|
| `PlSemantics` | the control rules of PL/pgSQL, abstractly | a stack of constructs; a jump, a `RETURN` or the handling of an error is one step |
| `JitControl` | compiled code and the exception helpers | `nest` is the path of constructs entered; the loop stack, cleanup stack and `return_bb` are operators of `nest`, since at a statement they depend only on the constructs around it; each runtime helper is an operator of the same name |
| `InterpControl` | the interpreter's control flow | the C stack is `nest`; a return code is handed up one construct per step |
| `RowLoop` | one row loop in either engine | `engine` selects `uplpgsql_rt_fetch_cursor_row` or `exec_for_query`; a row is its number |
| `FuncCache` | call handler, validator and both caches | an address holds a struct, a tree is a struct and a generation; `calls` is the C stack of handlers |
| `FuncCache_inv` | the inductive invariant of `FuncCache` and what compiling and entering a function do to it | lemmas |
| `FuncCache_proof` | one lemma per action of `FuncCache`, and the theorems | extends `FuncCache_inv` |
| `RowLoop_proof` | inductive invariant of `RowLoop` and its theorems | extends `RowLoop` |
| `PgArray` | array values and the server's functions on them (external) | a value is its dimensions, lower bound and elements |
| `ArrayVar` | what a program may expect of an array variable | one value; a statement that raises leaves it alone |
| `NativeArray` | a native array: Datum, flat memory, marshalling | each step is one statement; flat memory is `data`, `nulls`, `len`, `lb`, `cap`, `is_heap`, as in `UPLpgSQL_native_array` |
| `NativeArray_proof` | that `NativeArray` implements `ArrayVar` | extends `NativeArray` |
| `NativeExpr` | the three tiers an expression is compiled to | the emitters are operators of the same names; `Pg...` is PostgreSQL's meaning; a behaviour compiles a statement and runs it |
| `ExprPlan` | plans, simple-expression and cast trees, econtexts | `frames` is the stack of activations; `expr` is the `UPLpgSQL_expr` they share |
| `VarStore` | ownership of by-reference values | `heap` is memory, by context; `meaning` is the value the program gave the variable |
| `MC*` | instances for TLC | |

`JitControl` and `InterpControl` do not fix a program: every step picks the next
statement freely, so a behaviour is a run of some program, and all programs up to
the nesting bound are covered. Both instantiate `PlSemantics` with a refinement
mapping. A jump in progress maps to its target, so the mapping says that the
step-by-step unwinding ends exactly where the statement's label points.
`PlSemantics` records the statement that is jumping (`jump`), so that landing on the
wrong construct is not excused by some other statement that would have led there.

A few conventions. Exception frames and expression contexts are small numbers.
Statement memory contexts form a chain and are modelled by their level. Error data
is a set per level, so that freeing a level frees the errors in it. `Features`
in `JitControl` switches on two kinds of programs in which the compiled code
departs from PL/pgSQL (a failing `DECLARE`, a `FOREACH` that is left early).
`JitControl_resources` has both on. `JitControl_semantics` has both off: refinement
holds for the other programs.
The functions of PostgreSQL's `funccache.c` are not part of the repository; they
are modelled from their use and marked external.

`NativeArray` separates the statements that marshal (`SyncedReader`, `RefreshedWriter`)
from the ones a program uses (`Reader`, `Writer`), so that a statement the compiler
forgets is a member of the second set only: the conditions and the writers that are not
marshalled for are there too. A statement that does to the array what PL/pgSQL would not
clears `intact`, and the comparison with `ArrayVar` ends there; the buffers are watched
further. `Wild` is the outcome of a statement that touched memory outside the buffers,
after which anything may follow, so a behaviour ends with it. `NativeExpr` uses 3-bit and 4-bit integers for
int4 and int8 and floats in halves, so that every boundary is within reach of every
operator. The bits a NULL variable holds, the row a record has when its field is read by
number, and what the flag of an element out of range looks like are part of the
environment. `ExprPlan` follows one expression, or one cast, through all activations:
two expressions meet only in the stack of activations. `RecompileAtCall` says that the
function could not be compiled, so that every call tries again. `VarStore` compares what a variable holds
with `meaning`, the value it would have if assignment always copied. An object there has a
`maker`: the values of variables and evaluations, or what a promise or a compiled call outside
an allocation scope left in the activation's memory.

## Runs

Passing:

| Run | Instance | Shows |
|---|---|---|
| `JitControl_resources` | 1 label, nesting 3, 3 frames, all features | exception stack, subtransactions, portals, econtexts, error data, frames and statement contexts match the constructs entered |
| `JitControl_semantics` | 1 label, nesting 3, 2 frames | compiled control flow implements `PlSemantics`; unwinding ends |
| `InterpControl` | 1 label, which is also the function's name, nesting 3 | subtransactions, error data, statement contexts and `FOUND`; implements `PlSemantics`; unwinding ends |
| `RowLoop` | up to 7 rows, batches of 2 and then 3 | rows in order, no prefetch across `COMMIT`, tuple tables, fast path, termination unless the body moves the cursor back for ever; the interpreter keeps the cursor on the row the body sees |
| `FuncCache` | a function and an event trigger, 2 variants, 3 structs, 2 row versions, 3 nested calls | busy functions keep their tree, use counts, `cur_estate`, visible version, live tree |
| `NativeArray` | arrays of up to 2 elements, allocations of up to 3, 2 values and NULL, lower bounds 1 and 2, a stack buffer of 1, `array_fill` of every size from -1 to 4 | both copies implement `ArrayVar` until a statement departs from PL/pgSQL; buffers are as large as the code believes, always |
| `NativeExpr` | every operator on leaves and one level below itself, also in subscripts; NULL in every place, over bits of 3 kinds; record fields; all integer FOR loops over 3 bits | values agree with PostgreSQL's; an error that comes from the bits of a NULL comes from a subscript; errors are kept |
| `ExprPlan` | 2 activations, 2 transactions, 1 exception block, 3 plans alive | trees and plans outlive their use, no tree is entered twice, the current plan is run, econtexts are in step, references balance |
| `VarStore` | 2 variables of every type and scope, `COMMIT` allowed | values survive errors and `COMMIT`, but for records taken over with TOAST pointers; no object is shared or freed twice; what stays in memory is a variable's, or left by a call outside a scope or, once, by a promise |

Violated as expected. In each the code disagrees with a statement of the repository:

| Run | Property | What happens |
|---|---|---|
| `JitControl_foreach` | `ForeachReturnEndsFunction` | the return code of a delegated `FOREACH` is dropped |
| `NativeArray_fetch` | `StoredValueIsLive` | `FETCH INTO` writes the Datum, and flat memory is not reloaded; nor is it by `EXECUTE INTO`, `CALL` with `INOUT` arguments, and assignments in the body of a `FOREACH` |
| `ExprPlan_freeplan` | `PlanHeldWhileExecuting` | a recursive call compiles again and frees the plan that the outer activation executes |

**Bounds.** Nesting 3 gives a target, a construct that is crossed and a construct
inside it, which is what order of release and "the target's own is not released"
need; it also gives a handler around a handler. One label lets it be reused, so
that the innermost bearer is distinguished from an outer one. Three frames are as
many as nesting 3 can hold at a time, plus what handlers left by errors keep until
the call ends: where all frames are allocated `EnterTry` is disabled, which bounds
the frames leaked so. `JitControl_semantics` has two, enough for a block in a
handler. Seven rows with batches of 2 and 3 end in a full batch, in a partial one, and
in none, as the real 10 and 50 do; only the comparison with the batch size
matters. Two versions suffice for a replacement and its rollback, and three nested
calls for an old call, a new one and a third that finds the caches as the second
left them. Arrays of two elements with a stack buffer of one and a first capacity of
three go through every buffer: none, stack, heap, full, grown, and cut at the largest
array; allocations of three elements leave room for an array that can be filled and not
marshalled, and a fill of four for one that cannot be allocated. Two activations are a caller and a recursive or called routine, and two
transactions are a use before and after `COMMIT`; three plans are the current one, one
that an outer activation runs, and one that is being made. Two variables of `VarStore` are a target and a source. What calls
outside a scope leave behind adds up without bound and is never looked at again: the `VIEW`
of the run identifies states that differ only in it, or in the numbers of objects and
variables, on which nothing depends. The state constraint (6 objects) is not reached. In `RowLoop` the
count of rows stops at the largest number a query returns, since a body that moves the
cursor back is given more.

**Fairness.** Weak fairness is assumed of the straight-line code that carries out a
jump, hands up a return code or handles an error, since nothing in it waits. No
fairness is assumed of a program's choice of its next statement, so a function may loop
for ever. `RowLoop` also assumes that the body of the loop ends each time, which is
the premise of `LoopEnds`; `LoopEnds` itself supposes that the body stops moving the cursor
back at some time, and lets it do so, or skip rows, until then. The other modules have safety properties only: what they
model has no waiting and no loops of its own.

**Mutants.** Each property of a passing run is paired, in `PROJECT.json`, with a
mutated definition that breaks it. The mutants stand next to what they mutate and
are marked "Mutant".

## Proofs

`FuncCache_proof` proves, for every set of functions, variants and structs and every
bound:

- `TypeCorrect`: `TypeOK`;
- `BusySafe`: `BusyFunctionsKeepTheirTree` and `UseCountsMatchCalls`;
- `VersionSafe`: `RunsVisibleVersion`;
- `TreeSafe`: `CodeEmbedsLiveTree`.

The assumptions are those of `FuncCache`: event-trigger functions are functions, the
set of structs is finite, the null values are not values of their types, the bounds are
positive.

None of the properties is inductive alone. That a busy struct keeps its tree needs
that `uplpgsql_compile` rebuilds only structs that are free or not busy
(`FoundStruct`, `IdleStruct`), hence that the use count is the number of calls. That
the code is of the visible version needs that an entry's code has the entry's version
(`EntriesConsistent`). That its tree is live needs `EntriesLive`: an entry is no newer than
its struct, and one of the same version embeds the struct's tree. Rebuilding keeps
this because the new version is larger than the old one, which holds
(`VersionsBounded`) until a `ROLLBACK` gives an old version back; therefore the
proviso in `CodeEmbedsLiveTree`, which cannot be dropped (see the departures). `IInv` is the conjunction. It is defined in `FuncCache_inv`, with the lemmas
several actions share. `Invariance`, in `FuncCache_proof`, proves it from one lemma per
action: `CallMissStep`, `CallCachedStep` and `CallEventTriggerStep` (through
`EnterStep` and `CachesConsistent`), `LeaveStep`, `ValidatorStep`, `CatalogStep`.

`RowLoop_proof` proves, for every number of rows and all batch sizes, `CommitSafe`
(`NoPrefetchAcrossCommit`), `TablesFreed` (`TupleTablesAccounted`), `InOrder`
(`RowsInOrder`), `FastPathTyped` (`FastPathSafe`) and `KeepsItsPlace`
(`InterpretedLoopKeepsItsPlace`). The invariant relates the position of the portal to the
batch: the rows delivered are those before the batch and those used of it, and the portal is
at its end (`Place`); without prefetching a batch is one row, used up when the body runs
(`Single`), and it is the row the cursor is on (`OnRow`); an interpreted loop that has rows has a
tuple table (`HasTable`); the descriptor that the fast path trusts is the query's
(`Matching`). `IInv` was also checked with TLC on the instance of the run.

`NativeArray_proof` proves, for all elements, subscripts, readers, writers, sizes and arguments
of `array_fill`, `Implements`: `Spec` implements `ArrayVar`, with `value` mapped to the live
copy, as long as `intact`; and `BuffersSafe`: `BuffersHoldTheArray`, with no such condition. Two
invariants are needed. `Shape` holds in every program: buffers have `cap` cells, flags as
many as the data, and hold the elements unless the length is more than can be allocated
(`Filled`). It is needed because a store looks at `cap` and not at the buffer. With `Bookkept`
(`is_heap` and where the buffer is) and the causes of a `Wild` outcome it gives
`BuffersSafe`. `Implements` needs more, which holds while `intact`: flat memory without elements
has no buffers, and the Datum says why (`Vacant`), and no array is larger than the server
allows; the refinement of an append depends on the cells before the new one being those of
the array. The assumptions are the named ones of `PgArray` and `NativeArray`: sizes are
positive, an allocation can hold the largest array, sources are array values, subscripts and
arguments of `array_fill` are integers.

Only model-checked: `CurEstateIsInnermost`, everything in `JitControl`, `InterpControl`,
`NativeExpr`, `ExprPlan` and `VarStore`, the refinements of `PlSemantics`, and all
liveness, which under fairness is outside the prover. `NativeExpr` is recursive over
expressions and needs induction over data.

## Departures from PL/pgSQL met while modelling

The three with a run are above. The others are in the models where noted.

- A `RETURN` that fails after it stored its result leaves `retisnull` false
  (`upl_runtime.c:1136` says it cannot be). In `JitControl`.
- Errors in the `DECLARE` section of a compiled block are caught by the block itself
  (`upl_compile_stmts.c:545`). In `JitControl`, feature `declare_error`.
- A jump across a compiled `FOR` does not set `FOUND` (`core/upl_compile.c:697`). In
  `JitControl`; `InterpControl` has the property `LeavingForSetsFound`.
- A compiled `FOR` over an explicit cursor reads ahead of the body (`upl_runtime.c:651`), and
  every compiled row loop sets its variable to NULL at the end (`:668`). In `RowLoop`;
  `InterpretedLoopKeepsItsPlace` is the interpreter's side.
- After a replacement, a validation and a `ROLLBACK`, the old entry of compiled code
  matches again (`core/upl_cache.c:110`). In `FuncCache`; hence the proviso of
  `CodeEmbedsLiveTree`.
- A compiled `FOR` takes a step of zero or less (`test/plpgsql/sql/plpgsql_control.sql:39`
  says it "can't be zero or negative"), so steps in `NativeExpr`'s instance are positive.
- Its bounds are evaluated without marshalling native arrays (`upl_compile_stmts.c:215`), and
  so is a condition that is more than an expression (`upl_compile_expr.c:5138`; in
  `NativeArray`, as `query_condition`). `EXECUTE INTO`, `CALL` with `INOUT` arguments, loop
  targets and what a delegated `FOREACH` assigns are like `FETCH`: `Writer` has one
  member for all of them.
- `array_fill` in flat memory (`upl_compile_expr.c:3987-4334`) ignores the lower bound and the
  NULL of its arguments, keeps the old value for size 0, clears memory for a negative size, and
  has changed the length when the allocation of a size that is too large fails. In `NativeArray`.
- The NULL flag of an element is loaded before the subscript is known to be in range
  (`upl_compile_expr.c:552`; the comment at `:714` calls it harmless). In `NativeArray`, where it
  may end in `Wild`, and in `NativeExpr`.
- The subscript of an element is computed to find out if the element is NULL, and that on the
  bits of a NULL variable too (`upl_compile_expr.c:676`, `:756`), against the comment at `:838`. In
  `NativeExpr`; it is the third alternative of `ErrorsAreGenuine`.
- The fields of a record are not tested for NULL (`upl_compile_expr.c:481`), and are read by the
  number they had when the loop was compiled (`:353`). In `NativeExpr`, as
  `ReadsUntestedField`, the proviso of its properties.
- A R/W expanded record is taken over with the TOAST pointers in it (`upl_exec.c:8355`), also
  where `COMMIT` may follow; the comment at `:9549` asks for fields to be detoasted there. In
  `VarStore`, as `Stale`.
- Compiled calls have an allocation scope when one of them has a by-reference result and none reads a
  native array (`upl_compile_expr.c:2926`); a copy that a function with a by-value result makes of
  its argument stays until the function returns. In `VarStore`, as maker `bare`.
- A NULL leaf makes a native expression NULL even where another part of it would raise
  (the proviso of `ErrorsAreKept`); `AND` and `OR` evaluate all their arguments
  (the second alternative of `ErrorsAreGenuine`); square roots, logarithms and powers raise none of
  PostgreSQL's errors.
- When Tier 2 gives up after emitting calls, they stay: a volatile function is called twice
  (`upl_compile_expr.c:3449`). In `NativeExpr`, as `Emitted`.
- Compiled assignments do not check `NOT NULL` (the interpreter does, `upl_exec.c:5823`). In
  `VarStore`.
- A cast's tree that is in use is abandoned for a new one; the activation that still runs
  the abandoned tree clears the new tree's flag when it ends, so a tree that an error left
  half way may be run again (`upl_exec.c:8847`). And a cast looked up again after an
  invalidation resets the tree of one hash only, the session's or the `DO` block's (`:8823`).
  Both are in `ExprPlan`; its properties about failed and outdated trees are about simple
  expressions.

## Not modelled

- The inline (`DO`) handler: its function is private to one call and in neither cache. In
  `ExprPlan` a `DO` block has its own EState and cast hash; the expression followed is one
  of a function, not of the block.
- Parse errors in `uplpgsql_compile_callback`, and the internal subtransaction
  around compilation, whose only effect on the caches is the outcome "failed".
- Errors between `use_count++` and `PG_TRY` in the call handler (see the hazards).
- Values beyond integers, floats and booleans: strings, dates and numeric are
  PostgreSQL's own functions, called directly.
- The contents of two-dimensional arrays, by-reference elements, composite domains.
- The scorer `uplpgsql_should_jit`: a heuristic whose outcome ("skip") is free in
  `FuncCache`.
- Dynamic SQL, `OPEN`/`FETCH`/`CLOSE` outside loops, triggers' `OLD` and `NEW`: the
  statements hand their work to SPI and keep no state beyond the variables they assign.
- Out-of-memory errors.
- LLVM set-up, datum access, parsing and scanning; `upl_gram.c` and `upl_gram.h` are
  generated.
- What LLVM makes of variables that change between `sigsetjmp` and `longjmp`.

## Plan

What would add most next, in order of importance:

1. Proofs for `ExprPlan` (`OneReferencePerTransaction`) and for the exception stack and
   subtransactions of `JitControl`; the safety part of the refinement of `PlSemantics` by
   `InterpControl`.
2. `FuncCache` composed with `ExprPlan`: the recompilation that `RecompileAtCall` stands
   for, with parse errors, errors before `PG_TRY` and the inline handler.
3. Several native arrays at a time, sharing one statement's read set.
4. `JitScore`: `uplpgsql_should_jit` as a function over small trees.
5. Triggers: `OLD`, `NEW` and promises of the trigger variables.
