----------------------------- MODULE JitControl -----------------------------
(***************************************************************************)
(* Control flow of a compiled function: the branches core/upl_compile.c    *)
(* and common/upl_compile_stmts.c emit for loops, labelled blocks,         *)
(* exception blocks, EXIT, CONTINUE and RETURN, running against the        *)
(* exception helpers of common/upl_runtime.c.                              *)
(*                                                                         *)
(* The program is not fixed: "nest" holds the constructs execution is      *)
(* inside of, and each step picks the next statement freely, so a          *)
(* behaviour is a run of some program.  The compiler's loop stack, cleanup *)
(* stack and return block at a statement depend only on the constructs     *)
(* around it, so they are operators of nest.                               *)
(***************************************************************************)
EXTENDS Integers, Sequences, FiniteSetsExt

CONSTANTS Label,       \* the labels a program may put on loops and blocks
          NoLabel,     \* an unlabelled construct, EXIT or CONTINUE
          MaxDepth,    \* bound on the nesting of constructs
          MaxFrames,   \* bound on exception frames allocated at a time
          Features     \* which of the optional statements programs use

ASSUME LabelAssumption == NoLabel \notin Label
ASSUME BoundAssumption == MaxDepth \in Nat /\ MaxFrames \in Nat
ASSUME FeatureAssumption == Features \subseteq {"declare_error", "foreach_escape"}

VARIABLES
  nest,                  \* constructs entered, outermost first
  pc,                    \* what the compiled code is doing
  todo,                  \* positions in nest whose cleanup code is still to run
  goal,                  \* where the jump in progress goes
  PG_exception_stack,    \* the frame ereport(ERROR) would longjmp to
  frame,                 \* contents of the exception frames
  alloc,                 \* frames allocated and not yet freed
  subxacts,              \* open subtransactions, each with the frame that began it
  portals,               \* open pinned portals with their creating subtransaction
  simple_econtext_stack, \* expression contexts with their subtransaction
  eval_econtext,         \* the expression context in use
  stmt_mcontext,         \* per-statement memory context, or NULL
  stmt_mcontext_parent,  \* its parent
  mcontexts,             \* depth of the chain of live statement contexts
  edata,                 \* error data stored in each of them
  cur_error,             \* estate->cur_error of the PL/pgSQL state
  jit_cur_error,         \* cur_error of the compiled code's state
  retisnull,             \* TRUE until a RETURN evaluates a non-null result
  found,                 \* the FOUND variable
  rc                     \* return code of the last delegated FOREACH

control == <<nest, pc, todo, goal>>
xvars   == <<PG_exception_stack, frame, alloc, subxacts, portals,
             simple_econtext_stack, eval_econtext>>
mvars   == <<stmt_mcontext, stmt_mcontext_parent, mcontexts, edata>>
evars   == <<cur_error, jit_cur_error>>
rvars   == <<retisnull, found, rc>>
vars    == <<control, xvars, mvars, evars, rvars>>

NULL     == -1                   \* no statement context
NoFrame  == 0                    \* the caller's exception handler; no error
Frame    == 1 .. MaxFrames
MLevel   == 0 .. MaxDepth + 1    \* level 0 is the function's main context

LoopKind    == {"loop", "while", "fori", "query"}
TryKind     == {"try", "handler"}
CleanupKind == TryKind \union {"query"}
Kind        == LoopKind \union TryKind \union {"block"}

(* res is the frame or portal the construct holds; init is TRUE while an   *)
(* exception block's DECLARE section is being initialised.                 *)
Construct == [kind : Kind, label : Label \union {NoLabel},
              res : 0 .. MaxFrames + MaxDepth, init : BOOLEAN]

Depth == Len(nest)
Top   == nest[Depth]
Last1(s) == s[Len(s)]
Pop(s)   == SubSeq(s, 1, Len(s) - 1)

CurrentSubxact == IF subxacts = <<>> THEN NoFrame ELSE Last1(subxacts)
ParentSubxact  == IF Len(subxacts) < 2 THEN NoFrame ELSE subxacts[Len(subxacts) - 1]

-----------------------------------------------------------------------------
(* What the compiler knows at a statement.                                 *)

(* The loop stack: loops, and blocks that carry a label.                   *)
loop_stack == {i \in 1 .. Depth : nest[i].kind \in LoopKind \/ nest[i].label # NoLabel}

(* Mutant: an unlabelled EXIT also stops at labelled blocks.               *)
upl_find_loop_any(label) == {i \in loop_stack : label \in {NoLabel, nest[i].label}}

(* upl_find_loop, as the set of entries that match; the innermost wins.    *)
upl_find_loop(label) ==
  {i \in loop_stack : IF label = NoLabel THEN nest[i].kind \in LoopKind
                                         ELSE nest[i].label = label}

(* ctx->cleanup_depth where entry i was pushed: constructs push their      *)
(* cleanup before their loop or label entry, so their own counts.          *)
cleanup_depth(i) == Cardinality({j \in 1 .. i : nest[j].kind \in CleanupKind})

(* The positions upl_emit_cleanup_unwind emits a release for, innermost    *)
(* first.                                                                  *)
upl_emit_cleanup_unwind(target_depth) ==
  LET crossed == {i \in 1 .. Depth : /\ nest[i].kind \in CleanupKind
                                     /\ cleanup_depth(i) > target_depth}
  IN  [k \in 1 .. Cardinality(crossed) |->
         CHOOSE i \in crossed : Cardinality({j \in crossed : j >= i}) = k]

(* Mutant: RETURN does not close portals.                                  *)
return_bb_tries == SelectSeq(upl_emit_cleanup_unwind(0), LAMBDA i : nest[i].kind \in TryKind)

(* The landing pads a RETURN runs through: ctx->return_bb of the innermost *)
(* redirecting construct, whose pad branches to the saved one outside it.  *)
return_bb == upl_emit_cleanup_unwind(0)

-----------------------------------------------------------------------------
(* Runtime helpers.                                                        *)

(* Expression contexts of a subtransaction go when it ends                 *)
(* (uplpgsql_subxact_cb).                                                  *)
uplpgsql_subxact_cb(mySubid) ==
  LET keep == {i \in DOMAIN simple_econtext_stack :
                 simple_econtext_stack[i].xact_subxid # mySubid}
  IN  simple_econtext_stack' = SubSeq(simple_econtext_stack, 1, Max(keep \union {0}))

(* ReleaseCurrentSubTransaction: portals pass to the parent.               *)
ReleaseCurrentSubTransaction ==
  /\ subxacts' = Pop(subxacts)
  /\ portals' = {IF p.subid = CurrentSubxact THEN [p EXCEPT !.subid = ParentSubxact]
                                             ELSE p : p \in portals}
  /\ uplpgsql_subxact_cb(CurrentSubxact)

(* RollbackAndReleaseCurrentSubTransaction: portals it created are closed. *)
RollbackAndReleaseCurrentSubTransaction ==
  /\ subxacts' = Pop(subxacts)
  /\ portals' = {p \in portals : p.subid # CurrentSubxact}
  /\ uplpgsql_subxact_cb(CurrentSubxact)

(* get_stmt_mcontext: the current statement context, made if need be.      *)
get_stmt_mcontext ==
  IF stmt_mcontext = NULL THEN stmt_mcontext_parent + 1 ELSE stmt_mcontext

use_stmt_mcontext ==
  /\ stmt_mcontext' = get_stmt_mcontext
  /\ mcontexts' = IF stmt_mcontext = NULL THEN get_stmt_mcontext ELSE mcontexts

pop_stmt_mcontext ==
  /\ stmt_mcontext' = stmt_mcontext_parent
  /\ stmt_mcontext_parent' = stmt_mcontext_parent - 1

(* MemoryContextReset frees what level m holds and deletes its children.   *)
MemoryContextReset(m) ==
  /\ mcontexts' = m
  /\ edata' = [l \in MLevel |-> IF l >= m THEN {} ELSE edata[l]]

NewFrame == [old_eval_econtext |-> NoFrame, saved_cur_error |-> NoFrame,
             stmt_mcontext |-> 0, saved_exception_stack |-> NoFrame]

pfree(f) ==
  /\ alloc' = alloc \ {f}
  /\ frame' = [frame EXCEPT ![f] = NewFrame]

(* push_frame then, on sigsetjmp's first return, arm: f is the new frame.  *)
uplpgsql_rt_exception_push_frame(f) ==
  /\ use_stmt_mcontext
  /\ frame' = [frame EXCEPT ![f] =
       [old_eval_econtext     |-> eval_econtext,
        saved_cur_error       |-> cur_error,
        stmt_mcontext         |-> get_stmt_mcontext,
        saved_exception_stack |-> PG_exception_stack]]
  /\ alloc' = alloc \union {f}
  /\ subxacts' = Append(subxacts, f)
  /\ UNCHANGED <<portals, stmt_mcontext_parent, edata>>

uplpgsql_rt_exception_arm(f) ==
  /\ PG_exception_stack' = f
  /\ eval_econtext' = f
  /\ simple_econtext_stack' =
       Append(simple_econtext_stack, [stack_econtext |-> f, xact_subxid |-> f])

(* Mutants: leaving a block normally does not restore the handler or the   *)
(* expression context around it, or does not commit the subtransaction.    *)
try_exit_keeps_handler(f) ==
  /\ ReleaseCurrentSubTransaction
  /\ eval_econtext' = frame[f].old_eval_econtext
  /\ pfree(f)
  /\ UNCHANGED <<PG_exception_stack, mvars, evars>>

try_exit_keeps_subxact(f) ==
  /\ PG_exception_stack' = frame[f].saved_exception_stack
  /\ eval_econtext' = frame[f].old_eval_econtext
  /\ pfree(f)
  /\ UNCHANGED <<subxacts, portals, simple_econtext_stack, mvars, evars>>

try_exit_keeps_econtext(f) ==
  /\ PG_exception_stack' = frame[f].saved_exception_stack
  /\ ReleaseCurrentSubTransaction
  /\ pfree(f)
  /\ UNCHANGED <<eval_econtext, mvars, evars>>

uplpgsql_rt_exception_try_exit(f) ==
  /\ PG_exception_stack' = frame[f].saved_exception_stack
  /\ ReleaseCurrentSubTransaction
  /\ eval_econtext' = frame[f].old_eval_econtext
  /\ pfree(f)
  /\ UNCHANGED <<mvars, evars>>

(* Mutants of catch: the statement context stays where the error data is,  *)
(* or the frame is freed before its handler has run.                       *)
CatchWith(f, stmt) ==
  LET m == frame[f].stmt_mcontext IN
  /\ PG_exception_stack' = frame[f].saved_exception_stack
  /\ RollbackAndReleaseCurrentSubTransaction
  /\ stmt_mcontext_parent' = m
  /\ stmt_mcontext' = stmt
  /\ mcontexts' = m
  /\ edata' = [l \in MLevel |-> CASE l < m -> edata[l]
                                  [] l = m -> edata[l] \union {f}
                                  [] l > m -> {}]
  /\ eval_econtext' = frame[f].old_eval_econtext
  /\ jit_cur_error' = f
  /\ UNCHANGED cur_error

catch_keeps_context(f) ==
  CatchWith(f, frame[f].stmt_mcontext) /\ UNCHANGED <<frame, alloc>>

catch_frees_frame(f) ==
  CatchWith(f, NULL) /\ pfree(f)

uplpgsql_rt_exception_catch(f) ==
  LET m == frame[f].stmt_mcontext IN
  /\ PG_exception_stack' = frame[f].saved_exception_stack
  /\ RollbackAndReleaseCurrentSubTransaction
  /\ stmt_mcontext_parent' = m
  /\ stmt_mcontext' = NULL
  /\ mcontexts' = m
  /\ edata' = [l \in MLevel |-> CASE l < m -> edata[l]
                                  [] l = m -> edata[l] \union {f}
                                  [] l > m -> {}]
  /\ eval_econtext' = frame[f].old_eval_econtext
  /\ jit_cur_error' = f
  /\ UNCHANGED <<frame, alloc, cur_error>>

uplpgsql_rt_exception_set_handler_vars ==
  /\ cur_error' = jit_cur_error
  /\ UNCHANGED <<jit_cur_error, xvars, mvars>>

(* Mutant: an inner handler's end forgets the outer handler's error.       *)
clear_cur_error(f) == cur_error' = NoFrame /\ jit_cur_error' = NoFrame

restore_cur_error(f) ==
  /\ cur_error' = frame[f].saved_cur_error
  /\ jit_cur_error' = frame[f].saved_cur_error

uplpgsql_rt_exception_handler_done(f) ==
  /\ restore_cur_error(f)
  /\ pop_stmt_mcontext
  /\ MemoryContextReset(frame[f].stmt_mcontext)
  /\ pfree(f)
  /\ UNCHANGED <<PG_exception_stack, subxacts, portals,
                 simple_econtext_stack, eval_econtext>>

uplpgsql_rt_exception_rethrow(f) ==
  /\ restore_cur_error(f)
  /\ pop_stmt_mcontext
  /\ pfree(f)
  /\ UNCHANGED <<PG_exception_stack, subxacts, portals, mcontexts, edata,
                 simple_econtext_stack, eval_econtext>>

(* close_portal and close_forc_cursor unpin and close.                     *)
uplpgsql_rt_close_portal(id) ==
  /\ portals' = {p \in portals : p.id # id}
  /\ UNCHANGED <<PG_exception_stack, frame, alloc, subxacts,
                 simple_econtext_stack, eval_econtext, mvars, evars>>

(* The release helper of the construct at position i.                      *)
Release(i) ==
  CASE nest[i].kind = "try"     -> uplpgsql_rt_exception_try_exit(nest[i].res)
    [] nest[i].kind = "handler" -> uplpgsql_rt_exception_handler_done(nest[i].res)
    [] nest[i].kind = "query"   -> uplpgsql_rt_close_portal(nest[i].res)

(* The code at the exit block of the construct at position i: release what *)
(* it holds and, for the FOR loops, set FOUND (their bodies have run).     *)
ExitBlock(i) ==
  /\ IF nest[i].kind \in CleanupKind THEN Release(i) ELSE UNCHANGED <<xvars, mvars, evars>>
  /\ found' = IF nest[i].kind \in {"fori", "query"} THEN TRUE ELSE found
  /\ UNCHANGED <<retisnull, rc>>

-----------------------------------------------------------------------------
NoGoal == [pos |-> 0, op |-> "none", label |-> NoLabel]

Init ==
  /\ nest = <<>> /\ pc = "run" /\ todo = <<>> /\ goal = NoGoal
  /\ PG_exception_stack = NoFrame
  /\ frame = [f \in Frame |-> NewFrame]
  /\ alloc = {} /\ subxacts = <<>> /\ portals = {}
  /\ simple_econtext_stack = <<[stack_econtext |-> NoFrame, xact_subxid |-> NoFrame]>>
  /\ eval_econtext = NoFrame
  /\ stmt_mcontext = NULL /\ stmt_mcontext_parent = 0 /\ mcontexts = 0
  /\ edata = [l \in MLevel |-> {}]
  /\ cur_error = NoFrame /\ jit_cur_error = NoFrame
  /\ retisnull = TRUE /\ found = FALSE /\ rc = "OK"

(* At a statement: not inside a DECLARE section.                           *)
AtStatement == pc = "run" /\ \A i \in 1 .. Depth : ~nest[i].init

Push(kind, label, res, init) ==
  nest' = Append(nest, [kind |-> kind, label |-> label, res |-> res, init |-> init])

(* LOOP, WHILE, integer FOR with at least one iteration, labelled block.   *)
Enter(kind, label) ==
  /\ AtStatement /\ Depth < MaxDepth
  /\ kind = "block" => label # NoLabel
  /\ Push(kind, label, 0, FALSE)
  /\ UNCHANGED <<pc, todo, goal, xvars, mvars, evars, rvars>>

(* FOR over rows: open, pin, and a first row is fetched.                   *)
EnterQuery(label) ==
  /\ AtStatement /\ Depth < MaxDepth
  /\ LET id == Min((1 .. MaxDepth) \ {p.id : p \in portals}) IN
     /\ Push("query", label, id, FALSE)
     /\ portals' = portals \union {[id |-> id, subid |-> CurrentSubxact]}
  /\ UNCHANGED <<pc, todo, goal, PG_exception_stack, frame, alloc, subxacts,
                 simple_econtext_stack, eval_econtext, mvars, evars, rvars>>

(* A FOR loop whose body never runs: its exit block clears FOUND.  Other   *)
(* statements (SELECT INTO, UPDATE, FETCH...) set it either way.           *)
SetFound(b) ==
  /\ AtStatement
  /\ found' = b
  /\ UNCHANGED <<control, xvars, mvars, evars, retisnull, rc>>

(* BEGIN ... EXCEPTION: push the frame, sigsetjmp, arm, then initialise    *)
(* the declared variables.                                                 *)
EnterTry(label) ==
  /\ AtStatement /\ Depth < MaxDepth /\ alloc # Frame
  /\ LET f == Min(Frame \ alloc) IN
     /\ uplpgsql_rt_exception_push_frame(f)
     /\ uplpgsql_rt_exception_arm(f)
     /\ Push("try", label, f, TRUE)
  /\ UNCHANGED <<pc, todo, goal, evars, rvars>>

InitVars ==
  /\ pc = "run" /\ nest # <<>> /\ Top.init
  /\ nest' = [nest EXCEPT ![Depth].init = FALSE]
  /\ UNCHANGED <<pc, todo, goal, xvars, mvars, evars, rvars>>

(* A statement with statement-lifespan data (EXECUTE, RAISE, CALL...): it  *)
(* takes the statement context and resets it when done.                    *)
UseStmtMcontext ==
  /\ AtStatement
  /\ stmt_mcontext' = get_stmt_mcontext
  /\ MemoryContextReset(get_stmt_mcontext)
  /\ UNCHANGED <<control, xvars, stmt_mcontext_parent, evars, rvars>>

(* FOREACH is delegated whole to exec_stmt_foreach_a, which returns OK, or *)
(* the code of an EXIT, CONTINUE or RETURN that leaves the loop ...        *)
Foreach(code) ==
  /\ AtStatement
  /\ code = "OK" \/ "foreach_escape" \in Features
  /\ rc' = code /\ pc' = "foreach"
  /\ found' \in (IF code = "OK" THEN BOOLEAN ELSE {TRUE})
  /\ retisnull' \in (IF code = "RETURN" THEN BOOLEAN ELSE {retisnull})
  /\ stmt_mcontext' = get_stmt_mcontext
  /\ MemoryContextReset(get_stmt_mcontext)
  /\ UNCHANGED <<nest, todo, goal, xvars, stmt_mcontext_parent, evars>>

(* ... and the compiled code goes on with the next statement.              *)
ForeachDone ==
  /\ pc = "foreach"
  /\ pc' = "run" /\ rc' = "OK"
  /\ UNCHANGED <<nest, todo, goal, xvars, mvars, evars, retisnull, found>>

(* Control reaches the end of the innermost construct's body and the       *)
(* construct is over; LOOP only ever goes round again.                     *)
EndBody ==
  /\ AtStatement /\ nest # <<>> /\ Top.kind # "loop"
  /\ ExitBlock(Depth)
  /\ nest' = Pop(nest)
  /\ UNCHANGED <<pc, todo, goal>>

(* EXIT and CONTINUE: the releases of everything crossed, then the branch. *)
upl_emit_loop_exit(label, op) ==
  /\ AtStatement
  /\ upl_find_loop(label) # {}
  /\ LET loop == Max(upl_find_loop(label)) IN
     /\ op = "continue" => nest[loop].kind \in LoopKind
     /\ goal' = [pos |-> loop, op |-> op, label |-> label]
     /\ todo' = upl_emit_cleanup_unwind(cleanup_depth(loop))
  /\ pc' = "jump"
  /\ UNCHANGED <<nest, xvars, mvars, evars, rvars>>

(* RETURN evaluates its result and branches to return_bb.                  *)
upl_emit_return ==
  /\ AtStatement
  /\ retisnull' \in BOOLEAN
  /\ pc' = "jump" /\ goal' = [NoGoal EXCEPT !.op = "return"]
  /\ todo' = return_bb
  /\ UNCHANGED <<nest, xvars, mvars, evars, found, rc>>

(* One release call on the way to the target.                              *)
Unwind ==
  /\ pc = "jump" /\ todo # <<>>
  /\ Release(Head(todo))
  /\ todo' = Tail(todo)
  /\ UNCHANGED <<nest, pc, goal, rvars>>

(* The branch is taken: to the target's exit block, to its continue block, *)
(* or out of the function.                                                 *)
Branch ==
  /\ pc = "jump" /\ todo = <<>>
  /\ goal' = NoGoal /\ UNCHANGED todo
  /\ \/ /\ goal.op = "exit"
        /\ ExitBlock(goal.pos)
        /\ nest' = SubSeq(nest, 1, goal.pos - 1) /\ pc' = "run"
     \/ /\ goal.op = "continue"
        /\ nest' = SubSeq(nest, 1, goal.pos) /\ pc' = "run"
        /\ UNCHANGED <<xvars, mvars, evars, rvars>>
     \/ /\ goal.op = "return"
        /\ nest' = <<>> /\ pc' = "done"
        /\ UNCHANGED <<xvars, mvars, evars, rvars>>

(* A statement raises an error.  A RETURN may do so after it has stored a  *)
(* non-null result of the wrong type (exec_stmt_return).                   *)
RaiseError ==
  /\ pc = "run"
  /\ AtStatement \/ "declare_error" \in Features
  /\ pc' = "error"
  /\ retisnull' \in (IF AtStatement THEN {retisnull, FALSE} ELSE {retisnull})
  /\ UNCHANGED <<nest, todo, goal, xvars, mvars, evars, found, rc>>

(* ereport longjmps to the frame PG_exception_stack names: sigsetjmp       *)
(* returns again in the block that owns the frame.                         *)
Catch ==
  /\ pc = "error" /\ PG_exception_stack # NoFrame
  /\ \E i \in 1 .. Depth :
       /\ nest[i].kind \in TryKind /\ nest[i].res = PG_exception_stack
       /\ goal' = [NoGoal EXCEPT !.pos = i, !.op = "catch"]
       /\ uplpgsql_rt_exception_catch(nest[i].res)
  /\ pc' = "catch"
  /\ UNCHANGED <<nest, todo, rvars>>

(* A WHEN clause matches.                                                  *)
RunHandler ==
  /\ pc = "catch"
  /\ uplpgsql_rt_exception_set_handler_vars
  /\ nest' = Append(SubSeq(nest, 1, goal.pos - 1),
                    [nest[goal.pos] EXCEPT !.kind = "handler", !.init = FALSE])
  /\ pc' = "run" /\ goal' = NoGoal
  /\ UNCHANGED <<todo, rvars>>

(* Mutant: the rethrown error is sent to the frame it was caught with.     *)
Rethrow_to_itself ==
  /\ pc = "catch"
  /\ LET f == nest[goal.pos].res IN
     /\ restore_cur_error(f)
     /\ pop_stmt_mcontext
     /\ PG_exception_stack' = f
  /\ pc' = "error" /\ goal' = NoGoal
  /\ UNCHANGED <<nest, todo, frame, alloc, subxacts, portals, mcontexts, edata,
                 simple_econtext_stack, eval_econtext, rvars>>

(* No WHEN clause matches.                                                 *)
Rethrow ==
  /\ pc = "catch"
  /\ uplpgsql_rt_exception_rethrow(nest[goal.pos].res)
  /\ nest' = SubSeq(nest, 1, goal.pos - 1)
  /\ pc' = "error" /\ goal' = NoGoal
  /\ UNCHANGED <<todo, rvars>>

(* The error leaves the function; or the function ends without RETURN,     *)
(* which uplpgsql_exec_function_jit reports as an error.                   *)
Fail ==
  /\ \/ pc = "error" /\ PG_exception_stack = NoFrame
     \/ AtStatement /\ nest = <<>>
  /\ pc' = "failed" /\ nest' = <<>>
  /\ UNCHANGED <<todo, goal, xvars, mvars, evars, rvars>>

(* The next call in the session.  What belonged to the call is gone with   *)
(* its memory; the exception stack, subtransactions, portals and           *)
(* expression contexts are the session's and stay, except that an error    *)
(* aborts what the caller's own transaction level had opened.              *)
NextCall ==
  /\ pc \in {"done", "failed"}
  /\ pc' = "run"
  /\ alloc' = {} /\ frame' = [f \in Frame |-> NewFrame]
  /\ stmt_mcontext' = NULL /\ stmt_mcontext_parent' = 0 /\ mcontexts' = 0
  /\ edata' = [l \in MLevel |-> {}]
  /\ cur_error' = NoFrame /\ jit_cur_error' = NoFrame
  /\ retisnull' = TRUE /\ found' = FALSE /\ rc' = "OK"
  /\ portals' = IF pc = "failed" THEN {p \in portals : p.subid # NoFrame} ELSE portals
  /\ UNCHANGED <<nest, todo, goal, PG_exception_stack, subxacts,
                 simple_econtext_stack, eval_econtext>>

Next ==
  \/ \E label \in Label \union {NoLabel} :
       \/ \E kind \in {"loop", "while", "fori", "block"} : Enter(kind, label)
       \/ EnterQuery(label)
       \/ EnterTry(label)
       \/ \E op \in {"exit", "continue"} : upl_emit_loop_exit(label, op)
  \/ \E b \in BOOLEAN : SetFound(b)
  \/ \E code \in {"OK", "EXIT", "CONTINUE", "RETURN"} : Foreach(code)
  \/ InitVars \/ UseStmtMcontext \/ ForeachDone \/ EndBody \/ upl_emit_return
  \/ Unwind \/ Branch \/ RaiseError \/ Catch \/ RunHandler \/ Rethrow
  \/ Fail \/ NextCall

(* Jumps and error handling are straight-line code: once begun they are    *)
(* carried through.  Which statement a program runs next is its own affair.*)
Fairness == WF_vars(Unwind \/ Branch \/ Catch \/ RunHandler \/ Rethrow \/ Fail)

Spec == Init /\ [][Next]_vars /\ Fairness

-----------------------------------------------------------------------------

(* Positions of the constructs still in force: all of nest, less what a    *)
(* jump has already released.                                              *)
InForce ==
  IF pc = "jump"
  THEN {i \in 1 .. Depth : nest[i].kind \in CleanupKind =>
          \/ \E k \in DOMAIN todo : todo[k] = i
          \/ i <= goal.pos}
  ELSE IF pc = "catch" THEN 1 .. goal.pos - 1 ELSE 1 .. Depth

Tries    == {i \in InForce : nest[i].kind = "try"}
Handling == {i \in InForce : nest[i].kind = "handler"}
Queries  == {i \in InForce : nest[i].kind = "query"}

Innermost(S) == IF S = {} THEN NoFrame ELSE nest[Max(S)].res
Below(i)     == {j \in Tries : j < i}

(* ereport(ERROR) always finds the handler of the innermost exception      *)
(* block whose body is running, and each armed frame restores the one      *)
(* around it: no jump, RETURN or caught error leaves PG_exception_stack    *)
(* pointing into a block the function has left.                            *)
ExceptionStackMatchesNesting ==
  /\ PG_exception_stack = Innermost(Tries)
  /\ \A i \in Tries : frame[nest[i].res].saved_exception_stack = Innermost(Below(i))

(* Exactly the subtransactions of the exception blocks whose body is       *)
(* running are open, in nesting order: each release or rollback, which     *)
(* acts on the current subtransaction whatever it is, hits its own.        *)
SubtransactionsMatchNesting ==
  /\ Len(subxacts) = Cardinality(Tries)
  /\ \A i \in Tries : subxacts[Cardinality(Below(i)) + 1] = nest[i].res

(* Exactly the portals of the row loops being run are open and pinned, in  *)
(* the subtransaction of the block around their loop.  Nothing is pinned   *)
(* when a call returns; a failed call leaves only portals of its caller's  *)
(* own level, which the caller's abort closes.                             *)
PortalsMatchNesting ==
  IF pc = "failed" THEN \A p \in portals : p.subid = NoFrame
  ELSE portals = {[id |-> nest[i].res, subid |-> Innermost(Below(i))] : i \in Queries}

(* The expression context in use is the top of the session's stack, as     *)
(* uplpgsql_destroy_econtext asserts, and belongs to the innermost running *)
(* exception block.                                                        *)
EcontextIsCurrent ==
  /\ simple_econtext_stack # <<>>
  /\ Last1(simple_econtext_stack).stack_econtext = eval_econtext
  /\ eval_econtext = Innermost(Tries)

(* GET STACKED DIAGNOSTICS sees the error of the innermost handler being   *)
(* run, and that error's data has not been freed by a statement, a nested  *)
(* block or an inner handler in the meantime.                              *)
CurErrorIsInnermostAndIntact ==
  pc \in {"run", "jump", "foreach"} =>
    /\ cur_error = Innermost(Handling)
    /\ cur_error # NoFrame => /\ frame[cur_error].stmt_mcontext <= mcontexts
                              /\ cur_error \in edata[frame[cur_error].stmt_mcontext]

(* The frame of every running exception block and handler, and the one a   *)
(* caught error is being dispatched from, is allocated and not shared:     *)
(* nothing releases a frame twice or uses one after its release.           *)
FramesOfRunningBlocksAreLive ==
  /\ \A i \in Tries \union Handling :
       /\ nest[i].res \in alloc
       /\ \A j \in Tries \union Handling : nest[j].res = nest[i].res => i = j
  /\ pc = "catch" => nest[goal.pos].res \in alloc

(* Statements never allocate in a context that holds a running handler's   *)
(* error: the statement context, if any, is the only child of the innermost*)
(* handler's.                                                              *)
StatementContextBelowHandler ==
  pc \in {"run", "jump", "foreach"} =>
    /\ stmt_mcontext_parent =
         IF Handling = {} THEN 0 ELSE frame[Innermost(Handling)].stmt_mcontext
    /\ stmt_mcontext \in {NULL, stmt_mcontext_parent + 1}
    /\ mcontexts = IF stmt_mcontext = NULL THEN stmt_mcontext_parent ELSE stmt_mcontext

(* A jump, a RETURN or an error, once begun, ends: control is back at a    *)
(* statement or the call is over, however many blocks pass the error on.   *)
UnwindingEnds == pc \in {"jump", "error", "catch"} ~> pc \in {"run", "done", "failed"}

(* The compiled code moves between constructs as PL/pgSQL says: EXIT and   *)
(* CONTINUE reach the construct they name, RETURN leaves the function, an  *)
(* error reaches the innermost block with a matching handler.              *)
AbstractKind(c) ==
  CASE c.kind \in {"fori", "query"} -> "for"
    [] c.kind = "try" /\ c.init     -> "declare"
    [] OTHER                        -> c.kind

(* How much of nest a jump in progress leaves standing.                    *)
Landed == CASE goal.op = "exit"     -> goal.pos - 1
            [] goal.op = "continue" -> goal.pos
            [] goal.op = "return"   -> 0
            [] OTHER                -> Depth

Semantics == INSTANCE PlSemantics WITH
  FuncName <- "an EXIT from the function is not compiled",
  stack  <- [i \in 1 .. Landed |-> [kind |-> AbstractKind(nest[i]), label |-> nest[i].label]],
  status <- CASE pc \in {"error", "catch"}            -> "raising"
              [] pc = "done" \/ goal.op = "return"    -> "returned"
              [] pc = "failed"                        -> "failed"
              [] OTHER                                -> "running",
  jump   <- IF goal.op \in {"exit", "continue"} THEN [op |-> goal.op, label |-> goal.label]
            ELSE [op |-> "none", label |-> NoLabel]

ImplementsSemantics == Semantics!Spec

-----------------------------------------------------------------------------
(* What comments and documentation say of the compiled code, and the code  *)
(* does not do.                                                            *)

(* A RETURN in a FOREACH body ends the function, as it does interpreted.   *)
ForeachReturnEndsFunction ==
  [][pc = "foreach" /\ rc = "RETURN" => pc' # "run"]_vars
=============================================================================
