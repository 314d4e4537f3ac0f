------------------------------ MODULE ExprPlan ------------------------------
(***************************************************************************)
(* Plans and evaluation trees of expressions (common/upl_exec.c): when a   *)
(* plan is made, checked and replaced, when the evaluation tree of a       *)
(* "simple" expression or of a type cast may be used again, which EState   *)
(* and ExprContext an activation works in, and how transactions, exception *)
(* blocks, CALL, DO, recursion and errors interfere.                       *)
(*                                                                         *)
(* One expression, shared by every activation of the routine it belongs    *)
(* to, or one cast, shared by every routine: a behaviour follows one of    *)
(* them, since they meet in the stack of activations only.  EStates are    *)
(* numbered by the transaction they belong to, subtransactions by depth.   *)
(***************************************************************************)
EXTENDS Integers, Sequences, FiniteSets, SequencesExt

CONSTANTS MaxDepth,        \* activations on the stack
          MaxXact,         \* transactions
          MaxSub,          \* exception blocks entered at a time
          MaxPlan,         \* CachedPlans alive at a time
          RecompileAtCall  \* every call compiles again (a compilation failed)

VARIABLES
  owner,     \* kind of the routine the expression belongs to; "cast": a cast
  lxid,      \* MyProc->vxid.lxid
  shared,    \* shared_simple_eval_estate, shared_simple_eval_resowner (0: NULL)
  estack,    \* simple_econtext_stack
  expr,      \* the UPLpgSQL_expr
  source,    \* its CachedPlanSource: generic plan, validity
  refs,      \* references the simple-expression resource owner holds on plans
  cexpr,     \* entry of cast_expr_hash
  cast,      \* entries of shared_cast_hash and of a DO block's private hash
  frames     \* activations, innermost last

vars == <<owner, lxid, shared, estack, expr, source, refs, cexpr, cast, frames>>

Private == -1                    \* the EState of a DO block
NoTree == [n |-> 0, on |-> 0, est |-> 0, bad |-> FALSE]   \* bad: an error left it
NoSource == [id |-> 0, gplan |-> 0, valid |-> FALSE]
NoCast == [state |-> NoTree, in_use |-> FALSE, lxid |-> 0]
NoExpr == [plan |-> 0, simple |-> 0, simple_plan |-> 0, plan_lxid |-> 0,
           state |-> NoTree, in_use |-> FALSE, lxid |-> 0]
Nothing == [tree |-> NoTree, src |-> 0, plan |-> 0]

Kind == {"func", "proc", "do"}
Frame(kind, atomic, est) ==
  [kind |-> kind, atomic |-> atomic, blocks |-> <<>>, ectx |-> 0, est |-> est,
   pc |-> "idle", run |-> Nothing, before_lxid |-> 0]

Top    == Last(frames)
Callers == Front(frames)
Running(f) == f.run.tree # NoTree
Set(f) == frames' = Append(Callers, f)
Idle == frames # <<>> /\ Top.pc = "idle"

(* A number nobody refers to.                                              *)
NewId(used) == CHOOSE n \in 1 .. Cardinality(used) + 1 : n \notin used /\ \A k \in 1 .. n - 1 : k \in used
NewTree == NewId(({expr.state.n} \union {cast[h].state.n : h \in DOMAIN cast}
                   \union {frames[i].run.tree.n : i \in DOMAIN frames}) \ {0})
NewSource == NewId(({source.id} \union {frames[i].run.src : i \in DOMAIN frames}) \ {0})
NewCexpr == NewId(({cexpr.id} \union {cast[h].state.on : h \in DOMAIN cast}
                   \union {frames[i].run.tree.on : i \in DOMAIN frames}) \ {0})
UsedPlans == {source.gplan, expr.simple, expr.simple_plan, expr.state.on}
               \union {frames[i].run.plan : i \in DOMAIN frames}
               \union {frames[i].run.tree.on : i \in DOMAIN frames}
               \union {p \in DOMAIN refs : refs[p] > 0}
NewPlan == NewId(UsedPlans \ {0})

Depth(fs) == FoldSeq(LAMBDA f, n : Len(f.blocks) + n, 0, fs)

-----------------------------------------------------------------------------
(* EStates and ExprContexts.                                               *)

(* uplpgsql_create_econtext for activation f on top of callers: an EState  *)
(* if the activation has none, and an ExprContext on the stack.            *)
uplpgsql_create_econtext(callers, f, stack, sh, lx) ==
  LET est == IF f.est # 0 THEN f.est ELSE IF sh # 0 THEN sh ELSE lx
      new == NewId({stack[i].ectx : i \in DOMAIN stack} \union ToSet(f.blocks)
                     \union UNION {{callers[i].ectx} \union ToSet(callers[i].blocks) : i \in DOMAIN callers})
  IN  /\ shared' = IF f.est = 0 THEN est ELSE sh
      /\ estack' = Append(stack, [ectx |-> new, subxid |-> Depth(Append(callers, f))])
      /\ frames' = Append(callers, [f EXCEPT !.est = est, !.ectx = new])

(* uplpgsql_subxact_cb: ExprContexts of the subtransaction that ends.      *)
uplpgsql_subxact_cb(stack, subxid) == SelectSeq(stack, LAMBDA e : e.subxid # subxid)

(* uplpgsql_xact_cb, at commit and at abort.                               *)
uplpgsql_xact_cb == refs' = [p \in DOMAIN refs |-> 0]

-----------------------------------------------------------------------------
(* Plans.  The operators work on the expression, its plan source and the   *)
(* references: st = [e, s, r].  The server's answer: is the query simple,  *)
(* does planning fail?                                                     *)
Answer == [simple : BOOLEAN, fails : BOOLEAN]

(* SPI_plan_get_cached_plan: the generic plan, made again if it is not     *)
(* valid.  The plan source's reference moves to the new plan.              *)
SPI_plan_get_cached_plan(s) ==
  IF s.gplan # 0 /\ s.valid THEN s ELSE [s EXCEPT !.gplan = NewPlan, !.valid = TRUE]

(* exec_save_simple_expr: the evaluation tree is to be built again.        *)
exec_save_simple_expr(e, p) ==
  [e EXCEPT !.simple = p, !.state = NoTree, !.in_use = FALSE, !.lxid = 0]

(* The plan is simple: take a reference in the resource owner.             *)
Remember(st, p) ==
  [e |-> exec_save_simple_expr([st.e EXCEPT !.simple_plan = p, !.plan_lxid = lxid], p),
   s |-> st.s, r |-> [st.r EXCEPT ![p] = @ + 1]]

(* exec_simple_check_plan, right after the plan source was made.           *)
exec_simple_check_plan(st, a) ==
  LET e0 == [st.e EXCEPT !.simple = 0]
      s1 == SPI_plan_get_cached_plan(st.s)
  IN  IF ~a.simple \/ a.fails THEN [st EXCEPT !.e = e0]
      ELSE Remember([st EXCEPT !.e = e0, !.s = s1], s1.gplan)

(* exec_prepare_plan.                                                      *)
exec_prepare_plan(st, a) ==
  LET src == [id |-> NewSource, gplan |-> 0, valid |-> FALSE]
  IN  exec_simple_check_plan([st EXCEPT !.e.plan = src.id, !.s = src], a)

(* CachedPlanIsSimplyValid.                                                *)
CachedPlanIsSimplyValid(st) == st.s.valid /\ st.s.gplan = st.e.simple_plan

(* Mutant: a replaced plan keeps its reference.                            *)
Replan_leak(st, a) ==
  LET e0 == [st.e EXCEPT !.simple = 0, !.simple_plan = 0, !.plan_lxid = 0]
      s1 == SPI_plan_get_cached_plan(st.s)
  IN  IF a.simple /\ ~a.fails THEN Remember([e |-> e0, s |-> s1, r |-> st.r], s1.gplan)
      ELSE [st EXCEPT !.e = e0]

(* The plan is not valid any more: forget it, then plan again.             *)
Replan(st, a) ==
  LET r0 == IF st.e.plan_lxid = lxid THEN [st.r EXCEPT ![st.e.simple_plan] = @ - 1] ELSE st.r
      e0 == [st.e EXCEPT !.simple = 0, !.simple_plan = 0, !.plan_lxid = 0]
      s1 == SPI_plan_get_cached_plan(st.s)
  IN  IF a.fails THEN [st EXCEPT !.e = e0, !.r = r0]
      ELSE IF a.simple THEN Remember([e |-> e0, s |-> s1, r |-> r0], s1.gplan)
      ELSE [e |-> e0, s |-> s1, r |-> r0]

(* Mutant: the tree is used again while an evaluation is using it.         *)
Busy_never(e) == FALSE

(* The tree is being used in this transaction, or an error left it in use. *)
Busy(e) == e.in_use /\ e.lxid = lxid

(* Mutant: the tree of an earlier transaction is used.                     *)
InitTree_once(e, est) ==
  IF e.state # NoTree THEN e
  ELSE [e EXCEPT !.state = [n |-> NewTree, on |-> e.simple, est |-> est, bad |-> FALSE],
                 !.in_use = FALSE, !.lxid = lxid]

(* ExecInitExprWithParams, once in a transaction, in EState est.           *)
InitTree(e, est) ==
  IF e.lxid = lxid THEN e
  ELSE [e EXCEPT !.state = [n |-> NewTree, on |-> e.simple, est |-> est, bad |-> FALSE],
                 !.in_use = FALSE, !.lxid = lxid]

(* Mutant: the plan is not checked again.                                  *)
Revalidated_never(st, a) == st

(* exec_eval_simple_expr, up to the evaluation: a valid plan on which the  *)
(* resource owner has a reference in this transaction.                     *)
Revalidated(st, a) ==
  IF ~CachedPlanIsSimplyValid(st) THEN Replan(st, a)
  ELSE IF st.e.plan_lxid = lxid THEN st
  ELSE [st EXCEPT !.e.plan_lxid = lxid, !.r = [@ EXCEPT ![st.e.simple_plan] = @ + 1]]

(* Set the variables to st and the activation on top to f.                 *)
Become(st, f) == expr' = st.e /\ source' = st.s /\ refs' = st.r /\ Set(f)

Failing(f) == [f EXCEPT !.pc = "failing", !.run = Nothing]

(* exec_run_select starts: SPI executes the generic plan s.gplan.          *)
exec_run_select(st, s) ==
  Become([st EXCEPT !.s = s],
         [Top EXCEPT !.pc = "spi", !.run = [Nothing EXCEPT !.src = s.id, !.plan = s.gplan]])

(* exec_eval_expr starts: the plan if there is none; then the tree of a    *)
(* simple expression, if nobody is using it; otherwise SPI (exec_run_select). *)
exec_eval_expr(a) ==
  LET st0 == [e |-> expr, s |-> source, r |-> refs]
      st1 == IF expr.plan = 0 THEN exec_prepare_plan(st0, a) ELSE st0
      try == st1.e.simple # 0 /\ ~Busy(st1.e)
      st2 == IF try THEN Revalidated(st1, a) ELSE st1
      e3  == [InitTree(st2.e, Top.est) EXCEPT !.in_use = TRUE]
      s3  == SPI_plan_get_cached_plan(st2.s)
      planned == expr.plan = 0 \/ (try /\ ~CachedPlanIsSimplyValid(st1)) \/ s3 # st2.s
  IN  /\ Idle /\ Top.kind = owner
      /\ NewPlan <= MaxPlan
      /\ a.fails => planned
      /\ IF a.fails THEN Become(st2, Failing(Top))
         ELSE IF try /\ st2.e.simple # 0
         THEN Become([st2 EXCEPT !.e = e3],
                     [Top EXCEPT !.pc = "simple", !.run = [Nothing EXCEPT !.tree = e3.state]])
         ELSE exec_run_select(st2, s3)
      /\ UNCHANGED <<owner, lxid, shared, estack, cexpr, cast>>

(* The evaluation is over.                                                 *)
EvalDone ==
  /\ frames # <<>> /\ Top.pc \in {"simple", "spi"}
  /\ expr' = IF Top.pc = "simple" THEN [expr EXCEPT !.in_use = FALSE] ELSE expr
  /\ Set([Top EXCEPT !.pc = "idle", !.run = Nothing])
  /\ UNCHANGED <<owner, lxid, shared, estack, source, refs, cexpr, cast>>

-----------------------------------------------------------------------------
(* Casts.  A DO block has a hash of its own for the trees, the expressions *)
(* are the session's.                                                      *)
Hash(f) == IF f.kind = "do" THEN "private" ELSE "shared"

(* The cast expression, looked up again when it is not valid.              *)
Looked(noop) == IF cexpr.id # 0 /\ cexpr.valid THEN cexpr ELSE [id |-> NewCexpr, valid |-> TRUE, noop |-> noop]

(* A tree in use is abandoned for a new one.                               *)
CastTree(c, on, est) ==
  IF c.lxid = lxid /\ ~c.in_use THEN c
  ELSE [state |-> [n |-> NewTree, on |-> on, est |-> est, bad |-> FALSE], in_use |-> FALSE, lxid |-> lxid]

(* do_cast_value: get_cast_hashentry, and the evaluation starts.           *)
do_cast_value(noop, fails) ==
  LET h  == Hash(Top)
      c0 == IF cexpr.id # 0 /\ cexpr.valid THEN cast[h] ELSE NoCast
      x  == Looked(noop)
      c1 == [CastTree(c0, x.id, Top.est) EXCEPT !.in_use = TRUE]
  IN  /\ Idle /\ owner = "cast"
      /\ fails \/ noop => x # cexpr
      /\ IF fails
         THEN cexpr' = [id |-> 0, valid |-> FALSE, noop |-> FALSE] /\ Set(Failing(Top)) /\ UNCHANGED cast
         ELSE /\ cexpr' = x
              /\ IF x.noop THEN cast' = [cast EXCEPT ![h] = c0] /\ UNCHANGED frames
                 ELSE /\ cast' = [cast EXCEPT ![h] = c1]
                      /\ Set([Top EXCEPT !.pc = "cast", !.run = [Nothing EXCEPT !.tree = c1.state]])
      /\ UNCHANGED <<owner, lxid, shared, estack, expr, source, refs>>

CastDone ==
  /\ frames # <<>> /\ Top.pc = "cast"
  /\ cast' = [cast EXCEPT ![Hash(Top)].in_use = FALSE]
  /\ Set([Top EXCEPT !.pc = "idle", !.run = Nothing])
  /\ UNCHANGED <<owner, lxid, shared, estack, expr, source, refs, cexpr>>

-----------------------------------------------------------------------------
(* Compiled code: an assignment or a condition that stays with the         *)
(* interpreter has its plan freed when the function is compiled.           *)
uplpgsql_compile_assign(kind) ==
  IF kind = owner /\ RecompileAtCall
  THEN expr' = [expr EXCEPT !.plan = 0] /\ source' = NoSource
  ELSE UNCHANGED <<expr, source>>

(* A routine is called: by the query or expression being evaluated (a      *)
(* function), by CALL (a procedure), by DO.  uplpgsql_estate_setup.        *)
Call(kind, atomic) ==
  /\ Len(frames) < MaxDepth /\ lxid <= MaxXact
  /\ \/ frames = <<>> /\ (kind = "func" => atomic)
     \/ kind = "func" /\ frames # <<>> /\ Top.pc \in {"simple", "spi", "cast"} /\ atomic
     \/ /\ kind # "func" /\ Idle
        /\ atomic = (Top.atomic \/ Depth(frames) > 0)
        /\ kind = "do" => \A i \in DOMAIN frames : frames[i].kind # "do"
  /\ uplpgsql_create_econtext(
       IF frames = <<>> THEN <<>> ELSE IF kind = "func" THEN frames
       ELSE Append(Callers, [Top EXCEPT !.pc = "call", !.before_lxid = lxid]),
       Frame(kind, atomic, IF kind = "do" THEN Private ELSE shared), estack, shared, lxid)
  /\ uplpgsql_compile_assign(kind)
  /\ UNCHANGED <<owner, lxid, refs, cexpr, cast>>

(* Mutant: the caller goes on with the EState it had.                      *)
exec_stmt_call_same(caller, f) ==
  /\ frames' = Append(f, [caller EXCEPT !.pc = "idle"])
  /\ estack' = Front(estack)
  /\ UNCHANGED shared

(* exec_stmt_call, after the routine returned: a new ExprContext if it     *)
(* ended the transaction.                                                  *)
exec_stmt_call(caller, callers) ==
  IF caller.before_lxid = lxid
  THEN frames' = Append(callers, [caller EXCEPT !.pc = "idle", !.before_lxid = 0])
       /\ estack' = Front(estack) /\ UNCHANGED shared
  ELSE uplpgsql_create_econtext(callers, [caller EXCEPT !.pc = "idle", !.before_lxid = 0, !.est = 0], Front(estack), shared, lxid)

(* The routine returns: uplpgsql_destroy_econtext; the end of a DO block.  *)
Return ==
  /\ Idle /\ Top.blocks = <<>>
  /\ IF Callers # <<>> /\ Last(Callers).pc = "call" THEN exec_stmt_call(Last(Callers), Front(Callers))
     ELSE frames' = Callers /\ estack' = Front(estack) /\ UNCHANGED shared
  /\ cast' = IF Top.kind = "do" THEN [cast EXCEPT !["private"] = NoCast] ELSE cast
  /\ UNCHANGED <<owner, lxid, expr, source, refs, cexpr>>

(* BEGIN ... EXCEPTION: a subtransaction with an ExprContext of its own.   *)
BeginBlock ==
  /\ Idle /\ Depth(frames) < MaxSub
  /\ uplpgsql_create_econtext(Callers, [Top EXCEPT !.blocks = Append(@, Top.ectx)], estack, shared, lxid)
  /\ UNCHANGED <<owner, lxid, expr, source, refs, cexpr, cast>>

(* The subtransaction of the innermost block ends, and the ExprContext of  *)
(* the outer one is current again.                                         *)
EndSub(pc) ==
  /\ estack' = uplpgsql_subxact_cb(estack, Depth(frames))
  /\ Set([Top EXCEPT !.blocks = Front(@), !.ectx = Last(Top.blocks), !.pc = pc])

EndBlock ==
  /\ Idle /\ Top.blocks # <<>>
  /\ EndSub("idle")
  /\ UNCHANGED <<owner, lxid, shared, expr, source, refs, cexpr, cast>>

(* exec_stmt_commit and exec_stmt_rollback.                                *)
CommitOrRollback ==
  /\ Idle /\ ~Top.atomic /\ Depth(frames) = 0 /\ lxid < MaxXact
  /\ lxid' = lxid + 1
  /\ uplpgsql_xact_cb
  /\ uplpgsql_create_econtext(Callers, [Top EXCEPT !.est = 0], <<>>, 0, lxid + 1)
  /\ UNCHANGED <<owner, expr, source, cexpr, cast>>

(* The transaction ends when no routine is active.                         *)
EndXact ==
  /\ frames = <<>> /\ lxid <= MaxXact
  /\ lxid' = lxid + 1 /\ shared' = 0 /\ estack' = <<>>
  /\ uplpgsql_xact_cb
  /\ UNCHANGED <<owner, expr, source, cexpr, cast, frames>>

-----------------------------------------------------------------------------
(* Errors.  The tree that was running is left as it is.                    *)
LeaveTree(f) ==
  /\ expr' = IF Running(f) /\ expr.state.n = f.run.tree.n THEN [expr EXCEPT !.state.bad = TRUE] ELSE expr
  /\ cast' = [h \in DOMAIN cast |->
               IF Running(f) /\ cast[h].state.n = f.run.tree.n THEN [cast[h] EXCEPT !.state.bad = TRUE]
               ELSE cast[h]]

(* Something the activation on top does raises an error.                   *)
RaiseError ==
  /\ frames # <<>> /\ Top.pc # "failing"
  /\ LeaveTree(Top)
  /\ Set(Failing(Top))
  /\ UNCHANGED <<owner, lxid, shared, estack, source, refs, cexpr>>

(* The innermost block of the activation rolls its subtransaction back and *)
(* handles the error or throws it again.                                   *)
CatchError(handled) ==
  /\ frames # <<>> /\ Top.pc = "failing" /\ Top.blocks # <<>>
  /\ EndSub(IF handled THEN "idle" ELSE "failing")
  /\ UNCHANGED <<owner, lxid, shared, expr, source, refs, cexpr, cast>>

(* The error leaves the activation and goes to the caller.  A DO block     *)
(* drops the ExprContexts of the current subtransaction.                   *)
LeaveRoutine ==
  /\ Len(frames) > 1 /\ Top.pc = "failing" /\ Top.blocks = <<>>
  /\ IF Top.kind = "do"
     THEN /\ estack' = uplpgsql_subxact_cb(estack, Depth(frames))
          /\ cast' = [cast EXCEPT !["private"] = NoCast]
          /\ UNCHANGED expr
     ELSE LeaveTree(Last(Callers)) /\ UNCHANGED estack
  /\ frames' = Append(Front(Callers), Failing(Last(Callers)))
  /\ UNCHANGED <<owner, lxid, shared, source, refs, cexpr>>

(* Nobody handles the error: the transaction is aborted.                   *)
AbortXact ==
  /\ Len(frames) = 1 /\ Top.pc = "failing" /\ Top.blocks = <<>>
  /\ lxid' = lxid + 1 /\ shared' = 0 /\ estack' = <<>> /\ frames' = <<>>
  /\ uplpgsql_xact_cb
  /\ cast' = IF Top.kind = "do" THEN [cast EXCEPT !["private"] = NoCast] ELSE cast
  /\ UNCHANGED <<owner, expr, source, cexpr>>

(* Invalidation messages, at any time.                                     *)
InvalidatePlan ==
  /\ source.valid
  /\ source' = [source EXCEPT !.valid = FALSE]
  /\ UNCHANGED <<owner, lxid, shared, estack, expr, refs, cexpr, cast, frames>>

InvalidateCast ==
  /\ cexpr.valid
  /\ cexpr' = [cexpr EXCEPT !.valid = FALSE]
  /\ UNCHANGED <<owner, lxid, shared, estack, expr, source, refs, cast, frames>>

Init ==
  /\ owner \in {"func", "proc", "cast"}
  /\ lxid = 1 /\ shared = 0 /\ estack = <<>> /\ frames = <<>>
  /\ expr = NoExpr /\ source = NoSource /\ refs = [p \in 1 .. MaxPlan |-> 0]
  /\ cexpr = [id |-> 0, valid |-> FALSE, noop |-> FALSE]
  /\ cast = [h \in {"shared", "private"} |-> NoCast]

Next ==
  \/ \E kind \in Kind, atomic \in BOOLEAN : Call(kind, atomic)
  \/ \E a \in Answer : exec_eval_expr(a)
  \/ EvalDone
  \/ \E noop, fails \in BOOLEAN : do_cast_value(noop, fails)
  \/ CastDone
  \/ Return \/ BeginBlock \/ EndBlock \/ CommitOrRollback \/ EndXact
  \/ RaiseError \/ (\E handled \in BOOLEAN : CatchError(handled)) \/ LeaveRoutine \/ AbortXact
  \/ InvalidatePlan \/ InvalidateCast

Spec == Init /\ [][Next]_vars

-----------------------------------------------------------------------------
EStateAlive(est) == est # 0 /\ (est = shared \/ (est = Private /\ \E i \in DOMAIN frames : frames[i].kind = "do"))
PlanAlive(p) == p = source.gplan \/ refs[p] > 0 \/ \E i \in DOMAIN frames : frames[i].run.plan = p

(* The step in which the activation on top starts to evaluate.             *)
Starts(pc) == Idle /\ Len(frames') = Len(frames) /\ Last(frames').pc = pc

(* A tree that runs is in an EState that has not been freed, and the plan  *)
(* a simple expression's tree was built from still exists, whatever the    *)
(* routines it calls do: recursion, invalidation, replanning, exception    *)
(* blocks (exec_eval_simple_expr, upl_exec.c:6757).                        *)
RunningTreesAlive ==
  \A i \in DOMAIN frames : Running(frames[i]) =>
    /\ EStateAlive(frames[i].run.tree.est)
    /\ frames[i].pc = "simple" => PlanAlive(frames[i].run.tree.on)

(* No tree is run by two activations at once, and the tree of a simple     *)
(* expression that an error left half way is not run again                 *)
(* (expr_simple_in_use, cast_in_use).                                      *)
TreesNotReentered ==
  \A i \in DOMAIN frames : Running(frames[i]) =>
    /\ \A j \in DOMAIN frames : j # i => frames[j].run.tree.n # frames[i].run.tree.n
    /\ frames[i].pc = "simple" => ~frames[i].run.tree.bad

(* An evaluation that starts runs a tree built from the plan that is       *)
(* current and valid at that moment, however the plan was invalidated and  *)
(* by whom it was made again (exec_eval_simple_expr, upl_exec.c:6785).     *)
RunsCurrentPlan ==
  [][Starts("simple") =>
       source'.valid /\ Last(frames').run.tree.on = source'.gplan]_vars

(* The stack of ExprContexts holds those of the activations, each with     *)
(* those of its exception blocks, in order; only activations waiting for a *)
(* CALL that ended the transaction have none.  uplpgsql_destroy_econtext   *)
(* asserts the end of it (upl_exec.c:9452).                                *)
EcontextsInStep ==
  frames # <<>> /\ Top.pc # "failing" =>
    LET current == SelectSeq(frames, LAMBDA f : f.pc # "call" \/ f.before_lxid = lxid)
    IN  /\ [i \in DOMAIN estack |-> estack[i].ectx]
              = FoldSeq(LAMBDA f, s : f.blocks \o <<f.ectx>> \o s, <<>>, current)
        /\ \A i \in DOMAIN current : EStateAlive(current[i].est)

(* The resource owner holds one reference on the plan of the expression if *)
(* it was used in this transaction, and none on plans that were replaced:  *)
(* replanning leaks no plan (upl_exec.c:6812).                             *)
OneReferencePerTransaction ==
  \A p \in DOMAIN refs :
    refs[p] = IF expr.plan_lxid = lxid /\ expr.simple_plan = p THEN 1 ELSE 0

(* The plan SPI is executing is not freed under it: what compiled code     *)
(* frees is, as it says, "any plan created at compile time"                *)
(* (upl_compile_stmts.c:2651).                                             *)
PlanHeldWhileExecuting ==
  \A i \in DOMAIN frames : frames[i].pc = "spi" => frames[i].run.src = source.id
=============================================================================
