--------------------------- MODULE InterpControl ---------------------------
(***************************************************************************)
(* Control flow of the interpreter (common/upl_exec.c), which runs DO      *)
(* blocks, event triggers, functions the compiler passed over, and FOREACH *)
(* loops of compiled functions.  EXIT, CONTINUE and RETURN are return      *)
(* codes handed up the C call stack one level at a time; each loop or      *)
(* block on the way decides whether the code is meant for it.              *)
(*                                                                         *)
(* "nest" is the C call stack: one entry per active exec_stmt_* call, with *)
(* that call's local variables.  As in JitControl the program is chosen    *)
(* as it runs.                                                             *)
(***************************************************************************)
EXTENDS Integers, Sequences, FiniteSetsExt

CONSTANTS Label,       \* the labels a program may put on loops and blocks
          NoLabel,     \* an unlabelled construct, EXIT or CONTINUE; C's NULL
          FuncName,    \* the function's name, a label around its whole body
          MaxDepth     \* bound on the nesting of constructs

ASSUME LabelAssumption == NoLabel \notin Label
ASSUME BoundAssumption == MaxDepth \in Nat

VARIABLES
  nest,                  \* active constructs, outermost first
  pc,                    \* "run", "unwind", "error", "catch", "done" or "failed"
  rc,                    \* the return code being handed up
  exitlabel,             \* estate->exitlabel
  catcher,               \* position of the block an error is dispatched in
  subxacts,              \* positions of the blocks whose subtransaction is open
  stmt_mcontext,         \* per-statement memory context (its level), or NULL
  stmt_mcontext_parent,  \* its parent's level
  mcontexts,             \* deepest live level
  edata,                 \* error data stored at each level
  cur_error,             \* estate->cur_error: position of the catching block
  found                  \* the FOUND variable

mvars == <<stmt_mcontext, stmt_mcontext_parent, mcontexts, edata>>
vars  == <<nest, pc, rc, exitlabel, catcher, subxacts, mvars, cur_error, found>>

NULL   == -1
NoPos  == 0
MLevel == 0 .. MaxDepth + 1

LoopKind == {"loop", "while", "for", "foreach"}
Kind     == LoopKind \union {"block", "declare", "try", "handler"}

Construct == [kind : Kind, label : Label \union {NoLabel},
              stmt_mcontext : Int, save_cur_error : 0 .. MaxDepth]

Depth  == Len(nest)
Top    == nest[Depth]
Pop(s) == SubSeq(s, 1, Len(s) - 1)

-----------------------------------------------------------------------------
get_stmt_mcontext ==
  IF stmt_mcontext = NULL THEN stmt_mcontext_parent + 1 ELSE stmt_mcontext

(* push_stmt_mcontext, right after get_stmt_mcontext.                      *)
push_stmt_mcontext ==
  /\ stmt_mcontext_parent' = get_stmt_mcontext
  /\ stmt_mcontext' = NULL
  /\ mcontexts' = Max({mcontexts, get_stmt_mcontext})
  /\ UNCHANGED edata

pop_stmt_mcontext ==
  /\ stmt_mcontext' = stmt_mcontext_parent
  /\ stmt_mcontext_parent' = stmt_mcontext_parent - 1

(* Frees what level m holds and deletes the levels below it.               *)
MemoryContextReset(m) ==
  /\ mcontexts' = m
  /\ edata' = [l \in MLevel |-> IF l >= m THEN {} ELSE edata[l]]

Init ==
  /\ nest = <<>> /\ pc = "run" /\ rc = "OK" /\ exitlabel = NoLabel /\ catcher = NoPos
  /\ subxacts = <<>>
  /\ stmt_mcontext = NULL /\ stmt_mcontext_parent = 0 /\ mcontexts = 0
  /\ edata = [l \in MLevel |-> {}]
  /\ cur_error = NoPos /\ found = FALSE

(* At a statement: not inside a DECLARE section.                           *)
AtStatement == pc = "run" /\ \A i \in 1 .. Depth : nest[i].kind # "declare"

Push(kind, label, m) ==
  nest' = Append(nest, [kind |-> kind, label |-> label, stmt_mcontext |-> m,
                        save_cur_error |-> cur_error])

(* exec_stmt_loop, exec_stmt_while, exec_stmt_fori and exec_for_query with *)
(* a first iteration; exec_stmt_block, whose DECLARE section comes first.  *)
Enter(kind, label) ==
  /\ AtStatement /\ Depth < MaxDepth
  /\ Push(kind, label, NULL)
  /\ UNCHANGED <<pc, rc, exitlabel, catcher, subxacts, mvars, cur_error, found>>

(* exec_stmt_foreach_a keeps its array in a private statement context.     *)
EnterForeach(label) ==
  /\ AtStatement /\ Depth < MaxDepth
  /\ Push("foreach", label, get_stmt_mcontext)
  /\ push_stmt_mcontext
  /\ UNCHANGED <<pc, rc, exitlabel, catcher, subxacts, cur_error, found>>

(* The variables are initialised, outside the subtransaction; then the     *)
(* block's context is made, the subtransaction begun and the body entered. *)
BeginSubTransaction ==
  /\ pc = "run" /\ nest # <<>> /\ Top.kind = "declare"
  /\ nest' = [nest EXCEPT ![Depth].kind = "try", ![Depth].stmt_mcontext = get_stmt_mcontext]
  /\ stmt_mcontext' = get_stmt_mcontext
  /\ mcontexts' = Max({mcontexts, get_stmt_mcontext})
  /\ subxacts' = Append(subxacts, Depth)
  /\ UNCHANGED <<pc, rc, exitlabel, catcher, stmt_mcontext_parent, edata, cur_error, found>>

(* A statement that sets FOUND, or a FOR loop whose body never runs.       *)
SetFound(b) ==
  /\ AtStatement
  /\ found' = b
  /\ UNCHANGED <<nest, pc, rc, exitlabel, catcher, subxacts, mvars, cur_error>>

(* A statement with statement-lifespan data (EXECUTE, RAISE, CALL...).     *)
UseStmtMcontext ==
  /\ AtStatement
  /\ stmt_mcontext' = get_stmt_mcontext
  /\ MemoryContextReset(get_stmt_mcontext)
  /\ UNCHANGED <<nest, pc, rc, exitlabel, catcher, subxacts, stmt_mcontext_parent,
                 cur_error, found>>

(* exec_stmt_exit and exec_stmt_return start handing a code up.  The       *)
(* grammar has checked that a construct named by the label is around the   *)
(* statement, the function itself included, and that CONTINUE names a loop.*)
Targets(l) == {i \in 1 .. Depth : IF l = NoLabel THEN nest[i].kind \in LoopKind
                                                 ELSE nest[i].label = l}

exec_stmt_exit(label, is_exit) ==
  /\ AtStatement
  /\ IF is_exit THEN Targets(label) # {} \/ label = FuncName
     ELSE Targets(label) # {} /\ nest[Max(Targets(label))].kind \in LoopKind
  /\ exitlabel' = label
  /\ rc' = IF is_exit THEN "EXIT" ELSE "CONTINUE"
  /\ pc' = "unwind"
  /\ UNCHANGED <<nest, catcher, subxacts, mvars, cur_error, found>>

exec_stmt_return ==
  /\ AtStatement
  /\ rc' = "RETURN" /\ pc' = "unwind"
  /\ UNCHANGED <<nest, exitlabel, catcher, subxacts, mvars, cur_error, found>>

(* Mutants of Finish: FOUND is set only by a loop that runs to its end;    *)
(* handlers end a subtransaction, too; a handler's end keeps its error      *)
(* current; FOREACH leaves its private context in place.                   *)
FinishWith(c, ok, ending, restoring, popping) ==
  /\ found' = IF c.kind \in {"for", "foreach"} /\ ok THEN TRUE ELSE found
  /\ subxacts' = IF c.kind \in ending THEN Pop(subxacts) ELSE subxacts
  /\ cur_error' = IF c.kind \in restoring THEN c.save_cur_error ELSE cur_error
  /\ IF c.kind \in popping
     THEN pop_stmt_mcontext /\ MemoryContextReset(c.stmt_mcontext)
     ELSE UNCHANGED mvars

Finish_found_if_ok(c) ==
  FinishWith(c, rc = "OK", {"try"}, {"handler"}, {"handler", "foreach"})
Finish_handler_ends(c) ==
  FinishWith(c, TRUE, {"try", "handler"}, {"handler"}, {"handler", "foreach"})
Finish_keeps_error(c) ==
  FinishWith(c, TRUE, {"try"}, {}, {"handler", "foreach"})
Finish_keeps_context(c) ==
  FinishWith(c, TRUE, {"try"}, {"handler"}, {"handler"})

(* What the innermost construct does on its way out, after its last        *)
(* statement: FOR loops set FOUND, FOREACH frees its array, the body of an *)
(* exception block commits, a handler drops the error it handled.          *)
Finish(c) ==
  /\ found' = IF c.kind \in {"for", "foreach"} THEN TRUE ELSE found
  /\ subxacts' = IF c.kind = "try" THEN Pop(subxacts) ELSE subxacts
  /\ cur_error' = IF c.kind = "handler" THEN c.save_cur_error ELSE cur_error
  /\ IF c.kind \in {"handler", "foreach"}
     THEN pop_stmt_mcontext /\ MemoryContextReset(c.stmt_mcontext)
     ELSE UNCHANGED mvars

(* The body is over with code OK; LOOP only ever goes round again.         *)
EndBody ==
  /\ AtStatement /\ nest # <<>> /\ Top.kind # "loop"
  /\ Finish(Top)
  /\ nest' = Pop(nest)
  /\ UNCHANGED <<pc, rc, exitlabel, catcher>>

(* Mutant: an unlabelled block takes an unlabelled EXIT.                   *)
Matches_any(c) ==
  \/ rc \in {"EXIT", "CONTINUE"} /\ c.kind \in LoopKind /\ exitlabel \in {NoLabel, c.label}
  \/ rc = "EXIT" /\ c.kind \notin LoopKind /\ exitlabel = c.label

(* Is an EXIT or CONTINUE meant for construct c?  Loops take unlabelled    *)
(* ones and their own label (LOOP_RC_PROCESSING); blocks only an EXIT with *)
(* their own label (exec_stmt_block).                                      *)
Matches(c) ==
  \/ rc \in {"EXIT", "CONTINUE"} /\ c.kind \in LoopKind /\ exitlabel \in {NoLabel, c.label}
  \/ rc = "EXIT" /\ c.kind \notin LoopKind /\ exitlabel # NoLabel /\ exitlabel = c.label

(* The innermost construct gets a code other than OK from its body.        *)
Stopped ==
  /\ rc' = "OK" /\ exitlabel' = NoLabel /\ pc' = "run"
  /\ UNCHANGED catcher

LOOP_RC_PROCESSING ==
  /\ pc = "unwind" /\ nest # <<>>
  /\ \/ /\ Matches(Top) /\ rc = "CONTINUE"
        /\ Stopped
        /\ UNCHANGED <<nest, subxacts, mvars, cur_error, found>>
     \/ /\ Matches(Top) /\ rc = "EXIT"
        /\ Stopped
        /\ Finish(Top) /\ nest' = Pop(nest)
     \/ /\ ~Matches(Top)
        /\ Finish(Top) /\ nest' = Pop(nest)
        /\ UNCHANGED <<pc, rc, exitlabel, catcher>>

RaiseError ==
  /\ pc = "run"
  /\ pc' = "error"
  /\ UNCHANGED <<nest, rc, exitlabel, catcher, subxacts, mvars, cur_error, found>>

Tries == {i \in 1 .. Depth : nest[i].kind = "try"}

(* PG_CATCH of the innermost block: the error is copied to its context,    *)
(* the subtransaction rolled back and the context pushed down.             *)
Catch ==
  /\ pc = "error" /\ Tries # {}
  /\ LET p == Max(Tries)
         m == nest[p].stmt_mcontext
     IN  /\ catcher' = p
         /\ edata' = [l \in MLevel |-> CASE l < m -> edata[l]
                                         [] l = m -> edata[l] \union {p}
                                         [] l > m -> {}]
         /\ stmt_mcontext_parent' = m /\ stmt_mcontext' = NULL /\ mcontexts' = m
  /\ subxacts' = Pop(subxacts)
  /\ pc' = "catch"
  /\ UNCHANGED <<nest, rc, exitlabel, cur_error, found>>

RunHandler ==
  /\ pc = "catch"
  /\ cur_error' = catcher
  /\ nest' = [SubSeq(nest, 1, catcher) EXCEPT ![catcher].kind = "handler"]
  /\ pc' = "run" /\ catcher' = NoPos
  /\ UNCHANGED <<rc, exitlabel, subxacts, mvars, found>>

(* Mutant: the error is raised again inside the block that caught it.      *)
ReThrowError_to_itself ==
  /\ pc = "catch"
  /\ cur_error' = nest[catcher].save_cur_error
  /\ subxacts' = Append(subxacts, catcher)
  /\ pc' = "error" /\ catcher' = NoPos
  /\ UNCHANGED <<nest, rc, exitlabel, mvars, found>>

(* No WHEN clause matches: cur_error goes back, the contexts are left to   *)
(* the next PG_CATCH.                                                      *)
ReThrowError ==
  /\ pc = "catch"
  /\ cur_error' = nest[catcher].save_cur_error
  /\ nest' = SubSeq(nest, 1, catcher - 1)
  /\ pc' = "error" /\ catcher' = NoPos
  /\ UNCHANGED <<rc, exitlabel, subxacts, mvars, found>>

(* The outermost block returns RETURN, or something else, which is an      *)
(* error; or an error goes past every block.                               *)
Finished ==
  /\ \/ pc = "unwind" /\ nest = <<>> /\ rc = "RETURN" /\ pc' = "done"
     \/ pc = "unwind" /\ nest = <<>> /\ rc # "RETURN" /\ pc' = "failed"
     \/ AtStatement /\ nest = <<>> /\ pc' = "failed"
     \/ pc = "error" /\ Tries = {} /\ pc' = "failed"
  /\ nest' = <<>>
  /\ UNCHANGED <<rc, exitlabel, catcher, subxacts, mvars, cur_error, found>>

NextCall ==
  /\ pc \in {"done", "failed"}
  /\ pc' = "run" /\ rc' = "OK" /\ exitlabel' = NoLabel
  /\ stmt_mcontext' = NULL /\ stmt_mcontext_parent' = 0 /\ mcontexts' = 0
  /\ edata' = [l \in MLevel |-> {}]
  /\ cur_error' = NoPos /\ found' = FALSE
  /\ UNCHANGED <<nest, catcher, subxacts>>

Next ==
  \/ \E label \in Label \union {NoLabel} :
       \/ \E kind \in {"loop", "while", "for", "block", "declare"} : Enter(kind, label)
       \/ EnterForeach(label)
       \/ \E is_exit \in BOOLEAN : exec_stmt_exit(label, is_exit)
  \/ \E b \in BOOLEAN : SetFound(b)
  \/ BeginSubTransaction \/ UseStmtMcontext \/ exec_stmt_return \/ EndBody
  \/ LOOP_RC_PROCESSING \/ RaiseError \/ Catch \/ RunHandler \/ ReThrowError
  \/ Finished \/ NextCall

(* Returning a code and handling an error are straight-line code.          *)
Fairness == WF_vars(LOOP_RC_PROCESSING \/ Catch \/ RunHandler \/ ReThrowError \/ Finished)

Spec == Init /\ [][Next]_vars /\ Fairness

-----------------------------------------------------------------------------
Handling == {i \in 1 .. Depth : nest[i].kind = "handler"}
InForce  == IF pc = "catch" THEN {i \in Tries : i < catcher} ELSE Tries

(* Each PG_TRY's release or rollback hits the subtransaction of its own    *)
(* block: the open ones are those of the running bodies, in order.         *)
SubtransactionsMatchNesting ==
  /\ Len(subxacts) = Cardinality(InForce)
  /\ \A i \in InForce : subxacts[Cardinality({j \in InForce : j <= i})] = i

(* GET STACKED DIAGNOSTICS sees the innermost running handler's error, and *)
(* nothing run inside the handler has freed it.                            *)
CurErrorIsInnermostAndIntact ==
  pc \in {"run", "unwind"} =>
    /\ cur_error = Max(Handling \union {NoPos})
    /\ cur_error # NoPos => cur_error \in edata[nest[cur_error].stmt_mcontext]

(* When a block commits, the statement context is the one it made on entry *)
(* (asserted in exec_stmt_block), whatever its statements pushed, popped   *)
(* or left behind after an error.                                          *)
StmtMcontextUnchangedAtBlockExit ==
  (pc \in {"run", "unwind"} /\ nest # <<>> /\ Top.kind = "try") =>
    stmt_mcontext = Top.stmt_mcontext

(* Every way out of a FOR or FOREACH loop whose body has run sets FOUND.   *)
LeavingForSetsFound ==
  [][(pc \in {"run", "unwind"} /\ pc' \in {"run", "unwind"} /\ Len(nest') < Depth
        /\ Top.kind \in {"for", "foreach"}) => found']_vars

(* A code or an error, once on its way up, arrives.                        *)
UnwindingEnds == pc \in {"unwind", "error", "catch"} ~> pc \in {"run", "done", "failed"}

(* The interpreter implements PlSemantics.  A code on its way up stands    *)
(* for the jump already made: the level-by-level tests stop exactly at the *)
(* construct the statement named.                                          *)
Landed ==
  CASE pc = "unwind" /\ rc = "EXIT"     -> Max(Targets(exitlabel) \union {1}) - 1
    [] pc = "unwind" /\ rc = "CONTINUE" -> Max(Targets(exitlabel))
    [] pc = "unwind" /\ rc = "RETURN"   -> 0
    [] OTHER                            -> Depth

AbstractKind(c) == IF c.kind = "foreach" THEN "for" ELSE c.kind

Semantics == INSTANCE PlSemantics WITH
  stack  <- [i \in 1 .. Landed |-> [kind |-> AbstractKind(nest[i]), label |-> nest[i].label]],
  status <- CASE pc \in {"error", "catch"}             -> "raising"
              [] pc = "done"                           -> "returned"
              [] pc = "unwind" /\ rc = "RETURN"        -> "returned"
              [] pc = "failed"                         -> "failed"
              [] OTHER                                 -> "running",
  jump   <- CASE nest # <<>> /\ rc = "EXIT"     -> [op |-> "exit", label |-> exitlabel]
              [] nest # <<>> /\ rc = "CONTINUE" -> [op |-> "continue", label |-> exitlabel]
              [] OTHER                          -> [op |-> "none", label |-> NoLabel]

ImplementsSemantics == Semantics!Spec
=============================================================================
