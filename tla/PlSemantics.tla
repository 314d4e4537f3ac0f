---------------------------- MODULE PlSemantics ----------------------------
(***************************************************************************)
(* What PL/pgSQL promises about block-structured control flow, apart from  *)
(* how it is carried out.  The state is the stack of constructs execution  *)
(* is inside of, outermost first, and what the call is doing.  A jump, a   *)
(* RETURN or the handling of an error is one step here; the interpreter    *)
(* (InterpControl) and the compiled code (JitControl) take many, and both  *)
(* are shown to implement this module.                                     *)
(***************************************************************************)
EXTENDS Integers, Sequences, FiniteSetsExt

CONSTANTS Label,      \* the labels a program may put on loops and blocks
          NoLabel,    \* an unlabelled construct, EXIT or CONTINUE
          FuncName,   \* the function's name, a label around its whole body
          MaxDepth    \* bound on the nesting of constructs

VARIABLES stack,      \* the constructs execution is inside of
          status,     \* "running", "raising", "returned" or "failed"
          jump        \* the EXIT or CONTINUE being carried out

vars == <<stack, status, jump>>

(* "declare" is an exception block whose DECLARE section is being          *)
(* initialised: its handlers are not in force yet.                         *)
Kind == {"loop", "while", "for", "block", "declare", "try", "handler"}
LoopKind == {"loop", "while", "for"}
Construct == [kind : Kind, label : Label \union {NoLabel}]

NoJump == [op |-> "none", label |-> NoLabel]

Init == stack = <<>> /\ status = "running" /\ jump = NoJump

AtStatement == status = "running" /\ jump = NoJump

(* Unlabelled EXIT and CONTINUE mean the innermost loop; labelled ones the *)
(* innermost construct with that label.                                    *)
Targets(l) ==
  {i \in DOMAIN stack : IF l = NoLabel THEN stack[i].kind \in LoopKind
                                       ELSE stack[i].label = l}

Enter(c) ==
  /\ AtStatement
  /\ Len(stack) < MaxDepth
  /\ stack' = Append(stack, c)
  /\ UNCHANGED <<status, jump>>

Top == stack[Len(stack)]

Declared ==
  /\ AtStatement
  /\ stack # <<>> /\ Top.kind = "declare"
  /\ stack' = [stack EXCEPT ![Len(stack)].kind = "try"]
  /\ UNCHANGED <<status, jump>>

Leave ==
  /\ AtStatement
  /\ stack # <<>> /\ Top.kind \notin {"loop", "declare"}
  /\ stack' = SubSeq(stack, 1, Len(stack) - 1)
  /\ UNCHANGED <<status, jump>>

(* EXIT with the function's name leaves the body: control falls off the    *)
(* end of the function.                                                    *)
Exit(l) ==
  /\ AtStatement
  /\ Targets(l) # {} \/ l = FuncName
  /\ stack' = SubSeq(stack, 1, Max(Targets(l) \union {1}) - 1)
  /\ jump' = [op |-> "exit", label |-> l]
  /\ UNCHANGED status

Continue(l) ==
  /\ AtStatement
  /\ Targets(l) # {} /\ stack[Max(Targets(l))].kind \in LoopKind
  /\ stack' = SubSeq(stack, 1, Max(Targets(l)))
  /\ jump' = [op |-> "continue", label |-> l]
  /\ UNCHANGED status

(* The jump is over and the next statement may run.                        *)
Arrive ==
  /\ jump # NoJump
  /\ jump' = NoJump
  /\ UNCHANGED <<stack, status>>

Return ==
  /\ AtStatement
  /\ stack' = <<>> /\ status' = "returned" /\ UNCHANGED jump

Raise ==
  /\ AtStatement
  /\ status' = "raising"
  /\ UNCHANGED <<stack, jump>>

Handlers == {i \in DOMAIN stack : stack[i].kind = "try"}

(* The innermost block whose body raised the error either has a matching   *)
(* handler or passes the error on.                                         *)
Handle ==
  /\ status = "raising" /\ Handlers # {}
  /\ LET h == Max(Handlers) IN
     stack' = Append(SubSeq(stack, 1, h - 1),
                     [kind |-> "handler", label |-> stack[h].label])
  /\ status' = "running" /\ UNCHANGED jump

PassOn ==
  /\ status = "raising" /\ Handlers # {}
  /\ stack' = SubSeq(stack, 1, Max(Handlers) - 1)
  /\ UNCHANGED <<status, jump>>

Abort ==
  /\ status = "raising" /\ Handlers = {}
  /\ stack' = <<>> /\ status' = "failed" /\ UNCHANGED jump

(* Falling off the end of a function is an error of its own.               *)
FallOff ==
  /\ AtStatement /\ stack = <<>>
  /\ status' = "failed" /\ UNCHANGED <<stack, jump>>

NextCall ==
  /\ status \in {"returned", "failed"}
  /\ status' = "running" /\ UNCHANGED <<stack, jump>>

Next ==
  \/ \E c \in {k \in Construct : k.kind \notin {"handler", "try"}} : Enter(c)
  \/ Declared \/ Leave \/ Return \/ Raise \/ Handle \/ PassOn \/ Abort
  \/ Arrive \/ FallOff \/ NextCall
  \/ \E l \in Label \union {NoLabel} : Exit(l) \/ Continue(l)

Spec == Init /\ [][Next]_vars
=============================================================================
