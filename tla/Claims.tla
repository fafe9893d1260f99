-------------------------------- MODULE Claims --------------------------------
(***************************************************************************)
(* What the repository says of Prior programs and the interpreter does not *)
(* keep.  Each claim has a program of its own in MCClaims for which a run  *)
(* shows it violated.                                                      *)
(***************************************************************************)
EXTENDS Interp

(***************************************************************************)
(* TODO.md:14 "[x] Implement `break` and `continue`": once a statement has *)
(* left a body with break or continue, the next one is not begun.          *)
(***************************************************************************)
BreakHonoured ==
  status = "run" /\ Top.pc = "body" /\ Top.i < Len(Body) =>
    Top.last.brk \notin {"break", "continue"}

(***************************************************************************)
(* semantics.c:318 "Check for argument-parameter matching": an argument    *)
(* that passed the check has a value when it is bound to its parameter.    *)
(***************************************************************************)
ArgumentsDefined == At("CALL_EXPR", "arg") => ret.value.t # "none"

(***************************************************************************)
(* TODO.md:36-37 "Isolate function call scope to the global state - The    *)
(* function you're calling should not see your local variables": of the    *)
(* global scope a call finds the preloaded names and what the program      *)
(* declares at the top level, nothing that main declares.                  *)
(***************************************************************************)
Preloaded == {"null", "false", "true"}
Declarations(program) ==
  {NodeData[TopLevel(program)[k]].name : k \in 1..Len(TopLevel(program))}
MainIsolated ==
  \A j \in 1..Len(stack) : ActiveCall(stack[j]) =>
    \A x \in Names :
      1 \in Declaring(scopes, stack[j].sub, x) =>
        x \in Preloaded \cup Declarations(stack[1].node)
=============================================================================
