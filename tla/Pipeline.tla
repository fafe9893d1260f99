------------------------------- MODULE Pipeline -------------------------------
(***************************************************************************)
(* interpret of main.c from the semantics stage on: the two stages one     *)
(* after the other over one global scope.  The semantics stage declares    *)
(* the program's global variables and types in it; only a program without  *)
(* reported errors gets as far as create_interpreter, which takes the      *)
(* scope over as it is.                                                    *)
(*                                                                         *)
(* Interp starts from the scope and the types a formula reads off the      *)
(* tree.  Here they are what Semantics has built, and that the formula is  *)
(* right is a property.                                                    *)
(***************************************************************************)
EXTENDS Semantics

CONSTANTS MaxDefers, MaxDepth, FnBase    \* as in Interp

VARIABLES stack, ret, scopes, fns, status    \* as in Interp
I == INSTANCE Interp

pipelineVars == <<calls, result, chain, errors, verdict, stack, ret, scopes, fns, status>>
interpVars == <<stack, ret, scopes, fns, status>>

program == calls[1].node
Started == stack # <<>>

-----------------------------------------------------------------------------
\* A Scope object as the interpreter's functions see it.
GlobalHandedOver ==
  LET vars == chain[1].vars IN
  [I!create_scope({1}) EXCEPT
     !.varcount = Len(vars),
     !.vars = [x \in Names |->
                 IF Places(vars, x) = {} THEN I!Undeclared ELSE First(vars, x).value]]

PipelineInit ==
  /\ SemInit
  /\ stack = <<>> /\ scopes = <<>> /\ fns = <<>>
  /\ ret = I!NoValue /\ status = "run"

Analyse == ~Started /\ SemNext /\ UNCHANGED interpVars

\* create_interpreter, and the call of run_interpreter.
create_interpreter ==
  /\ ~Started /\ verdict = "accepted"
  /\ stack' = <<I!NewFrame(program, 1)>>
  /\ scopes' = <<GlobalHandedOver>>
  /\ UNCHANGED <<ret, fns, status>> /\ UNCHANGED semVars

Interpret == Started /\ I!Next /\ UNCHANGED semVars

interpret == Analyse \/ create_interpreter \/ Interpret

PipelineSpec == PipelineInit /\ [][interpret]_pipelineVars

-----------------------------------------------------------------------------
(***************************************************************************)
(* Properties.                                                             *)
(***************************************************************************)
(***************************************************************************)
(* Seen from the interpreter's variables, with the scope of the formula    *)
(* GlobalScope until the interpreter starts, interpret is Interp: the      *)
(* hand-over changes nothing, that is, the semantics stage leaves exactly  *)
(* that scope behind, however often a name is declared.                    *)
(***************************************************************************)
Interpreter == INSTANCE Interp WITH
  stack <- IF Started THEN stack ELSE <<I!NewFrame(program, 1)>>,
  scopes <- IF Started THEN scopes ELSE <<I!GlobalScope(program)>>

InterpretsProgram == Interpreter!Spec

(***************************************************************************)
(* When the interpreter is created, each type name stands, for it, for the *)
(* type the semantics stage has checked the program with: what the stage   *)
(* registered in the global scope, first entry first, is what the          *)
(* interpreter instantiates, field by field.                               *)
(***************************************************************************)
SameFields(fields, types) ==
  /\ Len(fields) = Len(types)
  /\ \A k \in 1..Len(types) : fields[k].vtype = scope_get_type(types[k]).vt
SameType(T, type) ==
  /\ I!GlobalType(program, T) = type.vt
  /\ type.vt = "struct" => SameFields(I!StructFields(program, T), type.types)
TypesHandedOver ==
  [][Started' /\ ~Started => \A T \in TypeNames : SameType(T, scope_get_type(T))]_pipelineVars
=============================================================================
