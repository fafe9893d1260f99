-------------------------------- MODULE Interp --------------------------------
(***************************************************************************)
(* The tree-walking interpreter of Prior: interp.c over the scopes of      *)
(* scope.c.  evaluate_node recurses on the C stack; here that stack is the *)
(* variable stack, one frame per active evaluate_* call, and an action is  *)
(* what one such function does between two of its recursive calls.  The    *)
(* frame at the bottom is run_interpreter.                                 *)
(*                                                                         *)
(* A frame's pc says where its function stands: "enter" on entry, "body",  *)
(* "args", "fields" and "defers" at the head of a loop, "free" before      *)
(* free_scope, and the other labels inside a recursive call, whose result  *)
(* is then in ret.                                                         *)
(***************************************************************************)
EXTENDS Integers, Sequences, FiniteSets, SequencesExt, Tree

CONSTANTS
  MaxVars,      \* variable slots of a scope (256 in scope.h)
  MaxDefers,    \* deferred nodes of a scope (256 in scope.h)
  MaxDepth,     \* evaluate_* calls that fit on the C stack
  FnBase        \* where malloc places functions, in units of 16 bytes

ASSUME BoundsAssumption ==
  /\ MaxVars \in Nat /\ MaxDefers \in Nat /\ FnBase \in Nat
  /\ MaxDepth \in Nat \ {0}

VARIABLES
  stack,    \* the active evaluate_* calls, the innermost last
  ret,      \* the EvalResult the last finished call returned
  scopes,   \* the live Scope objects, in the order they were created
  fns,      \* the ValueFunction objects allocated so far (never freed)
  status    \* "run", "done", or how the process died

vars == <<stack, ret, scopes, fns, status>>

-----------------------------------------------------------------------------
(***************************************************************************)
(* Scopes.  A scope is known by its position in scopes; 1 is the global    *)
(* scope.  chain holds the scope itself and the ones its parent pointers   *)
(* lead to; a lookup goes from the newest to the oldest.  vars gives each  *)
(* name the value in its first slot (a second declaration of a name takes  *)
(* a slot that no lookup ever reaches); varcount counts the slots.         *)
(* ran is a history variable: the positions of the defers run so far.      *)
(***************************************************************************)
Undeclared == [t |-> "undeclared", n |-> 0]

create_scope(chain) ==
  [chain |-> chain, vars |-> [x \in Names |-> Undeclared], varcount |-> 0,
   defers |-> <<>>, is_deferred |-> FALSE, ran |-> <<>>]

NewScope(ss, parent) ==
  Append(ss, create_scope((IF parent = 0 THEN {} ELSE ss[parent].chain) \cup {Len(ss) + 1}))

Declaring(ss, s, x) == {k \in ss[s].chain : ss[k].vars[x] # Undeclared}
Nearest(ss, s, x) == Max(Declaring(ss, s, x))

scope_get_var(ss, s, x) ==
  IF Declaring(ss, s, x) = {} THEN None ELSE ss[Nearest(ss, s, x)].vars[x]

\* Mutant: one declaration too many.
ScopeIsOverfull(ss, s) == ss[s].varcount > MaxVars
ScopeIsFull(ss, s) == ss[s].varcount = MaxVars

scope_declare_var(ss, s, x) ==
  [ss EXCEPT ![s].varcount = @ + 1,
             ![s].vars[x] = IF @ = Undeclared THEN None ELSE @]

\* Only for a name declared in the chain of s: the code asserts it.
scope_define_var(ss, s, x, v) == [ss EXCEPT ![Nearest(ss, s, x)].vars[x] = v]

scope_add_defer(ss, s, n) == [ss EXCEPT ![s].defers = Append(@, n)]

-----------------------------------------------------------------------------
(***************************************************************************)
(* Types.  The interpreter looks type names up in the global type table    *)
(* only, as the semantics stage left it: the core types, then what the     *)
(* program declares at its top level.  The first entry of a name counts.   *)
(***************************************************************************)
TypeDecls(program, x) ==
  {k \in 1..Len(TopLevel(program)) :
     /\ TypeOf(TopLevel(program)[k]) \in {"STRUCT_STAT", "ENUM_STAT", "FUNC_STAT"}
     /\ NodeData[TopLevel(program)[k]].name = x}
TypeDecl(program, x) == TopLevel(program)[Min(TypeDecls(program, x))]

Kind(decl) ==
  CASE TypeOf(decl) = "STRUCT_STAT" -> "struct"
    [] TypeOf(decl) = "ENUM_STAT" -> "enum"
    [] OTHER -> "function"

GlobalType(program, x) ==
  IF x \in NumberTypes THEN x
  ELSE IF x = "bool" THEN "u8"
  ELSE IF TypeDecls(program, x) = {} THEN "none"
  ELSE Kind(TypeDecl(program, x))

\* The fields of a struct type with the value types their type names stand for.
StructFields(program, x) ==
  LET decl == NodeData[TypeDecl(program, x)] IN
  [k \in 1..Len(decl.params) |->
     [name |-> decl.params[k], vtype |-> GlobalType(program, decl.types[k])]]

-----------------------------------------------------------------------------
(***************************************************************************)
(* Frames and the C calling convention.                                    *)
(***************************************************************************)
Result(v, brk) == [value |-> v, brk |-> brk]
NoValue == Result(None, "none")
BreakTypes == {"none", "return", "break", "continue"}

NewFrame(n, s) ==
  [node |-> n,        \* the node pointer being evaluated
   scope |-> s,       \* the scope argument of evaluate_node
   sub |-> 0,         \* the local sub_scope of a block or a call
   pc |-> "enter",
   i |-> 0,           \* the loop counter
   vals |-> <<>>,     \* operand values computed so far
   last |-> NoValue,  \* last_result
   fn |-> 0,          \* the function being called, as an index of fns
   st |-> <<>>]       \* the fields of the struct type being instantiated

Top == stack[Len(stack)]
This == NodeData[Top.node]
At(type, pc) == status = "run" /\ This.type = type /\ Top.pc = pc

\* The innermost function calls evaluate_node(n, s) and goes on as frame f.
Evaluate(f, n, s) ==
  \/ /\ Len(stack) < MaxDepth
     /\ stack' = Append([stack EXCEPT ![Len(stack)] = f], NewFrame(n, s))
     /\ UNCHANGED <<ret, status>>
  \/ /\ Len(stack) >= MaxDepth            \* the C stack overflows
     /\ status' = "overflow"
     /\ UNCHANGED <<stack, ret>>

\* It goes on by itself.
Resume(f) == stack' = [stack EXCEPT ![Len(stack)] = f] /\ UNCHANGED <<ret, status>>

\* It returns r to its caller.
Finish(r) == stack' = Front(stack) /\ ret' = r /\ UNCHANGED status

\* It brings the process down.
Fail(how) == status' = how /\ UNCHANGED <<stack, ret, scopes, fns>>

\* It returns the value of an outcome, or fails as the outcome says.
Deliver(o) ==
  IF o.fault = "none" THEN Finish(Result(o.value, "none")) /\ UNCHANGED <<scopes, fns>>
  ELSE Fail(o.fault)

-----------------------------------------------------------------------------
(***************************************************************************)
(* evaluate_node: literals, declarations handled by the semantics stage,   *)
(* the node types without a case, and a NULL node pointer.                 *)
(***************************************************************************)
EvaluateInteger ==
  /\ At("INTEGER_LIT", "enter")
  /\ Deliver(OK([t |-> "i32", n |-> Wrap("i32", This.num)]))

EvaluateFloat ==
  /\ At("FLOAT_LIT", "enter")
  /\ Deliver(OK([t |-> "f32", n |-> This.num]))

EvaluateIdent ==
  /\ At("IDENT_LIT", "enter")
  /\ Deliver(OK(scope_get_var(scopes, Top.scope, This.name)))

EvaluateDeclaration ==
  /\ At("STRUCT_STAT", "enter") \/ At("ENUM_STAT", "enter")
  /\ Deliver(OK(None))

Unhandled ==
  {"NONE", "STRING_LIT", "ARRAY_LIT", "UPDATE_EXPR", "MEMBER_EXPR", "COMPOUND_LIT",
   "SWITCH_STAT"}

EvaluateUnhandled ==
  /\ \E type \in Unhandled : At(type, "enter")
  /\ Fail("abort")

EvaluateNull == At("NULL", "enter") /\ Fail("crash")

-----------------------------------------------------------------------------
(***************************************************************************)
(* Expressions over evaluated operands, left to right.                     *)
(***************************************************************************)
Operations == {"BIN_EXPR", "UN_EXPR", "ASSIGN_EXPR", "CAST_EXPR"}
Operands == Len(Top.vals)
Complete(type) == At(type, "enter") /\ Operands = Len(This.kids)

\* A cast tests its type before it evaluates its operand.
ToMember == This.type = "CAST_EXPR" /\ This.aux = MemberType
CastUnsupported == At("CAST_EXPR", "enter") /\ ToMember /\ Fail("exit")

EvaluateOperand ==
  /\ \E type \in Operations : At(type, "enter")
  /\ Operands < Len(This.kids) /\ ~ToMember
  /\ Evaluate([Top EXCEPT !.pc = "operand"], This.kids[Operands + 1], Top.scope)
  /\ UNCHANGED <<scopes, fns>>

\* Mutant: the value of an operand is not kept.
OperandLost ==
  /\ \E type \in Operations : At(type, "operand")
  /\ Resume([Top EXCEPT !.pc = "enter"])
  /\ UNCHANGED <<scopes, fns>>

OperandValue ==
  /\ \E type \in Operations : At(type, "operand")
  /\ Resume([Top EXCEPT !.pc = "enter", !.vals = Append(@, ret.value)])
  /\ UNCHANGED <<scopes, fns>>

evaluate_bin_expr ==
  /\ Complete("BIN_EXPR")
  /\ \E o \in BinaryOutcomes(This.aux, Top.vals[1], Top.vals[2]) : Deliver(o)

evaluate_unary_expr ==
  /\ Complete("UN_EXPR")
  /\ Deliver(NegateOutcome(This.aux, Top.vals[1]))

evaluate_cast_expr ==
  /\ Complete("CAST_EXPR")
  /\ \E o \in Cast(Top.vals[1], ValueTypeOf(This.aux)) : Deliver(o)

\* The variable is read before the value is computed and written after it.
evaluate_assign_expr ==
  /\ Complete("ASSIGN_EXPR")
  /\ \E o \in AssignOutcomes(This.aux, Top.vals[1], Top.vals[2]) :
       IF o.fault # "none" THEN Fail(o.fault)
       ELSE IF Declaring(scopes, Top.scope, This.name) = {} THEN Fail("abort")
       ELSE /\ scopes' = scope_define_var(scopes, Top.scope, This.name, o.value)
            /\ Finish(Result(o.value, "none"))
            /\ UNCHANGED fns

-----------------------------------------------------------------------------
(***************************************************************************)
(* Declarations.  evaluate_var_stat declares before it evaluates the       *)
(* initial value, does not cast it to the declared type, and evaluates a   *)
(* missing value all the same unless the type is a struct.                 *)
(***************************************************************************)
IsStruct == GlobalType(stack[1].node, This.aux) = "struct"
Fields == Top.st

VarDeclare ==
  /\ At("VAR_STAT", "enter")
  /\ LET value == This.kids[1] IN
     IF ScopeIsFull(scopes, Top.scope) THEN Fail("abort")
     ELSE IF IsStruct
     THEN IF TypeOf(value) \notin {"NULL", "COMPOUND_LIT"} THEN Fail("abort")
          ELSE /\ Resume([Top EXCEPT !.pc = "fields", !.i = 0,
                                     !.st = StructFields(stack[1].node, This.aux)])
               /\ scopes' = scope_declare_var(scopes, Top.scope, This.name)
               /\ UNCHANGED fns
     ELSE /\ Evaluate([Top EXCEPT !.pc = "value"], value, Top.scope)
          /\ scopes' = scope_declare_var(scopes, Top.scope, This.name)
          /\ UNCHANGED fns

VarDefine ==
  /\ At("VAR_STAT", "value")
  /\ scopes' = scope_define_var(scopes, Top.scope, This.name, ret.value)
  /\ Finish(NoValue)
  /\ UNCHANGED fns

(***************************************************************************)
(* instantiate_struct visits the fields in declaration order and evaluates *)
(* the first entry of the compound literal with the field's name, or       *)
(* leaves the field zero.  A field without a type would be an assertion's  *)
(* failure; the semantics stage lets none pass (TypesResolve there).       *)
(***************************************************************************)
Entries == NodeData[This.kids[1]].kids
FieldEntries == {k \in 1..Len(Entries) : NodeData[Entries[k]].name = Fields[Top.i + 1].name}

StructField ==
  /\ At("VAR_STAT", "fields") /\ Top.i < Len(Fields)
  /\ IF Fields[Top.i + 1].vtype = "none" THEN Fail("abort")
     ELSE IF FieldEntries = {} THEN Resume([Top EXCEPT !.i = @ + 1])
     ELSE Evaluate([Top EXCEPT !.pc = "field"], NodeData[Entries[Min(FieldEntries)]].kids[2], Top.scope)
  /\ UNCHANGED <<scopes, fns>>

StructFieldValue ==
  /\ At("VAR_STAT", "field")
  /\ \E o \in IF ret.value.t = "none" THEN {OK(None)}
              ELSE AutoCast(ret.value, Fields[Top.i + 1].vtype) :
       IF o.fault # "none" THEN Fail(o.fault)
       ELSE Resume([Top EXCEPT !.pc = "fields", !.i = @ + 1]) /\ UNCHANGED <<scopes, fns>>

StructDefine ==
  /\ At("VAR_STAT", "fields") /\ Top.i = Len(Fields)
  /\ scopes' = scope_define_var(scopes, Top.scope, This.name, Zero("struct"))
  /\ Finish(NoValue)
  /\ UNCHANGED fns

\* A function value is the address of a fresh ValueFunction, typed u64, which
\* has room for as many parameters as a scope has for variables.
Address(k) == [t |-> "u64", n |-> Wrap("u64", 16 * (FnBase + k))]
Callable(v) == {k \in 1..Len(fns) : v.t \notin FloatTypes /\ Address(k).n = v.n}

evaluate_fn_stat ==
  /\ At("FUNC_STAT", "enter")
  /\ IF ScopeIsFull(scopes, Top.scope) THEN Fail("abort")
     ELSE IF Len(This.params) > MaxVars THEN Fail("overflow")
     ELSE /\ fns' = Append(fns, [params |-> This.params, body |-> This.kids[1]])
          /\ scopes' = scope_define_var(scope_declare_var(scopes, Top.scope, This.name),
                                        Top.scope, This.name, Address(Len(fns) + 1))
          /\ Finish(NoValue)

-----------------------------------------------------------------------------
(***************************************************************************)
(* if and while.                                                           *)
(***************************************************************************)
IfCondition ==
  /\ At("IF_STAT", "enter")
  /\ Evaluate([Top EXCEPT !.pc = "cond"], This.kids[1], Top.scope)
  /\ UNCHANGED <<scopes, fns>>

IfBranch ==
  /\ At("IF_STAT", "cond")
  /\ LET branch == This.kids[IF Truth(ret.value) THEN 2 ELSE 3] IN
     IF ~Truth(ret.value) /\ TypeOf(branch) = "NULL" THEN Finish(NoValue)
     ELSE Evaluate([Top EXCEPT !.pc = "branch"], branch, Top.scope)
  /\ UNCHANGED <<scopes, fns>>

IfDone ==
  /\ At("IF_STAT", "branch")
  /\ Finish(ret)
  /\ UNCHANGED <<scopes, fns>>

WhileCondition ==
  /\ At("WHILE_STAT", "enter")
  /\ Evaluate([Top EXCEPT !.pc = "cond"], This.kids[1], Top.scope)
  /\ UNCHANGED <<scopes, fns>>

WhileTest ==
  /\ At("WHILE_STAT", "cond")
  /\ IF Truth(ret.value)
     THEN Evaluate([Top EXCEPT !.pc = "iteration"], This.kids[2], Top.scope)
     ELSE Finish(Top.last)
  /\ UNCHANGED <<scopes, fns>>

\* Mutant: break and continue swapped.
WhileBodySwapped ==
  /\ At("WHILE_STAT", "iteration")
  /\ CASE ret.brk = "return" -> Finish(ret)
       [] ret.brk = "continue" -> Finish(Top.last)
       [] ret.brk = "break" -> Resume([Top EXCEPT !.pc = "enter"])
       [] ret.brk = "none" -> Resume([Top EXCEPT !.pc = "enter", !.last = ret])
  /\ UNCHANGED <<scopes, fns>>

WhileBody ==
  /\ At("WHILE_STAT", "iteration")
  /\ CASE ret.brk = "return" -> Finish(ret)
       [] ret.brk = "break" -> Finish(Top.last)
       [] ret.brk = "continue" -> Resume([Top EXCEPT !.pc = "enter"])
       [] ret.brk = "none" -> Resume([Top EXCEPT !.pc = "enter", !.last = ret])
  /\ UNCHANGED <<scopes, fns>>

-----------------------------------------------------------------------------
(***************************************************************************)
(* Defers and the statements that leave a scope.  return, break and        *)
(* continue run the defers of the scope they stand in, newest first, and   *)
(* mark it; return computes its value only after that.                     *)
(***************************************************************************)
Jumps == {"RETURN_STAT", "BREAK_STAT", "CONTINUE_STAT"}
Leaving == This.type \in Jumps

\* Mutant: a defer belongs to the function it stands in, not to the block.
DeferInFunction ==
  LET calls == {k \in 1..Len(stack) : TypeOf(stack[k].node) = "CALL_EXPR"}
      s == Max({1} \cup {stack[k].sub : k \in calls}) IN
  /\ At("DEFER_STAT", "enter")
  /\ IF Len(scopes[s].defers) = MaxDefers THEN Fail("overflow")
     ELSE /\ scopes' = scope_add_defer(scopes, s, This.kids[1])
          /\ Finish(NoValue)
          /\ UNCHANGED fns

\* The write past a full array is not checked (scope.c:128-130) and undefined: the model
\* ends there.
evaluate_defer_stat ==
  /\ At("DEFER_STAT", "enter")
  /\ IF Len(scopes[Top.scope].defers) = MaxDefers THEN Fail("overflow")
     ELSE /\ scopes' = scope_add_defer(scopes, Top.scope, This.kids[1])
          /\ Finish(NoValue)
          /\ UNCHANGED fns

JumpEnter ==
  /\ \E type \in Jumps : At(type, "enter")
  /\ Resume([Top EXCEPT !.pc = "defers", !.i = Len(scopes[Top.scope].defers)])
  /\ UNCHANGED <<scopes, fns>>

\* The scope whose defers the frame runs: its own, or the one it stands in.
DeferScope == IF Leaving THEN Top.scope ELSE Top.sub

RunDefer ==
  /\ status = "run" /\ Top.pc = "defers" /\ Top.i > 0
  /\ Evaluate([Top EXCEPT !.i = @ - 1], scopes[DeferScope].defers[Top.i], DeferScope)
  /\ scopes' = [scopes EXCEPT ![DeferScope].ran = Append(@, Top.i)]
  /\ UNCHANGED fns

\* Mutant: the jump forgets to mark the scope.
JumpUnmarked ==
  /\ status = "run" /\ Top.pc = "defers" /\ Top.i = 0 /\ Leaving
  /\ CASE This.type = "BREAK_STAT" -> Finish(Result(None, "break"))
       [] This.type = "CONTINUE_STAT" -> Finish(Result(None, "continue"))
       [] This.type = "RETURN_STAT" -> Resume([Top EXCEPT !.pc = "jump"])
  /\ UNCHANGED <<scopes, fns>>

JumpDefersDone ==
  /\ status = "run" /\ Top.pc = "defers" /\ Top.i = 0 /\ Leaving
  /\ CASE This.type = "BREAK_STAT" -> Finish(Result(None, "break"))
       [] This.type = "CONTINUE_STAT" -> Finish(Result(None, "continue"))
       [] This.type = "RETURN_STAT" -> Resume([Top EXCEPT !.pc = "jump"])
  /\ scopes' = [scopes EXCEPT ![DeferScope].is_deferred = TRUE]
  /\ UNCHANGED fns

\* A return without a value has a NULL expr, which is dereferenced untested.
ReturnExpr ==
  /\ At("RETURN_STAT", "jump")
  /\ IF TypeOf(This.kids[1]) = "NULL" THEN Fail("crash")
     ELSE /\ Evaluate([Top EXCEPT !.pc = "value"], This.kids[1], Top.scope)
          /\ UNCHANGED <<scopes, fns>>

ReturnValue ==
  /\ At("RETURN_STAT", "value")
  /\ Finish(Result(ret.value, "return"))
  /\ UNCHANGED <<scopes, fns>>

-----------------------------------------------------------------------------
(***************************************************************************)
(* Blocks and calls: a scope of their own, a loop over statements that     *)
(* only a RETURN stops, then the defers unless a jump ran them.  The loop  *)
(* is shared with run_interpreter, which runs main's body in the global    *)
(* scope.                                                                  *)
(***************************************************************************)
BlockEnter ==
  /\ At("BLOCK", "enter")
  /\ scopes' = NewScope(scopes, Top.scope)
  /\ Resume([Top EXCEPT !.sub = Len(scopes) + 1, !.pc = "body"])
  /\ UNCHANGED fns

CallEnter ==
  /\ At("CALL_EXPR", "enter")
  /\ IF TypeOf(This.kids[1]) = "MEMBER_EXPR" THEN Fail("exit")
     ELSE /\ Evaluate([Top EXCEPT !.pc = "callee"], This.kids[1], Top.scope)
          /\ UNCHANGED <<scopes, fns>>

\* Mutant: dynamic scoping, the callee's parent is the caller's scope.
CallScopeDynamic ==
  /\ At("CALL_EXPR", "callee")
  /\ IF Callable(ret.value) = {} THEN Fail("crash")
     ELSE /\ scopes' = NewScope(scopes, Top.scope)
          /\ \E k \in Callable(ret.value) :
               Resume([Top EXCEPT !.sub = Len(scopes) + 1, !.fn = k, !.pc = "args"])
          /\ UNCHANGED fns

\* The parent of a call's scope is the global scope, whoever the caller is.
CallScope ==
  /\ At("CALL_EXPR", "callee")
  /\ IF Callable(ret.value) = {} THEN Fail("crash")
     ELSE /\ scopes' = NewScope(scopes, 1)
          /\ \E k \in Callable(ret.value) :
               Resume([Top EXCEPT !.sub = Len(scopes) + 1, !.fn = k, !.pc = "args"])
          /\ UNCHANGED fns

\* Arguments are evaluated in the scope of the callee.
CallArgument ==
  /\ At("CALL_EXPR", "args") /\ Top.i < Len(This.kids) - 1
  /\ Evaluate([Top EXCEPT !.pc = "arg"], This.kids[Top.i + 2], Top.sub)
  /\ UNCHANGED <<scopes, fns>>

\* A surplus argument has a NULL parameter name; strlen dereferences it.
CallBind ==
  /\ At("CALL_EXPR", "arg")
  /\ LET params == fns[Top.fn].params
         param == params[Top.i + 1] IN
     IF Top.i >= Len(params) THEN Fail("crash")
     ELSE IF ScopeIsFull(scopes, Top.sub) THEN Fail("abort")
     ELSE /\ scopes' = scope_define_var(scope_declare_var(scopes, Top.sub, param),
                                        Top.sub, param, ret.value)
          /\ Resume([Top EXCEPT !.pc = "args", !.i = @ + 1])
          /\ UNCHANGED fns

CallBody ==
  /\ At("CALL_EXPR", "args") /\ Top.i = Len(This.kids) - 1
  /\ Resume([Top EXCEPT !.pc = "body", !.i = 0])
  /\ UNCHANGED <<scopes, fns>>

Body == IF This.type = "BLOCK" THEN This.kids ELSE NodeData[fns[Top.fn].body].kids

Statement ==
  /\ status = "run" /\ Top.pc = "body" /\ Top.i < Len(Body)
  /\ Evaluate([Top EXCEPT !.pc = "stat", !.i = @ + 1], Body[Top.i + 1], Top.sub)
  /\ UNCHANGED <<scopes, fns>>

StatementDone ==
  /\ status = "run" /\ Top.pc = "stat"
  /\ Resume([Top EXCEPT !.pc = IF ret.brk = "return" THEN "leave" ELSE "body",
                        !.last = ret])
  /\ UNCHANGED <<scopes, fns>>

BodyDone == Top.pc = "leave" \/ (Top.pc = "body" /\ Top.i = Len(Body))

Leave ==
  /\ status = "run" /\ This.type \in {"BLOCK", "CALL_EXPR"} /\ BodyDone
  /\ IF scopes[Top.sub].is_deferred THEN Resume([Top EXCEPT !.pc = "free"])
     ELSE Resume([Top EXCEPT !.pc = "defers", !.i = Len(scopes[Top.sub].defers)])
  /\ UNCHANGED <<scopes, fns>>

DefersDone ==
  /\ status = "run" /\ Top.pc = "defers" /\ Top.i = 0 /\ ~Leaving
  /\ scopes' = [scopes EXCEPT ![Top.sub].is_deferred = TRUE]
  /\ Resume([Top EXCEPT !.pc = "free"])
  /\ UNCHANGED fns

\* Mutant: the scope outlives the function it is a local of.
FreeNothing ==
  /\ status = "run" /\ Top.pc = "free"
  /\ Finish(Top.last)
  /\ UNCHANGED <<scopes, fns>>

\* sub_scope is a local of the returning function, the newest scope alive.
FreeScope ==
  /\ status = "run" /\ Top.pc = "free"
  /\ scopes' = Front(scopes)
  /\ Finish(Top.last)
  /\ UNCHANGED fns

-----------------------------------------------------------------------------
(***************************************************************************)
(* run_interpreter: the program's statements, whatever they return, then   *)
(* the statements of main, both in the global scope.  The defers main      *)
(* leaves there are not run.                                               *)
(***************************************************************************)
ProgramStatement ==
  /\ At("PROGRAM", "enter") /\ Top.i < Len(This.kids)
  /\ Evaluate([Top EXCEPT !.i = @ + 1], This.kids[Top.i + 1], 1)
  /\ UNCHANGED <<scopes, fns>>

MainEnter ==
  /\ At("PROGRAM", "enter") /\ Top.i = Len(This.kids)
  /\ LET main == Callable(scope_get_var(scopes, 1, "main")) IN
     IF main = {} THEN Fail("crash")
     ELSE /\ \E k \in main : Resume([Top EXCEPT !.pc = "body", !.i = 0, !.sub = 1, !.fn = k])
          /\ UNCHANGED <<scopes, fns>>

MainDone ==
  /\ status = "run" /\ This.type = "PROGRAM" /\ BodyDone
  /\ status' = "done"
  /\ UNCHANGED <<stack, ret, scopes, fns>>

-----------------------------------------------------------------------------
(***************************************************************************)
(* The global scope reaches the interpreter with what main.c preloads and  *)
(* what the semantics stage declared in it: every variable of the program, *)
(* already defined as a zero of its type.                                  *)
(***************************************************************************)
GlobalVars(program) ==
  {k \in 1..Len(TopLevel(program)) : TypeOf(TopLevel(program)[k]) = "VAR_STAT"}
GlobalVarsNamed(program, x) ==
  {k \in GlobalVars(program) : NodeData[TopLevel(program)[k]].name = x}

DeclaredType(program, n) == GlobalType(program, NodeData[n].aux)

GlobalScope(program) ==
  [create_scope({1}) EXCEPT
     !.varcount = 3 + Cardinality(GlobalVars(program)),
     !.vars = [x \in Names |->
                 IF GlobalVarsNamed(program, x) # {}
                 THEN Zero(DeclaredType(program, TopLevel(program)[Max(GlobalVarsNamed(program, x))]))
                 ELSE CASE x \in {"null", "false"} -> Zero("u8")
                        [] x = "true" -> [t |-> "u8", n |-> 1]
                        [] OTHER -> Undeclared]]

\* The semantics stage, which fills the same slots, ended regularly.
ASSUME GlobalsAssumption ==
  \A program \in Programs : 3 + Cardinality(GlobalVars(program)) <= MaxVars

Init ==
  \E program \in Programs :
    /\ stack = <<NewFrame(program, 1)>>
    /\ scopes = <<GlobalScope(program)>>
    /\ ret = NoValue
    /\ fns = <<>>
    /\ status = "run"

EvaluateLeaf ==
  \/ EvaluateInteger \/ EvaluateFloat \/ EvaluateIdent \/ EvaluateDeclaration
  \/ EvaluateUnhandled \/ EvaluateNull
Expression ==
  \/ CastUnsupported \/ EvaluateOperand \/ OperandValue \/ evaluate_bin_expr
  \/ evaluate_unary_expr \/ evaluate_cast_expr \/ evaluate_assign_expr
Declaration ==
  \/ VarDeclare \/ VarDefine \/ StructField \/ StructFieldValue
  \/ StructDefine \/ evaluate_fn_stat
Branching ==
  \/ IfCondition \/ IfBranch \/ IfDone \/ WhileCondition \/ WhileTest \/ WhileBody
Jumping ==
  \/ evaluate_defer_stat \/ JumpEnter \/ RunDefer \/ JumpDefersDone
  \/ ReturnExpr \/ ReturnValue
Scoping ==
  \/ BlockEnter \/ CallEnter \/ CallScope \/ CallArgument \/ CallBind \/ CallBody
  \/ Statement \/ StatementDone \/ Leave \/ DefersDone \/ FreeScope
Running == ProgramStatement \/ MainEnter \/ MainDone

Next ==
  \/ EvaluateLeaf \/ Expression \/ Declaration \/ Branching
  \/ Jumping \/ Scoping \/ Running

Spec == Init /\ [][Next]_vars

\* The process runs until it ends: the interpreter never waits for anything.
FairSpec == Spec /\ WF_vars(Next)
-----------------------------------------------------------------------------
(***************************************************************************)
(* Properties.                                                             *)
(***************************************************************************)
ResultType == [value : Value, brk : BreakTypes]

PcLabels ==
  {"enter", "operand", "value", "fields", "field", "cond", "branch", "iteration",
   "defers", "jump", "callee", "args", "arg", "body", "stat", "leave", "free"}

FrameType ==
  [node : Nodes, scope : Nat, sub : Nat, pc : PcLabels, i : Nat,
   vals : Seq(Value), last : ResultType, fn : Nat,
   st : Seq([name : Names, vtype : ValueTypes])]

\* The nodes a program is made of.
Below == LET data == NodeData IN {n \in Nodes : data[n].type # "PROGRAM"}

ScopeType ==
  [chain : SUBSET Nat, vars : [Names -> Value \cup {Undeclared}], varcount : Nat,
   defers : Seq(Below), is_deferred : BOOLEAN, ran : Seq(Nat)]

\* Every variable holds what its C counterpart can hold.
TypeOK ==
  /\ stack \in Seq(FrameType)
  /\ ret \in ResultType
  /\ scopes \in Seq(ScopeType)
  /\ fns \in Seq([params : Seq(Names), body : Nodes])
  /\ status \in {"run", "done", "abort", "exit", "crash", "overflow"}

Owns(f) == f.sub > 1

(***************************************************************************)
(* Scope lifetime: sub_scope objects live in the C frames of blocks and    *)
(* calls and are reached from everywhere by raw pointers.  Every frame's   *)
(* scope is alive; each live scope but the global one belongs to one       *)
(* block or call, an inner one to a later call; and nothing below that     *)
(* call stands in it, so free_scope leaves no pointer dangling and no      *)
(* scope is leaked, whichever way a block is left.                         *)
(***************************************************************************)
ScopeDiscipline ==
  /\ \A k \in 1..Len(stack) : stack[k].scope \in 1..Len(scopes)
                              /\ stack[k].sub \in 0..Len(scopes)
  /\ \A j, k \in 1..Len(stack) :
       /\ j < k /\ Owns(stack[j]) /\ Owns(stack[k]) => stack[j].sub < stack[k].sub
       /\ j <= k /\ Owns(stack[k]) => stack[j].scope < stack[k].sub
  /\ \A s \in 2..Len(scopes) : \E k \in 1..Len(stack) : stack[k].sub = s

ActiveCall(f) == TypeOf(f.node) = "CALL_EXPR" /\ f.sub > 0

(***************************************************************************)
(* What holds between any two steps and makes the invariants inductive: a  *)
(* frame stands at a label its kind of node has, and what the code of that *)
(* label goes by, the loop counter, the operands, the scope and function   *)
(* of a call, is in range; chains lead from newer to older scopes; and     *)
(* run_interpreter is at the bottom of the stack and nowhere else.         *)
(***************************************************************************)
LabelsOf(type) ==
  CASE type \in Operations -> {"enter", "operand"}
    [] type = "VAR_STAT" -> {"enter", "value", "fields", "field"}
    [] type = "IF_STAT" -> {"enter", "cond", "branch"}
    [] type = "WHILE_STAT" -> {"enter", "cond", "iteration"}
    [] type \in {"BREAK_STAT", "CONTINUE_STAT"} -> {"enter", "defers"}
    [] type = "RETURN_STAT" -> {"enter", "defers", "jump", "value"}
    [] type = "BLOCK" -> {"enter", "body", "stat", "leave", "defers", "free"}
    [] type = "CALL_EXPR" ->
         {"enter", "callee", "args", "arg", "body", "stat", "leave", "defers", "free"}
    [] type = "PROGRAM" -> {"enter", "body", "stat", "leave"}
    [] OTHER -> {"enter"}

Opened(f) == f.pc \notin {"enter", "callee"}
SubOf(f) ==     \* the sub_scope a frame has
  CASE TypeOf(f.node) \in {"BLOCK", "CALL_EXPR"} /\ Opened(f) -> f.sub > 1
    [] TypeOf(f.node) = "PROGRAM" /\ Opened(f) -> f.sub = 1
    [] OTHER -> f.sub = 0

Instantiates(f) ==
  /\ TypeOf(NodeData[f.node].kids[1]) \in {"NULL", "COMPOUND_LIT"}
  /\ f.i <= Len(f.st) /\ (f.pc = "field" => f.i < Len(f.st))

Frame(f, ss, fs) ==
  /\ f.scope \in 1..Len(ss) /\ f.sub \in 0..Len(ss)
  /\ f.pc \in LabelsOf(TypeOf(f.node))
  /\ SubOf(f)
  /\ TypeOf(f.node) \in {"CALL_EXPR", "PROGRAM"} /\ Opened(f) => f.fn \in 1..Len(fs)
  /\ f.pc = "defers" =>
       f.i <= Len(ss[IF TypeOf(f.node) \in Jumps THEN f.scope ELSE f.sub].defers)
  /\ f.pc \in {"fields", "field"} => Instantiates(f)
  /\ TypeOf(f.node) \in Operations =>
       /\ Len(f.vals) <= Len(NodeData[f.node].kids)
       /\ f.pc = "operand" => Len(f.vals) < Len(NodeData[f.node].kids)

FramesOK ==
  /\ Len(stack) > 0
  /\ \A k \in 1..Len(stack) :
       Frame(stack[k], scopes, fns) /\ (TypeOf(stack[k].node) = "PROGRAM" <=> k = 1)

ChainsOK ==
  /\ Len(scopes) > 0
  /\ \A s \in 1..Len(scopes) : s \in scopes[s].chain /\ scopes[s].chain \subseteq 1..s

IInv == TypeOK /\ FramesOK /\ ChainsOK /\ ScopeDiscipline

(***************************************************************************)
(* TODO.md:36 "Isolate function call scope to the global state - the       *)
(* function you're calling should not see your local variables": neither a *)
(* call nor anything that runs on its behalf, however deep, finds a scope  *)
(* that was alive before the call, except the global one.                  *)
(***************************************************************************)
Hidden(j) == 2..(stack[j].sub - 1)
CallIsolation ==
  \A j, k \in 1..Len(stack) : j <= k /\ ActiveCall(stack[j]) =>
    /\ j < k => scopes[stack[k].scope].chain \cap Hidden(j) = {}
    /\ stack[k].sub > 0 => scopes[stack[k].sub].chain \cap Hidden(j) = {}

(***************************************************************************)
(* The same for writes, defers included: while a call is active no step    *)
(* changes a scope of its callers in any way, the global scope apart.      *)
(***************************************************************************)
CallersUntouched ==
  [][\A j \in 1..Len(stack) : ActiveCall(stack[j]) =>
       \A s \in 2..(stack[j].sub - 1) : s <= Len(scopes') /\ scopes'[s] = scopes[s]]_vars

(***************************************************************************)
(* The slots of a scope (scope.h:12, asserted in scope.c:38): no sequence  *)
(* of declarations and parameter bindings goes past them, and every        *)
(* declared name has a slot of its own.                                    *)
(***************************************************************************)
SlotsSuffice ==
  \A s \in 1..Len(scopes) :
    /\ scopes[s].varcount <= MaxVars
    /\ s > 1 => Cardinality({x \in Names : scopes[s].vars[x] # Undeclared}) <= scopes[s].varcount

(***************************************************************************)
(* The array of the deferred nodes has no check (scope.c:128-130), so what *)
(* bounds its use must be the program's text: through loops, calls and     *)
(* jumps, a scope has the operands of the first so many defer statements   *)
(* that stand directly in its block or function body, in their order, no   *)
(* other block's and none twice.  The global scope has those of the top    *)
(* level and of main's body.                                               *)
(***************************************************************************)
CalleeBody(f) == NodeData[fns[f.fn].body].kids
TextOf(f) ==
  CASE TypeOf(f.node) = "BLOCK" -> NodeData[f.node].kids
    [] TypeOf(f.node) = "CALL_EXPR" -> CalleeBody(f)
    [] OTHER -> NodeData[f.node].kids \o CalleeBody(f)
IsDefer(n) == TypeOf(n) = "DEFER_STAT"
Deferred(text) ==
  LET stats == SelectSeq(text, IsDefer) IN [k \in 1..Len(stats) |-> NodeData[stats[k]].kids[1]]
DefersFromText ==
  \A k \in 1..Len(stack) :
    stack[k].sub > 0 => IsPrefix(scopes[stack[k].sub].defers, Deferred(TextOf(stack[k])))

(***************************************************************************)
(* README.md:3 "statically-typed": once a variable holds a number, only a  *)
(* declaration of the same name changes its type; assignments, whatever    *)
(* the types of their operands, keep it.                                   *)
(***************************************************************************)
Declares(x) == \/ This.type \in {"VAR_STAT", "FUNC_STAT"} /\ This.name = x
               \/ This.type = "CALL_EXPR" /\ Top.pc = "arg"
TypesKept ==
  [][\A s \in 1..Len(scopes), x \in Names :
       /\ s <= Len(scopes')
       /\ scopes[s].vars[x].t \in NumberTypes
       /\ scopes'[s].vars[x].t # scopes[s].vars[x].t
       => Declares(x)]_vars

(***************************************************************************)
(* The interpreter keeps the promise of DeferStack: LIFO, once each, none  *)
(* lost when a scope ends.  It does so for tidy programs.  Only return     *)
(* stops a block: a defer behind a break is registered in a scope that is  *)
(* marked already, a jump behind one runs the defers again.  So does a     *)
(* jump in main after one at the top level, where nothing stops at all.    *)
(***************************************************************************)
DeferTypes == Jumps \cup {"DEFER_STAT"}
Tidy(nodes) ==
  \A n \in nodes : \A k \in 1..Len(NodeData[n].kids) :
    LET type == TypeOf(NodeData[n].kids[k]) IN
    /\ TypeOf(n) = "PROGRAM" => type \notin Jumps
    /\ type \in {"BREAK_STAT", "CONTINUE_STAT"} =>
         \A m \in (k + 1)..Len(NodeData[n].kids) : TypeOf(NodeData[n].kids[m]) \notin DeferTypes

Promise == INSTANCE DeferStack WITH
  pending <- [s \in 1..Len(scopes) |->
                [registered |-> Len(scopes[s].defers), ran |-> scopes[s].ran]]

DefersKept == Promise!Spec

\* Every program of a family whose loops are bounded comes to an end.
Terminates == <>(status # "run")
=============================================================================
