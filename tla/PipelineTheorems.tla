--------------------------- MODULE PipelineTheorems ---------------------------
(***************************************************************************)
(* What the driver does is what the interpreter does when it is started    *)
(* from the formula that reads the global scope off the tree.  Until the   *)
(* hand-over the image under the mapping stands still, and from there on   *)
(* it is the interpreter's own state.                                      *)
(***************************************************************************)
EXTENDS HandoverTheorems

-----------------------------------------------------------------------------
(***************************************************************************)
(* The refinement.  Pipeline has the interpreter's actions over its own    *)
(* variables (I), and over the ones the abstract interpreter is seen       *)
(* through (Interpreter), which differ until the interpreter starts.  From *)
(* then on both see the same: first what depends on no variable, then what *)
(* the actions look at, then the ways they go on, then the actions.        *)
(***************************************************************************)
LEMMA ImageValues ==
  /\ \A v : I!OK(v) = Interpreter!OK(v)
  /\ \A t : I!Zero(t) = Interpreter!Zero(t)
  /\ I!None = Interpreter!None
  /\ \A t, n : I!Wrap(t, n) = Interpreter!Wrap(t, n)
  /\ \A v : I!Truth(v) <=> Interpreter!Truth(v)
  /\ \A x : I!ValueTypeOf(x) = Interpreter!ValueTypeOf(x)
  /\ I!FloatTypes = Interpreter!FloatTypes
BY DEF I!OK, Interpreter!OK, I!Zero, Interpreter!Zero, I!None, Interpreter!None, I!Wrap,
       Interpreter!Wrap, I!Low, Interpreter!Low, I!SignedTypes, Interpreter!SignedTypes,
       I!Truth, Interpreter!Truth, I!ValueTypeOf, Interpreter!ValueTypeOf, I!NumberTypes,
       Interpreter!NumberTypes, I!IntTypes, Interpreter!IntTypes, I!FloatTypes,
       Interpreter!FloatTypes

LEMMA ImageArithmetic ==
  /\ \A t, n : I!Stored(t, n) = Interpreter!Stored(t, n)
  /\ \A v, t : I!Converted(v, t) = Interpreter!Converted(v, t)
  /\ \A t, n : I!Fitted(t, n) = Interpreter!Fitted(t, n)
  /\ \A t, op, a, b : I!Arith(t, op, a, b) = Interpreter!Arith(t, op, a, b)
  /\ \A op, a, b : I!Compare(op, a, b) <=> Interpreter!Compare(op, a, b)
  /\ \A t, a, b : I!DivisionTraps(t, a, b) <=> Interpreter!DivisionTraps(t, a, b)
  /\ \A f : I!Fault(f) = Interpreter!Fault(f)
  /\ I!NumberTypes = Interpreter!NumberTypes
  /\ I!ArithOps = Interpreter!ArithOps
  /\ I!CompareOps = Interpreter!CompareOps
BY ImageValues
DEF I!Stored, Interpreter!Stored, I!Converted, Interpreter!Converted, I!Fitted,
    Interpreter!Fitted, I!Arith, Interpreter!Arith, I!Compare, Interpreter!Compare,
    I!DivisionTraps, Interpreter!DivisionTraps, I!Fault, Interpreter!Fault, I!NumberTypes,
    Interpreter!NumberTypes, I!ArithOps, Interpreter!ArithOps, I!CompareOps,
    Interpreter!CompareOps, I!IntTypes, Interpreter!IntTypes, I!FloatTypes,
    Interpreter!FloatTypes, I!Quotient, Interpreter!Quotient, I!Abs, Interpreter!Abs,
    I!Unit, Interpreter!Unit, I!Low, Interpreter!Low, I!SignedTypes,
    Interpreter!SignedTypes, I!None, Interpreter!None, I!Zero, Interpreter!Zero, I!Wrap,
    Interpreter!Wrap

LEMMA ImageCasts ==
  /\ \A v, t : I!Cast(v, t) = Interpreter!Cast(v, t)
  /\ \A v, t : I!AutoCast(v, t) = Interpreter!AutoCast(v, t)
<1>1. \A v, t : I!Cast(v, t) = Interpreter!Cast(v, t)
  BY ImageValues, ImageArithmetic DEF I!Cast, Interpreter!Cast
<1> QED  BY <1>1, ImageValues DEF I!AutoCast, Interpreter!AutoCast

LEMMA ImageApply ==
  \A op, l, r : I!Apply(op, l, r) = Interpreter!Apply(op, l, r)
BY ImageValues, ImageArithmetic DEF I!Apply, Interpreter!Apply

LEMMA ImageOutcomes ==
  /\ \A op, l, r : I!BinaryOutcomes(op, l, r) = Interpreter!BinaryOutcomes(op, l, r)
  /\ \A op, l, r : I!AssignOutcomes(op, l, r) = Interpreter!AssignOutcomes(op, l, r)
  /\ \A op, v : I!NegateOutcome(op, v) = Interpreter!NegateOutcome(op, v)
BY ImageValues, ImageArithmetic, ImageCasts, ImageApply
DEF I!BinaryOutcomes, Interpreter!BinaryOutcomes, I!AssignOutcomes,
    Interpreter!AssignOutcomes, I!NegateOutcome, Interpreter!NegateOutcome, I!ApplyAssign,
    Interpreter!ApplyAssign, I!BinaryOf, Interpreter!BinaryOf

LEMMA ImageScopes ==
  /\ \A ch : I!create_scope(ch) = Interpreter!create_scope(ch)
  /\ \A ss, p : I!NewScope(ss, p) = Interpreter!NewScope(ss, p)
  /\ \A ss, s, x : I!Declaring(ss, s, x) = Interpreter!Declaring(ss, s, x)
  /\ \A ss, s, x : I!scope_get_var(ss, s, x) = Interpreter!scope_get_var(ss, s, x)
  /\ \A ss, s : I!ScopeIsFull(ss, s) <=> Interpreter!ScopeIsFull(ss, s)
  /\ \A ss, s, x : I!scope_declare_var(ss, s, x) = Interpreter!scope_declare_var(ss, s, x)
  /\ \A ss, s, x, v : I!scope_define_var(ss, s, x, v) = Interpreter!scope_define_var(ss, s, x, v)
  /\ \A ss, s, n : I!scope_add_defer(ss, s, n) = Interpreter!scope_add_defer(ss, s, n)
BY ImageValues
DEF I!create_scope, Interpreter!create_scope, I!NewScope, Interpreter!NewScope, I!Declaring,
    Interpreter!Declaring, I!scope_get_var, Interpreter!scope_get_var, I!ScopeIsFull,
    Interpreter!ScopeIsFull, I!scope_declare_var, Interpreter!scope_declare_var,
    I!scope_define_var, Interpreter!scope_define_var, I!scope_add_defer,
    Interpreter!scope_add_defer, I!Undeclared, Interpreter!Undeclared, I!Nearest,
    Interpreter!Nearest, I!Max, Interpreter!Max

LEMMA ImageTypes ==
  /\ \A n : I!TypeOf(n) = Interpreter!TypeOf(n)
  /\ \A p, x : I!GlobalType(p, x) = Interpreter!GlobalType(p, x)
  /\ \A p, x : I!StructFields(p, x) = Interpreter!StructFields(p, x)
BY ImageArithmetic
DEF I!TypeOf, Interpreter!TypeOf, I!GlobalType, Interpreter!GlobalType, I!StructFields,
    Interpreter!StructFields, I!TypeDecl, Interpreter!TypeDecl, I!TypeDecls,
    Interpreter!TypeDecls, I!TopLevel, Interpreter!TopLevel, I!Kind, Interpreter!Kind,
    I!Min, Interpreter!Min

LEMMA ImageGlobalScope ==
  \A p : I!GlobalScope(p) = Interpreter!GlobalScope(p)
BY
DEF I!GlobalScope, Interpreter!GlobalScope, I!GlobalVars, Interpreter!GlobalVars,
    I!GlobalVarsNamed, Interpreter!GlobalVarsNamed, I!DeclaredType, Interpreter!DeclaredType,
    I!GlobalType, Interpreter!GlobalType, I!NumberTypes, Interpreter!NumberTypes, I!IntTypes,
    Interpreter!IntTypes, I!FloatTypes, Interpreter!FloatTypes, I!TypeDecl,
    Interpreter!TypeDecl, I!TypeDecls, Interpreter!TypeDecls, I!Kind, Interpreter!Kind,
    I!TypeOf, Interpreter!TypeOf, I!TopLevel, Interpreter!TopLevel, I!create_scope,
    Interpreter!create_scope, I!Undeclared, Interpreter!Undeclared, I!Zero, Interpreter!Zero,
    I!Max, Interpreter!Max, I!Min, Interpreter!Min, I!Cardinality, Interpreter!Cardinality

LEMMA ImageFrames ==
  /\ \A v, b : I!Result(v, b) = Interpreter!Result(v, b)
  /\ I!NoValue = Interpreter!NoValue
  /\ \A n, s : I!NewFrame(n, s) = Interpreter!NewFrame(n, s)
  /\ I!Operations = Interpreter!Operations
  /\ I!Unhandled = Interpreter!Unhandled
  /\ I!Jumps = Interpreter!Jumps
  /\ \A s : I!Front(s) = Interpreter!Front(s)
  /\ \A S : I!Min(S) = Interpreter!Min(S)
  /\ \A k : I!Address(k) = Interpreter!Address(k)
BY ImageValues
DEF I!Result, Interpreter!Result, I!NoValue, Interpreter!NoValue, I!NewFrame,
    Interpreter!NewFrame, I!Operations, Interpreter!Operations, I!Unhandled,
    Interpreter!Unhandled, I!Jumps, Interpreter!Jumps, I!Front, Interpreter!Front, I!Min,
    Interpreter!Min, I!Address, Interpreter!Address

LEMMA ImageState ==
  ASSUME Started
  PROVE  /\ I!Top = Interpreter!Top /\ I!This = Interpreter!This
         /\ \A type, pc : I!At(type, pc) <=> Interpreter!At(type, pc)
         /\ I!Operands = Interpreter!Operands
         /\ \A type : I!Complete(type) <=> Interpreter!Complete(type)
         /\ I!IsStruct <=> Interpreter!IsStruct
         /\ I!Fields = Interpreter!Fields /\ I!Entries = Interpreter!Entries
         /\ I!FieldEntries = Interpreter!FieldEntries
         /\ \A v : I!Callable(v) = Interpreter!Callable(v)
         /\ I!Leaving <=> Interpreter!Leaving
         /\ I!DeferScope = Interpreter!DeferScope
         /\ I!Body = Interpreter!Body
         /\ I!BodyDone <=> Interpreter!BodyDone
<1>1. I!Top = Interpreter!Top  BY DEF I!Top, Interpreter!Top
<1>2. I!This = Interpreter!This  BY <1>1 DEF I!This, Interpreter!This
<1>3. I!Fields = Interpreter!Fields /\ I!Entries = Interpreter!Entries
  BY <1>1, <1>2 DEF I!Fields, Interpreter!Fields, I!Entries, Interpreter!Entries
<1>4. I!Leaving <=> Interpreter!Leaving
  BY <1>2, ImageFrames DEF I!Leaving, Interpreter!Leaving
<1>5. I!Body = Interpreter!Body  BY <1>1, <1>2 DEF I!Body, Interpreter!Body
<1>6. I!Operands = Interpreter!Operands  BY <1>1 DEF I!Operands, Interpreter!Operands
<1>7. \A type, pc : I!At(type, pc) <=> Interpreter!At(type, pc)
  BY <1>1, <1>2 DEF I!At, Interpreter!At
<1>8. \A v : I!Callable(v) = Interpreter!Callable(v)
  BY ImageValues, ImageFrames DEF I!Callable, Interpreter!Callable
<1>9. I!FieldEntries = Interpreter!FieldEntries
  BY <1>1, <1>3 DEF I!FieldEntries, Interpreter!FieldEntries
<1> QED
  BY <1>1, <1>2, <1>3, <1>4, <1>5, <1>6, <1>7, <1>8, <1>9, ImageTypes
  DEF I!Complete, Interpreter!Complete, I!IsStruct, Interpreter!IsStruct,
      I!DeferScope, Interpreter!DeferScope, I!BodyDone, Interpreter!BodyDone

LEMMA ImageSteps ==
  ASSUME Started, Started'
  PROVE  /\ \A f, n, s : I!Evaluate(f, n, s) <=> Interpreter!Evaluate(f, n, s)
         /\ \A f : I!Resume(f) <=> Interpreter!Resume(f)
         /\ \A r : I!Finish(r) <=> Interpreter!Finish(r)
         /\ \A how : I!Fail(how) <=> Interpreter!Fail(how)
         /\ \A o : I!Deliver(o) <=> Interpreter!Deliver(o)
BY ImageFrames
DEF I!Evaluate, Interpreter!Evaluate, I!Resume, Interpreter!Resume, I!Finish,
    Interpreter!Finish, I!Fail, Interpreter!Fail, I!Deliver, Interpreter!Deliver

\* A CASE that need not have a branch: which it takes is the same for both.
AfterBody(returns, stops, again, on) ==
  CASE ret.brk = "return" -> returns
    [] ret.brk = "break" -> stops
    [] ret.brk = "continue" -> again
    [] ret.brk = "none" -> on

LEMMA ImageWhileBody ==
  ASSUME Started, Started', I!WhileBody
  PROVE  Interpreter!WhileBody
<1> DEFINE again == [I!Top EXCEPT !.pc = "enter"]
<1> DEFINE on == [I!Top EXCEPT !.pc = "enter", !.last = ret]
<1>1. I!Top = Interpreter!Top  BY ImageState
<1>2. /\ \A r : I!Finish(r) = Interpreter!Finish(r)
      /\ \A f : I!Resume(f) = Interpreter!Resume(f)
  BY ImageFrames DEF I!Finish, Interpreter!Finish, I!Resume, Interpreter!Resume
<1>3. AfterBody(I!Finish(ret), I!Finish(I!Top.last), I!Resume(again), I!Resume(on))
  BY DEF I!WhileBody, AfterBody
<1>4. AfterBody(Interpreter!Finish(ret), Interpreter!Finish(I!Top.last),
                Interpreter!Resume(again), Interpreter!Resume(on))
  <2> HIDE DEF again, on
  <2> QED  BY <1>2, <1>3
<1>5. AfterBody(Interpreter!Finish(ret), Interpreter!Finish(Interpreter!Top.last),
                Interpreter!Resume([Interpreter!Top EXCEPT !.pc = "enter"]),
                Interpreter!Resume([Interpreter!Top EXCEPT !.pc = "enter", !.last = ret]))
  BY <1>1, <1>4
<1>6. Interpreter!At("WHILE_STAT", "iteration")  BY ImageState DEF I!WhileBody
<1>7. UNCHANGED <<scopes, fns>>  BY DEF I!WhileBody
<1> QED  BY <1>5, <1>6, <1>7 DEF Interpreter!WhileBody, AfterBody

LEMMA ImageEvaluateLeaf ==
  ASSUME Started, Started', I!EvaluateLeaf
  PROVE  Interpreter!EvaluateLeaf
<1>1. I!EvaluateInteger => Interpreter!EvaluateInteger
  BY ImageState, ImageSteps, ImageValues, ImageScopes, ImageFrames
  DEF I!EvaluateInteger, Interpreter!EvaluateInteger
<1>2. I!EvaluateFloat => Interpreter!EvaluateFloat
  BY ImageState, ImageSteps, ImageValues, ImageScopes, ImageFrames
  DEF I!EvaluateFloat, Interpreter!EvaluateFloat
<1>3. I!EvaluateIdent => Interpreter!EvaluateIdent
  BY ImageState, ImageSteps, ImageValues, ImageScopes, ImageFrames
  DEF I!EvaluateIdent, Interpreter!EvaluateIdent
<1>4. I!EvaluateDeclaration => Interpreter!EvaluateDeclaration
  BY ImageState, ImageSteps, ImageValues, ImageScopes, ImageFrames
  DEF I!EvaluateDeclaration, Interpreter!EvaluateDeclaration
<1>5. I!EvaluateUnhandled => Interpreter!EvaluateUnhandled
  BY ImageState, ImageSteps, ImageValues, ImageScopes, ImageFrames
  DEF I!EvaluateUnhandled, Interpreter!EvaluateUnhandled
<1>6. I!EvaluateNull => Interpreter!EvaluateNull
  BY ImageState, ImageSteps, ImageValues, ImageScopes, ImageFrames
  DEF I!EvaluateNull, Interpreter!EvaluateNull
<1> QED  BY <1>1, <1>2, <1>3, <1>4, <1>5, <1>6
       DEF I!EvaluateLeaf, Interpreter!EvaluateLeaf

LEMMA ImageExpression ==
  ASSUME Started, Started', I!Expression
  PROVE  Interpreter!Expression
<1>1. I!EvaluateOperand => Interpreter!EvaluateOperand
  BY ImageState, ImageSteps, ImageValues, ImageCasts, ImageOutcomes, ImageScopes,
     ImageFrames
  DEF I!EvaluateOperand, Interpreter!EvaluateOperand, I!ToMember, Interpreter!ToMember,
      I!MemberType, Interpreter!MemberType
<1>2. I!OperandValue => Interpreter!OperandValue
  BY ImageState, ImageSteps, ImageValues, ImageCasts, ImageOutcomes, ImageScopes,
     ImageFrames
  DEF I!OperandValue, Interpreter!OperandValue
<1>3. I!evaluate_bin_expr => Interpreter!evaluate_bin_expr
  BY ImageState, ImageSteps, ImageValues, ImageCasts, ImageOutcomes, ImageScopes,
     ImageFrames
  DEF I!evaluate_bin_expr, Interpreter!evaluate_bin_expr
<1>4. I!evaluate_unary_expr => Interpreter!evaluate_unary_expr
  BY ImageState, ImageSteps, ImageValues, ImageCasts, ImageOutcomes, ImageScopes,
     ImageFrames
  DEF I!evaluate_unary_expr, Interpreter!evaluate_unary_expr
<1>5. I!evaluate_cast_expr => Interpreter!evaluate_cast_expr
  BY ImageState, ImageSteps, ImageValues, ImageCasts, ImageOutcomes, ImageScopes,
     ImageFrames
  DEF I!evaluate_cast_expr, Interpreter!evaluate_cast_expr
<1>6. I!evaluate_assign_expr => Interpreter!evaluate_assign_expr
  BY ImageState, ImageSteps, ImageValues, ImageCasts, ImageOutcomes, ImageScopes,
     ImageFrames
  DEF I!evaluate_assign_expr, Interpreter!evaluate_assign_expr
<1>7. I!CastUnsupported => Interpreter!CastUnsupported
  BY ImageState, ImageSteps, ImageValues, ImageFrames
  DEF I!CastUnsupported, Interpreter!CastUnsupported, I!ToMember, Interpreter!ToMember,
      I!MemberType, Interpreter!MemberType
<1> QED  BY <1>1, <1>2, <1>3, <1>4, <1>5, <1>6, <1>7
       DEF I!Expression, Interpreter!Expression

LEMMA ImageDeclaration ==
  ASSUME Started, Started', I!Declaration
  PROVE  Interpreter!Declaration
<1>1. I!VarDeclare => Interpreter!VarDeclare
  BY ImageState, ImageSteps, ImageValues, ImageCasts, ImageScopes, ImageTypes, ImageFrames
  DEF I!VarDeclare, Interpreter!VarDeclare
<1>2. I!VarDefine => Interpreter!VarDefine
  BY ImageState, ImageSteps, ImageValues, ImageCasts, ImageScopes, ImageTypes, ImageFrames
  DEF I!VarDefine, Interpreter!VarDefine
<1>3. I!StructField => Interpreter!StructField
  BY ImageState, ImageSteps, ImageValues, ImageCasts, ImageScopes, ImageTypes, ImageFrames
  DEF I!StructField, Interpreter!StructField
<1>4. I!StructFieldValue => Interpreter!StructFieldValue
  BY ImageState, ImageSteps, ImageValues, ImageCasts, ImageScopes, ImageTypes, ImageFrames
  DEF I!StructFieldValue, Interpreter!StructFieldValue
<1>5. I!StructDefine => Interpreter!StructDefine
  BY ImageState, ImageSteps, ImageValues, ImageCasts, ImageScopes, ImageTypes, ImageFrames
  DEF I!StructDefine, Interpreter!StructDefine
<1>6. I!evaluate_fn_stat => Interpreter!evaluate_fn_stat
  BY ImageState, ImageSteps, ImageValues, ImageCasts, ImageScopes, ImageTypes, ImageFrames
  DEF I!evaluate_fn_stat, Interpreter!evaluate_fn_stat
<1> QED  BY <1>1, <1>2, <1>3, <1>4, <1>5, <1>6
       DEF I!Declaration, Interpreter!Declaration

LEMMA ImageBranching ==
  ASSUME Started, Started', I!Branching
  PROVE  Interpreter!Branching
<1>1. I!IfCondition => Interpreter!IfCondition
  BY ImageState, ImageSteps, ImageValues, ImageFrames, ImageTypes
  DEF I!IfCondition, Interpreter!IfCondition
<1>2. I!IfBranch => Interpreter!IfBranch
  BY ImageState, ImageSteps, ImageValues, ImageFrames, ImageTypes
  DEF I!IfBranch, Interpreter!IfBranch
<1>3. I!IfDone => Interpreter!IfDone
  BY ImageState, ImageSteps, ImageValues, ImageFrames, ImageTypes
  DEF I!IfDone, Interpreter!IfDone
<1>4. I!WhileCondition => Interpreter!WhileCondition
  BY ImageState, ImageSteps, ImageValues, ImageFrames, ImageTypes
  DEF I!WhileCondition, Interpreter!WhileCondition
<1>5. I!WhileTest => Interpreter!WhileTest
  BY ImageState, ImageSteps, ImageValues, ImageFrames, ImageTypes
  DEF I!WhileTest, Interpreter!WhileTest
<1>6. I!WhileBody => Interpreter!WhileBody  BY ImageWhileBody
<1> QED  BY <1>1, <1>2, <1>3, <1>4, <1>5, <1>6
       DEF I!Branching, Interpreter!Branching

LEMMA ImageJumping ==
  ASSUME Started, Started', I!Jumping
  PROVE  Interpreter!Jumping
<1>1. I!evaluate_defer_stat => Interpreter!evaluate_defer_stat
  BY ImageState, ImageSteps, ImageValues, ImageScopes, ImageTypes, ImageFrames
  DEF I!evaluate_defer_stat, Interpreter!evaluate_defer_stat
<1>2. I!JumpEnter => Interpreter!JumpEnter
  BY ImageState, ImageSteps, ImageValues, ImageScopes, ImageTypes, ImageFrames
  DEF I!JumpEnter, Interpreter!JumpEnter
<1>3. I!RunDefer => Interpreter!RunDefer
  BY ImageState, ImageSteps, ImageValues, ImageScopes, ImageTypes, ImageFrames
  DEF I!RunDefer, Interpreter!RunDefer
<1>4. I!JumpDefersDone => Interpreter!JumpDefersDone
  BY ImageState, ImageSteps, ImageValues, ImageScopes, ImageTypes, ImageFrames
  DEF I!JumpDefersDone, Interpreter!JumpDefersDone, I!Leaving, I!Jumps
<1>5. I!ReturnExpr => Interpreter!ReturnExpr
  BY ImageState, ImageSteps, ImageValues, ImageScopes, ImageTypes, ImageFrames
  DEF I!ReturnExpr, Interpreter!ReturnExpr
<1>6. I!ReturnValue => Interpreter!ReturnValue
  BY ImageState, ImageSteps, ImageValues, ImageScopes, ImageTypes, ImageFrames
  DEF I!ReturnValue, Interpreter!ReturnValue
<1> QED  BY <1>1, <1>2, <1>3, <1>4, <1>5, <1>6
       DEF I!Jumping, Interpreter!Jumping

LEMMA ImageScoping ==
  ASSUME Started, Started', I!Scoping
  PROVE  Interpreter!Scoping
<1>1. I!BlockEnter => Interpreter!BlockEnter
  BY ImageState, ImageSteps, ImageScopes, ImageTypes, ImageFrames
  DEF I!BlockEnter, Interpreter!BlockEnter
<1>2. I!CallEnter => Interpreter!CallEnter
  BY ImageState, ImageSteps, ImageScopes, ImageTypes, ImageFrames
  DEF I!CallEnter, Interpreter!CallEnter
<1>3. I!CallScope => Interpreter!CallScope
  BY ImageState, ImageSteps, ImageScopes, ImageTypes, ImageFrames
  DEF I!CallScope, Interpreter!CallScope
<1>4. I!CallArgument => Interpreter!CallArgument
  BY ImageState, ImageSteps, ImageScopes, ImageTypes, ImageFrames
  DEF I!CallArgument, Interpreter!CallArgument
<1>5. I!CallBind => Interpreter!CallBind
  BY ImageState, ImageSteps, ImageScopes, ImageTypes, ImageFrames
  DEF I!CallBind, Interpreter!CallBind
<1>6. I!CallBody => Interpreter!CallBody
  BY ImageState, ImageSteps, ImageScopes, ImageTypes, ImageFrames
  DEF I!CallBody, Interpreter!CallBody
<1>7. I!Statement => Interpreter!Statement
  BY ImageState, ImageSteps, ImageScopes, ImageTypes, ImageFrames
  DEF I!Statement, Interpreter!Statement
<1>8. I!StatementDone => Interpreter!StatementDone
  BY ImageState, ImageSteps, ImageScopes, ImageTypes, ImageFrames
  DEF I!StatementDone, Interpreter!StatementDone
<1>9. I!Leave => Interpreter!Leave
  BY ImageState, ImageSteps, ImageScopes, ImageTypes, ImageFrames
  DEF I!Leave, Interpreter!Leave
<1>10. I!DefersDone => Interpreter!DefersDone
  BY ImageState, ImageSteps, ImageScopes, ImageTypes, ImageFrames
  DEF I!DefersDone, Interpreter!DefersDone
<1>11. I!FreeScope => Interpreter!FreeScope
  BY ImageState, ImageSteps, ImageScopes, ImageTypes, ImageFrames
  DEF I!FreeScope, Interpreter!FreeScope
<1> QED  BY <1>1, <1>2, <1>3, <1>4, <1>5, <1>6, <1>7, <1>8, <1>9, <1>10, <1>11
       DEF I!Scoping, Interpreter!Scoping

LEMMA ImageRunning ==
  ASSUME Started, Started', I!Running
  PROVE  Interpreter!Running
<1>1. I!ProgramStatement => Interpreter!ProgramStatement
  BY ImageState, ImageSteps, ImageScopes
  DEF I!ProgramStatement, Interpreter!ProgramStatement
<1>2. I!MainEnter => Interpreter!MainEnter
  BY ImageState, ImageSteps, ImageScopes
  DEF I!MainEnter, Interpreter!MainEnter
<1>3. I!MainDone => Interpreter!MainDone
  BY ImageState, ImageSteps, ImageScopes
  DEF I!MainDone, Interpreter!MainDone
<1> QED  BY <1>1, <1>2, <1>3
       DEF I!Running, Interpreter!Running

LEMMA ImageNext ==
  ASSUME Started, Started', I!Next
  PROVE  Interpreter!Next
BY ImageEvaluateLeaf, ImageExpression, ImageDeclaration, ImageBranching, ImageJumping,
   ImageScoping, ImageRunning
DEF I!Next, Interpreter!Next

-----------------------------------------------------------------------------
(***************************************************************************)
(* Both see the same as long as the interpreter's stack does not run       *)
(* empty: run_interpreter stays at its bottom.  No step returns from it,   *)
(* because it never stands where the functions of other nodes return.      *)
(***************************************************************************)
RootLabels == {"enter", "body", "stat", "leave"}

\* A frame, as far as the steps of the bottom one go by it.
Shaped(f) ==
  {"node", "pc", "last"} \subseteq DOMAIN f /\ f.last.brk \in I!BreakTypes

Elements(s) == {s[k] : k \in 1..Len(s)}
RootedAt(s) ==
  /\ s \in Seq(Elements(s)) /\ Len(s) > 0
  /\ \A k \in 1..Len(s) : Shaped(s[k])
  /\ TypeOf(s[1].node) = "PROGRAM" /\ s[1].pc \in RootLabels
Rooted == RootedAt(stack) /\ ret.brk \in I!BreakTypes
StaysRooted == RootedAt(stack') /\ ret'.brk \in I!BreakTypes

\* What a step may make of the innermost frame of s.
Keeps(s, f) ==
  /\ Shaped(f)
  /\ Len(s) = 1 => f.node = s[1].node /\ f.pc \in RootLabels

LEMMA OwnElements ==
  ASSUME NEW S, NEW s \in Seq(S)
  PROVE  s \in Seq(Elements(s))
<1> DEFINE N == Len(s)
<1>1. N \in Nat /\ s \in [1..N -> S]  BY LenProperties
<1>2. s \in [1..N -> {s[k] : k \in 1..N}]  BY <1>1
<1> HIDE DEF N
<1>3. s \in Seq({s[k] : k \in 1..N})  BY <1>1, <1>2, IsASeq
<1> QED BY <1>3 DEF N, Elements

LEMMA RootedResumes ==
  ASSUME NEW s, RootedAt(s), NEW f, Keeps(s, f)
  PROVE  /\ RootedAt([s EXCEPT ![Len(s)] = f])
         /\ Len([s EXCEPT ![Len(s)] = f]) = Len(s)
<1> DEFINE S == Elements(s) \cup {f}
<1> DEFINE N == Len(s)
<1> DEFINE r == [s EXCEPT ![N] = f]
<1>1. /\ s \in Seq(S) /\ N \in Nat /\ N > 0
  <2>1. s \in Seq(Elements(s)) /\ Len(s) > 0 BY DEF RootedAt
  <2> QED BY <2>1
<1>2. f \in S OBVIOUS
<1>3. \A k \in 1..N : Shaped(s[k]) BY DEF RootedAt
<1>4. TypeOf(s[1].node) = "PROGRAM" /\ s[1].pc \in RootLabels BY DEF RootedAt
<1>6. N = 1 => f.node = s[1].node /\ f.pc \in RootLabels BY DEF Keeps
<1>7. Shaped(f) BY DEF Keeps
<1>8. /\ r \in Seq(S) /\ Len(r) = N /\ \A k \in 1..N : r[k] = IF k = N THEN f ELSE s[k]
  <2> HIDE DEF S
  <2> QED BY <1>1, <1>2 DEF N
<1> HIDE DEF S, r
<1>9. r \in Seq(Elements(r))
  BY <1>8, OwnElements
<1>10. RootedAt(r)
  <2> HIDE DEF N
  <2> QED BY <1>1, <1>3, <1>4, <1>6, <1>7, <1>8, <1>9 DEF RootedAt
<1> QED BY <1>8, <1>10 DEF r

LEMMA RootedCalls ==
  ASSUME NEW s, RootedAt(s), NEW g, Shaped(g)
  PROVE  RootedAt(Append(s, g))
<1> DEFINE S == Elements(s) \cup {g}
<1> DEFINE N == Len(s)
<1> DEFINE r == Append(s, g)
<1>1. /\ s \in Seq(S) /\ N \in Nat /\ N > 0
  <2>1. s \in Seq(Elements(s)) /\ Len(s) > 0 BY DEF RootedAt
  <2> QED BY <2>1
<1>2. g \in S OBVIOUS
<1>3. \A k \in 1..N : Shaped(s[k]) BY DEF RootedAt
<1>4. TypeOf(s[1].node) = "PROGRAM" /\ s[1].pc \in RootLabels BY DEF RootedAt
<1>8. /\ r \in Seq(S) /\ Len(r) = N + 1 /\ r[N + 1] = g /\ \A k \in 1..N : r[k] = s[k]
  <2> HIDE DEF S
  <2> QED BY <1>1, <1>2, AppendProperties DEF N
<1> HIDE DEF S, r
<1>9. r \in Seq(Elements(r))
  BY <1>8, OwnElements
<1>10. RootedAt(r)
  <2> HIDE DEF N
  <2> QED BY <1>1, <1>3, <1>4, <1>8, <1>9 DEF RootedAt
<1> QED BY <1>10 DEF r

LEMMA RootedReturns ==
  ASSUME NEW s, RootedAt(s), Len(s) # 1
  PROVE  RootedAt(I!Front(s))
<1> DEFINE S == Elements(s)
<1> DEFINE N == Len(s)
<1> DEFINE r == I!Front(s)
<1>1. /\ s \in Seq(S) /\ N \in Nat /\ N > 1
  <2>1. s \in Seq(Elements(s)) /\ Len(s) > 0 BY DEF RootedAt
  <2> QED BY <2>1
<1>3. \A k \in 1..N : Shaped(s[k]) BY DEF RootedAt
<1>4. TypeOf(s[1].node) = "PROGRAM" /\ s[1].pc \in RootLabels BY DEF RootedAt
<1>8. /\ r \in Seq(S) /\ Len(r) = N - 1 /\ \A k \in 1..(N - 1) : r[k] = s[k]
  <2> HIDE DEF S
  <2> QED BY <1>1, SubSeqProperties DEF N, I!Front
<1> HIDE DEF S, r
<1>9. r \in Seq(Elements(r))
  BY <1>8, OwnElements
<1>10. RootedAt(r)
  <2> HIDE DEF N
  <2> QED BY <1>1, <1>3, <1>4, <1>8, <1>9 DEF RootedAt
<1> QED BY <1>10 DEF r


LEMMA RootedSteps ==
  ASSUME Rooted
  PROVE  /\ \A f : Keeps(stack, f) /\ I!Resume(f) => StaysRooted
         /\ \A f, n, s : Keeps(stack, f) /\ I!Evaluate(f, n, s) => StaysRooted
         /\ \A r : Len(stack) # 1 /\ r.brk \in I!BreakTypes /\ I!Finish(r) => StaysRooted
         /\ \A how : I!Fail(how) => StaysRooted
         /\ \A o : Len(stack) # 1 /\ I!Deliver(o) => StaysRooted
<1>1. ASSUME NEW f, Keeps(stack, f), I!Resume(f) PROVE StaysRooted
  BY <1>1, RootedResumes DEF Rooted, StaysRooted, I!Resume
<1>2. ASSUME NEW f, NEW n, NEW s, Keeps(stack, f), I!Evaluate(f, n, s) PROVE StaysRooted
  <2>1. CASE UNCHANGED <<stack, ret>>  BY <2>1 DEF Rooted, StaysRooted
  <2>2. CASE /\ stack' = Append([stack EXCEPT ![Len(stack)] = f], I!NewFrame(n, s))
            /\ UNCHANGED ret
    <3>1. Shaped(I!NewFrame(n, s))  BY DEF Shaped, I!NewFrame, I!NoValue, I!Result, I!BreakTypes
    <3> QED  BY <1>2, <2>2, <3>1, RootedResumes, RootedCalls DEF Rooted, StaysRooted
  <2> QED  BY <1>2, <2>1, <2>2 DEF I!Evaluate
<1>3. ASSUME NEW r, Len(stack) # 1, r.brk \in I!BreakTypes, I!Finish(r) PROVE StaysRooted
  BY <1>3, RootedReturns DEF Rooted, StaysRooted, I!Finish
<1>4. ASSUME NEW how, I!Fail(how) PROVE StaysRooted
  BY <1>4 DEF I!Fail, Rooted, StaysRooted
<1>5. ASSUME NEW o, Len(stack) # 1, I!Deliver(o) PROVE StaysRooted
  <2>1. I!Result(o.value, "none").brk \in I!BreakTypes  BY DEF I!Result, I!BreakTypes
  <2> QED  BY <1>3, <1>4, <1>5, <2>1 DEF I!Deliver
<1> QED  BY <1>1, <1>2, <1>3, <1>4, <1>5

LEMMA RootFacts ==
  ASSUME Rooted
  PROVE  /\ Shaped(I!Top) /\ I!Top.last.brk \in I!BreakTypes
         /\ I!NoValue.brk \in I!BreakTypes /\ ret.brk \in I!BreakTypes
         /\ Len(stack) = 1 =>
              I!This.type = "PROGRAM" /\ I!Top.pc \in RootLabels /\ I!Top = stack[1]
<1> DEFINE N == Len(stack)
<1>1. N \in Nat /\ N > 0
  <2>1. stack \in Seq(Elements(stack)) /\ Len(stack) > 0  BY DEF Rooted, RootedAt
  <2> QED  BY <2>1
<1>2. N \in 1..N
  <2> HIDE DEF N
  <2> QED  BY <1>1
<1> QED  BY <1>2 DEF Rooted, RootedAt, I!Top, I!This, TypeOf, Shaped, I!NoValue, I!Result, I!BreakTypes

LEMMA RootedEvaluateLeaf ==
  ASSUME Rooted, I!EvaluateLeaf
  PROVE  StaysRooted
<1>1. CASE I!EvaluateInteger
  BY <1>1, RootedSteps, RootFacts
  DEF I!EvaluateInteger, I!At, Keeps, Shaped, RootLabels
<1>2. CASE I!EvaluateFloat
  BY <1>2, RootedSteps, RootFacts
  DEF I!EvaluateFloat, I!At, Keeps, Shaped, RootLabels
<1>3. CASE I!EvaluateIdent
  BY <1>3, RootedSteps, RootFacts
  DEF I!EvaluateIdent, I!At, Keeps, Shaped, RootLabels
<1>4. CASE I!EvaluateDeclaration
  BY <1>4, RootedSteps, RootFacts
  DEF I!EvaluateDeclaration, I!At, Keeps, Shaped, RootLabels
<1>5. CASE I!EvaluateUnhandled
  BY <1>5, RootedSteps, RootFacts
  DEF I!EvaluateUnhandled, I!At, I!Unhandled, Keeps, Shaped, RootLabels
<1>6. CASE I!EvaluateNull
  BY <1>6, RootedSteps, RootFacts
  DEF I!EvaluateNull, I!At, Keeps, Shaped, RootLabels
<1> QED  BY <1>1, <1>2, <1>3, <1>4, <1>5, <1>6 DEF I!EvaluateLeaf

LEMMA RootedExpression ==
  ASSUME Rooted, I!Expression
  PROVE  StaysRooted
<1>1. CASE I!EvaluateOperand
  BY <1>1, RootedSteps, RootFacts
  DEF I!EvaluateOperand, I!At, I!Operations, Keeps, Shaped, RootLabels
<1>2. CASE I!OperandValue
  BY <1>2, RootedSteps, RootFacts
  DEF I!OperandValue, I!At, I!Operations, Keeps, Shaped, RootLabels
<1>3. CASE I!evaluate_bin_expr
  BY <1>3, RootedSteps, RootFacts
  DEF I!evaluate_bin_expr, I!At, I!Complete, Keeps, Shaped, RootLabels
<1>4. CASE I!evaluate_unary_expr
  BY <1>4, RootedSteps, RootFacts
  DEF I!evaluate_unary_expr, I!At, I!Complete, Keeps, Shaped, RootLabels
<1>5. CASE I!evaluate_cast_expr
  BY <1>5, RootedSteps, RootFacts
  DEF I!evaluate_cast_expr, I!At, I!Complete, Keeps, Shaped, RootLabels
<1>6. CASE I!evaluate_assign_expr
  BY <1>6, RootedSteps, RootFacts
  DEF I!evaluate_assign_expr, I!At, I!Complete, I!Result, I!BreakTypes, Keeps, Shaped,
      RootLabels
<1>7. CASE I!CastUnsupported
  BY <1>7, RootedSteps, RootFacts DEF I!CastUnsupported, I!At, Keeps, Shaped, RootLabels
<1> QED  BY <1>1, <1>2, <1>3, <1>4, <1>5, <1>6, <1>7 DEF I!Expression

LEMMA RootedDeclaration ==
  ASSUME Rooted, I!Declaration
  PROVE  StaysRooted
<1>1. CASE I!VarDeclare
  BY <1>1, RootedSteps, RootFacts
  DEF I!VarDeclare, I!At, Keeps, Shaped, RootLabels
<1>2. CASE I!VarDefine
  BY <1>2, RootedSteps, RootFacts
  DEF I!VarDefine, I!At, Keeps, Shaped, RootLabels
<1>3. CASE I!StructField
  BY <1>3, RootedSteps, RootFacts
  DEF I!StructField, I!At, Keeps, Shaped, RootLabels
<1>4. CASE I!StructFieldValue
  BY <1>4, RootedSteps, RootFacts
  DEF I!StructFieldValue, I!At, Keeps, Shaped, RootLabels
<1>5. CASE I!StructDefine
  BY <1>5, RootedSteps, RootFacts
  DEF I!StructDefine, I!At, Keeps, Shaped, RootLabels
<1>6. CASE I!evaluate_fn_stat
  BY <1>6, RootedSteps, RootFacts
  DEF I!evaluate_fn_stat, I!At, Keeps, Shaped, RootLabels
<1> QED  BY <1>1, <1>2, <1>3, <1>4, <1>5, <1>6 DEF I!Declaration

LEMMA RootedBranching ==
  ASSUME Rooted, I!Branching
  PROVE  StaysRooted
<1>1. CASE I!IfCondition
  BY <1>1, RootedSteps, RootFacts
  DEF I!IfCondition, I!At, Keeps, Shaped, RootLabels
<1>2. CASE I!IfBranch
  BY <1>2, RootedSteps, RootFacts
  DEF I!IfBranch, I!At, Keeps, Shaped, RootLabels
<1>3. CASE I!IfDone
  BY <1>3, RootedSteps, RootFacts
  DEF I!IfDone, I!At, Keeps, Shaped, RootLabels
<1>4. CASE I!WhileCondition
  BY <1>4, RootedSteps, RootFacts
  DEF I!WhileCondition, I!At, Keeps, Shaped, RootLabels
<1>5. CASE I!WhileTest
  BY <1>5, RootedSteps, RootFacts
  DEF I!WhileTest, I!At, Keeps, Shaped, RootLabels
<1>6. CASE I!WhileBody
  BY <1>6, RootedSteps, RootFacts
  DEF I!WhileBody, I!At, I!BreakTypes, Keeps, Shaped, RootLabels
<1> QED  BY <1>1, <1>2, <1>3, <1>4, <1>5, <1>6 DEF I!Branching

LEMMA RootedJumping ==
  ASSUME Rooted, I!Jumping
  PROVE  StaysRooted
<1>1. CASE I!evaluate_defer_stat
  BY <1>1, RootedSteps, RootFacts
  DEF I!evaluate_defer_stat, I!At, Keeps, Shaped, RootLabels
<1>2. CASE I!JumpEnter
  BY <1>2, RootedSteps, RootFacts
  DEF I!JumpEnter, I!At, I!Jumps, Keeps, Shaped, RootLabels
<1>3. CASE I!RunDefer
  BY <1>3, RootedSteps, RootFacts
  DEF I!RunDefer, I!At, Keeps, Shaped, RootLabels
<1>4. CASE I!JumpDefersDone
  BY <1>4, RootedSteps, RootFacts
  DEF I!JumpDefersDone, I!At, I!Jumps, I!Leaving, I!Result, I!BreakTypes, Keeps, Shaped,
      RootLabels
<1>5. CASE I!ReturnExpr
  BY <1>5, RootedSteps, RootFacts
  DEF I!ReturnExpr, I!At, Keeps, Shaped, RootLabels
<1>6. CASE I!ReturnValue
  BY <1>6, RootedSteps, RootFacts
  DEF I!ReturnValue, I!At, I!Result, I!BreakTypes, Keeps, Shaped, RootLabels
<1> QED  BY <1>1, <1>2, <1>3, <1>4, <1>5, <1>6 DEF I!Jumping

LEMMA RootedScoping ==
  ASSUME Rooted, I!Scoping
  PROVE  StaysRooted
<1>1. CASE I!BlockEnter
  BY <1>1, RootedSteps, RootFacts
  DEF I!BlockEnter, I!At, Keeps, Shaped, RootLabels
<1>2. CASE I!CallEnter
  BY <1>2, RootedSteps, RootFacts
  DEF I!CallEnter, I!At, Keeps, Shaped, RootLabels
<1>3. CASE I!CallScope
  BY <1>3, RootedSteps, RootFacts
  DEF I!CallScope, I!At, Keeps, Shaped, RootLabels
<1>4. CASE I!CallArgument
  BY <1>4, RootedSteps, RootFacts
  DEF I!CallArgument, I!At, Keeps, Shaped, RootLabels
<1>5. CASE I!CallBind
  BY <1>5, RootedSteps, RootFacts
  DEF I!CallBind, I!At, Keeps, Shaped, RootLabels
<1>6. CASE I!CallBody
  BY <1>6, RootedSteps, RootFacts
  DEF I!CallBody, I!At, Keeps, Shaped, RootLabels
<1>7. CASE I!Statement
  BY <1>7, RootedSteps, RootFacts
  DEF I!Statement, I!At, Keeps, Shaped, RootLabels
<1>8. CASE I!StatementDone
  BY <1>8, RootedSteps, RootFacts
  DEF I!StatementDone, I!At, Keeps, Shaped, RootLabels
<1>9. CASE I!Leave
  BY <1>9, RootedSteps, RootFacts
  DEF I!Leave, I!At, Keeps, Shaped, RootLabels
<1>10. CASE I!DefersDone
  BY <1>10, RootedSteps, RootFacts
  DEF I!DefersDone, I!At, I!Jumps, I!Leaving, Keeps, Shaped, RootLabels
<1>11. CASE I!FreeScope
  BY <1>11, RootedSteps, RootFacts
  DEF I!FreeScope, I!At, Keeps, Shaped, RootLabels
<1> QED  BY <1>1, <1>2, <1>3, <1>4, <1>5, <1>6, <1>7, <1>8, <1>9, <1>10, <1>11 DEF I!Scoping

LEMMA RootedRunning ==
  ASSUME Rooted, I!Running
  PROVE  StaysRooted
<1>1. CASE I!ProgramStatement
  BY <1>1, RootedSteps, RootFacts
  DEF I!ProgramStatement, I!At, Keeps, Shaped, RootLabels
<1>2. CASE I!MainEnter
  BY <1>2, RootedSteps, RootFacts
  DEF I!MainEnter, I!At, Keeps, Shaped, RootLabels
<1>3. CASE I!MainDone
  BY <1>3, RootedSteps, RootFacts
  DEF I!MainDone, Rooted, StaysRooted
<1> QED  BY <1>1, <1>2, <1>3 DEF I!Running

LEMMA RootedNext ==
  ASSUME Rooted, I!Next
  PROVE  StaysRooted
BY RootedEvaluateLeaf, RootedExpression, RootedDeclaration, RootedBranching, RootedJumping,
   RootedScoping, RootedRunning
DEF I!Next

-----------------------------------------------------------------------------
(***************************************************************************)
(* Both stages as one: what holds between any two steps of interpret.      *)
(***************************************************************************)
PipelineInv ==
  /\ HandInv
  /\ IF Started THEN Rooted ELSE ret = I!NoValue

LEMMA RootedStart ==
  ASSUME HandInv, ret = I!NoValue, create_interpreter
  PROVE  StaysRooted
<1> DEFINE f == I!NewFrame(program, 1)
<1> DEFINE s == <<f>>
<1>1. stack' = s /\ ret' = ret /\ verdict = "accepted"  BY DEF create_interpreter
<1>2. TypeOf(program) = "PROGRAM"  BY <1>1, Accepted
<1>3. ret.brk \in I!BreakTypes  BY DEF I!NoValue, I!Result, I!BreakTypes
<1>4. f.node = program /\ f.pc \in RootLabels /\ Shaped(f)
  BY DEF Shaped, I!NewFrame, I!NoValue, I!Result, I!BreakTypes, RootLabels
<1> HIDE DEF f
<1>5. Len(s) = 1 /\ s[1] = f /\ s \in Seq({f})  OBVIOUS
<1> HIDE DEF s
<1>6. s \in Seq(Elements(s))  BY <1>5, OwnElements
<1>7. RootedAt(s)  BY <1>2, <1>4, <1>5, <1>6 DEF RootedAt
<1> QED  BY <1>1, <1>3, <1>7 DEF StaysRooted

\* The stack of a rooted interpreter is not empty.
LEMMA RootedStarted ==
  ASSUME StaysRooted
  PROVE  Started' /\ Rooted'
<1>1. Rooted'  BY DEF StaysRooted, Rooted
<1>2. Len(stack') > 0  BY DEF StaysRooted, RootedAt
<1>3. stack' # <<>>  BY <1>2
<1> QED  BY <1>1, <1>3 DEF Started

LEMMA PipelineInitInv ==
  ASSUME PipelineInit
  PROVE  PipelineInv /\ Interpreter!Init
<1>1. /\ SemInit /\ ~Started /\ ret = I!NoValue /\ fns = <<>> /\ status = "run"
  BY DEF PipelineInit, Started
<1>2. PipelineInv  BY <1>1, HandInitInv DEF PipelineInv
<1>3. PICK p \in Programs : calls = <<NewCall(p, 1)>>  BY <1>1 DEF SemInit
<1>4. program = p  BY <1>3 DEF program, NewCall
<1>5. /\ I!NewFrame(p, 1) = Interpreter!NewFrame(p, 1) /\ I!NoValue = Interpreter!NoValue
  BY ImageFrames
<1>6. I!GlobalScope(p) = Interpreter!GlobalScope(p)  BY ImageGlobalScope
<1> QED  BY <1>1, <1>2, <1>4, <1>5, <1>6 DEF Interpreter!Init

LEMMA PipelineNextInv ==
  ASSUME PipelineInv, [interpret]_pipelineVars
  PROVE  PipelineInv' /\ [Interpreter!Next]_(Interpreter!vars)
<1>1. HandInv'  BY StageStep, HandNextInv DEF PipelineInv
<1>2. CASE Analyse
  <2>1. ~Started /\ UNCHANGED <<stack, ret, scopes, fns, status>>
    BY <1>2 DEF Analyse, interpVars
  <2>2. ~Started' /\ ret' = I!NoValue  BY <2>1 DEF PipelineInv, Started
  <2>3. PipelineInv'  BY <1>1, <2>2 DEF PipelineInv
  <2> QED  BY <1>2, <2>1, <2>3, HandOverStep DEF PipelineInv
<1>3. CASE create_interpreter
  <2>1. ~Started /\ HandInv /\ ret = I!NoValue  BY <1>3 DEF create_interpreter, PipelineInv
  <2>2. StaysRooted  BY <1>3, <2>1, RootedStart
  <2>3. PipelineInv'  BY <1>1, <2>2, RootedStarted DEF PipelineInv
  <2> QED  BY <1>3, <2>1, <2>3, HandOverStep
<1>4. CASE Interpret
  <2>1. Started /\ Rooted /\ I!Next  BY <1>4 DEF Interpret, PipelineInv
  <2>2. StaysRooted  BY <2>1, RootedNext
  <2>3. Started' /\ Rooted'  BY <2>2, RootedStarted
  <2>4. PipelineInv'  BY <1>1, <2>3 DEF PipelineInv
  <2> QED  BY <2>1, <2>3, <2>4, ImageNext
<1>5. CASE UNCHANGED pipelineVars
  <2>1. UNCHANGED <<calls, stack, ret, scopes, fns, status>>  BY <1>5 DEF pipelineVars
  <2>2. PipelineInv'  BY <1>1, <2>1 DEF PipelineInv, Started, Rooted
  <2>3. UNCHANGED Interpreter!vars  BY <2>1 DEF Interpreter!vars, Started, program
  <2> QED  BY <2>2, <2>3
<1> QED  BY <1>2, <1>3, <1>4, <1>5 DEF interpret

(***************************************************************************)
(* main.c:293: interpret implements the interpreter that starts from the   *)
(* scope and the types a formula reads off the tree, for every program.    *)
(* The stage before leaves exactly that scope behind, and from then on     *)
(* every step is one of the interpreter's.                                 *)
(***************************************************************************)
THEOREM ProgramsAreInterpreted == PipelineSpec => InterpretsProgram
<1>1. PipelineInit => PipelineInv /\ Interpreter!Init  BY PipelineInitInv
<1>2. PipelineInv /\ [interpret]_pipelineVars
        => PipelineInv' /\ [Interpreter!Next]_(Interpreter!vars)
  BY PipelineNextInv
<1> QED  BY <1>1, <1>2, PTL DEF PipelineSpec, InterpretsProgram, Interpreter!Spec
=============================================================================
