------------------------------ MODULE Soundness ------------------------------
(***************************************************************************)
(* What the acceptance of a program is worth.  The interpreter asserts,    *)
(* exits and dereferences where a program goes wrong, and leaves it to the *)
(* semantics stage that none does.  The stage checks less than it takes:   *)
(* a program that keeps to Careful makes up, condition by condition, for   *)
(* the checks the stage leaves out.                                        *)
(***************************************************************************)
EXTENDS Pipeline

Kids(n) == NodeData[n].kids
NameOf(n) == NodeData[n].name
Under(tree) ==
  LET under[n \in Nodes] == {n} \cup UNION {under[kid] : kid \in ToSet(Kids(n))}
  IN under[tree]
Of(types, tree) == {n \in Under(tree) : TypeOf(n) \in types}

Functions == Of({"FUNC_STAT"}, program)
Globals ==
  {"null", "false", "true"} \cup {NameOf(TopLevel(program)[k]) : k \in I!GlobalVars(program)}
ParamNames == UNION {ToSet(NodeData[fn].params) : fn \in Functions}

-----------------------------------------------------------------------------
(***************************************************************************)
(* The conditions, each with the place that does not check it.             *)
(***************************************************************************)
\* Other node types end the process in one of the stages (semantics.c:421, interp.c:895).
Supported ==
  {"NULL", "INTEGER_LIT", "FLOAT_LIT", "IDENT_LIT", "BIN_EXPR", "UN_EXPR", "ASSIGN_EXPR",
   "CAST_EXPR", "CALL_EXPR", "VAR_STAT", "RETURN_STAT", "BREAK_STAT", "CONTINUE_STAT",
   "DEFER_STAT", "IF_STAT", "WHILE_STAT", "BLOCK", "FUNC_STAT", "PROGRAM"}
OnlySupported == \A n \in Under(program) : TypeOf(n) \in Supported

\* A variable and a return have a value.
NothingMissing ==
  \A n \in Under(program) : \A k \in 1..Len(Kids(n)) :
    TypeOf(Kids(n)[k]) = "NULL" => TypeOf(n) = "IF_STAT" /\ k = 3

\* What the error of an if statement keeps from being checked is not there.
NothingBehindIf ==
  \A n \in Under(program) \ {program} :
    LET kids == Children(n) IN
    \A k \in 1..(Len(kids) - 1) : Of({"IF_STAT"}, kids[k]) = {}

\* A type name means the same to both stages, and to the values.
Plainly == NumberTypes \cup {"bool"}
TypedPlainly ==
  /\ \A n \in Of({"VAR_STAT"}, program) : NodeData[n].aux \in Plainly
  /\ \A n \in Of({"CAST_EXPR"}, program) : NodeData[n].aux \in NumberTypes
  /\ \A fn \in Functions : ToSet(NodeData[fn].types) \subseteq Plainly

\* The interpreter declares a variable before it evaluates its value.
NotItsOwnValue ==
  \A n \in Of({"VAR_STAT"}, program) : \A below \in Under(n) \ {n} : NameOf(below) # NameOf(n)

\* The target of an assignment is not looked up.
TargetsGlobal ==
  \A n \in Of({"ASSIGN_EXPR"}, program) : NameOf(n) \in Globals

(***************************************************************************)
(* The operand of a cast is not looked at; arguments are, but evaluated in *)
(* the callee's scope, and a call among them has no type.                  *)
(***************************************************************************)
SelfContained(expr) ==
  /\ Of({"CALL_EXPR", "ASSIGN_EXPR"}, expr) = {}
  /\ \A n \in Of({"IDENT_LIT"}, expr) : NameOf(n) \in Globals
OperandsGlobal ==
  /\ \A n \in Of({"CAST_EXPR"}, program) : SelfContained(Kids(n)[1])
  /\ \A n \in Of({"CALL_EXPR"}, program) : \A arg \in ToSet(Tail(Kids(n))) :
       SelfContained(arg)

\* Neither is the number of arguments, nor the divisor.
ArgumentsCounted ==
  \A n \in Of({"CALL_EXPR"}, program) : \A fn \in Functions :
    NameOf(fn) = NameOf(Kids(n)[1]) => Len(NodeData[fn].params) = Len(Kids(n)) - 1
DivisorsConstant ==
  \A n \in Of({"BIN_EXPR", "ASSIGN_EXPR"}, program) : NodeData[n].aux \in {"/", "/="} =>
    LET divisor == NodeData[Kids(n)[2]] IN
    divisor.type = "INTEGER_LIT" /\ divisor.num \in 1..127

(***************************************************************************)
(* A function is a type to the semantics stage and a variable to the       *)
(* interpreter, and what is called by another expression than its name has *)
(* none (semantics.c:307); that it returns a value is checked by no one,   *)
(* nor that there is a main, which is not to be called.                    *)
(***************************************************************************)
Returns(body) ==
  LET returns[n \in Nodes] ==
        CASE TypeOf(n) = "RETURN_STAT" -> TRUE
          [] TypeOf(n) = "BLOCK" -> Kids(n) # <<>> /\ returns[Last(Kids(n))]
          [] TypeOf(n) = "IF_STAT" -> returns[Kids(n)[2]] /\ returns[Kids(n)[3]]
          [] OTHER -> FALSE
  IN returns[body]
Variables ==
  {NameOf(n) : n \in Of({"VAR_STAT"}, program)} \cup ParamNames
OneMeaning ==
  /\ Functions \subseteq ToSet(TopLevel(program))
  /\ \A fn, other \in Functions : NameOf(fn) = NameOf(other) => fn = other
  /\ \A fn \in Functions : NameOf(fn) \notin Variables
  /\ \A n \in Of({"CALL_EXPR"}, program) : TypeOf(Kids(n)[1]) = "IDENT_LIT"
FunctionsReturn ==
  \A fn \in Functions : NameOf(fn) # "main" => Returns(Kids(fn)[1])
HasMain ==
  /\ \E fn \in Functions : NameOf(fn) = "main" /\ NodeData[fn].params = <<>>
  /\ \A n \in Of({"CALL_EXPR"}, program) : NameOf(Kids(n)[1]) # "main"

Careful ==
  /\ OnlySupported
  /\ NothingMissing
  /\ NothingBehindIf
  /\ TypedPlainly
  /\ NotItsOwnValue
  /\ TargetsGlobal
  /\ OperandsGlobal
  /\ ArgumentsCounted
  /\ DivisorsConstant
  /\ OneMeaning
  /\ FunctionsReturn
  /\ HasMain

-----------------------------------------------------------------------------
Deaths == {"abort", "exit", "crash"}
OutOfSlots ==
  \/ \E s \in 1..Len(chain) : Len(chain[s].vars) = MaxVars
  \/ \E s \in 1..Len(scopes) : I!ScopeIsFull(scopes, s)

(***************************************************************************)
(* On a careful program, whatever its names, types, calls, defers and      *)
(* jumps, the semantics stage comes to its verdict, and the interpreter    *)
(* does what it accepts to the end: no assertion (interp.c:390 and many    *)
(* others), no exit (interp.c:433, 717), no invalid pointer, unless a      *)
(* scope runs out of slots.                                                *)
(***************************************************************************)
CarefulProgramsRun ==
  {verdict, status} \cap Deaths # {} /\ ~OutOfSlots => ~Careful
=============================================================================
