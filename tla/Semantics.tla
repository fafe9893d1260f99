------------------------------ MODULE Semantics ------------------------------
(***************************************************************************)
(* The semantics stage of Prior: semantics.c over the scopes of scope.c,   *)
(* the type tables of type.c and the compile-time evaluation of eval.c.    *)
(* process_node recurses on the C stack, here the variable calls; process_ *)
(* semantics is at its bottom.  A frame's pc is "enter" while its function *)
(* has its own work to do before the first child, "visit" between two      *)
(* children and "child" while it waits for one, whose SemRes is in result. *)
(*                                                                         *)
(* Every child is processed in the newest scope, whose ancestors are all   *)
(* the others: scopes is the one chain that lookups go along.              *)
(***************************************************************************)
EXTENDS Integers, Sequences, FiniteSets, SequencesExt, Tree

CONSTANTS
  MaxVars,      \* slots of a scope (scope.h), members of a type (type.c): 256
  MaxTypes,     \* entries of a type table (256 in type.c)
  MaxErrors     \* entries of the error list (128 in error.h)

VARIABLES
  calls,        \* the active process_* calls, the innermost last
  result,       \* the SemRes the last finished call returned
  chain,        \* the live Scope objects, the global one first
  errors,       \* the nodes reported to the error list
  verdict       \* "run", "accepted", "rejected", or how the process died

semVars == <<calls, result, chain, errors, verdict>>

-----------------------------------------------------------------------------
(***************************************************************************)
(* Types.  A type is known by the value type of what it describes ("none"  *)
(* for TYPE_TYPE_NONE) and the type names of a function's parameters or a  *)
(* struct's fields.  The alias bool is resolved.                           *)
(***************************************************************************)
Type(vt, types) == [vt |-> vt, types |-> types]
NoType == Type("none", <<>>)
Numeric(vt) == Type(vt, <<>>)
Named(x, type) == [name |-> x, type |-> type]

CoreTypes ==
  <<Named("i8", Numeric("i8")), Named("i16", Numeric("i16")), Named("i32", Numeric("i32")),
    Named("i64", Numeric("i64")), Named("u8", Numeric("u8")), Named("u16", Numeric("u16")),
    Named("u32", Numeric("u32")), Named("u64", Numeric("u64")), Named("f32", Numeric("f32")),
    Named("f64", Numeric("f64")), Named("bool", Numeric("u8"))>>

ASSUME SemanticsBounds ==
  MaxVars \in Nat /\ MaxVars >= 3 /\ MaxTypes \in Nat /\ MaxTypes >= Len(CoreTypes)
  /\ MaxErrors \in Nat

(***************************************************************************)
(* Scopes.  A scope has its slots, in the order they were taken, and its   *)
(* type table.  A lookup takes the first entry of the name in the newest   *)
(* scope that has one.                                                     *)
(***************************************************************************)
Slot(x, type, value) == [name |-> x, type |-> type, value |-> value]
SubScope == [vars |-> <<>>, types |-> <<>>]

Places(entries, x) == {k \in 1..Len(entries) : entries[k].name = x}
First(entries, x) == entries[Min(Places(entries, x))]

Typing(T) == {s \in 1..Len(chain) : Places(chain[s].types, T) # {}}
scope_get_type(T) ==
  IF Typing(T) = {} THEN NoType ELSE First(chain[Max(Typing(T))].types, T).type

Holding(x) == {s \in 1..Len(chain) : Places(chain[s].vars, x) # {}}
Found(x) == First(chain[Max(Holding(x))].vars, x)
scope_get_var(x) == IF Holding(x) = {} THEN None ELSE Found(x).value

\* Mutant: the value goes into the new slot.
DeclareLast(scope, x, type) ==
  [scope EXCEPT !.vars = Append(@, Slot(x, type, Zero(type.vt)))]

\* The first slot of the name takes the value, whichever was declared last.
Declare(scope, x, type) ==
  LET grown == Append(scope.vars, Slot(x, type, None)) IN
  [scope EXCEPT !.vars = [grown EXCEPT ![Min(Places(grown, x))].value = Zero(type.vt)]]

Parameters(fn) ==
  LET f == NodeData[fn]
      same(k) == {j \in 1..Len(f.params) : f.params[j] = f.params[k]} IN
  [SubScope EXCEPT !.vars =
     [k \in 1..Len(f.params) |->
        Slot(f.params[k], scope_get_type(f.types[k]),
             IF k = Min(same(k)) THEN Zero(scope_get_type(f.types[Max(same(k))]).vt) ELSE None)]]

-----------------------------------------------------------------------------
(***************************************************************************)
(* Frames.                                                                 *)
(***************************************************************************)
SemRes(type, error) == [type |-> type, error |-> error]

Prepared == {"VAR_STAT", "FUNC_STAT", "BLOCK", "CALL_EXPR"}

NewCall(n, s) ==
  [node |-> n,
   scope |-> s,        \* the scope argument of process_node
   pc |-> IF TypeOf(n) \in Prepared THEN "enter" ELSE "visit",
   i |-> 0,            \* the children processed so far
   type |-> NoType]    \* the local Type the function ends up using

Caller == calls[Len(calls)]
Here == NodeData[Caller.node]
In(types, pc) == verdict = "run" /\ Here.type \in types /\ Caller.pc = pc

\* The innermost function goes on as frame f, or calls process_node(n).
Proceed(f) ==
  calls' = [calls EXCEPT ![Len(calls)] = f] /\ UNCHANGED <<result, errors, verdict>>
Process(f, n) ==
  /\ calls' = Append([calls EXCEPT ![Len(calls)] = f], NewCall(n, Len(chain)))
  /\ UNCHANGED <<result, chain, errors, verdict>>

\* Mutant: the scope of a function or block outlives it when it fails.
LeaveKeeping(scopes, type, error) ==
  /\ calls' = Front(calls) /\ result' = SemRes(type, error)
  /\ chain' = IF error THEN scopes ELSE SubSeq(scopes, 1, Caller.scope)
  /\ UNCHANGED verdict

\* It returns to its caller, from the scopes given; its own sub_scope is gone.
Leave(scopes, type, error) ==
  /\ calls' = Front(calls) /\ result' = SemRes(type, error)
  /\ chain' = SubSeq(scopes, 1, Caller.scope)
  /\ UNCHANGED verdict

Yield(type) == Leave(chain, type, FALSE) /\ UNCHANGED errors

Die(how) == verdict' = how /\ UNCHANGED <<calls, result, chain, errors>>

\* The capacity of the error list is not checked.
Report(n, error) ==
  IF Len(errors) = MaxErrors THEN Die("overflow")
  ELSE errors' = Append(errors, n) /\ Leave(chain, NoType, error)

\* A report that names n reads the text of an identifier.  Other nodes begin with their
\* own text or a pointer to another node, which can be read as a text; these begin with
\* an operator, and reading that as a pointer is undefined.
Operative(n) == TypeOf(n) \in {"BIN_EXPR", "UN_EXPR", "UPDATE_EXPR", "ASSIGN_EXPR"}
ReportNamed(n) == Report(n, TRUE) \/ (Operative(n) /\ Die("crash"))

\* Mutant: a later declaration of a type comes before the earlier ones.
RegisteredFirst(x, type) == [chain EXCEPT ![Len(chain)].types = <<Named(x, type)>> \o @]

\* Nor is that of a type table.
Registered(x, type) == [chain EXCEPT ![Len(chain)].types = Append(@, Named(x, type))]
TableIsFull == Len(chain[Len(chain)].types) = MaxTypes

\* Mutant: the last member is not looked at.
UnknownMemberButLast ==
  \E k \in 1..(Len(Here.types) - 1) : scope_get_type(Here.types[k]) = NoType

\* The loop over the members of a function or struct meets an unknown type
\* before it leaves the 256 places of the type's arrays.
UnknownMember ==
  \E k \in 1..Len(Here.types) : k <= MaxVars + 1 /\ scope_get_type(Here.types[k]) = NoType

-----------------------------------------------------------------------------
(***************************************************************************)
(* Nodes without children to process.                                      *)
(***************************************************************************)
process_integer_lit ==
  In({"INTEGER_LIT"}, "visit") /\ Yield(Numeric("i32"))

process_float_lit ==
  In({"FLOAT_LIT"}, "visit") /\ Yield(Numeric("f32"))

\* Mutant: a name that is not declared is no error.
IdentUnreported ==
  /\ In({"IDENT_LIT"}, "visit")
  /\ IF scope_get_var(Here.name).t = "none" THEN Yield(Numeric("i32"))
     ELSE Yield(Found(Here.name).type)

process_ident_lit ==
  /\ In({"IDENT_LIT"}, "visit")
  /\ IF scope_get_var(Here.name).t = "none" THEN Report(Caller.node, TRUE)
     ELSE Yield(Found(Here.name).type)

process_jump ==
  In({"BREAK_STAT", "CONTINUE_STAT"}, "visit") /\ Yield(NoType)

\* The operand is not processed, and the type need not exist.
process_cast_expr ==
  In({"CAST_EXPR"}, "visit") /\ Yield(scope_get_type(Here.aux))

\* An unknown field type is reported, but not to the caller.
process_struct_stat ==
  /\ In({"STRUCT_STAT"}, "visit")
  /\ IF UnknownMember THEN Report(Caller.node, FALSE)
     ELSE IF Len(Here.types) > MaxVars \/ TableIsFull THEN Die("overflow")
     ELSE /\ Leave(Registered(Here.name, Type("struct", Here.types)), NoType, FALSE)
          /\ UNCHANGED errors

Unsupported ==
  {"NONE", "STRING_LIT", "ARRAY_LIT", "MEMBER_EXPR", "COMPOUND_LIT", "SWITCH_STAT"}
process_unsupported == In(Unsupported, "visit") /\ Die("abort")
process_null == In({"NULL"}, "visit") /\ Die("crash")

(***************************************************************************)
(* Enums.  The value of an entry is computed by eval.c, which shares the   *)
(* arithmetic of the interpreter; the last value is nowhere used again.    *)
(***************************************************************************)
Combined(op, lefts, rights) ==
  UNION {IF l.fault # "none" THEN {l} ELSE IF r.fault # "none" THEN {r}
         ELSE BinaryOutcomes(op, l.value, r.value) : l \in lefts, r \in rights}
Negated(op, operands) ==
  {IF e.fault # "none" THEN e ELSE NegateOutcome(op, e.value) : e \in operands}

evaluate_expr_node[n \in Nodes] ==
  CASE TypeOf(n) = "INTEGER_LIT" -> {OK([t |-> "i32", n |-> Wrap("i32", NodeData[n].num)])}
    [] TypeOf(n) = "FLOAT_LIT" -> {OK([t |-> "f32", n |-> NodeData[n].num])}
    [] TypeOf(n) = "IDENT_LIT" -> {OK(scope_get_var(NodeData[n].name))}
    [] TypeOf(n) = "BIN_EXPR" ->
         Combined(NodeData[n].aux, evaluate_expr_node[NodeData[n].kids[1]],
                  evaluate_expr_node[NodeData[n].kids[2]])
    [] TypeOf(n) = "UN_EXPR" ->
         Negated(NodeData[n].aux, evaluate_expr_node[NodeData[n].kids[1]])
    [] OTHER -> {Fault("abort")}

EnumEntry ==
  /\ In({"ENUM_STAT"}, "visit") /\ Caller.i < Len(Here.kids)
  /\ LET value == Here.kids[Caller.i + 1]
         given == TypeOf(value) \notin {"NULL", "NONE"} IN
     \E o \in IF given THEN evaluate_expr_node[value] ELSE {OK(Zero("i32"))} :
       IF o.fault # "none" THEN Die(o.fault)
       ELSE IF o.value.t = "none" THEN ReportNamed(value)
       ELSE IF Caller.i = MaxVars THEN Die("overflow")
       ELSE Proceed([Caller EXCEPT !.i = @ + 1]) /\ UNCHANGED chain

process_enum_stat ==
  /\ In({"ENUM_STAT"}, "visit") /\ Caller.i = Len(Here.kids)
  /\ IF TableIsFull THEN Die("overflow")
     ELSE Leave(Registered(Here.name, Type("enum", <<>>)), NoType, FALSE) /\ UNCHANGED errors

-----------------------------------------------------------------------------
(***************************************************************************)
(* What a declaration, a block and a call do before their children.        *)
(***************************************************************************)
VarEnter ==
  /\ In({"VAR_STAT"}, "enter")
  /\ LET type == scope_get_type(Here.aux) IN
     IF type = NoType THEN Report(Caller.node, TRUE)
     ELSE Proceed([Caller EXCEPT !.pc = "visit", !.type = type]) /\ UNCHANGED chain

\* The function is a type of its scope before its body is processed.
FnEnter ==
  /\ In({"FUNC_STAT"}, "enter")
  /\ IF UnknownMember THEN Report(Caller.node, TRUE)
     ELSE IF Len(Here.params) > MaxVars \/ TableIsFull THEN Die("overflow")
     ELSE /\ chain' = Append(Registered(Here.name, Type("function", Here.types)),
                             Parameters(Caller.node))
          /\ Proceed([Caller EXCEPT !.pc = "visit"])

BlockEnter ==
  /\ In({"BLOCK"}, "enter")
  /\ chain' = Append(chain, SubScope)
  /\ Proceed([Caller EXCEPT !.pc = "visit"])

\* The callee's text is looked up among the types, where only names can be.
Callee(n) ==
  LET callee == NodeData[n].kids[1] IN
  IF TypeOf(callee) \in {"IDENT_LIT", "STRING_LIT"} THEN scope_get_type(NodeData[callee].name)
  ELSE NoType

CallEnter ==
  /\ In({"CALL_EXPR"}, "enter")
  /\ LET function == Callee(Caller.node) IN
     IF function.vt # "function" THEN ReportNamed(Here.kids[1])
     ELSE Proceed([Caller EXCEPT !.pc = "visit", !.type = function]) /\ UNCHANGED chain

-----------------------------------------------------------------------------
(***************************************************************************)
(* Children.  An error of a child ends its parent too, up to the top level *)
(* of the program, which goes on with its next statement.                  *)
(***************************************************************************)
Optional(n) == IF TypeOf(n) = "NULL" THEN <<>> ELSE <<n>>

Children(n) ==
  LET kids == NodeData[n].kids IN
  CASE TypeOf(n) \in {"VAR_STAT", "RETURN_STAT"} -> Optional(kids[1])
    [] TypeOf(n) = "IF_STAT" -> <<kids[1], kids[2]>> \o Optional(kids[3])
    [] TypeOf(n) \in {"ASSIGN_EXPR", "CALL_EXPR"} -> Tail(kids)
    [] OTHER -> kids

Parents == {"DEFER_STAT", "RETURN_STAT", "VAR_STAT", "FUNC_STAT", "IF_STAT", "WHILE_STAT",
            "BLOCK", "BIN_EXPR", "UN_EXPR", "UPDATE_EXPR", "ASSIGN_EXPR", "CALL_EXPR", "PROGRAM"}
Over == Caller.i = Len(Children(Caller.node))

Visit ==
  /\ In(Parents, "visit") /\ ~Over
  /\ Process([Caller EXCEPT !.pc = "child"], Children(Caller.node)[Caller.i + 1])

\* The types some functions take over from their last, or only first, child.
TakesType ==
  \/ Here.type \in {"DEFER_STAT", "RETURN_STAT", "UN_EXPR", "UPDATE_EXPR", "ASSIGN_EXPR",
                    "BLOCK"}
  \/ Here.type = "BIN_EXPR" /\ Caller.i = 0

\* Mutant: the loop over the children does not advance.
VisitedAgain ==
  /\ In(Parents \ {"CALL_EXPR"}, "child")
  /\ IF result.error /\ Here.type # "PROGRAM"
     THEN Leave(chain, NoType, TRUE) /\ UNCHANGED errors
     ELSE Proceed([Caller EXCEPT !.pc = "visit"]) /\ UNCHANGED chain

Visited ==
  /\ In(Parents \ {"CALL_EXPR"}, "child")
  /\ IF result.error /\ Here.type # "PROGRAM"
     THEN Leave(chain, NoType, TRUE) /\ UNCHANGED errors
     ELSE /\ Proceed([Caller EXCEPT !.pc = "visit", !.i = @ + 1,
                                     !.type = IF TakesType THEN result.type ELSE @])
          /\ UNCHANGED chain

\* Mutant: the argument need only have some value type.
ArgumentUnmatched ==
  /\ In({"CALL_EXPR"}, "child")
  /\ IF result.error THEN Leave(chain, NoType, TRUE) /\ UNCHANGED errors
     ELSE IF result.type.vt = "none" THEN Die("abort")
     ELSE IF Caller.i >= Len(Caller.type.types) THEN Die("crash")
     ELSE Proceed([Caller EXCEPT !.pc = "visit", !.i = @ + 1]) /\ UNCHANGED chain

\* A surplus argument compares with a parameter type that is a NULL string;
\* an argument without a type, another call, has no value type.
Argument ==
  /\ In({"CALL_EXPR"}, "child")
  /\ LET param == scope_get_type(Caller.type.types[Caller.i + 1]) IN
     IF result.error THEN Leave(chain, NoType, TRUE) /\ UNCHANGED errors
     ELSE IF result.type.vt = "none" THEN Die("abort")
     ELSE IF Caller.i >= Len(Caller.type.types) THEN Die("crash")
     ELSE IF param = NoType THEN Die("abort")
     ELSE IF result.type.vt # param.vt THEN Report(Here.kids[Caller.i + 2], TRUE)
     ELSE Proceed([Caller EXCEPT !.pc = "visit", !.i = @ + 1]) /\ UNCHANGED chain

-----------------------------------------------------------------------------
(***************************************************************************)
(* After the children.                                                     *)
(***************************************************************************)
process_expr ==
  /\ In({"DEFER_STAT", "RETURN_STAT", "BIN_EXPR", "UN_EXPR", "UPDATE_EXPR", "ASSIGN_EXPR",
         "BLOCK"}, "visit")
  /\ Over /\ Yield(Caller.type)

\* The type of a call or a loop is none.
process_untyped ==
  In({"WHILE_STAT", "CALL_EXPR"}, "visit") /\ Over /\ Yield(NoType)

\* An if statement and a function always end in an error, which is in no list.
process_failing ==
  /\ In({"IF_STAT", "FUNC_STAT"}, "visit") /\ Over
  /\ Leave(chain, NoType, TRUE) /\ UNCHANGED errors

process_var_stat ==
  /\ In({"VAR_STAT"}, "visit") /\ Over
  /\ IF Len(chain[Len(chain)].vars) = MaxVars THEN Die("abort")
     ELSE /\ Leave([chain EXCEPT ![Len(chain)] = Declare(@, Here.name, Caller.type)],
                   Caller.type, FALSE)
          /\ UNCHANGED errors

process_semantics ==
  /\ In({"PROGRAM"}, "visit") /\ Over
  /\ verdict' = IF errors = <<>> THEN "accepted" ELSE "rejected"
  /\ UNCHANGED <<calls, result, chain, errors>>

-----------------------------------------------------------------------------
\* Mutant: true is all ones, as -1 in a u8.
PreloadSigned(x, n) == Slot(x, Numeric("u8"), [t |-> "u8", n |-> -n])
Preload(x, n) == Slot(x, Numeric("u8"), [t |-> "u8", n |-> n])
GlobalAtStart ==
  [vars |-> <<Preload("null", 0), Preload("false", 0), Preload("true", 1)>>,
   types |-> CoreTypes]

SemInit ==
  \E program \in Programs :
    /\ calls = <<NewCall(program, 1)>>
    /\ chain = <<GlobalAtStart>>
    /\ result = SemRes(NoType, FALSE)
    /\ errors = <<>>
    /\ verdict = "run"

Leaves ==
  \/ process_integer_lit \/ process_float_lit \/ process_ident_lit \/ process_jump
  \/ process_cast_expr \/ process_struct_stat \/ process_unsupported \/ process_null
  \/ EnumEntry \/ process_enum_stat
Entering == VarEnter \/ FnEnter \/ BlockEnter \/ CallEnter
Visiting == Visit \/ Visited \/ Argument
Leaving ==
  \/ process_expr \/ process_untyped \/ process_failing \/ process_var_stat
  \/ process_semantics

SemNext == Leaves \/ Entering \/ Visiting \/ Leaving

SemSpec == SemInit /\ [][SemNext]_semVars
SemFairSpec == SemSpec /\ WF_semVars(SemNext)

-----------------------------------------------------------------------------
(***************************************************************************)
(* Properties.                                                             *)
(***************************************************************************)
TypeType == [vt : ValueTypes, types : Seq(STRING)]
CallType == [node : Nodes, scope : Nat, pc : {"enter", "visit", "child"}, i : Nat,
             type : TypeType]
\* The types that can stand in a scope are named by programs, or preloaded.
TypeNames == Names \cup {CoreTypes[k].name : k \in 1..Len(CoreTypes)}
SemScopeType == [vars : Seq([name : Names, type : TypeType, value : Value]),
                 types : Seq([name : TypeNames, type : TypeType])]

\* Every variable holds what its C counterpart can hold.
DataOK ==
  /\ calls \in Seq(CallType)
  /\ result \in [type : TypeType, error : BOOLEAN]
  /\ chain \in Seq(SemScopeType)
  /\ errors \in Seq(Nodes)
SemTypeOK ==
  /\ DataOK
  /\ verdict \in {"run", "accepted", "rejected", "abort", "exit", "crash", "overflow"}

\* The frames that have a sub_scope, and the names the text declares in it.
Opens(j) == TypeOf(calls[j].node) \in {"BLOCK", "FUNC_STAT"} /\ calls[j].pc # "enter"

Passed(j) ==    \* the children the j-th frame is through with
  IF j = Len(calls) /\ calls[j].pc = "child" /\ ~result.error THEN calls[j].i + 1 ELSE calls[j].i
VarsBefore(j) ==
  LET kids == NodeData[calls[j].node].kids IN
  {NodeData[kids[k]].name : k \in {k \in 1..Passed(j) : TypeOf(kids[k]) = "VAR_STAT"}}
Declares(j) ==
  IF TypeOf(calls[j].node) = "BLOCK" THEN VarsBefore(j)
  ELSE LET params == NodeData[calls[j].node].params IN {params[k] : k \in 1..Len(params)}

NamesIn(entries) == {entries[k].name : k \in 1..Len(entries)}

(***************************************************************************)
(* Lexical scoping: whatever was reported and however functions and blocks *)
(* ended, the chain of scopes along which a name is looked up is that of   *)
(* the text: one scope for each enclosing block and function, holding the  *)
(* declarations before the present statement and the parameters, and at    *)
(* the bottom the global scope, where a declaration may have failed.       *)
(***************************************************************************)
LexicalScoping ==
  /\ Len(chain) = 1 + Cardinality({j \in 1..Len(calls) : Opens(j)})
  /\ \A j \in 1..Len(calls) :
       /\ calls[j].scope = 1 + Cardinality({k \in 1..(j - 1) : Opens(k)})
       /\ Opens(j) => NamesIn(chain[calls[j].scope + 1].vars) = Declares(j)
  /\ NamesIn(chain[1].vars) \subseteq {"null", "false", "true"} \cup VarsBefore(1)

(***************************************************************************)
(* Every type name a registered function or struct is made of is found     *)
(* from the scope it is registered in, so that no check of an argument and *)
(* no instantiation of a struct meets a type that is not there.            *)
(***************************************************************************)
TypesResolve ==
  \A s \in 1..Len(chain) : \A k \in 1..Len(chain[s].types) :
    \A j \in 1..Len(chain[s].types[k].type.types) :
      \E outer \in 1..s : chain[s].types[k].type.types[j] \in NamesIn(chain[outer].types)

\* The value type of an expression, read off its tree in the present scopes.
ExprType(expr) ==
  LET type[n \in Nodes] ==
        LET data == NodeData[n] IN
        CASE data.type = "INTEGER_LIT" -> "i32"
          [] data.type = "FLOAT_LIT" -> "f32"
          [] data.type = "IDENT_LIT" -> Found(data.name).type.vt
          [] data.type \in {"BIN_EXPR", "UN_EXPR", "UPDATE_EXPR"} -> type[data.kids[1]]
          [] data.type = "ASSIGN_EXPR" -> type[data.kids[2]]
          [] data.type = "CAST_EXPR" -> scope_get_type(data.aux).vt
          [] OTHER -> "none"
  IN type[expr]

(***************************************************************************)
(* semantics.c:318 "Check for argument-parameter matching": each argument  *)
(* a call has got past stands for a parameter, and the type of the whole   *)
(* argument expression is that of the parameter.                           *)
(***************************************************************************)
ArgumentsMatch ==
  \A j \in 1..Len(calls) : TypeOf(calls[j].node) = "CALL_EXPR" =>
    \A k \in 1..calls[j].i :
      /\ k <= Len(calls[j].type.types)
      /\ ExprType(NodeData[calls[j].node].kids[k + 1]) = scope_get_type(calls[j].type.types[k]).vt

(***************************************************************************)
(* semantics.c:14-18, of SemRes: it "determines if there was an error      *)
(* during analysis".  A function that tells its caller of an error has     *)
(* reported one.  The code does not keep this.                             *)
(***************************************************************************)
ErrorFlag == result.error => errors # <<>>

\* The stage comes to a verdict, or the process ends, on every program.
Decides == <>(verdict # "run")
=============================================================================
