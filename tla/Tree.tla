--------------------------------- MODULE Tree ---------------------------------
(***************************************************************************)
(* The program in memory: the tree the parser has built (ast.h, parser.h), *)
(* which the later stages read and never change.  Every node is one record *)
(* with the fields that Ast explains.                                      *)
(***************************************************************************)
EXTENDS Integers, Sequences, FiniteSetsExt, Values

CONSTANTS
  Names,        \* the identifiers of the programs considered, and ""
  Nodes,        \* node pointers, a pointer to NULL among them
  NodeData,     \* what each points to
  Programs      \* the roots of the programs to process

NodeTypes ==
  {"NULL", "NONE", "INTEGER_LIT", "FLOAT_LIT", "IDENT_LIT", "STRING_LIT", "ARRAY_LIT",
   "BIN_EXPR", "UN_EXPR", "UPDATE_EXPR", "ASSIGN_EXPR", "CAST_EXPR", "CALL_EXPR", "MEMBER_EXPR", "COMPOUND_LIT",
   "VAR_STAT", "RETURN_STAT", "BREAK_STAT", "CONTINUE_STAT", "DEFER_STAT",
   "IF_STAT", "WHILE_STAT", "BLOCK", "FUNC_STAT", "STRUCT_STAT", "ENUM_STAT",
   "SWITCH_STAT", "PROGRAM"}

\* How many children a node of each type has; lists have any number.
Arity(type, n) ==
  CASE type \in {"BIN_EXPR", "ASSIGN_EXPR", "WHILE_STAT"} -> n = 2
    [] type \in {"UN_EXPR", "UPDATE_EXPR", "CAST_EXPR", "VAR_STAT", "RETURN_STAT", "DEFER_STAT",
                 "FUNC_STAT"} -> n = 1
    [] type = "IF_STAT" -> n = 3
    [] type = "CALL_EXPR" -> n >= 1
    [] type = "NULL" -> n = 0
    [] OTHER -> TRUE

ASSUME NamesAssumption ==
  {"", "null", "false", "true", "main"} \subseteq Names /\ MemberType \notin Names

TypeOf(n) == NodeData[n].type
TopLevel(program) == NodeData[program].kids

\* What the parser builds; a compound literal may have entries that are no assignments
\* (ast.c:165-191), which is left out, as the left sides below are (see README).
ASSUME NodesAssumption ==
  /\ NodeData \in [Nodes -> [type : NodeTypes, name : Names, aux : STRING, num : Int,
                             params : Seq(Names), types : Seq(STRING), kids : Seq(Nodes)]]
  /\ \A n \in Nodes : Arity(TypeOf(n), Len(NodeData[n].kids))
  /\ \A n \in Nodes : TypeOf(n) \in {"FUNC_STAT", "STRUCT_STAT"} =>
       Len(NodeData[n].types) = Len(NodeData[n].params)
  /\ \A n \in Nodes : TypeOf(n) = "ENUM_STAT" =>
       Len(NodeData[n].kids) = Len(NodeData[n].params)
  /\ \A n \in Nodes : TypeOf(n) = "ASSIGN_EXPR" => NodeData[n].aux \in AssignOps
  /\ \A n \in Nodes : \A k \in 1..Len(NodeData[n].kids) :
       LET kid == NodeData[n].kids[k] IN
       /\ TypeOf(kid) # "PROGRAM"
       /\ TypeOf(n) = "COMPOUND_LIT" => TypeOf(kid) = "ASSIGN_EXPR"
       /\ TypeOf(n) = "FUNC_STAT" => TypeOf(kid) = "BLOCK"

\* Every parse function allocates its node for itself and fills it with nodes parsed since
\* or just before: no node lies below itself.
Height[n \in Nodes] ==
  LET kids == NodeData[n].kids IN
  IF kids = <<>> THEN 0 ELSE 1 + Max({Height[kids[k]] : k \in 1..Len(kids)})

ASSUME TreeAssumption ==
  \A n \in Nodes :
    /\ Height[n] \in Nat
    /\ \A k \in 1..Len(NodeData[n].kids) : Height[NodeData[n].kids[k]] < Height[n]

Expressions ==
  {"NULL", "NONE", "INTEGER_LIT", "FLOAT_LIT", "IDENT_LIT", "STRING_LIT", "ARRAY_LIT",
   "BIN_EXPR", "UN_EXPR", "UPDATE_EXPR", "ASSIGN_EXPR", "CAST_EXPR", "CALL_EXPR", "MEMBER_EXPR", "COMPOUND_LIT"}

\* An expression and the value of a variable have no statements inside, and what is
\* assigned to is an identifier: the later stages take any left side for one (see README).
ASSUME ExpressionsAssumption ==
  \A n \in Nodes :
    /\ TypeOf(n) \in Expressions \cup {"VAR_STAT"} =>
         \A k \in 1..Len(NodeData[n].kids) : TypeOf(NodeData[n].kids[k]) \in Expressions
    /\ TypeOf(n) = "ASSIGN_EXPR" =>
         LET left == NodeData[n].kids[1] IN
         TypeOf(left) = "IDENT_LIT" /\ NodeData[left].name = NodeData[n].name

DeclarationTypes == {"VAR_STAT", "FUNC_STAT", "STRUCT_STAT", "ENUM_STAT"}

\* parse_stat, which alone parses these statements, is called for blocks and the program.
StatTypes == DeclarationTypes \cup {"DEFER_STAT", "RETURN_STAT", "BREAK_STAT", "CONTINUE_STAT"}
ASSUME DeclarationsAssumption ==
  \A n \in Nodes : \A k \in 1..Len(NodeData[n].kids) :
    TypeOf(NodeData[n].kids[k]) \in StatTypes => TypeOf(n) \in {"BLOCK", "PROGRAM"}

ASSUME ProgramsAssumption == Programs \subseteq {n \in Nodes : TypeOf(n) = "PROGRAM"}
=============================================================================
