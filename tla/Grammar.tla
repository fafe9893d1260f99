------------------------------- MODULE Grammar -------------------------------
(***************************************************************************)
(* What a syntax tree must be, said of the finished tree alone and not of  *)
(* the way the parser builds it.                                           *)
(***************************************************************************)
EXTENDS Parser

\* All nodes of a tree, root first.
RECURSIVE All(_), AllOf(_)
All(node) == <<node>> \o AllOf(node.kids)
AllOf(kids) == IF kids = <<>> THEN <<>> ELSE All(kids[1]) \o AllOf(Tail(kids))

Tree == Node("PROGRAM", 0, Root.kids)

-----------------------------------------------------------------------------
(***************************************************************************)
(* A tree spells its source: read off in order, its identifiers, literals, *)
(* operators and keywords are those of the source, each once and in the    *)
(* order of the source.  Only brackets, separators and the = of            *)
(* declarations have no node.  What parse_block and parse_switch_block     *)
(* take for an opening brace without looking is lost.                      *)
(***************************************************************************)
Infix(node) ==
  \/ node.type \in {"BIN_EXPR", "ASSIGN_EXPR", "MEMBER_EXPR"}
  \/ node.type = "UPDATE_EXPR" /\ node.tok > node.kids[1].tok /\ node.kids[1].tok # 0

RECURSIVE Spelling(_), Spellings(_)
Spelling(node) ==
  IF Infix(node)
  THEN Spelling(node.kids[1]) \o <<node.tok>> \o Spellings(Tail(node.kids))
  ELSE <<node.tok>> \o Spellings(node.kids)
Spellings(kids) == IF kids = <<>> THEN <<>> ELSE Spelling(kids[1]) \o Spellings(Tail(kids))

Silent == {"(", ")", "[", "]", "{", "}", ",", ":", ";", "else", "=", "EOF"}
Brackets == {"BLOCK", "LIST", "ARRAY_LIT", "COMPOUND_LIT", "ARRAY_TYPE"}
TakenAsBrace ==
  LET all == All(Tree) IN
  {all[k].tok : k \in {j \in 1..Len(all) : all[j].type \in Brackets}}
Speaks(k) == k # 0 /\ tokens[k] \notin Silent /\ k \notin TakenAsBrace
Positions == [k \in 1..Len(tokens) |-> k]
Spelled ==
  [][status' = "accepted" =>
      SelectSeq(Spelling(Tree), Speaks) = SelectSeq(Positions, Speaks)]_vars

-----------------------------------------------------------------------------
(***************************************************************************)
(* What the later stages take for granted, since they reach into a node's  *)
(* children by the type of the node alone (the unions of parser.h):        *)
(* names are identifiers, bodies are blocks, lists hold their elements,    *)
(* only statements hold statements.  The names of fields and parameters    *)
(* are left out: parse_fields and parse_parameters take any expression.    *)
(***************************************************************************)
Values ==
  {"IDENT_LIT", "INTEGER_LIT", "FLOAT_LIT", "STRING_LIT", "ARRAY_LIT", "COMPOUND_LIT",
   "BIN_EXPR", "UN_EXPR", "UPDATE_EXPR", "ASSIGN_EXPR", "CALL_EXPR", "MEMBER_EXPR",
   "CAST_EXPR", "NONE"}
Stats ==
  {"RETURN_STAT", "BREAK_STAT", "CONTINUE_STAT", "DEFER_STAT", "VAR_STAT", "ENUM_STAT",
   "STRUCT_STAT", "FUNC_STAT", "IF_STAT", "WHILE_STAT", "SWITCH_STAT", "BLOCK"}
TypeExprs == Values \cup {"ARRAY_TYPE"}

\* The types the children of a node may have; the last entry is that of all further ones.
Children(type) ==
  CASE type \in {"PROGRAM", "BLOCK"} -> <<(Values \ {"NONE"}) \cup Stats>>
    [] type \in {"BIN_EXPR", "ASSIGN_EXPR", "UN_EXPR", "UPDATE_EXPR", "RETURN_STAT",
                 "ARRAY_LIT", "COMPOUND_LIT", "ARGUMENT"} -> <<Values>>
    [] type = "DEFER_STAT"  -> <<Values \ {"NONE"}>>
    [] type = "CALL_EXPR"   -> <<Values \ {"NONE"}, {"LIST"}>>
    [] type = "MEMBER_EXPR" -> <<Values \ {"NONE"}, {"IDENT_LIT"}>>
    [] type = "CAST_EXPR"   -> <<{"IDENT_LIT", "MEMBER_EXPR"}, Values \ {"NONE"}>>
    [] type = "ARRAY_TYPE"  -> <<Values, TypeExprs>>
    [] type \in {"FIELD", "PARAMETER"} -> <<Values, TypeExprs>>
    [] type = "ENUM_ENTRY"  -> <<{"IDENT_LIT"}, Values>>
    [] type = "VAR_STAT"    -> <<{"IDENT_LIT"}, TypeExprs, Values>>
    [] type \in {"ENUM_STAT", "STRUCT_STAT"} -> <<{"IDENT_LIT"}, {"LIST"}>>
    [] type = "FUNC_STAT"   -> <<{"IDENT_LIT"}, {"LIST"}, TypeExprs, {"BLOCK"}>>
    [] type = "IF_STAT"     -> <<Values, {"BLOCK"}, Values \cup {"IF_STAT", "BLOCK"}>>
    [] type = "WHILE_STAT"  -> <<Values, Values \cup {"BLOCK"}>>
    [] type = "SWITCH_STAT" -> <<Values, {"LIST"}>>
    [] type = "SWITCH_CASE" -> <<Values \cup {"BLOCK"}, {"BLOCK"}>>
    [] type = "LIST"        -> <<{"ARGUMENT", "FIELD", "PARAMETER", "ENUM_ENTRY", "SWITCH_CASE"}>>
    [] OTHER                -> <<{}>>

Least(a, b) == IF a < b THEN a ELSE b
Formed(node) ==
  LET types == Children(node.type) IN
  /\ \A k \in 1..Len(node.kids) : node.kids[k].type \in types[Least(k, Len(types))]
  /\ node.type = "LIST" =>
       \A k \in 1..Len(node.kids) : node.kids[k].type = node.kids[1].type
Conforms ==
  [][status' = "accepted" =>
      LET all == All(Tree) IN \A k \in 1..Len(all) : Formed(all[k])]_vars

-----------------------------------------------------------------------------
(***************************************************************************)
(* Expressions by precedence.  The reference finds the operator to split   *)
(* an expression at from the whole of it: of the loosest level outside     *)
(* parentheses, the last one.  The parser climbs the levels token by token *)
(* and must come to the same tree, also where it must not: assignments do  *)
(* not chain.                                                              *)
(***************************************************************************)
Precedence == <<AssignOps, parse_bin_comp_expr.ops, parse_bin_add_expr.ops,
                parse_bin_mul_expr.ops>>
Depth(i, k) ==
  Cardinality({j \in i..k : tokens[j] = "("}) - Cardinality({j \in i..k : tokens[j] = ")"})
Operators(i, j, p) ==
  {k \in (i + 1)..j : /\ Depth(i, k) = 0 /\ tokens[k] \in Precedence[p]
                      /\ tokens[k - 1] \in DOMAIN Literals \cup {")"}}

RECURSIVE Expression(_, _)
Expression(i, j) ==
  LET levels == {p \in 1..Len(Precedence) : Operators(i, j, p) # {}} IN
  IF levels # {}
  THEN LET p == CHOOSE q \in levels : \A r \in levels : q <= r
           at == CHOOSE k \in Operators(i, j, p) : \A l \in Operators(i, j, p) : l <= k
       IN IF p = 1 /\ Cardinality(Operators(i, j, p)) > 1 THEN NoNode
          ELSE Node(IF p = 1 THEN "ASSIGN_EXPR" ELSE "BIN_EXPR", at,
                    <<Expression(i, at - 1), Expression(at + 1, j)>>)
  ELSE IF tokens[i] \in UnaryOps THEN Node("UN_EXPR", i, <<Expression(i + 1, j)>>)
  ELSE IF tokens[i] = "(" THEN Expression(i + 1, j - 1)
  ELSE Node(Literals[tokens[i]], i, <<>>)

\* The source is one expression and a semicolon: operands and operators take turns,
\* and parentheses hold more than a name, which would make them a cast.
BinaryOps == UNION {Precedence[p] : p \in 1..Len(Precedence)}
Operands == DOMAIN Literals
Last == Len(tokens) - 2
IsExpression ==
  /\ Last >= 1 /\ tokens[Last + 1] = ";"
  /\ tokens[1] \in Operands \cup {"-", "("} /\ tokens[Last] \in Operands \cup {")"}
  /\ Depth(1, Last) = 0 /\ \A k \in 1..Last : Depth(1, k) >= 0
  /\ \A k \in 1..(Last - 1) :
       IF tokens[k] \in Operands \cup {")"}
       THEN tokens[k + 1] \in BinaryOps \cup {")"}
       ELSE /\ tokens[k] \in BinaryOps \cup {"("}
            /\ tokens[k + 1] \in Operands \cup {"(", "-"}
            /\ tokens[k] = "(" => tokens[k + 1] \notin {"(", "-"} /\ tokens[k + 2] # ")"
            /\ tokens[k + 1] = "-" => tokens[k + 2] \in Operands \cup {"("}

AsReference ==
  [][Ended' /\ ~Ended /\ IsExpression =>
       LET tree == Expression(1, Last)
           all == All(tree)
           legal == \A k \in 1..Len(all) : all[k].type # "NONE"
       IN IF legal THEN status' = "accepted" /\ Root.kids = <<tree>>
          ELSE status' = "refused"]_vars
=============================================================================
