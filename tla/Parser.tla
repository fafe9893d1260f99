------------------------------- MODULE Parser -------------------------------
(***************************************************************************)
(* parser.c and ast.c: the recursive descent parser over the tokens of the *)
(* lexer.  Every function of ast.c is one entry of a table below, of one   *)
(* of three kinds: a statement or list element, a straight run of          *)
(* parser_advance, parser_advance_expect and calls; a list, a loop that    *)
(* fills a node array up to a closing token; a level of the expression     *)
(* grammar.  The actions execute the entry of the innermost call.          *)
(*                                                                         *)
(* The C stack is explicit.  A call's result is appended to the children   *)
(* its caller holds.  An error is a latch: the functions look at it after  *)
(* their calls, most of them, and return an empty node.                    *)
(*                                                                         *)
(* Of the memory the model keeps what free_parser must give back: how many *)
(* nodes are recorded, and the chunks of the node arrays, which a growing  *)
(* array may leave.                                                        *)
(***************************************************************************)
EXTENDS Integers, Sequences, FiniteSets

CONSTANTS
  Sources,      \* the token sequences the lexer hands over
  ArraySize,    \* the first capacity of a node array, 64 in the code
  MaxNodes,     \* entries of allocations and of nodearr_allocations, 512
  MaxArrays     \* each in the code

\* Token types are written as they are spelled, with names for the most frequent ones; those
\* with a value by kind.
LBRACE == "{"
RBRACE == "}"
COMMA == ","
SEMICOLON == ";"
Literals ==
  [ident |-> "IDENT_LIT", int |-> "INTEGER_LIT",
   float |-> "FLOAT_LIT", string |-> "STRING_LIT"]
AssignOps == {"=", "+=", "-=", "*=", "/=", "%="}
UnaryOps  == {"-", "*", "!", "&"}
UpdateOps == {"++", "--"}
Keyword ==
  [if |-> "if_stat", while |-> "while_stat", switch |-> "switch_stat",
   fn |-> "fn_stat", enum |-> "enum_stat", struct |-> "struct_stat",
   var |-> "var_stat", const |-> "var_stat", defer |-> "defer_stat",
   return |-> "return_stat", break |-> "break", continue |-> "continue"]
TokenTypes ==
  DOMAIN Literals \cup DOMAIN Keyword \cup AssignOps \cup UnaryOps \cup UpdateOps \cup
  {"+", "/", "%", "<", ">", "==", "!=", "<=", ">=", "&&", "||", "|", ".", COMMA, ":", SEMICOLON,
   "(", ")", "[", "]", LBRACE, RBRACE, "else", "case", "default", "EOF"}

ASSUME ParserAssumption ==
  /\ ArraySize \in Nat \ {0} /\ MaxNodes \in Nat /\ MaxArrays \in Nat \ {0}
  /\ \A source \in Sources :
       /\ source \in Seq(TokenTypes) /\ Len(source) >= 1
       /\ \A k \in 1..Len(source) : source[k] = "EOF" <=> k = Len(source)

VARIABLES
  tokens,    \* the token array
  cursor,    \* parser->cursor, counted from 1
  error,     \* parser->error
  frames,    \* the functions being executed, parse_tokens first
  nodes,     \* parser->allocation_count
  arrays,    \* parser->nodearr_allocations: the chunk each recorded header points to
  live,      \* the chunks that are allocated
  fresh,     \* the next chunk malloc or realloc returns
  status     \* whether the parser runs, how parse_tokens ended, what then became of the memory

vars == <<tokens, cursor, error, frames, nodes, arrays, live, fresh, status>>
memory == <<arrays, live, fresh>>

\* A node: its type, the token it is made at, its children.
Node(type, tok, kids) == [type |-> type, tok |-> tok, kids |-> kids]
NoNode == Node("NONE", 0, <<>>)

Frame(fn) == [fn |-> fn, pc |-> 1, tok |-> 0, kids |-> <<>>, arr |-> 0, cap |-> 0]
Top == frames[Len(frames)]
Pop == SubSeq(frames, 1, Len(frames) - 1)
Here == tokens[cursor]                       \* parser_at(parser)->type

-----------------------------------------------------------------------------
(***************************************************************************)
(* Straight functions.                                                     *)
(***************************************************************************)
Take        == [do |-> "take",   arg |-> ""]   \* parser_advance
Expect(t)   == [do |-> "expect", arg |-> t]    \* parser_advance_expect
AtExpect(t) == [do |-> "at",     arg |-> t]    \* parser_at_expect
Parse(f)    == [do |-> "call",   arg |-> f]    \* a call, and the test of the latch after it
When(t)     == [do |-> "when",   arg |-> t]    \* the rest only at the token t
Size        == [do |-> "size",   arg |-> "]"]  \* an expression unless at ]
Check(c)    == [do |-> "check",  arg |-> c]    \* a test of the last child

\* children: how many the node has; nullable: an empty last one is a null pointer.
Straight(builds, children, nullable, steps) ==
  [builds |-> builds, children |-> children, nullable |-> nullable, steps |-> steps]

parse_return_stat == Straight("RETURN_STAT", 1, TRUE, <<Take, Parse("assign")>>)

\* Mutant: defer; is a statement.
parse_defer_stat_empty == Straight("DEFER_STAT", 1, FALSE, <<Take, Parse("assign")>>)

parse_defer_stat ==
  Straight("DEFER_STAT", 1, FALSE, <<Take, Parse("assign"), Check("expression")>>)
parse_break_stat == Straight("BREAK_STAT", 0, FALSE, <<Take>>)
parse_continue_stat == Straight("CONTINUE_STAT", 0, FALSE, <<Take>>)
parse_var_stat ==
  Straight("VAR_STAT", 3, TRUE,
    <<Take, Parse("literal"), Check("ident"), Expect(":"), Parse("type"),
      When("="), Take, Parse("assign")>>)
parse_enum_stat ==
  Straight("ENUM_STAT", 1, FALSE,
    <<Take, Parse("literal"), Check("ident"), When(LBRACE), Parse("entries")>>)
parse_struct_stat ==
  Straight("STRUCT_STAT", 1, FALSE,
    <<Take, Parse("literal"), Check("ident"), When(LBRACE), Parse("fields")>>)
parse_fn_stat ==
  Straight("FUNC_STAT", 4, FALSE,
    <<Take, Parse("literal"), Check("ident"), Parse("parameters"), Expect(":"),
      Parse("type"), AtExpect(LBRACE), Parse("block")>>)
parse_if_stat ==
  Straight("IF_STAT", 3, TRUE,
    <<Take, Expect("("), Parse("assign"), Expect(")"), AtExpect(LBRACE), Parse("body"),
      When("else"), Take, Parse("alternate")>>)
parse_while_stat ==
  Straight("WHILE_STAT", 2, TRUE,
    <<Take, Expect("("), Parse("assign"), Expect(")"), Parse("body")>>)
parse_switch_stat ==
  Straight("SWITCH_STAT", 2, FALSE,
    <<Take, Expect("("), Parse("assign"), Expect(")"), Parse("switch_block")>>)

\* The elements of lists, which the code has inside the loops.
switch_case ==
  Straight("SWITCH_CASE", 2, FALSE, <<Take, Parse("assign"), Expect(":"), Parse("block")>>)
switch_default == Straight("SWITCH_CASE", 1, FALSE, <<Take, Expect(":"), Parse("block")>>)
field == Straight("FIELD", 2, FALSE, <<Parse("assign"), Expect(":"), Parse("type")>>)
parameter == Straight("PARAMETER", 2, FALSE, <<Parse("assign"), Expect(":"), Parse("type")>>)
enum_entry ==
  Straight("ENUM_ENTRY", 2, FALSE,
    <<Parse("literal"), Check("ident"), When("="), Take, Parse("assign")>>)
argument == Straight("ARGUMENT", 1, FALSE, <<Parse("assign")>>)

\* The branches of parse_array_type, parse_unary_expr, parse_update_expr,
\* parse_cast_expr and parse_literal_term that go on behind their first token.
parse_array_type ==
  Straight("ARRAY_TYPE", 2, FALSE, <<Take, Size, When("]"), Take, Parse("type")>>)
unary == Straight("UN_EXPR", 1, FALSE, <<Take, Parse("update_expr")>>)
prefixed == Straight("UPDATE_EXPR", 1, FALSE, <<Take, Parse("call")>>)
cast ==
  Straight("CAST_EXPR", 2, FALSE,
    <<Take, Parse("assign"), Expect(")"), Check("type"), Parse("assign")>>)
parenthesised == Straight("NONE", 1, FALSE, <<Take, Parse("assign"), Expect(")")>>)

Straights ==
  [return_stat |-> parse_return_stat, defer_stat |-> parse_defer_stat,
   break |-> parse_break_stat, continue |-> parse_continue_stat,
   var_stat |-> parse_var_stat, enum_stat |-> parse_enum_stat,
   struct_stat |-> parse_struct_stat, fn_stat |-> parse_fn_stat,
   if_stat |-> parse_if_stat, while_stat |-> parse_while_stat,
   switch_stat |-> parse_switch_stat, case |-> switch_case, default |-> switch_default,
   field |-> field, parameter |-> parameter, entry |-> enum_entry, argument |-> argument,
   array_type |-> parse_array_type, unary |-> unary, prefixed |-> prefixed,
   cast |-> cast, parenthesised |-> parenthesised]

-----------------------------------------------------------------------------
(***************************************************************************)
(* Lists.  A list whose opening token is "any" takes what it finds there.  *)
(***************************************************************************)
List(builds, open, close, element) ==
  [builds |-> builds, open |-> open, close |-> close, element |-> element]

parse_array_lit        == List("ARRAY_LIT", "any", "]", "assign")
parse_compound_literal == List("COMPOUND_LIT", "any", RBRACE, "assign")
parse_fields           == List("LIST", LBRACE, RBRACE, "field")
parse_parameters       == List("LIST", "(", ")", "parameter")
parse_enum_entries     == List("LIST", LBRACE, RBRACE, "entry")
parse_args             == List("LIST", "(", ")", "argument")
parse_block            == List("BLOCK", "any", RBRACE, "stat")
parse_switch_block     == List("LIST", "any", RBRACE, "case")
parse_tokens           == List("PROGRAM", "any", "EOF", "stat")

Lists ==
  [array_lit |-> parse_array_lit, compound |-> parse_compound_literal,
   fields |-> parse_fields, parameters |-> parse_parameters,
   entries |-> parse_enum_entries, args |-> parse_args, block |-> parse_block,
   switch_block |-> parse_switch_block, program |-> parse_tokens]

Statements == {"block", "program"}                 \* no separators; empty nodes dropped
CommaFirst == {"args", "fields", "entries"}        \* take a comma in front of an element
CommaLast  == {"parameters", "array_lit", "compound"}    \* take it after one

(***************************************************************************)
(* Levels of the expression grammar: operands of the level below, joined   *)
(* by operators.                                                           *)
(***************************************************************************)
Joined(builds, below, ops, right) ==
  [builds |-> builds, below |-> below, ops |-> ops, right |-> right]

parse_assign_expr   == Joined("ASSIGN_EXPR", "comp", AssignOps, "comp")
parse_bin_comp_expr == Joined("BIN_EXPR", "add", {"<", ">", "==", "!=", "<=", ">="}, "add")
\* Mutant: sums associate to the right.
parse_bin_add_expr_right == Joined("BIN_EXPR", "mul", {"+", "-"}, "add")

parse_bin_add_expr == Joined("BIN_EXPR", "mul", {"+", "-"}, "mul")
parse_bin_mul_expr  == Joined("BIN_EXPR", "unary_expr", {"*", "/", "%"}, "unary_expr")
parse_call_expr     == Joined("CALL_EXPR", "member", {"("}, "args")
parse_member_expr   == Joined("MEMBER_EXPR", "cast_expr", {"."}, "cast_expr")

Levels ==
  [assign |-> parse_assign_expr, comp |-> parse_bin_comp_expr, add |-> parse_bin_add_expr,
   mul |-> parse_bin_mul_expr, call |-> parse_call_expr, member |-> parse_member_expr]

(***************************************************************************)
(* Functions that only look at the next token to choose another.           *)
(***************************************************************************)
parse_stat(t) ==
  IF t \in DOMAIN Keyword THEN Keyword[t] ELSE IF t = LBRACE THEN "block" ELSE "assign"
parse_type(t) == IF t = "[" THEN "array_type" ELSE "member"
parse_if_else(t) ==
  IF t = "if" THEN "if_stat" ELSE IF t = LBRACE THEN "block" ELSE "assign"
body(t) == IF t = LBRACE THEN "block" ELSE "assign"
parse_unary_expr(t) == IF t \in UnaryOps THEN "unary" ELSE "update_expr"
parse_update_expr(t) == IF t \in UpdateOps THEN "prefixed" ELSE "postfixed"
parse_cast_expr(t) == IF t = "(" THEN "cast" ELSE "literal"

Choices == {"stat", "type", "alternate", "body", "unary_expr", "update_expr", "cast_expr"}
Choice(f, t) ==
  CASE f = "stat"        -> parse_stat(t)
    [] f = "type"        -> parse_type(t)
    [] f = "alternate"   -> parse_if_else(t)
    [] f = "body"        -> body(t)
    [] f = "unary_expr"  -> parse_unary_expr(t)
    [] f = "update_expr" -> parse_update_expr(t)
    [] f = "cast_expr"   -> parse_cast_expr(t)

Functions ==
  DOMAIN Straights \cup DOMAIN Lists \cup DOMAIN Levels \cup Choices \cup
  {"postfixed", "literal"}

-----------------------------------------------------------------------------
(***************************************************************************)
(* The places of a function: pc counts the steps of a straight one; the    *)
(* others use these names.                                                 *)
(***************************************************************************)
Enter == 1
LeftDone == 2     \* a level has its left operand
RightDone == 3    \* and its right one
Loop == 2         \* a list at the head of its loop
Comma == 3        \* behind a comma taken there
Added == 4        \* with an element just parsed

Call(f, k) == frames' = Append([frames EXCEPT ![Len(frames)].pc = k], Frame(f))
Goto(f) == frames' = Append(Pop, Frame(f))
Return(node) ==
  frames' = [Pop EXCEPT ![Len(frames) - 1].kids = Append(@, node)]
At(k) == frames' = [frames EXCEPT ![Len(frames)].pc = k]
Update(f) == frames' = [frames EXCEPT ![Len(frames)] = f]
advance == cursor' = cursor + 1
Fail == error' = TRUE /\ Return(NoNode)          \* parser_set_error, and the function returns

\* A test of the latch follows every call and expectation but three: the one in the
\* parentheses of parse_literal_term, the value of a variable, and the complaint of
\* parse_array_lit itself.
Tests(f) ==
  IF f.fn \in DOMAIN Straights
  THEN /\ f.pc > 1
       /\ Straights[f.fn].steps[f.pc - 1].do \in {"call", "expect", "at", "size"}
       /\ f.fn = "parenthesised" => f.pc # 3
       /\ f.fn = "var_stat" => f.pc <= 8
  ELSE IF f.fn \in DOMAIN Lists THEN f.pc = Added ELSE f.pc > 1

\* Mutant: parse_tokens goes on.
UnwindingInside == error /\ Tests(Top) /\ Top.fn # "program"

Unwinding == error /\ Tests(Top)

\* Does the innermost function look at the token at the cursor next?
Reads(f) ==
  IF f.fn \in DOMAIN Straights
  THEN LET steps == Straights[f.fn].steps IN
       f.pc <= Len(steps) /\ steps[f.pc].do \notin {"call", "check"}
  ELSE IF f.fn \in Statements THEN f.pc = Enter
  ELSE f.fn \in DOMAIN Levels \cup {"postfixed"} => f.pc # Enter
InBounds == Reads(Top) => cursor <= Len(tokens)

-----------------------------------------------------------------------------
\* parser_advance, parser_advance_expect, parser_at_expect, and the tests between them.
Step(s) ==
  LET pc == Top.pc
      next == At(pc + 1)
      kids == Top.kids
      child == kids[Len(kids)].type
  IN
  \/ /\ s.do = "take" /\ advance /\ UNCHANGED error
     /\ Update([Top EXCEPT !.pc = pc + 1, !.tok = IF @ = 0 THEN cursor ELSE @])
  \/ s.do = "expect" /\ advance /\ IF Here = s.arg THEN next /\ UNCHANGED error ELSE Fail
  \/ s.do = "at" /\ UNCHANGED cursor /\ IF Here = s.arg THEN next /\ UNCHANGED error ELSE Fail
  \/ s.do = "call" /\ Call(s.arg, pc + 1) /\ UNCHANGED <<cursor, error>>
  \/ /\ s.do = "when" /\ UNCHANGED <<cursor, error>>
     /\ IF Here = s.arg THEN next ELSE At(Len(Straights[Top.fn].steps) + 1)
  \/ /\ s.do = "size" /\ UNCHANGED <<cursor, error>>
     /\ IF Here # s.arg THEN Call("assign", pc + 1)
        ELSE Update([Top EXCEPT !.pc = pc + 1, !.kids = Append(@, NoNode)])
  \/ /\ s.do = "check" /\ UNCHANGED cursor
     /\ CASE s.arg = "ident" /\ child # "IDENT_LIT"     -> Fail
          [] s.arg = "expression" /\ child = "NONE"      -> Fail
          [] s.arg = "type" /\ child \notin {"MEMBER_EXPR", "ARRAY_TYPE", "IDENT_LIT"} ->
               Return(kids[Len(kids)]) /\ UNCHANGED error
          [] OTHER -> next /\ UNCHANGED error

Straight_Step ==
  /\ Top.fn \in DOMAIN Straights
  /\ Top.pc <= Len(Straights[Top.fn].steps)
  /\ Step(Straights[Top.fn].steps[Top.pc])
  /\ UNCHANGED <<nodes, memory>>

\* The end of a straight function: new_node for the children that are nodes.
Padded(kids, n) ==
  [k \in 1..(IF Len(kids) < n THEN n ELSE Len(kids)) |-> IF k <= Len(kids) THEN kids[k] ELSE NoNode]
new_node(s, kids) ==
  Cardinality({k \in 1..Len(kids) :
    /\ kids[k].type # "LIST"
    /\ ~(s.nullable /\ k = Len(kids) /\ kids[k].type = "NONE")})
Build ==
  /\ Top.fn \in DOMAIN Straights
  /\ LET s == Straights[Top.fn]
         kids == Padded(Top.kids, s.children)
         same == Top.fn = "parenthesised" \/ (Top.fn = "cast" /\ kids[2].type = "NONE")
     IN
     /\ Top.pc > Len(s.steps)
     /\ IF same THEN Return(kids[1]) /\ UNCHANGED nodes
        ELSE /\ Return(Node(s.builds, Top.tok, kids))
             /\ nodes' = nodes + new_node(s, kids)
  /\ UNCHANGED <<cursor, error, memory>>

Choose ==
  /\ Top.fn \in Choices
  /\ Goto(Choice(Top.fn, Here))
  /\ UNCHANGED <<cursor, error, nodes, memory>>

\* Mutant: the semicolon stays where it is.
SemicolonKept == UNCHANGED <<cursor, error>> /\ Return(NoNode)

Semicolon == advance /\ Return(NoNode) /\ UNCHANGED error

\* Mutant: an unexpected token is passed over.
UnexpectedIgnored == advance /\ Return(NoNode) /\ UNCHANGED error

Unexpected == advance /\ Fail

parse_literal_term ==
  /\ Top.fn = "literal"
  /\ CASE Here \in DOMAIN Literals ->
            advance /\ Return(Node(Literals[Here], cursor, <<>>)) /\ UNCHANGED error
       [] Here = "(" -> Goto("parenthesised") /\ UNCHANGED <<cursor, error>>
       [] Here = "[" -> Goto("array_lit") /\ UNCHANGED <<cursor, error>>
       [] Here = LBRACE -> Goto("compound") /\ UNCHANGED <<cursor, error>>
       [] Here = SEMICOLON -> Semicolon
       [] OTHER -> Unexpected
  /\ UNCHANGED <<nodes, memory>>

-----------------------------------------------------------------------------
(***************************************************************************)
(* Expressions.                                                            *)
(***************************************************************************)
Operand ==
  /\ Top.fn \in DOMAIN Levels /\ Top.pc = Enter
  /\ Call(Levels[Top.fn].below, LeftDone)
  /\ UNCHANGED <<cursor, error, nodes, memory>>

\* Mutant: the left operand stays beside the node made of it.
RightOperandBeside(level, left) ==
  frames' = Append(Pop, [Top EXCEPT !.pc = RightDone, !.tok = cursor, !.kids = Append(@, left)])
              \o <<Frame(level.right)>>

RightOperand(level, left) ==
  frames' = Append(Pop, [Top EXCEPT !.pc = RightDone, !.tok = cursor, !.kids = <<left>>])
              \o <<Frame(level.right)>>

\* An operand is there: with a right one the node is made, and all levels but that of
\* assignments look for another operator.
Join ==
  /\ Top.fn \in DOMAIN Levels /\ Top.pc \in {LeftDone, RightDone}
  /\ LET level == Levels[Top.fn]
         joined == Top.pc = RightDone
         left == IF joined THEN Node(level.builds, Top.tok, Top.kids) ELSE Top.kids[1]
         ends == \/ Here \notin level.ops
                 \/ IF Top.fn = "assign" THEN joined ELSE left.type = "NONE"
     IN
     IF joined /\ Top.fn = "member" /\ Top.kids[2].type # "IDENT_LIT"
     THEN Fail /\ UNCHANGED <<cursor, nodes>>
     ELSE /\ nodes' = IF joined THEN nodes + new_node([nullable |-> FALSE], Top.kids) ELSE nodes
          /\ UNCHANGED error
          /\ IF ends THEN Return(left) /\ UNCHANGED cursor
             ELSE /\ RightOperand(level, left)
                  /\ IF Top.fn = "call" THEN UNCHANGED cursor ELSE advance
  /\ UNCHANGED memory

\* Mutant: the operator is read and forgotten.
UpdatedNot == advance /\ nodes' = nodes + 1 /\ Return(Top.kids[1])

Updated ==
  advance /\ nodes' = nodes + 1 /\ Return(Node("UPDATE_EXPR", cursor, Top.kids))

\* parse_update_expr without an operator in front.
Postfix ==
  /\ Top.fn = "postfixed"
  /\ \/ /\ Top.pc = Enter /\ Call("call", LeftDone)
        /\ UNCHANGED <<cursor, nodes>>
     \/ /\ Top.pc = LeftDone
        /\ IF Top.kids[1].type # "NONE" /\ Here \in UpdateOps
           THEN Updated
           ELSE Return(Top.kids[1]) /\ UNCHANGED <<cursor, nodes>>
  /\ UNCHANGED <<error, memory>>

-----------------------------------------------------------------------------
(***************************************************************************)
(* Lists.                                                                  *)
(***************************************************************************)
\* Mutant: the array is not recorded.
new_node_arr_unrecorded ==
  arrays' = arrays /\ live' = live \cup {fresh} /\ fresh' = fresh + 1

\* The header is recorded as it is before the array grows.
new_node_arr ==
  /\ arrays' = Append(arrays, fresh)
  /\ live' = live \cup {fresh}
  /\ fresh' = fresh + 1

Open ==
  /\ Top.fn \in DOMAIN Lists /\ Top.pc = Enter
  /\ advance
  /\ IF Lists[Top.fn].open \in {"any", Here}
     THEN /\ Update([Top EXCEPT !.pc = Loop, !.tok = cursor, !.arr = fresh, !.cap = ArraySize])
          /\ new_node_arr /\ UNCHANGED error
     ELSE Fail /\ UNCHANGED memory
  /\ UNCHANGED nodes

\* What the head of a list's loop finds at the cursor.
Closes == Here = Lists[Top.fn].close /\ (Top.pc = Comma => Top.fn # "args")
TakesComma == Top.fn \in CommaFirst /\ Top.pc = Loop /\ Here = COMMA
Element ==
  IF Top.fn # "switch_block" THEN {Lists[Top.fn].element} ELSE {"case", "default"} \cap {Here}
\* has_default
Default(node) == tokens[node.tok] = "default"
has_default == \E k \in 1..Len(Top.kids) : Default(Top.kids[k])

Close ==
  /\ Top.fn \in DOMAIN Lists \ {"program"} /\ Top.pc \in {Loop, Comma}
  /\ cursor <= Len(tokens) /\ Closes
  /\ advance
  /\ Return(Node(Lists[Top.fn].builds, Top.tok, Top.kids))
  /\ UNCHANGED <<error, nodes, memory>>

Take_Comma ==
  /\ Top.fn \in DOMAIN Lists /\ TakesComma
  /\ advance /\ At(Comma)
  /\ UNCHANGED <<error, nodes, memory>>

Next_Element ==
  /\ Top.fn \in DOMAIN Lists /\ Top.pc \in {Loop, Comma}
  /\ cursor <= Len(tokens) /\ ~Closes /\ ~TakesComma
  /\ \E f \in Element :
       IF f = "default" /\ has_default THEN advance /\ Fail
       ELSE Call(f, Added) /\ UNCHANGED <<cursor, error>>
  /\ UNCHANGED <<nodes, memory>>

\* What follows an element: <<the place to go on at, what is taken, is it an error>>.
Follows ==
  IF Top.fn \in Statements \cup {"switch_block"} \/ Here = Lists[Top.fn].close THEN <<0, FALSE>>
  ELSE IF Here = COMMA THEN <<IF Top.fn \in CommaLast THEN 1 ELSE 0, FALSE>>
  ELSE <<IF Top.fn = "parameters" THEN 1 ELSE 0, TRUE>>

\* add_to_node_arr: a full array doubles, and realloc may move it.
add_to_node_arr(chunk) ==
  /\ LET grows == Len(Top.kids) > Top.cap
         follows == Follows
     IN
     /\ IF grows THEN chunk \in {Top.arr, fresh} ELSE chunk = Top.arr
     /\ live' = (live \ {Top.arr}) \cup {chunk}
     /\ fresh' = IF chunk = fresh THEN fresh + 1 ELSE fresh
     /\ cursor' = cursor + follows[1]
     /\ error' = (error \/ follows[2])
     /\ IF follows[2] /\ Top.fn # "array_lit" THEN Return(NoNode)
        ELSE Update([Top EXCEPT !.pc = Loop, !.arr = chunk, !.cap = IF grows THEN 2 * @ ELSE @])
  /\ UNCHANGED arrays

Add ==
  /\ Top.fn \in DOMAIN Lists /\ Top.pc = Added
  /\ IF Top.fn \in Statements /\ Top.kids[Len(Top.kids)].type = "NONE"
     THEN /\ Update([Top EXCEPT !.pc = Loop, !.kids = SubSeq(@, 1, Len(@) - 1)])
          /\ UNCHANGED <<cursor, error, memory>>
     ELSE \E chunk \in {Top.arr, fresh} : add_to_node_arr(chunk)
  /\ UNCHANGED nodes

-----------------------------------------------------------------------------
Init ==
  /\ tokens \in Sources /\ cursor = 1 /\ error = FALSE
  /\ frames = <<[Frame("program") EXCEPT !.pc = Loop, !.arr = 1, !.cap = ArraySize]>>
  /\ nodes = 0 /\ arrays = <<1>> /\ live = {1} /\ fresh = 2
  /\ status = "run"

\* A function steps.  One allocation too many is written behind the arrays that record them.
Execute ==
  /\ ~Unwinding /\ InBounds
  /\ Straight_Step \/ Build \/ Choose \/ parse_literal_term \/ Operand \/ Join \/ Postfix
       \/ Open \/ Close \/ Take_Comma \/ Next_Element \/ Add
  /\ status' = IF nodes' > MaxNodes \/ Len(arrays') > MaxArrays THEN "overflow" ELSE "run"
  /\ UNCHANGED tokens

Return_Error ==
  /\ Unwinding /\ Len(frames) > 1
  /\ Return(NoNode)
  /\ UNCHANGED <<tokens, cursor, error, nodes, memory, status>>

Overread ==
  /\ ~Unwinding /\ ~InBounds /\ status' = "overread"
  /\ UNCHANGED <<tokens, cursor, error, frames, nodes, memory>>

\* parse_block runs out of tokens and takes the position of a token it never found.
Block_Cut ==
  /\ Top.fn = "block" /\ Top.pc = Loop /\ cursor > Len(tokens)
  /\ status' = "crash"
  /\ UNCHANGED <<tokens, cursor, error, frames, nodes, memory>>

\* parse_tokens returns.
Program_Ends ==
  /\ Len(frames) = 1
  /\ \/ /\ Unwinding /\ status' = "refused" /\ live' = live \ {Top.arr}
     \/ /\ Top.pc = Loop /\ (cursor > Len(tokens) \/ Here = "EOF")
        /\ status' = "accepted" /\ UNCHANGED live
  /\ UNCHANGED <<tokens, cursor, error, frames, nodes, arrays, fresh>>

ParseNext ==
  status = "run" /\ (Execute \/ Return_Error \/ Overread \/ Block_Cut \/ Program_Ends)

\* interpret calls it after an error, and at its end.  The chunks it frees must be allocated.
free_parser ==
  /\ status \in {"accepted", "refused"}
  /\ LET recorded == {arrays[k] : k \in 1..Len(arrays)} IN
     /\ status' = IF recorded \subseteq live THEN "freed" ELSE "corrupt"
     /\ live' = live \ recorded
  /\ UNCHANGED <<tokens, cursor, error, frames, nodes, arrays, fresh>>

Next == ParseNext \/ free_parser

\* The parser is called and runs.
Spec == Init /\ [][Next]_vars /\ WF_vars(ParseNext)

-----------------------------------------------------------------------------
(***************************************************************************)
(* Properties.                                                             *)
(***************************************************************************)
Ended == status # "run"
Root == frames[1]
Contains(types) == \E k \in 1..Len(tokens) : tokens[k] \in types

\* Types: parse_tokens stays the outermost call; all calls are functions of the parser,
\* and each gives its caller one node; the cursor runs at most one token past the end.
ParserTypeOK ==
  /\ cursor \in 1..(Len(tokens) + 1) /\ error \in BOOLEAN /\ nodes \in Nat
  /\ frames # <<>> /\ Root.fn = "program"
  /\ \A k \in 2..Len(frames) : frames[k].fn \in Functions \ {"program"}
  /\ Top.fn \in DOMAIN Levels => Len(Top.kids) = Top.pc - 1
  /\ status \in {"run", "accepted", "refused", "freed", "corrupt",
                 "crash", "overread", "overflow"}

(***************************************************************************)
(* The memory of the node arrays: until free_parser there is one allocated *)
(* chunk for each recorded array, and the lists being read have one each   *)
(* (new_node_arr, add_to_node_arr); after it nothing is left, unless what  *)
(* was recorded is stale: the program was refused, and its own array freed *)
(* already, or an array has moved and its last chunk is never freed.       *)
(***************************************************************************)
Filling == {k \in 1..Len(frames) : frames[k].fn \in DOMAIN Lists /\ frames[k].pc > Enter}
MemoryAccounted ==
  /\ status \in {"run", "accepted"} =>
       /\ Cardinality(live) = Len(arrays)
       /\ \A k \in Filling : frames[k].arr \in live
       /\ \A j, k \in Filling : frames[j].arr = frames[k].arr => j = k
  /\ status = "freed" => live = {} /\ ~error
  /\ status = "corrupt" => error \/ live # {}

(***************************************************************************)
(* TODO.md:22-24 "[x] Create a free system for node tree", by "recording   *)
(* every AST allocation to free later": free_parser frees what is          *)
(* allocated, and nothing twice.                                           *)
(***************************************************************************)
FreedOnce == status # "corrupt"

(***************************************************************************)
(* The parser reads behind the last token only after an error, in the      *)
(* parentheses of parse_literal_term, or behind a switch whose opening     *)
(* brace it takes without looking; a block is cut off without an error     *)
(* only behind case or default, for the same reason.                       *)
(***************************************************************************)
StaysInBounds ==
  /\ status = "overread" => error \/ Contains({"switch"})
  /\ status = "crash" => ~error /\ Contains({"case", "default"})

(***************************************************************************)
(* What the loops take as a statement is all there is: a program is        *)
(* accepted at its last token, without an error on the way.                *)
(***************************************************************************)
ReadToTheEnd ==
  status = "accepted" => ~error /\ cursor = Len(tokens)

(***************************************************************************)
(* parse_tokens ends, for any sequence of tokens, but for one place:       *)
(* parse_switch_block goes round without a step at a token that begins     *)
(* neither a case nor the end of the block.                                *)
(***************************************************************************)
Spins ==
  /\ Top.fn = "switch_block" /\ Top.pc = Loop /\ cursor <= Len(tokens)
  /\ Here \notin {"case", "default", RBRACE}
ParsingEnds == <>(Ended \/ Spins)
=============================================================================
