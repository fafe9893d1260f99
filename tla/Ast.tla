--------------------------------- MODULE Ast ---------------------------------
(***************************************************************************)
(* The syntax tree the parser hands to the later stages (ast.h, parser.h). *)
(* Every node is one record: its type, its name (an identifier, or the     *)
(* name a statement declares), aux (an operator or a type name), num (a    *)
(* literal), params and types (the names and type names of the parameters  *)
(* of a function or the fields of a struct, the names of the entries of an *)
(* enum), and its children in the order the evaluator takes them.  A NULL  *)
(* child pointer is the node Null.                                         *)
(***************************************************************************)
EXTENDS Integers, Sequences

Node(type, name, aux, num, kids) ==
  [type |-> type, name |-> name, aux |-> aux, num |-> num,
   params |-> <<>>, types |-> <<>>, kids |-> kids]

Plain(type, kids) == Node(type, "", "", 0, kids)

Null == Plain("NULL", <<>>)

\* Expressions
IntLit(n)        == Node("INTEGER_LIT", "", "", n, <<>>)
FloatLit(n)      == Node("FLOAT_LIT", "", "", n, <<>>)    \* n units
Ident(x)         == Node("IDENT_LIT", x, "", 0, <<>>)
Str              == Plain("STRING_LIT", <<>>)
Array(elements)  == Plain("ARRAY_LIT", elements)
Missing          == Plain("NONE", <<>>)    \* where the parser has found no expression
Bin(l, op, r)    == Node("BIN_EXPR", "", op, 0, <<l, r>>)
Unary(op, e)     == Node("UN_EXPR", "", op, 0, <<e>>)
Update(op, e)    == Node("UPDATE_EXPR", "", op, 0, <<e>>)
Assign(x, op, e) == Node("ASSIGN_EXPR", x, op, 0, <<Ident(x), e>>)
CastTo(type, e)  == Node("CAST_EXPR", "", type, 0, <<e>>)
Call(f, args)    == Plain("CALL_EXPR", <<Ident(f)>> \o args)
Compound(fields) == Plain("COMPOUND_LIT", fields)

\* Statements
Var(x, type, e)  == Node("VAR_STAT", x, type, 0, <<e>>)
Return(e)        == Plain("RETURN_STAT", <<e>>)
Break            == Plain("BREAK_STAT", <<>>)
Continue         == Plain("CONTINUE_STAT", <<>>)
Defer(e)         == Plain("DEFER_STAT", <<e>>)
If(c, body)      == Plain("IF_STAT", <<c, body, Null>>)
IfElse(c, b, a)  == Plain("IF_STAT", <<c, b, a>>)
While(c, body)   == Plain("WHILE_STAT", <<c, body>>)
Block(stats)     == Plain("BLOCK", stats)
Fn(f, ps, ts, body) ==
  [Node("FUNC_STAT", f, "", 0, <<Block(body)>>) EXCEPT !.params = ps, !.types = ts]
Func(f, ps, body) == Fn(f, ps, [k \in 1..Len(ps) |-> "i32"], body)
Struct(T, fs, ts) ==
  [Node("STRUCT_STAT", T, "", 0, <<>>) EXCEPT !.params = fs, !.types = ts]
Enum(E, es, values) ==
  [Node("ENUM_STAT", E, "", 0, values) EXCEPT !.params = es]
Program(stats)   == Plain("PROGRAM", stats)
=============================================================================
