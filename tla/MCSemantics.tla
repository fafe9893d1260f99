----------------------------- MODULE MCSemantics -----------------------------
(***************************************************************************)
(* The semantics stage on programs it accepts, refuses and does not        *)
(* survive.  The ones of Families are all accepted.                        *)
(***************************************************************************)
EXTENDS Semantics, Families

fn(ps, ts, body) == Fn("f", ps, ts, body)
var(x) == Var(x, "i32", IntLit(1))
loop(body) == While(Ident("true"), Block(body))

Judged == <<
  \* scopes that end in an error, at several depths, and statements after them
  Case(<<fn(<<"p">>, <<"i32">>, <<var("b"), Block(<<var("x"), set(Ident("g"))>>)>>), set(Ident("x"))>>,
       <<set(Ident("p")), var("x")>>),
  Case(<<fn(<<"p">>, <<"i32">>, <<loop(<<var("x"), Var("b", "T", Ident("x"))>>), set(Ident("x"))>>),
         Var("b", "i32", Ident("g")), set(Ident("b"))>>,
       <<loop(<<Block(<<var("x")>>), set(Ident("x"))>>)>>),
  \* what an if statement hides, and what it does not
  Case(<<>>, <<If(Ident("x"), Block(<<>>)), set(Ident("g"))>>),
  Case(<<>>, <<IfElse(Ident("a"), Block(<<set(Ident("a"))>>), Block(<<set(Ident("x"))>>))>>),
  Case(<<IfElse(Ident("a"), Block(<<var("x")>>), If(Ident("a"), Block(<<>>))), set(Ident("x"))>>, <<>>),
  \* types: unknown ones, local ones, shadowed ones, functions as types
  Case(<<Struct("T", <<"a">>, <<"x">>), fn(<<"p">>, <<"T">>, <<>>), Var("b", "T", Null)>>,
       <<Block(<<Struct("T", <<"a", "b">>, <<"bool", "i64">>), Var("x", "T", Null)>>),
         Block(<<Struct("T", <<"a">>, <<"x">>), Defer(set(Ident("a")))>>), Var("x", "T", Null)>>),
  Case(<<fn(<<"p", "p">>, <<"i32", "u8">>, <<Return(Call("f", <<Ident("p"), Ident("p")>>))>>)>>, <<>>),
  Case(<<Struct("T", <<"a">>, <<"i8">>),
         fn(<<"p">>, <<"T">>, <<Struct("T", <<>>, <<>>), Call("f", <<Ident("p")>>)>>)>>,
       <<Var("x", "f", Null), Var("b", "T", Null), Call("f", <<Ident("b")>>), Call("f", <<Ident("x")>>)>>),
  \* enums: entries with values, from variables, from nothing, and failing ones
  Case(<<Enum("T", <<"a", "b">>, <<Null, Bin(IntLit(2), "+", Unary("-", Ident("a")))>>),
         fn(<<"p">>, <<"T">>, <<>>), Var("x", "T", IntLit(1))>>, <<Call("f", <<Ident("x")>>)>>),
  Case(<<Enum("T", <<"a", "b">>, <<IntLit(1), Ident("g")>>), Var("x", "T", Null)>>, <<>>),
  Case(<<Enum("T", <<"a">>, <<Bin(IntLit(1), "/", Ident("null"))>>)>>, <<>>),
  Case(<<Enum("T", <<"a">>, <<Call("f", <<>>)>>)>>, <<>>),
  Case(<<Enum("T", <<"a">>, <<Bin(FloatLit(2), "*", IntLit(3))>>)>>, <<>>),
  Case(<<Enum("T", <<"a">>, <<Bin(Ident("g"), "+", IntLit(1))>>)>>, <<>>),
  Case(<<Enum("T", <<"a">>, <<Unary("!", Ident("g"))>>), set(Ident("T"))>>, <<>>),
  \* calls: matching, casts, mismatches, too many and too few arguments
  Case(<<fn(<<"p", "x">>, <<"u8", "i32">>, <<Return(Null)>>)>>,
       <<Call("f", <<CastTo("u8", Ident("g")), Bin(Ident("a"), "+", Ident("true"))>>),
         Call("f", <<Ident("true"), Assign("a", "=", Unary("-", IntLit(1)))>>),
         Call("f", <<Ident("false")>>), Call("f", <<IntLit(1), IntLit(2)>>)>>),
  Case(<<fn(<<"p", "x">>, <<"f32", "i32">>, <<>>)>>,
       <<Call("f", <<Unary("-", FloatLit(2)), Update("--", Ident("a"))>>),
         Call("f", <<Bin(FloatLit(2), "+", Ident("a")), Bin(Ident("a"), "+", FloatLit(2))>>),
         Call("f", <<Bin(Ident("a"), "+", FloatLit(2)), IntLit(1)>>)>>),
  Case(<<fn(<<"p">>, <<"i32">>, <<>>)>>, <<Call("f", <<IntLit(1), Ident("a")>>)>>),
  Case(<<fn(<<"p">>, <<"i32">>, <<>>)>>, <<Call("f", <<Call("f", <<IntLit(1)>>)>>)>>),
  Case(<<fn(<<"p">>, <<"i32">>, <<>>)>>, <<Call("f", <<CastTo("x", IntLit(1))>>)>>),
  Case(<<fn(<<>>, <<>>, <<>>)>>, <<Call("a", <<>>), Break, Continue>>),
  Case(<<fn(<<>>, <<>>, <<>>), Plain("CALL_EXPR", <<Assign("f", "=", IntLit(1))>>),
         Plain("CALL_EXPR", <<Call("f", <<>>)>>),
         Plain("CALL_EXPR", <<Node("STRING_LIT", "f", "", 0, <<>>)>>)>>, <<>>),
  \* what process_node does not handle
  Case(<<>>, <<set(Str)>>),
  Case(<<>>, <<set(Update("++", Array(<<IntLit(1)>>)))>>),
  Case(<<>>, <<set(Bin(IntLit(1), "+", Missing))>>),
  Case(<<>>, <<While(Ident("true"), Null)>>),
  Case(<<>>, <<loop(<<Plain("SWITCH_STAT", <<>>)>>)>>),
  \* the limits of a scope, of the type table and of the error list
  Case(<<>>, <<Block([k \in 1..10 |-> var("x")])>>),
  Case(<<fn(Many, [k \in 1..10 |-> "i32"], <<>>)>>, <<>>),
  Case(<<fn(Many, [k \in 1..10 |-> IF k = 10 THEN "T" ELSE "i32"], <<>>)>>, <<>>),
  Case([k \in 1..4 |-> Struct("T", <<>>, <<>>)], <<>>),
  Case([k \in 1..4 |-> Enum("T", <<>>, <<>>)], <<>>),
  Case([k \in 1..4 |-> fn(<<>>, <<>>, <<>>)], <<>>),
  Case([k \in 1..5 |-> set(Ident("g"))], <<>>) >>

JudgedListings == Listings(Judged \o Regular \o Failing)
JudgedNodes == 1..(Len(JudgedListings) * Page)
JudgedData == LET listings == JudgedListings IN Memory(listings)
JudgedPrograms == Roots(JudgedListings)
=============================================================================
