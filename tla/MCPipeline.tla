------------------------------ MODULE MCPipeline ------------------------------
(***************************************************************************)
(* Both stages on the programs of Families and on some whose global scope  *)
(* is made in an unusual way.                                              *)
(***************************************************************************)
EXTENDS Soundness, Families

TwoTypes == <<Struct("T", <<"a">>, <<"u8">>), Struct("T", <<"a", "b">>, <<"bool", "i64">>)>>

Staged == <<
  \* a name declared twice, with two types, and a preloaded name declared again
  Case(<<Var("b", "u8", Ident("true")), Var("b", "i32", IntLit(3)), Var("true", "i32", IntLit(4))>>,
       <<add("b", 1), set(Ident("true"))>>),
  \* a type declared twice, and used in a variable without a value
  Case(TwoTypes \o <<Var("x", "T", Null)>>, <<Var("b", "T", Null), add("a", 1)>>),
  \* types whose names are those of functions, enums and variables
  Case(<<Enum("x", <<"g">>, <<IntLit(3)>>), Func("T", <<"p">>, <<Return(IntLit(1))>>),
         Struct("T", <<"a">>, <<"x">>), Struct("b", <<"a", "p">>, <<"x", "T">>), Var("T", "b", Null)>>,
       <<Var("b", "b", Null), set(IntLit(2))>>),
  \* types and variables of inner scopes, gone when the interpreter starts
  Case(<<f(<<"p">>, <<Struct("T", <<"a">>, <<"i8">>), Var("b", "T", Null), Return(Ident("p"))>>),
         Struct("T", <<"a", "b">>, <<"i16", "u64">>)>>,
       <<Block(<<Var("b", "i32", IntLit(2)), Struct("x", <<>>, <<>>)>>), Var("p", "T", Null)>>),
  \* what a call calls has no name
  Case(<<f(<<"p">>, <<Return(Ident("p"))>>)>>,
       <<set(Plain("CALL_EXPR", <<Bin(Ident("a"), "+", IntLit(1)), IntLit(2)>>))>>),
  \* an error, after which nothing is interpreted
  Case(<<set(Ident("g"))>>, <<set(IntLit(1))>>) >>

-----------------------------------------------------------------------------
(***************************************************************************)
(* Functions and mains to combine: the first four of each are careful, one *)
(* of them with an error to be found; each of the others goes past one of  *)
(* the checks that the conditions of Careful stand for.                    *)
(***************************************************************************)
Bodies == <<
  <<Return(Ident("p"))>>,
  <<Defer(add("a", 1)), While(less("a", 3), Block(<<add("a", 1), Break>>)),
    Return(Bin(Ident("a"), "/", IntLit(2)))>>,
  <<IfElse(less("p", 2), Block(<<Return(CastTo("u8", Ident("a")))>>),
           Block(<<Assign("a", "-=", IntLit(1)), Return(Call("f", <<Ident("a")>>))>>))>>,
  <<Return(Bin(Ident("p"), "-", Ident("g")))>>,
  <<Var("x", "i32", Ident("p"))>> >>

Mains == <<
  <<set(Bin(Call("f", <<IntLit(2)>>), "*", Ident("a"))), Return(Ident("a"))>>,
  <<Var("x", "i8", Call("f", <<Bin(IntLit(3), "*", Ident("a"))>>)),
    Block(<<Defer(set(Ident("x"))), Var("x", "bool", less("x", 9))>>)>>,
  <<Block(<<Var("x", "i32", IntLit(1))>>), set(Bin(Ident("a"), "+", Ident("x")))>>,
  <<IfElse(Ident("true"), Block(<<set(Call("f", <<Ident("a")>>))>>), Block(<<add("b", 1)>>))>>,
  <<Block(<<Var("x", "i32", IntLit(3)), set(Call("f", <<Ident("x")>>))>>)>>,
  <<Block(<<Var("a", "i32", Bin(Ident("a"), "+", IntLit(1)))>>)>>,
  <<set(Bin(CastTo("u8", Ident("g")), "+", IntLit(1)))>>,
  <<Update("++", Ident("a"))>>,
  <<Assign("g", "=", IntLit(1))>>,
  <<set(Call("f", <<>>))>>,
  <<Block(<<Var("f", "i32", IntLit(3)), set(Call("f", <<IntLit(1)>>))>>)>>,
  <<unchecked, set(Ident("g"))>> >>

Combinations ==
  [k \in 1..(Len(Bodies) * Len(Mains)) |->
     Case(<<f(<<"p">>, Bodies[1 + (k - 1) \div Len(Mains)])>>, Mains[1 + ((k - 1) % Len(Mains))])]

StagedListings == Listings(Staged \o Regular \o Failing \o Combinations)
StagedNodes == 1..(Len(StagedListings) * Page)
StagedData == LET listings == StagedListings IN Memory(listings)
StagedPrograms == Roots(StagedListings)
=============================================================================
