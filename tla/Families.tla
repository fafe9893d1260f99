------------------------------- MODULE Families -------------------------------
(***************************************************************************)
(* Programs for the runs.  A family is a sequence of syntax trees and the  *)
(* memory they occupy.                                                     *)
(***************************************************************************)
EXTENDS Integers, Sequences, Ast, Values

\* The 8- and 16-bit types have their width, the wider ones all that the
\* programs below need (TLC's integers have 32 bits).
MCModulus ==
  [t \in IntTypes |-> CASE t \in {"i8", "u8"} -> 256
                        [] t \in {"i16", "u16"} -> 65536
                        [] t \in {"i32", "u32"} -> 2^24
                        [] t \in {"i64", "u64"} -> 2^28]

MCNames == {"", "null", "false", "true", "main", "a", "b", "f", "g", "h", "p", "x", "T"}

(***************************************************************************)
(* Trees in memory.  A family is a sequence of programs; its k-th program  *)
(* is listed depth first at the addresses (k-1) * Page + 1 onwards, and    *)
(* what is left of the page holds Null.                                    *)
(***************************************************************************)
Page == 80

RECURSIVE Listing(_, _), Siblings(_, _)
Listing(tree, at) ==
  LET below == Siblings(tree.kids, at + 1) IN
  <<[tree EXCEPT !.kids = below.places]>> \o below.nodes
Siblings(kids, at) ==
  IF kids = <<>> THEN [places |-> <<>>, nodes |-> <<>>]
  ELSE LET first == Listing(Head(kids), at)
           rest == Siblings(Tail(kids), at + Len(first)) IN
       [places |-> <<at>> \o rest.places, nodes |-> first \o rest.nodes]

Listings(family) ==
  [k \in 1..Len(family) |-> Listing(family[k], (k - 1) * Page + 1)]
Memory(listings) ==
  [n \in 1..(Len(listings) * Page) |->
     LET listing == listings[1 + (n - 1) \div Page]
         place == 1 + ((n - 1) % Page) IN
     IF place <= Len(listing) THEN listing[place] ELSE Null]
Roots(listings) == {(k - 1) * Page + 1 : k \in 1..Len(listings)}

-----------------------------------------------------------------------------
add(x, n) == Assign(x, "+=", IntLit(n))
times(x, n) == Assign(x, "*=", IntLit(n))
less(x, n) == Bin(Ident(x), "<", IntLit(n))

(***************************************************************************)
(* Jumps: main calls f, whose body registers a defer, then contains a      *)
(* block, an if or a loop around two simple statements and a jump.  g      *)
(* returns and h does not, and a call of either may be a statement.        *)
(*   var a: i32 = 1; var b: i32 = 0;                                       *)
(*   fn g(x: i32): i32 { defer a += 1; a += x; return a; }                 *)
(*   fn h(x: i32, p: i32): i32 { a += x; b += p; }                         *)
(*   fn f(p: i32): i32 { defer a += 10; <inner>; return a + p; }           *)
(*   fn main(): i32 { b = f(2); g(b); a += 1000; }                         *)
(***************************************************************************)
WithMain(body) ==
  Program(<<Var("a", "i32", IntLit(1)), Var("b", "i32", IntLit(0)),
            Func("g", <<"x">>, <<Defer(add("a", 1)), Assign("a", "+=", Ident("x")),
                                 Return(Ident("a"))>>),
            Func("h", <<"x", "p">>, <<Assign("a", "+=", Ident("x")), Assign("b", "+=", Ident("p"))>>),
            Func("f", <<"p">>, body),
            Func("main", <<>>, <<Assign("b", "=", Call("f", <<IntLit(2)>>)),
                                 Call("g", <<Ident("b")>>), add("a", 1000)>>)>>)

Simple ==
  <<Defer(times("a", 2)), Defer(Assign("b", "=", Call("g", <<IntLit(3)>>))),
    Assign("a", "=", Ident("p")), Var("a", "i32", Ident("p")), Call("g", <<Ident("b")>>),
    Call("h", <<Call("g", <<Ident("b")>>), Call("g", <<IntLit(2)>>)>>)>>

Jump == << <<Return(Ident("a"))>>, <<Break>>, <<Continue>>, <<>> >>

Shaped(shape, block) ==
  CASE shape = "block" -> block
    [] shape = "if" -> IfElse(less("p", 2), Block(<<add("a", 100)>>), block)
    [] shape = "loop" -> While(less("p", 4), Block(<<add("p", 1), block>>))
    [] shape = "guarded loop" ->
         While(less("p", 5), Block(<<add("p", 1), If(less("p", 4), block)>>))
Shapes == <<"block", "if", "loop", "guarded loop">>

\* All combinations of a shape, two simple statements and a jump: the digits of the
\* program's number, to the bases 4, 6, 6 and 4.
ShapeOf(k) == Shapes[1 + (k % 4)]
SimpleOf(k, d) == Simple[1 + ((k \div (4 * 6^d)) % 6)]
JumpOf(k) == Jump[1 + (k \div 144)]

JumpProgram(k) ==
  WithMain(<<Defer(add("a", 10)),
             Shaped(ShapeOf(k), Block(<<SimpleOf(k, 0), SimpleOf(k, 1)>> \o JumpOf(k))),
             Return(Bin(Ident("a"), "+", Ident("p")))>>)

JumpListings == Listings([k \in 1..576 |-> JumpProgram(k - 1)])
JumpNodes == 1..(576 * Page)
JumpData == LET listings == JumpListings IN Memory(listings)

\* Those whose break and continue stand in a loop.
JumpPrograms ==
  {n \in Roots(JumpListings) :
     LET k == n \div Page IN
     JumpOf(k) \in {<<Break>>, <<Continue>>} => ShapeOf(k) \in {"loop", "guarded loop"}}

-----------------------------------------------------------------------------
(***************************************************************************)
(* Cases: the ends a program can come to.  The semantics stage stops       *)
(* checking a block after its first if statement, so what it would refuse  *)
(* reaches the interpreter behind one.                                     *)
(***************************************************************************)
Case(decls, main) ==
  Program(<<Var("a", "i32", IntLit(1))>> \o decls \o <<Func("main", <<>>, main)>>)
set(e) == Assign("a", "=", e)
unchecked == If(Ident("false"), Block(<<set(IntLit(2))>>))
f(ps, body) == Func("f", ps, body)
Entry(x, e) == Assign(x, "=", e)

Regular == <<
  \* struct values: a literal with its fields out of order, none at all, a call
  Case(<<Struct("T", <<"a", "b">>, <<"u8", "bool">>), f(<<"p">>, <<set(IntLit(7))>>)>>,
       <<unchecked,
         Var("x", "T", Compound(<<Entry("b", Call("f", <<IntLit(1)>>)), Entry("a", IntLit(3))>>))>>),
  Case(<<Struct("T", <<"a">>, <<"i8">>)>>, <<Var("x", "T", Null), set(Unary("-", Ident("a")))>>),
  Case(<<Enum("p", <<"b">>, <<Null>>), Struct("T", <<"a", "b">>, <<"i32", "p">>),
         f(<<"p">>, <<Struct("x", <<>>, <<>>)>>)>>,
       <<unchecked, Var("x", "T", Compound(<<Entry("a", Call("f", <<IntLit(1)>>))>>))>>),
  \* casts and 8-bit arithmetic at the edge
  Case(<<>>, <<Var("b", "u8", CastTo("u8", IntLit(300))), add("b", 200), add("b", 100)>>),
  Case(<<>>, <<Var("b", "i8", CastTo("i8", IntLit(127))), add("b", 1),
               Assign("b", "-=", IntLit(1)), set(Unary("!", Ident("b")))>>),
  Case(<<>>, <<Var("b", "u8", CastTo("u8", IntLit(5))),
               While(Bin(Ident("b"), ">", IntLit(3)),
                     Block(<<Assign("b", "-=", IntLit(1)), Assign("a", "*=", IntLit(3))>>)),
               Assign("a", "%=", IntLit(2))>>),
  \* floats: cut off, out of range, never true
  Case(<<Var("b", "f32", FloatLit(6))>>,
       <<Assign("b", "*=", FloatLit(-5)), set(Ident("b")), Var("x", "f64", CastTo("f64", IntLit(3))),
         Assign("x", "/=", FloatLit(2)), set(CastTo("u8", Unary("-", Ident("x")))),
         While(Bin(Ident("x"), "<=", FloatLit(28)), Block(<<add("x", 1)>>)),
         IfElse(FloatLit(4), Block(<<set(IntLit(0))>>), Block(<<set(CastTo("i8", Unary("-", Ident("b"))))>>)) >>),
  \* statements at the top level and in main share the global scope
  Case(<<add("a", 5), Defer(add("a", 7)), Return(Ident("a")), Break, Continue>>,
       <<add("a", 2), Defer(times("a", 2)), Return(Ident("a"))>>),
  \* defers of several scopes at once, between other statements and behind a jump
  Case(<<f(<<"p">>, <<Defer(add("a", 1)),
                      While(less("p", 2), Block(<<Defer(times("a", 2)), add("p", 1), Block(<<Defer(add("a", 3))>>),
                                                  Break, Defer(set(Ident("b")))>>)),
                      Defer(set(Ident("p"))), Return(Ident("p"))>>), Var("b", "i32", IntLit(3))>>,
       <<Defer(set(Call("f", <<IntLit(1)>>))), set(Call("f", <<IntLit(0)>>)), Return(Ident("a"))>>),
  \* functions inside blocks and calls, and a function that returns none
  Case(<<>>, <<Block(<<Func("g", <<>>, <<Return(IntLit(4))>>), set(Call("g", <<>>))>>),
               set(Bin(Ident("a"), "==", IntLit(4)))>>) >>

Many == <<"a", "b", "f", "g", "p", "x", "a", "b", "f", "g">>

Failing == <<
  Case(<<>>, <<Var("x", "i32", Null)>>),
  Case(<<f(<<"p">>, <<Return(Null)>>)>>, <<set(Call("f", <<IntLit(1)>>))>>),
  Case(<<>>, <<unchecked, set(Str)>>),
  Case(<<>>, <<Defer(add("a", 1)), set(Bin(Ident("a"), "/", IntLit(0)))>>),
  Case(<<>>, <<unchecked, Plain("CALL_EXPR", <<Plain("MEMBER_EXPR", <<>>)>>)>>),
  Case(<<>>, <<unchecked, Call("a", <<>>)>>),
  Program(<<Var("a", "i32", IntLit(1))>>),
  Case(<<f(<<"p">>, <<Return(Ident("p"))>>)>>, <<unchecked, set(Call("f", <<IntLit(1), IntLit(2)>>))>>),
  Case(<<f(<<"p">>, <<add("a", 0), set(Ident("p"))>>)>>, <<set(Call("f", <<>>))>>),
  Case(<<f(<<"p">>, <<Return(Call("f", <<Ident("a")>>))>>)>>, <<set(Call("f", <<IntLit(1)>>))>>),
  Case(<<Struct("T", <<"a">>, <<"u8">>)>>, <<unchecked, Var("x", "T", IntLit(5))>>),
  Case(<<>>, <<set(CastTo("f", IntLit(3)))>>),
  Case(<<>>, <<set(CastTo(MemberType, Str))>>),
  Case(<<>>, <<set(Bin(IntLit(0), "-", IntLit(8388607))), Assign("a", "-=", IntLit(1)),
               set(Bin(Ident("a"), "/", Bin(IntLit(0), "-", IntLit(1))))>>),
  Case(<<>>, <<unchecked, Assign("b", "=", IntLit(4))>>),
  Case(<<>>, <<unchecked, Plain("SWITCH_STAT", <<>>)>>),
  Case(<<>>, <<unchecked, Update("++", Ident("a"))>>),
  Case(<<>>, <<unchecked, Array(<<Ident("a")>>)>>),
  Case(<<>>, <<unchecked, set(Bin(Ident("a"), "+", Missing))>>),
  \* a divisor that becomes zero with the type of the dividend
  Case(<<>>, <<set(Bin(IntLit(5), "/", FloatLit(2)))>>),
  \* one declaration, parameter or defer too many
  Case(<<>>, <<Block(<<unchecked>> \o [k \in 1..10 |-> Var("x", "i32", Ident("a"))])>>),
  Case(<<>>, <<Block([k \in 1..10 |-> Func("g", <<>>, <<>>)])>>),
  Case(<<>>, <<unchecked, f(Many, <<>>)>>),
  Case(<<>>, <<Block([k \in 1..4 |-> Defer(add("a", k))]), add("a", 1)>>) >>

CaseListings == Listings(Regular \o Failing)
CaseNodes == 1..(Len(CaseListings) * Page)
CaseData == LET listings == CaseListings IN Memory(listings)
CasePrograms == Roots(CaseListings)
=============================================================================
