------------------------------- MODULE MCClaims -------------------------------
(***************************************************************************)
(* One small program for each claim of Claims.  All pass the semantics     *)
(* stage.                                                                  *)
(***************************************************************************)
EXTENDS Claims, Families

Contested == <<
  \* fn f(p: i32): i32 { while (p < 6) { p += 1; if (p == 4) { break; } a += p; } return a; }
  Case(<<f(<<"p">>, <<While(less("p", 6), Block(<<add("p", 1),
                             If(Bin(Ident("p"), "==", IntLit(4)), Block(<<Break>>)),
                             Assign("a", "+=", Ident("p"))>>)),
                      Return(Ident("a"))>>)>>,
       <<set(Call("f", <<IntLit(1)>>))>>),
  \* fn g(x: i32): i32 { return x; }  fn f(p: i32): i32 { return g(p); }
  Case(<<Func("g", <<"x">>, <<Return(Ident("x"))>>),
         f(<<"p">>, <<Return(Call("g", <<Ident("p")>>))>>)>>,
       <<set(Call("f", <<IntLit(1)>>))>>),
  \* fn f(p: i32): i32 { b = 9; return p; }  fn main(): i32 { var b: i32 = 5; a = f(1); }
  Case(<<f(<<"p">>, <<Assign("b", "=", IntLit(9)), Return(Ident("p"))>>)>>,
       <<Var("b", "i32", IntLit(5)), set(Call("f", <<IntLit(1)>>))>>) >>

ContestedListings == Listings(Contested)
ContestedNodes == 1..(Len(ContestedListings) * Page)
ContestedData == LET listings == ContestedListings IN Memory(listings)
ContestedPrograms == Roots(ContestedListings)
=============================================================================
