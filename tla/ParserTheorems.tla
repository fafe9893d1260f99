--------------------------- MODULE ParserTheorems ---------------------------
(***************************************************************************)
(* Proofs about the parser for every sequence of tokens and every limit:   *)
(* it reads a program to its last token and not beyond, except where the   *)
(* code takes a token without looking, and the memory of the node arrays   *)
(* is accounted for.  A step stays in the innermost function, calls        *)
(* another, becomes another, or returns; each move keeps what is known of  *)
(* the calls.                                                              *)
(***************************************************************************)
EXTENDS Parser, TLAPS, FiniteSetTheorems, SequenceTheorems

-----------------------------------------------------------------------------
(***************************************************************************)
(* The inductive invariant.  It is stated of a stack q of calls, a cursor  *)
(* c and a latch e, so that the lemmas hold for both states of a step.     *)
(***************************************************************************)
Items(s)  == {s[k] : k \in DOMAIN s}
Listed(s) == s \in Seq(Items(s))
Steps(f)  == Straights[f.fn].steps
Sees(c, t) == c <= Len(tokens) /\ tokens[c] = t

Whole(f) ==
  /\ f = [fn |-> f.fn, pc |-> f.pc, tok |-> f.tok, kids |-> f.kids, arr |-> f.arr, cap |-> f.cap]
  /\ f.fn \in Functions /\ f.pc \in Nat \ {0} /\ Listed(f.kids)

\* switch, case and default are only parsed where the word is.
Spoken(f) ==
  /\ f.fn \in {"switch_stat", "switch_block"} => Contains({"switch"})
  /\ f.fn \in {"case", "default"} => Contains({"case", "default"})

\* A caller has one call behind it, and the child of that call still to come.
Waits(f) ==
  /\ f.fn \in DOMAIN Straights =>
       /\ f.pc > 1 /\ f.pc <= Len(Steps(f)) + 1
       /\ Steps(f)[f.pc - 1].do \in {"call", "size"}
  /\ f.fn \in DOMAIN Lists => f.pc = Added
  /\ f.fn \in DOMAIN Levels => f.pc \in {LeftDone, RightDone} /\ Len(f.kids) = f.pc - 2
  /\ f.fn = "postfixed" => f.pc = LeftDone
  /\ f.fn \notin Choices \cup {"literal"}

\* The innermost function takes without looking only what has been looked at.
Runs(f, c) ==
  /\ f.fn \in DOMAIN Straights =>
       /\ f.pc <= Len(Steps(f)) + 1
       /\ f.pc <= Len(Steps(f)) =>
            /\ Steps(f)[f.pc].do = "take" => c <= Len(tokens) /\ tokens[c] # "EOF"
            /\ Steps(f)[f.pc].do = "call" /\ Steps(f)[f.pc].arg = "block" =>
                 f.fn \in {"case", "default"} \/ Sees(c, LBRACE)
  /\ f.fn \in DOMAIN Lists =>
       /\ f.pc \in {Enter, Loop, Comma, Added}
       /\ f.pc = Enter /\ f.fn \in {"array_lit", "compound"} => c <= Len(tokens) /\ tokens[c] # "EOF"
       /\ f.pc = Added => Len(f.kids) >= 1
  /\ f.fn \in DOMAIN Levels => f.pc \in {Enter, LeftDone, RightDone} /\ Len(f.kids) = f.pc - 1
  /\ f.fn = "postfixed" => f.pc \in {Enter, LeftDone}

\* The expressions, which call only each other.  After an error an array literal goes on
\* with them; everything else returns, the value of a variable one step later.
Exprs ==
  {"assign", "comp", "add", "mul", "unary_expr", "update_expr", "call", "member", "cast_expr",
   "unary", "prefixed", "postfixed", "cast", "literal", "parenthesised", "array_lit",
   "compound", "args", "argument"}
Latched(f) == Tests(f) \/ f.fn \in Exprs \/ (f.fn = "var_stat" /\ f.pc = 9)

\* The cursor has passed the end without an error: the opening token of the body of a
\* switch, or of the block of a case, was the last one.
InCase(q) == Len(q) >= 2 /\ q[Len(q) - 1].fn \in {"case", "default"}
Behind(f, q) == f.pc = Loop /\ (f.fn = "switch_block" \/ (f.fn = "block" /\ InCase(q)))

CallsOK(q, c, e) ==
  /\ Listed(q) /\ Len(q) \in Nat /\ Len(q) >= 1
  /\ \A k \in 1..Len(q) : Whole(q[k]) /\ Spoken(q[k]) /\ (q[k].fn = "program" <=> k = 1)
  /\ q[1].pc # Enter
  /\ \A k \in 1..(Len(q) - 1) : Waits(q[k])
  /\ Runs(q[Len(q)], c)
  /\ q[Len(q)].fn = "block" /\ q[Len(q)].pc = Enter => Sees(c, LBRACE) \/ InCase(q)
  /\ e => Latched(q[Len(q)])
  /\ ~e /\ c > Len(tokens) => Behind(q[Len(q)], q)

FillingIn(q) == {k \in 1..Len(q) : q[k].fn \in DOMAIN Lists /\ q[k].pc > Enter}
Within(r, q) == \A k \in FillingIn(r) : k \in FillingIn(q) /\ r[k].arr = q[k].arr
FilledFrom(q, chunks) ==
  /\ \A k \in FillingIn(q) : q[k].arr \in chunks
  /\ \A j, k \in FillingIn(q) : q[j].arr = q[k].arr => j = k

\* Until the end there are as many chunks allocated as recorded.
RecordedIn(rec) == {rec[k] : k \in 1..Len(rec)}
ChunksOK(rec, chunks, next) ==
  /\ rec \in Seq(Nat) /\ next \in Nat
  /\ chunks \subseteq 0..(next - 1) /\ RecordedIn(rec) \subseteq 0..(next - 1)
  /\ Cardinality(chunks) = Len(rec) /\ Cardinality(RecordedIn(rec)) = Len(rec)

Statuses == {"run", "accepted", "refused", "freed", "corrupt", "crash", "overread", "overflow"}
Before == status \notin {"refused", "freed", "corrupt"}

ParserInv ==
  /\ tokens \in Sources /\ cursor \in 1..(Len(tokens) + 1)
  /\ error \in BOOLEAN /\ nodes \in Nat /\ status \in Statuses
  /\ CallsOK(frames, cursor, error)
  /\ Before => ChunksOK(arrays, live, fresh) /\ FilledFrom(frames, live)
  /\ status = "accepted" => ~error /\ cursor = Len(tokens)
  /\ status = "refused" => error /\ ~(RecordedIn(arrays) \subseteq live)
  /\ status = "freed" => live = {} /\ ~error
  /\ status = "corrupt" => error \/ live # {}
  /\ status = "overread" => error \/ Contains({"switch"})
  /\ status = "crash" => ~error /\ Contains({"case", "default"})
-----------------------------------------------------------------------------
(***************************************************************************)
(* Sequences and frames.                                                   *)
(***************************************************************************)
LEMMA ListedSeq ==
  ASSUME NEW S, NEW s \in Seq(S)
  PROVE  Listed(s) /\ Len(s) \in Nat
<1>1. s = [k \in 1..Len(s) |-> s[k]] /\ Len(s) \in Nat /\ DOMAIN s = 1..Len(s)  OBVIOUS
<1>2. \A k \in 1..Len(s) : s[k] \in Items(s)  BY <1>1 DEF Items
<1> QED  BY <1>1, <1>2 DEF Listed

LEMMA ListedFacts ==
  ASSUME NEW s, Listed(s)
  PROVE  /\ s \in Seq(Items(s)) /\ Len(s) \in Nat /\ DOMAIN s = 1..Len(s)
         /\ \A k \in 1..Len(s) : s[k] \in Items(s)
<1>1. s \in Seq(Items(s))  BY DEF Listed
<1> QED  BY <1>1

LEMMA ListedAppend ==
  ASSUME NEW s, Listed(s), NEW x
  PROVE  LET t == Append(s, x) IN
         /\ Listed(t) /\ Len(t) = Len(s) + 1 /\ t[Len(s) + 1] = x
         /\ \A k \in 1..Len(s) : t[k] = s[k]
<1> DEFINE S == Items(s) \cup {x}
<1>1. s \in Seq(Items(s)) /\ Len(s) \in Nat  BY ListedFacts
<1>2. s \in Seq(S)
  <2> QED  BY <1>1, SeqMonotonic
<1>3. x \in S  OBVIOUS
<1> HIDE DEF S
<1>4. /\ Append(s, x) \in Seq(S) /\ Len(Append(s, x)) = Len(s) + 1
      /\ Append(s, x)[Len(s) + 1] = x /\ \A k \in 1..Len(s) : Append(s, x)[k] = s[k]
  BY <1>2, <1>3
<1>5. Listed(Append(s, x))  BY <1>4, ListedSeq
<1> QED  BY <1>4, <1>5

LEMMA ListedFront ==
  ASSUME NEW s, Listed(s), Len(s) >= 1
  PROVE  LET t == SubSeq(s, 1, Len(s) - 1) IN
         /\ Listed(t) /\ Len(t) = Len(s) - 1
         /\ \A k \in 1..(Len(s) - 1) : t[k] = s[k]
<1>1. s \in Seq(Items(s)) /\ Len(s) \in Nat  BY ListedFacts
<1>2. Len(s) - 1 \in Int /\ \A k \in 1..(Len(s) - 1) : s[k] \in Items(s)  BY <1>1, ListedFacts
<1> DEFINE n == Len(s) - 1
           t == SubSeq(s, 1, n)
<1>3. /\ t \in Seq(Items(s)) /\ Len(t) = IF 1 <= n THEN n - 1 + 1 ELSE 0
      /\ \A k \in 1..(n - 1 + 1) : t[k] = s[1 + k - 1]
  <2>1. n \in Int /\ \A k \in 1..n : s[k] \in Items(s)  BY <1>2
  <2> HIDE DEF n
  <2> QED  BY <2>1, SubSeqProperties
<1>4. Listed(t)  BY <1>3, ListedSeq
<1>5. n \in Nat /\ Len(s) = n + 1  BY <1>1
<1> HIDE DEF t, n
<1>6. Len(t) = n /\ \A k \in 1..n : t[k] = s[k]  BY <1>3, <1>5
<1> QED  BY <1>4, <1>6 DEF t, n

LEMMA ListedExcept ==
  ASSUME NEW s, Listed(s), NEW n \in 1..Len(s), NEW x
  PROVE  LET t == [s EXCEPT ![n] = x] IN
         /\ Listed(t) /\ Len(t) = Len(s) /\ t[n] = x
         /\ \A k \in 1..Len(s) : k # n => t[k] = s[k]
<1> DEFINE S == Items(s) \cup {x}
<1>1. s \in Seq(Items(s)) /\ Len(s) \in Nat  BY ListedFacts
<1>2. s \in Seq(S)
  <2> QED  BY <1>1, SeqMonotonic
<1>3. x \in S  OBVIOUS
<1> HIDE DEF S
<1>4. /\ [s EXCEPT ![n] = x] \in Seq(S) /\ Len([s EXCEPT ![n] = x]) = Len(s)
      /\ \A k \in 1..Len(s) : [s EXCEPT ![n] = x][k] = IF k = n THEN x ELSE s[k]
  BY <1>1, <1>2, <1>3, ExceptSeq
<1>5. Listed([s EXCEPT ![n] = x])  BY <1>4, ListedSeq
<1> QED  BY <1>4, <1>5

\* What the actions make of a frame.
LEMMA FrameAt ==
  ASSUME NEW f, Whole(f), NEW k \in Nat \ {0}
  PROVE  LET g == [f EXCEPT !.pc = k] IN
         /\ Whole(g) /\ g.fn = f.fn /\ g.pc = k /\ g.kids = f.kids /\ g.arr = f.arr
BY DEF Whole

LEMMA FrameKids ==
  ASSUME NEW f, Whole(f), NEW kids, Listed(kids)
  PROVE  LET g == [f EXCEPT !.kids = kids] IN
         /\ Whole(g) /\ g.fn = f.fn /\ g.pc = f.pc /\ g.kids = kids /\ g.arr = f.arr
<1> QED  BY DEF Whole

LEMMA FrameTok ==
  ASSUME NEW f, Whole(f), NEW tok
  PROVE  LET g == [f EXCEPT !.tok = tok] IN
         /\ Whole(g) /\ g.fn = f.fn /\ g.pc = f.pc /\ g.kids = f.kids /\ g.arr = f.arr
BY DEF Whole

LEMMA FrameArr ==
  ASSUME NEW f, Whole(f), NEW arr
  PROVE  LET g == [f EXCEPT !.arr = arr] IN
         /\ Whole(g) /\ g.fn = f.fn /\ g.pc = f.pc /\ g.kids = f.kids /\ g.arr = arr
BY DEF Whole

LEMMA FrameCap ==
  ASSUME NEW f, Whole(f), NEW cap
  PROVE  LET g == [f EXCEPT !.cap = cap] IN
         /\ Whole(g) /\ g.fn = f.fn /\ g.pc = f.pc /\ g.kids = f.kids /\ g.arr = f.arr
BY DEF Whole

LEMMA FrameBoth ==
  ASSUME NEW f, Whole(f), NEW k \in Nat \ {0}, NEW c, NEW node
  PROVE  /\ [f EXCEPT !.pc = k, !.tok = IF @ = 0 THEN c ELSE @] =
              [[f EXCEPT !.pc = k] EXCEPT !.tok = IF f.tok = 0 THEN c ELSE f.tok]
         /\ [f EXCEPT !.pc = k, !.kids = Append(@, node)] =
              [[f EXCEPT !.pc = k] EXCEPT !.kids = Append(f.kids, node)]
         /\ [f EXCEPT !.pc = k, !.kids = SubSeq(@, 1, Len(@) - 1)] =
              [[f EXCEPT !.pc = k] EXCEPT !.kids = SubSeq(f.kids, 1, Len(f.kids) - 1)]
         /\ \A kids : [f EXCEPT !.pc = k, !.tok = c, !.kids = kids] =
              [[[f EXCEPT !.pc = k] EXCEPT !.tok = c] EXCEPT !.kids = kids]
         /\ \A arr, cap : [f EXCEPT !.pc = k, !.tok = c, !.arr = arr, !.cap = cap] =
              [[[[f EXCEPT !.pc = k] EXCEPT !.tok = c] EXCEPT !.arr = arr] EXCEPT !.cap = cap]
         /\ \A arr, grows : [f EXCEPT !.pc = k, !.arr = arr, !.cap = IF grows THEN 2 * @ ELSE @] =
              [[[f EXCEPT !.pc = k] EXCEPT !.arr = arr] EXCEPT
                 !.cap = IF grows THEN 2 * f.cap ELSE f.cap]
BY DEF Whole

LEMMA NewFrame ==
  ASSUME NEW g \in Functions
  PROVE  /\ Whole(Frame(g)) /\ Frame(g).fn = g /\ Frame(g).pc = Enter
         /\ Frame(g).kids = <<>> /\ Len(Frame(g).kids) = 0
<1>1. Frame(g) = [fn |-> g, pc |-> 1, tok |-> 0, kids |-> <<>>, arr |-> 0, cap |-> 0]
  BY DEF Frame
<1>2. <<>> \in Seq({}) /\ Len(<<>>) = 0  OBVIOUS
<1>3. Listed(<<>>)  BY <1>2, ListedSeq
<1> QED  BY <1>1, <1>2, <1>3 DEF Whole, Enter
-----------------------------------------------------------------------------
(***************************************************************************)
(* The tables.                                                             *)
(***************************************************************************)
\* What straight functions call.
Callees ==
  {"assign", "literal", "type", "entries", "fields", "parameters", "block", "body",
   "alternate", "switch_block", "update_expr", "call"}

\* A token is taken blindly only where it has been looked at: as the first one, by whoever
\* chose the function, or behind When.  A block is called where an opening brace has been
\* seen, except by the cases.
StepOK(f, steps, k) ==
  LET s == steps[k] IN
  /\ s.do \in {"take", "expect", "at", "call", "when", "size", "check"}
  /\ s.do \in {"expect", "at", "when"} => s.arg # "EOF"
  /\ s.do = "take" => k = 1 \/ steps[k - 1].do = "when"
  /\ s.do = "call" =>
       /\ s.arg \in Callees
       /\ f \in Exprs => s.arg \in Exprs
       /\ s.arg = "switch_block" => f = "switch_stat"
       /\ s.arg = "block" => f \in {"case", "default"} \/ (k > 1 /\ steps[k - 1] = AtExpect(LBRACE))
  /\ s.do = "size" => f = "array_type"
StepsOK(f, steps) ==
  /\ Len(steps) \in 1..9 /\ (f = "var_stat" => Len(steps) = 8)
  /\ f \in {"field", "parameter", "entry", "argument"} => steps[1].do # "take"
  /\ \A k \in 1..Len(steps) : StepOK(f, steps, k)

LEMMA StepFacts ==
  /\ Take.do = "take" /\ Size.do = "size"
  /\ \A t : Expect(t).do = "expect" /\ Expect(t).arg = t
  /\ \A t : AtExpect(t).do = "at" /\ AtExpect(t).arg = t
  /\ \A t : When(t).do = "when" /\ When(t).arg = t
  /\ \A t : Parse(t).do = "call" /\ Parse(t).arg = t
  /\ \A t : Check(t).do = "check"
BY DEF Take, Expect, AtExpect, Parse, When, Size, Check

LEMMA NotTheEnd == LBRACE # "EOF" /\ RBRACE # "EOF" /\ COMMA # "EOF" /\ SEMICOLON # "EOF"
BY Zenon DEF LBRACE, RBRACE, COMMA, SEMICOLON

LEMMA StraightTables == \A f \in DOMAIN Straights : StepsOK(f, Straights[f].steps)
<1>1. StepsOK("return_stat", parse_return_stat.steps)
  <2>1. parse_return_stat.steps = <<Take, Parse("assign")>>
    BY DEF parse_return_stat, Straight
  <2> QED  BY <2>1, StepFacts, NotTheEnd DEF StepsOK, StepOK, Callees, Exprs
<1>2. StepsOK("defer_stat", parse_defer_stat.steps)
  <2>1. parse_defer_stat.steps = <<Take, Parse("assign"), Check("expression")>>
    BY DEF parse_defer_stat, Straight
  <2> QED  BY <2>1, StepFacts, NotTheEnd DEF StepsOK, StepOK, Callees, Exprs
<1>3. StepsOK("break", parse_break_stat.steps)
  <2>1. parse_break_stat.steps = <<Take>>
    BY DEF parse_break_stat, Straight
  <2> QED  BY <2>1, StepFacts, NotTheEnd DEF StepsOK, StepOK, Callees, Exprs
<1>4. StepsOK("continue", parse_continue_stat.steps)
  <2>1. parse_continue_stat.steps = <<Take>>
    BY DEF parse_continue_stat, Straight
  <2> QED  BY <2>1, StepFacts, NotTheEnd DEF StepsOK, StepOK, Callees, Exprs
<1>5. StepsOK("var_stat", parse_var_stat.steps)
  <2>1. parse_var_stat.steps =
          <<Take, Parse("literal"), Check("ident"), Expect(":"), Parse("type"),
            When("="), Take, Parse("assign")>>
    BY DEF parse_var_stat, Straight
  <2> QED  BY <2>1, StepFacts, NotTheEnd DEF StepsOK, StepOK, Callees, Exprs
<1>6. StepsOK("enum_stat", parse_enum_stat.steps)
  <2>1. parse_enum_stat.steps =
          <<Take, Parse("literal"), Check("ident"), When(LBRACE), Parse("entries")>>
    BY DEF parse_enum_stat, Straight
  <2> QED  BY <2>1, StepFacts, NotTheEnd DEF StepsOK, StepOK, Callees, Exprs
<1>7. StepsOK("struct_stat", parse_struct_stat.steps)
  <2>1. parse_struct_stat.steps =
          <<Take, Parse("literal"), Check("ident"), When(LBRACE), Parse("fields")>>
    BY DEF parse_struct_stat, Straight
  <2> QED  BY <2>1, StepFacts, NotTheEnd DEF StepsOK, StepOK, Callees, Exprs
<1>8. StepsOK("fn_stat", parse_fn_stat.steps)
  <2>1. parse_fn_stat.steps =
          <<Take, Parse("literal"), Check("ident"), Parse("parameters"),
            Expect(":"), Parse("type"), AtExpect(LBRACE), Parse("block")>>
    BY DEF parse_fn_stat, Straight
  <2> QED  BY <2>1, StepFacts, NotTheEnd DEF StepsOK, StepOK, Callees, Exprs
<1>9. StepsOK("if_stat", parse_if_stat.steps)
  <2> DEFINE s == parse_if_stat.steps
  <2>1. s =
          <<Take, Expect("("), Parse("assign"), Expect(")"), AtExpect(LBRACE),
            Parse("body"), When("else"), Take, Parse("alternate")>>
    BY DEF parse_if_stat, Straight
  <2>2. /\ Len(s) = 9 /\ s[1] = Take /\ s[2] = Expect("(") /\ s[3] = Parse("assign")
        /\ s[4] = Expect(")") /\ s[5] = AtExpect(LBRACE) /\ s[6] = Parse("body")
        /\ s[7] = When("else") /\ s[8] = Take /\ s[9] = Parse("alternate")
    BY <2>1
  <2> HIDE DEF s
  <2>3. /\ StepOK("if_stat", s, 1) /\ StepOK("if_stat", s, 2) /\ StepOK("if_stat", s, 3)
        /\ StepOK("if_stat", s, 4) /\ StepOK("if_stat", s, 5)
    BY <2>2, StepFacts, NotTheEnd DEF StepOK, Callees, Exprs
  <2>4. /\ StepOK("if_stat", s, 6) /\ StepOK("if_stat", s, 7) /\ StepOK("if_stat", s, 8)
        /\ StepOK("if_stat", s, 9)
    BY <2>2, StepFacts, NotTheEnd DEF StepOK, Callees, Exprs
  <2>5. \A k \in 1..9 : StepOK("if_stat", s, k)  BY <2>3, <2>4
  <2> QED  BY <2>2, <2>5 DEF StepsOK, s
<1>10. StepsOK("while_stat", parse_while_stat.steps)
  <2>1. parse_while_stat.steps =
          <<Take, Expect("("), Parse("assign"), Expect(")"), Parse("body")>>
    BY DEF parse_while_stat, Straight
  <2> QED  BY <2>1, StepFacts, NotTheEnd DEF StepsOK, StepOK, Callees, Exprs
<1>11. StepsOK("switch_stat", parse_switch_stat.steps)
  <2>1. parse_switch_stat.steps =
          <<Take, Expect("("), Parse("assign"), Expect(")"), Parse("switch_block")>>
    BY DEF parse_switch_stat, Straight
  <2> QED  BY <2>1, StepFacts, NotTheEnd DEF StepsOK, StepOK, Callees, Exprs
<1>12. StepsOK("case", switch_case.steps)
  <2>1. switch_case.steps = <<Take, Parse("assign"), Expect(":"), Parse("block")>>
    BY DEF switch_case, Straight
  <2> QED  BY <2>1, StepFacts, NotTheEnd DEF StepsOK, StepOK, Callees, Exprs
<1>13. StepsOK("default", switch_default.steps)
  <2>1. switch_default.steps = <<Take, Expect(":"), Parse("block")>>
    BY DEF switch_default, Straight
  <2> QED  BY <2>1, StepFacts, NotTheEnd DEF StepsOK, StepOK, Callees, Exprs
<1>14. StepsOK("field", field.steps)
  <2>1. field.steps = <<Parse("assign"), Expect(":"), Parse("type")>>
    BY DEF field, Straight
  <2> QED  BY <2>1, StepFacts, NotTheEnd DEF StepsOK, StepOK, Callees, Exprs
<1>15. StepsOK("parameter", parameter.steps)
  <2>1. parameter.steps = <<Parse("assign"), Expect(":"), Parse("type")>>
    BY DEF parameter, Straight
  <2> QED  BY <2>1, StepFacts, NotTheEnd DEF StepsOK, StepOK, Callees, Exprs
<1>16. StepsOK("entry", enum_entry.steps)
  <2>1. enum_entry.steps =
          <<Parse("literal"), Check("ident"), When("="), Take, Parse("assign")>>
    BY DEF enum_entry, Straight
  <2> QED  BY <2>1, StepFacts, NotTheEnd DEF StepsOK, StepOK, Callees, Exprs
<1>17. StepsOK("argument", argument.steps)
  <2>1. argument.steps = <<Parse("assign")>>
    BY DEF argument, Straight
  <2> QED  BY <2>1, StepFacts, NotTheEnd DEF StepsOK, StepOK, Callees, Exprs
<1>18. StepsOK("array_type", parse_array_type.steps)
  <2>1. parse_array_type.steps = <<Take, Size, When("]"), Take, Parse("type")>>
    BY DEF parse_array_type, Straight
  <2> QED  BY <2>1, StepFacts, NotTheEnd DEF StepsOK, StepOK, Callees, Exprs
<1>19. StepsOK("unary", unary.steps)
  <2>1. unary.steps = <<Take, Parse("update_expr")>>
    BY DEF unary, Straight
  <2> QED  BY <2>1, StepFacts, NotTheEnd DEF StepsOK, StepOK, Callees, Exprs
<1>20. StepsOK("prefixed", prefixed.steps)
  <2>1. prefixed.steps = <<Take, Parse("call")>>
    BY DEF prefixed, Straight
  <2> QED  BY <2>1, StepFacts, NotTheEnd DEF StepsOK, StepOK, Callees, Exprs
<1>21. StepsOK("cast", cast.steps)
  <2>1. cast.steps =
          <<Take, Parse("assign"), Expect(")"), Check("type"), Parse("assign")>>
    BY DEF cast, Straight
  <2> QED  BY <2>1, StepFacts, NotTheEnd DEF StepsOK, StepOK, Callees, Exprs
<1>22. StepsOK("parenthesised", parenthesised.steps)
  <2>1. parenthesised.steps = <<Take, Parse("assign"), Expect(")")>>
    BY DEF parenthesised, Straight
  <2> QED  BY <2>1, StepFacts, NotTheEnd DEF StepsOK, StepOK, Callees, Exprs
<1>23. DOMAIN Straights =
        {"return_stat", "defer_stat", "break", "continue", "var_stat", "enum_stat",
         "struct_stat", "fn_stat", "if_stat", "while_stat", "switch_stat", "case",
         "default", "field", "parameter", "entry", "argument", "array_type", "unary",
         "prefixed", "cast", "parenthesised"}
  BY DEF Straights
<1>24. /\ Straights["return_stat"] = parse_return_stat /\ Straights["defer_stat"] = parse_defer_stat
       /\ Straights["break"] = parse_break_stat /\ Straights["continue"] = parse_continue_stat
       /\ Straights["var_stat"] = parse_var_stat /\ Straights["enum_stat"] = parse_enum_stat
       /\ Straights["struct_stat"] = parse_struct_stat /\ Straights["fn_stat"] = parse_fn_stat
       /\ Straights["if_stat"] = parse_if_stat /\ Straights["while_stat"] = parse_while_stat
       /\ Straights["switch_stat"] = parse_switch_stat /\ Straights["case"] = switch_case
       /\ Straights["default"] = switch_default /\ Straights["field"] = field
       /\ Straights["parameter"] = parameter /\ Straights["entry"] = enum_entry
       /\ Straights["argument"] = argument /\ Straights["array_type"] = parse_array_type
       /\ Straights["unary"] = unary /\ Straights["prefixed"] = prefixed
       /\ Straights["cast"] = cast /\ Straights["parenthesised"] = parenthesised
  BY DEF Straights
<1>25. SUFFICES ASSUME NEW f \in DOMAIN Straights PROVE StepsOK(f, Straights[f].steps)
  OBVIOUS
<1> QED
  BY <1>1, <1>2, <1>3, <1>4, <1>5, <1>6, <1>7, <1>8, <1>9, <1>10, <1>11, <1>12,
     <1>13, <1>14, <1>15, <1>16, <1>17, <1>18, <1>19, <1>20, <1>21, <1>22, <1>23,
     <1>24, <1>25

LEMMA Kinds ==
  /\ DOMAIN Straights \cap DOMAIN Lists = {} /\ DOMAIN Straights \cap DOMAIN Levels = {}
  /\ DOMAIN Lists \cap DOMAIN Levels = {}
  /\ Choices \cap (DOMAIN Straights \cup DOMAIN Lists \cup DOMAIN Levels) = {}
  /\ {"postfixed", "literal"} \cap
       (DOMAIN Straights \cup DOMAIN Lists \cup DOMAIN Levels \cup Choices) = {}
BY DEF Straights, Lists, Levels, Choices

LEMMA ListTables ==
  ASSUME NEW f \in DOMAIN Lists
  PROVE  /\ Lists[f].close = "EOF" => f = "program"
         /\ Lists[f].open # "EOF"
         /\ Lists[f].open = "any" => f \in {"array_lit", "compound", "block", "switch_block", "program"}
         /\ f # "switch_block" =>
              Lists[f].element \in {"assign", "stat", "field", "parameter", "entry", "argument"}
         /\ f \in Exprs => Lists[f].element \in Exprs /\ f # "switch_block"
<1>1. DOMAIN Lists = {"array_lit", "compound", "fields", "parameters", "entries", "args", "block",
                      "switch_block", "program"}
  BY DEF Lists
<1>2. /\ Lists["array_lit"] = parse_array_lit /\ Lists["compound"] = parse_compound_literal
      /\ Lists["fields"] = parse_fields /\ Lists["parameters"] = parse_parameters
      /\ Lists["entries"] = parse_enum_entries /\ Lists["args"] = parse_args
      /\ Lists["block"] = parse_block /\ Lists["switch_block"] = parse_switch_block
      /\ Lists["program"] = parse_tokens
  BY DEF Lists
<1>3. LBRACE # "any"  BY Zenon DEF LBRACE
<1>4. CASE f \in {"array_lit", "compound", "block", "switch_block", "program"}
  BY <1>2, <1>4, NotTheEnd DEF List, Exprs, parse_array_lit, parse_compound_literal,
     parse_block, parse_switch_block, parse_tokens
<1>5. CASE f \in {"fields", "parameters", "entries", "args"}
  BY <1>2, <1>3, <1>5, NotTheEnd DEF List, Exprs, parse_fields, parse_parameters,
     parse_enum_entries, parse_args
<1> QED  BY <1>1, <1>4, <1>5

LEMMA LevelTables ==
  ASSUME NEW f \in DOMAIN Levels
  PROVE  /\ f \in Exprs /\ "EOF" \notin Levels[f].ops
         /\ Levels[f].below \in (DOMAIN Levels \cup Choices) \cap Exprs
         /\ Levels[f].right \in (DOMAIN Levels \cup Choices \cup {"args"}) \cap Exprs
<1>1. DOMAIN Levels = {"assign", "comp", "add", "mul", "call", "member"}  BY DEF Levels
<1>2. /\ Levels["assign"] = parse_assign_expr /\ Levels["comp"] = parse_bin_comp_expr
      /\ Levels["add"] = parse_bin_add_expr /\ Levels["mul"] = parse_bin_mul_expr
      /\ Levels["call"] = parse_call_expr /\ Levels["member"] = parse_member_expr
  BY DEF Levels
<1>3. /\ {"unary_expr", "cast_expr"} \subseteq Choices
      /\ {"comp", "add", "mul", "unary_expr", "member", "args", "cast_expr"} \subseteq Exprs
      /\ f \in Exprs
  BY <1>1 DEF Choices, Exprs
<1>4. CASE f \in {"assign", "comp", "add"}
  BY <1>1, <1>2, <1>3, <1>4
     DEF Joined, parse_assign_expr, parse_bin_comp_expr, parse_bin_add_expr, AssignOps
<1>5. CASE f \in {"mul", "call", "member"}
  BY <1>1, <1>2, <1>3, <1>5 DEF Joined, parse_bin_mul_expr, parse_call_expr, parse_member_expr
<1> QED  BY <1>1, <1>4, <1>5

\* What a choice at the token t can be: a function that takes t blindly is chosen by it.
LEMMA ChoiceFacts ==
  ASSUME NEW f \in Choices, NEW t
  PROVE  LET g == Choice(f, t) IN
         /\ g \in (DOMAIN Straights \cup DOMAIN Levels \cup Choices \cup
                    {"block", "postfixed", "literal"}) \ {"case", "default"}
         /\ g \in DOMAIN Straights => t # "EOF"
         /\ g = "block" => t = LBRACE
         /\ g = "switch_stat" => t = "switch"
         /\ f \in Exprs => g \in Exprs
<1>1. /\ {"if_stat", "while_stat", "switch_stat", "fn_stat", "enum_stat", "struct_stat",
          "var_stat", "defer_stat", "return_stat", "break", "continue", "array_type", "unary",
          "prefixed", "cast"} \subseteq DOMAIN Straights
      /\ {"assign", "member"} \subseteq DOMAIN Levels /\ "update_expr" \in Choices
      /\ {"block", "literal", "postfixed"} \cap DOMAIN Straights = {}
      /\ {"assign", "member", "update_expr"} \cap DOMAIN Straights = {}
  BY DEF Straights, Levels, Choices
<1>2. ASSUME NEW k \in DOMAIN Keyword
      PROVE  /\ k # "EOF" /\ (Keyword[k] = "switch_stat" => k = "switch")
             /\ Keyword[k] \in {"if_stat", "while_stat", "switch_stat", "fn_stat", "enum_stat",
                  "struct_stat", "var_stat", "defer_stat", "return_stat", "break", "continue"}
  BY DEF Keyword
<1>3. {"unary", "update_expr", "prefixed", "postfixed", "cast", "literal"} \subseteq Exprs
      /\ Exprs \cap Choices = {"unary_expr", "update_expr", "cast_expr"}
  BY DEF Exprs, Choices
<1>4. "EOF" \notin UnaryOps /\ "EOF" \notin UpdateOps  BY DEF UnaryOps, UpdateOps
<1>5. CASE f = "stat"
  BY <1>1, <1>2, <1>3, <1>5 DEF Choice, parse_stat
<1>6. CASE f \in {"type", "alternate", "body"}
  BY <1>1, <1>3, <1>6 DEF Choice, parse_type, parse_if_else, body
<1>7. CASE f \in {"unary_expr", "update_expr", "cast_expr"}
  BY <1>1, <1>3, <1>4, <1>7 DEF Choice, parse_unary_expr, parse_update_expr, parse_cast_expr
<1> QED  BY <1>5, <1>6, <1>7 DEF Choices
-----------------------------------------------------------------------------
(***************************************************************************)
(* The moves, for a stack q that is in order with some cursor and latch.   *)
(***************************************************************************)
Put(q, f) == [q EXCEPT ![Len(q)] = f]
Front(q) == SubSeq(q, 1, Len(q) - 1)

\* What a move asks for, to leave the calls in order with the cursor c and the latch e.
CanStay(q, f, c, e) ==
  /\ Whole(f) /\ f.fn = q[Len(q)].fn /\ f.pc # Enter /\ Runs(f, c)
  /\ e => Latched(f)
  /\ ~e /\ c > Len(tokens) => Behind(f, q)
CanStart(g, c, e) ==
  /\ g \in Functions \ {"program"} /\ Spoken(Frame(g)) /\ Runs(Frame(g), c)
  /\ e => g \in Exprs
  /\ ~e => ~(c > Len(tokens))
CanCall(q, f, g, c, e) ==
  /\ Whole(f) /\ f.fn = q[Len(q)].fn /\ f.pc # Enter /\ Waits(f) /\ CanStart(g, c, e)
  /\ g = "block" => Sees(c, LBRACE) \/ f.fn \in {"case", "default"}
CanBecome(q, g, c, e) ==
  /\ q[Len(q)].fn # "program" /\ CanStart(g, c, e)
  /\ g = "block" => Sees(c, LBRACE)

LEMMA CallsFacts ==
  ASSUME NEW q, NEW c, NEW e, CallsOK(q, c, e)
  PROVE  /\ Listed(q) /\ Len(q) \in Nat /\ Len(q) >= 1 /\ Len(q) \in 1..Len(q)
         /\ Whole(q[Len(q)]) /\ Spoken(q[Len(q)]) /\ Runs(q[Len(q)], c)
         /\ q[Len(q)].fn = "program" <=> Len(q) = 1
         /\ Listed(q[Len(q)].kids)
         /\ q[Len(q)].fn \in Functions /\ q[Len(q)].pc \in Nat \ {0}
<1>1. Listed(q) /\ Len(q) \in Nat /\ Len(q) >= 1  BY DEF CallsOK
<1>2. Len(q) \in 1..Len(q)  BY <1>1
<1>3. /\ Whole(q[Len(q)]) /\ Spoken(q[Len(q)]) /\ Runs(q[Len(q)], c)
      /\ q[Len(q)].fn = "program" <=> Len(q) = 1
  BY <1>2 DEF CallsOK
<1> QED  BY <1>1, <1>2, <1>3 DEF Whole

\* The innermost function goes on.
LEMMA StayMove ==
  ASSUME NEW q, NEW c0, NEW e0, CallsOK(q, c0, e0),
         NEW f, NEW c, NEW e, CanStay(q, f, c, e)
  PROVE  LET r == Put(q, f) IN
         /\ CallsOK(r, c, e)
         /\ Len(r) = Len(q) /\ r[Len(q)] = f /\ \A k \in 1..(Len(q) - 1) : r[k] = q[k]
<1> DEFINE L == Len(q)
           r == Put(q, f)
<1>0. /\ Whole(f) /\ f.fn = q[L].fn /\ f.pc # Enter /\ Runs(f, c)
      /\ e => Latched(f)
      /\ ~e /\ c > Len(tokens) => Behind(f, q)
  BY DEF CanStay
<1>1. /\ Listed(q) /\ L \in Nat /\ L >= 1 /\ L \in 1..L
      /\ Spoken(q[L])
  BY CallsFacts
<1>2. Listed(r) /\ Len(r) = L /\ r[L] = f /\ \A k \in 1..L : k # L => r[k] = q[k]
  BY <1>1, ListedExcept DEF Put
<1>3. /\ \A k \in 1..L : Whole(q[k]) /\ Spoken(q[k]) /\ (q[k].fn = "program" <=> k = 1)
      /\ q[1].pc # Enter /\ \A k \in 1..(L - 1) : Waits(q[k])
  BY DEF CallsOK
<1>4. Spoken(f)  BY <1>0, <1>1 DEF Spoken
<1> HIDE DEF r, L
<1>5. \A k \in 1..L : Whole(r[k]) /\ Spoken(r[k]) /\ (r[k].fn = "program" <=> k = 1)
  BY <1>0, <1>1, <1>2, <1>3, <1>4 DEF L
<1>6. r[1].pc # Enter  BY <1>0, <1>1, <1>2, <1>3
<1>7. \A k \in 1..(L - 1) : Waits(r[k]) /\ r[k] = q[k]  BY <1>1, <1>2, <1>3
<1>8. ~e /\ c > Len(tokens) => Behind(r[L], r)
  <2> SUFFICES ASSUME InCase(q), L >= 2 PROVE InCase(r)
    BY <1>0, <1>2 DEF Behind, InCase, L
  <2> QED  BY <1>1, <1>2, <1>7 DEF InCase, L
<1>9. CallsOK(r, c, e)  BY <1>0, <1>1, <1>2, <1>5, <1>6, <1>7, <1>8 DEF CallsOK
<1> QED  BY <1>2, <1>7, <1>9 DEF r, L

\* It calls another.
LEMMA CallMove ==
  ASSUME NEW q, NEW c0, NEW e0, CallsOK(q, c0, e0),
         NEW f, NEW g, NEW c, NEW e, CanCall(q, f, g, c, e)
  PROVE  LET r == Append(Put(q, f), Frame(g)) IN
         /\ CallsOK(r, c, e)
         /\ Len(r) = Len(q) + 1 /\ r[Len(q) + 1] = Frame(g)
         /\ \A k \in 1..Len(q) : r[k] = IF k = Len(q) THEN f ELSE q[k]
<1> DEFINE L == Len(q)
           p == Put(q, f)
           r == Append(p, Frame(g))
<1>0. /\ Whole(f) /\ f.fn = q[L].fn /\ f.pc # Enter /\ Waits(f)
      /\ g \in Functions \ {"program"} /\ Spoken(Frame(g)) /\ Runs(Frame(g), c)
      /\ e => g \in Exprs
      /\ ~e => ~(c > Len(tokens))
      /\ g = "block" => Sees(c, LBRACE) \/ f.fn \in {"case", "default"}
  BY DEF CanCall, CanStart
<1>1. /\ Listed(q) /\ L \in Nat /\ L >= 1 /\ L \in 1..L
      /\ Spoken(q[L])
  BY CallsFacts
<1>2. Listed(p) /\ Len(p) = L /\ p[L] = f /\ \A k \in 1..L : k # L => p[k] = q[k]
  BY <1>1, ListedExcept DEF Put
<1> HIDE DEF p
<1>3. /\ Listed(r) /\ Len(r) = L + 1 /\ r[L + 1] = Frame(g)
      /\ \A k \in 1..L : r[k] = p[k]
  BY <1>2, ListedAppend
<1>4. /\ \A k \in 1..L : Whole(q[k]) /\ Spoken(q[k]) /\ (q[k].fn = "program" <=> k = 1)
      /\ q[1].pc # Enter /\ \A k \in 1..(L - 1) : Waits(q[k])
  BY DEF CallsOK
<1>5. Spoken(f)  BY <1>0, <1>1 DEF Spoken
<1>6. Whole(Frame(g)) /\ Frame(g).fn = g /\ Frame(g).pc = Enter  BY <1>0, NewFrame
<1> HIDE DEF r, L
<1>7. r[L] = f /\ \A k \in 1..(L - 1) : r[k] = q[k]  BY <1>1, <1>2, <1>3
<1>8. \A k \in 1..L + 1 : k = L + 1 \/ k = L \/ k \in 1..(L - 1)  BY <1>1
<1>9. \A k \in 1..L + 1 : Whole(r[k]) /\ Spoken(r[k]) /\ (r[k].fn = "program" <=> k = 1)
  BY <1>0, <1>1, <1>3, <1>4, <1>5, <1>6, <1>7, <1>8 DEF L
<1>10. r[1].pc # Enter  BY <1>0, <1>1, <1>4, <1>7
<1>11. \A k \in 1..L : Waits(r[k])  BY <1>0, <1>1, <1>4, <1>7
<1>12. g = "block" => Sees(c, LBRACE) \/ InCase(r)
  BY <1>0, <1>1, <1>3, <1>7 DEF InCase
<1>13. CallsOK(r, c, e)
  <2>1. e => Latched(r[L + 1])  BY <1>0, <1>3, <1>6 DEF Latched
  <2>2. r[L + 1].fn = g /\ Runs(r[L + 1], c)  BY <1>0, <1>3, <1>6
  <2>3. Len(r) \in Nat /\ Len(r) >= 1 /\ Len(r) = L + 1 /\ Len(r) - 1 = L  BY <1>1, <1>3
  <2> QED  BY <1>0, <1>3, <1>9, <1>10, <1>11, <1>12, <2>1, <2>2, <2>3 DEF CallsOK
<1>14. \A k \in 1..L : r[k] = IF k = L THEN f ELSE q[k]  BY <1>1, <1>7
<1> QED  BY <1>3, <1>13, <1>14 DEF r, L, p

\* It becomes another.
LEMMA GotoMove ==
  ASSUME NEW q, NEW c0, NEW e0, CallsOK(q, c0, e0),
         NEW g, NEW c, NEW e, CanBecome(q, g, c, e)
  PROVE  LET r == Append(Front(q), Frame(g)) IN
         /\ CallsOK(r, c, e)
         /\ Len(r) = Len(q) /\ r[Len(q)] = Frame(g) /\ \A k \in 1..(Len(q) - 1) : r[k] = q[k]
<1> DEFINE L == Len(q)
           p == Front(q)
           r == Append(p, Frame(g))
<1>0. /\ q[L].fn # "program" /\ g \in Functions \ {"program"}
      /\ Spoken(Frame(g)) /\ Runs(Frame(g), c)
      /\ e => g \in Exprs
      /\ ~e => ~(c > Len(tokens))
      /\ g = "block" => Sees(c, LBRACE)
  BY DEF CanBecome, CanStart
<1>1. /\ Listed(q) /\ L \in Nat /\ L >= 1 /\ L \in 1..L
      /\ q[L].fn = "program" <=> L = 1
  BY CallsFacts
<1>2. Listed(p) /\ Len(p) = L - 1 /\ \A k \in 1..(L - 1) : p[k] = q[k]
  BY <1>1, ListedFront DEF Front
<1> HIDE DEF p
<1>3. /\ Listed(r) /\ Len(r) = Len(p) + 1 /\ r[Len(p) + 1] = Frame(g)
      /\ \A k \in 1..Len(p) : r[k] = p[k]
  BY <1>2, ListedAppend
<1>4. /\ \A k \in 1..L : Whole(q[k]) /\ Spoken(q[k]) /\ (q[k].fn = "program" <=> k = 1)
      /\ q[1].pc # Enter /\ \A k \in 1..(L - 1) : Waits(q[k])
  BY DEF CallsOK
<1>5. Whole(Frame(g)) /\ Frame(g).fn = g /\ Frame(g).pc = Enter  BY <1>0, NewFrame
<1>6. L >= 2
  <2>1. L # 1  BY <1>0, <1>1
  <2> HIDE DEF L, r
  <2> QED  BY <1>1, <2>1
<1> HIDE DEF r, L
<1>7. Len(r) = L /\ r[L] = Frame(g) /\ \A k \in 1..(L - 1) : r[k] = q[k]
  BY <1>1, <1>2, <1>3
<1>8. \A k \in 1..L : k = L \/ k \in 1..(L - 1)  BY <1>1
<1>9. \A k \in 1..L : Whole(r[k]) /\ Spoken(r[k]) /\ (r[k].fn = "program" <=> k = 1)
  BY <1>0, <1>4, <1>5, <1>6, <1>7, <1>8
<1>10. r[1].pc # Enter  BY <1>1, <1>4, <1>6, <1>7
<1>11. \A k \in 1..(L - 1) : Waits(r[k])  BY <1>4, <1>7
<1>12. CallsOK(r, c, e)
  <2>1. e => Latched(r[L])  BY <1>0, <1>5, <1>7 DEF Latched
  <2> QED  BY <1>0, <1>1, <1>3, <1>5, <1>7, <1>9, <1>10, <1>11, <2>1 DEF CallsOK
<1> QED  BY <1>7, <1>12 DEF r, L, p

\* What its caller makes of what it returns.
LEMMA Returned ==
  ASSUME NEW u, Whole(u), Waits(u), NEW c, NEW node
  PROVE  LET f == [u EXCEPT !.kids = Append(u.kids, node)] IN
         /\ Whole(f) /\ f.fn = u.fn /\ f.pc = u.pc /\ f.arr = u.arr
         /\ Runs(f, c) /\ Latched(f) /\ (f.fn = "block" => f.pc # Enter)
<1> DEFINE kids == Append(u.kids, node)
           f == [u EXCEPT !.kids = kids]
<1> SUFFICES /\ Whole(f) /\ f.fn = u.fn /\ f.pc = u.pc /\ f.arr = u.arr
             /\ Runs(f, c) /\ Latched(f) /\ (f.fn = "block" => f.pc # Enter)
  OBVIOUS
<1>1. Listed(u.kids)  BY DEF Whole
<1>2. Listed(kids) /\ Len(kids) = Len(u.kids) + 1  BY <1>1, ListedAppend
<1>3. Len(u.kids) \in Nat  BY <1>1, ListedFacts
<1> HIDE DEF kids
<1>4. Whole(f) /\ f.fn = u.fn /\ f.pc = u.pc /\ f.kids = kids /\ f.arr = u.arr
  BY <1>2, FrameKids
<1> HIDE DEF f
<1>5. u.pc \in Nat \ {0} /\ u.fn \in Functions  BY DEF Whole
<1>6. CASE u.fn \in DOMAIN Straights
  <2> DEFINE s == Straights[u.fn].steps
             p == u.pc
  <2>1. StepsOK(u.fn, s)  BY <1>6, StraightTables
  <2>2. p > 1 /\ p <= Len(s) + 1 /\ s[p - 1].do \in {"call", "size"}
    BY <1>6 DEF Waits, Steps
  <2>3. Len(s) \in Nat /\ (u.fn = "var_stat" => Len(s) = 8)  BY <2>1 DEF StepsOK
  <2>4. ASSUME p <= Len(s)
        PROVE  s[p].do # "take" /\ (s[p].do = "call" /\ s[p].arg = "block" => u.fn \in {"case", "default"})
    <3>1. p \in 1..Len(s) /\ p # 1  BY <1>5, <2>2, <2>3, <2>4
    <3>2. StepOK(u.fn, s, p)  BY <2>1, <3>1 DEF StepsOK
    <3>3. AtExpect(LBRACE).do = "at"  BY StepFacts
    <3> QED  BY <2>2, <3>1, <3>2, <3>3 DEF StepOK
  <2>5. u.fn \notin DOMAIN Lists /\ u.fn \notin DOMAIN Levels /\ u.fn # "postfixed" /\ u.fn # "block"
    <3>1. "block" \in DOMAIN Lists  BY DEF Lists
    <3> QED  BY <1>6, <3>1, Kinds
  <2>6. Runs(f, c)  BY <1>4, <2>2, <2>4, <2>5 DEF Runs, Steps
  <2>7. Latched(f)
    <3>1. CASE u.fn = "parenthesised"  BY <1>4, <3>1 DEF Latched, Exprs
    <3>2. CASE u.fn = "var_stat" /\ p > 8
      <4>1. Len(s) = 8 /\ p <= Len(s) + 1  BY <2>2, <2>3, <3>2
      <4>2. p = 9  BY <1>5, <3>2, <4>1
      <4> QED  BY <1>4, <3>2, <4>2 DEF Latched
    <3>3. CASE u.fn # "parenthesised" /\ (u.fn = "var_stat" => p <= 8)
      BY <1>4, <1>6, <2>2, <3>3 DEF Latched, Tests
    <3>4. p > 8 \/ p <= 8  BY <1>5
    <3> QED  BY <3>1, <3>2, <3>3, <3>4
  <2> QED  BY <1>4, <2>5, <2>6, <2>7
<1>7. CASE u.fn \in DOMAIN Lists
  <2>1. u.pc = Added  BY <1>7 DEF Waits
  <2>2. u.fn \notin DOMAIN Straights /\ u.fn \notin DOMAIN Levels /\ u.fn # "postfixed"
    BY <1>7, Kinds
  <2>3. Added # Enter /\ Len(kids) >= 1  BY <1>2, <1>3 DEF Added, Enter
  <2>4. Runs(f, c)  BY <1>4, <2>1, <2>2, <2>3 DEF Runs
  <2>5. Latched(f)  BY <1>4, <1>7, <2>1, <2>2 DEF Latched, Tests
  <2> QED  BY <1>4, <2>1, <2>3, <2>4, <2>5
<1>8. CASE u.fn \in DOMAIN Levels \cup {"postfixed"}
  <2>1. u.fn \notin DOMAIN Straights /\ u.fn \notin DOMAIN Lists /\ u.fn # "block"
    <3>1. "block" \in DOMAIN Lists  BY DEF Lists
    <3> QED  BY <1>8, <3>1, Kinds
  <2>2. u.pc \in {LeftDone, RightDone} /\ (u.fn = "postfixed" => u.pc = LeftDone)
    BY <1>8, Kinds DEF Waits
  <2>3. u.fn \in DOMAIN Levels => Len(kids) = u.pc - 1
    BY <1>2, <1>3, <1>5 DEF Waits
  <2>4. Runs(f, c)  BY <1>4, <2>1, <2>2, <2>3 DEF Runs
  <2>5. Latched(f)  BY <1>4, <2>1, <2>2 DEF Latched, Tests, LeftDone, RightDone
  <2> QED  BY <1>4, <2>1, <2>4, <2>5
<1>9. u.fn \notin Choices \cup {"literal"}  BY DEF Waits
<1> QED  BY <1>5, <1>6, <1>7, <1>8, <1>9 DEF Functions

\* It returns.
LEMMA ReturnMove ==
  ASSUME NEW q, NEW c0, NEW e0, CallsOK(q, c0, e0), NEW c, NEW e,
         q[Len(q)].fn # "program", NEW node, ~e => ~(c > Len(tokens))
  PROVE  LET r == [Front(q) EXCEPT ![Len(q) - 1].kids = Append(@, node)] IN
         /\ CallsOK(r, c, e) /\ Within(r, q) /\ Len(r) = Len(q) - 1
<1> DEFINE L == Len(q)
           p == Front(q)
           u == q[L - 1]
           f == [u EXCEPT !.kids = Append(u.kids, node)]
           r == [p EXCEPT ![L - 1] = f]
<1>1. /\ Listed(q) /\ L \in Nat /\ L >= 1 /\ L \in 1..L
      /\ q[L].fn = "program" <=> L = 1
  BY CallsFacts
<1>2. Listed(p) /\ Len(p) = L - 1 /\ \A k \in 1..(L - 1) : p[k] = q[k]
  BY <1>1, ListedFront DEF Front
<1>3. L >= 2 /\ L - 1 \in 1..L /\ L - 1 \in 1..(L - 1)  BY <1>1
<1>4. /\ \A k \in 1..L : Whole(q[k]) /\ Spoken(q[k]) /\ (q[k].fn = "program" <=> k = 1)
      /\ q[1].pc # Enter /\ \A k \in 1..(L - 1) : Waits(q[k])
  BY DEF CallsOK
<1>5. [p EXCEPT ![L - 1].kids = Append(@, node)] = r
  BY <1>2, <1>3
<1>6. Whole(u) /\ Waits(u)  BY <1>3, <1>4
<1> HIDE DEF u
<1>7. /\ Whole(f) /\ f.fn = u.fn /\ f.pc = u.pc /\ f.arr = u.arr
      /\ Runs(f, c) /\ Latched(f) /\ (f.fn = "block" => f.pc # Enter)
  BY <1>6, Returned
<1> HIDE DEF p, f, L
<1>8. Listed(r) /\ Len(r) = Len(p) /\ r[L - 1] = f /\ \A k \in 1..Len(p) : k # L - 1 => r[k] = p[k]
  <2>1. L - 1 \in 1..Len(p)  BY <1>2, <1>3
  <2>2. Listed(p)  BY <1>2
  <2> DEFINE n == L - 1
  <2>3. n \in 1..Len(p)  BY <2>1
  <2> HIDE DEF n
  <2>4. LET t == [p EXCEPT ![n] = f] IN
        Listed(t) /\ Len(t) = Len(p) /\ t[n] = f /\ \A k \in 1..Len(p) : k # n => t[k] = p[k]
    BY <2>2, <2>3, ListedExcept
  <2> QED  BY <2>4 DEF n
<1> HIDE DEF r
<1>9. Len(r) = L - 1 /\ Len(r) \in Nat /\ Len(r) >= 1 /\ r[L - 1] = f /\ \A k \in 1..(L - 2) : r[k] = q[k]
  BY <1>1, <1>2, <1>3, <1>8
<1>10. \A k \in 1..(L - 1) : k \in 1..L /\ (k = L - 1 \/ k \in 1..(L - 2))  BY <1>1
<1>11. Spoken(f)
  <2>1. Spoken(u)  BY <1>3, <1>4 DEF u
  <2> QED  BY <1>7, <2>1 DEF Spoken
<1>12. \A k \in 1..(L - 1) : r[k].fn = q[k].fn /\ r[k].pc = q[k].pc /\ r[k].arr = q[k].arr
  BY <1>7, <1>9, <1>10 DEF u
<1>13. \A k \in 1..(L - 1) : Whole(r[k]) /\ Spoken(r[k]) /\ (r[k].fn = "program" <=> k = 1)
  BY <1>4, <1>7, <1>9, <1>10, <1>11, <1>12
<1>14. r[1].pc # Enter  BY <1>1, <1>3, <1>4, <1>12
<1>15. \A k \in 1..(L - 2) : Waits(r[k])  BY <1>1, <1>4, <1>9
<1>16. Len(r) - 1 = L - 2  BY <1>1, <1>9
<1>17. CallsOK(r, c, e)
  BY <1>7, <1>8, <1>9, <1>13, <1>14, <1>15, <1>16 DEF CallsOK
<1>18. Within(r, q)
  BY <1>9, <1>10, <1>12 DEF Within, FillingIn, L
<1> QED  BY <1>5, <1>9, <1>17, <1>18 DEF r, p, L
-----------------------------------------------------------------------------
(***************************************************************************)
(* The moves in a state of the parser.                                     *)
(***************************************************************************)
LEMMA TopFacts ==
  ASSUME ParserInv
  PROVE  /\ Listed(frames) /\ Len(frames) \in Nat /\ Len(frames) >= 1
         /\ Len(frames) \in 1..Len(frames)
         /\ Whole(Top) /\ Spoken(Top) /\ Runs(Top, cursor)
         /\ Top.fn = "program" <=> Len(frames) = 1
         /\ Top.fn \in Functions /\ Top.pc \in Nat \ {0}
         /\ Listed(Top.kids) /\ Len(Top.kids) \in Nat
         /\ Top.fn = "program" => Top.pc # Enter
<1>1. CallsOK(frames, cursor, error)  BY DEF ParserInv
<1>2. /\ Listed(frames) /\ Len(frames) \in Nat /\ Len(frames) >= 1 /\ Len(frames) \in 1..Len(frames)
      /\ Whole(Top) /\ Spoken(Top) /\ Runs(Top, cursor)
      /\ Top.fn = "program" <=> Len(frames) = 1
      /\ Listed(Top.kids) /\ Top.fn \in Functions /\ Top.pc \in Nat \ {0}
  BY <1>1, CallsFacts DEF Top
<1>3. Top.fn = "program" => Top.pc # Enter  BY <1>1, <1>2 DEF CallsOK, Top
<1>4. Len(Top.kids) \in Nat  BY <1>2, ListedFacts
<1> QED  BY <1>2, <1>3, <1>4

LEMMA TokenFacts ==
  ASSUME ParserInv
  PROVE  /\ Len(tokens) \in Nat /\ Len(tokens) >= 1 /\ cursor \in Nat \ {0}
         /\ cursor <= Len(tokens) => cursor + 1 \in 1..(Len(tokens) + 1)
         /\ cursor <= Len(tokens) /\ Here # "EOF" => ~(cursor + 1 > Len(tokens))
         /\ cursor <= Len(tokens) => \A types : Here \in types => Contains(types)
         /\ cursor <= Len(tokens) => ~(cursor > Len(tokens))
<1>1. tokens \in Sources /\ cursor \in 1..(Len(tokens) + 1)  BY DEF ParserInv
<1>2. /\ tokens \in Seq(TokenTypes) /\ Len(tokens) >= 1
      /\ \A k \in 1..Len(tokens) : tokens[k] = "EOF" <=> k = Len(tokens)
  BY <1>1, ParserAssumption
<1>3. Len(tokens) \in Nat /\ cursor \in Nat \ {0}  BY <1>1, <1>2
<1>4. cursor <= Len(tokens) => cursor \in 1..Len(tokens) /\ cursor + 1 \in 1..(Len(tokens) + 1)
  BY <1>3
<1>5. cursor <= Len(tokens) /\ Here # "EOF" => cursor # Len(tokens)
  BY <1>2, <1>4 DEF Here
<1>6. cursor <= Len(tokens) /\ cursor # Len(tokens) => ~(cursor + 1 > Len(tokens))  BY <1>3
<1>7. cursor <= Len(tokens) => \A types : Here \in types => Contains(types)
  BY <1>4 DEF Here, Contains
<1>8. cursor <= Len(tokens) => ~(cursor > Len(tokens))  BY <1>3
<1> QED  BY <1>2, <1>3, <1>4, <1>5, <1>6, <1>7, <1>8

\* Between an error and the return it causes only expressions run.
LEMMA GoingFacts ==
  ASSUME ParserInv, ~Unwinding, InBounds
  PROVE  /\ error => Top.fn \in Exprs \/ (Top.fn = "var_stat" /\ Top.pc = 9)
         /\ ~error => ~(cursor > Len(tokens)) \/ (Top.fn = "block" /\ Top.pc = Loop)
         /\ Reads(Top) => cursor <= Len(tokens)
<1>1. /\ error => Latched(Top)
      /\ ~error /\ cursor > Len(tokens) => Behind(Top, frames)
  BY DEF ParserInv, CallsOK, Top
<1>2. error => Top.fn \in Exprs \/ (Top.fn = "var_stat" /\ Top.pc = 9)
  BY <1>1 DEF Unwinding, Latched
<1>3. Reads(Top) => cursor <= Len(tokens)  BY DEF InBounds
<1>4. ASSUME Top.fn = "switch_block" PROVE Reads(Top)
  <2>1. "switch_block" \in DOMAIN Lists /\ "switch_block" \notin Statements
    BY DEF Lists, Statements
  <2> QED  BY <1>4, <2>1, Kinds DEF Reads
<1>5. ~error => ~(cursor > Len(tokens)) \/ (Top.fn = "block" /\ Top.pc = Loop)
  BY <1>1, <1>3, <1>4, TokenFacts DEF Behind
<1> QED  BY <1>2, <1>3, <1>5

\* A function not yet begun needs what it takes blindly.
LEMMA Entered ==
  ASSUME NEW g \in Functions, NEW c,
         g \in DOMAIN Straights \/ g \in {"array_lit", "compound"} => c <= Len(tokens) /\ tokens[c] # "EOF",
         g \notin {"case", "default"}
  PROVE  Runs(Frame(g), c)
<1>1. /\ Frame(g).fn = g /\ Frame(g).pc = Enter /\ Len(Frame(g).kids) = 0  BY NewFrame
<1>2. CASE g \in DOMAIN Straights
  <2>1. StepsOK(g, Straights[g].steps)  BY <1>2, StraightTables
  <2>2. Len(Straights[g].steps) \in 1..9 /\ StepOK(g, Straights[g].steps, 1)
    <3> DEFINE s == Straights[g].steps
    <3>1. StepsOK(g, s)  BY <2>1
    <3> HIDE DEF s
    <3>2. Len(s) \in 1..9 /\ \A k \in 1..Len(s) : StepOK(g, s, k)  BY <3>1 DEF StepsOK
    <3>3. \A n \in 1..9 : 1 \in 1..n  OBVIOUS
    <3> QED  BY <3>2, <3>3 DEF s
  <2>3. g \notin DOMAIN Lists /\ g \notin DOMAIN Levels /\ g # "postfixed"  BY <1>2, Kinds
  <2> QED  BY <1>1, <1>2, <2>2, <2>3 DEF StepOK, Runs, Steps, Enter
<1>3. CASE g \notin DOMAIN Straights
  BY <1>1, <1>3 DEF Runs, Enter, Added
<1> QED  BY <1>2, <1>3

\* The elements of lists take nothing blindly, or are chosen by what they take.
LEMMA EnteredElement ==
  ASSUME NEW g \in {"field", "parameter", "entry", "argument", "case", "default"}, NEW c,
         g \in {"case", "default"} => c <= Len(tokens) /\ tokens[c] # "EOF"
  PROVE  g \in Functions /\ Runs(Frame(g), c)
<1>1. g \in DOMAIN Straights  BY DEF Straights
<1>2. g \in Functions  BY <1>1 DEF Functions
<1>3. /\ Frame(g).fn = g /\ Frame(g).pc = Enter  BY <1>2, NewFrame
<1>4. StepsOK(g, Straights[g].steps)  BY <1>1, StraightTables
<1>5. /\ Len(Straights[g].steps) \in 1..9 /\ StepOK(g, Straights[g].steps, 1)
      /\ g \notin {"case", "default"} => Straights[g].steps[1].do # "take"
  <2> DEFINE s == Straights[g].steps
  <2>1. StepsOK(g, s)  BY <1>4
  <2> HIDE DEF s
  <2>2. /\ Len(s) \in 1..9 /\ \A k \in 1..Len(s) : StepOK(g, s, k)
        /\ g \in {"field", "parameter", "entry", "argument"} => s[1].do # "take"
    BY <2>1 DEF StepsOK
  <2>3. \A n \in 1..9 : 1 \in 1..n  OBVIOUS
  <2> QED  BY <2>2, <2>3 DEF s
<1>6. g \notin DOMAIN Lists /\ g \notin DOMAIN Levels /\ g # "postfixed"  BY <1>1, Kinds
<1>7. Runs(Frame(g), c)  BY <1>1, <1>3, <1>5, <1>6 DEF StepOK, Runs, Steps, Enter
<1> QED  BY <1>2, <1>7

LEMMA StraightRuns ==
  ASSUME NEW f, f.fn \in DOMAIN Straights, f.pc \in Nat \ {0, 1}, f.pc <= Len(Steps(f)) + 1, NEW c,
         Steps(f)[f.pc - 1].do = "when" => c <= Len(tokens) /\ tokens[c] # "EOF",
         Steps(f)[f.pc - 1].do = "at" => Sees(c, Steps(f)[f.pc - 1].arg)
  PROVE  Runs(f, c)
<1> DEFINE s == Steps(f)
           p == f.pc
<1>1. StepsOK(f.fn, s)  BY StraightTables DEF Steps
<1>2. f.fn \notin DOMAIN Lists /\ f.fn \notin DOMAIN Levels /\ f.fn # "postfixed"  BY Kinds
<1>3. ASSUME p <= Len(s)
      PROVE  /\ s[p].do = "take" => s[p - 1].do = "when"
             /\ s[p].do = "call" /\ s[p].arg = "block" =>
                  f.fn \in {"case", "default"} \/ s[p - 1] = AtExpect(LBRACE)
  <2>1. p \in 1..Len(s) /\ p # 1
    <3>1. Len(s) \in Nat  BY <1>1 DEF StepsOK
    <3> QED  BY <1>3, <3>1
  <2>2. StepOK(f.fn, s, p)  BY <1>1, <2>1 DEF StepsOK
  <2> QED  BY <2>1, <2>2 DEF StepOK
<1>4. AtExpect(LBRACE).do = "at" /\ AtExpect(LBRACE).arg = LBRACE  BY StepFacts
<1> QED  BY <1>2, <1>3, <1>4 DEF Runs

\* The innermost function goes on as f.
LEMMA Stays ==
  ASSUME ParserInv, NEW f, frames' = Put(frames, f), f.arr = Top.arr,
         Top.fn \in DOMAIN Lists => Top.pc > Enter,
         NEW c, NEW e, CanStay(frames, f, c, e)
  PROVE  CallsOK(frames', c, e) /\ Within(frames', frames)
<1> DEFINE L == Len(frames)
<1>1. f.fn = Top.fn  BY DEF CanStay, Top
<1>2. CallsOK(frames, cursor, error)  BY DEF ParserInv
<1>3. /\ CallsOK(frames', c, e) /\ Len(frames') = L /\ frames'[L] = f
      /\ \A j \in 1..(L - 1) : frames'[j] = frames[j]
  <2>1. LET r == Put(frames, f) IN
        /\ CallsOK(r, c, e)
        /\ Len(r) = Len(frames) /\ r[Len(frames)] = f
        /\ \A j \in 1..(Len(frames) - 1) : r[j] = frames[j]
    BY <1>2, StayMove
  <2> QED  BY <2>1
<1>4. \A j \in 1..L : j = L \/ j \in 1..(L - 1)  BY TopFacts
<1>5. Within(frames', frames)
  BY <1>1, <1>3, <1>4 DEF Within, FillingIn, Top
<1> QED  BY <1>3, <1>5

\* At: it goes on at k.
LEMMA Ats ==
  ASSUME ParserInv, NEW k \in Nat \ {0, 1}, At(k), NEW c, NEW e,
         Top.fn \in DOMAIN Lists => Top.pc > Enter,
         Runs([Top EXCEPT !.pc = k], c), e => Latched([Top EXCEPT !.pc = k]),
         ~e => ~(c > Len(tokens)) \/ Behind([Top EXCEPT !.pc = k], frames)
  PROVE  CallsOK(frames', c, e) /\ Within(frames', frames)
<1> DEFINE f == [Top EXCEPT !.pc = k]
<1>1. Whole(f) /\ f.fn = Top.fn /\ f.pc = k /\ f.arr = Top.arr  BY TopFacts, FrameAt
<1>2. frames' = Put(frames, f)  BY TopFacts DEF At, Put, Top
<1>3. k # Enter  BY DEF Enter
<1>4. Runs(f, c) /\ (e => Latched(f)) /\ (~e /\ c > Len(tokens) => Behind(f, frames))
  OBVIOUS
<1> HIDE DEF f
<1>5. CanStay(frames, f, c, e)  BY <1>1, <1>3, <1>4 DEF Top, CanStay
<1> QED  BY <1>1, <1>2, <1>5, Stays

\* It waits as f for g, which it calls.
LEMMA CallsAs ==
  ASSUME ParserInv, NEW f, NEW g, frames' = Append(Put(frames, f), Frame(g)), f.arr = Top.arr,
         Top.fn \in DOMAIN Lists => Top.pc > Enter,
         NEW c, NEW e, CanCall(frames, f, g, c, e)
  PROVE  CallsOK(frames', c, e) /\ Within(frames', frames)
<1> DEFINE L == Len(frames)
<1>1. f.fn = Top.fn /\ g \in Functions  BY DEF CanCall, CanStart, Top
<1>2. CallsOK(frames, cursor, error)  BY DEF ParserInv
<1>3. Frame(g).pc = Enter  BY <1>1, NewFrame
<1> HIDE DEF L
<1>4. /\ CallsOK(frames', c, e) /\ Len(frames') = L + 1
      /\ frames'[L + 1] = Frame(g) /\ \A j \in 1..L : frames'[j] = IF j = L THEN f ELSE frames[j]
  <2>1. LET r == Append(Put(frames, f), Frame(g)) IN
        /\ CallsOK(r, c, e)
        /\ Len(r) = Len(frames) + 1 /\ r[Len(frames) + 1] = Frame(g)
        /\ \A j \in 1..Len(frames) : r[j] = IF j = Len(frames) THEN f ELSE frames[j]
    BY <1>2, CallMove
  <2> QED  BY <2>1 DEF L
<1>5. \A j \in 1..(L + 1) : j = L + 1 \/ j \in 1..L  BY TopFacts DEF L
<1>6. ~(Enter > Enter)  BY DEF Enter
<1>7. Within(frames', frames)
  BY <1>1, <1>3, <1>4, <1>5, <1>6 DEF Within, FillingIn, Top, L
<1> QED  BY <1>4, <1>7

\* Call: it calls g and will go on at k.
LEMMA Calls ==
  ASSUME ParserInv, NEW k \in Nat \ {0, 1}, NEW g, Call(g, k),
         Top.fn \in DOMAIN Lists => Top.pc > Enter,
         Waits([Top EXCEPT !.pc = k]), CanStart(g, cursor, error),
         g = "block" => Sees(cursor, LBRACE) \/ Top.fn \in {"case", "default"}
  PROVE  CallsOK(frames', cursor, error) /\ Within(frames', frames)
<1> DEFINE f == [Top EXCEPT !.pc = k]
<1>1. Whole(f) /\ f.fn = Top.fn /\ f.pc = k /\ f.arr = Top.arr  BY TopFacts, FrameAt
<1>2. frames' = Append(Put(frames, f), Frame(g))  BY TopFacts DEF Call, Put, Top
<1>3. k # Enter  BY DEF Enter
<1>4. Waits(f)  OBVIOUS
<1> HIDE DEF f
<1>5. g = "block" => Sees(cursor, LBRACE) \/ f.fn \in {"case", "default"}  BY <1>1
<1>6. CanCall(frames, f, g, cursor, error)  BY <1>1, <1>3, <1>4, <1>5 DEF Top, CanCall
<1> QED  BY <1>1, <1>2, <1>6, CallsAs

\* Goto: it becomes g.
LEMMA Gotos ==
  ASSUME ParserInv, NEW g, Goto(g), Top.fn # "program",
         CanStart(g, cursor, error), g = "block" => Sees(cursor, LBRACE)
  PROVE  CallsOK(frames', cursor, error) /\ Within(frames', frames)
<1> DEFINE L == Len(frames)
<1>1. frames' = Append(Front(frames), Frame(g))  BY DEF Goto, Pop, Front
<1>2. CallsOK(frames, cursor, error)  BY DEF ParserInv
<1>3. Frame(g).pc = Enter  BY NewFrame DEF CanStart
<1>4. /\ CallsOK(frames', cursor, error) /\ Len(frames') = L /\ frames'[L] = Frame(g)
      /\ \A j \in 1..(L - 1) : frames'[j] = frames[j]
  <2>1. CanBecome(frames, g, cursor, error)  BY DEF Top, CanBecome
  <2>2. LET r == Append(Front(frames), Frame(g)) IN
        /\ CallsOK(r, cursor, error)
        /\ Len(r) = Len(frames) /\ r[Len(frames)] = Frame(g)
        /\ \A j \in 1..(Len(frames) - 1) : r[j] = frames[j]
    BY <1>2, <2>1, GotoMove
  <2> QED  BY <1>1, <2>2
<1>5. \A j \in 1..L : j = L \/ j \in 1..(L - 1)  BY TopFacts
<1>6. ~(Enter > Enter)  BY DEF Enter
<1>7. Within(frames', frames)
  BY <1>3, <1>4, <1>5, <1>6 DEF Within, FillingIn
<1> QED  BY <1>4, <1>7

\* Return: its caller gets the node.
LEMMA Returns ==
  ASSUME ParserInv, NEW node, Return(node), Top.fn # "program", NEW c, NEW e,
         ~e => ~(c > Len(tokens))
  PROVE  CallsOK(frames', c, e) /\ Within(frames', frames) /\ Len(frames') = Len(frames) - 1
<1>1. frames' = [Front(frames) EXCEPT ![Len(frames) - 1].kids = Append(@, node)]
  BY DEF Return, Pop, Front
<1>2. CallsOK(frames, cursor, error)  BY DEF ParserInv
<1>3. frames[Len(frames)].fn # "program"  BY DEF Top
<1> QED  BY <1>1, <1>2, <1>3, ReturnMove
-----------------------------------------------------------------------------
(***************************************************************************)
(* The actions.                                                            *)
(***************************************************************************)
Moved ==
  /\ cursor' \in 1..(Len(tokens) + 1) /\ error' \in BOOLEAN /\ nodes' \in Nat
  /\ CallsOK(frames', cursor', error')

LEMMA Fails ==
  ASSUME ParserInv, Fail, Top.fn # "program",
         cursor' \in 1..(Len(tokens) + 1), nodes' \in Nat
  PROVE  Moved /\ Within(frames', frames)
<1>1. error' = TRUE /\ Return(NoNode)  BY DEF Fail
<1>2. CallsOK(frames', cursor', TRUE) /\ Within(frames', frames)  BY <1>1, Returns
<1> QED  BY <1>1, <1>2 DEF Moved

LEMMA StraightFacts ==
  ASSUME ParserInv, ~Unwinding, InBounds,
         Top.fn \in DOMAIN Straights, Top.pc <= Len(Straights[Top.fn].steps)
  PROVE  LET s == Straights[Top.fn].steps[Top.pc] IN
         /\ Top.fn \notin DOMAIN Lists /\ Top.fn # "program" /\ Top.fn # "block"
         /\ StepOK(Top.fn, Straights[Top.fn].steps, Top.pc)
         /\ error => Top.fn \in Exprs
         /\ ~error => ~(cursor > Len(tokens))
         /\ s.do \notin {"call", "check"} => cursor <= Len(tokens)
         /\ Top.pc + 1 \in Nat \ {0, 1}
         /\ Top.pc + 1 <= Len(Straights[Top.fn].steps) + 1
         /\ Len(Straights[Top.fn].steps) + 1 \in Nat \ {0, 1}
<1> DEFINE p == Top.pc
           S == Straights[Top.fn].steps
<1>1. p \in Nat \ {0} /\ p <= Len(S)  BY TopFacts
<1>2. StepsOK(Top.fn, S)  BY StraightTables
<1>3. "program" \in DOMAIN Lists /\ "block" \in DOMAIN Lists  BY DEF Lists
<1>4. Top.fn \notin DOMAIN Lists  BY Kinds
<1>5. Top.fn # "program" /\ Top.fn # "block"  BY <1>3, <1>4
<1>6. /\ error => Top.fn \in Exprs \/ (Top.fn = "var_stat" /\ p = 9)
      /\ ~error => ~(cursor > Len(tokens)) \/ (Top.fn = "block" /\ p = Loop)
      /\ Reads(Top) => cursor <= Len(tokens)
  BY GoingFacts
<1>7. S[p].do \notin {"call", "check"} => cursor <= Len(tokens)
  BY <1>1, <1>6 DEF Reads
<1> HIDE DEF p, S
<1>8. \A k \in 1..Len(S) : StepOK(Top.fn, S, k)  BY <1>2 DEF StepsOK
<1>9. Len(S) \in Nat /\ Len(S) >= 1 /\ (Top.fn = "var_stat" => Len(S) = 8)
  <2>1. Len(S) \in 1..9 /\ (Top.fn = "var_stat" => Len(S) = 8)  BY <1>2 DEF StepsOK
  <2>2. \A n \in 1..9 : n \in Nat /\ n >= 1  OBVIOUS
  <2> QED  BY <2>1, <2>2
<1>10. p \in 1..Len(S) /\ p + 1 \in Nat \ {0, 1} /\ p + 1 <= Len(S) + 1
       /\ Len(S) + 1 \in Nat \ {0, 1}
  BY <1>1, <1>9
<1>11. StepOK(Top.fn, S, p)  BY <1>8, <1>10
<1>12. Top.fn = "var_stat" => p # 9
  <2>1. \A n \in Nat : n <= 8 => n # 9  OBVIOUS
  <2> QED  BY <1>1, <1>9, <2>1
<1> QED  BY <1>4, <1>5, <1>6, <1>7, <1>10, <1>11, <1>12 DEF p, S

\* A straight function goes on behind its step, at the cursor c.
LEMMA StraightStays ==
  ASSUME ParserInv, ~Unwinding, InBounds,
         Top.fn \in DOMAIN Straights, Top.pc <= Len(Straights[Top.fn].steps),
         NEW f, Whole(f), f.fn = Top.fn, f.pc = Top.pc + 1, f.arr = Top.arr,
         frames' = Put(frames, f), NEW c, ~error => ~(c > Len(tokens)),
         Straights[Top.fn].steps[Top.pc].do = "when" => c <= Len(tokens) /\ tokens[c] # "EOF",
         Straights[Top.fn].steps[Top.pc].do = "at" =>
           Sees(c, Straights[Top.fn].steps[Top.pc].arg)
  PROVE  CallsOK(frames', c, error) /\ Within(frames', frames)
<1> DEFINE p == Top.pc
           S == Straights[Top.fn].steps
<1>1. /\ Top.fn \notin DOMAIN Lists
      /\ error => Top.fn \in Exprs
      /\ p + 1 \in Nat \ {0, 1} /\ p + 1 <= Len(S) + 1
  BY StraightFacts
<1>2. p \in Nat  BY TopFacts
<1>3. f.pc - 1 = p /\ f.pc = p + 1 /\ f.pc # Enter  BY <1>1, <1>2 DEF Enter
<1>4. Steps(f) = S  BY DEF Steps
<1>5. /\ Steps(f)[f.pc - 1].do = "when" => c <= Len(tokens) /\ tokens[c] # "EOF"
      /\ Steps(f)[f.pc - 1].do = "at" => Sees(c, Steps(f)[f.pc - 1].arg)
  BY <1>3, <1>4
<1>6. f.fn \in DOMAIN Straights /\ f.pc \in Nat \ {0, 1} /\ f.pc <= Len(Steps(f)) + 1
  BY <1>1, <1>3, <1>4
<1> HIDE DEF p, S
<1>7. Runs(f, c)  BY <1>5, <1>6, StraightRuns
<1>8. error => Latched(f)  BY <1>1 DEF Latched
<1>9. CanStay(frames, f, c, error)  BY <1>3, <1>7, <1>8 DEF CanStay, Top
<1> QED  BY <1>1, <1>9, Stays

LEMMA StraightStep ==
  ASSUME ParserInv, ~Unwinding, InBounds, Straight_Step
  PROVE  Moved /\ Within(frames', frames)
<1> DEFINE p == Top.pc
           S == Straights[Top.fn].steps
           s == S[p]
           f == [Top EXCEPT !.pc = p + 1]
<1>1. Top.fn \in DOMAIN Straights /\ p <= Len(S) /\ Step(s) /\ nodes' = nodes
  BY DEF Straight_Step
<1>2. /\ Top.fn \notin DOMAIN Lists /\ Top.fn # "program" /\ Top.fn # "block"
      /\ StepOK(Top.fn, S, p)
      /\ error => Top.fn \in Exprs
      /\ ~error => ~(cursor > Len(tokens))
      /\ s.do \notin {"call", "check"} => cursor <= Len(tokens)
      /\ p + 1 \in Nat \ {0, 1} /\ p + 1 <= Len(S) + 1 /\ Len(S) + 1 \in Nat \ {0, 1}
  BY <1>1, StraightFacts
<1>3. /\ error \in BOOLEAN /\ nodes' \in Nat /\ cursor \in 1..(Len(tokens) + 1)
      /\ nodes \in Nat
  BY <1>1 DEF ParserInv
<1>4. Whole(f) /\ f.fn = Top.fn /\ f.pc = p + 1 /\ f.arr = Top.arr
  BY <1>2, TopFacts, FrameAt
<1>5. At(p + 1) => frames' = Put(frames, f)  BY TopFacts DEF At, Put, Top
<1>6. cursor <= Len(tokens) => cursor + 1 \in 1..(Len(tokens) + 1)  BY TokenFacts
<1>7. s.do \in {"take", "expect", "at", "call", "when", "size", "check"}
  BY <1>2 DEF StepOK
\* What the steps that go on by At have in common.
<1>8. ASSUME At(p + 1), error' = error, cursor' \in 1..(Len(tokens) + 1),
             ~error => ~(cursor' > Len(tokens)),
             s.do = "when" => cursor' <= Len(tokens) /\ tokens[cursor'] # "EOF",
             s.do = "at" => Sees(cursor', s.arg)
      PROVE  Moved /\ Within(frames', frames)
  <2>1. CallsOK(frames', cursor', error) /\ Within(frames', frames)
    <3>1. frames' = Put(frames, f)  BY <1>5, <1>8
    <3> HIDE DEF f
    <3> QED  BY <1>1, <1>4, <1>8, <3>1, StraightStays
  <2> QED  BY <1>3, <1>8, <2>1 DEF Moved
<1> HIDE DEF f, S, s, p
<1>9. CASE s.do = "take"
  <2> DEFINE t == IF Top.tok = 0 THEN cursor ELSE Top.tok
             g == [f EXCEPT !.tok = t]
  <2>1. /\ cursor' = cursor + 1 /\ error' = error
        /\ Update([Top EXCEPT !.pc = p + 1, !.tok = IF @ = 0 THEN cursor ELSE @])
    BY <1>1, <1>9 DEF Step, advance, p
  <2>2. frames' = Put(frames, g)
    <3>1. p + 1 \in Nat \ {0} /\ Whole(Top)  BY <1>2, TopFacts
    <3>2. [Top EXCEPT !.pc = p + 1, !.tok = IF @ = 0 THEN cursor ELSE @] = g
      BY <3>1, FrameBoth DEF f
    <3> HIDE DEF g
    <3> QED  BY <2>1, <3>2 DEF Update, Put
  <2>3. Whole(g) /\ g.fn = Top.fn /\ g.pc = p + 1 /\ g.arr = Top.arr
    <3> HIDE DEF t
    <3> QED  BY <1>4, FrameTok
  <2> HIDE DEF g
  <2>4. cursor <= Len(tokens) /\ Here # "EOF"
    <3>1. Runs(Top, cursor)  BY TopFacts
    <3> QED  BY <1>1, <1>9, <3>1 DEF Runs, Here, s, S, p, Steps
  <2>5. cursor + 1 \in 1..(Len(tokens) + 1) /\ ~(cursor + 1 > Len(tokens))  BY <2>4, TokenFacts
  <2>6. CallsOK(frames', cursor', error) /\ Within(frames', frames)
    <3>1. ~error => ~(cursor' > Len(tokens))  BY <2>1, <2>5
    <3>2. s.do # "when" /\ s.do # "at"  BY <1>9
    <3> QED  BY <1>1, <2>2, <2>3, <3>1, <3>2, StraightStays DEF s, S, p
  <2> QED  BY <1>3, <2>1, <2>5, <2>6 DEF Moved
<1>10. CASE s.do = "expect"
  <2>1. cursor' = cursor + 1 /\ IF Here = s.arg THEN At(p + 1) /\ error' = error ELSE Fail
    BY <1>1, <1>10 DEF Step, advance, p
  <2>2. cursor <= Len(tokens) /\ s.arg # "EOF"  BY <1>2, <1>10 DEF StepOK, s
  <2>3. cursor' \in 1..(Len(tokens) + 1)  BY <1>6, <2>1, <2>2
  <2>4. CASE Here = s.arg
    <3>1. ~(cursor' > Len(tokens))  BY <2>1, <2>2, <2>4, TokenFacts
    <3> QED  BY <1>8, <1>10, <2>1, <2>3, <2>4, <3>1
  <2>5. CASE Here # s.arg  BY <1>2, <1>3, <2>1, <2>3, <2>5, Fails
  <2> QED  BY <2>4, <2>5
<1>11. CASE s.do = "at"
  <2>1. cursor' = cursor /\ IF Here = s.arg THEN At(p + 1) /\ error' = error ELSE Fail
    BY <1>1, <1>11 DEF Step, p
  <2>2. cursor <= Len(tokens)  BY <1>2, <1>11
  <2>3. cursor' \in 1..(Len(tokens) + 1) /\ ~(cursor > Len(tokens))  BY <1>3, <2>1, <2>2, TokenFacts
  <2>4. CASE Here = s.arg
    <3>1. Sees(cursor', s.arg)  BY <2>1, <2>2, <2>4 DEF Sees, Here
    <3> QED  BY <1>8, <1>11, <2>1, <2>3, <2>4, <3>1
  <2>5. CASE Here # s.arg  BY <1>2, <1>3, <2>1, <2>3, <2>5, Fails
  <2> QED  BY <2>4, <2>5
<1>12. CASE s.do = "call"
  <2>1. Call(s.arg, p + 1) /\ cursor' = cursor /\ error' = error  BY <1>1, <1>12 DEF Step, p
  <2>2. /\ s.arg \in Callees /\ (Top.fn \in Exprs => s.arg \in Exprs)
        /\ s.arg = "switch_block" => Top.fn = "switch_stat"
    BY <1>2, <1>12 DEF StepOK, s
  <2>3. /\ s.arg \in Functions \ {"program"} /\ s.arg \notin DOMAIN Straights
        /\ s.arg \notin {"array_lit", "compound", "case", "default", "switch_stat"}
    BY <2>2 DEF Callees, Functions, Straights, Lists, Levels, Choices
  <2>4. Runs(Frame(s.arg), cursor)  BY <2>3, Entered
  <2>5. Spoken(Frame(s.arg))
    <3>1. Frame(s.arg).fn = s.arg  BY <2>3, NewFrame
    <3>2. Spoken(Top)  BY TopFacts
    <3> QED  BY <2>2, <2>3, <3>1, <3>2 DEF Spoken
  <2>6. CanStart(s.arg, cursor, error)  BY <1>2, <2>2, <2>3, <2>4, <2>5 DEF CanStart
  <2>7. s.arg = "block" => Sees(cursor, LBRACE) \/ Top.fn \in {"case", "default"}
    <3>1. Runs(Top, cursor)  BY TopFacts
    <3> QED  BY <1>1, <1>12, <3>1 DEF Runs, s, S, p, Steps
  <2>8. Waits(f)
    <3>1. f.pc > 1 /\ f.pc - 1 = p
      <4>1. p \in Nat \ {0}  BY TopFacts DEF p
      <4> QED  BY <1>4, <4>1
    <3>2. Steps(f) = S  BY <1>4 DEF Steps, S
    <3>3. Top.fn \notin DOMAIN Levels /\ Top.fn # "postfixed" /\ Top.fn \notin Choices \cup {"literal"}
      BY <1>1, Kinds
    <3> QED  BY <1>2, <1>4, <1>12, <3>1, <3>2, <3>3 DEF Waits, s
  <2>9. CallsOK(frames', cursor, error) /\ Within(frames', frames)
    BY <1>2, <2>1, <2>6, <2>7, <2>8, Calls DEF f
  <2> QED  BY <1>3, <2>1, <2>9 DEF Moved
<1>13. CASE s.do = "when"
  <2>1. /\ cursor' = cursor /\ error' = error
        /\ IF Here = s.arg THEN At(p + 1) ELSE At(Len(S) + 1)
    BY <1>1, <1>13 DEF Step, p, S
  <2>2. cursor <= Len(tokens) /\ s.arg # "EOF"  BY <1>2, <1>13 DEF StepOK, s
  <2>3. cursor' \in 1..(Len(tokens) + 1) /\ ~(cursor > Len(tokens))  BY <1>3, <2>1, <2>2, TokenFacts
  <2>4. CASE Here = s.arg
    <3>1. tokens[cursor'] # "EOF"  BY <2>1, <2>2, <2>4 DEF Here
    <3> QED  BY <1>8, <1>13, <2>1, <2>2, <2>3, <2>4, <3>1
  <2>5. CASE Here # s.arg
    <3> DEFINE n == Len(S) + 1
               g == [Top EXCEPT !.pc = n]
    <3>1. n \in Nat \ {0, 1} /\ At(n)  BY <1>2, <2>1, <2>5
    <3> HIDE DEF n
    <3>2. g.fn = Top.fn /\ g.pc = n  BY <3>1, TopFacts, FrameAt
    <3> HIDE DEF g
    <3>3. Steps(g) = S  BY <3>2 DEF Steps, S
    <3>4. n = Len(S) + 1 /\ ~(n <= Len(S)) /\ n <= Len(S) + 1
      <4>1. Len(S) \in Nat
        <5>1. StepsOK(Top.fn, S)  BY <1>1, StraightTables DEF S
        <5> QED  BY <5>1 DEF StepsOK
      <4> QED  BY <4>1 DEF n
    <3>5. Top.fn \notin DOMAIN Levels /\ Top.fn # "postfixed"  BY <1>1, Kinds
    <3>6. Runs(g, cursor)  BY <1>2, <3>2, <3>3, <3>4, <3>5 DEF Runs
    <3>7. error => Latched(g)  BY <1>2, <3>2 DEF Latched
    <3>8. CallsOK(frames', cursor, error) /\ Within(frames', frames)
      BY <1>2, <2>3, <3>1, <3>6, <3>7, Ats DEF g
    <3> QED  BY <1>3, <2>1, <3>8 DEF Moved
  <2> QED  BY <2>4, <2>5
<1>14. CASE s.do = "size"
  <2>1. /\ cursor' = cursor /\ error' = error
        /\ IF Here # s.arg THEN Call("assign", p + 1)
           ELSE Update([Top EXCEPT !.pc = p + 1, !.kids = Append(@, NoNode)])
    BY <1>1, <1>14 DEF Step, p
  <2>2. ~(cursor > Len(tokens))  BY <1>2, <1>14, TokenFacts
  <2>3. CASE Here # s.arg
    <3>1. /\ "assign" \in Functions \ {"program"} /\ "assign" \notin DOMAIN Straights
      BY DEF Functions, Straights, Levels
    <3>2. Runs(Frame("assign"), cursor)  BY <3>1, Entered
    <3>3. Spoken(Frame("assign"))  BY <3>1, NewFrame DEF Spoken
    <3>4. "assign" \in Exprs  BY DEF Exprs
    <3>5. CanStart("assign", cursor, error)  BY <1>2, <2>2, <3>1, <3>2, <3>3, <3>4 DEF CanStart
    <3>6. Waits(f)
      <4>1. f.pc > 1 /\ f.pc - 1 = p
        <5>1. p \in Nat \ {0}  BY TopFacts DEF p
        <5> QED  BY <1>4, <5>1
      <4>2. Steps(f) = S  BY <1>4 DEF Steps, S
      <4>3. Top.fn \notin DOMAIN Levels /\ Top.fn # "postfixed" /\ Top.fn \notin Choices \cup {"literal"}
        BY <1>1, Kinds
      <4> QED  BY <1>2, <1>4, <1>14, <4>1, <4>2, <4>3 DEF Waits, s
    <3>7. CallsOK(frames', cursor, error) /\ Within(frames', frames)
      BY <1>2, <2>1, <2>3, <3>5, <3>6, Calls DEF f
    <3> QED  BY <1>3, <2>1, <3>7 DEF Moved
  <2>4. CASE Here = s.arg
    <3> DEFINE kids == Append(Top.kids, NoNode)
               g == [f EXCEPT !.kids = kids]
    <3>1. frames' = Put(frames, g)
      <4>1. p + 1 \in Nat \ {0} /\ Whole(Top)  BY <1>2, TopFacts
      <4>2. [Top EXCEPT !.pc = p + 1, !.kids = Append(@, NoNode)] = g
        BY <4>1, FrameBoth DEF f
      <4> HIDE DEF g
      <4> QED  BY <2>1, <2>4, <4>2 DEF Update, Put
    <3>2. Listed(kids)  BY TopFacts, ListedAppend
    <3> HIDE DEF kids
    <3>3. Whole(g) /\ g.fn = Top.fn /\ g.pc = p + 1 /\ g.arr = Top.arr
      BY <1>4, <3>2, FrameKids
    <3> HIDE DEF g
    <3>4. s.do # "when" /\ s.do # "at"  BY <1>14
    <3>5. CallsOK(frames', cursor, error) /\ Within(frames', frames)
      BY <1>1, <2>2, <3>1, <3>3, <3>4, StraightStays DEF s, S, p
    <3> QED  BY <1>3, <2>1, <3>5 DEF Moved
  <2> QED  BY <2>3, <2>4
<1>15. CASE s.do = "check"
  <2>1. /\ cursor' = cursor
        /\ \/ Fail
           \/ Return(Top.kids[Len(Top.kids)]) /\ error' = error
           \/ At(p + 1) /\ error' = error
    BY <1>1, <1>15 DEF Step, p
  <2>2. cursor' \in 1..(Len(tokens) + 1)  BY <1>3, <2>1
  <2>3. CASE Fail  BY <1>2, <1>3, <2>2, <2>3, Fails
  <2>4. CASE Return(Top.kids[Len(Top.kids)]) /\ error' = error
    <3>1. CallsOK(frames', cursor, error) /\ Within(frames', frames)
      BY <1>2, <2>4, Returns
    <3> QED  BY <1>3, <2>1, <2>4, <3>1 DEF Moved
  <2>5. CASE At(p + 1) /\ error' = error
    BY <1>2, <1>8, <1>15, <2>1, <2>2, <2>5
  <2> QED  BY <2>1, <2>3, <2>4, <2>5
<1> QED  BY <1>7, <1>9, <1>10, <1>11, <1>12, <1>13, <1>14, <1>15

\* What the functions outside the tables' kinds read.
LEMMA ReadsFacts ==
  ASSUME NEW f
  PROVE  /\ f.fn \in Choices \cup {"literal"} => Reads(f)
         /\ f.fn \in DOMAIN Levels \cup {"postfixed"} /\ f.pc # Enter => Reads(f)
         /\ f.fn \in DOMAIN Lists \ Statements => Reads(f)
         /\ f.fn \in Statements /\ f.pc = Enter => Reads(f)
<1>1. Statements \subseteq DOMAIN Lists  BY DEF Statements, Lists
<1> QED  BY <1>1, Kinds DEF Reads

LEMMA ListNames ==
  DOMAIN Lists = {"array_lit", "compound", "fields", "parameters", "entries", "args", "block",
                  "switch_block", "program"}
BY DEF Lists

LEMMA NewNodes ==
  ASSUME NEW s, NEW kids, Len(kids) \in Nat
  PROVE  new_node(s, kids) \in Nat
<1> DEFINE K == {k \in 1..Len(kids) :
                   /\ kids[k].type # "LIST"
                   /\ ~(s.nullable /\ k = Len(kids) /\ kids[k].type = "NONE")}
<1>1. K \subseteq 1..Len(kids)  OBVIOUS
<1>2. IsFiniteSet(1..Len(kids))  BY FS_Interval
<1> HIDE DEF K
<1>3. IsFiniteSet(K)  BY <1>1, <1>2, FS_Subset
<1>4. Cardinality(K) \in Nat  BY <1>3, FS_CardinalityType
<1> QED  BY <1>4 DEF new_node, K

LEMMA ChildrenCounted == \A f \in DOMAIN Straights : Straights[f].children \in Nat
<1>1. /\ parse_return_stat.children = 1 /\ parse_defer_stat.children = 1
      /\ parse_break_stat.children = 0 /\ parse_continue_stat.children = 0
      /\ parse_var_stat.children = 3 /\ parse_enum_stat.children = 1
      /\ parse_struct_stat.children = 1
  BY DEF Straight, parse_return_stat, parse_defer_stat, parse_break_stat, parse_continue_stat,
     parse_var_stat, parse_enum_stat, parse_struct_stat
<1>2. /\ parse_fn_stat.children = 4 /\ parse_if_stat.children = 3
      /\ parse_while_stat.children = 2 /\ parse_switch_stat.children = 2
      /\ switch_case.children = 2 /\ switch_default.children = 1
  BY DEF Straight, parse_fn_stat, parse_if_stat, parse_while_stat, parse_switch_stat,
     switch_case, switch_default
<1>3. /\ field.children = 2 /\ parameter.children = 2 /\ enum_entry.children = 2
      /\ argument.children = 1 /\ parse_array_type.children = 2 /\ unary.children = 1
      /\ prefixed.children = 1 /\ cast.children = 2 /\ parenthesised.children = 1
  BY DEF Straight, field, parameter, enum_entry, argument, parse_array_type, unary, prefixed,
     cast, parenthesised
<1> QED  BY <1>1, <1>2, <1>3 DEF Straights

LEMMA BuildStep ==
  ASSUME ParserInv, ~Unwinding, InBounds, Build
  PROVE  Moved /\ Within(frames', frames)
<1> DEFINE s == Straights[Top.fn]
           kids == Padded(Top.kids, s.children)
<1>1. Top.fn \in DOMAIN Straights /\ cursor' = cursor /\ error' = error
  BY DEF Build
<1>2. /\ error \in BOOLEAN /\ nodes \in Nat /\ cursor \in 1..(Len(tokens) + 1)  BY DEF ParserInv
<1>3. Len(kids) \in Nat
  <2> DEFINE m == IF Len(Top.kids) < s.children THEN s.children ELSE Len(Top.kids)
             S == Items(kids)
  <2>1. m \in Nat  BY <1>1, TopFacts, ChildrenCounted
  <2>2. DOMAIN kids = 1..m /\ kids = [k \in 1..m |-> kids[k]]  BY DEF Padded
  <2> HIDE DEF m, kids
  <2>3. kids \in [1..m -> S]  BY <2>2 DEF Items
  <2>4. kids \in Seq(S)  BY <2>1, <2>3, SeqDef
  <2> QED  BY <2>4
<1>4. "program" \in DOMAIN Lists /\ "block" \in DOMAIN Lists  BY DEF Lists
<1>5. Top.fn # "program" /\ Top.fn # "block"  BY <1>1, <1>4, Kinds
<1>6. ~error => ~(cursor > Len(tokens))  BY <1>5, GoingFacts
<1>7. new_node(s, kids) \in Nat  BY <1>3, NewNodes
<1>8. /\ Return(kids[1]) \/ Return(Node(s.builds, Top.tok, kids))
      /\ nodes' = nodes \/ nodes' = nodes + new_node(s, kids)
  BY DEF Build
<1>9. nodes' \in Nat  BY <1>2, <1>7, <1>8
<1> HIDE DEF kids, s
<1>10. CallsOK(frames', cursor, error) /\ Within(frames', frames)
  BY <1>5, <1>6, <1>8, Returns
<1> QED  BY <1>1, <1>2, <1>9, <1>10 DEF Moved

LEMMA ChooseStep ==
  ASSUME ParserInv, ~Unwinding, InBounds, Choose
  PROVE  Moved /\ Within(frames', frames)
<1> DEFINE g == Choice(Top.fn, Here)
<1>1. /\ Top.fn \in Choices /\ Goto(g) /\ cursor' = cursor /\ error' = error /\ nodes' = nodes
  BY DEF Choose
<1>2. /\ error \in BOOLEAN /\ nodes \in Nat /\ cursor \in 1..(Len(tokens) + 1)  BY DEF ParserInv
<1>3. /\ g \in (DOMAIN Straights \cup DOMAIN Levels \cup Choices \cup
                 {"block", "postfixed", "literal"}) \ {"case", "default"}
      /\ g \in DOMAIN Straights => Here # "EOF"
      /\ g = "block" => Here = LBRACE
      /\ g = "switch_stat" => Here = "switch"
      /\ Top.fn \in Exprs => g \in Exprs
  BY <1>1, ChoiceFacts
<1> HIDE DEF g
<1>4. Top.fn \notin DOMAIN Lists /\ Top.fn \notin DOMAIN Straights  BY <1>1, Kinds
<1>5. Top.fn # "program" /\ Top.fn # "block" /\ Top.fn # "var_stat"
  <2>1. "var_stat" \in DOMAIN Straights  BY DEF Straights
  <2> QED  BY <1>4, <2>1, ListNames
<1>6. cursor <= Len(tokens) /\ ~(cursor > Len(tokens)) /\ (error => Top.fn \in Exprs)
  BY <1>1, <1>5, GoingFacts, ReadsFacts, TokenFacts
<1>7. g \in Functions \ {"program"} /\ g \notin {"array_lit", "compound", "switch_block"}
  BY <1>3, Kinds, ListNames DEF Functions
<1>8. Runs(Frame(g), cursor)
  BY <1>3, <1>6, <1>7, Entered DEF Here
<1>9. Spoken(Frame(g))
  <2>1. Frame(g).fn = g  BY <1>7, NewFrame
  <2>2. g = "switch_stat" => Contains({"switch"})  BY <1>3, <1>6, TokenFacts
  <2> QED  BY <1>3, <1>7, <2>1, <2>2 DEF Spoken
<1>10. CanStart(g, cursor, error)  BY <1>3, <1>6, <1>7, <1>8, <1>9 DEF CanStart
<1>11. g = "block" => Sees(cursor, LBRACE)  BY <1>3, <1>6 DEF Sees, Here
<1>12. CallsOK(frames', cursor, error) /\ Within(frames', frames)
  BY <1>1, <1>5, <1>10, <1>11, Gotos
<1> QED  BY <1>1, <1>2, <1>12 DEF Moved

LEMMA LiteralStep ==
  ASSUME ParserInv, ~Unwinding, InBounds, parse_literal_term
  PROVE  Moved /\ Within(frames', frames)
<1>1. Top.fn = "literal" /\ nodes' = nodes  BY DEF parse_literal_term
<1>2. /\ error \in BOOLEAN /\ nodes \in Nat /\ nodes' \in Nat /\ cursor \in 1..(Len(tokens) + 1)
  BY <1>1 DEF ParserInv
<1>3. cursor <= Len(tokens) /\ ~(cursor > Len(tokens))
  BY <1>1, GoingFacts, ReadsFacts, TokenFacts
<1>4. cursor + 1 \in 1..(Len(tokens) + 1)  BY <1>3, TokenFacts
<1>5. \/ /\ cursor' = cursor + 1 /\ error' = error /\ Here # "EOF"
         /\ \E node : Return(node)
      \/ /\ cursor' = cursor /\ error' = error /\ Here # "EOF"
         /\ \E g \in {"parenthesised", "array_lit", "compound"} : Goto(g)
      \/ cursor' = cursor + 1 /\ Fail
  <2>1. \/ /\ Here \in DOMAIN Literals
           /\ advance /\ Return(Node(Literals[Here], cursor, <<>>)) /\ UNCHANGED error
        \/ Here = "(" /\ Goto("parenthesised") /\ UNCHANGED <<cursor, error>>
        \/ Here = "[" /\ Goto("array_lit") /\ UNCHANGED <<cursor, error>>
        \/ Here = LBRACE /\ Goto("compound") /\ UNCHANGED <<cursor, error>>
        \/ Here = SEMICOLON /\ Semicolon
        \/ Unexpected
    BY DEF parse_literal_term
  <2>2. "EOF" \notin DOMAIN Literals  BY DEF Literals
  <2>3. CASE /\ Here \in DOMAIN Literals
             /\ advance /\ Return(Node(Literals[Here], cursor, <<>>)) /\ UNCHANGED error
    BY <2>2, <2>3 DEF advance
  <2>4. CASE Here = "(" /\ Goto("parenthesised") /\ UNCHANGED <<cursor, error>>
    BY <2>4
  <2>5. CASE Here = "[" /\ Goto("array_lit") /\ UNCHANGED <<cursor, error>>
    BY <2>5
  <2>6. CASE Here = LBRACE /\ Goto("compound") /\ UNCHANGED <<cursor, error>>
    BY <2>6, NotTheEnd
  <2>7. CASE Here = SEMICOLON /\ Semicolon
    BY <2>7, NotTheEnd DEF Semicolon, advance
  <2>8. CASE Unexpected
    BY <2>8 DEF Unexpected, advance
  <2> QED  BY <2>1, <2>3, <2>4, <2>5, <2>6, <2>7, <2>8
<1>6. CASE /\ cursor' = cursor + 1 /\ error' = error /\ Here # "EOF"
           /\ \E node : Return(node)
  <2>1. PICK node : Return(node)  BY <1>6
  <2>2. ~(cursor' > Len(tokens))  BY <1>3, <1>6, TokenFacts
  <2>3. CallsOK(frames', cursor', error) /\ Within(frames', frames)
    BY <1>1, <2>1, <2>2, Returns
  <2> QED  BY <1>2, <1>4, <1>6, <2>3 DEF Moved
<1>7. CASE /\ cursor' = cursor /\ error' = error /\ Here # "EOF"
           /\ \E g \in {"parenthesised", "array_lit", "compound"} : Goto(g)
  <2>1. PICK g \in {"parenthesised", "array_lit", "compound"} : Goto(g)  BY <1>7
  <2>2. g \in Functions \ {"program"}  BY DEF Functions, Straights, Lists
  <2>3. Runs(Frame(g), cursor)  BY <1>3, <1>7, <2>2, Entered DEF Here
  <2>4. Spoken(Frame(g))
    <3>1. Frame(g).fn = g  BY <2>2, NewFrame
    <3> QED  BY <3>1 DEF Spoken
  <2>5. g \in Exprs  BY DEF Exprs
  <2>6. CanStart(g, cursor, error)  BY <1>3, <2>2, <2>3, <2>4, <2>5 DEF CanStart
  <2>7. CallsOK(frames', cursor, error) /\ Within(frames', frames)
    BY <1>1, <2>1, <2>6, Gotos
  <2> QED  BY <1>2, <1>7, <2>7 DEF Moved
<1>8. CASE cursor' = cursor + 1 /\ Fail  BY <1>1, <1>2, <1>4, <1>8, Fails
<1> QED  BY <1>5, <1>6, <1>7, <1>8

\* A function of an expression is begun by another without a look ahead.
LEMMA BelowStarts ==
  ASSUME ParserInv, NEW g \in Exprs, NEW c, g \in DOMAIN Levels \cup Choices \cup {"args"},
         ~error => ~(c > Len(tokens))
  PROVE  CanStart(g, c, error) /\ g # "block"
<1>1. g \notin DOMAIN Straights /\ g \notin {"array_lit", "compound", "case", "default",
        "program", "block", "switch_block", "switch_stat"}
  <2>1. {"case", "default", "switch_stat"} \subseteq DOMAIN Straights  BY DEF Straights
  <2> QED  BY <2>1, Kinds, ListNames
<1>2. g \in Functions  BY ListNames DEF Functions
<1>3. Runs(Frame(g), c)  BY <1>1, <1>2, Entered
<1>4. Spoken(Frame(g))
  <2>1. Frame(g).fn = g  BY <1>2, NewFrame
  <2> QED  BY <1>1, <2>1 DEF Spoken
<1> QED  BY <1>1, <1>2, <1>3, <1>4 DEF CanStart

LEMMA LevelFacts ==
  ASSUME ParserInv, ~Unwinding, InBounds, Top.fn \in DOMAIN Levels \cup {"postfixed"}
  PROVE  /\ Top.fn \notin DOMAIN Lists /\ Top.fn \notin DOMAIN Straights
         /\ Top.fn \notin Choices \cup {"literal"}
         /\ Top.fn # "program" /\ Top.fn \in Exprs
         /\ ~error => ~(cursor > Len(tokens))
         /\ Top.pc # Enter => cursor <= Len(tokens)
<1>1. /\ Top.fn \notin DOMAIN Lists /\ Top.fn \notin DOMAIN Straights
      /\ Top.fn \notin Choices \cup {"literal"}
  BY Kinds
<1>2. Top.fn # "program" /\ Top.fn # "block"  BY <1>1, ListNames
<1>3. Top.fn \in Exprs
  <2>1. "postfixed" \in Exprs  BY DEF Exprs
  <2> QED  BY <2>1, LevelTables
<1>4. ~error => ~(cursor > Len(tokens))  BY <1>2, GoingFacts
<1>5. Top.pc # Enter => cursor <= Len(tokens)  BY GoingFacts, ReadsFacts
<1> QED  BY <1>1, <1>2, <1>3, <1>4, <1>5

LEMMA OperandStep ==
  ASSUME ParserInv, ~Unwinding, InBounds, Operand
  PROVE  Moved /\ Within(frames', frames)
<1> DEFINE g == Levels[Top.fn].below
           f == [Top EXCEPT !.pc = LeftDone]
<1>1. /\ Top.fn \in DOMAIN Levels /\ Top.pc = Enter /\ Call(g, LeftDone)
      /\ cursor' = cursor /\ error' = error /\ nodes' = nodes
  BY DEF Operand
<1>2. /\ error \in BOOLEAN /\ nodes \in Nat /\ cursor \in 1..(Len(tokens) + 1)  BY DEF ParserInv
<1>3. /\ Top.fn \notin DOMAIN Lists /\ Top.fn \notin DOMAIN Straights
      /\ Top.fn \notin Choices \cup {"literal"} /\ Top.fn # "postfixed"
      /\ ~error => ~(cursor > Len(tokens))
  BY <1>1, LevelFacts, Kinds
<1>4. g \in (DOMAIN Levels \cup Choices) \cap Exprs  BY <1>1, LevelTables
<1> HIDE DEF g
<1>5. CanStart(g, cursor, error) /\ g # "block"  BY <1>3, <1>4, BelowStarts
<1>6. LeftDone \in Nat \ {0, 1}  BY DEF LeftDone
<1>7. Waits(f)
  <2>1. f.fn = Top.fn /\ f.pc = LeftDone /\ f.kids = Top.kids  BY <1>6, TopFacts, FrameAt
  <2>2. Len(Top.kids) = Top.pc - 1
    <3>1. Runs(Top, cursor)  BY TopFacts
    <3> QED  BY <1>1, <3>1 DEF Runs
  <2>3. Len(Top.kids) = LeftDone - 2  BY <1>1, <2>2 DEF Enter, LeftDone
  <2> HIDE DEF f
  <2> QED  BY <1>3, <2>1, <2>3 DEF Waits
<1>8. CallsOK(frames', cursor, error) /\ Within(frames', frames)
  BY <1>1, <1>3, <1>5, <1>6, <1>7, Calls
<1> QED  BY <1>1, <1>2, <1>8 DEF Moved

\* The frame that waits for a right operand is pushed anew, which is the same.
LEMMA FrontAppend ==
  ASSUME NEW q, Listed(q), Len(q) >= 1, NEW f, NEW g
  PROVE  Append(Front(q), f) \o <<g>> = Append(Put(q, f), g)
<1> DEFINE L == Len(q)
           a == Append(Front(q), f)
           b == Put(q, f)
<1>1. L \in Nat /\ L \in 1..L  BY ListedFacts
<1>2. Listed(Front(q)) /\ Len(Front(q)) = L - 1 /\ \A k \in 1..(L - 1) : Front(q)[k] = q[k]
  BY ListedFront DEF Front
<1>3. /\ Listed(a) /\ Len(a) = Len(Front(q)) + 1 /\ a[Len(Front(q)) + 1] = f
      /\ \A k \in 1..Len(Front(q)) : a[k] = Front(q)[k]
  BY <1>2, ListedAppend
<1>4. Listed(b) /\ Len(b) = L /\ b[L] = f /\ \A k \in 1..L : k # L => b[k] = q[k]
  BY <1>1, ListedExcept DEF Put
<1> HIDE DEF a, b, L
<1>5. Len(a) = L /\ a[L] = f /\ \A k \in 1..(L - 1) : a[k] = q[k]  BY <1>1, <1>2, <1>3
<1>6. \A k \in 1..L : a[k] = b[k]  BY <1>1, <1>4, <1>5
<1>7. DOMAIN a = 1..L /\ DOMAIN b = 1..L /\ a \in Seq(Items(a)) /\ b \in Seq(Items(b))
  BY <1>3, <1>4, <1>5, ListedFacts
<1>8. a = [k \in DOMAIN a |-> a[k]] /\ b = [k \in DOMAIN b |-> b[k]]  BY <1>7
<1>9. a = b  BY <1>6, <1>7, <1>8
<1>10. b \o <<g>> = Append(b, g)
  <2>1. b \in Seq(Items(b) \cup {g}) /\ g \in Items(b) \cup {g}  BY <1>7, SeqMonotonic
  <2> QED  BY <2>1, AppendIsConcat
<1> QED  BY <1>9, <1>10 DEF a, b

LEMMA JoinStep ==
  ASSUME ParserInv, ~Unwinding, InBounds, Join
  PROVE  Moved /\ Within(frames', frames)
<1> DEFINE level == Levels[Top.fn]
           left == IF Top.pc = RightDone THEN Node(level.builds, Top.tok, Top.kids) ELSE Top.kids[1]
           f == [Top EXCEPT !.pc = RightDone, !.tok = cursor, !.kids = <<left>>]
<1>1. /\ Top.fn \in DOMAIN Levels /\ Top.pc \in {LeftDone, RightDone}
      /\ \/ Fail /\ cursor' = cursor /\ nodes' = nodes
         \/ /\ nodes' = nodes \/ nodes' = nodes + new_node([nullable |-> FALSE], Top.kids)
            /\ error' = error
            /\ \/ Return(left) /\ cursor' = cursor
               \/ /\ Here \in level.ops /\ RightOperand(level, left)
                  /\ cursor' = cursor \/ cursor' = cursor + 1
  BY DEF Join, advance
<1>2. /\ error \in BOOLEAN /\ nodes \in Nat /\ cursor \in 1..(Len(tokens) + 1)  BY DEF ParserInv
<1>3. /\ Top.fn \notin DOMAIN Lists /\ Top.fn \notin DOMAIN Straights
      /\ Top.fn \notin Choices \cup {"literal"} /\ Top.fn # "postfixed"
      /\ Top.fn # "program" /\ Top.fn \in Exprs
      /\ cursor <= Len(tokens)
  <2>1. Top.pc # Enter  BY <1>1 DEF Enter, LeftDone, RightDone
  <2> QED  BY <1>1, <2>1, LevelFacts, Kinds
<1>4. ~(cursor > Len(tokens))  BY <1>3, TokenFacts
<1>5. new_node([nullable |-> FALSE], Top.kids) \in Nat  BY TopFacts, NewNodes
<1>6. CASE Fail /\ cursor' = cursor /\ nodes' = nodes  BY <1>2, <1>3, <1>6, Fails
<1>7. ASSUME nodes' = nodes \/ nodes' = nodes + new_node([nullable |-> FALSE], Top.kids)
      PROVE  nodes' \in Nat
  BY <1>2, <1>5, <1>7
<1>8. CASE /\ nodes' = nodes \/ nodes' = nodes + new_node([nullable |-> FALSE], Top.kids)
           /\ error' = error /\ Return(left) /\ cursor' = cursor
  <2>1. CallsOK(frames', cursor, error) /\ Within(frames', frames)  BY <1>3, <1>4, <1>8, Returns
  <2> QED  BY <1>2, <1>7, <1>8, <2>1 DEF Moved
<1>9. CASE /\ nodes' = nodes \/ nodes' = nodes + new_node([nullable |-> FALSE], Top.kids)
           /\ error' = error
           /\ Here \in level.ops /\ RightOperand(level, left)
           /\ cursor' = cursor \/ cursor' = cursor + 1
  <2> DEFINE g == level.right
  <2>1. g \in (DOMAIN Levels \cup Choices \cup {"args"}) \cap Exprs /\ Here # "EOF"
    BY <1>1, <1>9, LevelTables
  <2>2. frames' = Append(Put(frames, f), Frame(g))
    <3>1. frames' = Append(Front(frames), f) \o <<Frame(g)>>
      BY <1>9 DEF RightOperand, Pop, Front
    <3> HIDE DEF f, g
    <3> QED  BY <3>1, TopFacts, FrontAppend
  <2>3. /\ Whole(f) /\ f.fn = Top.fn /\ f.pc = RightDone /\ f.kids = <<left>> /\ f.arr = Top.arr
    <3> DEFINE kids == <<left>>
               f1 == [Top EXCEPT !.pc = RightDone]
               f2 == [f1 EXCEPT !.tok = cursor]
    <3>1. RightDone \in Nat \ {0} /\ Whole(Top)  BY TopFacts DEF RightDone
    <3>2. Listed(kids)
      <4>1. kids \in Seq({left})  OBVIOUS
      <4> HIDE DEF kids
      <4> QED  BY <4>1, ListedSeq
    <3> HIDE DEF left
    <3> HIDE DEF kids
    <3>3. f = [f2 EXCEPT !.kids = kids]  BY <3>1, FrameBoth DEF kids
    <3>4. Whole(f1) /\ f1.fn = Top.fn /\ f1.pc = RightDone /\ f1.arr = Top.arr
      BY <3>1, FrameAt
    <3> HIDE DEF f1
    <3>5. Whole(f2) /\ f2.fn = f1.fn /\ f2.pc = f1.pc /\ f2.arr = f1.arr
      BY <3>4, FrameTok
    <3> HIDE DEF f2, f
    <3> QED  BY <3>2, <3>3, <3>4, <3>5, FrameKids DEF kids
  <2>4. Waits(f)
    <3>1. Len(<<left>>) = 1 /\ RightDone - 2 = 1  BY DEF RightDone
    <3> HIDE DEF f, left
    <3> QED  BY <1>1, <1>3, <2>3, <3>1 DEF Waits
  <2>5. cursor' \in 1..(Len(tokens) + 1) /\ ~(cursor' > Len(tokens))
    BY <1>2, <1>3, <1>4, <1>9, <2>1, TokenFacts
  <2> HIDE DEF f, g
  <2>6. CanStart(g, cursor', error) /\ g # "block"  BY <2>1, <2>5, BelowStarts
  <2>7. RightDone # Enter  BY DEF RightDone, Enter
  <2>8. CanCall(frames, f, g, cursor', error)
    BY <2>3, <2>4, <2>6, <2>7 DEF CanCall, Top
  <2>9. CallsOK(frames', cursor', error) /\ Within(frames', frames)
    BY <1>3, <2>2, <2>3, <2>8, CallsAs
  <2> QED  BY <1>2, <1>7, <1>9, <2>5, <2>9 DEF Moved
<1> QED  BY <1>1, <1>6, <1>8, <1>9

LEMMA PostfixStep ==
  ASSUME ParserInv, ~Unwinding, InBounds, Postfix
  PROVE  Moved /\ Within(frames', frames)
<1>1. Top.fn = "postfixed" /\ error' = error  BY DEF Postfix
<1>2. /\ error \in BOOLEAN /\ nodes \in Nat /\ cursor \in 1..(Len(tokens) + 1)  BY DEF ParserInv
<1>3. /\ Top.fn \notin DOMAIN Lists /\ Top.fn \notin DOMAIN Straights
      /\ Top.fn \notin Choices \cup {"literal"} /\ Top.fn \notin DOMAIN Levels
      /\ Top.fn # "program" /\ Top.fn \in Exprs
      /\ ~error => ~(cursor > Len(tokens))
      /\ Top.pc # Enter => cursor <= Len(tokens)
  BY <1>1, LevelFacts, Kinds
<1>4. \/ Call("call", LeftDone) /\ cursor' = cursor /\ nodes' = nodes
      \/ Return(Top.kids[1]) /\ cursor' = cursor /\ nodes' = nodes
      \/ /\ Top.pc = LeftDone /\ Here \in UpdateOps
         /\ cursor' = cursor + 1 /\ nodes' = nodes + 1
         /\ Return(Node("UPDATE_EXPR", cursor, Top.kids))
  BY DEF Postfix, Updated, advance
<1>5. CASE Call("call", LeftDone) /\ cursor' = cursor /\ nodes' = nodes
  <2> DEFINE f == [Top EXCEPT !.pc = LeftDone]
  <2>1. "call" \in DOMAIN Levels /\ "call" \in Exprs  BY DEF Levels, Exprs
  <2>2. CanStart("call", cursor, error) /\ "call" # "block"
    BY <1>3, <2>1, BelowStarts
  <2>3. LeftDone \in Nat \ {0, 1}  BY DEF LeftDone
  <2>4. Waits(f)
    <3>1. f.fn = Top.fn /\ f.pc = LeftDone  BY <2>3, TopFacts, FrameAt
    <3> HIDE DEF f
    <3> QED  BY <1>1, <1>3, <3>1 DEF Waits
  <2>5. CallsOK(frames', cursor, error) /\ Within(frames', frames)
    BY <1>3, <1>5, <2>2, <2>3, <2>4, Calls
  <2> QED  BY <1>1, <1>2, <1>5, <2>5 DEF Moved
<1>6. CASE Return(Top.kids[1]) /\ cursor' = cursor /\ nodes' = nodes
  <2>1. CallsOK(frames', cursor, error) /\ Within(frames', frames)  BY <1>3, <1>6, Returns
  <2> QED  BY <1>1, <1>2, <1>6, <2>1 DEF Moved
<1>7. CASE /\ Top.pc = LeftDone /\ Here \in UpdateOps
           /\ cursor' = cursor + 1 /\ nodes' = nodes + 1
           /\ Return(Node("UPDATE_EXPR", cursor, Top.kids))
  <2>1. cursor <= Len(tokens)  BY <1>3, <1>7 DEF LeftDone, Enter
  <2>2. Here # "EOF"  BY <1>7 DEF UpdateOps
  <2>3. cursor' \in 1..(Len(tokens) + 1) /\ ~(cursor' > Len(tokens))
    BY <1>7, <2>1, <2>2, TokenFacts
  <2>4. CallsOK(frames', cursor', error) /\ Within(frames', frames)
    BY <1>3, <1>7, <2>3, Returns
  <2>5. nodes' \in Nat  BY <1>2, <1>7
  <2> QED  BY <1>1, <1>2, <2>3, <2>4, <2>5 DEF Moved
<1> QED  BY <1>4, <1>5, <1>6, <1>7
-----------------------------------------------------------------------------
(***************************************************************************)
(* The lists and their memory.                                             *)
(***************************************************************************)
MemoryKept == ChunksOK(arrays', live', fresh') /\ FilledFrom(frames', live')

LEMMA MemoryStays ==
  ASSUME ParserInv, Before, UNCHANGED memory, Within(frames', frames)
  PROVE  MemoryKept
<1>1. ChunksOK(arrays, live, fresh) /\ FilledFrom(frames, live)  BY DEF ParserInv
<1>2. arrays' = arrays /\ live' = live /\ fresh' = fresh  BY DEF memory
<1>3. FilledFrom(frames', live)  BY <1>1 DEF Within, FilledFrom
<1> QED  BY <1>1, <1>2, <1>3 DEF MemoryKept

LEMMA ChunkFacts ==
  ASSUME NEW rec, NEW chunks, NEW next, ChunksOK(rec, chunks, next)
  PROVE  /\ IsFiniteSet(chunks) /\ IsFiniteSet(RecordedIn(rec)) /\ next \notin chunks
         /\ next \notin RecordedIn(rec)
         /\ Cardinality(chunks) = Cardinality(RecordedIn(rec)) /\ Cardinality(chunks) \in Nat
<1>1. /\ next \in Nat /\ chunks \subseteq 0..(next - 1) /\ RecordedIn(rec) \subseteq 0..(next - 1)
      /\ Cardinality(chunks) = Len(rec) /\ Cardinality(RecordedIn(rec)) = Len(rec)
  BY DEF ChunksOK
<1>2. IsFiniteSet(0..(next - 1))
  <2>1. next - 1 \in Int  BY <1>1
  <2> QED  BY <2>1, FS_Interval
<1>3. IsFiniteSet(chunks) /\ IsFiniteSet(RecordedIn(rec))  BY <1>1, <1>2, FS_Subset
<1>4. next \notin 0..(next - 1)  BY <1>1
<1>5. Cardinality(chunks) \in Nat  BY <1>3, FS_CardinalityType
<1> QED  BY <1>1, <1>3, <1>4, <1>5

\* new_node_arr
LEMMA ChunksGrow ==
  ASSUME NEW rec, NEW chunks, NEW next, ChunksOK(rec, chunks, next)
  PROVE  ChunksOK(Append(rec, next), chunks \cup {next}, next + 1)
<1> DEFINE bs == Append(rec, next)
<1>1. /\ rec \in Seq(Nat) /\ next \in Nat
      /\ chunks \subseteq 0..(next - 1) /\ RecordedIn(rec) \subseteq 0..(next - 1)
      /\ Cardinality(chunks) = Len(rec) /\ Cardinality(RecordedIn(rec)) = Len(rec)
  BY DEF ChunksOK
<1>2. /\ IsFiniteSet(chunks) /\ IsFiniteSet(RecordedIn(rec)) /\ next \notin chunks
      /\ next \notin RecordedIn(rec)
  BY ChunkFacts
<1>3. /\ bs \in Seq(Nat) /\ Len(bs) = Len(rec) + 1 /\ bs[Len(rec) + 1] = next
      /\ \A k \in 1..Len(rec) : bs[k] = rec[k]
      /\ Len(rec) \in Nat
  <2>1. rec \in Seq(Nat) /\ next \in Nat  BY <1>1
  <2> DEFINE S == Nat
  <2>2. rec \in Seq(S) /\ next \in S  BY <2>1
  <2> HIDE DEF S
  <2>3. /\ bs \in Seq(S) /\ Len(bs) = Len(rec) + 1 /\ bs[Len(rec) + 1] = next
        /\ \A k \in 1..Len(rec) : bs[k] = rec[k]
        /\ Len(rec) \in Nat
    BY <2>2
  <2> QED  BY <2>3 DEF S
<1>4. RecordedIn(bs) = RecordedIn(rec) \cup {next}
  <2> HIDE DEF bs
  <2>1. \A n \in Nat : 1..(n + 1) = 1..n \cup {n + 1}  OBVIOUS
  <2>2. 1..Len(bs) = 1..Len(rec) \cup {Len(rec) + 1}  BY <1>3, <2>1
  <2>3. \A k \in 1..Len(rec) : bs[k] = rec[k]  BY <1>3
  <2>4. bs[Len(rec) + 1] = next  BY <1>3
  <2> QED  BY <2>2, <2>3, <2>4 DEF RecordedIn
<1>5. Cardinality(chunks \cup {next}) = Len(rec) + 1
  BY <1>1, <1>2, FS_AddElement
<1>6. Cardinality(RecordedIn(rec) \cup {next}) = Len(rec) + 1
  BY <1>1, <1>2, FS_AddElement
<1>7. 0..(next - 1) \subseteq 0..(next + 1 - 1) /\ next \in 0..(next + 1 - 1) /\ next + 1 \in Nat
  BY <1>1
<1> HIDE DEF bs
<1>8. chunks \cup {next} \subseteq 0..(next + 1 - 1) /\ RecordedIn(bs) \subseteq 0..(next + 1 - 1)
  BY <1>1, <1>4, <1>7
<1>9. ChunksOK(bs, chunks \cup {next}, next + 1)
  <2> DEFINE C == chunks \cup {next}
             n == next + 1
  <2>1. bs \in Seq(Nat) /\ n \in Nat  BY <1>3, <1>7
  <2>2. C \subseteq 0..(n - 1) /\ RecordedIn(bs) \subseteq 0..(n - 1)  BY <1>8
  <2>3. Cardinality(C) = Len(bs)  BY <1>3, <1>5
  <2>4. Cardinality(RecordedIn(bs)) = Len(bs)  BY <1>3, <1>4, <1>6
  <2> HIDE DEF C, n
  <2>5. ChunksOK(bs, C, n)  BY <2>1, <2>2, <2>3, <2>4 DEF ChunksOK
  <2> QED  BY <2>5 DEF C, n
<1> QED  BY <1>9 DEF bs

\* realloc: the chunk a becomes x.
LEMMA ChunksSwap ==
  ASSUME NEW rec, NEW chunks, NEW next, ChunksOK(rec, chunks, next),
         NEW a \in chunks, NEW x \in {a, next}
  PROVE  ChunksOK(rec, (chunks \ {a}) \cup {x}, IF x = next THEN next + 1 ELSE next)
<1> DEFINE T == (chunks \ {a}) \cup {x}
           m == IF x = next THEN next + 1 ELSE next
<1>1. /\ rec \in Seq(Nat) /\ next \in Nat
      /\ chunks \subseteq 0..(next - 1) /\ RecordedIn(rec) \subseteq 0..(next - 1)
      /\ Cardinality(chunks) = Len(rec) /\ Cardinality(RecordedIn(rec)) = Len(rec)
  BY DEF ChunksOK
<1>2. IsFiniteSet(chunks) /\ next \notin chunks /\ Cardinality(chunks) \in Nat  BY ChunkFacts
<1>3. IsFiniteSet(chunks \ {a}) /\ Cardinality(chunks \ {a}) = Cardinality(chunks) - 1
  BY <1>2, FS_RemoveElement
<1>4. x \notin chunks \ {a}  BY <1>2
<1>5. Cardinality(T) = Cardinality(chunks \ {a}) + 1  BY <1>3, <1>4, FS_AddElement
<1>6. Cardinality(T) = Len(rec)
  <2> DEFINE n == Cardinality(chunks)
             r == Cardinality(chunks \ {a})
  <2>1. n \in Nat /\ r = n - 1 /\ Cardinality(T) = r + 1 /\ n = Len(rec)
    BY <1>1, <1>2, <1>3, <1>5
  <2>2. \A k \in Nat : k - 1 + 1 = k  OBVIOUS
  <2> HIDE DEF n, r, T
  <2>3. Cardinality(T) = n - 1 + 1  BY <2>1
  <2>4. Cardinality(T) = n  BY <2>1, <2>2, <2>3
  <2> QED  BY <2>1, <2>4
<1>7. 0..(next - 1) \subseteq 0..(next + 1 - 1) /\ next \in 0..(next + 1 - 1) /\ next + 1 \in Nat
  BY <1>1
<1>8. CASE x = next
  <2>1. m = next + 1 /\ T \subseteq 0..(next + 1 - 1) /\ RecordedIn(rec) \subseteq 0..(next + 1 - 1)
    BY <1>1, <1>7, <1>8
  <2>2. rec \in Seq(Nat) /\ m \in Nat  BY <1>1, <1>7, <2>1
  <2>3. m - 1 = next + 1 - 1
    <3>1. m = next + 1 /\ next \in Nat  BY <1>1, <2>1
    <3> HIDE DEF m
    <3> QED  BY <3>1
  <2>4. T \subseteq 0..(m - 1) /\ RecordedIn(rec) \subseteq 0..(m - 1)  BY <2>1, <2>3
  <2>5. Cardinality(T) = Len(rec) /\ Cardinality(RecordedIn(rec)) = Len(rec)  BY <1>1, <1>6
  <2> HIDE DEF T, m
  <2>6. ChunksOK(rec, T, m)  BY <2>2, <2>4, <2>5 DEF ChunksOK
  <2> QED  BY <2>6 DEF T, m
<1>9. CASE x # next
  <2>1. m = next /\ T \subseteq 0..(next - 1)  BY <1>1, <1>9
  <2> HIDE DEF T, m
  <2>2. ChunksOK(rec, T, m)  BY <1>1, <1>6, <2>1 DEF ChunksOK
  <2> QED  BY <2>2 DEF T, m
<1> QED  BY <1>8, <1>9

\* Only the list at n may have another chunk than before, and no other list has that one.
OnlyAt(n, x, q, r, T) ==
  /\ \A k \in FillingIn(r) :
       \/ k = n /\ r[k].arr = x /\ x \in T
       \/ k # n /\ k \in FillingIn(q) /\ r[k].arr = q[k].arr
  /\ \A k \in FillingIn(q) : k # n => q[k].arr \in T /\ q[k].arr # x

LEMMA Refilled ==
  ASSUME NEW q, NEW r, NEW S, NEW T, NEW n, NEW x, FilledFrom(q, S), OnlyAt(n, x, q, r, T)
  PROVE  FilledFrom(r, T)
BY DEF FilledFrom, OnlyAt

LEMMA ListFacts ==
  ASSUME ParserInv, ~Unwinding, InBounds, Top.fn \in DOMAIN Lists
  PROVE  /\ Top.fn \notin DOMAIN Straights /\ Top.fn \notin DOMAIN Levels
         /\ Top.fn # "postfixed" /\ Top.fn \notin Choices \cup {"literal"}
         /\ error => Top.fn \in Exprs
         /\ ~error => ~(cursor > Len(tokens)) \/ (Top.fn = "block" /\ Top.pc = Loop)
         /\ Top.fn \notin Statements \/ Top.pc = Enter => cursor <= Len(tokens)
<1>1. /\ Top.fn \notin DOMAIN Straights /\ Top.fn \notin DOMAIN Levels
      /\ Top.fn # "postfixed" /\ Top.fn \notin Choices \cup {"literal"}
  BY Kinds
<1>2. Top.fn # "var_stat"
  <2>1. "var_stat" \in DOMAIN Straights  BY DEF Straights
  <2> QED  BY <1>1, <2>1
<1>3. /\ error => Top.fn \in Exprs
      /\ ~error => ~(cursor > Len(tokens)) \/ (Top.fn = "block" /\ Top.pc = Loop)
  BY <1>2, GoingFacts
<1>4. Top.fn \notin Statements \/ Top.pc = Enter => cursor <= Len(tokens)
  BY GoingFacts, ReadsFacts
<1> QED  BY <1>1, <1>3, <1>4

\* A list at its loop, behind a comma or an element.
LEMMA ListRuns ==
  ASSUME NEW f, f.fn \in DOMAIN Lists, f.pc \in {Loop, Comma}, NEW c
  PROVE  Runs(f, c) /\ f.pc # Enter
<1>1. f.fn \notin DOMAIN Straights /\ f.fn \notin DOMAIN Levels /\ f.fn # "postfixed"  BY Kinds
<1>2. f.pc # Enter /\ f.pc # Added  BY DEF Enter, Loop, Comma, Added
<1> QED  BY <1>1, <1>2 DEF Runs

LEMMA OpenStep ==
  ASSUME ParserInv, Before, ~Unwinding, InBounds, Open
  PROVE  Moved /\ MemoryKept
<1> DEFINE L == Len(frames)
           f == [Top EXCEPT !.pc = Loop, !.tok = cursor, !.arr = fresh, !.cap = ArraySize]
<1>1. /\ Top.fn \in DOMAIN Lists /\ Top.pc = Enter /\ cursor' = cursor + 1 /\ nodes' = nodes
      /\ \/ Lists[Top.fn].open \in {"any", Here} /\ Update(f) /\ new_node_arr /\ error' = error
         \/ Fail /\ UNCHANGED memory
  BY DEF Open, advance
<1>2. /\ error \in BOOLEAN /\ nodes \in Nat /\ nodes' \in Nat /\ cursor \in 1..(Len(tokens) + 1)
      /\ ChunksOK(arrays, live, fresh) /\ FilledFrom(frames, live)
      /\ CallsOK(frames, cursor, error)
  BY <1>1 DEF ParserInv
<1>3. /\ Top.fn \notin DOMAIN Straights /\ Top.fn \notin DOMAIN Levels
      /\ Top.fn # "postfixed" /\ Top.fn # "program"
      /\ error => Top.fn \in Exprs
      /\ cursor <= Len(tokens)
  BY <1>1, ListFacts, TopFacts
<1>4. cursor' \in 1..(Len(tokens) + 1)  BY <1>1, <1>3, TokenFacts
<1>5. CASE Fail /\ UNCHANGED memory
  <2>1. Moved /\ Within(frames', frames)  BY <1>2, <1>3, <1>4, <1>5, Fails
  <2> QED  BY <1>5, <2>1, MemoryStays
<1>6. CASE Lists[Top.fn].open \in {"any", Here} /\ Update(f) /\ new_node_arr /\ error' = error
  <2>1. /\ Whole(f) /\ f.fn = Top.fn /\ f.pc = Loop /\ f.arr = fresh
    <3> DEFINE f1 == [Top EXCEPT !.pc = Loop]
               f2 == [f1 EXCEPT !.tok = cursor]
               f3 == [f2 EXCEPT !.arr = fresh]
    <3>1. Loop \in Nat \ {0} /\ Whole(Top)  BY TopFacts DEF Loop
    <3>2. f = [f3 EXCEPT !.cap = ArraySize]  BY <3>1, FrameBoth
    <3>3. Whole(f1) /\ f1.fn = Top.fn /\ f1.pc = Loop  BY <3>1, FrameAt
    <3> HIDE DEF f1
    <3>4. Whole(f2) /\ f2.fn = f1.fn /\ f2.pc = f1.pc  BY <3>3, FrameTok
    <3> HIDE DEF f2
    <3>5. Whole(f3) /\ f3.fn = f2.fn /\ f3.pc = f2.pc /\ f3.arr = fresh  BY <3>4, FrameArr
    <3> HIDE DEF f3, f
    <3> QED  BY <3>2, <3>3, <3>4, <3>5, FrameCap
  <2>2. frames' = Put(frames, f)  BY <1>6 DEF Update, Put
  <2> HIDE DEF f
  <2>3. Runs(f, cursor') /\ f.pc # Enter  BY <1>1, <2>1, ListRuns
  <2>4. error => Latched(f)  BY <1>3, <2>1 DEF Latched
  <2>5. ~error /\ cursor' > Len(tokens) => Behind(f, frames)
    <3>1. SUFFICES ASSUME ~error, ~Behind(f, frames) PROVE ~(cursor' > Len(tokens))
      OBVIOUS
    <3>2. Top.fn # "switch_block" /\ (Top.fn = "block" => ~InCase(frames))
      BY <2>1, <3>1 DEF Behind
    <3>3. Here # "EOF"
      <4>1. CASE Top.fn \in {"array_lit", "compound"}
        <5>1. Runs(Top, cursor)  BY TopFacts
        <5> QED  BY <1>1, <4>1, <5>1 DEF Runs, Here
      <4>2. CASE Top.fn = "block"
        <5>1. Sees(cursor, LBRACE)  BY <1>1, <1>2, <3>2, <4>2 DEF CallsOK, Top
        <5> QED  BY <5>1, NotTheEnd DEF Sees, Here
      <4>3. CASE Top.fn \notin {"array_lit", "compound", "block"}
        <5>1. Lists[Top.fn].open # "any" /\ Lists[Top.fn].open # "EOF"
          BY <1>1, <1>3, <3>2, <4>3, ListTables
        <5> QED  BY <1>6, <5>1
      <4> QED  BY <4>1, <4>2, <4>3
    <3> QED  BY <1>1, <1>3, <3>3, TokenFacts
  <2>6. CanStay(frames, f, cursor', error)
    BY <2>1, <2>3, <2>4, <2>5 DEF CanStay, Top
  <2>7. /\ CallsOK(frames', cursor', error) /\ Len(frames') = L /\ frames'[L] = f
        /\ \A j \in 1..(L - 1) : frames'[j] = frames[j]
    <3>1. LET r == Put(frames, f) IN
          /\ CallsOK(r, cursor', error)
          /\ Len(r) = Len(frames) /\ r[Len(frames)] = f
          /\ \A j \in 1..(Len(frames) - 1) : r[j] = frames[j]
      BY <1>2, <2>6, StayMove
    <3> QED  BY <2>2, <3>1
  <2>8. Moved  BY <1>2, <1>4, <1>6, <2>7 DEF Moved
  <2>9. arrays' = Append(arrays, fresh) /\ live' = live \cup {fresh} /\ fresh' = fresh + 1
    BY <1>6 DEF new_node_arr
  <2>10. ChunksOK(arrays', live', fresh')  BY <1>2, <2>9, ChunksGrow
  <2>11. FilledFrom(frames', live')
    <3>1. fresh \notin live  BY <1>2, ChunkFacts
    <3>2. \A k \in 1..L : k = L \/ (k # L /\ k \in 1..(L - 1))  BY TopFacts
    <3>3. \A k \in FillingIn(frames') :
            \/ k = L /\ frames'[k].arr = fresh /\ fresh \in live'
            \/ k # L /\ k \in FillingIn(frames) /\ frames'[k].arr = frames[k].arr
      BY <2>1, <2>7, <2>9, <3>2 DEF FillingIn
    <3>4. \A k \in FillingIn(frames) : k # L => frames[k].arr \in live' /\ frames[k].arr # fresh
      BY <1>2, <2>9, <3>1 DEF FilledFrom
    <3>5. OnlyAt(L, fresh, frames, frames', live')  BY <3>3, <3>4 DEF OnlyAt
    <3> HIDE DEF L
    <3> QED  BY <1>2, <3>5, Refilled
  <2> QED  BY <2>8, <2>10, <2>11 DEF MemoryKept
<1> QED  BY <1>1, <1>5, <1>6

LEMMA CloseStep ==
  ASSUME ParserInv, ~Unwinding, InBounds, Close
  PROVE  Moved /\ Within(frames', frames)
<1>1. /\ Top.fn \in DOMAIN Lists /\ Top.fn # "program" /\ cursor <= Len(tokens)
      /\ Here = Lists[Top.fn].close /\ cursor' = cursor + 1
      /\ Return(Node(Lists[Top.fn].builds, Top.tok, Top.kids))
      /\ error' = error /\ nodes' = nodes
  BY DEF Close, Closes, advance
<1>2. error \in BOOLEAN /\ nodes \in Nat  BY DEF ParserInv
<1>3. Here # "EOF"  BY <1>1, ListTables
<1>4. cursor' \in 1..(Len(tokens) + 1) /\ ~(cursor' > Len(tokens))  BY <1>1, <1>3, TokenFacts
<1>5. CallsOK(frames', cursor', error) /\ Within(frames', frames)  BY <1>1, <1>4, Returns
<1> QED  BY <1>1, <1>2, <1>4, <1>5 DEF Moved

LEMMA CommaStep ==
  ASSUME ParserInv, ~Unwinding, InBounds, Take_Comma
  PROVE  Moved /\ Within(frames', frames)
<1> DEFINE f == [Top EXCEPT !.pc = Comma]
<1>1. /\ Top.fn \in DOMAIN Lists /\ Top.fn \in CommaFirst /\ Top.pc = Loop /\ Here = COMMA
      /\ cursor' = cursor + 1 /\ At(Comma) /\ error' = error /\ nodes' = nodes
  BY DEF Take_Comma, TakesComma, advance
<1>2. error \in BOOLEAN /\ nodes \in Nat  BY DEF ParserInv
<1>3. Top.fn \notin Statements  BY <1>1 DEF CommaFirst, Statements
<1>4. cursor <= Len(tokens) /\ (error => Top.fn \in Exprs)  BY <1>1, <1>3, ListFacts
<1>5. cursor' \in 1..(Len(tokens) + 1) /\ ~(cursor' > Len(tokens))
  BY <1>1, <1>4, TokenFacts, NotTheEnd
<1>6. Comma \in Nat \ {0, 1} /\ Loop > Enter  BY DEF Comma, Loop, Enter
<1>7. f.fn = Top.fn /\ f.pc = Comma  BY <1>6, TopFacts, FrameAt
<1> HIDE DEF f
<1>8. Runs(f, cursor') /\ (error => Latched(f))  BY <1>1, <1>4, <1>7, ListRuns DEF Latched
<1>9. CallsOK(frames', cursor', error) /\ Within(frames', frames)
  BY <1>1, <1>5, <1>6, <1>8, Ats DEF f
<1> QED  BY <1>1, <1>2, <1>5, <1>9 DEF Moved

LEMMA NextElementStep ==
  ASSUME ParserInv, ~Unwinding, InBounds, Next_Element
  PROVE  Moved /\ Within(frames', frames)
<1>1. /\ Top.fn \in DOMAIN Lists /\ Top.pc \in {Loop, Comma} /\ cursor <= Len(tokens)
      /\ nodes' = nodes
      /\ \E g \in Element :
           \/ g = "default" /\ cursor' = cursor + 1 /\ Fail
           \/ Call(g, Added) /\ cursor' = cursor /\ error' = error
  BY DEF Next_Element, advance
<1>2. error \in BOOLEAN /\ nodes \in Nat /\ nodes' \in Nat /\ cursor \in 1..(Len(tokens) + 1)
  BY <1>1 DEF ParserInv
<1>3. ~(cursor > Len(tokens)) /\ cursor + 1 \in 1..(Len(tokens) + 1)  BY <1>1, TokenFacts
<1>4. /\ Top.fn \notin DOMAIN Straights /\ Top.fn \notin DOMAIN Levels
      /\ Top.fn # "postfixed" /\ Top.fn \notin Choices \cup {"literal"}
      /\ error => Top.fn \in Exprs
  BY <1>1, ListFacts
<1>5. PICK g \in Element :
        \/ g = "default" /\ cursor' = cursor + 1 /\ Fail
        \/ Call(g, Added) /\ cursor' = cursor /\ error' = error
  BY <1>1
<1>6. \/ /\ Top.fn = "switch_block" /\ g \in {"case", "default"} /\ g = Here
      \/ /\ Top.fn # "switch_block"
         /\ g = Lists[Top.fn].element
         /\ g \in {"assign", "stat", "field", "parameter", "entry", "argument"}
  BY <1>1, <1>5, ListTables DEF Element
<1>7. CASE g = "default" /\ cursor' = cursor + 1 /\ Fail
  <2>1. Top.fn # "program"  BY <1>6, <1>7
  <2> QED  BY <1>2, <1>3, <1>7, <2>1, Fails
<1>8. CASE Call(g, Added) /\ cursor' = cursor /\ error' = error
  <2> DEFINE f == [Top EXCEPT !.pc = Added]
  <2>1. error => g \in Exprs  BY <1>1, <1>4, <1>6, ListTables
  <2>2. g \in Functions /\ Runs(Frame(g), cursor)
    <3>1. CASE g \in {"assign", "stat"}
      <4>1. g \in Functions /\ g \notin DOMAIN Straights
        BY <3>1 DEF Functions, Straights, Levels, Choices
      <4> QED  BY <3>1, <4>1, Entered
    <3>2. CASE g \notin {"assign", "stat"}
      <4>1. g \in {"field", "parameter", "entry", "argument", "case", "default"}  BY <1>6, <3>2
      <4>2. g \in {"case", "default"} => cursor <= Len(tokens) /\ tokens[cursor] # "EOF"
        BY <1>1, <1>6 DEF Here
      <4> QED  BY <4>1, <4>2, EnteredElement
    <3> QED  BY <3>1, <3>2
  <2>3. Spoken(Frame(g))
    <3>1. Frame(g).fn = g  BY <2>2, NewFrame
    <3>2. g \in {"case", "default"} => Contains({"case", "default"})
      BY <1>1, <1>6, TokenFacts
    <3>3. g \notin {"switch_stat", "switch_block"}  BY <1>6
    <3> QED  BY <3>1, <3>2, <3>3 DEF Spoken
  <2>4. g # "program" /\ g # "block"  BY <1>6
  <2>5. CanStart(g, cursor, error)  BY <1>3, <2>1, <2>2, <2>3, <2>4 DEF CanStart
  <2>6. Added \in Nat \ {0, 1}  BY DEF Added
  <2>7. Waits(f)
    <3>1. f.fn = Top.fn /\ f.pc = Added  BY <2>6, TopFacts, FrameAt
    <3> HIDE DEF f
    <3> QED  BY <1>4, <3>1 DEF Waits
  <2>8. Top.pc > Enter  BY <1>1 DEF Loop, Comma, Enter
  <2>9. CallsOK(frames', cursor, error) /\ Within(frames', frames)
    BY <1>8, <2>4, <2>5, <2>6, <2>7, <2>8, Calls
  <2> QED  BY <1>2, <1>8, <2>9 DEF Moved
<1> QED  BY <1>5, <1>7, <1>8

\* What follows an element: a token is only passed over before the end, or with an error.
LEMMA FollowsFacts ==
  ASSUME Top.fn \in DOMAIN Lists
  PROVE  /\ Follows[1] \in {0, 1} /\ Follows[2] \in BOOLEAN
         /\ Follows[1] = 1 => Top.fn \notin Statements /\ (Here # "EOF" \/ Follows[2])
         /\ Follows[2] => Top.fn \notin Statements
<1> DEFINE n == IF Top.fn \in CommaLast THEN 1 ELSE 0
           m == IF Top.fn = "parameters" THEN 1 ELSE 0
<1>1. \/ Follows = <<0, FALSE>>
      \/ Top.fn \notin Statements /\ Here = COMMA /\ Follows = <<n, FALSE>>
      \/ Top.fn \notin Statements /\ Follows = <<m, TRUE>>
  BY DEF Follows
<1>2. n \in {0, 1} /\ m \in {0, 1}  OBVIOUS
<1> HIDE DEF n, m
<1>3. CASE Follows = <<0, FALSE>>  BY <1>3
<1>4. CASE Top.fn \notin Statements /\ Here = COMMA /\ Follows = <<n, FALSE>>
  BY <1>2, <1>4, NotTheEnd
<1>5. CASE Top.fn \notin Statements /\ Follows = <<m, TRUE>>  BY <1>2, <1>5
<1> QED  BY <1>1, <1>3, <1>4, <1>5

LEMMA AddStep ==
  ASSUME ParserInv, Before, ~Unwinding, InBounds, Add
  PROVE  Moved /\ MemoryKept
<1> DEFINE L == Len(frames)
<1>1. /\ Top.fn \in DOMAIN Lists /\ Top.pc = Added /\ nodes' = nodes
      /\ \/ /\ Update([Top EXCEPT !.pc = Loop, !.kids = SubSeq(@, 1, Len(@) - 1)])
            /\ cursor' = cursor /\ error' = error /\ UNCHANGED memory
         \/ \E chunk \in {Top.arr, fresh} : add_to_node_arr(chunk)
  BY DEF Add
<1>2. /\ error \in BOOLEAN /\ nodes \in Nat /\ nodes' \in Nat /\ cursor \in 1..(Len(tokens) + 1)
      /\ ChunksOK(arrays, live, fresh) /\ FilledFrom(frames, live)
      /\ CallsOK(frames, cursor, error)
  BY <1>1 DEF ParserInv
<1>3. /\ Top.fn \notin DOMAIN Straights /\ Top.fn \notin DOMAIN Levels /\ Top.fn # "postfixed"
      /\ error => Top.fn \in Exprs
      /\ ~error => ~(cursor > Len(tokens))
      /\ Top.fn \notin Statements => cursor <= Len(tokens)
  <2>1. Added # Loop  BY DEF Added, Loop
  <2> QED  BY <1>1, <2>1, ListFacts
<1>4. Added > Enter /\ Loop \in Nat \ {0}  BY DEF Added, Enter, Loop
<1>5. Len(Top.kids) >= 1
  <2>1. Runs(Top, cursor)  BY TopFacts
  <2> QED  BY <1>1, <2>1 DEF Runs
<1>6. CASE /\ Update([Top EXCEPT !.pc = Loop, !.kids = SubSeq(@, 1, Len(@) - 1)])
           /\ cursor' = cursor /\ error' = error /\ UNCHANGED memory
  <2> DEFINE kids == SubSeq(Top.kids, 1, Len(Top.kids) - 1)
             f1 == [Top EXCEPT !.pc = Loop]
             f == [f1 EXCEPT !.kids = kids]
  <2>1. [Top EXCEPT !.pc = Loop, !.kids = SubSeq(@, 1, Len(@) - 1)] = f
    BY <1>4, TopFacts, FrameBoth
  <2>2. Listed(kids)  BY <1>5, TopFacts, ListedFront
  <2> HIDE DEF kids
  <2>3. Whole(f1) /\ f1.fn = Top.fn /\ f1.pc = Loop /\ f1.arr = Top.arr
    BY <1>4, TopFacts, FrameAt
  <2> HIDE DEF f1
  <2>4. Whole(f) /\ f.fn = f1.fn /\ f.pc = f1.pc /\ f.arr = f1.arr  BY <2>2, <2>3, FrameKids
  <2> HIDE DEF f
  <2>5. frames' = Put(frames, f)  BY <1>6, <2>1 DEF Update, Put
  <2>6. Runs(f, cursor) /\ f.pc # Enter /\ (error => Latched(f))
    BY <1>1, <1>3, <2>3, <2>4, ListRuns DEF Latched
  <2>7. CanStay(frames, f, cursor, error)  BY <1>3, <2>3, <2>4, <2>6 DEF CanStay, Top
  <2>8. CallsOK(frames', cursor, error) /\ Within(frames', frames)
    BY <1>1, <1>4, <2>3, <2>4, <2>5, <2>7, Stays
  <2>9. Moved  BY <1>2, <1>6, <2>8 DEF Moved
  <2> QED  BY <1>6, <2>8, <2>9, MemoryStays
<1>7. ASSUME NEW chunk \in {Top.arr, fresh}, add_to_node_arr(chunk)
      PROVE  Moved /\ MemoryKept
  <2> DEFINE grows == Len(Top.kids) > Top.cap
             f == [Top EXCEPT !.pc = Loop, !.arr = chunk, !.cap = IF grows THEN 2 * @ ELSE @]
  <2>1. /\ live' = (live \ {Top.arr}) \cup {chunk}
        /\ fresh' = IF chunk = fresh THEN fresh + 1 ELSE fresh
        /\ cursor' = cursor + Follows[1]
        /\ error' = (error \/ Follows[2])
        /\ \/ Follows[2] /\ Return(NoNode)
           \/ (Follows[2] => Top.fn = "array_lit") /\ Update(f)
        /\ arrays' = arrays
    BY <1>7 DEF add_to_node_arr
  <2>2. /\ Follows[1] \in {0, 1} /\ Follows[2] \in BOOLEAN
        /\ Follows[1] = 1 => Top.fn \notin Statements /\ (Here # "EOF" \/ Follows[2])
        /\ Follows[2] => Top.fn \notin Statements
    BY <1>1, FollowsFacts
  <2>3. cursor' \in 1..(Len(tokens) + 1) /\ error' \in BOOLEAN
    <3>1. CASE Follows[1] = 0  BY <1>2, <2>1, <3>1
    <3>2. CASE Follows[1] = 1  BY <1>3, <2>1, <2>2, <3>2, TokenFacts
    <3>3. error' \in BOOLEAN  BY <1>2, <2>1, <2>2
    <3> QED  BY <2>2, <3>1, <3>2, <3>3
  <2>4. ~error' => ~(cursor' > Len(tokens))
    <3>1. SUFFICES ASSUME ~error, ~Follows[2] PROVE ~(cursor' > Len(tokens))
      BY <2>1
    <3>2. CASE Follows[1] = 0  BY <1>2, <1>3, <2>1, <3>1, <3>2
    <3>3. CASE Follows[1] = 1  BY <1>3, <2>1, <2>2, <3>1, <3>3, TokenFacts
    <3> QED  BY <2>2, <3>2, <3>3
  <2>5. L \in FillingIn(frames) /\ frames[L] = Top
    <3>1. L \in 1..Len(frames)  BY TopFacts
    <3>2. frames[L] = Top  BY DEF Top
    <3> QED  BY <1>1, <1>4, <3>1, <3>2 DEF FillingIn
  <2>6. Top.arr \in live  BY <1>2, <2>5 DEF FilledFrom
  <2>7. ChunksOK(arrays', live', fresh')
    <3>1. ChunksOK(arrays, (live \ {Top.arr}) \cup {chunk}, IF chunk = fresh THEN fresh + 1 ELSE fresh)
      BY <1>2, <2>6, ChunksSwap
    <3> QED  BY <2>1, <3>1
  <2>8. \A k \in FillingIn(frames) : k # L => frames[k].arr \in live' /\ frames[k].arr # chunk
    <3>1. fresh \notin live  BY <1>2, ChunkFacts
    <3>2. \A k \in FillingIn(frames) : k # L => frames[k].arr \in live /\ frames[k].arr # Top.arr
      BY <1>2, <2>5 DEF FilledFrom
    <3> QED  BY <1>7, <2>1, <3>1, <3>2
  <2>9. CASE Follows[2] /\ Return(NoNode)
    <3>1. Top.fn # "program"  BY <2>2, <2>9 DEF Statements
    <3>2. /\ CallsOK(frames', cursor', error') /\ Within(frames', frames)
          /\ Len(frames') = L - 1
      BY <2>4, <2>9, <3>1, Returns
    <3>3. \A k \in 1..(L - 1) : k # L  BY TopFacts
    <3>4. \A k \in FillingIn(frames') :
            k # L /\ k \in FillingIn(frames) /\ frames'[k].arr = frames[k].arr
      <4>1. \A k \in FillingIn(frames') : k \in 1..(L - 1)  BY <3>2 DEF FillingIn
      <4> HIDE DEF L
      <4> QED  BY <3>2, <3>3, <4>1 DEF Within
    <3>5. OnlyAt(L, chunk, frames, frames', live')  BY <2>8, <3>4 DEF OnlyAt
    <3> HIDE DEF L
    <3>6. FilledFrom(frames', live')  BY <1>2, <3>5, Refilled
    <3>7. Moved  BY <1>2, <2>3, <3>2 DEF Moved
    <3> QED  BY <2>7, <3>6, <3>7 DEF MemoryKept
  <2>10. CASE (Follows[2] => Top.fn = "array_lit") /\ Update(f)
    <3>1. /\ Whole(f) /\ f.fn = Top.fn /\ f.pc = Loop /\ f.arr = chunk
      <4> DEFINE f1 == [Top EXCEPT !.pc = Loop]
                 f2 == [f1 EXCEPT !.arr = chunk]
                 cap == IF grows THEN 2 * Top.cap ELSE Top.cap
      <4>1. Loop \in Nat \ {0} /\ Whole(Top)  BY <1>4, TopFacts
      <4> HIDE DEF grows
      <4>2. f = [f2 EXCEPT !.cap = cap]  BY <4>1, FrameBoth
      <4>3. Whole(f1) /\ f1.fn = Top.fn /\ f1.pc = Loop  BY <4>1, FrameAt
      <4> HIDE DEF f1, cap
      <4>4. Whole(f2) /\ f2.fn = f1.fn /\ f2.pc = f1.pc /\ f2.arr = chunk  BY <4>3, FrameArr
      <4> HIDE DEF f2, f
      <4> QED  BY <4>2, <4>3, <4>4, FrameCap
    <3>2. frames' = Put(frames, f)  BY <2>10 DEF Update, Put
    <3> HIDE DEF f
    <3>3. Runs(f, cursor') /\ f.pc # Enter  BY <1>1, <3>1, ListRuns
    <3>4. error' => Latched(f)
      <4>1. "array_lit" \in Exprs  BY DEF Exprs
      <4> QED  BY <1>3, <2>1, <2>10, <3>1, <4>1 DEF Latched
    <3>5. CanStay(frames, f, cursor', error')
      BY <2>4, <3>1, <3>3, <3>4 DEF CanStay, Top
    <3>6. /\ CallsOK(frames', cursor', error') /\ Len(frames') = L /\ frames'[L] = f
          /\ \A j \in 1..(L - 1) : frames'[j] = frames[j]
      <4>1. LET r == Put(frames, f) IN
            /\ CallsOK(r, cursor', error')
            /\ Len(r) = Len(frames) /\ r[Len(frames)] = f
            /\ \A j \in 1..(Len(frames) - 1) : r[j] = frames[j]
        BY <1>2, <3>5, StayMove
      <4> QED  BY <3>2, <4>1
    <3>7. \A k \in FillingIn(frames') :
            \/ k = L /\ frames'[k].arr = chunk /\ chunk \in live'
            \/ k # L /\ k \in FillingIn(frames) /\ frames'[k].arr = frames[k].arr
      <4>1. \A k \in 1..L : k = L \/ (k # L /\ k \in 1..(L - 1))  BY TopFacts
      <4> QED  BY <2>1, <3>1, <3>6, <4>1 DEF FillingIn
    <3>8. OnlyAt(L, chunk, frames, frames', live')  BY <2>8, <3>7 DEF OnlyAt
    <3> HIDE DEF L
    <3>9. FilledFrom(frames', live')  BY <1>2, <3>8, Refilled
    <3>10. Moved  BY <1>2, <2>3, <3>6 DEF Moved
    <3> QED  BY <2>7, <3>9, <3>10 DEF MemoryKept
  <2> QED  BY <2>1, <2>9, <2>10
<1> QED  BY <1>1, <1>6, <1>7

-----------------------------------------------------------------------------
(***************************************************************************)
(* The steps of the parser.                                                *)
(***************************************************************************)
LEMMA TokensStay ==
  ASSUME tokens' = tokens, CallsOK(frames', cursor', error')
  PROVE  CallsOK(frames, cursor, error)'
<1>1. \A f : Spoken(f) => Spoken(f)'
  BY DEF Spoken, Contains
<1> QED  BY DEF CallsOK, Spoken, Contains, Runs, Sees, Behind

LEMMA ExecuteStep ==
  ASSUME ParserInv, status = "run", Execute
  PROVE  Moved /\ MemoryKept /\ tokens' = tokens /\ status' \in {"run", "overflow"}
<1>1. /\ ~Unwinding /\ InBounds /\ tokens' = tokens /\ status' \in {"run", "overflow"}
      /\ \/ Straight_Step \/ Build \/ Choose \/ parse_literal_term \/ Operand \/ Join \/ Postfix
         \/ Open \/ Close \/ Take_Comma \/ Next_Element \/ Add
  BY DEF Execute
<1>2. Before  BY DEF Before
<1>3. CASE Open  BY <1>1, <1>2, <1>3, OpenStep
<1>4. CASE Add  BY <1>1, <1>2, <1>4, AddStep
<1>5. CASE \/ Straight_Step \/ Build \/ Choose \/ parse_literal_term \/ Operand \/ Join
           \/ Postfix \/ Close \/ Take_Comma \/ Next_Element
  <2>1. Moved /\ Within(frames', frames)
    BY <1>1, <1>5, StraightStep, BuildStep, ChooseStep, LiteralStep, OperandStep, JoinStep,
       PostfixStep, CloseStep, CommaStep, NextElementStep
  <2>2. UNCHANGED memory
    <3>1. CASE Straight_Step \/ Build \/ Choose
      BY <3>1 DEF Straight_Step, Build, Choose, memory
    <3>2. CASE parse_literal_term \/ Operand \/ Join \/ Postfix
      BY <3>2 DEF parse_literal_term, Operand, Join, Postfix, memory
    <3>3. CASE Close \/ Take_Comma \/ Next_Element
      BY <3>3 DEF Close, Take_Comma, Next_Element, memory
    <3> QED  BY <1>5, <3>1, <3>2, <3>3
  <2> QED  BY <1>1, <1>2, <2>1, <2>2, MemoryStays
<1> QED  BY <1>1, <1>3, <1>4, <1>5

\* A function in the middle of an error returns; parse_tokens does not.
LEMMA Return_ErrorStep ==
  ASSUME ParserInv, status = "run", Return_Error
  PROVE  Moved /\ MemoryKept /\ tokens' = tokens /\ status' = status
<1>1. /\ error /\ Len(frames) > 1 /\ Return(NoNode)
      /\ tokens' = tokens /\ cursor' = cursor /\ error' = error /\ nodes' = nodes
      /\ UNCHANGED memory /\ status' = status
  BY DEF Return_Error, Unwinding
<1>2. cursor \in 1..(Len(tokens) + 1) /\ error \in BOOLEAN /\ nodes \in Nat /\ Before
  BY DEF ParserInv, Before
<1>3. Top.fn # "program"
  <2>1. Len(frames) # 1
    <3>1. \A n \in Nat : n > 1 => n # 1  OBVIOUS
    <3> QED  BY <1>1, <3>1, TopFacts
  <2> QED  BY <2>1, TopFacts
<1>4. CallsOK(frames', cursor, error) /\ Within(frames', frames)  BY <1>1, <1>3, Returns
<1>5. Moved  BY <1>1, <1>2, <1>4 DEF Moved
<1> QED  BY <1>1, <1>2, <1>4, <1>5, MemoryStays

LEMMA OverreadOK ==
  ASSUME ParserInv, Overread
  PROVE  error \/ Contains({"switch"})
<1>1. ~Unwinding /\ ~InBounds  BY DEF Overread
<1>2. /\ Reads(Top) /\ cursor > Len(tokens)
  <2>1. Reads(Top) /\ ~(cursor <= Len(tokens))  BY <1>1 DEF InBounds
  <2> QED  BY <2>1, TokenFacts
<1>3. ASSUME ~error PROVE Contains({"switch"})
  <2>1. Behind(Top, frames)  BY <1>2, <1>3 DEF ParserInv, CallsOK, Top
  <2>2. Top.fn # "block"
    <3>1. "block" \in Statements /\ "block" \in DOMAIN Lists  BY DEF Statements, Lists
    <3>2. Loop # Enter  BY DEF Loop, Enter
    <3> QED  BY <1>2, <2>1, <3>1, <3>2, Kinds DEF Reads, Behind
  <2>3. Top.fn = "switch_block" /\ Spoken(Top)  BY <2>1, <2>2, TopFacts DEF Behind
  <2> QED  BY <2>3 DEF Spoken
<1> QED  BY <1>3

LEMMA Block_CutOK ==
  ASSUME ParserInv, Block_Cut
  PROVE  ~error /\ Contains({"case", "default"})
<1>1. Top.fn = "block" /\ Top.pc = Loop /\ cursor > Len(tokens)  BY DEF Block_Cut
<1>2. ~error
  <2>1. ~Latched(Top)
    <3>1. "block" \notin Exprs /\ "block" \in DOMAIN Lists  BY DEF Exprs, Lists
    <3>2. Loop # Added  BY DEF Loop, Added
    <3> QED  BY <1>1, <3>1, <3>2, Kinds DEF Latched, Tests
  <2> QED  BY <2>1 DEF ParserInv, CallsOK, Top
<1>3. Behind(Top, frames)  BY <1>1, <1>2 DEF ParserInv, CallsOK, Top
<1>4. InCase(frames)  BY <1>1, <1>3 DEF Behind
<1>5. Len(frames) - 1 \in 1..Len(frames) /\ frames[Len(frames) - 1].fn \in {"case", "default"}
  BY <1>4, TopFacts DEF InCase
<1>6. Spoken(frames[Len(frames) - 1])  BY <1>5 DEF ParserInv, CallsOK
<1> QED  BY <1>2, <1>5, <1>6 DEF Spoken

\* As many recorded as allocated: none of the recorded chunks has moved, or some is left over.
LEMMA Balance ==
  ASSUME NEW rec, NEW chunks, NEW next, ChunksOK(rec, chunks, next)
  PROVE  /\ RecordedIn(rec) \subseteq chunks => chunks = RecordedIn(rec)
         /\ chunks \subseteq RecordedIn(rec) => chunks = RecordedIn(rec)
         /\ \A a \in chunks : ~(RecordedIn(rec) \subseteq chunks \ {a})
<1> DEFINE R == RecordedIn(rec)
<1>1. /\ IsFiniteSet(chunks) /\ IsFiniteSet(R)
      /\ Cardinality(chunks) = Cardinality(R) /\ Cardinality(chunks) \in Nat
  BY ChunkFacts
<1> HIDE DEF R
<1>2. R \subseteq chunks => chunks = R  BY <1>1, FS_Subset
<1>3. chunks \subseteq R => chunks = R  BY <1>1, FS_Subset
<1>4. \A a \in chunks : ~(R \subseteq chunks \ {a})  BY <1>2
<1> QED  BY <1>2, <1>3, <1>4 DEF R

\* A refused program has lost the array of parse_tokens; an accepted one is read.
LEMMA Program_EndsOK ==
  ASSUME ParserInv, status = "run", Program_Ends
  PROVE  \/ status' = "refused" /\ error /\ ~(RecordedIn(arrays) \subseteq live')
         \/ status' = "accepted" /\ live' = live /\ ~error /\ cursor = Len(tokens)
<1>1. /\ Len(frames) = 1
      /\ \/ error /\ status' = "refused" /\ live' = live \ {Top.arr}
         \/ /\ Top.pc = Loop /\ (cursor > Len(tokens) \/ Here = "EOF")
            /\ status' = "accepted" /\ live' = live
  BY DEF Program_Ends, Unwinding
<1>2. Top.fn = "program" /\ Top.pc \in Nat \ {0} /\ Top.pc # Enter /\ Top = frames[1]
  BY <1>1, TopFacts DEF Top
<1>3. ChunksOK(arrays, live, fresh) /\ FilledFrom(frames, live)  BY DEF ParserInv, Before
<1>4. "program" \in DOMAIN Lists /\ "program" \notin DOMAIN Straights /\ "program" \notin Exprs
  BY DEF Lists, Straights, Exprs
<1>5. CASE error /\ status' = "refused" /\ live' = live \ {Top.arr}
  <2>1. Top.pc > Enter  BY <1>2 DEF Enter
  <2>2. 1 \in FillingIn(frames)  BY <1>1, <1>2, <1>4, <2>1 DEF FillingIn
  <2>3. Top.arr \in live  BY <1>2, <1>3, <2>2 DEF FilledFrom
  <2>4. ~(RecordedIn(arrays) \subseteq live \ {Top.arr})  BY <1>3, <2>3, Balance
  <2> QED  BY <1>5, <2>4
<1>6. CASE /\ Top.pc = Loop /\ (cursor > Len(tokens) \/ Here = "EOF")
           /\ status' = "accepted" /\ live' = live
  <2>1. Loop # Added  BY DEF Loop, Added
  <2>2. ~Latched(Top)  BY <1>2, <1>4, <1>6, <2>1 DEF Latched, Tests
  <2>3. ~error  BY <2>2 DEF ParserInv, CallsOK, Top
  <2>4. ~Behind(Top, frames)  BY <1>2 DEF Behind
  <2>5. ~(cursor > Len(tokens))  BY <2>3, <2>4 DEF ParserInv, CallsOK, Top
  <2>6. Here = "EOF" /\ cursor <= Len(tokens)  BY <1>6, <2>5, TokenFacts
  <2>7. cursor = Len(tokens)
    <3>1. tokens \in Sources /\ cursor \in 1..Len(tokens)  BY <2>6, TokenFacts DEF ParserInv
    <3> QED  BY <2>6, <3>1, ParserAssumption DEF Here
  <2> QED  BY <1>6, <2>3, <2>7
<1> QED  BY <1>1, <1>5, <1>6

LEMMA free_parserOK ==
  ASSUME ParserInv, free_parser
  PROVE  \/ status' = "freed" /\ live' = {} /\ ~error
         \/ status' = "corrupt" /\ (error \/ live' # {})
<1> DEFINE recorded == RecordedIn(arrays)
<1>1. /\ status \in {"accepted", "refused"}
      /\ status' = IF recorded \subseteq live THEN "freed" ELSE "corrupt"
      /\ live' = live \ recorded
  BY DEF free_parser, RecordedIn
<1> HIDE DEF recorded
<1>2. CASE status = "accepted"
  <2>1. ChunksOK(arrays, live, fresh) /\ ~error  BY <1>2 DEF ParserInv, Before
  <2>2. /\ recorded \subseteq live => live = recorded
        /\ live \subseteq recorded => live = recorded
    BY <2>1, Balance DEF recorded
  <2> QED  BY <1>1, <2>1, <2>2
<1>3. CASE status = "refused"
  <2>1. error /\ ~(recorded \subseteq live)  BY <1>3 DEF ParserInv, recorded
  <2> QED  BY <1>1, <2>1
<1> QED  BY <1>1, <1>2, <1>3

\* What a step has to establish.
LEMMA StepSuffices ==
  ASSUME ParserInv, tokens' = tokens, Moved, status' \in Statuses,
         Before' => MemoryKept,
         status' = "accepted" => ~error' /\ cursor' = Len(tokens),
         status' = "refused" => error' /\ ~(RecordedIn(arrays') \subseteq live'),
         status' = "freed" => live' = {} /\ ~error',
         status' = "corrupt" => error' \/ live' # {},
         status' = "overread" => error' \/ Contains({"switch"}),
         status' = "crash" => ~error' /\ Contains({"case", "default"})
  PROVE  ParserInv'
<1>1. CallsOK(frames, cursor, error)'  BY TokensStay DEF Moved
<1>2. /\ tokens' \in Sources /\ cursor' \in 1..(Len(tokens') + 1)
      /\ error' \in BOOLEAN /\ nodes' \in Nat
  BY DEF ParserInv, Moved
<1>3. Before' => ChunksOK(arrays', live', fresh') /\ FilledFrom(frames', live')
  BY DEF MemoryKept
<1>4. \A types : Contains(types)' <=> Contains(types)  BY DEF Contains
<1> QED  BY <1>1, <1>2, <1>3, <1>4 DEF ParserInv

LEMMA ParserInitInv ==
  ASSUME Init
  PROVE  ParserInv
<1> DEFINE f == [Frame("program") EXCEPT !.pc = Loop, !.arr = 1, !.cap = ArraySize]
           f1 == [Frame("program") EXCEPT !.pc = Loop]
           f2 == [f1 EXCEPT !.arr = 1]
<1>1. /\ tokens \in Sources /\ cursor = 1 /\ error = FALSE /\ nodes = 0
      /\ arrays = <<1>> /\ live = {1} /\ fresh = 2 /\ status = "run"
      /\ frames = <<f>>
  BY DEF Init
<1>2. "program" \in Functions /\ "program" \in DOMAIN Lists  BY DEF Functions, Lists
<1>3. Whole(f) /\ f.fn = "program" /\ f.pc = Loop /\ f.arr = 1
  <2>1. Whole(Frame("program")) /\ Frame("program").fn = "program" /\ Loop \in Nat \ {0}
    BY <1>2, NewFrame DEF Loop
  <2>2. f = [f2 EXCEPT !.cap = ArraySize]  BY <2>1 DEF Whole
  <2>3. Whole(f1) /\ f1.fn = "program" /\ f1.pc = Loop  BY <2>1, FrameAt
  <2> HIDE DEF f1
  <2>4. Whole(f2) /\ f2.fn = "program" /\ f2.pc = Loop /\ f2.arr = 1  BY <2>3, FrameArr
  <2> HIDE DEF f2, f
  <2> QED  BY <2>2, <2>4, FrameCap
<1> HIDE DEF f
<1>4. Len(tokens) \in Nat /\ Len(tokens) >= 1  BY <1>1, ParserAssumption
<1>5. cursor \in 1..(Len(tokens) + 1) /\ ~(cursor > Len(tokens))  BY <1>1, <1>4
<1>6. frames \in Seq({f}) /\ Len(frames) = 1 /\ frames[1] = f  BY <1>1
<1>7. CallsOK(frames, cursor, error)
  <2>1. Listed(frames)  BY <1>6, ListedSeq
  <2>2. Runs(f, cursor) /\ f.pc # Enter  BY <1>2, <1>3, ListRuns
  <2>3. Spoken(f) /\ f.fn # "block"  BY <1>3 DEF Spoken
  <2>4. \A k \in 1..1 : k = 1  OBVIOUS
  <2>5. 1..(1 - 1) = {}  OBVIOUS
  <2> QED
    BY <1>1, <1>3, <1>5, <1>6, <2>1, <2>2, <2>3, <2>4, <2>5 DEF CallsOK
<1>8. ChunksOK(arrays, live, fresh)
  <2>1. RecordedIn(arrays) = {1}  BY <1>1 DEF RecordedIn
  <2>2. Cardinality({1}) = 1  BY FS_Singleton
  <2>3. arrays \in Seq(Nat) /\ Len(arrays) = 1 /\ {1} \subseteq 0..(2 - 1)  BY <1>1
  <2> QED  BY <1>1, <2>1, <2>2, <2>3 DEF ChunksOK
<1>9. FilledFrom(frames, live)
  <2>1. \A k \in FillingIn(frames) : k = 1  BY <1>6 DEF FillingIn
  <2> QED  BY <1>1, <1>3, <1>6, <2>1 DEF FilledFrom
<1> QED  BY <1>1, <1>5, <1>7, <1>8, <1>9 DEF ParserInv, Statuses

LEMMA ParserNextInv ==
  ASSUME ParserInv, [Next]_vars
  PROVE  ParserInv'
<1>1. CASE UNCHANGED vars
  <2>1. /\ tokens' = tokens /\ cursor' = cursor /\ error' = error /\ frames' = frames
        /\ nodes' = nodes /\ arrays' = arrays /\ live' = live /\ fresh' = fresh
        /\ status' = status
    BY <1>1 DEF vars
  <2>2. Moved  BY <2>1 DEF ParserInv, Moved
  <2>3. Before' => MemoryKept  BY <2>1 DEF ParserInv, Before, MemoryKept
  <2> QED  BY <2>1, <2>2, <2>3, StepSuffices DEF ParserInv
<1>2. CASE status = "run" /\ Execute
  <2>1. Moved /\ MemoryKept /\ tokens' = tokens /\ status' \in {"run", "overflow"}
    BY <1>2, ExecuteStep
  <2> QED  BY <2>1, StepSuffices DEF Statuses
<1>3. CASE status = "run" /\ Return_Error
  <2>1. Moved /\ MemoryKept /\ tokens' = tokens /\ status' = "run"
    BY <1>3, Return_ErrorStep
  <2> QED  BY <2>1, StepSuffices DEF Statuses
<1>4. ASSUME UNCHANGED <<tokens, cursor, error, frames, nodes, arrays, fresh>> PROVE Moved
  BY <1>4 DEF ParserInv, Moved
<1>5. ASSUME status = "run", UNCHANGED <<tokens, cursor, error, frames, nodes, memory>>
      PROVE  Moved /\ MemoryKept
  <2>1. UNCHANGED <<tokens, cursor, error, frames, nodes, arrays, live, fresh>>
    BY <1>5 DEF memory
  <2> QED  BY <1>4, <1>5, <2>1 DEF ParserInv, Before, MemoryKept
<1>6. CASE status = "run" /\ Overread
  <2>1. /\ UNCHANGED <<tokens, cursor, error, frames, nodes, memory>>
        /\ status' = "overread"
    BY <1>6 DEF Overread
  <2>2. Moved /\ MemoryKept  BY <1>5, <1>6, <2>1
  <2> QED  BY <1>6, <2>1, <2>2, OverreadOK, StepSuffices DEF Statuses
<1>7. CASE status = "run" /\ Block_Cut
  <2>1. /\ UNCHANGED <<tokens, cursor, error, frames, nodes, memory>>
        /\ status' = "crash"
    BY <1>7 DEF Block_Cut
  <2>2. Moved /\ MemoryKept  BY <1>5, <1>7, <2>1
  <2> QED  BY <1>7, <2>1, <2>2, Block_CutOK, StepSuffices DEF Statuses
<1>8. CASE status = "run" /\ Program_Ends
  <2>1. UNCHANGED <<tokens, cursor, error, frames, nodes, arrays, fresh>>
    BY <1>8 DEF Program_Ends
  <2>2. Moved  BY <1>4, <2>1
  <2>3. \/ status' = "refused" /\ error /\ ~(RecordedIn(arrays) \subseteq live')
        \/ status' = "accepted" /\ live' = live /\ ~error /\ cursor = Len(tokens)
    BY <1>8, Program_EndsOK
  <2>4. Before' => MemoryKept
    BY <1>8, <2>1, <2>3 DEF ParserInv, Before, MemoryKept
  <2> QED  BY <2>1, <2>2, <2>3, <2>4, StepSuffices DEF Statuses
<1>9. CASE free_parser
  <2>1. UNCHANGED <<tokens, cursor, error, frames, nodes, arrays, fresh>>
    BY <1>9 DEF free_parser
  <2>2. Moved  BY <1>4, <2>1
  <2>3. \/ status' = "freed" /\ live' = {} /\ ~error
        \/ status' = "corrupt" /\ (error \/ live' # {})
    BY <1>9, free_parserOK
  <2>4. ~Before'  BY <2>3 DEF Before
  <2> QED  BY <2>1, <2>2, <2>3, <2>4, StepSuffices DEF Statuses
<1> QED  BY <1>1, <1>2, <1>3, <1>6, <1>7, <1>8, <1>9 DEF Next, ParseNext

-----------------------------------------------------------------------------
(***************************************************************************)
(* The theorems.                                                           *)
(***************************************************************************)
\* The invariant holds in every state of the parser.
THEOREM ParserInvariance == Spec => []ParserInv
<1>1. Init => ParserInv  BY ParserInitInv
<1>2. ParserInv /\ [Next]_vars => ParserInv'  BY ParserNextInv
<1> QED  BY <1>1, <1>2, PTL DEF Spec

\* Whatever the tokens, parse_tokens stays the outermost call, a level of the expression
\* grammar has the operands its place calls for, and the cursor is never more than one token
\* past the end (parser_advance), since whoever takes a token blindly is followed by a look.
THEOREM ParserTypeCorrectness == Spec => []ParserTypeOK
<1>1. ParserInv => ParserTypeOK
  <2> SUFFICES ASSUME ParserInv PROVE ParserTypeOK  OBVIOUS
  <2>1. /\ cursor \in 1..(Len(tokens) + 1) /\ error \in BOOLEAN /\ nodes \in Nat
        /\ status \in Statuses
    BY DEF ParserInv
  <2>2. /\ Len(frames) \in Nat /\ Len(frames) >= 1
        /\ \A k \in 1..Len(frames) : Whole(frames[k]) /\ (frames[k].fn = "program" <=> k = 1)
    BY DEF ParserInv, CallsOK
  <2>3. frames # <<>> /\ Root.fn = "program"
    <3>1. frames # <<>>  BY <2>2
    <3>2. 1 \in 1..Len(frames)  BY <2>2
    <3> QED  BY <2>2, <3>1, <3>2 DEF Root
  <2>4. \A k \in 2..Len(frames) : frames[k].fn \in Functions \ {"program"}
    <3>1. \A k \in 2..Len(frames) : k \in 1..Len(frames) /\ k # 1  BY <2>2
    <3> QED  BY <2>2, <3>1 DEF Whole
  <2>5. Top.fn \in DOMAIN Levels => Len(Top.kids) = Top.pc - 1  BY TopFacts DEF Runs
  <2> QED  BY <2>1, <2>3, <2>4, <2>5 DEF ParserTypeOK, Statuses
<1> QED  BY <1>1, ParserInvariance, PTL

\* Until free_parser as many chunks are allocated as node arrays are recorded, and no two
\* lists being read share one, however often add_to_node_arr has let realloc move them; what
\* free_parser leaves or frees twice is what the record is stale about.
THEOREM MemoryIsAccounted == Spec => []MemoryAccounted
<1>1. ParserInv => MemoryAccounted
  <2> SUFFICES ASSUME ParserInv PROVE MemoryAccounted  OBVIOUS
  <2>1. ASSUME status \in {"run", "accepted"}
        PROVE  /\ Cardinality(live) = Len(arrays)
               /\ \A k \in Filling : frames[k].arr \in live
               /\ \A j, k \in Filling : frames[j].arr = frames[k].arr => j = k
    <3>1. ChunksOK(arrays, live, fresh) /\ FilledFrom(frames, live)
      BY <2>1 DEF ParserInv, Before
    <3>2. Filling = FillingIn(frames)  BY DEF Filling, FillingIn
    <3> QED  BY <3>1, <3>2 DEF ChunksOK, FilledFrom
  <2> QED  BY <2>1 DEF ParserInv, MemoryAccounted
<1> QED  BY <1>1, ParserInvariance, PTL

\* The parser reads behind its tokens only after an error or in a program with a switch, and
\* an unfinished block goes unnoticed only in a case: these are the two places where the code
\* takes a token without looking (parse_switch_stat, parse_switch_block).
THEOREM BoundsAreKept == Spec => []StaysInBounds
<1>1. ParserInv => StaysInBounds  BY DEF ParserInv, StaysInBounds
<1> QED  BY <1>1, ParserInvariance, PTL

\* parse_tokens accepts no program before its last token, and none with an error in it: every
\* error is still there when it has returned to parse_tokens.
THEOREM ProgramsAreReadToTheEnd == Spec => []ReadToTheEnd
<1>1. ParserInv => ReadToTheEnd  BY DEF ParserInv, ReadToTheEnd
<1> QED  BY <1>1, ParserInvariance, PTL
=============================================================================
