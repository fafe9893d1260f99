---------------------------- MODULE LexerTheorems ----------------------------
(***************************************************************************)
(* Proofs about the lexer for every source text and every limit: whatever  *)
(* it reads, what it keeps stays in bounds, and it never takes a character *)
(* behind the source without an error in the list; the position it keeps   *)
(* is that of the cursor, whatever way the cursor has come there; and the  *)
(* tokens it returns are the longest lexemes of the source.                *)
(***************************************************************************)
EXTENDS Lexemes, CommonLemmas

-----------------------------------------------------------------------------
(***************************************************************************)
(* The inductive invariant.                                                *)
(***************************************************************************)
\* The lines begun before the cursor, at most: the break before the last character taken
\* does not count yet.
Lines(c) == IF c <= 2 THEN 0 ELSE IF c <= Size + 2 THEN c - 2 ELSE Size

\* A position at the cursor c after n tokens.  Each token can add a line: a number at the
\* end of the input is given back, with its line break before it, and is read again.
At(p, c, n) ==
  /\ p \in [line : Nat, column : 0..(Columns - 1)]
  /\ p.line <= n + Lines(c)

Modes == {"top", "number", "ident", "string", "symbol", "operator", "single_line", "multi_line"}

\* Only a comment ends behind the end of the source; a number has a digit to give back.
ModeOK(m, from, c) ==
  /\ m \in Modes /\ from \in [cursor : 1..(Size + 2), position : Positions]
  /\ m # "top" => c <= Size + 1
  /\ m = "number" => from.cursor < c \/ (from.cursor = c /\ c <= Size /\ code[c] \in Digits)
  /\ m = "symbol" => c >= 2 /\ code[c - 1] \in Symbols

ErrorsOK(n, over, s) ==
  /\ n \in 0..(MaxErrors + 1) /\ over \in BOOLEAN
  /\ s \in {"run", "done", "overflow", "endless"}
  /\ s # "overflow" => n <= MaxErrors
  /\ over => n > 0

LexInv ==
  /\ code \in Seq(Characters) /\ cursor \in 1..(Size + 3)
  /\ At(position, cursor, Len(tokens))
  /\ ModeOK(mode, start, cursor) /\ has_dot \in BOOLEAN
  /\ tokens \in Seq(TokensOf) /\ Len(tokens) <= MaxTokens
  /\ ErrorsOK(errors, past, status)

-----------------------------------------------------------------------------
(***************************************************************************)
(* Positions.                                                              *)
(***************************************************************************)
LEMMA SizeFact ==
  ASSUME code \in Seq(Characters)
  PROVE  Size \in Nat
BY DEF Size

LEMMA ColumnWraps ==
  ASSUME NEW c \in Int
  PROVE  c % Columns \in 0..(Columns - 1)
BY LexerAssumption

LEMMA SteppedAt ==
  ASSUME code \in Seq(Characters), NEW p, NEW c \in Nat \ {0}, NEW n \in Nat, At(p, c, n)
  PROVE  At(Stepped(p, c), c + 1, n)
<1>1. Size \in Nat  BY SizeFact
<1>2. p \in [line : Nat, column : 0..(Columns - 1)] /\ p.line <= n + Lines(c) /\ p.column \in Int
  BY DEF At
<1>3. 0 \in 0..(Columns - 1) /\ Columns \in Int  BY LexerAssumption
<1>4. CASE c \in 2..(Size + 1) /\ code[c - 1] = "\n"
  <2>1. Stepped(p, c) = [line |-> p.line + 1, column |-> 0]  BY <1>4 DEF Stepped
  <2>2. Lines(c + 1) = Lines(c) + 1  BY <1>1, <1>4 DEF Lines
  <2>3. Lines(c) \in Nat  BY <1>1, <1>4 DEF Lines
  <2> QED  BY <1>2, <1>3, <2>1, <2>2, <2>3 DEF At
<1>5. CASE ~(c \in 2..(Size + 1) /\ code[c - 1] = "\n")
  <2> DEFINE next == (p.column + 1) % Columns
  <2>1. next \in 0..(Columns - 1)
    <3>1. p.column + 1 \in Int  BY <1>2
    <3> QED  BY <3>1, ColumnWraps
  <2> HIDE DEF next
  <2>2. Stepped(p, c) = [p EXCEPT !.column = next]  BY <1>5 DEF Stepped, next
  <2>3. Lines(c) <= Lines(c + 1) /\ Lines(c) \in Nat /\ Lines(c + 1) \in Nat  BY <1>1 DEF Lines
  <2>4. Stepped(p, c).line = p.line /\ Stepped(p, c) \in [line : Nat, column : 0..(Columns - 1)]
    BY <1>2, <2>1, <2>2
  <2> QED  BY <1>2, <2>3, <2>4 DEF At
<1> QED  BY <1>4, <1>5

LEMMA SteppedBackAt ==
  ASSUME NEW p, NEW c \in Nat, NEW n \in Nat, At(p, c, n)
  PROVE  At(SteppedBack(p), c, n)
<1>1. p \in [line : Nat, column : 0..(Columns - 1)] /\ p.line <= n + Lines(c) /\ p.column \in Int
  BY DEF At
<1> DEFINE prev == (p.column - 1) % Columns
<1>2. prev \in 0..(Columns - 1)
  <2>1. p.column - 1 \in Int  BY <1>1
  <2> QED  BY <2>1, ColumnWraps
<1> HIDE DEF prev
<1>3. SteppedBack(p) = [p EXCEPT !.column = prev]  BY DEF SteppedBack, prev
<1> QED  BY <1>1, <1>2, <1>3 DEF At

\* A token more is worth a step back.
LEMMA AtLater ==
  ASSUME code \in Seq(Characters), NEW p, NEW c \in Nat \ {0}, NEW d \in Nat \ {0},
         NEW n \in Nat, NEW m \in Nat, At(p, c, n), c + n <= d + m, n <= m
  PROVE  At(p, d, m)
<1>1. Size \in Nat  BY SizeFact
<1>2. p \in [line : Nat, column : 0..(Columns - 1)] /\ p.line <= n + Lines(c)  BY DEF At
<1>3. n + Lines(c) <= m + Lines(d)  BY <1>1 DEF Lines
<1>4. Lines(c) \in Nat /\ Lines(d) \in Nat  BY <1>1 DEF Lines
<1> QED  BY <1>2, <1>3, <1>4 DEF At

LEMMA AtPosition ==
  ASSUME code \in Seq(Characters), NEW p, NEW c \in Nat \ {0}, NEW n \in Nat,
         At(p, c, n), n <= MaxTokens
  PROVE  p \in Positions
<1>1. Size \in Nat /\ MaxTokens \in Nat  BY SizeFact, LexerAssumption
<1>2. p \in [line : Nat, column : 0..(Columns - 1)] /\ p.line <= n + Lines(c)  BY DEF At
<1>3. Lines(c) \in Nat /\ Lines(c) <= Size  BY <1>1 DEF Lines
<1>4. p.line \in 0..(Size + MaxTokens)  BY <1>1, <1>2, <1>3
<1> QED  BY <1>2, <1>4 DEF Positions
-----------------------------------------------------------------------------
(***************************************************************************)
(* What the steps have in common.                                          *)
(***************************************************************************)
LEMMA InvFacts ==
  ASSUME LexInv
  PROVE  /\ code \in Seq(Characters) /\ Size \in Nat
         /\ cursor \in 1..(Size + 3) /\ cursor \in Nat \ {0}
         /\ Len(tokens) \in Nat /\ tokens \in Seq(TokensOf) /\ Len(tokens) <= MaxTokens
         /\ At(position, cursor, Len(tokens)) /\ position \in Positions
         /\ ModeOK(mode, start, cursor) /\ has_dot \in BOOLEAN
         /\ ErrorsOK(errors, past, status)
<1>1. /\ code \in Seq(Characters) /\ cursor \in 1..(Size + 3)
      /\ At(position, cursor, Len(tokens))
      /\ ModeOK(mode, start, cursor) /\ has_dot \in BOOLEAN
      /\ tokens \in Seq(TokensOf) /\ Len(tokens) <= MaxTokens
      /\ ErrorsOK(errors, past, status)
  BY DEF LexInv
<1>2. Size \in Nat  BY <1>1, SizeFact
<1>3. cursor \in Nat \ {0} /\ Len(tokens) \in Nat  BY <1>1, <1>2
<1>4. position \in Positions  BY <1>1, <1>3, AtPosition
<1> QED  BY <1>1, <1>2, <1>3, <1>4

\* Where a step leaves the lexer, stated of the old source, which stays.
Next_OK ==
  /\ cursor' \in 1..(Size + 3) /\ At(position', cursor', Len(tokens'))
  /\ ModeOK(mode', start', cursor') /\ has_dot' \in BOOLEAN
  /\ tokens' \in Seq(TokensOf) /\ Len(tokens') <= MaxTokens
  /\ ErrorsOK(errors', past', status')

LEMMA NextOKSuffices ==
  ASSUME LexInv, Next_OK, UNCHANGED code
  PROVE  LexInv'
BY DEF LexInv, Next_OK, At, Lines, ModeOK, ErrorsOK, Size, Positions, TokensOf

LEMMA Quiet ==
  ASSUME LexInv, Silently, UNCHANGED past
  PROVE  ErrorsOK(errors', past', status')
BY DEF LexInv, Silently

\* A report, of which there is at most one at a time.
LEMMA ReportOK ==
  ASSUME LexInv, status = "run", NEW n \in {0, 1}, Reported(n),
         NEW over \in BOOLEAN, over => past \/ n = 1, past' = over
  PROVE  ErrorsOK(errors', past', status')
<1>1. errors \in 0..MaxErrors /\ past \in BOOLEAN /\ (past => errors > 0)
  BY LexerAssumption DEF LexInv, ErrorsOK
<1>2. errors + n \in 0..(MaxErrors + 1)  BY <1>1, LexerAssumption
<1>3. errors' = errors + n /\ status' = IF errors + n > MaxErrors THEN "overflow" ELSE "run"
  BY DEF Reported
<1>4. over => errors + n > 0  BY <1>1
<1> QED  BY <1>2, <1>3, <1>4, LexerAssumption DEF ErrorsOK

LEMMA LookedAt ==
  ASSUME NEW i
  PROVE  lexer_at(i) \in {0, 1} /\ (i > Size => lexer_at(i) = 1)
BY DEF lexer_at

\* A step of the cursor inside the source.
LEMMA StepOK ==
  ASSUME LexInv, Inside, lexer_step
  PROVE  /\ cursor' = cursor + 1 /\ cursor' \in 2..(Size + 1)
         /\ At(position', cursor', Len(tokens))
<1>1. cursor' = cursor + 1 /\ position' = Stepped(position, cursor)  BY DEF lexer_step
<1>2. At(Stepped(position, cursor), cursor + 1, Len(tokens))  BY InvFacts, SteppedAt
<1>3. cursor <= Size /\ cursor \in Nat \ {0} /\ Size \in Nat  BY InvFacts DEF Inside
<1> QED  BY <1>1, <1>2, <1>3

\* A token of the text from start to the cursor.
LEMMA PushOK ==
  ASSUME LexInv, NEW type \in Types, push_token_array(type), UNCHANGED start,
         cursor' \in 1..(Size + 3), At(position', cursor', Len(tokens) + 1),
         UNCHANGED has_dot, ErrorsOK(errors', past', status')
  PROVE  Next_OK
<1>1. /\ Len(tokens) \in Nat /\ tokens \in Seq(TokensOf) /\ Len(tokens) <= MaxTokens
      /\ code \in Seq(Characters) /\ Size \in Nat
      /\ ModeOK(mode, start, cursor) /\ has_dot \in BOOLEAN
  BY InvFacts
<1>2. /\ Len(tokens) < MaxTokens /\ mode' = "top"
      /\ tokens' = Append(tokens, Token(type, cursor', position'))
  BY DEF push_token_array
<1>3. position' \in Positions
  <2>1. cursor' \in Nat \ {0} /\ Len(tokens) + 1 \in Nat /\ Len(tokens) + 1 <= MaxTokens
    BY <1>1, <1>2, LexerAssumption
  <2> QED  BY <1>1, <2>1, AtPosition
<1>4. start.cursor \in 1..(Size + 3) /\ start.position \in Positions
  BY <1>1 DEF ModeOK
<1>5. Token(type, cursor', position') \in TokensOf  BY <1>3, <1>4 DEF Token, TokensOf
<1>6. tokens' \in Seq(TokensOf) /\ Len(tokens') = Len(tokens) + 1
  <2> HIDE DEF TokensOf, Token
  <2> QED  BY <1>1, <1>2, <1>5
<1>7. ModeOK(mode', start', cursor')
  <2>1. start' \in [cursor : 1..(Size + 2), position : Positions]  BY <1>1 DEF ModeOK
  <2> QED  BY <1>2, <2>1 DEF ModeOK, Modes
<1>8. Len(tokens') <= MaxTokens  BY <1>1, <1>2, <1>6, LexerAssumption
<1> QED  BY <1>1, <1>6, <1>7, <1>8 DEF Next_OK
-----------------------------------------------------------------------------
(***************************************************************************)
(* The actions.                                                            *)
(***************************************************************************)
LEMMA Skip_SpaceOK ==
  ASSUME LexInv, status = "run", Skip_Space
  PROVE  Next_OK
<1>1. Inside /\ lexer_step /\ Silently /\ UNCHANGED <<mode, start, tokens, has_dot, past>>
      /\ mode = "top"
  BY DEF Skip_Space, Stay
<1>2. ErrorsOK(errors', past', status')  BY <1>1, Quiet
<1>3. ModeOK(mode', start', cursor')  BY <1>1, InvFacts DEF ModeOK
<1>4. cursor' \in 1..(Size + 3)  BY <1>1, StepOK, InvFacts
<1> QED  BY <1>1, <1>2, <1>3, <1>4, StepOK, InvFacts DEF Next_OK

LEMMA BeginOK ==
  ASSUME LexInv, status = "run", Begin
  PROVE  Next_OK
<1>1. Inside /\ mode = "top" /\ has_dot' = FALSE /\ Silently /\ UNCHANGED <<tokens, past>>
  BY DEF Begin
<1>2. ErrorsOK(errors', past', status')  BY <1>1, Quiet
<1>3. cursor \in 1..Size /\ Size \in Nat /\ position \in Positions
  BY <1>1, InvFacts DEF Inside
<1>4. ASSUME NEW m \in Modes, Enter(m) PROVE mode' = m /\ start' = [cursor |-> cursor, position |-> position]
  BY <1>4 DEF Enter
<1>5. [cursor |-> cursor, position |-> position] \in [cursor : 1..(Size + 2), position : Positions]
  BY <1>3
<1>6. CASE /\ \/ Here \in Digits /\ Enter("number")
              \/ Here \in Letters /\ Enter("ident")
           /\ UNCHANGED <<cursor, position>>
  <2>1. ModeOK(mode', start', cursor')
    BY <1>3, <1>4, <1>5, <1>6 DEF ModeOK, Modes, Here
  <2>2. cursor' \in 1..(Size + 3) /\ At(position', cursor', Len(tokens'))
    BY <1>1, <1>6, InvFacts
  <2> QED  BY <1>1, <1>2, <2>1, <2>2, InvFacts DEF Next_OK
<1>7. CASE /\ \/ Here \in OpChars /\ Enter("operator")
              \/ Here = Quote /\ Enter("string")
              \/ Here \in Symbols /\ Enter("symbol")
           /\ lexer_step
  <2>1. cursor' = cursor + 1 /\ cursor' \in 2..(Size + 1) /\ At(position', cursor', Len(tokens'))
    BY <1>1, <1>7, StepOK
  <2>2. code[cursor' - 1] = Here  BY <1>3, <2>1 DEF Here
  <2>3. ModeOK(mode', start', cursor')
    BY <1>3, <1>4, <1>5, <1>7, <2>1, <2>2 DEF ModeOK, Modes
  <2>4. cursor' \in 1..(Size + 3)  BY <1>3, <2>1
  <2> QED  BY <1>1, <1>2, <2>1, <2>3, <2>4, InvFacts DEF Next_OK
<1> QED  BY <1>6, <1>7 DEF Begin

LEMMA Unknown_CharacterOK ==
  ASSUME LexInv, status = "run", Unknown_Character
  PROVE  Next_OK
<1>1. Inside /\ lexer_step /\ Reported(1) /\ UNCHANGED <<mode, start, tokens, has_dot, past>>
      /\ mode = "top"
  BY DEF Unknown_Character, Stay
<1>2. past \in BOOLEAN  BY InvFacts DEF ErrorsOK
<1>3. ErrorsOK(errors', past', status')  BY <1>1, <1>2, ReportOK
<1>4. ModeOK(mode', start', cursor')  BY <1>1, InvFacts DEF ModeOK
<1>5. cursor' \in 1..(Size + 3)  BY <1>1, StepOK, InvFacts
<1> QED  BY <1>1, <1>3, <1>4, <1>5, StepOK, InvFacts DEF Next_OK

LEMMA End_Of_FileOK ==
  ASSUME LexInv, status = "run", End_Of_File
  PROVE  Next_OK
<1> DEFINE eof == [type |-> "EOF", from |-> cursor, to |-> cursor,
                   left |-> position, right |-> position]
<1>1. /\ Len(tokens) < MaxTokens /\ tokens' = Append(tokens, eof) /\ status' = "done"
      /\ UNCHANGED <<cursor, position, mode, start, has_dot, errors, past>>
  BY DEF End_Of_File
<1>2. eof \in TokensOf  BY InvFacts DEF TokensOf, Types
<1> HIDE DEF eof
<1>3. tokens' \in Seq(TokensOf) /\ Len(tokens') = Len(tokens) + 1
  <2> HIDE DEF TokensOf
  <2> QED  BY <1>1, <1>2, InvFacts
<1>4. Len(tokens') <= MaxTokens /\ Len(tokens') \in Nat  BY <1>1, <1>3, InvFacts, LexerAssumption
<1>5. At(position', cursor', Len(tokens'))  BY <1>1, <1>3, <1>4, InvFacts, AtLater
<1>6. ErrorsOK(errors', past', status')  BY <1>1, InvFacts DEF ErrorsOK
<1> QED  BY <1>1, <1>3, <1>4, <1>5, <1>6, InvFacts DEF Next_OK

LEMMA SymbolOK ==
  ASSUME LexInv, status = "run", Symbol
  PROVE  Next_OK
<1>1. /\ mode = "symbol" /\ UNCHANGED <<cursor, position>> /\ push_token_array(code[cursor - 1])
      /\ Silently /\ UNCHANGED <<start, has_dot, past>>
  BY DEF Symbol
<1>2. code[cursor - 1] \in Types  BY <1>1, InvFacts DEF ModeOK, Types
<1>3. At(position', cursor', Len(tokens) + 1)  BY <1>1, InvFacts, AtLater
<1>4. cursor' \in 1..(Size + 3)  BY <1>1, InvFacts
<1> QED  BY <1>1, <1>2, <1>3, <1>4, Quiet, PushOK

LEMMA CollectOK ==
  ASSUME LexInv, status = "run", Collect
  PROVE  Next_OK
<1>1. Belongs /\ Inside /\ mode \in {"number", "ident", "string"}
  BY InvFacts DEF Collect, Belongs, ModeOK, Modes
<1>2. CASE lexer_step /\ Stay /\ Silently
           /\ has_dot' = (has_dot \/ (mode = "number" /\ Here = ".")) /\ UNCHANGED past
  <2>1. cursor' = cursor + 1 /\ cursor' \in 2..(Size + 1) /\ At(position', cursor', Len(tokens'))
    BY <1>1, <1>2, StepOK DEF Stay
  <2>2. ModeOK(mode', start', cursor')
    <3>1. ModeOK(mode, start, cursor) /\ cursor \in Nat /\ Size \in Nat  BY InvFacts
    <3>2. mode' = mode /\ start' = start /\ mode # "symbol"  BY <1>1, <1>2 DEF Stay
    <3>3. start.cursor \in Nat  BY <3>1 DEF ModeOK
    <3> QED  BY <2>1, <3>1, <3>2, <3>3 DEF ModeOK
  <2>3. cursor' \in 1..(Size + 3)  BY <2>1, InvFacts
  <2> QED  BY <1>2, <2>1, <2>2, <2>3, Quiet, InvFacts DEF Next_OK, Stay
<1>3. CASE status' = "overflow"
           /\ UNCHANGED <<cursor, position, mode, start, has_dot, tokens, errors, past>>
  <2>1. ErrorsOK(errors', past', status')  BY <1>3, InvFacts DEF ErrorsOK
  <2> QED  BY <1>3, <2>1, InvFacts DEF Next_OK
<1> QED  BY <1>2, <1>3 DEF Collect

LEMMA NumberOK ==
  ASSUME LexInv, status = "run", Number
  PROVE  Next_OK
<1> DEFINE type == IF has_dot THEN "FLOAT" ELSE "INTEGER"
<1> DEFINE p == IF Inside THEN Stepped(position, cursor) ELSE position
<1>1. /\ mode = "number" /\ ~Belongs /\ cursor' = GivenBack /\ position' = SteppedBack(p)
      /\ push_token_array(type) /\ Silently /\ UNCHANGED <<start, has_dot, past>>
  BY DEF Number
<1>2. type \in Types  BY DEF Types
<1>3. /\ code \in Seq(Characters) /\ Size \in Nat /\ cursor \in Nat \ {0} /\ cursor <= Size + 1
      /\ Len(tokens) \in Nat /\ At(position, cursor, Len(tokens)) /\ start.cursor \in Nat \ {0}
      /\ start.cursor < cursor \/ (start.cursor = cursor /\ cursor <= Size /\ code[cursor] \in Digits)
  BY <1>1, InvFacts DEF ModeOK
\* The number has at least one digit.
<1>4. start.cursor < cursor
  <2>1. CASE cursor <= Size /\ code[cursor] \in Digits
    BY <1>1, <2>1 DEF Belongs, Inside, Here
  <2> QED  BY <1>3, <2>1
<1> HIDE DEF type
<1>5. CASE Inside
  <2>1. cursor' = cursor /\ p = Stepped(position, cursor)  BY <1>1, <1>5 DEF GivenBack
  <2>2. At(p, cursor + 1, Len(tokens))  BY <1>3, <2>1, SteppedAt
  <2> HIDE DEF p
  <2>3. At(p, cursor, Len(tokens) + 1)  BY <1>3, <2>2, AtLater
  <2>4. At(position', cursor', Len(tokens) + 1)  BY <1>1, <1>3, <2>1, <2>3, SteppedBackAt
  <2>5. cursor' \in 1..(Size + 3)  BY <1>3, <2>1
  <2> QED  BY <1>1, <1>2, <2>4, <2>5, Quiet, PushOK
<1>6. CASE ~Inside
  <2>1. cursor' = cursor - 1 /\ p = position  BY <1>1, <1>6 DEF GivenBack
  <2> HIDE DEF p
  <2>2. cursor - 1 \in Nat \ {0}  BY <1>3, <1>4
  <2>3. At(p, cursor - 1, Len(tokens) + 1)  BY <1>3, <2>1, <2>2, AtLater
  <2>4. At(position', cursor', Len(tokens) + 1)  BY <1>1, <1>3, <2>1, <2>2, <2>3, SteppedBackAt
  <2>5. cursor' \in 1..(Size + 3)  BY <1>3, <2>1, <2>2
  <2> QED  BY <1>1, <1>2, <2>4, <2>5, Quiet, PushOK
<1> QED  BY <1>5, <1>6

LEMMA IdentOK ==
  ASSUME LexInv, status = "run", Ident
  PROVE  Next_OK
<1>1. /\ UNCHANGED <<cursor, position>> /\ push_token_array(WordType)
      /\ Silently /\ UNCHANGED <<start, has_dot, past>>
  BY DEF Ident
<1>2. WordType \in Types  BY DEF WordType, Types
<1>3. At(position', cursor', Len(tokens) + 1)  BY <1>1, InvFacts, AtLater
<1>4. cursor' \in 1..(Size + 3)  BY <1>1, InvFacts
<1> QED  BY <1>1, <1>2, <1>3, <1>4, Quiet, PushOK

LEMMA StringOK ==
  ASSUME LexInv, status = "run", String
  PROVE  Next_OK
<1>1. /\ IF Inside THEN lexer_step ELSE UNCHANGED <<cursor, position>>
      /\ push_token_array("STRING") /\ Silently /\ UNCHANGED <<start, has_dot, past>>
  BY DEF String
<1>2. "STRING" \in Types  BY DEF Types
<1>3. cursor' \in 1..(Size + 3) /\ At(position', cursor', Len(tokens) + 1)
  <2>1. CASE Inside
    <3>1. cursor' \in 2..(Size + 1) /\ At(position', cursor', Len(tokens))  BY <1>1, <2>1, StepOK
    <3>2. cursor' \in Nat \ {0} /\ cursor' \in 1..(Size + 3)  BY <3>1, InvFacts
    <3> QED  BY <3>1, <3>2, InvFacts, AtLater
  <2>2. CASE ~Inside
    BY <1>1, <2>2, InvFacts, AtLater
  <2> QED  BY <2>1, <2>2
<1> QED  BY <1>1, <1>2, <1>3, Quiet, PushOK
\* The second character of an operator, or none.
LEMMA OperatorOK ==
  ASSUME LexInv, status = "run", Operator
  PROVE  Next_OK
<1>1. mode = "operator" /\ UNCHANGED <<start, has_dot, past>>  BY DEF Operator
<1>2. /\ ModeOK(mode, start, cursor) /\ cursor \in 1..(Size + 1) /\ Size \in Nat
      /\ past \in BOOLEAN
  BY <1>1, InvFacts DEF ModeOK, ErrorsOK
<1>3. ASSUME cursor' \in 1..(Size + 1), At(position', cursor', Len(tokens)),
             ErrorsOK(errors', past', status'),
             \/ \E type \in Types : push_token_array(type)
             \/ mode' \in {"top", "multi_line", "single_line"} /\ UNCHANGED tokens
      PROVE  Next_OK
  <2>1. cursor' \in 1..(Size + 3) /\ cursor' \in Nat \ {0}  BY <1>2, <1>3
  <2>2. CASE \E type \in Types : push_token_array(type)
    <3>1. At(position', cursor', Len(tokens) + 1)  BY <1>3, <2>1, InvFacts, AtLater
    <3> QED  BY <1>1, <1>3, <2>1, <2>2, <3>1, PushOK
  <2>3. CASE mode' \in {"top", "multi_line", "single_line"} /\ UNCHANGED tokens
    <3>1. ModeOK(mode', start', cursor')  BY <1>1, <1>2, <1>3, <2>3 DEF ModeOK, Modes
    <3> QED  BY <1>1, <1>3, <2>1, <2>3, <3>1, InvFacts DEF Next_OK
  <2> QED  BY <1>3, <2>2, <2>3
<1>4. CASE /\ Inside /\ Here \in OpChars /\ lexer_step /\ Silently
           /\ CASE <<char1, Here>> \in Pairs -> push_token_array(char1 \o Here)
                [] <<char1, Here>> = <<"/", "*">> -> mode' = "multi_line" /\ UNCHANGED tokens
                [] <<char1, Here>> = <<"/", "/">> -> mode' = "single_line" /\ UNCHANGED tokens
                [] OTHER -> Ignore
  <2>1. cursor' \in 2..(Size + 1) /\ At(position', cursor', Len(tokens))  BY <1>4, StepOK
  <2>2. cursor' \in 1..(Size + 1)  BY <1>2, <2>1
  <2>3. ErrorsOK(errors', past', status')  BY <1>1, <1>4, Quiet
  <2>4. CASE <<char1, Here>> \in Pairs
    <3>1. push_token_array(char1 \o Here)
      <4>1. <<char1, Here>> # <<"/", "*">> /\ <<char1, Here>> # <<"/", "/">>
        BY <2>4 DEF Pairs
      <4> QED  BY <1>4, <2>4, <4>1
    <3>2. char1 \o Here \in Types
      <4> DEFINE p == <<char1, Here>>
      <4>1. p \in Pairs /\ p[1] \o p[2] = char1 \o Here  BY <2>4
      <4> HIDE DEF p
      <4> QED  BY <4>1 DEF Types
    <3> QED  BY <1>3, <2>1, <2>2, <2>3, <3>1, <3>2
  <2>5. CASE <<char1, Here>> \notin Pairs
    <3>1. mode' \in {"top", "multi_line", "single_line"} /\ UNCHANGED tokens
      BY <1>4, <2>5 DEF Ignore
    <3> QED  BY <1>3, <2>1, <2>2, <2>3, <3>1
  <2> QED  BY <2>4, <2>5
<1>5. CASE /\ UNCHANGED <<cursor, position>>
           /\ Reported(lexer_at(cursor))
           /\ IF char1 \in Singles THEN push_token_array(char1) ELSE Ignore
  <2>1. ErrorsOK(errors', past', status')  BY <1>1, <1>2, <1>5, LookedAt, ReportOK
  <2>2. cursor' \in 1..(Size + 1) /\ At(position', cursor', Len(tokens))
    BY <1>2, <1>5, InvFacts
  <2>3. char1 \in Singles => char1 \in Types  BY DEF Types
  <2> QED  BY <1>3, <1>5, <2>1, <2>2, <2>3 DEF Ignore
<1> QED  BY <1>4, <1>5 DEF Operator

LEMMA Single_Line_CommentOK ==
  ASSUME LexInv, status = "run", Single_Line_Comment
  PROVE  Next_OK
<1>1. /\ mode = "single_line" /\ IF Inside THEN lexer_step ELSE UNCHANGED <<cursor, position>>
      /\ mode' \in {"single_line", "top"}
      /\ Silently /\ UNCHANGED <<start, has_dot, tokens, past>>
  BY DEF Single_Line_Comment
<1>2. ModeOK(mode, start, cursor) /\ cursor \in 1..(Size + 1) /\ Size \in Nat
  BY <1>1, InvFacts DEF ModeOK
<1>3. cursor' \in 1..(Size + 1) /\ At(position', cursor', Len(tokens'))
  <2>1. CASE Inside  BY <1>1, <1>2, <2>1, StepOK
  <2>2. CASE ~Inside  BY <1>1, <1>2, <2>2, InvFacts
  <2> QED  BY <2>1, <2>2
<1>4. ModeOK(mode', start', cursor')  BY <1>1, <1>2, <1>3 DEF ModeOK, Modes
<1>5. cursor' \in 1..(Size + 3)  BY <1>2, <1>3
<1> QED  BY <1>1, <1>3, <1>4, <1>5, Quiet, InvFacts DEF Next_OK

\* Its end is two steps, also where the source has no more characters.
LEMMA Multi_Line_CommentOK ==
  ASSUME LexInv, status = "run", Multi_Line_Comment
  PROVE  Next_OK
<1> DEFINE goes_on == Inside /\ ~(Here = "*" /\ cursor < Size /\ code[cursor + 1] = "/")
<1>1. mode = "multi_line" /\ UNCHANGED <<start, has_dot, tokens>>  BY DEF Multi_Line_Comment
<1>2. /\ ModeOK(mode, start, cursor) /\ cursor \in 1..(Size + 1) /\ Size \in Nat
      /\ past \in BOOLEAN /\ code \in Seq(Characters)
      /\ At(position, cursor, Len(tokens)) /\ Len(tokens) \in Nat
  BY <1>1, InvFacts DEF ModeOK, ErrorsOK
<1>3. CASE goes_on
  <2>1. lexer_step /\ UNCHANGED <<mode, past>> /\ Reported(lexer_at(cursor + 1)) /\ Inside
    BY <1>3 DEF Multi_Line_Comment
  <2>2. cursor' \in 2..(Size + 1) /\ At(position', cursor', Len(tokens))  BY <2>1, StepOK
  <2>3. ErrorsOK(errors', past', status')  BY <1>2, <2>1, LookedAt, ReportOK
  <2>4. cursor' \in 1..(Size + 1) /\ cursor' \in 1..(Size + 3)  BY <1>2, <2>2
  <2>5. ModeOK(mode', start', cursor')  BY <1>1, <1>2, <2>1, <2>4 DEF ModeOK
  <2> QED  BY <1>1, <2>2, <2>3, <2>4, <2>5, InvFacts DEF Next_OK
<1>4. CASE ~goes_on
  <2>1. /\ cursor' = cursor + 2 /\ position' = Stepped(Stepped(position, cursor), cursor + 1)
        /\ mode' = "top" /\ past' = (past \/ ~Inside) /\ Reported(lexer_at(cursor))
    BY <1>4 DEF Multi_Line_Comment
  <2>2. At(position', cursor', Len(tokens))
    <3>1. At(Stepped(position, cursor), cursor + 1, Len(tokens))  BY <1>2, SteppedAt
    <3>2. At(Stepped(Stepped(position, cursor), cursor + 1), (cursor + 1) + 1, Len(tokens))
      BY <1>2, <3>1, SteppedAt
    <3>3. (cursor + 1) + 1 = cursor'  BY <1>2, <2>1
    <3> QED  BY <2>1, <3>2, <3>3
  <2>3. cursor' \in 1..(Size + 3)  BY <1>2, <2>1
  <2>4. ModeOK(mode', start', cursor')  BY <1>1, <1>2, <2>1 DEF ModeOK, Modes
\* The look at the cursor has been reported if there is nothing there.
  <2>5. ErrorsOK(errors', past', status')
    <3>1. ~Inside => lexer_at(cursor) = 1  BY <1>2, LookedAt DEF Inside
    <3>2. lexer_at(cursor) \in {0, 1} /\ past' \in BOOLEAN  BY <1>2, <2>1, LookedAt DEF Inside
    <3>3. past' => past \/ lexer_at(cursor) = 1  BY <2>1, <3>1
    <3> QED  BY <2>1, <3>2, <3>3, ReportOK
  <2> QED  BY <1>1, <2>2, <2>3, <2>4, <2>5, InvFacts DEF Next_OK
<1> QED  BY <1>3, <1>4

LEMMA EndlessOK ==
  ASSUME LexInv, status = "run", Endless
  PROVE  Next_OK
<1>1. /\ status' = "endless"
      /\ UNCHANGED <<cursor, position, mode, start, has_dot, tokens, errors, past>>
  BY DEF Endless
<1>2. ErrorsOK(errors', past', status')  BY <1>1, InvFacts DEF ErrorsOK
<1> QED  BY <1>1, <1>2, InvFacts DEF Next_OK

-----------------------------------------------------------------------------
(***************************************************************************)
(* The theorems.                                                           *)
(***************************************************************************)
LEMMA LexInitInv ==
  ASSUME Init
  PROVE  LexInv
<1>1. /\ code \in Codes /\ cursor = 1 /\ position = [line |-> 0, column |-> 0]
      /\ mode = "top" /\ start = [cursor |-> 1, position |-> position] /\ has_dot = FALSE
      /\ tokens = <<>> /\ errors = 0 /\ past = FALSE /\ status = "run"
  BY DEF Init
<1>2. code \in Seq(Characters) /\ Size \in Nat  BY <1>1, LexerAssumption, SizeFact
<1>3. At(position, 1, 0)  BY <1>1, LexerAssumption DEF At, Lines
<1>4. position \in Positions  BY <1>2, <1>3, AtPosition, LexerAssumption
<1>5. start \in [cursor : 1..(Size + 2), position : Positions]  BY <1>1, <1>2, <1>4
<1>6. ModeOK(mode, start, cursor)  BY <1>1, <1>5 DEF ModeOK, Modes
<1>7. ErrorsOK(errors, past, status)
  <2>1. errors \in 0..(MaxErrors + 1) /\ errors <= MaxErrors  BY <1>1, LexerAssumption
  <2>2. past \in BOOLEAN /\ ~past  BY <1>1
  <2> QED  BY <1>1, <2>1, <2>2 DEF ErrorsOK
<1>8. tokens \in Seq(TokensOf) /\ Len(tokens) = 0  BY <1>1
<1>9. cursor \in 1..(Size + 3)
  <2>1. cursor = 1  BY <1>1
  <2> QED  BY <1>2, <2>1
<1>10. has_dot \in BOOLEAN  BY <1>1
<1> QED  BY <1>1, <1>2, <1>3, <1>6, <1>7, <1>8, <1>9, <1>10, LexerAssumption DEF LexInv

LEMMA LexNextInv ==
  ASSUME LexInv, [Next]_vars
  PROVE  LexInv'
<1>1. CASE UNCHANGED vars
  BY <1>1 DEF vars, LexInv, At, Lines, ModeOK, ErrorsOK, Size, Positions, TokensOf
<1>2. CASE Next
  <2>1. status = "run" /\ UNCHANGED code  BY <1>2 DEF Next
  <2>2. Next_OK
    BY <1>2, <2>1, Skip_SpaceOK, BeginOK, Unknown_CharacterOK, End_Of_FileOK, SymbolOK,
       CollectOK, NumberOK, IdentOK, StringOK, OperatorOK, Single_Line_CommentOK,
       Multi_Line_CommentOK, EndlessOK DEF Next
  <2> QED  BY <2>1, <2>2, NextOKSuffices
<1> QED  BY <1>1, <1>2

\* The invariant holds in every state of the lexer.
THEOREM LexInvariance == Spec => []LexInv
<1>1. Init => LexInv  BY LexInitInv
<1>2. LexInv /\ [Next]_vars => LexInv'  BY LexNextInv
<1> QED  BY <1>1, <1>2, PTL DEF Spec

\* What the lexer keeps stays in bounds, whatever the source: the cursor and the positions
\* (lexer_step, lexer_step_back), the tokens and, until it overflows, the error list.
THEOREM LexTypeCorrectness == Spec => []LexTypeOK
<1>1. LexInv => LexTypeOK
  <2> SUFFICES ASSUME LexInv PROVE LexTypeOK  OBVIOUS
  <2>1. \A k \in DOMAIN tokens : tokens[k] \in TokensOf
    <3>1. tokens \in Seq(TokensOf)  BY InvFacts
    <3> HIDE DEF TokensOf
    <3> QED  BY <3>1, ElementOfSeq
  <2>2. /\ mode \in Modes /\ start \in [cursor : 1..(Size + 2), position : Positions]
        /\ errors \in 0..(MaxErrors + 1) /\ past \in BOOLEAN
        /\ status \in {"run", "done", "overflow", "endless"}
        /\ (status # "overflow" => errors <= MaxErrors)
    BY InvFacts DEF ModeOK, ErrorsOK
  <2> QED  BY <2>1, <2>2, InvFacts DEF LexTypeOK, Modes
<1> QED  BY <1>1, LexInvariance, PTL

\* A character behind the source is never taken unseen: lexer_at has put an error into the
\* list before lexer_step takes it, and so main stops after this stage.
THEOREM OverreadsAreReported == Spec => []OverreadReported
<1>1. LexInv => OverreadReported  BY DEF LexInv, ErrorsOK, OverreadReported
<1> QED  BY <1>1, LexInvariance, PTL
-----------------------------------------------------------------------------
(***************************************************************************)
(* Positions follow the cursor.                                            *)
(***************************************************************************)
\* The line breaks that count at the cursor c.
Breaks(c) == {k \in 1..Size : code[k] = "\n" /\ k + 2 <= c}

LEMMA PositionHere ==
  ASSUME NEW c
  PROVE  PositionAt(c) = [line |-> Cardinality(Breaks(c)),
                          column |-> IF Breaks(c) = {} THEN c - 1 ELSE c - (Max(Breaks(c)) + 2)]
BY DEF PositionAt, Breaks

LEMMA BreakFacts ==
  ASSUME Size \in Nat, NEW c \in Nat \ {0}
  PROVE  /\ IsFiniteSet(Breaks(c)) /\ Cardinality(Breaks(c)) \in Nat
         /\ PositionAt(c).column \in 0..(c - 1)
<1>1. Breaks(c) \in SUBSET (1..Size)  BY DEF Breaks
<1>2. IsFiniteSet(Breaks(c))
  <2>1. IsFiniteSet(1..Size)  BY FS_Interval
  <2> QED  BY <1>1, <2>1, FS_Subset
<1>3. Cardinality(Breaks(c)) \in Nat  BY <1>2, FS_CardinalityType
<1>4. PositionAt(c).column = IF Breaks(c) = {} THEN c - 1 ELSE c - (Max(Breaks(c)) + 2)
  BY PositionHere
<1>5. CASE Breaks(c) = {}  BY <1>2, <1>3, <1>4, <1>5
<1>6. CASE Breaks(c) # {}
  <2> DEFINE last == Max(Breaks(c))
  <2>1. last \in Breaks(c)  BY <1>1, <1>6, MaxExists
  <2> HIDE DEF last
  <2>2. last \in Nat /\ last + 2 <= c /\ last >= 1  BY <2>1 DEF Breaks
  <2>3. PositionAt(c).column = c - (last + 2)  BY <1>4, <1>6 DEF last
  <2> QED  BY <1>2, <1>3, <2>2, <2>3
<1> QED  BY <1>5, <1>6

\* lexer_step keeps the position: it takes the line break when the character behind it is
\* taken.
LEMMA SteppedPosition ==
  ASSUME Size \in Nat, Size + 2 < Columns, NEW c \in 1..(Size + 2)
  PROVE  Stepped(PositionAt(c), c) = PositionAt(c + 1)
<1>1. c \in Nat \ {0} /\ c + 1 \in Nat \ {0} /\ Columns \in Nat  BY LexerAssumption
<1> DEFINE col == PositionAt(c).column
<1>2. /\ IsFiniteSet(Breaks(c)) /\ Cardinality(Breaks(c)) \in Nat /\ col \in 0..(c - 1)
      /\ PositionAt(c).line = Cardinality(Breaks(c))
  BY <1>1, BreakFacts, PositionHere
<1>3. CASE c \in 2..(Size + 1) /\ code[c - 1] = "\n"
  <2>1. Breaks(c + 1) = Breaks(c) \cup {c - 1} /\ c - 1 \notin Breaks(c)  BY <1>1, <1>3 DEF Breaks
  <2>2. Cardinality(Breaks(c + 1)) = Cardinality(Breaks(c)) + 1  BY <1>2, <2>1, FS_AddElement
  <2> DEFINE last == Max(Breaks(c + 1))
  <2>3. last = c - 1
    <3>1. Breaks(c + 1) \in SUBSET (1..Size) /\ c - 1 \in Breaks(c + 1)  BY <2>1 DEF Breaks
    <3>2. \A y \in Breaks(c + 1) : y <= c - 1  BY <1>1 DEF Breaks
    <3> QED  BY <3>1, <3>2, MaxIs
  <2>4. PositionAt(c + 1) = [line |-> Cardinality(Breaks(c)) + 1, column |-> (c + 1) - (last + 2)]
    BY <2>1, <2>2, PositionHere
  <2> HIDE DEF last
  <2>5. (c + 1) - (last + 2) = 0  BY <1>1, <2>3
  <2>6. Stepped(PositionAt(c), c) = [line |-> PositionAt(c).line + 1, column |-> 0]
    BY <1>3 DEF Stepped
  <2> QED  BY <1>2, <2>4, <2>5, <2>6
<1>4. CASE ~(c \in 2..(Size + 1) /\ code[c - 1] = "\n")
  <2>1. Breaks(c + 1) = Breaks(c)  BY <1>1, <1>4 DEF Breaks
  <2>2. PositionAt(c + 1).line = PositionAt(c).line /\ PositionAt(c + 1).column = col + 1
    <3>1. CASE Breaks(c) = {}  BY <1>1, <2>1, <3>1, PositionHere
    <3>2. CASE Breaks(c) # {}
      <4> DEFINE last == Max(Breaks(c))
      <4>1. last \in Nat
        <5>1. Breaks(c) \in SUBSET (1..Size)  BY DEF Breaks
        <5>2. last \in Breaks(c)  BY <3>2, <5>1, MaxExists
        <5> HIDE DEF last
        <5> QED  BY <5>1, <5>2
      <4>2. col = c - (last + 2) /\ PositionAt(c + 1).column = (c + 1) - (last + 2)
        BY <2>1, <3>2, PositionHere
      <4>3. PositionAt(c + 1).line = PositionAt(c).line  BY <2>1, PositionHere
      <4> HIDE DEF last, col
      <4> QED  BY <1>1, <4>1, <4>2, <4>3
    <3> QED  BY <3>1, <3>2
  <2>3. (col + 1) % Columns = col + 1
    <3> HIDE DEF col
    <3>1. col + 1 \in 0..(Columns - 1)  BY <1>1, <1>2
    <3> QED  BY <1>1, <3>1
  <2>4. Stepped(PositionAt(c), c) = [PositionAt(c) EXCEPT !.column = (col + 1) % Columns]
    BY <1>4 DEF Stepped
  <2> QED  BY <2>2, <2>3, <2>4, PositionHere
<1> QED  BY <1>3, <1>4

\* lexer_step_back undoes lexer_step unless that began a line.
LEMMA SteppedBackPosition ==
  ASSUME Size \in Nat, Size + 2 < Columns, NEW c \in 1..(Size + 2),
         ~(c \in 2..(Size + 1) /\ code[c - 1] = "\n")
  PROVE  SteppedBack(PositionAt(c + 1)) = PositionAt(c)
<1>1. c \in Nat \ {0} /\ Columns \in Nat  BY LexerAssumption
<1> DEFINE col == PositionAt(c).column
<1>2. col \in 0..(c - 1)  BY <1>1, BreakFacts
<1>3. (col + 1) % Columns = col + 1 /\ ((col + 1) - 1) % Columns = col
  <2> HIDE DEF col
  <2>1. col + 1 \in 0..(Columns - 1) /\ (col + 1) - 1 = col /\ col \in 0..(Columns - 1)
    BY <1>1, <1>2
  <2> QED  BY <1>1, <2>1
<1>4. PositionAt(c + 1) = [PositionAt(c) EXCEPT !.column = (col + 1) % Columns]
  BY SteppedPosition DEF Stepped
<1>5. PositionAt(c) = [line |-> PositionAt(c).line, column |-> col]  BY PositionHere
<1>6. PositionAt(c + 1) = [line |-> PositionAt(c).line, column |-> col + 1]
  BY <1>3, <1>4, <1>5
<1> HIDE DEF col
<1>7. SteppedBack(PositionAt(c + 1)) = [line |-> PositionAt(c).line, column |-> ((col + 1) - 1) % Columns]
  BY <1>6 DEF SteppedBack
<1> QED  BY <1>3, <1>5, <1>7
\* A source whose last line is one digit: the number there is given back over the break.
Alone == Size >= 2 /\ code[Size - 1] = "\n" /\ code[Size] \in Digits

TokenPositioned(t) == t.left = PositionAt(t.from) /\ t.right = PositionAt(t.to)
\* What a number has taken holds no line break, and it begins with a digit.
Numeral(m, from, c) ==
  m = "number" => /\ \A k \in from..(c - 1) : code[k] \in Digits \cup {"."}
                  /\ from <= Size => code[from] \in Digits

Positioned ==
  /\ position = PositionAt(cursor) /\ start.position = PositionAt(start.cursor)
  /\ Numeral(mode, start.cursor, cursor)
  /\ \A k \in DOMAIN tokens : TokenPositioned(tokens[k])

PosInv == LexInv /\ code \in Codes /\ (Alone \/ Positioned)

\* As Next_OK, of the old source.
Next_Positioned ==
  /\ position' = PositionAt(cursor') /\ start'.position = PositionAt(start'.cursor)
  /\ Numeral(mode', start'.cursor, cursor')
  /\ \A k \in DOMAIN tokens' : TokenPositioned(tokens'[k])

LEMMA PosFacts ==
  ASSUME PosInv, ~Alone
  PROVE  /\ Size \in Nat /\ Size + 2 < Columns /\ cursor \in 1..(Size + 3) /\ Positioned
         /\ Len(tokens) \in Nat /\ tokens \in Seq(TokensOf) /\ ModeOK(mode, start, cursor)
         /\ start.cursor \in Nat \ {0} /\ (mode # "top" => cursor <= Size + 1)
<1>1. Size + 2 < Columns  BY SourceAssumption DEF PosInv, Size
<1>2. LexInv /\ Positioned  BY DEF PosInv
<1>3. ModeOK(mode, start, cursor) /\ Size \in Nat  BY <1>2, InvFacts
<1>4. start.cursor \in Nat \ {0} /\ (mode # "top" => cursor <= Size + 1)  BY <1>3 DEF ModeOK
<1> QED  BY <1>1, <1>2, <1>3, <1>4, InvFacts

LEMMA StepPositioned ==
  ASSUME PosInv, ~Alone, Inside, lexer_step
  PROVE  position' = PositionAt(cursor') /\ cursor' = cursor + 1
<1>1. cursor \in 1..(Size + 2)  BY PosFacts DEF Inside
<1>2. position = PositionAt(cursor)  BY PosFacts DEF Positioned
<1> QED  BY <1>1, <1>2, PosFacts, SteppedPosition DEF lexer_step

\* A step without a token, in the mode it has begun in or in one that is no number.
LEMMA QuietPositioned ==
  ASSUME PosInv, ~Alone, position' = PositionAt(cursor'), UNCHANGED <<start, tokens>>,
         mode' # "number"
  PROVE  Next_Positioned
BY PosFacts DEF Positioned, Next_Positioned, Numeral

LEMMA PushPositioned ==
  ASSUME PosInv, ~Alone, NEW type \in Types, push_token_array(type), UNCHANGED start,
         position' = PositionAt(cursor')
  PROVE  Next_Positioned
<1> DEFINE t == Token(type, cursor', position')
<1>1. mode' = "top" /\ tokens' = Append(tokens, t)  BY DEF push_token_array
<1>2. TokenPositioned(t)
  BY PosFacts DEF Token, TokenPositioned, Positioned
<1> HIDE DEF t
<1>3. \A k \in DOMAIN tokens' : TokenPositioned(tokens'[k])
  <2>1. \A k \in DOMAIN tokens' : tokens'[k] = t \/ (k \in DOMAIN tokens /\ tokens'[k] = tokens[k])
    <3>1. tokens \in Seq(TokensOf)  BY PosFacts
    <3> HIDE DEF TokensOf
    <3> QED  BY <1>1, <3>1
  <2>2. \A k \in DOMAIN tokens : TokenPositioned(tokens[k])  BY PosFacts DEF Positioned
  <2> HIDE DEF TokenPositioned
  <2> QED  BY <1>2, <2>1, <2>2
<1>4. start'.position = PositionAt(start'.cursor)  BY PosFacts DEF Positioned
<1> QED  BY <1>1, <1>3, <1>4 DEF Next_Positioned, Numeral

LEMMA BeginPositioned ==
  ASSUME PosInv, ~Alone, Begin
  PROVE  Next_Positioned
<1>1. Inside /\ UNCHANGED tokens  BY DEF Begin
<1>2. position = PositionAt(cursor) /\ cursor \in Nat  BY PosFacts DEF Positioned
<1>3. start' = [cursor |-> cursor, position |-> position]  BY DEF Begin, Enter
<1>4. start'.position = PositionAt(start'.cursor)  BY <1>2, <1>3
<1>5. \A k \in DOMAIN tokens' : TokenPositioned(tokens'[k])  BY <1>1, PosFacts DEF Positioned
<1>6. position' = PositionAt(cursor')
  <2>1. CASE UNCHANGED <<cursor, position>>  BY <1>2, <2>1
  <2>2. CASE lexer_step  BY <1>1, <2>2, StepPositioned
  <2> QED  BY <2>1, <2>2 DEF Begin
<1>7. Numeral(mode', start'.cursor, cursor')
  <2>1. SUFFICES ASSUME mode' = "number"
                 PROVE  cursor' = cursor /\ code[cursor] \in Digits
    BY <1>2, <1>3 DEF Numeral
  <2> QED  BY <2>1 DEF Begin, Enter, Here
<1> QED  BY <1>4, <1>5, <1>6, <1>7 DEF Next_Positioned

LEMMA CollectPositioned ==
  ASSUME PosInv, ~Alone, Collect
  PROVE  Next_Positioned
<1>1. Belongs /\ Inside  BY DEF Collect, Belongs
<1>2. CASE lexer_step /\ Stay
  <2>1. position' = PositionAt(cursor') /\ cursor' = cursor + 1  BY <1>1, <1>2, StepPositioned
  <2>2. UNCHANGED <<mode, start, tokens>>  BY <1>2 DEF Stay
  <2>3. Numeral(mode', start'.cursor, cursor')
    <3>1. SUFFICES ASSUME mode = "number"
                   PROVE  /\ \A k \in start.cursor..cursor : code[k] \in Digits \cup {"."}
                          /\ start.cursor <= Size => code[start.cursor] \in Digits
      BY <2>1, <2>2, PosFacts DEF Numeral
    <3>2. code[cursor] \in Digits \cup {"."}  BY <1>1, <3>1 DEF Belongs, Here
    <3>3. Numeral("number", start.cursor, cursor)  BY <3>1, PosFacts DEF Positioned
    <3>4. cursor \in Nat /\ start.cursor \in Nat  BY PosFacts
    <3> QED  BY <3>2, <3>3, <3>4 DEF Numeral
  <2> QED  BY <2>1, <2>2, <2>3, PosFacts DEF Next_Positioned, Positioned
<1>3. CASE UNCHANGED <<cursor, position, mode, start, has_dot, tokens, errors, past>>
  BY <1>3, PosFacts DEF Next_Positioned, Positioned
<1> QED  BY <1>2, <1>3 DEF Collect

\* The character given back begins no line: it is the number's last, or stands behind it.
LEMMA NumberPositioned ==
  ASSUME PosInv, ~Alone, Number
  PROVE  Next_Positioned
<1> DEFINE type == IF has_dot THEN "FLOAT" ELSE "INTEGER"
<1>1. /\ mode = "number" /\ ~Belongs /\ cursor' = GivenBack /\ push_token_array(type)
      /\ position' = SteppedBack(IF Inside THEN Stepped(position, cursor) ELSE position)
      /\ UNCHANGED start
  BY DEF Number
<1>2. type \in Types  BY DEF Types
<1> HIDE DEF type
<1>3. /\ Size \in Nat /\ Size + 2 < Columns /\ cursor \in 1..(Size + 1)
      /\ start.cursor \in Nat \ {0} /\ position = PositionAt(cursor)
      /\ Numeral("number", start.cursor, cursor) /\ ModeOK("number", start, cursor)
  BY <1>1, PosFacts DEF Positioned
<1>4. start.cursor < cursor
  <2>1. ~(cursor <= Size /\ code[cursor] \in Digits)  BY <1>1 DEF Belongs, Inside, Here
  <2> QED  BY <1>3, <2>1 DEF ModeOK
<1>5. /\ \A k \in start.cursor..(cursor - 1) : code[k] # "\n"
      /\ start.cursor <= Size => code[start.cursor] \in Digits
  BY <1>3 DEF Numeral, Digits
<1>6. position' = PositionAt(cursor')
  <2>1. CASE Inside
    <3>1. cursor' = cursor /\ position' = SteppedBack(PositionAt(cursor + 1))
      <4>1. cursor \in 1..(Size + 2)  BY <1>3
      <4> QED  BY <1>1, <1>3, <2>1, <4>1, SteppedPosition DEF GivenBack
    <3>2. code[cursor - 1] # "\n" /\ cursor \in 1..(Size + 2)  BY <1>3, <1>4, <1>5
    <3> QED  BY <1>3, <3>1, <3>2, SteppedBackPosition
  <2>2. CASE ~Inside
    <3>1. cursor = Size + 1 /\ Size >= 1  BY <1>3, <1>4, <2>2 DEF Inside
    <3>2. cursor' = Size /\ position' = SteppedBack(PositionAt(Size + 1))
      BY <1>1, <1>3, <2>2, <3>1 DEF GivenBack
    <3>3. ~(Size \in 2..(Size + 1) /\ code[Size - 1] = "\n")
      <4>1. SUFFICES ASSUME Size >= 2, code[Size - 1] = "\n" PROVE FALSE  OBVIOUS
      <4>2. CASE start.cursor = Size  BY <1>3, <1>5, <4>1, <4>2 DEF Alone
      <4>3. CASE start.cursor # Size
        <5>1. Size - 1 \in start.cursor..(cursor - 1)  BY <1>3, <1>4, <3>1, <4>1, <4>3
        <5> QED  BY <1>5, <4>1, <5>1
      <4> QED  BY <4>2, <4>3
    <3>4. Size \in 1..(Size + 2)  BY <1>3, <3>1
    <3> QED  BY <1>3, <3>2, <3>3, <3>4, SteppedBackPosition
  <2> QED  BY <2>1, <2>2
<1> QED  BY <1>1, <1>2, <1>6, PushPositioned

LEMMA OperatorPositioned ==
  ASSUME PosInv, ~Alone, Operator
  PROVE  Next_Positioned
<1>1. UNCHANGED start  BY DEF Operator
<1>2. position' = PositionAt(cursor')
  <2>1. CASE Inside /\ lexer_step  BY <2>1, StepPositioned
  <2>2. CASE UNCHANGED <<cursor, position>>  BY <2>2, PosFacts DEF Positioned
  <2> QED  BY <2>1, <2>2 DEF Operator
<1>3. \/ \E type \in Types : push_token_array(type)
      \/ mode' \in {"top", "multi_line", "single_line"} /\ UNCHANGED tokens
  <2>1. CASE CASE <<char1, Here>> \in Pairs -> push_token_array(char1 \o Here)
              [] <<char1, Here>> = <<"/", "*">> -> mode' = "multi_line" /\ UNCHANGED tokens
              [] <<char1, Here>> = <<"/", "/">> -> mode' = "single_line" /\ UNCHANGED tokens
              [] OTHER -> Ignore
    <3>1. CASE <<char1, Here>> \in Pairs
      <4>1. push_token_array(char1 \o Here)
        <5>1. <<char1, Here>> # <<"/", "*">> /\ <<char1, Here>> # <<"/", "/">>
          BY <3>1 DEF Pairs
        <5> QED  BY <2>1, <3>1, <5>1
      <4>2. char1 \o Here \in Types
        <5> DEFINE p == <<char1, Here>>
        <5>1. p \in Pairs /\ p[1] \o p[2] = char1 \o Here  BY <3>1
        <5> HIDE DEF p
        <5> QED  BY <5>1 DEF Types
      <4> QED  BY <4>1, <4>2
    <3>2. CASE <<char1, Here>> \notin Pairs  BY <2>1, <3>2 DEF Ignore
    <3> QED  BY <3>1, <3>2
  <2>2. CASE IF char1 \in Singles THEN push_token_array(char1) ELSE Ignore
    BY <2>2 DEF Ignore, Types
  <2> QED  BY <2>1, <2>2 DEF Operator
<1>4. CASE \E type \in Types : push_token_array(type)  BY <1>1, <1>2, <1>4, PushPositioned
<1>5. CASE mode' \in {"top", "multi_line", "single_line"} /\ UNCHANGED tokens
  BY <1>1, <1>2, <1>5, QuietPositioned
<1> QED  BY <1>3, <1>4, <1>5

LEMMA CommentPositioned ==
  ASSUME PosInv, ~Alone, Single_Line_Comment \/ Multi_Line_Comment
  PROVE  Next_Positioned
<1>1. /\ mode \in {"single_line", "multi_line"} /\ UNCHANGED <<start, tokens>>
      /\ mode' # "number"
  BY DEF Single_Line_Comment, Multi_Line_Comment
<1>2. position = PositionAt(cursor) /\ cursor \in 1..(Size + 1) /\ Size \in Nat /\ Size + 2 < Columns
  BY <1>1, PosFacts DEF Positioned
<1>3. position' = PositionAt(cursor')
  <2>1. CASE Inside /\ lexer_step  BY <2>1, StepPositioned
  <2>2. CASE UNCHANGED <<cursor, position>>  BY <1>2, <2>2
  <2>3. CASE cursor' = cursor + 2 /\ position' = Stepped(Stepped(position, cursor), cursor + 1)
    <3>1. cursor \in 1..(Size + 2) /\ cursor + 1 \in 1..(Size + 2) /\ (cursor + 1) + 1 = cursor + 2
      BY <1>2
    <3>2. Stepped(position, cursor) = PositionAt(cursor + 1)  BY <1>2, <3>1, SteppedPosition
    <3>3. Stepped(PositionAt(cursor + 1), cursor + 1) = PositionAt((cursor + 1) + 1)
      BY <1>2, <3>1, SteppedPosition
    <3> QED  BY <2>3, <3>1, <3>2, <3>3
  <2> QED  BY <2>1, <2>2, <2>3 DEF Single_Line_Comment, Multi_Line_Comment
<1> QED  BY <1>1, <1>3, QuietPositioned

LEMMA ActionsPositioned ==
  ASSUME PosInv, ~Alone, Next
  PROVE  Next_Positioned
<1>1. position = PositionAt(cursor) /\ \A k \in DOMAIN tokens : TokenPositioned(tokens[k])
  BY PosFacts DEF Positioned
<1>2. CASE Skip_Space \/ Unknown_Character
  <2>1. Inside /\ lexer_step /\ Stay /\ mode = "top"
    BY <1>2 DEF Skip_Space, Unknown_Character
  <2> QED  BY <2>1, StepPositioned, QuietPositioned DEF Stay
<1>3. CASE End_Of_File
  <2> DEFINE t == [type |-> "EOF", from |-> cursor, to |-> cursor,
                   left |-> position, right |-> position]
  <2>1. tokens' = Append(tokens, t) /\ UNCHANGED <<cursor, position, mode, start>>
    BY <1>3 DEF End_Of_File
  <2>2. TokenPositioned(t)  BY <1>1 DEF TokenPositioned
  <2> HIDE DEF t
  <2>3. \A k \in DOMAIN tokens' : tokens'[k] = t \/ (k \in DOMAIN tokens /\ tokens'[k] = tokens[k])
    <3>1. tokens \in Seq(TokensOf)  BY PosFacts
    <3> HIDE DEF TokensOf
    <3> QED  BY <2>1, <3>1
  <2>4. \A k \in DOMAIN tokens' : TokenPositioned(tokens'[k])
    <3> HIDE DEF TokenPositioned
    <3> QED  BY <1>1, <2>2, <2>3
  <2> QED  BY <2>1, <2>4, PosFacts DEF Positioned, Next_Positioned
<1>4. CASE Symbol
  <2>1. mode = "symbol" /\ push_token_array(code[cursor - 1]) /\ UNCHANGED <<cursor, position, start>>
    BY <1>4 DEF Symbol
  <2>2. code[cursor - 1] \in Types  BY <2>1, PosFacts DEF ModeOK, Types
  <2> QED  BY <1>1, <2>1, <2>2, PushPositioned
<1>5. CASE Ident
  <2>1. push_token_array(WordType) /\ UNCHANGED <<cursor, position, start>>  BY <1>5 DEF Ident
  <2>2. WordType \in Types  BY DEF WordType, Types
  <2> QED  BY <1>1, <2>1, <2>2, PushPositioned
<1>6. CASE String
  <2>1. push_token_array("STRING") /\ UNCHANGED start  BY <1>6 DEF String
  <2>2. position' = PositionAt(cursor')
    <3>1. CASE Inside  BY <1>6, <3>1, StepPositioned DEF String
    <3>2. CASE ~Inside  BY <1>1, <1>6, <3>2 DEF String
    <3> QED  BY <3>1, <3>2
  <2>3. "STRING" \in Types  BY DEF Types
  <2> QED  BY <2>1, <2>2, <2>3, PushPositioned
<1>7. CASE Endless
  BY <1>7, PosFacts DEF Endless, Positioned, Next_Positioned
<1> QED
  BY <1>2, <1>3, <1>4, <1>5, <1>6, <1>7, BeginPositioned, CollectPositioned, NumberPositioned,
     OperatorPositioned, CommentPositioned DEF Next

\* Wherever lexer_step and lexer_step_back have taken the cursor, the position lexer->position
\* holds is the one of the character there, and every token carries those of its two ends,
\* but for a digit alone on the last line, which lexer_step_back passes over the break.
THEOREM PositionsAreRight == Spec => []PositionFollowsCursor
<1>1. Init => PosInv
  <2> SUFFICES ASSUME Init PROVE PosInv  OBVIOUS
  <2>1. LexInv /\ code \in Codes  BY LexInitInv DEF Init
  <2>2. Size \in Nat  BY <2>1, InvFacts
  <2>3. Breaks(1) = {}  BY <2>2 DEF Breaks
  <2>4. PositionAt(1) = [line |-> 0, column |-> 0]  BY <2>3, PositionHere, FS_EmptySet
  <2> QED  BY <2>1, <2>4 DEF PosInv, Init, Positioned, Numeral
<1>2. PosInv /\ [Next]_vars => PosInv'
  <2> SUFFICES ASSUME PosInv, [Next]_vars PROVE PosInv'  OBVIOUS
  <2>1. LexInv' /\ code' = code  BY LexNextInv DEF PosInv, Next, vars
  <2>2. CASE Alone  BY <2>1, <2>2 DEF PosInv, Alone, Size
  <2>3. CASE ~Alone
    <3>1. Next_Positioned
      <4>1. CASE Next  BY <2>3, <4>1, ActionsPositioned
      <4>2. CASE UNCHANGED vars  BY <2>3, <4>2, PosFacts DEF vars, Positioned, Next_Positioned
      <4> QED  BY <4>1, <4>2
    <3>2. Positioned'
      BY <2>1, <3>1 DEF Next_Positioned, Positioned, PositionAt, Numeral, TokenPositioned, Size
    <3> QED  BY <2>1, <3>2 DEF PosInv
  <2> QED  BY <2>2, <2>3
<1>3. PosInv => PositionFollowsCursor
  BY DEF PosInv, Alone, Positioned, TokenPositioned, PositionFollowsCursor
<1> QED  BY <1>1, <1>2, <1>3, PTL DEF Spec

-----------------------------------------------------------------------------
(***************************************************************************)
(* Lexemes.  With which character each kind begins, and what that leaves.  *)
(***************************************************************************)
LEMMA KindsApart ==
  ASSUME NEW c \in Characters
  PROVE  /\ c \in Spaces => c \notin Digits \cup Letters \cup Symbols \cup OpChars \cup Unknown \cup {Quote}
         /\ c \in Digits => c \notin Letters \cup Symbols \cup OpChars \cup Unknown \cup {Quote}
         /\ c \in Letters => c \notin Symbols \cup OpChars \cup Unknown \cup {Quote}
         /\ c \in Symbols => c \notin OpChars \cup Unknown \cup {Quote}
         /\ c \in OpChars => c \notin Unknown \cup {Quote}
         /\ c \in Unknown => c # Quote
         /\ c \in Spaces \cup Digits \cup Letters \cup Symbols \cup OpChars \cup Unknown \cup {Quote}
BY DEF Characters, Spaces, Digits, Letters, Symbols, OpChars, Unknown, Quote

LEMMA Marks ==
  /\ "/" \in OpChars /\ "*" \in OpChars /\ "." \in Symbols /\ "." \notin Digits
  /\ "." \notin Letters /\ "\n" \in Spaces /\ "/" # "*"
  /\ <<"/", "*">> \notin Pairs /\ <<"/", "/">> \notin Pairs
BY DEF OpChars, Symbols, Spaces, Digits, Letters, Pairs

Words == {w \in Seq(Characters) : Len(w) > 0}

LEMMA WordFacts ==
  ASSUME NEW w \in Words
  PROVE  /\ Len(w) \in Nat /\ Len(w) > 0 /\ DOMAIN w = 1..Len(w) /\ w[1] \in Characters
         /\ \A k \in 1..Len(w) : w[k] \in Characters
BY DEF Words

LEMMA PairFacts ==
  ASSUME NEW w \in Words, w \in Pairs
  PROVE  Len(w) = 2 /\ w[1] \in OpChars /\ w[2] \in OpChars /\ w = <<w[1], w[2]>>
BY DEF Pairs, OpChars

LEMMA TwoLong ==
  ASSUME NEW w \in Words, Len(w) = 2
  PROVE  w = <<w[1], w[2]>>
BY DEF Words

LEMMA Beginnings ==
  ASSUME NEW w \in Words
  PROVE  /\ Blank(w) <=> Len(w) = 1 /\ w[1] \in Spaces
         /\ Strange(w) <=> Len(w) = 1 /\ w[1] \in Unknown
         /\ Mark(w) <=> Len(w) = 1 /\ w[1] \in Symbols
         /\ Comment(w) => w[1] = "/" /\ Len(w) >= 2
         /\ Integer(w) => w[1] \in Digits
         /\ Float(w) => w[1] \in Digits
         /\ Word(w) => w[1] \in Letters
         /\ Quoted(w) => w[1] = Quote
         /\ OpText(w) => w[1] \in OpChars /\ Len(w) \in {1, 2}
         /\ NoOp(w) => w[1] \in OpChars /\ Len(w) \in {1, 2} /\ ~OpText(w)
<1>1. 1 \in DOMAIN w /\ Len(w) \in Nat /\ Len(w) > 0  BY WordFacts
<1>2. Comment(w) => w[1] = "/" /\ Len(w) >= 2  BY DEF Comment, Opens
<1>3. (Integer(w) => w[1] \in Digits) /\ (NoOp(w) => w[1] \in OpChars /\ ~OpText(w))
  BY <1>1 DEF Integer, NoOp, All
<1>4. OpText(w) => w[1] \in OpChars /\ Len(w) \in {1, 2}  BY PairFacts DEF OpText, Singles
<1>5. NoOp(w) => Len(w) \in {1, 2}
  <2> DEFINE n == Len(w)
  <2>1. NoOp(w) => n <= 2  BY DEF NoOp
  <2>2. n \in Nat /\ n > 0  BY <1>1
  <2> HIDE DEF n
  <2>3. n <= 2 => n \in {1, 2}  BY <2>2
  <2> QED  BY <2>1, <2>3 DEF n
<1> QED  BY <1>2, <1>3, <1>4, <1>5 DEF Blank, Strange, Mark, Float, Word, Quoted

LEMMA SpaceLexeme ==
  ASSUME NEW w \in Words, w[1] \in Spaces, Lexeme(w)
  PROVE  Blank(w) /\ Skipped(w) /\ ~Strange(w) /\ Len(w) = 1
<1>1. w[1] \in Characters  BY WordFacts
<1> QED  BY <1>1, Beginnings, KindsApart, Marks DEF Lexeme, Skipped

LEMMA UnknownLexeme ==
  ASSUME NEW w \in Words, w[1] \in Unknown, Lexeme(w)
  PROVE  Strange(w) /\ Skipped(w) /\ ~Blank(w) /\ Len(w) = 1
<1>1. w[1] \in Characters  BY WordFacts
<1> QED  BY <1>1, Beginnings, KindsApart, Marks DEF Lexeme, Skipped

LEMMA SymbolLexeme ==
  ASSUME NEW w \in Words, w[1] \in Symbols, Lexeme(w)
  PROVE  ~Skipped(w) /\ Class(w) = w[1] /\ Len(w) = 1
<1>1. w[1] \in Characters  BY WordFacts
<1>2. ~Skipped(w) /\ Len(w) = 1  BY <1>1, Beginnings, KindsApart, Marks DEF Lexeme, Skipped
<1>3. ~Integer(w) /\ ~Float(w) /\ ~Quoted(w) /\ ~Word(w) /\ w \notin Pairs
  BY <1>1, Beginnings, PairFacts, KindsApart
<1> QED  BY <1>2, <1>3 DEF Class

LEMMA DigitLexeme ==
  ASSUME NEW w \in Words, w[1] \in Digits
  PROVE  /\ Lexeme(w) <=> Integer(w) \/ Float(w)
         /\ ~Skipped(w)
         /\ Integer(w) => Class(w) = "INTEGER"
         /\ ~Integer(w) /\ Float(w) => Class(w) = "FLOAT"
<1>1. w[1] \in Characters  BY WordFacts
<1>2. ~Skipped(w)  BY <1>1, Beginnings, KindsApart, Marks DEF Skipped
<1>3. ~Quoted(w) /\ ~Word(w) /\ ~OpText(w) /\ ~Mark(w)  BY <1>1, Beginnings, KindsApart
<1>4. w \notin Pairs  BY <1>3 DEF OpText
<1>5. Integer(w) => ~Float(w)  BY Marks DEF Integer, Float, All
<1>6. Lexeme(w) <=> Integer(w) \/ Float(w)  BY <1>2, <1>3 DEF Lexeme
<1>7. Integer(w) => Class(w) = "INTEGER"  BY <1>3, <1>4, <1>5 DEF Class
<1>8. ~Integer(w) /\ Float(w) => Class(w) = "FLOAT"  BY <1>3, <1>4 DEF Class
<1> QED  BY <1>2, <1>6, <1>7, <1>8

LEMMA LetterLexeme ==
  ASSUME NEW w \in Words, w[1] \in Letters
  PROVE  /\ Lexeme(w) <=> Word(w)
         /\ ~Skipped(w)
         /\ Word(w) => Class(w) = IF w \in Keywords THEN "KEYWORD" ELSE "IDENTIFIER"
<1>1. w[1] \in Characters  BY WordFacts
<1>2. ~Skipped(w)  BY <1>1, Beginnings, KindsApart, Marks DEF Skipped
<1>3. ~Quoted(w) /\ ~Integer(w) /\ ~Float(w) /\ ~OpText(w) /\ ~Mark(w)
  BY <1>1, Beginnings, KindsApart
<1>4. w \notin Pairs  BY <1>3 DEF OpText
<1>5. Word(w) => Class(w) = IF w \in Keywords THEN "KEYWORD" ELSE "IDENTIFIER"
  BY <1>3, <1>4 DEF Class
<1>6. Lexeme(w) <=> Word(w)  BY <1>2, <1>3 DEF Lexeme
<1> QED  BY <1>2, <1>5, <1>6

LEMMA QuoteLexeme ==
  ASSUME NEW w \in Words, w[1] = Quote
  PROVE  /\ Lexeme(w) <=> Quoted(w)
         /\ ~Skipped(w)
         /\ Quoted(w) => Class(w) = "STRING"
<1>1. w[1] \in Characters  BY WordFacts
<1>2. ~Skipped(w)  BY <1>1, Beginnings, KindsApart, Marks DEF Skipped
<1>3. ~Word(w) /\ ~Integer(w) /\ ~Float(w) /\ ~OpText(w) /\ ~Mark(w)
  BY <1>1, Beginnings, KindsApart
<1>4. w \notin Pairs  BY <1>3 DEF OpText
<1>5. Quoted(w) => Class(w) = "STRING"  BY <1>3, <1>4 DEF Class
<1>6. Lexeme(w) <=> Quoted(w)  BY <1>2, <1>3 DEF Lexeme
<1> QED  BY <1>2, <1>5, <1>6

\* One or two operator characters, or a comment.
LEMMA OpLexeme ==
  ASSUME NEW w \in Words, w[1] \in OpChars
  PROVE  /\ Lexeme(w) <=> Comment(w) \/ Len(w) = 1 \/ (Len(w) = 2 /\ w[2] \in OpChars)
         /\ Skipped(w) <=> Comment(w) \/ NoOp(w)
         /\ ~Strange(w) /\ ~Blank(w)
         /\ OpText(w) /\ Len(w) = 1 => ~Skipped(w) /\ Class(w) = w[1]
         /\ w \in Pairs => ~Skipped(w) /\ Class(w) = w[1] \o w[2]
<1>1. w[1] \in Characters /\ Len(w) \in Nat /\ Len(w) > 0  BY WordFacts
<1>2. ~Strange(w) /\ ~Blank(w) /\ ~Integer(w) /\ ~Float(w) /\ ~Word(w) /\ ~Quoted(w) /\ ~Mark(w)
  BY <1>1, Beginnings, KindsApart
<1>3. OpText(w) \/ NoOp(w) <=> Len(w) = 1 \/ (Len(w) = 2 /\ w[2] \in OpChars)
  <2>1. CASE Len(w) = 1  BY <2>1, WordFacts DEF NoOp, All
  <2>2. CASE Len(w) = 2
    <3>1. w[2] \in OpChars => All(w, OpChars)  BY <2>2, WordFacts DEF All
    <3>2. All(w, OpChars) => w[2] \in OpChars  BY <2>2, WordFacts DEF All
    <3>3. OpText(w) => w[2] \in OpChars  BY <2>2, PairFacts DEF OpText
    <3> QED  BY <2>2, <3>1, <3>2, <3>3 DEF NoOp
  <2>3. CASE Len(w) \notin {1, 2}
    <3>1. ~OpText(w) /\ ~NoOp(w)  BY <2>3, Beginnings
    <3> QED  BY <2>3, <3>1
  <2> QED  BY <2>1, <2>2, <2>3
<1>4. OpText(w) => ~Comment(w)
  <2> SUFFICES ASSUME OpText(w), Comment(w) PROVE FALSE  OBVIOUS
  <2>1. w \in Pairs /\ (w[2] = "*" \/ w[2] = "/")  BY Beginnings DEF OpText, Comment, Opens
  <2>2. w = <<w[1], w[2]>> /\ w[1] = "/"  BY <2>1, PairFacts, Beginnings
  <2> QED  BY <2>1, <2>2, Marks
<1>5. w \in Pairs => OpText(w)  BY DEF OpText
<1>6. Len(w) = 1 => w \notin Pairs  BY PairFacts
<1>7. OpText(w) => ~Skipped(w)  BY <1>2, <1>4 DEF Skipped, NoOp
<1>8. w \in Pairs => Class(w) = w[1] \o w[2]  BY <1>2 DEF Class
<1>9. w \notin Pairs => Class(w) = w[1]  BY <1>2 DEF Class
<1> QED  BY <1>2, <1>3, <1>5, <1>6, <1>7, <1>8, <1>9 DEF Lexeme, Skipped

\* A character alone is a lexeme, whichever it is.
LEMMA AloneLexeme ==
  ASSUME NEW w \in Words, Len(w) = 1
  PROVE  Lexeme(w)
<1>1. w[1] \in Characters /\ DOMAIN w = 1..1  BY WordFacts
<1>2. CASE w[1] \in Spaces  BY <1>2 DEF Lexeme, Skipped, Blank
<1>3. CASE w[1] \in Unknown  BY <1>3 DEF Lexeme, Skipped, Strange
<1>4. CASE w[1] \in Symbols  BY <1>4 DEF Lexeme, Mark
<1>5. CASE w[1] \in Digits  BY <1>1, <1>5 DEF Lexeme, Integer, All
<1>6. CASE w[1] \in Letters  BY <1>1, <1>6 DEF Lexeme, Word, All
<1>7. CASE w[1] = Quote  BY <1>7 DEF Lexeme, Quoted, Within
<1>8. CASE w[1] \in OpChars  BY <1>8, OpLexeme
<1> QED  BY <1>1, <1>2, <1>3, <1>4, <1>5, <1>6, <1>7, <1>8, KindsApart

\* What a token's type may be.
LEMMA ClassType ==
  ASSUME NEW w \in Words, Lexeme(w), ~Skipped(w)
  PROVE  Class(w) \in Types
<1>1. w[1] \in Characters  BY WordFacts
<1>2. CASE w[1] \in Spaces  BY <1>2, SpaceLexeme
<1>3. CASE w[1] \in Unknown  BY <1>3, UnknownLexeme
<1>4. CASE w[1] \in Symbols  BY <1>4, SymbolLexeme DEF Types
<1>5. CASE w[1] \in Digits  BY <1>5, DigitLexeme DEF Types
<1>6. CASE w[1] \in Letters  BY <1>6, LetterLexeme DEF Types
<1>7. CASE w[1] = Quote  BY <1>7, QuoteLexeme DEF Types
<1>8. CASE w[1] \in OpChars
  <2>1. OpText(w)
    BY <1>1, <1>8, Beginnings, KindsApart DEF Lexeme
  <2>2. CASE w \in Pairs  BY <1>8, <2>2, OpLexeme DEF Types
  <2>3. CASE w \notin Pairs  BY <1>8, <2>1, <2>3, OpLexeme DEF OpText, Types
  <2> QED  BY <2>2, <2>3
<1> QED  BY <1>1, <1>2, <1>3, <1>4, <1>5, <1>6, <1>7, <1>8, KindsApart

-----------------------------------------------------------------------------
(***************************************************************************)
(* The longest lexeme at a place.                                          *)
(***************************************************************************)
LEMMA TextFacts ==
  ASSUME code \in Seq(Characters), NEW i \in 1..Size, NEW j \in (i + 1)..(Size + 1)
  PROVE  /\ Text_(i, j) \in Words /\ Len(Text_(i, j)) = j - i
         /\ \A k \in 1..(j - i) : Text_(i, j)[k] = code[i + k - 1]
         /\ Text_(i, j)[1] = code[i]
<1>1. Size \in Nat /\ i \in Nat /\ j \in Nat /\ i < j /\ j - 1 <= Size  BY SizeFact
<1> DEFINE m == j - 1
<1>2. m \in Int /\ i <= m /\ m <= Size /\ m - i + 1 = j - i  BY <1>1
<1> HIDE DEF m
<1>3. \A k \in i..m : code[k] \in Characters  BY <1>1, <1>2 DEF Size
<1>4. /\ SubSeq(code, i, m) \in Seq(Characters) /\ Len(SubSeq(code, i, m)) = m - i + 1
      /\ \A k \in 1..(m - i + 1) : SubSeq(code, i, m)[k] = code[i + k - 1]
  BY <1>1, <1>2, <1>3, SubSeqProperties
<1>5. Text_(i, j) = SubSeq(code, i, m)  BY DEF Text_, m
<1>6. i + 1 - 1 = i /\ 1 \in 1..(j - i) /\ j - i > 0  BY <1>1
<1>7. Text_(i, j)[1] = code[i + 1 - 1]  BY <1>2, <1>4, <1>5, <1>6
<1> QED  BY <1>2, <1>4, <1>5, <1>6, <1>7 DEF Words

LEMMA EndIs ==
  ASSUME code \in Seq(Characters), NEW i \in 1..Size, NEW c \in (i + 1)..(Size + 1),
         Lexeme(Text_(i, c)), \A j \in (c + 1)..(Size + 1) : ~Lexeme(Text_(i, j))
  PROVE  End(i) = c
<1> DEFINE S == {j \in (i + 1)..(Size + 1) : Lexeme(Text_(i, j))}
<1>1. Size \in Nat /\ i \in Nat /\ c \in Nat /\ Size + 1 \in Nat  BY SizeFact
<1>2. S \in SUBSET (1..(Size + 1)) /\ c \in S  BY <1>1
<1>3. \A j \in S : j <= c  BY <1>1
<1> HIDE DEF S
<1>4. Max(S) = c  BY <1>1, <1>2, <1>3, MaxIs
<1> QED  BY <1>4 DEF End, S

\* There is nothing behind the end.
LEMMA EndLast ==
  ASSUME code \in Seq(Characters), NEW i \in 1..Size, Lexeme(Text_(i, Size + 1))
  PROVE  End(i) = Size + 1
<1>1. Size \in Nat /\ Size + 1 \in (i + 1)..(Size + 1)  BY SizeFact
<1>2. \A j \in ((Size + 1) + 1)..(Size + 1) : ~Lexeme(Text_(i, j))  BY <1>1
<1> QED  BY <1>1, <1>2, EndIs

LEMMA EndExists ==
  ASSUME code \in Seq(Characters), NEW i \in 1..Size
  PROVE  End(i) \in (i + 1)..(Size + 1) /\ Lexeme(Text_(i, End(i))) /\ Text_(i, End(i)) \in Words
<1> DEFINE S == {j \in (i + 1)..(Size + 1) : Lexeme(Text_(i, j))}
<1>1. Size \in Nat /\ i \in Nat /\ Size + 1 \in Nat /\ i + 1 \in (i + 1)..(Size + 1)  BY SizeFact
<1>2. Text_(i, i + 1) \in Words /\ Len(Text_(i, i + 1)) = 1
  <2>1. (i + 1) - i = 1  BY <1>1
  <2> QED  BY <1>1, <2>1, TextFacts
<1>3. S \in SUBSET (1..(Size + 1)) /\ S # {}  BY <1>1, <1>2, AloneLexeme
<1>4. S \subseteq (i + 1)..(Size + 1) /\ \A j \in S : Lexeme(Text_(i, j))  OBVIOUS
<1> HIDE DEF S
<1>5. Max(S) \in S  BY <1>1, <1>3, MaxExists
<1>6. End(i) = Max(S)  BY DEF End, S
<1>7. End(i) \in (i + 1)..(Size + 1) /\ Lexeme(Text_(i, End(i)))  BY <1>4, <1>5, <1>6
<1> QED  BY <1>7, TextFacts

-----------------------------------------------------------------------------
(***************************************************************************)
(* The cut of the source, by recursion from its end.                       *)
(***************************************************************************)
SpanType == [type : Types, from : Nat, to : Nat]
CutType == [spoken : Seq(SpanType), ignored : SUBSET Int, strange : Nat, last : Nat]
Places == 1..(Size + 1)
Piece(i) == [type |-> Class(Text_(i, End(i))), from |-> i, to |-> End(i)]

CutStep(i, f) ==
  IF i > Size THEN [spoken |-> <<>>, ignored |-> {}, strange |-> 0, last |-> i]
  ELSE [spoken |-> (IF Skipped(Text_(i, End(i))) THEN <<>>
                    ELSE <<[type |-> Class(Text_(i, End(i))), from |-> i, to |-> End(i)]>>)
                   \o f[End(i)].spoken,
        ignored |-> (IF Blank(Text_(i, End(i))) \/ Comment(Text_(i, End(i)))
                     THEN i..(End(i) - 1) ELSE {}) \cup f[End(i)].ignored,
        strange |-> (IF Strange(Text_(i, End(i))) THEN 1 ELSE 0) + f[End(i)].strange,
        last |-> IF End(i) > Size THEN i ELSE f[End(i)].last]

LEMMA CutRecurses ==
  ASSUME NEW g, g = [i \in 1..(Size + 1) |-> CutStep(i, g)]
  PROVE  Cut = [i \in 1..(Size + 1) |-> CutStep(i, Cut)]
BY DEF Cut, CutStep

LEMMA PieceFacts ==
  ASSUME code \in Seq(Characters), NEW i \in 1..Size
  PROVE  /\ End(i) \in Places /\ i < End(i) /\ i \in Nat /\ Size \in Nat
         /\ ~Skipped(Text_(i, End(i))) => Piece(i) \in SpanType
<1>1. /\ End(i) \in (i + 1)..(Size + 1) /\ Size \in Nat /\ i \in Nat
      /\ Lexeme(Text_(i, End(i))) /\ Text_(i, End(i)) \in Words
  BY EndExists, SizeFact
<1>2. ~Skipped(Text_(i, End(i))) => Class(Text_(i, End(i))) \in Types  BY <1>1, ClassType
<1>3. End(i) \in Places /\ i < End(i) /\ End(i) \in Nat  BY <1>1 DEF Places
<1> QED  BY <1>1, <1>2, <1>3 DEF Piece, SpanType

LEMMA CutStepType ==
  ASSUME code \in Seq(Characters), NEW i \in Places, NEW f \in [Places -> CutType]
  PROVE  CutStep(i, f) \in CutType
<1>1. Size \in Nat /\ i \in Nat  BY SizeFact DEF Places
<1>2. CASE i > Size
  <2>1. CutStep(i, f) = [spoken |-> <<>>, ignored |-> {}, strange |-> 0, last |-> i]
    BY <1>2 DEF CutStep
  <2>2. <<>> \in Seq(SpanType)  OBVIOUS
  <2> QED  BY <1>1, <2>1, <2>2 DEF CutType
<1>3. CASE ~(i > Size)
  <2> DEFINE w == Text_(i, End(i))
             rest == f[End(i)]
             here == IF Skipped(w) THEN <<>> ELSE <<Piece(i)>>
             blank == IF Blank(w) \/ Comment(w) THEN i..(End(i) - 1) ELSE {}
             n == IF Strange(w) THEN 1 ELSE 0
             l == IF End(i) > Size THEN i ELSE rest.last
  <2>1. CutStep(i, f) = [spoken |-> here \o rest.spoken, ignored |-> blank \cup rest.ignored,
                         strange |-> n + rest.strange, last |-> l]
    BY <1>3 DEF CutStep, Piece
  <2>2. i \in 1..Size  BY <1>1, <1>3 DEF Places
  <2>3. End(i) \in Places /\ End(i) \in Nat /\ rest \in CutType
    BY <1>1, <2>2, PieceFacts DEF Places
  <2>4. rest.spoken \in Seq(SpanType) /\ rest.ignored \in SUBSET Int /\ rest.strange \in Nat /\ rest.last \in Nat
    <3> HIDE DEF rest
    <3> QED  BY <2>3 DEF CutType
  <2>5. here \in Seq(SpanType)
    <3>1. CASE Skipped(w)  BY <3>1
    <3>2. CASE ~Skipped(w)
      <4> DEFINE p == Piece(i)
      <4>1. p \in SpanType  BY <2>2, <3>2, PieceFacts
      <4>2. here = <<p>>  BY <3>2
      <4> HIDE DEF p, here
      <4> QED  BY <4>1, <4>2
    <3> QED  BY <3>1, <3>2
  <2>6. blank \in SUBSET Int /\ n \in Nat /\ l \in Nat  BY <1>1, <2>3, <2>4
  <2> HIDE DEF here, blank, n, l, rest
  <2>7. here \o rest.spoken \in Seq(SpanType)  BY <2>4, <2>5, ConcatProperties
  <2>8. n + rest.strange \in Nat  BY <2>4, <2>6
  <2>9. blank \cup rest.ignored \in SUBSET Int  BY <2>4, <2>6, Zenon
  <2> QED  BY <2>1, <2>6, <2>7, <2>8, <2>9 DEF CutType
<1> QED  BY <1>2, <1>3

LEMMA CutStepSame ==
  ASSUME code \in Seq(Characters), NEW i \in Places, NEW f, NEW g,
         \A m \in Places : m > i => f[m] = g[m]
  PROVE  CutStep(i, f) = CutStep(i, g)
<1>1. Size \in Nat /\ i \in Nat  BY SizeFact DEF Places
<1>2. CASE i > Size  BY <1>2 DEF CutStep
<1>3. CASE ~(i > Size)
  <2>1. i \in 1..Size  BY <1>1, <1>3 DEF Places
  <2>2. End(i) \in Places /\ End(i) > i  BY <1>1, <2>1, PieceFacts DEF Places
  <2>3. f[End(i)] = g[End(i)]  BY <2>2
  <2> QED  BY <2>3 DEF CutStep
<1> QED  BY <1>2, <1>3

\* How far it is to the end.
Distance == [i \in Places |-> Size + 1 - i]

LEMMA DistanceFacts ==
  ASSUME code \in Seq(Characters)
  PROVE  /\ Distance \in [Places -> Nat]
         /\ \A i, m \in Places : Distance[m] < Distance[i] <=> m > i
<1>1. Size \in Nat  BY SizeFact
<1> QED  BY <1>1 DEF Distance, Places

LEMMA CutFacts ==
  ASSUME code \in Seq(Characters)
  PROVE  /\ \A i \in Places : Cut[i] \in CutType /\ Cut[i] = CutStep(i, Cut)
         /\ Cut = [i \in Places |-> Cut[i]]
<1> DEFINE S == CutType
           N == Places
           D == [i \in N |-> [f \in [N -> S] |-> CutStep(i, f)]]
<1>1. D \in [N -> [[N -> S] -> S]]  BY CutStepType
<1>2. \A i \in N : \A f, g \in [N -> S] :
        (\A m \in N : Distance[m] < Distance[i] => f[m] = g[m]) => D[i][f] = D[i][g]
  <2>1. SUFFICES ASSUME NEW i \in N, NEW f \in [N -> S], NEW g \in [N -> S],
                        \A m \in N : Distance[m] < Distance[i] => f[m] = g[m]
                 PROVE  CutStep(i, f) = CutStep(i, g)
    OBVIOUS
  <2>2. \A m \in Places : m > i => f[m] = g[m]  BY <2>1, DistanceFacts
  <2> QED  BY <2>2, CutStepSame
<1>3. Distance \in [N -> Nat] /\ S # {}
  <2>1. [spoken |-> <<>>, ignored |-> {}, strange |-> 0, last |-> 0] \in CutType  BY DEF CutType
  <2> QED  BY <2>1, DistanceFacts
<1>4. PICK g \in [N -> S] : \A i \in N : g[i] = D[i][g]
  <2> HIDE DEF S, N, D
  <2>1. D \in Recursions(N, S, Distance)  BY <1>1, <1>2 DEF Recursions
  <2> QED  BY <1>3, <2>1, TreeRecursion
<1>5. \A i \in N : g[i] = CutStep(i, g)
  <2> HIDE DEF S
  <2> QED  BY <1>4
<1>6. g = [i \in 1..(Size + 1) |-> CutStep(i, g)]  BY <1>4, <1>5 DEF Places
<1>7. Cut = [i \in N |-> CutStep(i, Cut)]  BY <1>6, CutRecurses DEF Places
<1> DEFINE Same == {i \in N : Cut[i] = g[i]}
<1>8. ASSUME NEW i \in N, \A m \in N : Distance[m] < Distance[i] => m \in Same
      PROVE  i \in Same
  <2>1. \A m \in Places : m > i => Cut[m] = g[m]  BY <1>8, DistanceFacts
  <2>2. CutStep(i, Cut) = CutStep(i, g)  BY <2>1, CutStepSame
  <2> QED  BY <1>5, <1>7, <2>2
<1>9. N \subseteq Same
  <2> HIDE DEF N, Same
  <2> QED  BY <1>3, <1>8, TreeInduction
<1>10. \A i \in N : Cut[i] \in S  BY <1>4, <1>9
<1> QED  BY <1>7, <1>10

LEMMA CutHere ==
  ASSUME code \in Seq(Characters), NEW i \in 1..Size
  PROVE  /\ Cut[i].spoken = (IF Skipped(Text_(i, End(i))) THEN <<>> ELSE <<Piece(i)>>)
                            \o Cut[End(i)].spoken
         /\ Cut[i].strange = (IF Strange(Text_(i, End(i))) THEN 1 ELSE 0) + Cut[End(i)].strange
         /\ Cut[i].last = IF End(i) > Size THEN i ELSE Cut[End(i)].last
<1>1. i \in Places /\ ~(i > Size)  BY SizeFact DEF Places
<1>2. Cut[i] = CutStep(i, Cut)  BY <1>1, CutFacts
<1> DEFINE here == IF Skipped(Text_(i, End(i))) THEN <<>> ELSE <<Piece(i)>>
           blank == IF Blank(Text_(i, End(i))) \/ Comment(Text_(i, End(i)))
                    THEN i..(End(i) - 1) ELSE {}
           n == IF Strange(Text_(i, End(i))) THEN 1 ELSE 0
           l == IF End(i) > Size THEN i ELSE Cut[End(i)].last
<1>3. Cut[i] = [spoken |-> here \o Cut[End(i)].spoken,
                ignored |-> blank \cup Cut[End(i)].ignored,
                strange |-> n + Cut[End(i)].strange, last |-> l]
  BY <1>1, <1>2 DEF CutStep, Piece
<1> HIDE DEF here, blank, n, l
<1>4. Cut[i].spoken = here \o Cut[End(i)].spoken /\ Cut[i].strange = n + Cut[End(i)].strange
      /\ Cut[i].last = l
  BY <1>3
<1> QED  BY <1>4 DEF here, n, l

LEMMA CutTypes ==
  ASSUME code \in Seq(Characters), NEW i \in Places
  PROVE  Cut[i].spoken \in Seq(SpanType) /\ Cut[i].strange \in Nat /\ Cut[i].last \in Nat
<1>1. Cut[i] \in CutType  BY CutFacts
<1> QED  BY <1>1 DEF CutType

LEMMA CutEnd ==
  ASSUME code \in Seq(Characters)
  PROVE  Cut[Size + 1].spoken = <<>> /\ Cut[Size + 1].strange = 0
<1>1. Size + 1 \in Places /\ Size + 1 > Size  BY SizeFact DEF Places
<1>2. Cut[Size + 1] = CutStep(Size + 1, Cut)  BY <1>1, CutFacts
<1> QED  BY <1>1, <1>2 DEF CutStep

-----------------------------------------------------------------------------
(***************************************************************************)
(* The invariant of the longest lexemes.  The tokens so far, followed by   *)
(* those of the rest of the source, are the tokens of the source, and so   *)
(* for the errors; inside a function the rest begins where it was called,  *)
(* and what it has taken is the beginning of a lexeme of its kind.         *)
(***************************************************************************)
Right(i, ts, e) ==
  /\ Spans(ts) \o Cut[i].spoken = Cut[1].spoken
  /\ e + Cut[i].strange = Cut[1].strange
  /\ i <= Size => Cut[i].last = Cut[1].last

Dot == [type |-> ".", from |-> Size, to |-> Size + 1]

Ended(ts, e) == Spans(ts) = Expected /\ e = ExpectedErrors
\* A point has been given back by the number before it, and is read again.
Repeated(ts, e) == DotLast /\ Spans(ts) \o <<Dot>> = Expected /\ e = ExpectedErrors
\* A digit has been given back, and is read for ever.
Circling == NumberLast /\ ~DotLast /\ code[Size] \in Digits

AtTop(c, ts, e) ==
  \/ c <= Size /\ Right(c, ts, e)
  \/ c > Size /\ Ended(ts, e)
  \/ c = Size /\ (Repeated(ts, e) \/ Circling)

Digit_or_dot(i, c, dot) ==
  IF dot
  THEN \E k \in (i + 1)..(c - 1) :
         code[k] = "." /\ \A l \in (i..(c - 1)) \ {k} : code[l] \in Digits
  ELSE \A l \in i..(c - 1) : code[l] \in Digits

\* The errors of a comment's last two looks: one character before the end, and behind it.
Looks(i, c) == IF c > Size /\ c > i + 2 THEN 1 ELSE 0

Reading(m, i, c, dot, ts, e) ==
  \/ m = "number" /\ code[i] \in Digits /\ Digit_or_dot(i, c, dot) /\ Right(i, ts, e)
  \/ m = "number" /\ i = Size /\ Circling
  \/ /\ m = "ident" /\ code[i] \in Letters /\ Right(i, ts, e)
     /\ \A l \in i..(c - 1) : code[l] \in Letters \cup Digits
  \/ /\ m = "string" /\ code[i] = Quote /\ c > i /\ Right(i, ts, e)
     /\ \A l \in (i + 1)..(c - 1) : code[l] # Quote
  \/ m = "symbol" /\ code[i] \in Symbols /\ c = i + 1 /\ Right(i, ts, e)
  \/ m = "symbol" /\ i = Size /\ c = i + 1 /\ code[i] = "." /\ Repeated(ts, e)
  \/ m = "operator" /\ code[i] \in OpChars /\ c = i + 1 /\ Right(i, ts, e)
  \/ /\ m = "single_line" /\ c >= i + 2 /\ code[i] = "/" /\ code[i + 1] = "/" /\ Right(i, ts, e)
     /\ \A l \in (i + 2)..(c - 1) : code[l] # "\n"
  \/ /\ m = "multi_line" /\ c >= i + 2 /\ code[i] = "/" /\ code[i + 1] = "*"
     /\ Right(i, ts, e - Looks(i, c))
     /\ \A l \in (i + 2)..(c - 1) : l < Size => ~(code[l] = "*" /\ code[l + 1] = "/")

Stands(m, i, c, dot, ts, e) ==
  IF m = "top" THEN AtTop(c, ts, e)
  ELSE i <= Size /\ i <= c /\ c <= Size + 1 /\ Reading(m, i, c, dot, ts, e)

Munching == status = "run" => Stands(mode, start.cursor, cursor, has_dot, tokens, errors)

-----------------------------------------------------------------------------
(***************************************************************************)
(* A lexeme more.                                                          *)
(***************************************************************************)
SpanOf(t) == [type |-> t.type, from |-> t.from, to |-> t.to]

LEMMA SpansFacts ==
  ASSUME NEW S, NEW ts \in Seq(S), \A t \in S : SpanOf(t) \in SpanType
  PROVE  /\ Spans(ts) \in Seq(SpanType) /\ Len(Spans(ts)) = Len(ts)
         /\ \A k \in 1..Len(ts) : Spans(ts)[k] = SpanOf(ts[k])
<1>1. Len(ts) \in Nat /\ DOMAIN ts = 1..Len(ts) /\ \A k \in 1..Len(ts) : ts[k] \in S  OBVIOUS
<1>2. Spans(ts) = [k \in 1..Len(ts) |-> SpanOf(ts[k])]  BY <1>1 DEF Spans, SpanOf
<1>3. \A k \in 1..Len(ts) : SpanOf(ts[k]) \in SpanType  BY <1>1
<1> HIDE DEF SpanType
<1> DEFINE s == Spans(ts)
           e == [k \in 1..Len(ts) |-> SpanOf(ts[k])]
<1>4. s \in [1..Len(ts) -> SpanType] /\ \A k \in 1..Len(ts) : s[k] = SpanOf(ts[k])
  BY <1>2, <1>3
<1> HIDE DEF s
<1>5. s \in Seq(SpanType) /\ Len(s) = Len(ts)  BY <1>1, <1>4
<1> QED  BY <1>4, <1>5 DEF s

LEMMA SpansAppend ==
  ASSUME NEW S, NEW ts \in Seq(S), \A t \in S : SpanOf(t) \in SpanType,
         NEW t, SpanOf(t) \in SpanType
  PROVE  Spans(Append(ts, t)) = Append(Spans(ts), SpanOf(t)) /\ Spans(ts) \in Seq(SpanType)
<1> DEFINE T == S \cup {t}
           q == Append(ts, t)
           s == Spans(ts)
<1>1. ts \in Seq(T) /\ q \in Seq(T) /\ Len(q) = Len(ts) + 1 /\ q[Len(ts) + 1] = t
      /\ \A k \in 1..Len(ts) : q[k] = ts[k]
  OBVIOUS
<1>2. \A u \in T : SpanOf(u) \in SpanType  OBVIOUS
<1>3. Len(ts) \in Nat  OBVIOUS
<1> HIDE DEF T, q
<1>4. /\ Spans(q) \in Seq(SpanType) /\ Len(Spans(q)) = Len(q)
      /\ \A k \in 1..Len(q) : Spans(q)[k] = SpanOf(q[k])
  BY <1>1, <1>2, SpansFacts
<1>5. /\ s \in Seq(SpanType) /\ Len(s) = Len(ts)
      /\ \A k \in 1..Len(ts) : s[k] = SpanOf(ts[k])
  BY SpansFacts
<1> DEFINE r == Append(s, SpanOf(t))
<1> HIDE DEF s
<1>6. /\ r \in Seq(SpanType) /\ Len(r) = Len(s) + 1 /\ r[Len(s) + 1] = SpanOf(t)
      /\ \A k \in 1..Len(s) : r[k] = s[k]
  <2> DEFINE p == SpanOf(t)
  <2>1. p \in SpanType  OBVIOUS
  <2> HIDE DEF p, SpanType
  <2> QED  BY <1>5, <2>1, AppendProperties
<1> HIDE DEF r
<1>7. \A k \in 1..Len(q) : Spans(q)[k] = r[k]
  <2> TAKE k \in 1..Len(q)
  <2>1. CASE k = Len(ts) + 1  BY <1>1, <1>4, <1>5, <1>6, <2>1
  <2>2. CASE k # Len(ts) + 1
    <3>1. k \in 1..Len(ts)  BY <1>1, <1>3, <2>2
    <3> QED  BY <1>1, <1>4, <1>5, <1>6, <3>1
  <2> QED  BY <2>1, <2>2
<1>8. Spans(q) = r
  <2> DEFINE z == Spans(q)
  <2>1. z \in Seq(SpanType) /\ Len(z) = Len(r) /\ \A k \in 1..Len(z) : z[k] = r[k]
    BY <1>1, <1>3, <1>4, <1>5, <1>6, <1>7
  <2> HIDE DEF z
  <2>2. z = r  BY <1>6, <2>1, SeqEqual
  <2> QED  BY <2>2 DEF z
<1> QED  BY <1>5, <1>8 DEF q, r, s

LEMMA TokenSpans ==
  ASSUME LexInv
  PROVE  \A t \in TokensOf : SpanOf(t) \in SpanType
BY DEF TokensOf, SpanOf, SpanType

\* One element moves from the head of what is left to the end of what is done.
LEMMA MoveOver ==
  ASSUME NEW S, NEW q \in Seq(S), NEW r \in Seq(S), NEW p \in S
  PROVE  q \o (<<p>> \o r) = Append(q, p) \o r
<1>1. <<p>> \in Seq(S) /\ Append(q, p) = q \o <<p>>  BY AppendIsConcat
<1> QED  BY <1>1, ConcatAssociative

LEMMA PassSkipped ==
  ASSUME LexInv, NEW i \in 1..Size, NEW ts, NEW e \in Int, Right(i, ts, e),
         Skipped(Text_(i, End(i)))
  PROVE  Right(End(i), ts, e + (IF Strange(Text_(i, End(i))) THEN 1 ELSE 0))
<1> DEFINE n == IF Strange(Text_(i, End(i))) THEN 1 ELSE 0
           x == Cut[End(i)].strange
<1>1. code \in Seq(Characters) /\ Size \in Nat /\ End(i) \in Places  BY InvFacts, PieceFacts
<1>2. Cut[End(i)].spoken \in Seq(SpanType) /\ x \in Nat  BY <1>1, CutTypes
<1>3. Cut[i].spoken = <<>> \o Cut[End(i)].spoken  BY <1>1, CutHere
<1>4. Cut[i].spoken = Cut[End(i)].spoken  BY <1>2, <1>3, ConcatEmptySeq
<1>5. Cut[i].strange = n + x  BY <1>1, CutHere
<1>6. n \in Int  OBVIOUS
<1> HIDE DEF n, x
<1>7. (e + n) + x = e + (n + x)  BY <1>2, <1>6
<1>8. End(i) <= Size => Cut[End(i)].last = Cut[i].last
  <2>1. End(i) \in Nat /\ (End(i) <= Size => ~(End(i) > Size))  BY <1>1 DEF Places
  <2>2. Cut[i].last = IF End(i) > Size THEN i ELSE Cut[End(i)].last  BY <1>1, CutHere
  <2> QED  BY <2>1, <2>2
<1>9. Spans(ts) \o Cut[End(i)].spoken = Cut[1].spoken  BY <1>4 DEF Right
<1>10. (e + n) + x = Cut[1].strange  BY <1>5, <1>7 DEF Right
<1>11. End(i) <= Size => Cut[End(i)].last = Cut[1].last  BY <1>8 DEF Right
<1> QED  BY <1>9, <1>10, <1>11 DEF Right, n, x

LEMMA PassSpoken ==
  ASSUME LexInv, NEW i \in 1..Size, NEW ts \in Seq(TokensOf), NEW e \in Int, Right(i, ts, e),
         ~Skipped(Text_(i, End(i))), NEW t, SpanOf(t) = Piece(i)
  PROVE  Right(End(i), Append(ts, t), e) /\ Spans(Append(ts, t)) \in Seq(SpanType)
<1> DEFINE x == Cut[End(i)].strange
           p == Piece(i)
           q == Spans(ts)
           r == Cut[End(i)].spoken
<1>1. code \in Seq(Characters) /\ Size \in Nat /\ End(i) \in Places /\ p \in SpanType
  BY InvFacts, PieceFacts
<1>2. r \in Seq(SpanType) /\ x \in Nat  BY <1>1, CutTypes
<1>3. Cut[i].spoken = <<p>> \o r  BY <1>1, CutHere
<1>4. Spans(Append(ts, t)) = Append(q, p) /\ q \in Seq(SpanType)
  BY <1>1, TokenSpans, SpansAppend
<1>5. Cut[i].strange = 0 + x  BY <1>1, CutHere DEF Skipped
<1>6. End(i) <= Size => Cut[End(i)].last = Cut[i].last
  <2>1. End(i) \in Nat /\ (End(i) <= Size => ~(End(i) > Size))  BY <1>1 DEF Places
  <2>2. Cut[i].last = IF End(i) > Size THEN i ELSE Cut[End(i)].last  BY <1>1, CutHere
  <2> QED  BY <2>1, <2>2
<1>7. q \o Cut[i].spoken = Cut[1].spoken  BY DEF Right
<1> HIDE DEF p, q, r, x
<1>8. Append(q, p) \o r = Cut[1].spoken
  <2> HIDE DEF SpanType
  <2>1. p \in SpanType /\ r \in Seq(SpanType) /\ q \in Seq(SpanType)  BY <1>1, <1>2, <1>4
  <2> DEFINE S == SpanType
  <2>2. p \in S /\ r \in Seq(S) /\ q \in Seq(S)  BY <2>1
  <2> HIDE DEF S
  <2>3. q \o (<<p>> \o r) = Append(q, p) \o r  BY <2>2, MoveOver, Zenon
  <2> QED  BY <1>3, <1>7, <2>3
<1>9. Spans(Append(ts, t)) \o Cut[End(i)].spoken = Cut[1].spoken  BY <1>4, <1>8 DEF r
<1>10. e + Cut[End(i)].strange = Cut[1].strange  BY <1>2, <1>5 DEF Right, x
<1>11. End(i) <= Size => Cut[End(i)].last = Cut[1].last  BY <1>6 DEF Right
<1>12. Spans(Append(ts, t)) \in Seq(SpanType)  BY <1>1, <1>4, AppendProperties
<1> QED  BY <1>9, <1>10, <1>11, <1>12 DEF Right

\* The lexeme that ends with the source is the last one.
LEMMA LastFacts ==
  ASSUME LexInv, NEW i \in 1..Size, NEW ts, NEW e, Right(i, ts, e), End(i) = Size + 1
  PROVE  /\ Cut[1].last = i /\ LastLexeme = Text_(i, Size + 1) /\ LastLexeme \in Words
         /\ LastLexeme[1] = code[i] /\ Len(LastLexeme) = (Size + 1) - i
         /\ \A k \in 1..((Size + 1) - i) : LastLexeme[k] = code[i + k - 1]
         /\ Lexeme(LastLexeme) /\ Size > 0
<1>1. code \in Seq(Characters) /\ Size \in Nat /\ Size + 1 > Size /\ i \in Nat  BY InvFacts
<1>2. Cut[i].last = i  BY <1>1, CutHere
<1>3. Cut[1].last = i  BY <1>1, <1>2 DEF Right
<1>4. Size + 1 \in (i + 1)..(Size + 1)  BY <1>1
<1>5. Lexeme(Text_(i, Size + 1))  BY <1>1, EndExists
<1>6. LastLexeme = Text_(i, Size + 1)  BY <1>3 DEF LastLexeme
<1>7. /\ Text_(i, Size + 1) \in Words /\ Len(Text_(i, Size + 1)) = (Size + 1) - i
      /\ \A k \in 1..((Size + 1) - i) : Text_(i, Size + 1)[k] = code[i + k - 1]
      /\ Text_(i, Size + 1)[1] = code[i]
  <2> DEFINE j == Size + 1
  <2>1. j \in (i + 1)..(Size + 1)  BY <1>4
  <2> HIDE DEF j
  <2>2. /\ Text_(i, j) \in Words /\ Len(Text_(i, j)) = j - i
        /\ \A k \in 1..(j - i) : Text_(i, j)[k] = code[i + k - 1]
        /\ Text_(i, j)[1] = code[i]
    BY <1>1, <2>1, TextFacts
  <2> QED  BY <2>2 DEF j
<1> QED  BY <1>1, <1>3, <1>5, <1>6, <1>7

LEMMA AllRead ==
  ASSUME LexInv, NEW ts, Spans(ts) \in Seq(SpanType), NEW e \in Int, Right(Size + 1, ts, e)
  PROVE  Spans(ts) = Cut[1].spoken /\ e = Cut[1].strange
<1>2. Cut[Size + 1].spoken = <<>> /\ Cut[Size + 1].strange = 0  BY InvFacts, CutEnd
<1>3. Spans(ts) \o <<>> = Cut[1].spoken /\ e + 0 = Cut[1].strange  BY <1>2 DEF Right
<1> QED  BY <1>3, ConcatEmptySeq

\* Whatever ends with the source, but for numbers, operators and comments, ends it well.
LEMMA NoNumber ==
  ASSUME LexInv, NEW i \in 1..Size, NEW ts, NEW e, Right(i, ts, e), End(i) = Size + 1,
         code[i] \notin Digits
  PROVE  ~NumberLast /\ Expected = Cut[1].spoken
<1>1. LastLexeme \in Words /\ LastLexeme[1] \notin Digits  BY LastFacts
<1>2. ~NumberLast  BY <1>1, Beginnings DEF NumberLast
<1> QED  BY <1>2 DEF Expected, DotLast

LEMMA NoOperator ==
  ASSUME LexInv, NEW i \in 1..Size, NEW ts, NEW e, Right(i, ts, e), End(i) = Size + 1,
         code[i] \notin OpChars
  PROVE  ExpectedErrors = Cut[1].strange
<1>1. LastLexeme \in Words /\ LastLexeme[1] = code[i] /\ Cut[1].last = i  BY LastFacts
<1>2. ~OpLast  BY <1>1 DEF OpLast
<1>3. ~Unclosed  BY <1>1, Beginnings, Marks DEF Unclosed
<1>4. Cut[1].strange \in Nat
  <2>1. code \in Seq(Characters) /\ 1 \in Places  BY InvFacts DEF Places
  <2> QED  BY <2>1, CutTypes
<1> QED  BY <1>2, <1>3, <1>4 DEF ExpectedErrors

LEMMA Arrives ==
  ASSUME LexInv, NEW i \in 1..Size, NEW us, NEW d, Right(i, us, d),
         code[i] \notin Digits, code[i] \notin OpChars,
         NEW ts, Spans(ts) \in Seq(SpanType), NEW e \in Int, Right(End(i), ts, e)
  PROVE  AtTop(End(i), ts, e)
<1>1. Size \in Nat /\ End(i) \in 1..(Size + 1)  BY InvFacts, PieceFacts DEF Places
<1>2. CASE End(i) <= Size  BY <1>2 DEF AtTop
<1>3. CASE End(i) > Size
  <2>1. End(i) = Size + 1  BY <1>1, <1>3
  <2>2. Expected = Cut[1].spoken /\ ExpectedErrors = Cut[1].strange
    BY <2>1, NoNumber, NoOperator
  <2>3. Right(Size + 1, ts, e)  BY <2>1
  <2>4. Spans(ts) = Expected /\ e = ExpectedErrors  BY <2>2, <2>3, AllRead
  <2> QED  BY <1>3, <2>4 DEF AtTop, Ended
<1> QED  BY <1>1, <1>2, <1>3

-----------------------------------------------------------------------------
(***************************************************************************)
(* The kinds of lexemes, read off the source.                              *)
(***************************************************************************)
LEMMA TextAll ==
  ASSUME code \in Seq(Characters), NEW i \in 1..Size, NEW j \in (i + 1)..(Size + 1), NEW set
  PROVE  All(Text_(i, j), set) <=> \A l \in i..(j - 1) : code[l] \in set
<1> DEFINE w == Text_(i, j)
<1>1. /\ Size \in Nat /\ i \in Nat /\ j \in Nat /\ w \in Words /\ Len(w) = j - i
      /\ \A k \in 1..(j - i) : w[k] = code[i + k - 1]
  BY SizeFact, TextFacts
<1>2. DOMAIN w = 1..(j - i)  BY <1>1, WordFacts
<1> HIDE DEF w
<1>3. ASSUME \A l \in i..(j - 1) : code[l] \in set PROVE All(w, set)
  <2>1. \A k \in 1..(j - i) : i + k - 1 \in i..(j - 1)  BY <1>1
  <2> QED  BY <1>1, <1>2, <1>3, <2>1 DEF All
<1>4. ASSUME All(w, set), NEW l \in i..(j - 1) PROVE code[l] \in set
  <2>1. l - i + 1 \in 1..(j - i) /\ i + (l - i + 1) - 1 = l  BY <1>1
  <2>2. w[l - i + 1] \in set  BY <1>2, <1>4, <2>1 DEF All
  <2> QED  BY <1>1, <2>1, <2>2
<1> QED  BY <1>3, <1>4 DEF w

LEMMA TextWithin ==
  ASSUME code \in Seq(Characters), NEW i \in 1..Size, NEW j \in (i + 1)..(Size + 1),
         NEW k \in Nat \ {0}, NEW c
  PROVE  Within(Text_(i, j), k, c) <=> \E l \in (i + k - 1)..(j - 2) : code[l] = c
<1> DEFINE w == Text_(i, j)
<1>1. /\ Size \in Nat /\ i \in Nat /\ j \in Nat /\ Len(w) = j - i
      /\ \A m \in 1..(j - i) : w[m] = code[i + m - 1]
  BY SizeFact, TextFacts
<1> HIDE DEF w
<1>2. ASSUME NEW l \in k..(Len(w) - 1), w[l] = c PROVE \E m \in (i + k - 1)..(j - 2) : code[m] = c
  <2>1. l \in 1..(j - i) /\ i + l - 1 \in (i + k - 1)..(j - 2)  BY <1>1
  <2> QED  BY <1>1, <1>2, <2>1
<1>3. ASSUME NEW m \in (i + k - 1)..(j - 2), code[m] = c PROVE \E l \in k..(Len(w) - 1) : w[l] = c
  <2>1. m - i + 1 \in 1..(j - i) /\ m - i + 1 \in k..(Len(w) - 1) /\ i + (m - i + 1) - 1 = m
    BY <1>1
  <2> QED  BY <1>1, <1>3, <2>1
<1> QED  BY <1>2, <1>3 DEF Within, w

LEMMA FloatText ==
  ASSUME code \in Seq(Characters), NEW i \in 1..Size, NEW j \in (i + 1)..(Size + 1),
         code[i] \in Digits
  PROVE  Float(Text_(i, j)) <=>
           \E k \in i..(j - 1) : code[k] = "." /\ \A l \in (i..(j - 1)) \ {k} : code[l] \in Digits
<1> DEFINE w == Text_(i, j)
<1>0. w \in Words /\ Len(w) = j - i /\ w[1] = code[i]
      /\ \A m \in 1..(j - i) : w[m] = code[i + m - 1]
  BY TextFacts
<1>1. /\ Size \in Nat /\ i \in Nat /\ j \in Nat /\ w \in Words /\ Len(w) = j - i
      /\ \A m \in 1..(j - i) : w[m] = code[i + m - 1]
      /\ w[1] = code[i]
  <2>1. Size \in Nat  BY SizeFact
  <2>2. i \in Nat /\ j \in Nat  BY <2>1
  <2> QED  BY <1>0, <2>1, <2>2
<1>2. DOMAIN w = 1..(j - i)  BY <1>1, WordFacts
<1> HIDE DEF w
<1>3. ASSUME NEW m \in 1..(j - i), w[m] = ".", \A l \in (1..(j - i)) \ {m} : w[l] \in Digits
      PROVE  \E k \in i..(j - 1) : code[k] = "." /\ \A l \in (i..(j - 1)) \ {k} : code[l] \in Digits
  <2>1. i + m - 1 \in i..(j - 1) /\ code[i + m - 1] = "."  BY <1>1, <1>3
  <2>2. ASSUME NEW l \in (i..(j - 1)) \ {i + m - 1} PROVE code[l] \in Digits
    <3>1. l - i + 1 \in (1..(j - i)) \ {m} /\ i + (l - i + 1) - 1 = l  BY <1>1
    <3>2. w[l - i + 1] = code[i + (l - i + 1) - 1]  BY <1>1, <3>1
    <3> QED  BY <1>3, <3>1, <3>2
  <2> QED  BY <2>1, <2>2
<1>4. ASSUME NEW k \in i..(j - 1), code[k] = ".", \A l \in (i..(j - 1)) \ {k} : code[l] \in Digits
      PROVE  \E m \in 1..(j - i) : w[m] = "." /\ \A l \in (1..(j - i)) \ {m} : w[l] \in Digits
  <2>1. k - i + 1 \in 1..(j - i) /\ i + (k - i + 1) - 1 = k  BY <1>1
  <2>2. w[k - i + 1] = "."  BY <1>1, <1>4, <2>1
  <2>3. ASSUME NEW l \in (1..(j - i)) \ {k - i + 1} PROVE w[l] \in Digits
    <3>1. i + l - 1 \in (i..(j - 1)) \ {k} /\ w[l] = code[i + l - 1]  BY <1>1
    <3> QED  BY <1>4, <3>1
  <2> QED  BY <2>1, <2>2, <2>3
<1> QED  BY <1>1, <1>2, <1>3, <1>4 DEF Float, w

LEMMA LineText ==
  ASSUME code \in Seq(Characters), NEW i \in 1..Size, NEW j \in (i + 1)..(Size + 1),
         i + 1 <= Size, code[i] = "/", code[i + 1] = "/"
  PROVE  Comment(Text_(i, j)) <=> j >= i + 2 /\ \A l \in (i + 2)..(j - 2) : code[l] # "\n"
<1> DEFINE w == Text_(i, j)
<1>0. Len(w) = j - i /\ w[1] = code[i] /\ \A m \in 1..(j - i) : w[m] = code[i + m - 1]
  BY TextFacts
<1>1. /\ Size \in Nat /\ i \in Nat /\ j \in Nat /\ Len(w) = j - i
      /\ \A m \in 1..(j - i) : w[m] = code[i + m - 1]
      /\ w[1] = code[i]
  <2>1. Size \in Nat  BY SizeFact
  <2>2. i \in Nat /\ j \in Nat  BY <2>1
  <2> QED  BY <1>0, <2>1, <2>2
<1>2. Within(w, 3, "\n") <=> \E l \in (i + 3 - 1)..(j - 2) : code[l] = "\n"  BY TextWithin
<1> HIDE DEF w
<1>3. i + 3 - 1 = i + 2 /\ i + 2 - 1 = i + 1 /\ (Len(w) >= 2 <=> j >= i + 2)  BY <1>1
<1>4. j >= i + 2 => w[2] = "/"
  <2>1. j >= i + 2 => 2 \in 1..(j - i)  BY <1>1
  <2> QED  BY <1>1, <1>3, <2>1
<1>5. Opens(w, "/", "/") <=> j >= i + 2  BY <1>1, <1>3, <1>4 DEF Opens
<1>6. ~Opens(w, "/", "*")  BY <1>3, <1>4, Marks DEF Opens
<1> QED  BY <1>2, <1>3, <1>5, <1>6 DEF Comment, w

LEMMA BlockText ==
  ASSUME code \in Seq(Characters), NEW i \in 1..Size, NEW j \in (i + 1)..(Size + 1),
         i + 1 <= Size, code[i] = "/", code[i + 1] = "*"
  PROVE  Comment(Text_(i, j)) <=>
           /\ j >= i + 2
           /\ \A l \in (i + 2)..(j - 3) : ~(code[l] = "*" /\ code[l + 1] = "/")
<1> DEFINE w == Text_(i, j)
<1>0. Len(w) = j - i /\ w[1] = code[i] /\ \A m \in 1..(j - i) : w[m] = code[i + m - 1]
  BY TextFacts
<1>1. /\ Size \in Nat /\ i \in Nat /\ j \in Nat /\ Len(w) = j - i
      /\ \A m \in 1..(j - i) : w[m] = code[i + m - 1]
      /\ w[1] = code[i]
  <2>1. Size \in Nat  BY SizeFact
  <2>2. i \in Nat /\ j \in Nat  BY <2>1
  <2> QED  BY <1>0, <2>1, <2>2
<1> HIDE DEF w
<1>2. i + 2 - 1 = i + 1 /\ (Len(w) >= 2 <=> j >= i + 2)  BY <1>1
<1>3. j >= i + 2 => w[2] = "*"
  <2>1. j >= i + 2 => 2 \in 1..(j - i)  BY <1>1
  <2> QED  BY <1>1, <1>2, <2>1
<1>4. ~Opens(w, "/", "/")  BY <1>2, <1>3, Marks DEF Opens
<1>5. Opens(w, "/", "*") <=> j >= i + 2  BY <1>1, <1>2, <1>3 DEF Opens
<1>6. (\A l \in 3..(Len(w) - 2) : ~(w[l] = "*" /\ w[l + 1] = "/")) <=>
      \A l \in (i + 2)..(j - 3) : ~(code[l] = "*" /\ code[l + 1] = "/")
  <2>1. ASSUME NEW l \in 3..(Len(w) - 2)
        PROVE  /\ i + l - 1 \in (i + 2)..(j - 3)
               /\ w[l] = code[i + l - 1] /\ w[l + 1] = code[(i + l - 1) + 1]
    <3>1. l \in 1..(j - i) /\ l + 1 \in 1..(j - i) /\ i + (l + 1) - 1 = (i + l - 1) + 1
          /\ i + l - 1 \in (i + 2)..(j - 3)
      BY <1>1
    <3>2. w[l] = code[i + l - 1] /\ w[l + 1] = code[i + (l + 1) - 1]  BY <1>1, <3>1
    <3> QED  BY <3>1, <3>2
  <2>2. ASSUME NEW l \in (i + 2)..(j - 3)
        PROVE  /\ l - i + 1 \in 3..(Len(w) - 2)
               /\ w[l - i + 1] = code[l] /\ w[(l - i + 1) + 1] = code[l + 1]
    <3>1. /\ l - i + 1 \in 3..(Len(w) - 2) /\ l - i + 1 \in 1..(j - i)
          /\ (l - i + 1) + 1 \in 1..(j - i) /\ i + (l - i + 1) - 1 = l
          /\ i + ((l - i + 1) + 1) - 1 = l + 1
      BY <1>1
    <3>2. w[l - i + 1] = code[i + (l - i + 1) - 1]
          /\ w[(l - i + 1) + 1] = code[i + ((l - i + 1) + 1) - 1]
      BY <1>1, <3>1
    <3> QED  BY <3>1, <3>2
  <2>3. ASSUME \A l \in 3..(Len(w) - 2) : ~(w[l] = "*" /\ w[l + 1] = "/"),
               NEW l \in (i + 2)..(j - 3)
        PROVE  ~(code[l] = "*" /\ code[l + 1] = "/")
    BY <2>2, <2>3
  <2>4. ASSUME \A l \in (i + 2)..(j - 3) : ~(code[l] = "*" /\ code[l + 1] = "/"),
               NEW l \in 3..(Len(w) - 2)
        PROVE  ~(w[l] = "*" /\ w[l + 1] = "/")
    BY <2>1, <2>4
  <2> QED  BY <2>3, <2>4
<1> QED  BY <1>4, <1>5, <1>6 DEF Comment, w

-----------------------------------------------------------------------------
(***************************************************************************)
(* Where each kind of lexeme ends.                                         *)
(***************************************************************************)
LEMMA AloneEnd ==
  ASSUME code \in Seq(Characters), NEW i \in 1..Size
  PROVE  /\ code[i] \in Spaces => End(i) = i + 1 /\ Skipped(Text_(i, End(i))) /\ ~Strange(Text_(i, End(i)))
         /\ code[i] \in Unknown => End(i) = i + 1 /\ Skipped(Text_(i, End(i))) /\ Strange(Text_(i, End(i)))
         /\ code[i] \in Symbols => /\ End(i) = i + 1 /\ ~Skipped(Text_(i, End(i)))
                                   /\ Class(Text_(i, End(i))) = code[i]
<1> DEFINE w == Text_(i, End(i))
           j == End(i)
<1>1. Size \in Nat /\ i \in Nat /\ j \in (i + 1)..(Size + 1) /\ Lexeme(w) /\ w \in Words
  BY EndExists, SizeFact
<1>2. Len(w) = j - i /\ w[1] = code[i]  BY <1>1, TextFacts
<1> HIDE DEF w, j
<1>3. Len(w) = 1 => j = i + 1
  <2>1. j \in Int /\ i \in Int  BY <1>1
  <2>2. j - i = 1 => j = i + 1  BY <2>1
  <2> QED  BY <1>2, <2>2
<1>4. code[i] \in Spaces => Skipped(w) /\ ~Strange(w) /\ Len(w) = 1  BY <1>1, <1>2, SpaceLexeme
<1>5. code[i] \in Unknown => Skipped(w) /\ Strange(w) /\ Len(w) = 1  BY <1>1, <1>2, UnknownLexeme
<1>6. code[i] \in Symbols => ~Skipped(w) /\ Class(w) = code[i] /\ Len(w) = 1
  BY <1>1, <1>2, SymbolLexeme
<1> QED  BY <1>3, <1>4, <1>5, <1>6 DEF w, j

LEMMA NumberEnd ==
  ASSUME code \in Seq(Characters), NEW i \in 1..Size, NEW c \in (i + 1)..(Size + 1),
         code[i] \in Digits, NEW dot \in BOOLEAN, Digit_or_dot(i, c, dot),
         c <= Size => code[c] \notin Digits /\ (code[c] = "." => dot)
  PROVE  /\ End(i) = c /\ ~Skipped(Text_(i, c))
         /\ Class(Text_(i, c)) = IF dot THEN "FLOAT" ELSE "INTEGER"
         /\ Integer(Text_(i, c)) \/ Float(Text_(i, c))
<1>1. Size \in Nat /\ i \in Nat /\ c \in Nat  BY SizeFact
<1>2. \A j \in (i + 1)..(Size + 1) : Text_(i, j) \in Words /\ Text_(i, j)[1] = code[i]  BY TextFacts
<1>3. \A j \in (i + 1)..(Size + 1) :
        Lexeme(Text_(i, j)) <=> Integer(Text_(i, j)) \/ Float(Text_(i, j))
  BY <1>2, DigitLexeme
<1>4. \A j \in (i + 1)..(Size + 1) :
        Integer(Text_(i, j)) <=> \A l \in i..(j - 1) : code[l] \in Digits
  BY TextAll DEF Integer
<1>5. \A j \in (i + 1)..(Size + 1) :
        Float(Text_(i, j)) <=>
          \E k \in i..(j - 1) : code[k] = "." /\ \A l \in (i..(j - 1)) \ {k} : code[l] \in Digits
  BY FloatText
<1>6. CASE dot
  <2>1. PICK k \in (i + 1)..(c - 1) :
          code[k] = "." /\ \A l \in (i..(c - 1)) \ {k} : code[l] \in Digits
    BY <1>6 DEF Digit_or_dot
  <2>2. k \in i..(c - 1)  BY <1>1, <2>1
  <2>3. Float(Text_(i, c))  BY <1>5, <2>1, <2>2
  <2>4. ~Integer(Text_(i, c))  BY <1>4, <2>1, <2>2, Marks
  <2>5. ASSUME NEW j \in (c + 1)..(Size + 1), Lexeme(Text_(i, j)) PROVE FALSE
    <3>1. j \in (i + 1)..(Size + 1) /\ c \in i..(j - 1) /\ k \in i..(j - 1) /\ c <= Size /\ k # c
      BY <1>1, <2>2
    <3>2. ~Integer(Text_(i, j))  BY <1>4, <2>1, <3>1, Marks
    <3>3. PICK m \in i..(j - 1) : code[m] = "." /\ \A l \in (i..(j - 1)) \ {m} : code[l] \in Digits
      BY <1>3, <1>5, <2>5, <3>1, <3>2
    <3>4. m = c  BY <3>1, <3>3
    <3>5. k \in (i..(j - 1)) \ {m}  BY <3>1, <3>4
    <3> QED  BY <2>1, <3>3, <3>5, Marks
  <2>6. End(i) = c  BY <1>3, <2>3, <2>5, EndIs
  <2> QED  BY <1>2, <1>6, <2>3, <2>4, <2>6, DigitLexeme
<1>7. CASE ~dot
  <2>1. \A l \in i..(c - 1) : code[l] \in Digits  BY <1>7 DEF Digit_or_dot
  <2>2. Integer(Text_(i, c))  BY <1>4, <2>1
  <2>3. ASSUME NEW j \in (c + 1)..(Size + 1), Lexeme(Text_(i, j)) PROVE FALSE
    <3>1. j \in (i + 1)..(Size + 1) /\ c \in i..(j - 1) /\ c <= Size  BY <1>1
    <3>2. code[c] \notin Digits /\ code[c] # "."  BY <1>7, <3>1
    <3>3. ~Integer(Text_(i, j))  BY <1>4, <3>1, <3>2
    <3>4. PICK m \in i..(j - 1) : code[m] = "." /\ \A l \in (i..(j - 1)) \ {m} : code[l] \in Digits
      BY <1>3, <1>5, <2>3, <3>1, <3>3
    <3> QED  BY <3>1, <3>2, <3>4
  <2>4. End(i) = c  BY <1>3, <2>2, <2>3, EndIs
  <2> QED  BY <1>2, <1>7, <2>2, <2>4, DigitLexeme
<1> QED  BY <1>6, <1>7

LEMMA WordEnd ==
  ASSUME code \in Seq(Characters), NEW i \in 1..Size, NEW c \in (i + 1)..(Size + 1),
         code[i] \in Letters, \A l \in i..(c - 1) : code[l] \in Letters \cup Digits,
         c <= Size => code[c] \notin Letters \cup Digits
  PROVE  /\ End(i) = c /\ ~Skipped(Text_(i, c))
         /\ Class(Text_(i, c)) = IF Text_(i, c) \in Keywords THEN "KEYWORD" ELSE "IDENTIFIER"
<1>1. Size \in Nat /\ i \in Nat /\ c \in Nat  BY SizeFact
<1>2. \A j \in (i + 1)..(Size + 1) : Text_(i, j) \in Words /\ Text_(i, j)[1] = code[i]  BY TextFacts
<1>3. \A j \in (i + 1)..(Size + 1) : Lexeme(Text_(i, j)) <=> Word(Text_(i, j))
  BY <1>2, LetterLexeme
<1>4. \A j \in (i + 1)..(Size + 1) :
        Word(Text_(i, j)) <=> \A l \in i..(j - 1) : code[l] \in Letters \cup Digits
  BY <1>2, TextAll DEF Word
<1>5. Word(Text_(i, c))  BY <1>4
<1>6. ASSUME NEW j \in (c + 1)..(Size + 1), Lexeme(Text_(i, j)) PROVE FALSE
  <2>1. j \in (i + 1)..(Size + 1) /\ c \in i..(j - 1) /\ c <= Size  BY <1>1
  <2> QED  BY <1>3, <1>4, <1>6, <2>1
<1>7. End(i) = c  BY <1>3, <1>5, <1>6, EndIs
<1> QED  BY <1>2, <1>5, <1>7, LetterLexeme

LEMMA QuotedEnd ==
  ASSUME code \in Seq(Characters), NEW i \in 1..Size, NEW c \in (i + 1)..(Size + 1),
         code[i] = Quote, \A l \in (i + 1)..(c - 2) : code[l] # Quote,
         c <= Size => c - 1 > i /\ code[c - 1] = Quote
  PROVE  End(i) = c /\ ~Skipped(Text_(i, c)) /\ Class(Text_(i, c)) = "STRING"
<1>1. Size \in Nat /\ i \in Nat /\ c \in Nat  BY SizeFact
<1>2. \A j \in (i + 1)..(Size + 1) : Text_(i, j) \in Words /\ Text_(i, j)[1] = code[i]  BY TextFacts
<1>3. \A j \in (i + 1)..(Size + 1) : Lexeme(Text_(i, j)) <=> Quoted(Text_(i, j))
  BY <1>2, QuoteLexeme
<1>4. \A j \in (i + 1)..(Size + 1) :
        Quoted(Text_(i, j)) <=> ~\E l \in (i + 1)..(j - 2) : code[l] = Quote
  <2> TAKE j \in (i + 1)..(Size + 1)
  <2>1. Within(Text_(i, j), 2, Quote) <=> \E l \in (i + 2 - 1)..(j - 2) : code[l] = Quote
    BY TextWithin
  <2>2. i + 2 - 1 = i + 1  BY <1>1
  <2> QED  BY <1>2, <2>1, <2>2 DEF Quoted
<1>5. Quoted(Text_(i, c))  BY <1>4
<1>6. ASSUME NEW j \in (c + 1)..(Size + 1), Lexeme(Text_(i, j)) PROVE FALSE
  <2>1. j \in (i + 1)..(Size + 1) /\ c <= Size  BY <1>1
  <2>2. c - 1 \in (i + 1)..(j - 2) /\ code[c - 1] = Quote  BY <1>1, <2>1
  <2> QED  BY <1>3, <1>4, <1>6, <2>1, <2>2
<1>7. End(i) = c  BY <1>3, <1>5, <1>6, EndIs
<1> QED  BY <1>2, <1>5, <1>7, QuoteLexeme

\* A comment begins with two operator characters.
LEMMA CommentOpens ==
  ASSUME code \in Seq(Characters), NEW i \in 1..Size, NEW j \in (i + 1)..(Size + 1),
         Comment(Text_(i, j))
  PROVE  j >= i + 2 /\ code[i] = "/" /\ (code[i + 1] = "/" \/ code[i + 1] = "*")
<1> DEFINE w == Text_(i, j)
<1>0. Len(w) = j - i /\ \A k \in 1..(j - i) : w[k] = code[i + k - 1]  BY TextFacts
<1>1. Size \in Nat /\ i \in Nat /\ j \in Nat  BY SizeFact
<1>2. Len(w) >= 2 /\ w[1] = "/" /\ (w[2] = "/" \/ w[2] = "*")  BY DEF Comment, Opens
<1> HIDE DEF w
<1>3. j - i >= 2  BY <1>0, <1>2
<1>4. 1 \in 1..(j - i) /\ 2 \in 1..(j - i) /\ i + 1 - 1 = i /\ i + 2 - 1 = i + 1  BY <1>1, <1>3
<1>5. w[1] = code[i + 1 - 1] /\ w[2] = code[i + 2 - 1]  BY <1>0, <1>4
<1> QED  BY <1>1, <1>2, <1>3, <1>4, <1>5

LEMMA OpText_ ==
  ASSUME code \in Seq(Characters), NEW i \in 1..Size, NEW j \in (i + 1)..(Size + 1),
         code[i] \in OpChars
  PROVE  Lexeme(Text_(i, j)) <=> \/ Comment(Text_(i, j)) \/ j = i + 1
                                 \/ j = i + 2 /\ code[i + 1] \in OpChars
<1> DEFINE w == Text_(i, j)
<1>0. w \in Words /\ Len(w) = j - i /\ w[1] = code[i] /\ \A k \in 1..(j - i) : w[k] = code[i + k - 1]
  BY TextFacts
<1>1. Size \in Nat /\ i \in Nat /\ j \in Nat  BY SizeFact
<1>2. Lexeme(w) <=> Comment(w) \/ Len(w) = 1 \/ (Len(w) = 2 /\ w[2] \in OpChars)
  BY <1>0, OpLexeme
<1> HIDE DEF w
<1>3. (Len(w) = 1 <=> j = i + 1) /\ (Len(w) = 2 <=> j = i + 2)  BY <1>0, <1>1
<1>4. j = i + 2 => w[2] = code[i + 1]
  <2>1. j = i + 2 => 2 \in 1..(j - i) /\ i + 2 - 1 = i + 1  BY <1>1
  <2> QED  BY <1>0, <2>1
<1> QED  BY <1>2, <1>3, <1>4 DEF w

LEMMA SingleEnd ==
  ASSUME code \in Seq(Characters), NEW i \in 1..Size, code[i] \in OpChars,
         i + 1 <= Size => code[i + 1] \notin OpChars
  PROVE  /\ End(i) = i + 1 /\ ~Strange(Text_(i, i + 1)) /\ ~Comment(Text_(i, i + 1))
         /\ code[i] \in Singles => ~Skipped(Text_(i, i + 1)) /\ Class(Text_(i, i + 1)) = code[i]
         /\ code[i] \notin Singles => Skipped(Text_(i, i + 1))
<1>1. Size \in Nat /\ i \in Nat /\ i + 1 \in (i + 1)..(Size + 1) /\ (i + 1) - i = 1  BY SizeFact
<1> DEFINE w == Text_(i, i + 1)
<1>2. w \in Words /\ Len(w) = 1 /\ w[1] = code[i]  BY <1>1, TextFacts
<1>3. Lexeme(w)  BY <1>2, AloneLexeme
<1>4. ASSUME NEW j \in ((i + 1) + 1)..(Size + 1), Lexeme(Text_(i, j)) PROVE FALSE
  <2>1. j \in (i + 1)..(Size + 1) /\ i + 1 <= Size /\ j # i + 1  BY <1>1
  <2>2. code[i + 1] \notin OpChars  BY <2>1
  <2>3. Comment(Text_(i, j))  BY <1>4, <2>1, <2>2, OpText_
  <2> QED  BY <2>1, <2>2, <2>3, CommentOpens, Marks
<1>5. End(i) = i + 1  BY <1>1, <1>3, <1>4, EndIs
<1> HIDE DEF w
<1>6. ~Comment(w)
  <2>1. Comment(w) => Len(w) >= 2  BY <1>2, Beginnings
  <2>2. ~(1 >= 2)  OBVIOUS
  <2> QED  BY <1>2, <2>1, <2>2
<1>7. w \notin Pairs  BY <1>2, PairFacts
<1>8. OpText(w) <=> code[i] \in Singles  BY <1>2, <1>7 DEF OpText
<1>9. Skipped(w) <=> NoOp(w)  BY <1>2, <1>6, OpLexeme
<1>10. NoOp(w) <=> ~OpText(w)
  <2>1. DOMAIN w = 1..1  BY <1>2, WordFacts
  <2>2. All(w, OpChars)  BY <1>2, <2>1 DEF All
  <2>3. Len(w) <= 2  BY <1>2
  <2> QED  BY <2>2, <2>3 DEF NoOp
<1>11. ~Strange(w) /\ (OpText(w) => ~Skipped(w) /\ Class(w) = code[i])  BY <1>2, OpLexeme
<1> QED  BY <1>5, <1>6, <1>8, <1>9, <1>10, <1>11 DEF w

LEMMA PairEnd ==
  ASSUME code \in Seq(Characters), NEW i \in 1..Size, i + 1 <= Size, code[i] \in OpChars,
         code[i + 1] \in OpChars, <<code[i], code[i + 1]>> # <<"/", "*">>,
         <<code[i], code[i + 1]>> # <<"/", "/">>
  PROVE  /\ End(i) = i + 2 /\ ~Strange(Text_(i, i + 2)) /\ ~Comment(Text_(i, i + 2))
         /\ <<code[i], code[i + 1]>> \in Pairs =>
              ~Skipped(Text_(i, i + 2)) /\ Class(Text_(i, i + 2)) = code[i] \o code[i + 1]
         /\ <<code[i], code[i + 1]>> \notin Pairs => Skipped(Text_(i, i + 2))
<1>1. Size \in Nat /\ i \in Nat /\ i + 2 \in (i + 1)..(Size + 1) /\ (i + 2) - i = 2
  <2>1. Size \in Nat  BY SizeFact
  <2> QED  BY <2>1
<1> DEFINE w == Text_(i, i + 2)
<1>2. w \in Words /\ Len(w) = 2 /\ w[1] = code[i] /\ \A k \in 1..2 : w[k] = code[i + k - 1]
  BY <1>1, TextFacts
<1>3. w[2] = code[i + 1]
  <2>1. i + 2 - 1 = i + 1 /\ 2 \in 1..2  BY <1>1
  <2>2. w[2] = code[i + 2 - 1]  BY <1>2, <2>1
  <2> QED  BY <2>1, <2>2
<1>4. \A j \in (i + 1)..(Size + 1) : ~Comment(Text_(i, j))  BY CommentOpens
<1>5. Lexeme(w)  BY <1>1, OpText_
<1>6. ASSUME NEW j \in ((i + 2) + 1)..(Size + 1), Lexeme(Text_(i, j)) PROVE FALSE
  <2>1. j \in (i + 1)..(Size + 1) /\ j # i + 1 /\ j # i + 2  BY <1>1
  <2> QED  BY <1>4, <1>6, <2>1, OpText_
<1>7. End(i) = i + 2  BY <1>1, <1>5, <1>6, EndIs
<1>8. ~Comment(w)  BY <1>1, <1>4
<1> HIDE DEF w
<1>9. w = <<code[i], code[i + 1]>>  BY <1>2, <1>3, TwoLong
<1>10. ~Strange(w) /\ (w \in Pairs => ~Skipped(w) /\ Class(w) = code[i] \o code[i + 1])
  BY <1>2, <1>3, OpLexeme
<1>11. w \notin Pairs => Skipped(w)
  <2>1. DOMAIN w = 1..2  BY <1>2, WordFacts
  <2>2. All(w, OpChars)  BY <1>2, <1>3, <2>1 DEF All
  <2>3. w \notin Pairs => ~OpText(w)  BY <1>2 DEF OpText
  <2>4. Len(w) <= 2  BY <1>2
  <2> QED  BY <2>2, <2>3, <2>4 DEF NoOp, Skipped
<1> QED  BY <1>7, <1>8, <1>9, <1>10, <1>11 DEF w

LEMMA LineEnd ==
  ASSUME code \in Seq(Characters), NEW i \in 1..Size, NEW c \in (i + 2)..(Size + 1),
         code[i] = "/", code[i + 1] = "/", \A l \in (i + 2)..(c - 2) : code[l] # "\n",
         c <= Size => c - 1 >= i + 2 /\ code[c - 1] = "\n"
  PROVE  End(i) = c /\ Comment(Text_(i, c)) /\ Skipped(Text_(i, c)) /\ ~Strange(Text_(i, c))
<1>1. Size \in Nat /\ i \in Nat /\ c \in Nat /\ i + 1 <= Size /\ c \in (i + 1)..(Size + 1)
  <2>1. Size \in Nat  BY SizeFact
  <2> QED  BY <2>1
<1>2. \A j \in (i + 1)..(Size + 1) :
        Comment(Text_(i, j)) <=> j >= i + 2 /\ \A l \in (i + 2)..(j - 2) : code[l] # "\n"
  BY <1>1, LineText
<1>3. Comment(Text_(i, c))  BY <1>1, <1>2
<1>4. ASSUME NEW j \in (c + 1)..(Size + 1), Lexeme(Text_(i, j)) PROVE FALSE
  <2>1. j \in (i + 1)..(Size + 1) /\ j # i + 1 /\ j # i + 2 /\ c <= Size  BY <1>1
  <2>2. c - 1 \in (i + 2)..(j - 2) /\ code[c - 1] = "\n"  BY <1>1, <2>1
  <2>3. ~Comment(Text_(i, j))  BY <1>2, <2>1, <2>2
  <2> QED  BY <1>4, <2>1, <2>3, OpText_, Marks
<1>5. Lexeme(Text_(i, c)) /\ Skipped(Text_(i, c))  BY <1>3 DEF Lexeme, Skipped
<1>6. End(i) = c  BY <1>1, <1>4, <1>5, EndIs
<1>7. ~Strange(Text_(i, c))
  <2>1. Text_(i, c) \in Words /\ Text_(i, c)[1] = code[i]  BY <1>1, TextFacts
  <2> QED  BY <2>1, OpLexeme, Marks
<1> QED  BY <1>3, <1>5, <1>6, <1>7

LEMMA BlockEnd ==
  ASSUME code \in Seq(Characters), NEW i \in 1..Size, NEW c \in (i + 2)..(Size + 1),
         code[i] = "/", code[i + 1] = "*",
         \A l \in (i + 2)..(c - 3) : ~(code[l] = "*" /\ code[l + 1] = "/"),
         c <= Size => c - 2 >= i + 2 /\ code[c - 2] = "*" /\ code[c - 1] = "/"
  PROVE  End(i) = c /\ Comment(Text_(i, c)) /\ Skipped(Text_(i, c)) /\ ~Strange(Text_(i, c))
<1>1. Size \in Nat /\ i \in Nat /\ c \in Nat /\ i + 1 <= Size /\ c \in (i + 1)..(Size + 1)
  <2>1. Size \in Nat  BY SizeFact
  <2> QED  BY <2>1
<1>2. \A j \in (i + 1)..(Size + 1) :
        Comment(Text_(i, j)) <=>
          j >= i + 2 /\ \A l \in (i + 2)..(j - 3) : ~(code[l] = "*" /\ code[l + 1] = "/")
  BY <1>1, BlockText
<1>3. Comment(Text_(i, c))  BY <1>1, <1>2
<1>4. ASSUME NEW j \in (c + 1)..(Size + 1), Lexeme(Text_(i, j)) PROVE FALSE
  <2>1. j \in (i + 1)..(Size + 1) /\ j # i + 1 /\ j # i + 2 /\ c <= Size  BY <1>1
  <2>2. c - 2 \in (i + 2)..(j - 3) /\ (c - 2) + 1 = c - 1 /\ code[c - 2] = "*" /\ code[c - 1] = "/"
    BY <1>1, <2>1
  <2>3. ~Comment(Text_(i, j))  BY <1>2, <2>1, <2>2
  <2> QED  BY <1>4, <2>1, <2>3, OpText_, Marks
<1>5. Lexeme(Text_(i, c)) /\ Skipped(Text_(i, c))  BY <1>3 DEF Lexeme, Skipped
<1>6. End(i) = c  BY <1>1, <1>4, <1>5, EndIs
<1>7. ~Strange(Text_(i, c))
  <2>1. Text_(i, c) \in Words /\ Text_(i, c)[1] = code[i]  BY <1>1, TextFacts
  <2> QED  BY <2>1, OpLexeme, Marks
<1> QED  BY <1>3, <1>5, <1>6, <1>7

-----------------------------------------------------------------------------
(***************************************************************************)
(* Where a lexeme leaves the lexer.                                        *)
(***************************************************************************)
MunchInv == LexInv /\ Munching
\* Where a step leaves the lexer, of the old source.
Next_Stands == status' = "run" => Stands(mode', start'.cursor, cursor', has_dot', tokens', errors')

LEMMA MunchFacts ==
  ASSUME MunchInv
  PROVE  /\ LexInv /\ code \in Seq(Characters) /\ Size \in Nat /\ cursor \in Nat \ {0}
         /\ start.cursor \in Nat \ {0} /\ errors \in Int
         /\ tokens \in Seq(TokensOf) /\ Spans(tokens) \in Seq(SpanType)
         /\ Cut[1].spoken \in Seq(SpanType) /\ Cut[1].strange \in Nat
<1>1. LexInv  BY DEF MunchInv
<1>2. /\ code \in Seq(Characters) /\ Size \in Nat /\ cursor \in Nat \ {0}
      /\ tokens \in Seq(TokensOf) /\ ModeOK(mode, start, cursor) /\ ErrorsOK(errors, past, status)
  BY <1>1, InvFacts
<1>3. start.cursor \in Nat \ {0} /\ errors \in Int
  BY <1>2, LexerAssumption DEF ModeOK, ErrorsOK
<1>4. Spans(tokens) \in Seq(SpanType)  BY <1>1, <1>2, TokenSpans, SpansFacts
<1>5. 1 \in Places  BY <1>2 DEF Places
<1> QED  BY <1>1, <1>2, <1>3, <1>4, <1>5, CutTypes

\* Inside a function of lexer_tokenize.
LEMMA ReadingFacts ==
  ASSUME MunchInv, status = "run", mode # "top"
  PROVE  /\ start.cursor \in 1..Size /\ cursor \in start.cursor..(Size + 1)
         /\ Reading(mode, start.cursor, cursor, has_dot, tokens, errors)
<1>1. Stands(mode, start.cursor, cursor, has_dot, tokens, errors)  BY DEF MunchInv, Munching
<1>2. /\ start.cursor <= Size /\ start.cursor <= cursor /\ cursor <= Size + 1
      /\ Reading(mode, start.cursor, cursor, has_dot, tokens, errors)
  BY <1>1 DEF Stands
<1> QED  BY <1>2, MunchFacts

LEMMA TopFacts ==
  ASSUME MunchInv, status = "run", mode = "top", Inside
  PROVE  /\ cursor \in 1..Size
         /\ \/ Right(cursor, tokens, errors)
            \/ cursor = Size /\ code[Size] = "." /\ Repeated(tokens, errors)
            \/ cursor = Size /\ code[Size] \in Digits /\ Circling
<1>1. AtTop(cursor, tokens, errors)  BY DEF MunchInv, Munching, Stands
<1>2. cursor \in 1..Size /\ ~(cursor > Size)  BY MunchFacts DEF Inside
<1> QED  BY <1>1, <1>2 DEF AtTop, Repeated, DotLast, Circling

\* The token push_token_array appends.
LEMMA Pushed ==
  ASSUME NEW type, push_token_array(type)
  PROVE  /\ mode' = "top"
         /\ \E t : /\ tokens' = Append(tokens, t)
                   /\ SpanOf(t) = [type |-> type, from |-> start.cursor, to |-> cursor']
<1> DEFINE t == Token(type, cursor', position')
<1>1. tokens' = Append(tokens, t) /\ mode' = "top"  BY DEF push_token_array
<1>2. SpanOf(t) = [type |-> type, from |-> start.cursor, to |-> cursor']  BY DEF Token, SpanOf
<1> HIDE DEF t
<1> QED  BY <1>1, <1>2

\* A whole lexeme that is a token: after it the tokens are right up to its end.
LEMMA SpokenRight ==
  ASSUME MunchInv, NEW i \in 1..Size, start.cursor = i, Right(i, tokens, errors), End(i) = cursor',
         ~Skipped(Text_(i, cursor')), push_token_array(Class(Text_(i, cursor')))
  PROVE  Right(cursor', tokens', errors) /\ Spans(tokens') \in Seq(SpanType)
<1>1. PICK t : /\ tokens' = Append(tokens, t)
               /\ SpanOf(t) = [type |-> Class(Text_(i, cursor')), from |-> start.cursor, to |-> cursor']
  BY Pushed
<1>2. SpanOf(t) = Piece(i)  BY <1>1 DEF Piece
<1>3. LexInv /\ tokens \in Seq(TokensOf) /\ errors \in Int  BY MunchFacts
<1>4. ~Skipped(Text_(i, End(i)))  OBVIOUS
<1>5. Right(End(i), Append(tokens, t), errors) /\ Spans(Append(tokens, t)) \in Seq(SpanType)
  BY <1>2, <1>3, <1>4, PassSpoken
<1> QED  BY <1>1, <1>5

LEMMA SkippedRight ==
  ASSUME MunchInv, NEW i \in 1..Size, NEW e \in Int, Right(i, tokens, e),
         Skipped(Text_(i, End(i)))
  PROVE  /\ ~Strange(Text_(i, End(i))) => Right(End(i), tokens, e)
         /\ Strange(Text_(i, End(i))) => Right(End(i), tokens, e + 1)
<1>1. Right(End(i), tokens, e + (IF Strange(Text_(i, End(i))) THEN 1 ELSE 0))
  BY MunchFacts, PassSkipped
<1>2. e + 0 = e  OBVIOUS
<1> QED  BY <1>1, <1>2

LEMMA SameErrors ==
  ASSUME Silently
  PROVE  errors' = errors /\ status' = status
BY DEF Silently

LEMMA TopAgain ==
  ASSUME mode' = "top", AtTop(cursor', tokens', errors')
  PROVE  Next_Stands
BY DEF Next_Stands, Stands

\* The end of the source, behind an operator of one character or an open comment, and else.
LEMMA OpEnds ==
  ASSUME LexInv, NEW i \in 1..Size, NEW us, NEW d, Right(i, us, d), code[i] \in OpChars,
         End(i) = Size + 1, NEW ts, Spans(ts) \in Seq(SpanType), NEW e \in Int,
         Right(Size + 1, ts, e)
  PROVE  /\ Spans(ts) = Expected /\ e = Cut[1].strange /\ e \in Nat
         /\ OpLast <=> i = Size
         /\ Unclosed <=> /\ Comment(Text_(i, Size + 1)) /\ i + 1 <= Size /\ code[i + 1] = "*"
                         /\ ~(Size >= i + 3 /\ code[Size] = "/" /\ code[Size - 1] = "*")
         /\ Len(LastLexeme) = (Size + 1) - i
<1>1. /\ Cut[1].last = i /\ LastLexeme = Text_(i, Size + 1) /\ LastLexeme \in Words
      /\ LastLexeme[1] = code[i] /\ Len(LastLexeme) = (Size + 1) - i
      /\ \A k \in 1..((Size + 1) - i) : LastLexeme[k] = code[i + k - 1]
      /\ Size > 0
  BY LastFacts
<1>2. code \in Seq(Characters) /\ Size \in Nat /\ i \in Nat  BY InvFacts
<1>3. code[i] \in Characters  BY <1>2 DEF Size
<1>4. Expected = Cut[1].spoken
  <2>1. code[i] \notin Digits  BY <1>3, KindsApart
  <2> QED  BY <2>1, NoNumber
<1>5. Spans(ts) = Cut[1].spoken /\ e = Cut[1].strange  BY AllRead
<1>6. OpLast <=> i = Size
  <2>1. i = Size => code[Size] \in OpChars  OBVIOUS
  <2> QED  BY <1>1, <2>1 DEF OpLast
<1>7. Comment(LastLexeme) => i + 1 <= Size
  <2>1. Comment(LastLexeme) => Size + 1 >= i + 2
    <3>1. Size + 1 \in (i + 1)..(Size + 1)  BY <1>2
    <3> QED  BY <1>1, <1>2, <3>1, CommentOpens
  <2> QED  BY <1>2, <2>1
<1>8. i + 1 <= Size => LastLexeme[2] = code[i + 1]
  <2>1. i + 1 <= Size => 2 \in 1..((Size + 1) - i) /\ i + 2 - 1 = i + 1  BY <1>2
  <2> QED  BY <1>1, <2>1
<1>9. Len(LastLexeme) >= 4 <=> Size >= i + 3
  <2> DEFINE n == Len(LastLexeme)
  <2>1. n = (Size + 1) - i  BY <1>1
  <2> HIDE DEF n
  <2>2. n >= 4 <=> Size >= i + 3  BY <1>2, <2>1
  <2> QED  BY <2>2 DEF n
<1>10. Unclosed <=> /\ Comment(Text_(i, Size + 1)) /\ i + 1 <= Size /\ code[i + 1] = "*"
                    /\ ~(Size >= i + 3 /\ code[Size] = "/" /\ code[Size - 1] = "*")
  BY <1>1, <1>7, <1>8, <1>9 DEF Unclosed
<1>11. e \in Nat
  <2>1. 1 \in Places  BY <1>2 DEF Places
  <2> QED  BY <1>2, <1>5, <2>1, CutTypes
<1> QED  BY <1>1, <1>4, <1>5, <1>6, <1>10, <1>11

\* An operator of two characters, or a comment that is closed.
LEMMA OpArrives ==
  ASSUME LexInv, NEW i \in 1..Size, NEW us, NEW d, Right(i, us, d), code[i] \in OpChars,
         End(i) > i + 1,
         /\ Comment(Text_(i, End(i))) /\ code[i + 1] = "*" /\ End(i) = Size + 1
         => Size >= i + 3 /\ code[Size] = "/" /\ code[Size - 1] = "*",
         NEW ts, Spans(ts) \in Seq(SpanType), NEW e \in Int, Right(End(i), ts, e)
  PROVE  AtTop(End(i), ts, e)
<1>1. Size \in Nat /\ End(i) \in 1..(Size + 1) /\ i \in Nat  BY InvFacts, PieceFacts DEF Places
<1>2. CASE End(i) <= Size  BY <1>2 DEF AtTop
<1>3. CASE End(i) > Size
  <2>1. End(i) = Size + 1 /\ i # Size  BY <1>1, <1>3
  <2>2. Right(Size + 1, ts, e)  BY <2>1
  <2>3. Spans(ts) = Expected /\ e = Cut[1].strange /\ e \in Nat /\ ~OpLast  BY <2>1, <2>2, OpEnds
  <2>4. ~Unclosed
    <3>1. Unclosed => /\ Comment(Text_(i, Size + 1)) /\ code[i + 1] = "*"
                      /\ ~(Size >= i + 3 /\ code[Size] = "/" /\ code[Size - 1] = "*")
      BY <2>1, <2>2, OpEnds
    <3> QED  BY <2>1, <3>1
  <2>5. ExpectedErrors = e  BY <2>3, <2>4 DEF ExpectedErrors
  <2> QED  BY <1>3, <2>3, <2>5 DEF AtTop, Ended
<1> QED  BY <1>1, <1>2, <1>3

-----------------------------------------------------------------------------
(***************************************************************************)
(* The actions and the longest lexemes.                                    *)
(***************************************************************************)
LEMMA Skip_SpaceMunches ==
  ASSUME MunchInv, status = "run", Skip_Space
  PROVE  Next_Stands
<1>1. /\ mode = "top" /\ mode' = "top" /\ Inside /\ code[cursor] \in Spaces
      /\ cursor' = cursor + 1 /\ tokens' = tokens /\ errors' = errors
  BY SameErrors DEF Skip_Space, Stay, lexer_step, Here
<1>2. cursor \in 1..Size /\ Right(cursor, tokens, errors)
  BY <1>1, TopFacts, Marks, KindsApart DEF Spaces, Digits
<1>3. MunchInv /\ LexInv /\ code \in Seq(Characters) /\ Spans(tokens) \in Seq(SpanType) /\ errors \in Int
  BY MunchFacts
<1>4. End(cursor) = cursor + 1 /\ Skipped(Text_(cursor, End(cursor)))
      /\ ~Strange(Text_(cursor, End(cursor)))
  BY <1>1, <1>2, <1>3, AloneEnd
<1>5. Right(End(cursor), tokens, errors)  BY <1>2, <1>3, <1>4, SkippedRight
<1>6. code[cursor] \notin Digits /\ code[cursor] \notin OpChars
  BY <1>1 DEF Spaces, Digits, OpChars
<1>7. AtTop(End(cursor), tokens, errors)  BY <1>2, <1>3, <1>5, <1>6, Arrives
<1> QED  BY <1>1, <1>4, <1>7, TopAgain

LEMMA Unknown_CharacterMunches ==
  ASSUME MunchInv, status = "run", Unknown_Character
  PROVE  Next_Stands
<1>1. /\ mode = "top" /\ mode' = "top" /\ Inside /\ code[cursor] \in Unknown
      /\ cursor' = cursor + 1 /\ tokens' = tokens /\ errors' = errors + 1
  BY DEF Unknown_Character, Stay, lexer_step, Here, Reported
<1>2. cursor \in 1..Size /\ Right(cursor, tokens, errors)
  BY <1>1, TopFacts DEF Unknown, Digits
<1>3. MunchInv /\ LexInv /\ code \in Seq(Characters) /\ Spans(tokens) \in Seq(SpanType) /\ errors \in Int
      /\ errors + 1 \in Int
  BY MunchFacts
<1>4. End(cursor) = cursor + 1 /\ Skipped(Text_(cursor, End(cursor)))
      /\ Strange(Text_(cursor, End(cursor)))
  BY <1>1, <1>2, <1>3, AloneEnd
<1>5. Right(End(cursor), tokens, errors + 1)  BY <1>2, <1>3, <1>4, SkippedRight
<1>6. code[cursor] \notin Digits /\ code[cursor] \notin OpChars
  BY <1>1 DEF Unknown, Digits, OpChars
<1>7. AtTop(End(cursor), tokens, errors + 1)
  <2> DEFINE e == errors + 1
  <2>1. e \in Int /\ Right(End(cursor), tokens, e)  BY <1>3, <1>5
  <2> HIDE DEF e
  <2>2. AtTop(End(cursor), tokens, e)  BY <1>2, <1>3, <1>6, <2>1, Arrives
  <2> QED  BY <2>2 DEF e
<1> QED  BY <1>1, <1>4, <1>7, TopAgain

LEMMA BeginMunches ==
  ASSUME MunchInv, status = "run", Begin
  PROVE  Next_Stands
<1>1. /\ mode = "top" /\ Inside /\ has_dot' = FALSE /\ tokens' = tokens /\ errors' = errors
  BY SameErrors DEF Begin
<1>2. /\ cursor \in 1..Size /\ Size \in Nat /\ cursor \in Nat
      /\ \/ Right(cursor, tokens, errors)
         \/ cursor = Size /\ code[Size] = "." /\ Repeated(tokens, errors)
         \/ cursor = Size /\ code[Size] \in Digits /\ Circling
  BY <1>1, TopFacts, MunchFacts
<1>3. cursor <= Size /\ cursor <= cursor + 1 /\ cursor <= cursor /\ cursor + 1 <= Size + 1 /\ cursor <= Size + 1
  BY <1>2
<1>4. CASE code[cursor] \in Digits /\ Enter("number") /\ UNCHANGED <<cursor, position>>
  <2>1. mode' = "number" /\ start'.cursor = cursor /\ cursor' = cursor  BY <1>4 DEF Enter
  <2>2. Digit_or_dot(cursor, cursor, FALSE)  BY <1>2 DEF Digit_or_dot
  <2>3. Right(cursor, tokens, errors) \/ (cursor = Size /\ Circling)  BY <1>2, <1>4, Marks
  <2>4. Reading("number", cursor, cursor, FALSE, tokens, errors)  BY <1>4, <2>2, <2>3 DEF Reading
  <2> QED  BY <1>1, <1>3, <2>1, <2>4 DEF Stands, Next_Stands
<1>5. CASE code[cursor] \in Letters /\ Enter("ident") /\ UNCHANGED <<cursor, position>>
  <2>1. mode' = "ident" /\ start'.cursor = cursor /\ cursor' = cursor  BY <1>5 DEF Enter
  <2>2. \A l \in cursor..(cursor - 1) : code[l] \in Letters \cup Digits  BY <1>2
  <2>3. Right(cursor, tokens, errors)  BY <1>2, <1>5 DEF Letters, Digits
  <2>4. Reading("ident", cursor, cursor, FALSE, tokens, errors)  BY <1>5, <2>2, <2>3 DEF Reading
  <2> QED  BY <1>1, <1>3, <2>1, <2>4 DEF Stands, Next_Stands
<1>6. CASE code[cursor] \in OpChars /\ Enter("operator") /\ lexer_step
  <2>1. mode' = "operator" /\ start'.cursor = cursor /\ cursor' = cursor + 1
    BY <1>6 DEF Enter, lexer_step
  <2>2. Right(cursor, tokens, errors)  BY <1>2, <1>6 DEF OpChars, Digits
  <2>3. Reading("operator", cursor, cursor + 1, FALSE, tokens, errors)  BY <1>6, <2>2 DEF Reading
  <2> QED  BY <1>1, <1>3, <2>1, <2>3 DEF Stands, Next_Stands
<1>7. CASE code[cursor] = Quote /\ Enter("string") /\ lexer_step
  <2>1. mode' = "string" /\ start'.cursor = cursor /\ cursor' = cursor + 1
    BY <1>7 DEF Enter, lexer_step
  <2>2. Right(cursor, tokens, errors)  BY <1>2, <1>7 DEF Quote, Digits
  <2>3. \A l \in (cursor + 1)..((cursor + 1) - 1) : code[l] # Quote  BY <1>2
  <2>4. cursor + 1 > cursor  BY <1>2
  <2>5. Reading("string", cursor, cursor + 1, FALSE, tokens, errors)
    BY <1>7, <2>2, <2>3, <2>4 DEF Reading
  <2> QED  BY <1>1, <1>3, <2>1, <2>5 DEF Stands, Next_Stands
<1>8. CASE code[cursor] \in Symbols /\ Enter("symbol") /\ lexer_step
  <2>1. mode' = "symbol" /\ start'.cursor = cursor /\ cursor' = cursor + 1
    BY <1>8 DEF Enter, lexer_step
  <2>2. Right(cursor, tokens, errors) \/ (cursor = Size /\ code[Size] = "." /\ Repeated(tokens, errors))
    BY <1>2, <1>8 DEF Symbols, Digits
  <2>3. Reading("symbol", cursor, cursor + 1, FALSE, tokens, errors)  BY <1>8, <2>2 DEF Reading
  <2> QED  BY <1>1, <1>3, <2>1, <2>3 DEF Stands, Next_Stands
<1> QED  BY <1>4, <1>5, <1>6, <1>7, <1>8 DEF Begin, Here

LEMMA SymbolMunches ==
  ASSUME MunchInv, status = "run", Symbol
  PROVE  Next_Stands
<1> DEFINE i == start.cursor
<1>1. /\ mode = "symbol" /\ cursor' = cursor /\ push_token_array(code[cursor - 1])
      /\ errors' = errors /\ mode' = "top"
  BY SameErrors, Pushed DEF Symbol
<1>2. /\ i \in 1..Size /\ Reading("symbol", i, cursor, has_dot, tokens, errors)
  BY <1>1, ReadingFacts
<1>3. Size \in Nat /\ i \in Nat /\ i + 1 - 1 = i  BY <1>2, MunchFacts
<1>4. /\ cursor = i + 1 /\ code[i] \in Symbols
      /\ Right(i, tokens, errors) \/ (i = Size /\ code[i] = "." /\ Repeated(tokens, errors))
  BY <1>2, Marks DEF Reading
<1>5. code[cursor - 1] = code[i]  BY <1>3, <1>4
<1>6. MunchInv /\ LexInv /\ code \in Seq(Characters) /\ errors \in Int
      /\ tokens \in Seq(TokensOf) /\ Spans(tokens) \in Seq(SpanType)
  BY MunchFacts
<1>7. CASE Right(i, tokens, errors)
  <2>1. End(i) = i + 1 /\ ~Skipped(Text_(i, End(i))) /\ Class(Text_(i, End(i))) = code[i]
    BY <1>2, <1>4, <1>6, AloneEnd
  <2>2. End(i) = cursor' /\ ~Skipped(Text_(i, cursor')) /\ Class(Text_(i, cursor')) = code[i]
    BY <1>1, <1>4, <2>1
  <2>3. Right(cursor', tokens', errors) /\ Spans(tokens') \in Seq(SpanType)
    BY <1>1, <1>2, <1>5, <1>7, <2>2, SpokenRight
  <2>4. code[i] \notin Digits /\ code[i] \notin OpChars  BY <1>4 DEF Symbols, Digits, OpChars
  <2>5. AtTop(End(i), tokens', errors)
    <3> DEFINE ts == tokens'
    <3>1. Spans(ts) \in Seq(SpanType) /\ Right(End(i), ts, errors)  BY <2>2, <2>3
    <3> HIDE DEF ts, i
    <3>2. AtTop(End(i), ts, errors)  BY <1>2, <1>6, <1>7, <2>4, <3>1, Arrives
    <3> QED  BY <3>2 DEF ts
  <2> QED  BY <1>1, <2>2, <2>5, TopAgain
<1>8. CASE i = Size /\ code[i] = "." /\ Repeated(tokens, errors)
  <2>1. PICK t : /\ tokens' = Append(tokens, t)
                 /\ SpanOf(t) = [type |-> code[cursor - 1], from |-> start.cursor, to |-> cursor']
    BY <1>1, Pushed
  <2>2. SpanOf(t) = Dot  BY <1>1, <1>4, <1>5, <1>8, <2>1 DEF Dot
  <2>3. Dot \in SpanType  BY <1>3 DEF Dot, SpanType, Types, Symbols
  <2>4. Spans(Append(tokens, t)) = Append(Spans(tokens), SpanOf(t))
    BY <1>6, <2>2, <2>3, TokenSpans, SpansAppend
  <2>5. Append(Spans(tokens), Dot) = Spans(tokens) \o <<Dot>>  BY <1>6, <2>3, AppendIsConcat
  <2>6. Spans(tokens') = Expected /\ errors = ExpectedErrors
    BY <1>8, <2>1, <2>2, <2>4, <2>5 DEF Repeated
  <2>7. cursor' > Size  BY <1>1, <1>3, <1>4, <1>8
  <2>8. AtTop(cursor', tokens', errors')  BY <1>1, <2>6, <2>7 DEF AtTop, Ended
  <2> QED  BY <1>1, <2>8, TopAgain
<1> QED  BY <1>4, <1>7, <1>8

\* What a number has taken, with a character more.
LEMMA NumberGrows ==
  ASSUME NEW i \in Nat, NEW c \in Nat, i <= c, NEW dot \in BOOLEAN, Digit_or_dot(i, c, dot),
         code[i] \in Digits, code[c] \in Digits \/ (code[c] = "." /\ ~dot)
  PROVE  Digit_or_dot(i, c + 1, dot \/ code[c] = ".")
<1>1. (c + 1) - 1 = c  OBVIOUS
<1>2. CASE code[c] = "."
  <2>1. ~dot  BY <1>2, Marks
  <2>2. \A l \in i..(c - 1) : code[l] \in Digits  BY <2>1 DEF Digit_or_dot
  <2>3. c # i  BY <1>2, Marks
  <2>4. c \in (i + 1)..((c + 1) - 1)  BY <2>3
  <2>5. \A l \in (i..((c + 1) - 1)) \ {c} : code[l] \in Digits  BY <2>2
  <2>6. \E k \in (i + 1)..((c + 1) - 1) :
          code[k] = "." /\ \A l \in (i..((c + 1) - 1)) \ {k} : code[l] \in Digits
    BY <1>2, <2>4, <2>5
  <2> QED  BY <1>2, <2>6 DEF Digit_or_dot
<1>3. CASE code[c] # "." /\ dot
  <2>1. PICK k \in (i + 1)..(c - 1) :
          code[k] = "." /\ \A l \in (i..(c - 1)) \ {k} : code[l] \in Digits
    BY <1>3 DEF Digit_or_dot
  <2>2. k \in (i + 1)..((c + 1) - 1)
        /\ \A l \in (i..((c + 1) - 1)) \ {k} : code[l] \in Digits
    BY <1>3, <2>1
  <2> QED  BY <1>3, <2>1, <2>2 DEF Digit_or_dot
<1>4. CASE code[c] # "." /\ ~dot
  <2>1. \A l \in i..(c - 1) : code[l] \in Digits  BY <1>4 DEF Digit_or_dot
  <2>2. \A l \in i..((c + 1) - 1) : code[l] \in Digits  BY <1>4, <2>1
  <2> QED  BY <1>4, <2>2 DEF Digit_or_dot
<1> QED  BY <1>2, <1>3, <1>4

LEMMA CollectMunches ==
  ASSUME MunchInv, status = "run", Collect
  PROVE  Next_Stands
<1>1. Belongs /\ Inside  BY DEF Collect, Belongs
<1>2. CASE lexer_step /\ Stay /\ Silently /\ has_dot' = (has_dot \/ (mode = "number" /\ Here = "."))
  <2> DEFINE i == start.cursor
             c == cursor
  <2>1. /\ cursor' = c + 1 /\ mode' = mode /\ start' = start /\ tokens' = tokens /\ errors' = errors
        /\ mode # "top" /\ has_dot \in BOOLEAN
    BY <1>1, <1>2, SameErrors, MunchFacts, InvFacts DEF lexer_step, Stay, Belongs
  <2>2. i \in 1..Size /\ c \in i..(Size + 1) /\ Reading(mode, i, c, has_dot, tokens, errors)
    BY <2>1, ReadingFacts
  <2>3. i \in Nat /\ c \in Nat /\ i <= c /\ c <= Size /\ Size \in Nat  BY <1>1, <2>2, MunchFacts DEF Inside
  <2>4. i <= Size /\ i <= c + 1 /\ c + 1 <= Size + 1 /\ (c + 1) - 1 = c  BY <2>3
  <2>5. CASE mode = "number"
    <3>1. code[c] \in Digits \/ (code[c] = "." /\ ~has_dot)  BY <1>1, <2>5 DEF Belongs, Here
    <3>2. has_dot' = (has_dot \/ code[c] = ".")  BY <1>2, <2>5 DEF Here
    <3>3. CASE i = Size /\ Circling
      <4>1. Reading(mode', i, c + 1, has_dot', tokens, errors)  BY <2>1, <2>5, <3>3 DEF Reading
      <4> QED  BY <2>1, <2>4, <4>1 DEF Stands, Next_Stands
    <3>4. CASE code[i] \in Digits /\ Digit_or_dot(i, c, has_dot) /\ Right(i, tokens, errors)
      <4> HIDE DEF i, c
      <4>1. Digit_or_dot(i, c + 1, has_dot \/ code[c] = ".")
        <5> DEFINE d == has_dot
        <5>1. d \in BOOLEAN /\ Digit_or_dot(i, c, d) /\ (code[c] \in Digits \/ (code[c] = "." /\ ~d))
          BY <2>1, <3>1, <3>4
        <5> HIDE DEF d
        <5>2. Digit_or_dot(i, c + 1, d \/ code[c] = ".")  BY <2>3, <3>4, <5>1, NumberGrows
        <5> QED  BY <5>2 DEF d
      <4>2. Digit_or_dot(i, c + 1, has_dot')  BY <3>2, <4>1
      <4>3. Reading(mode', i, c + 1, has_dot', tokens, errors)
        BY <2>1, <2>5, <3>4, <4>2 DEF Reading
      <4> QED  BY <2>1, <2>4, <4>3 DEF Stands, Next_Stands, i
    <3> QED  BY <2>2, <2>5, <3>3, <3>4 DEF Reading
  <2>6. CASE mode = "ident"
    <3>1. code[c] \in Letters \cup Digits  BY <1>1, <2>6 DEF Belongs, Here
    <3>2. /\ code[i] \in Letters /\ Right(i, tokens, errors)
          /\ \A l \in i..(c - 1) : code[l] \in Letters \cup Digits
      BY <2>2, <2>6 DEF Reading
    <3> HIDE DEF i, c
    <3>3. \A l \in i..((c + 1) - 1) : code[l] \in Letters \cup Digits  BY <2>3, <3>1, <3>2
    <3>4. Reading(mode', i, c + 1, has_dot', tokens, errors)
      BY <2>1, <2>6, <3>2, <3>3 DEF Reading
    <3> QED  BY <2>1, <2>4, <3>4 DEF Stands, Next_Stands, i
  <2>7. CASE mode = "string"
    <3>1. code[c] # Quote  BY <1>1, <2>7 DEF Belongs, Here
    <3>2. /\ code[i] = Quote /\ c > i /\ Right(i, tokens, errors)
          /\ \A l \in (i + 1)..(c - 1) : code[l] # Quote
      BY <2>2, <2>7 DEF Reading
    <3> HIDE DEF i, c
    <3>3. \A l \in (i + 1)..((c + 1) - 1) : code[l] # Quote  BY <2>3, <3>1, <3>2
    <3>4. c + 1 > i  BY <2>3
    <3>5. Reading(mode', i, c + 1, has_dot', tokens, errors)
      BY <2>1, <2>7, <3>2, <3>3, <3>4 DEF Reading
    <3> QED  BY <2>1, <2>4, <3>5 DEF Stands, Next_Stands, i
  <2> QED  BY <1>1, <2>5, <2>6, <2>7 DEF Belongs
<1>3. CASE status' = "overflow"  BY <1>3 DEF Next_Stands
<1> QED  BY <1>2, <1>3 DEF Collect

LEMMA IdentMunches ==
  ASSUME MunchInv, status = "run", Ident
  PROVE  Next_Stands
<1> DEFINE i == start.cursor
           c == cursor
<1>1. /\ mode = "ident" /\ ~Belongs /\ cursor' = c /\ push_token_array(WordType)
      /\ errors' = errors /\ mode' = "top"
  BY SameErrors, Pushed DEF Ident
<1>2. i \in 1..Size /\ c \in i..(Size + 1) /\ Reading("ident", i, c, has_dot, tokens, errors)
  BY <1>1, ReadingFacts
<1>3. /\ code[i] \in Letters /\ Right(i, tokens, errors)
      /\ \A l \in i..(c - 1) : code[l] \in Letters \cup Digits
  BY <1>2 DEF Reading
<1>4. c <= Size => code[c] \notin Letters \cup Digits  BY <1>1 DEF Belongs, Inside, Here
<1>5. MunchInv /\ LexInv /\ code \in Seq(Characters) /\ errors \in Int /\ Size \in Nat
  BY MunchFacts
<1>6. WordType = IF Text_(i, c) \in Keywords THEN "KEYWORD" ELSE "IDENTIFIER"
  <2>1. Text = SubSeq(code, start.cursor + 0, cursor - 1)  BY <1>1 DEF Text
  <2>2. start.cursor + 0 = start.cursor  BY <1>2, <1>5
  <2>3. Text = Text_(i, c)  BY <2>1, <2>2 DEF Text_
  <2> QED  BY <2>3 DEF WordType
<1>7. c \in (i + 1)..(Size + 1)
  <2>1. c # i  BY <1>2, <1>3, <1>4
  <2> HIDE DEF i, c
  <2> QED  BY <1>2, <1>5, <2>1
<1>8. End(i) = c /\ ~Skipped(Text_(i, c)) /\ Class(Text_(i, c)) = WordType
  <2> HIDE DEF i, c
  <2> QED  BY <1>2, <1>3, <1>4, <1>5, <1>6, <1>7, WordEnd
<1>9. Right(cursor', tokens', errors) /\ Spans(tokens') \in Seq(SpanType)
  BY <1>1, <1>2, <1>3, <1>8, SpokenRight
<1>10. code[i] \notin Digits /\ code[i] \notin OpChars  BY <1>3 DEF Letters, Digits, OpChars
<1>11. AtTop(End(i), tokens', errors)
  <2> DEFINE ts == tokens'
  <2>1. Spans(ts) \in Seq(SpanType) /\ Right(End(i), ts, errors)  BY <1>1, <1>8, <1>9
  <2> HIDE DEF ts, i
  <2>2. AtTop(End(i), ts, errors)  BY <1>2, <1>3, <1>5, <1>10, <2>1, Arrives
  <2> QED  BY <2>2 DEF ts
<1> QED  BY <1>1, <1>8, <1>11, TopAgain

LEMMA StringMunches ==
  ASSUME MunchInv, status = "run", String
  PROVE  Next_Stands
<1> DEFINE i == start.cursor
           c == cursor
           d == IF Inside THEN c + 1 ELSE c
<1>1. /\ mode = "string" /\ ~Belongs /\ cursor' = d /\ push_token_array("STRING")
      /\ errors' = errors /\ mode' = "top"
  BY SameErrors, Pushed DEF String, lexer_step
<1>2. i \in 1..Size /\ c \in i..(Size + 1) /\ Reading("string", i, c, has_dot, tokens, errors)
  BY <1>1, ReadingFacts
<1>3. /\ code[i] = Quote /\ Right(i, tokens, errors) /\ c > i
      /\ \A l \in (i + 1)..(c - 1) : code[l] # Quote
  BY <1>2 DEF Reading
<1>4. Inside => code[c] = Quote  BY <1>1 DEF Belongs, Here
<1>5. MunchInv /\ LexInv /\ code \in Seq(Characters) /\ errors \in Int /\ Size \in Nat
  BY MunchFacts
<1>6. (Inside <=> c <= Size) /\ d = IF Inside THEN c + 1 ELSE c  BY DEF Inside
<1>7. /\ d \in (i + 1)..(Size + 1) /\ \A l \in (i + 1)..(d - 2) : code[l] # Quote
      /\ d <= Size => d - 1 > i /\ code[d - 1] = Quote
  <2> HIDE DEF i, c, d
  <2>1. CASE Inside
    <3>1. d = c + 1 /\ d - 1 = c /\ d - 2 = c - 1  BY <1>2, <1>5, <1>6, <2>1
    <3> QED  BY <1>2, <1>3, <1>4, <1>5, <1>6, <2>1, <3>1
  <2>2. CASE ~Inside
    <3>1. d = c /\ d = Size + 1  BY <1>2, <1>5, <1>6, <2>2
    <3> QED  BY <1>2, <1>3, <1>5, <3>1
  <2> QED  BY <2>1, <2>2
<1>8. End(i) = d /\ ~Skipped(Text_(i, d)) /\ Class(Text_(i, d)) = "STRING"
  <2> HIDE DEF i, c, d
  <2> QED  BY <1>2, <1>3, <1>5, <1>7, QuotedEnd
<1> HIDE DEF d
<1>9. Right(cursor', tokens', errors) /\ Spans(tokens') \in Seq(SpanType)
  BY <1>1, <1>2, <1>3, <1>8, SpokenRight
<1>10. code[i] \notin Digits /\ code[i] \notin OpChars  BY <1>3 DEF Quote, Digits, OpChars
<1>11. AtTop(End(i), tokens', errors)
  <2> DEFINE ts == tokens'
  <2>1. Spans(ts) \in Seq(SpanType) /\ Right(End(i), ts, errors)  BY <1>1, <1>8, <1>9
  <2> HIDE DEF ts, i
  <2>2. AtTop(End(i), ts, errors)  BY <1>2, <1>3, <1>5, <1>10, <2>1, Arrives
  <2> QED  BY <2>2 DEF ts
<1> QED  BY <1>1, <1>8, <1>11, TopAgain

\* The last element of a sequence, with another end.
LEMMA LastReplaced ==
  ASSUME NEW q \in Seq(SpanType), NEW p \in SpanType, NEW n \in Nat
  PROVE  [Append(q, p) EXCEPT ![Len(Append(q, p))].to = n]
           = Append(q, [type |-> p.type, from |-> p.from, to |-> n])
<1> DEFINE z == [type |-> p.type, from |-> p.from, to |-> n]
<1>1. z \in SpanType /\ z = [p EXCEPT !.to = n]
  <2>1. /\ p.type \in Types /\ p.from \in Nat
        /\ p = [type |-> p.type, from |-> p.from, to |-> p.to]
    BY DEF SpanType
  <2>2. z \in SpanType  BY <2>1 DEF SpanType
  <2>3. z = [p EXCEPT !.to = n]  BY <2>1
  <2> QED  BY <2>2, <2>3
<1> HIDE DEF z, SpanType
<1>2. /\ Append(q, p) \in Seq(SpanType) /\ Len(Append(q, p)) = Len(q) + 1
      /\ \A k \in 1..Len(q) : Append(q, p)[k] = q[k]
      /\ Append(q, p)[Len(q) + 1] = p
  BY AppendProperties
<1>3. /\ Append(q, z) \in Seq(SpanType) /\ Len(Append(q, z)) = Len(q) + 1
      /\ \A k \in 1..Len(q) : Append(q, z)[k] = q[k]
      /\ Append(q, z)[Len(q) + 1] = z
  BY <1>1, AppendProperties
<1> DEFINE a == Append(q, p)
           b == Append(q, z)
           m == Len(q) + 1
<1>4. Len(q) \in Nat  OBVIOUS
<1>5. m \in Nat /\ Len(q) = m - 1 /\ m \in 1..m  BY <1>4
<1>6. /\ a \in Seq(SpanType) /\ Len(a) = m /\ (\A k \in 1..(m - 1) : a[k] = q[k]) /\ a[m] = p
      /\ b \in Seq(SpanType) /\ Len(b) = m /\ (\A k \in 1..(m - 1) : b[k] = q[k]) /\ b[m] = z
  BY <1>2, <1>3, <1>5
<1> HIDE DEF a, b, m
<1>7. a = [k \in 1..m |-> a[k]] /\ b = [k \in 1..m |-> b[k]]  BY <1>5, <1>6
<1>8. [a EXCEPT ![m].to = n] = [k \in 1..m |-> IF k = m THEN z ELSE a[k]]
  BY <1>1, <1>5, <1>6, <1>7
<1>9. \A k \in 1..m : (IF k = m THEN z ELSE a[k]) = b[k]
  <2> TAKE k \in 1..m
  <2>1. k # m => k \in 1..(m - 1)  BY <1>5
  <2> QED  BY <1>6, <2>1
<1>10. [a EXCEPT ![m].to = n] = b  BY <1>7, <1>8, <1>9
<1>11. Len(a) = m  BY <1>6
<1> QED  BY <1>10, <1>11 DEF a, b, z

\* A number at the end of the source.
LEMMA NumberEnds ==
  ASSUME LexInv, NEW i \in 1..Size, NEW us \in Seq(TokensOf), NEW d \in Int, Right(i, us, d),
         code[i] \in Digits, End(i) = Size + 1,
         Integer(Text_(i, Size + 1)) \/ Float(Text_(i, Size + 1))
  PROVE  /\ NumberLast /\ d = ExpectedErrors
         /\ Cut[1].spoken = Append(Spans(us), Piece(i)) /\ Piece(i) \in SpanType
         /\ Spans(us) \in Seq(SpanType)
<1>1. /\ Cut[1].last = i /\ LastLexeme = Text_(i, Size + 1) /\ LastLexeme \in Words
      /\ LastLexeme[1] = code[i] /\ Size > 0
  BY LastFacts
<1>2. code \in Seq(Characters) /\ Size \in Nat /\ i \in Nat  BY InvFacts
<1>3. code[i] \in Characters  BY <1>2 DEF Size
<1>4. NumberLast  BY <1>1 DEF NumberLast
<1>5. ~Skipped(Text_(i, End(i))) /\ ~Strange(Text_(i, End(i)))
  <2>1. ~Skipped(LastLexeme)  BY <1>1, DigitLexeme
  <2> QED  BY <1>1, <2>1 DEF Skipped
<1>6. Piece(i) \in SpanType /\ Spans(us) \in Seq(SpanType)
  BY <1>2, <1>5, PieceFacts, TokenSpans, SpansFacts
<1>7. Cut[i].spoken = <<Piece(i)>> \o <<>>  BY <1>2, <1>5, CutHere, CutEnd
<1>8. Cut[1].spoken = Append(Spans(us), Piece(i))
  <2> DEFINE p == Piece(i)
             q == Spans(us)
  <2>1. q \o Cut[i].spoken = Cut[1].spoken  BY DEF Right
  <2>2. p \in SpanType /\ q \in Seq(SpanType)  BY <1>6
  <2> HIDE DEF p, q, SpanType
  <2>3. <<p>> \in Seq(SpanType)  BY <2>2
  <2>4. <<p>> \o <<>> = <<p>>  BY <2>3, ConcatEmptySeq
  <2>5. Append(q, p) = q \o <<p>>  BY <2>2, AppendIsConcat
  <2>6. Cut[i].spoken = <<p>>  BY <1>7, <2>4 DEF p
  <2>7. Cut[1].spoken = Append(q, p)  BY <2>1, <2>5, <2>6
  <2> QED  BY <2>7 DEF p, q
<1>9. d = Cut[1].strange
  <2>1. Cut[i].strange = 0 + 0  BY <1>2, <1>5, CutHere, CutEnd
  <2> QED  BY <2>1 DEF Right
<1>10. ~OpLast /\ ~Unclosed
  <2>1. i = Size => code[Size] \notin OpChars  BY <1>3, KindsApart
  <2>2. ~Comment(LastLexeme)  BY <1>1, Beginnings, Marks, <1>3, KindsApart
  <2> QED  BY <1>1, <2>1, <2>2 DEF OpLast, Unclosed
<1>11. d = ExpectedErrors  BY <1>9, <1>10 DEF ExpectedErrors
<1> QED  BY <1>4, <1>6, <1>8, <1>11

LEMMA NumberMunches ==
  ASSUME MunchInv, status = "run", Number
  PROVE  Next_Stands
<1> DEFINE i == start.cursor
           c == cursor
           type == IF has_dot THEN "FLOAT" ELSE "INTEGER"
<1>1. /\ mode = "number" /\ ~Belongs /\ cursor' = GivenBack /\ push_token_array(type)
      /\ errors' = errors /\ mode' = "top"
  BY SameErrors, Pushed DEF Number
<1>2. i \in 1..Size /\ c \in i..(Size + 1) /\ Reading("number", i, c, has_dot, tokens, errors)
  BY <1>1, ReadingFacts
<1>3. MunchInv /\ LexInv /\ code \in Seq(Characters) /\ errors \in Int /\ Size \in Nat
      /\ tokens \in Seq(TokensOf) /\ has_dot \in BOOLEAN
  BY MunchFacts, InvFacts
<1>4. c <= Size => code[c] \notin Digits /\ (code[c] = "." => has_dot)
  BY <1>1 DEF Belongs, Inside, Here
<1>5. (c <= Size => cursor' = c) /\ (c = Size + 1 => cursor' = Size)
  <2>1. c = Size + 1 => ~(c <= Size) /\ c - 1 = Size  BY <1>3
  <2> QED  BY <1>1, <2>1 DEF GivenBack, Inside
<1>6. c <= Size \/ c = Size + 1
  <2> HIDE DEF i, c
  <2> QED  BY <1>2, <1>3
<1>7. CASE i = Size /\ Circling
  <2>1. code[Size] \in Digits  BY <1>7 DEF Circling
  <2>2. c = Size + 1
    <3>1. c <= Size => c = Size
      <4> HIDE DEF i, c
      <4> QED  BY <1>2, <1>3, <1>7
    <3> QED  BY <1>4, <1>6, <2>1, <3>1
  <2>3. AtTop(cursor', tokens', errors')  BY <1>5, <1>7, <2>2 DEF AtTop
  <2> QED  BY <1>1, <2>3, TopAgain
<1>8. CASE code[i] \in Digits /\ Digit_or_dot(i, c, has_dot) /\ Right(i, tokens, errors)
  <2>1. c \in (i + 1)..(Size + 1)
    <3>1. c # i  BY <1>2, <1>3, <1>4, <1>8
    <3> HIDE DEF i, c
    <3> QED  BY <1>2, <1>3, <3>1
  <2>2. /\ End(i) = c /\ ~Skipped(Text_(i, c)) /\ Class(Text_(i, c)) = type
        /\ Integer(Text_(i, c)) \/ Float(Text_(i, c))
    <3> DEFINE d == has_dot
    <3>1. d \in BOOLEAN /\ Digit_or_dot(i, c, d) /\ (c <= Size => code[c] \notin Digits /\ (code[c] = "." => d))
      BY <1>3, <1>4, <1>8
    <3> HIDE DEF i, c, d
    <3>2. /\ End(i) = c /\ ~Skipped(Text_(i, c))
          /\ Class(Text_(i, c)) = IF d THEN "FLOAT" ELSE "INTEGER"
          /\ Integer(Text_(i, c)) \/ Float(Text_(i, c))
      BY <1>2, <1>3, <1>8, <2>1, <3>1, NumberEnd
    <3> QED  BY <3>2 DEF d
  <2>3. CASE c <= Size
    <3>1. cursor' = c  BY <1>5, <2>3
    <3>2. Right(cursor', tokens', errors)  BY <1>1, <1>2, <1>8, <2>2, <3>1, SpokenRight
    <3>3. AtTop(cursor', tokens', errors')  BY <1>1, <2>3, <3>1, <3>2 DEF AtTop
    <3> QED  BY <1>1, <3>3, TopAgain
  <2>4. CASE c = Size + 1
    <3>1. cursor' = Size /\ End(i) = Size + 1 /\ (Integer(Text_(i, Size + 1)) \/ Float(Text_(i, Size + 1)))
      BY <1>5, <2>2, <2>4
    <3>2. /\ NumberLast /\ errors = ExpectedErrors
          /\ Cut[1].spoken = Append(Spans(tokens), Piece(i)) /\ Piece(i) \in SpanType
          /\ Spans(tokens) \in Seq(SpanType)
      <4> HIDE DEF i
      <4> QED  BY <1>2, <1>3, <1>8, <3>1, NumberEnds
    <3>3. CASE code[Size] = "."
      <4>1. DotLast  BY <3>2, <3>3 DEF DotLast
      <4>2. PICK t : /\ tokens' = Append(tokens, t)
                     /\ SpanOf(t) = [type |-> type, from |-> i, to |-> Size]
        BY <1>1, <3>1, Pushed
      <4> DEFINE p == Piece(i)
                 q == Spans(tokens)
                 z == [type |-> p.type, from |-> p.from, to |-> Size]
      <4>3. SpanOf(t) = z  BY <2>2, <4>2 DEF Piece
      <4>4. z \in SpanType  BY <1>3, <3>2 DEF SpanType
      <4>5. Spans(tokens') = Append(q, z)
        <5>1. SpanOf(t) \in SpanType  BY <4>3, <4>4
        <5>2. Spans(Append(tokens, t)) = Append(Spans(tokens), SpanOf(t))
          BY <1>3, <5>1, TokenSpans, SpansAppend
        <5> QED  BY <4>2, <4>3, <5>2
      <4>6. [Cut[1].spoken EXCEPT ![Len(Cut[1].spoken)].to = Size] = Append(q, z)
        <5>1. p \in SpanType /\ q \in Seq(SpanType) /\ Cut[1].spoken = Append(q, p)  BY <3>2
        <5> HIDE DEF p, q, SpanType
        <5>2. p \in SpanType /\ q \in Seq(SpanType) /\ Size \in Nat  BY <1>3, <5>1
        <5>3. [Append(q, p) EXCEPT ![Len(Append(q, p))].to = Size] = Append(q, z)
          BY <5>2, LastReplaced, Zenon
        <5> QED  BY <5>1, <5>3
      <4>7. Expected = Spans(tokens') \o <<Dot>>
        <5> HIDE DEF p, q, z
        <5> QED  BY <4>1, <4>5, <4>6 DEF Expected, Dot
      <4>8. AtTop(cursor', tokens', errors')
        BY <1>1, <3>1, <3>2, <4>1, <4>7 DEF AtTop, Repeated
      <4> QED  BY <1>1, <4>8, TopAgain
    <3>4. CASE code[Size] # "."
      <4>1. code[Size] \in Digits
        <5>1. Size \in i..(c - 1)  BY <1>2, <1>3, <2>4
        <5>2. CASE has_dot
          <6>1. PICK k \in (i + 1)..(c - 1) :
                  code[k] = "." /\ \A l \in (i..(c - 1)) \ {k} : code[l] \in Digits
            BY <1>8, <5>2 DEF Digit_or_dot
          <6> QED  BY <3>4, <5>1, <6>1
        <5>3. CASE ~has_dot  BY <1>8, <5>1, <5>3 DEF Digit_or_dot
        <5> QED  BY <5>2, <5>3
      <4>2. Circling  BY <3>2, <3>4, <4>1 DEF Circling, DotLast
      <4>3. AtTop(cursor', tokens', errors')  BY <3>1, <4>2 DEF AtTop
      <4> QED  BY <1>1, <4>3, TopAgain
    <3> QED  BY <3>3, <3>4
  <2> QED  BY <1>6, <2>3, <2>4
<1> QED  BY <1>2, <1>7, <1>8 DEF Reading

LEMMA OperatorMunches ==
  ASSUME MunchInv, status = "run", Operator
  PROVE  Next_Stands
<1> DEFINE i == start.cursor
           c == cursor
<1>1. mode = "operator" /\ UNCHANGED <<start, has_dot>>  BY DEF Operator
<1>2. i \in 1..Size /\ Reading("operator", i, c, has_dot, tokens, errors)  BY <1>1, ReadingFacts
<1>3. code[i] \in OpChars /\ c = i + 1 /\ Right(i, tokens, errors)  BY <1>2 DEF Reading
<1>4. MunchInv /\ LexInv /\ code \in Seq(Characters) /\ errors \in Int /\ Size \in Nat
      /\ tokens \in Seq(TokensOf) /\ Spans(tokens) \in Seq(SpanType)
  BY MunchFacts
<1>5. i \in Nat /\ c \in Nat /\ c - 1 = i /\ c + 1 = i + 2 /\ i + 2 > i + 1
  <2> HIDE DEF i, c
  <2> QED  BY <1>2, <1>3, <1>4
<1>6. char1 = code[i] /\ (Inside <=> c <= Size)  BY <1>5 DEF char1, Inside
<1>7. CASE /\ Inside /\ Here \in OpChars /\ lexer_step /\ Silently
           /\ CASE <<char1, Here>> \in Pairs -> push_token_array(char1 \o Here)
                [] <<char1, Here>> = <<"/", "*">> -> mode' = "multi_line" /\ UNCHANGED tokens
                [] <<char1, Here>> = <<"/", "/">> -> mode' = "single_line" /\ UNCHANGED tokens
                [] OTHER -> Ignore
  <2> DEFINE d == code[i + 1]
  <2>1. /\ Here = d /\ d \in OpChars /\ i + 1 <= Size /\ cursor' = i + 2 /\ errors' = errors
    BY <1>3, <1>5, <1>6, <1>7, SameErrors DEF Here, lexer_step
  <2>2. /\ <<code[i], d>> \in Pairs => push_token_array(code[i] \o d)
        /\ <<code[i], d>> = <<"/", "*">> => mode' = "multi_line" /\ tokens' = tokens
        /\ <<code[i], d>> = <<"/", "/">> => mode' = "single_line" /\ tokens' = tokens
        /\ <<code[i], d>> \notin Pairs /\ <<code[i], d>> # <<"/", "*">> /\ <<code[i], d>> # <<"/", "/">>
             => mode' = "top" /\ tokens' = tokens
    <3> DEFINE p == <<char1, Here>>
    <3>0. p = <<code[i], d>> /\ char1 = code[i] /\ Here = d  BY <1>6, <2>1
    <3>1. CASE p \in Pairs
      <4>1. p # <<"/", "*">> /\ p # <<"/", "/">>  BY <3>1, Marks
      <4>2. push_token_array(char1 \o Here)  BY <1>7, <3>1, <4>1
      <4> QED  BY <3>0, <3>1, <4>1, <4>2
    <3>2. CASE p = <<"/", "*">>
      <4>1. p \notin Pairs /\ p # <<"/", "/">>  BY <3>2, Marks
      <4>2. mode' = "multi_line" /\ tokens' = tokens  BY <1>7, <3>2, <4>1
      <4> QED  BY <3>0, <3>2, <4>1, <4>2
    <3>3. CASE p = <<"/", "/">>
      <4>1. p \notin Pairs /\ p # <<"/", "*">>  BY <3>3, Marks
      <4>2. mode' = "single_line" /\ tokens' = tokens  BY <1>7, <3>3, <4>1
      <4> QED  BY <3>0, <3>3, <4>1, <4>2
    <3>4. CASE p \notin Pairs /\ p # <<"/", "*">> /\ p # <<"/", "/">>
      <4>1. Ignore  BY <1>7, <3>4
      <4> QED  BY <3>0, <3>4, <4>1 DEF Ignore
    <3> QED  BY <3>1, <3>2, <3>3, <3>4
  <2>3. i <= Size /\ i <= i + 2 /\ i + 2 <= Size + 1 /\ ~(i + 2 > i + 2) /\ i + 2 >= i + 2
        /\ (i + 2) - 1 = i + 1 /\ (i + 2)..(i + 1) = {}
    BY <1>4, <1>5, <2>1
  <2>4. CASE <<code[i], d>> = <<"/", "*">>
    <3>1. code[i] = "/" /\ code[i + 1] = "*"  BY <2>4
    <3>2. Looks(i, i + 2) = 0  BY <2>3 DEF Looks
    <3>3. errors - Looks(i, i + 2) = errors  BY <1>4, <3>2
    <3>4. Right(i, tokens, errors - Looks(i, i + 2))  BY <1>3, <3>3
    <3>5. \A l \in (i + 2)..((i + 2) - 1) : l < Size => ~(code[l] = "*" /\ code[l + 1] = "/")
      BY <2>3
    <3>6. Reading("multi_line", i, i + 2, has_dot, tokens, errors)
      <4> HIDE DEF i
      <4> QED  BY <2>3, <3>1, <3>4, <3>5 DEF Reading
    <3> QED  BY <1>1, <2>1, <2>2, <2>3, <2>4, <3>6 DEF Stands, Next_Stands
  <2>5. CASE <<code[i], d>> = <<"/", "/">>
    <3>1. code[i] = "/" /\ code[i + 1] = "/"  BY <2>5
    <3>2. \A l \in (i + 2)..((i + 2) - 1) : code[l] # "\n"  BY <2>3
    <3>3. Reading("single_line", i, i + 2, has_dot, tokens, errors)
      <4> HIDE DEF i
      <4> QED  BY <1>3, <2>3, <3>1, <3>2 DEF Reading
    <3> QED  BY <1>1, <2>1, <2>2, <2>3, <2>5, <3>3 DEF Stands, Next_Stands
  <2>6. CASE <<code[i], d>> # <<"/", "*">> /\ <<code[i], d>> # <<"/", "/">>
    <3>1. /\ End(i) = i + 2 /\ ~Strange(Text_(i, i + 2)) /\ ~Comment(Text_(i, i + 2))
          /\ <<code[i], d>> \in Pairs =>
               ~Skipped(Text_(i, i + 2)) /\ Class(Text_(i, i + 2)) = code[i] \o d
          /\ <<code[i], d>> \notin Pairs => Skipped(Text_(i, i + 2))
      <4> HIDE DEF i
      <4> QED  BY <1>2, <1>3, <1>4, <2>1, <2>6, PairEnd
    <3>2. Right(cursor', tokens', errors) /\ Spans(tokens') \in Seq(SpanType) /\ mode' = "top"
      <4>1. CASE <<code[i], d>> \in Pairs
        <5>1. push_token_array(code[i] \o d)  BY <2>2, <4>1
        <5>2. push_token_array(Class(Text_(i, cursor')))  BY <2>1, <3>1, <4>1, <5>1
        <5>3. mode' = "top"  BY <5>1, Pushed
        <5> QED  BY <1>2, <1>3, <2>1, <3>1, <4>1, <5>2, <5>3, SpokenRight
      <4>2. CASE <<code[i], d>> \notin Pairs
        <5>1. Skipped(Text_(i, End(i))) /\ ~Strange(Text_(i, End(i)))  BY <3>1, <4>2
        <5>2. Right(End(i), tokens, errors)
          <6> HIDE DEF i
          <6> QED  BY <1>2, <1>3, <1>4, <5>1, SkippedRight
        <5> QED  BY <1>4, <2>1, <2>2, <2>6, <3>1, <4>2, <5>2
      <4> QED  BY <4>1, <4>2
    <3>3. AtTop(End(i), tokens', errors)
      <4> DEFINE ts == tokens'
      <4>1. Spans(ts) \in Seq(SpanType) /\ Right(End(i), ts, errors)  BY <2>1, <3>1, <3>2
      <4>2. End(i) > i + 1 /\ ~Comment(Text_(i, End(i)))  BY <1>5, <3>1
      <4> HIDE DEF ts, i
      <4>3. AtTop(End(i), ts, errors)  BY <1>2, <1>3, <1>4, <4>1, <4>2, OpArrives
      <4> QED  BY <4>3 DEF ts
    <3> QED  BY <2>1, <3>1, <3>2, <3>3, TopAgain
  <2> QED  BY <2>4, <2>5, <2>6
<1>8. CASE /\ Inside => Here \notin OpChars
           /\ UNCHANGED <<cursor, position>>
           /\ Reported(lexer_at(cursor))
           /\ IF char1 \in Singles THEN push_token_array(char1) ELSE Ignore
  <2>1. /\ cursor' = i + 1 /\ errors' = errors + lexer_at(i + 1)
        /\ i + 1 <= Size => code[i + 1] \notin OpChars
    BY <1>3, <1>6, <1>8 DEF Here, Reported
  <2>2. /\ End(i) = i + 1 /\ ~Strange(Text_(i, i + 1)) /\ ~Comment(Text_(i, i + 1))
        /\ code[i] \in Singles => ~Skipped(Text_(i, i + 1)) /\ Class(Text_(i, i + 1)) = code[i]
        /\ code[i] \notin Singles => Skipped(Text_(i, i + 1))
    <3> HIDE DEF i
    <3> QED  BY <1>2, <1>3, <1>4, <2>1, SingleEnd
  <2>3. Right(cursor', tokens', errors) /\ Spans(tokens') \in Seq(SpanType) /\ mode' = "top"
    <3>1. CASE code[i] \in Singles
      <4>1. push_token_array(code[i])  BY <1>6, <1>8, <3>1
      <4>2. push_token_array(Class(Text_(i, cursor')))  BY <2>1, <2>2, <3>1, <4>1
      <4>3. mode' = "top"  BY <4>1, Pushed
      <4> QED  BY <1>2, <1>3, <2>1, <2>2, <3>1, <4>2, <4>3, SpokenRight
    <3>2. CASE code[i] \notin Singles
      <4>1. Skipped(Text_(i, End(i))) /\ ~Strange(Text_(i, End(i)))  BY <2>2, <3>2
      <4>2. Right(End(i), tokens, errors)
        <5> HIDE DEF i
        <5> QED  BY <1>2, <1>3, <1>4, <4>1, SkippedRight
      <4>3. mode' = "top" /\ tokens' = tokens  BY <1>6, <1>8, <3>2 DEF Ignore
      <4> QED  BY <1>4, <2>1, <2>2, <4>2, <4>3
    <3> QED  BY <3>1, <3>2
  <2>4. AtTop(cursor', tokens', errors')
    <3>1. CASE i + 1 <= Size
      <4>1. lexer_at(i + 1) = 0
        <5>1. ~(i + 1 > Size)  BY <1>4, <1>5, <3>1
        <5> QED  BY <5>1 DEF lexer_at
      <4>2. errors' = errors  BY <1>4, <2>1, <4>1
      <4> QED  BY <2>1, <2>3, <3>1, <4>2 DEF AtTop
    <3>2. CASE ~(i + 1 <= Size)
      <4>1. i = Size /\ i + 1 > Size /\ End(i) = Size + 1
        <5>1. i <= Size  BY <1>2
        <5> HIDE DEF i
        <5> QED  BY <1>4, <1>5, <2>2, <3>2, <5>1
      <4>2. lexer_at(i + 1) = 1  BY <4>1 DEF lexer_at
      <4> DEFINE ts == tokens'
      <4>3. Spans(ts) \in Seq(SpanType) /\ Right(Size + 1, ts, errors)  BY <2>1, <2>3, <4>1
      <4> HIDE DEF ts
      <4>4. Spans(ts) = Expected /\ errors = Cut[1].strange /\ OpLast
        <5> HIDE DEF i
        <5> QED  BY <1>2, <1>3, <1>4, <4>1, <4>3, OpEnds
      <4>5. ExpectedErrors = errors + 1  BY <4>4 DEF ExpectedErrors
      <4> QED  BY <2>1, <4>1, <4>2, <4>4, <4>5 DEF AtTop, Ended, ts
    <3> QED  BY <3>1, <3>2
  <2> QED  BY <2>3, <2>4, TopAgain
<1> QED  BY <1>7, <1>8 DEF Operator

LEMMA Single_LineMunches ==
  ASSUME MunchInv, status = "run", Single_Line_Comment
  PROVE  Next_Stands
<1> DEFINE i == start.cursor
           c == cursor
           d == IF Inside THEN c + 1 ELSE c
<1>1. /\ mode = "single_line" /\ cursor' = d /\ start' = start /\ has_dot' = has_dot
      /\ mode' = (IF Inside /\ code[c] # "\n" THEN "single_line" ELSE "top")
      /\ errors' = errors /\ tokens' = tokens
  BY SameErrors DEF Single_Line_Comment, lexer_step, Here
<1>2. i \in 1..Size /\ c \in i..(Size + 1) /\ Reading("single_line", i, c, has_dot, tokens, errors)
  BY <1>1, ReadingFacts
<1>3. /\ c >= i + 2 /\ code[i] = "/" /\ code[i + 1] = "/" /\ Right(i, tokens, errors)
      /\ \A l \in (i + 2)..(c - 1) : code[l] # "\n"
  BY <1>2 DEF Reading
<1>4. MunchInv /\ LexInv /\ code \in Seq(Characters) /\ errors \in Int /\ Size \in Nat
      /\ Spans(tokens) \in Seq(SpanType)
  BY MunchFacts
<1>5. (Inside <=> c <= Size) /\ d = IF Inside THEN c + 1 ELSE c  BY DEF Inside
<1>6. i \in Nat /\ c \in Nat /\ i <= Size /\ (c <= Size \/ c = Size + 1)
  <2> HIDE DEF i, c, d
  <2> QED  BY <1>2, <1>4
<1>7. CASE Inside /\ code[c] # "\n"
  <2>1. cursor' = c + 1 /\ mode' = "single_line"  BY <1>1, <1>7
  <2>2. i <= c + 1 /\ c + 1 <= Size + 1 /\ c + 1 >= i + 2 /\ (c + 1) - 1 = c
    <3> HIDE DEF i, c, d
    <3> QED  BY <1>3, <1>4, <1>5, <1>6, <1>7
  <2>3. \A l \in (i + 2)..((c + 1) - 1) : code[l] # "\n"
    <3> HIDE DEF i, c, d
    <3> QED  BY <1>3, <1>6, <1>7
  <2>4. Reading("single_line", i, c + 1, has_dot, tokens, errors)
    <3> HIDE DEF i, c, d
    <3> QED  BY <1>3, <2>2, <2>3 DEF Reading
  <2> QED  BY <1>1, <1>6, <2>1, <2>2, <2>4 DEF Stands, Next_Stands
<1>8. CASE ~(Inside /\ code[c] # "\n")
  <2>1. cursor' = d /\ mode' = "top"  BY <1>1, <1>8
  <2>2. /\ d \in (i + 2)..(Size + 1) /\ d > i + 1 /\ \A l \in (i + 2)..(d - 2) : code[l] # "\n"
        /\ d <= Size => d - 1 >= i + 2 /\ code[d - 1] = "\n"
    <3> HIDE DEF i, c, d
    <3>1. CASE Inside
      <4>1. d = c + 1 /\ d - 1 = c /\ d - 2 = c - 1 /\ c <= Size /\ code[c] = "\n"
        BY <1>5, <1>6, <1>8, <3>1
      <4> QED  BY <1>3, <1>4, <1>6, <4>1
    <3>2. CASE ~Inside
      <4>1. d = c /\ d = Size + 1  BY <1>5, <1>6, <3>2
      <4> QED  BY <1>3, <1>4, <1>6, <4>1
    <3> QED  BY <3>1, <3>2
  <2> HIDE DEF d
  <2>3. End(i) = d /\ Skipped(Text_(i, d)) /\ ~Strange(Text_(i, d))
    <3> HIDE DEF i, c
    <3> QED  BY <1>2, <1>3, <1>4, <2>2, LineEnd
  <2>4. Skipped(Text_(i, End(i))) /\ ~Strange(Text_(i, End(i)))  BY <2>3
  <2>5. Right(End(i), tokens, errors)
    <3> HIDE DEF i, c
    <3> QED  BY <1>2, <1>3, <1>4, <2>4, SkippedRight
  <2>6. AtTop(End(i), tokens, errors)
    <3>1. End(i) > i + 1 /\ code[i] \in OpChars /\ code[i + 1] # "*"  BY <1>3, <2>2, <2>3, Marks
    <3> HIDE DEF i, c
    <3> QED  BY <1>2, <1>3, <1>4, <2>5, <3>1, OpArrives
  <2> QED  BY <1>1, <2>1, <2>3, <2>6, TopAgain
<1> QED  BY <1>7, <1>8

LEMMA Multi_LineMunches ==
  ASSUME MunchInv, status = "run", Multi_Line_Comment
  PROVE  Next_Stands
<1> DEFINE i == start.cursor
           c == cursor
           Open == Inside /\ ~(Here = "*" /\ cursor < Size /\ code[cursor + 1] = "/")
<1>1. mode = "multi_line" /\ start' = start /\ has_dot' = has_dot /\ tokens' = tokens
  BY DEF Multi_Line_Comment
<1>2. i \in 1..Size /\ c \in i..(Size + 1) /\ Reading("multi_line", i, c, has_dot, tokens, errors)
  BY <1>1, ReadingFacts
<1>3. /\ c >= i + 2 /\ code[i] = "/" /\ code[i + 1] = "*"
      /\ Right(i, tokens, errors - Looks(i, c))
      /\ \A l \in (i + 2)..(c - 1) : l < Size => ~(code[l] = "*" /\ code[l + 1] = "/")
  BY <1>2 DEF Reading
<1>4. MunchInv /\ LexInv /\ code \in Seq(Characters) /\ errors \in Int /\ Size \in Nat
      /\ Spans(tokens) \in Seq(SpanType)
  BY MunchFacts
<1>5. Open <=> c <= Size /\ ~(code[c] = "*" /\ c < Size /\ code[c + 1] = "/")  BY DEF Inside, Here
<1>6. i \in Nat /\ c \in Nat /\ i <= Size /\ (c <= Size \/ c = Size + 1)
  <2> HIDE DEF i, c, Open
  <2>1. c <= Size \/ c = Size + 1  BY <1>2, <1>4
  <2>2. i \in Nat /\ c \in Nat /\ i <= Size  BY <1>2, <1>4
  <2> QED  BY <2>1, <2>2
<1>7. code[i] \in OpChars  BY <1>3, Marks
<1>8. CASE Open
  <2>1. cursor' = c + 1 /\ mode' = "multi_line" /\ errors' = errors + lexer_at(c + 1)
    BY <1>1, <1>8 DEF Multi_Line_Comment, lexer_step, Reported
  <2> HIDE DEF Open
  <2>2. c <= Size /\ ~(code[c] = "*" /\ c < Size /\ code[c + 1] = "/")  BY <1>5, <1>8
  <2>3. i <= c + 1 /\ c + 1 <= Size + 1 /\ c + 1 >= i + 2 /\ (c + 1) - 1 = c /\ c + 1 > i + 2
        /\ ~(c > Size)
    <3> HIDE DEF i, c
    <3> QED  BY <1>3, <1>4, <1>6, <2>2
  <2>4. \A l \in (i + 2)..((c + 1) - 1) : l < Size => ~(code[l] = "*" /\ code[l + 1] = "/")
    <3> HIDE DEF i, c
    <3> QED  BY <1>3, <1>6, <2>2
  <2>5. Looks(i, c) = 0 /\ Looks(i, c + 1) = lexer_at(c + 1) /\ lexer_at(c + 1) \in {0, 1}
    BY <2>3 DEF Looks, lexer_at
  <2>6. errors' - Looks(i, c + 1) = errors - Looks(i, c)
    <3> DEFINE n == lexer_at(c + 1)
    <3>1. n \in Int /\ errors' = errors + n /\ Looks(i, c + 1) = n  BY <2>1, <2>5
    <3> HIDE DEF n
    <3>2. (errors + n) - n = errors - 0  BY <1>4, <3>1
    <3> QED  BY <2>5, <3>1, <3>2
  <2>7. Right(i, tokens, errors' - Looks(i, c + 1))  BY <1>3, <2>6
  <2>8. Reading("multi_line", i, c + 1, has_dot, tokens, errors')
    <3> DEFINE e == errors'
    <3>1. Right(i, tokens, e - Looks(i, c + 1))  BY <2>7
    <3> HIDE DEF i, c, e
    <3>2. Reading("multi_line", i, c + 1, has_dot, tokens, e)
      BY <1>3, <2>3, <2>4, <3>1 DEF Reading
    <3> QED  BY <3>2 DEF e
  <2> QED  BY <1>1, <1>6, <2>1, <2>3, <2>8 DEF Stands, Next_Stands
<1>9. CASE ~Open
  <2>1. cursor' = c + 2 /\ mode' = "top" /\ errors' = errors + lexer_at(c)
    BY <1>1, <1>9 DEF Multi_Line_Comment, Reported
  <2> HIDE DEF Open
  <2>2. CASE c <= Size
    <3>1. code[c] = "*" /\ c < Size /\ code[c + 1] = "/"  BY <1>5, <1>9, <2>2
    <3>2. lexer_at(c) = 0 /\ Looks(i, c) = 0
      <4>1. ~(c > Size)
        <5> HIDE DEF i, c
        <5> QED  BY <1>4, <1>6, <2>2
      <4> QED  BY <4>1 DEF lexer_at, Looks
    <3>3. Right(i, tokens, errors) /\ errors' = errors
      <4>1. errors - 0 = errors /\ errors + 0 = errors  BY <1>4
      <4> QED  BY <1>3, <2>1, <3>2, <4>1
    <3>4. /\ c + 2 \in (i + 2)..(Size + 1) /\ c + 2 > i + 1
          /\ \A l \in (i + 2)..((c + 2) - 3) : ~(code[l] = "*" /\ code[l + 1] = "/")
          /\ (c + 2) - 2 >= i + 2 /\ code[(c + 2) - 2] = "*" /\ code[(c + 2) - 1] = "/"
      <4> HIDE DEF i, c
      <4>1. (c + 2) - 2 = c /\ (c + 2) - 1 = c + 1 /\ (c + 2) - 3 = c - 1  BY <1>6
      <4>2. \A l \in (i + 2)..(c - 1) : l < Size  BY <1>4, <1>6, <2>2
      <4>3. c + 2 \in (i + 2)..(Size + 1) /\ c + 2 > i + 1  BY <1>3, <1>4, <1>6, <3>1
      <4> QED  BY <1>3, <3>1, <4>1, <4>2, <4>3
    <3>5. End(i) = c + 2 /\ Skipped(Text_(i, c + 2)) /\ ~Strange(Text_(i, c + 2))
      <4> DEFINE d == c + 2
      <4>1. /\ d \in (i + 2)..(Size + 1)
            /\ \A l \in (i + 2)..(d - 3) : ~(code[l] = "*" /\ code[l + 1] = "/")
            /\ d <= Size => d - 2 >= i + 2 /\ code[d - 2] = "*" /\ code[d - 1] = "/"
        BY <3>4
      <4> HIDE DEF i, c, d
      <4>2. End(i) = d /\ Skipped(Text_(i, d)) /\ ~Strange(Text_(i, d))
        BY <1>2, <1>3, <1>4, <4>1, BlockEnd
      <4> QED  BY <4>2 DEF d
    <3>6. Skipped(Text_(i, End(i))) /\ ~Strange(Text_(i, End(i)))  BY <3>5
    <3>7. Right(End(i), tokens, errors)
      <4> HIDE DEF i, c
      <4> QED  BY <1>2, <1>4, <3>3, <3>6, SkippedRight
    <3>8. End(i) = Size + 1 => Size >= i + 3 /\ code[Size] = "/" /\ code[Size - 1] = "*"
      <4> HIDE DEF i, c
      <4>1. End(i) = Size + 1 => Size = c + 1 /\ Size - 1 = c /\ Size >= i + 3
        BY <1>3, <1>4, <1>6, <3>5
      <4> QED  BY <3>1, <4>1
    <3>9. AtTop(End(i), tokens, errors)
      <4>1. End(i) > i + 1  BY <3>4, <3>5
      <4> HIDE DEF i, c
      <4> QED  BY <1>2, <1>4, <1>7, <3>3, <3>7, <3>8, <4>1, OpArrives
    <3> QED  BY <1>1, <2>1, <3>3, <3>5, <3>9, TopAgain
  <2>3. CASE c = Size + 1
    <3> DEFINE e == errors - Looks(i, c)
    <3>1. lexer_at(c) = 1 /\ Looks(i, c) = IF c > i + 2 THEN 1 ELSE 0
      <4>1. c > Size  BY <1>4, <2>3
      <4> QED  BY <4>1 DEF lexer_at, Looks
    <3>2. e \in Int /\ Right(i, tokens, e)  BY <1>3, <1>4, <3>1
    <3>3. /\ c \in (i + 2)..(Size + 1) /\ ~(c <= Size)
          /\ \A l \in (i + 2)..(c - 3) : ~(code[l] = "*" /\ code[l + 1] = "/")
      <4> HIDE DEF i, c
      <4>1. \A l \in (i + 2)..(c - 3) : l \in (i + 2)..(c - 1) /\ l < Size  BY <1>4, <1>6, <2>3
      <4>2. c \in (i + 2)..(Size + 1) /\ ~(c <= Size)  BY <1>3, <1>4, <1>6, <2>3
      <4> QED  BY <1>3, <4>1, <4>2
    <3>4. End(i) = c /\ Comment(Text_(i, c)) /\ Skipped(Text_(i, c)) /\ ~Strange(Text_(i, c))
      <4> HIDE DEF i, c
      <4> QED  BY <1>2, <1>3, <1>4, <3>3, BlockEnd
    <3>5. Skipped(Text_(i, End(i))) /\ ~Strange(Text_(i, End(i)))  BY <3>4
    <3>6. Right(End(i), tokens, e)
      <4> HIDE DEF i, c, e
      <4> QED  BY <1>2, <1>4, <3>2, <3>5, SkippedRight
    <3>7. Right(Size + 1, tokens, e) /\ End(i) = Size + 1  BY <2>3, <3>4, <3>6
    <3>8. /\ Spans(tokens) = Expected /\ e = Cut[1].strange /\ e \in Nat
          /\ OpLast <=> i = Size
          /\ Unclosed <=> /\ Comment(Text_(i, Size + 1)) /\ i + 1 <= Size /\ code[i + 1] = "*"
                          /\ ~(Size >= i + 3 /\ code[Size] = "/" /\ code[Size - 1] = "*")
          /\ Len(LastLexeme) = (Size + 1) - i
      <4> HIDE DEF i, c, e
      <4> QED  BY <1>2, <1>4, <1>7, <3>2, <3>7, OpEnds
    <3>9. i + 1 <= Size /\ i # Size
      <4> HIDE DEF i, c, e
      <4> QED  BY <1>3, <1>4, <1>6, <2>3
    <3>10. ~(Size >= i + 3 /\ code[Size] = "/" /\ code[Size - 1] = "*")
      <4> HIDE DEF i, c, e
      <4>1. Size >= i + 3 => Size - 1 \in (i + 2)..(c - 1) /\ Size - 1 < Size /\ (Size - 1) + 1 = Size
        BY <1>4, <1>6, <2>3
      <4> QED  BY <1>3, <4>1
    <3>11. ~OpLast /\ Unclosed  BY <1>3, <2>3, <3>4, <3>8, <3>9, <3>10
    <3>12. Len(LastLexeme) = 2 <=> ~(c > i + 2)
      <4> DEFINE n == Len(LastLexeme)
      <4>1. n = (Size + 1) - i  BY <3>8
      <4> HIDE DEF i, c, e, n
      <4>2. n = 2 <=> ~(c > i + 2)  BY <1>3, <1>4, <1>6, <2>3, <4>1
      <4> QED  BY <4>2 DEF n
    <3>13. errors' = ExpectedErrors
      <4>1. ExpectedErrors = e + (IF Len(LastLexeme) = 2 THEN 1 ELSE 2)
        BY <3>8, <3>11 DEF ExpectedErrors
      <4>2. CASE c > i + 2
        <5>1. ExpectedErrors = (errors - 1) + 2  BY <3>1, <3>12, <4>1, <4>2
        <5>2. (errors - 1) + 2 = errors + 1  BY <1>4
        <5> QED  BY <2>1, <3>1, <5>1, <5>2
      <4>3. CASE ~(c > i + 2)
        <5>1. ExpectedErrors = (errors - 0) + 1  BY <3>1, <3>12, <4>1, <4>3
        <5>2. (errors - 0) + 1 = errors + 1  BY <1>4
        <5> QED  BY <2>1, <3>1, <5>1, <5>2
      <4> QED  BY <4>2, <4>3
    <3>14. c + 2 > Size  BY <1>4, <2>3
    <3>15. AtTop(cursor', tokens', errors')
      BY <1>1, <2>1, <3>8, <3>13, <3>14 DEF AtTop, Ended
    <3> QED  BY <2>1, <3>15, TopAgain
  <2> QED  BY <1>6, <2>2, <2>3
<1> QED  BY <1>8, <1>9

-----------------------------------------------------------------------------
(***************************************************************************)
(* The source stays, and so does its cut.                                  *)
(***************************************************************************)
LEMMA SameCut ==
  ASSUME code \in Seq(Characters), code' = code
  PROVE  Cut' = Cut
<1> DEFINE new == Cut'
<1>1. Places' = Places /\ Size' = Size  BY DEF Places, Size
<1>2. \A i \in Places : new[i] = CutStep(i, new)
  <2>1. (code \in Seq(Characters) =>
           \A i \in Places : Cut[i] \in CutType /\ Cut[i] = CutStep(i, Cut))'
    BY CutFacts, PTL
  <2>2. Seq(Characters)' = Seq(Characters)  BY DEF Characters, Spaces, Digits, Letters, Symbols, OpChars, Unknown, Quote
  <2>3. code' \in Seq(Characters)'  BY <2>2
  <2>4. \A i \in Places : new[i] = CutStep(i, Cut)'  BY <1>1, <2>1, <2>3
  <2>5. \A i \in Places : CutStep(i, Cut)' = CutStep(i, new)
    BY <1>1 DEF CutStep, End, Text_
  <2> QED  BY <2>4, <2>5
<1>3. new = [i \in Places |-> new[i]]
  <2>1. (code \in Seq(Characters) => Cut = [i \in Places |-> Cut[i]])'
    BY CutFacts, PTL
  <2> QED  BY <1>1, <2>1
<1> HIDE DEF new
<1> DEFINE Same == {i \in Places : new[i] = Cut[i]}
<1>4. ASSUME NEW i \in Places, \A m \in Places : Distance[m] < Distance[i] => m \in Same
      PROVE  i \in Same
  <2>1. \A m \in Places : m > i => new[m] = Cut[m]  BY <1>4, DistanceFacts
  <2>2. CutStep(i, new) = CutStep(i, Cut)  BY <2>1, CutStepSame
  <2> QED  BY <1>2, <2>2, CutFacts
<1>5. Places \subseteq Same
  <2>1. Distance \in [Places -> Nat]  BY DistanceFacts
  <2> DEFINE N == Places
  <2> HIDE DEF N, Same
  <2>2. \A i \in N : (\A m \in N : Distance[m] < Distance[i] => m \in Same) => i \in Same
    BY <1>4 DEF N
  <2>3. N \subseteq Same  BY <2>1, <2>2, TreeInduction DEF N
  <2> QED  BY <2>3 DEF N
<1>6. Cut = [i \in Places |-> Cut[i]]  BY CutFacts
<1>7. new = Cut  BY <1>3, <1>5, <1>6
<1> QED  BY <1>7 DEF new

LEMMA SameSource ==
  ASSUME LexInv, code' = code, Next_Stands
  PROVE  Munching'
<1>1. code \in Seq(Characters)  BY InvFacts
<1>2. Cut' = Cut /\ Size' = Size  BY <1>1, SameCut DEF Size
<1>3. LastLexeme' = LastLexeme  BY <1>2 DEF LastLexeme, Text_
<1>4. NumberLast' = NumberLast /\ DotLast' = DotLast /\ Unclosed' = Unclosed /\ OpLast' = OpLast
  BY <1>2, <1>3 DEF NumberLast, DotLast, Unclosed, OpLast
<1>5. Expected' = Expected /\ ExpectedErrors' = ExpectedErrors
  BY <1>2, <1>3, <1>4 DEF Expected, ExpectedErrors
<1>6. /\ Circling' = Circling
      /\ Repeated(tokens, errors)' <=> Repeated(tokens', errors')
      /\ Ended(tokens, errors)' <=> Ended(tokens', errors')
  BY <1>2, <1>4, <1>5 DEF Circling, Repeated, Ended, Spans, Dot
<1>7. AtTop(cursor, tokens, errors)' <=> AtTop(cursor', tokens', errors')
  BY <1>2, <1>6 DEF AtTop, Right, Spans
<1>8. Reading(mode, start.cursor, cursor, has_dot, tokens, errors)'
        <=> Reading(mode', start'.cursor, cursor', has_dot', tokens', errors')
  <2>1. Right(start.cursor, tokens, errors)' <=> Right(start'.cursor, tokens', errors')
    BY <1>2 DEF Right, Spans
  <2>2. Looks(start.cursor, cursor)' = Looks(start'.cursor, cursor')  BY <1>2 DEF Looks
  <2>3. Right(start.cursor, tokens, errors - Looks(start.cursor, cursor))'
          <=> Right(start'.cursor, tokens', errors' - Looks(start'.cursor, cursor'))
    BY <1>2, <2>2 DEF Right, Spans
  <2>4. Digit_or_dot(start.cursor, cursor, has_dot)'
          <=> Digit_or_dot(start'.cursor, cursor', has_dot')
    BY <1>2 DEF Digit_or_dot
  <2> QED  BY <1>2, <1>6, <2>1, <2>3, <2>4 DEF Reading
<1> QED  BY <1>2, <1>7, <1>8 DEF Munching, Next_Stands, Stands

LEMMA MunchInit ==
  ASSUME Init
  PROVE  MunchInv
<1>1. LexInv  BY LexInitInv
<1>2. cursor = 1 /\ mode = "top" /\ tokens = <<>> /\ errors = 0  BY DEF Init
<1>3. code \in Seq(Characters) /\ Size \in Nat /\ 1 \in Places
  BY <1>1, InvFacts DEF Places
<1>4. Cut[1].spoken \in Seq(SpanType) /\ Cut[1].strange \in Nat  BY <1>3, CutTypes
<1>5. Spans(<<>>) = <<>>
  <2>1. DOMAIN Spans(<<>>) = {}  BY DEF Spans
  <2> QED  BY <2>1 DEF Spans
<1>6. CASE Size >= 1
  <2>1. Spans(tokens) \o Cut[1].spoken = Cut[1].spoken  BY <1>2, <1>4, <1>5, ConcatEmptySeq
  <2>2. Right(1, tokens, errors)  BY <1>2, <1>4, <2>1 DEF Right
  <2>3. 1 <= Size  BY <1>3, <1>6
  <2> QED  BY <1>1, <1>2, <2>2, <2>3 DEF MunchInv, Munching, Stands, AtTop
<1>7. CASE Size = 0
  <2>1. Cut[1].spoken = <<>> /\ Cut[1].strange = 0
    <3>1. Size + 1 = 1  BY <1>7
    <3> QED  BY <1>3, <3>1, CutEnd
  <2>2. Expected = <<>>  BY <1>7, <2>1 DEF Expected, DotLast, NumberLast
  <2>3. ExpectedErrors = 0  BY <1>7, <2>1 DEF ExpectedErrors, OpLast, Unclosed
  <2>4. 1 > Size  BY <1>7
  <2> QED  BY <1>1, <1>2, <1>5, <2>2, <2>3, <2>4 DEF MunchInv, Munching, Stands, AtTop, Ended
<1> QED  BY <1>3, <1>6, <1>7

LEMMA MunchNext ==
  ASSUME MunchInv, [Next]_vars
  PROVE  MunchInv'
<1>1. LexInv /\ LexInv' /\ code' = code  BY LexNextInv DEF MunchInv, Next, vars
<1>2. CASE UNCHANGED vars
  <2>1. Next_Stands  BY <1>2 DEF MunchInv, Munching, Next_Stands, vars
  <2> QED  BY <1>1, <2>1, SameSource DEF MunchInv
<1>3. CASE Next
  <2>1. status = "run"  BY <1>3 DEF Next
  <2>2. End_Of_File \/ Endless => Next_Stands
    <3>1. End_Of_File => status' = "done"  BY DEF End_Of_File
    <3>2. Endless => status' = "endless"  BY DEF Endless
    <3> QED  BY <3>1, <3>2 DEF Next_Stands
  <2>3. Next_Stands
    BY <1>3, <2>1, <2>2, Skip_SpaceMunches, BeginMunches, Unknown_CharacterMunches,
       SymbolMunches, CollectMunches, NumberMunches, IdentMunches, StringMunches,
       OperatorMunches, Single_LineMunches, Multi_LineMunches DEF Next
  <2> QED  BY <1>1, <2>3, SameSource DEF MunchInv
<1> QED  BY <1>2, <1>3

\* When lexer_tokenize returns, its tokens are the longest lexemes of the source, one after
\* the other, with EOF behind them, and there is an error for every character that begins no
\* lexeme and for every look behind the end, and no other.
THEOREM TokensAreLongest == Spec => MaximalMunch
<1> DEFINE A == status' = "done" =>
                  /\ Spans(Front(tokens')) = Expected /\ Last(tokens').type = "EOF"
                  /\ errors' = ExpectedErrors
<1>1. Init => MunchInv  BY MunchInit
<1>2. MunchInv /\ [Next]_vars => MunchInv'  BY MunchNext
<1>3. MunchInv /\ [Next]_vars => [A]_vars
  <2> SUFFICES ASSUME MunchInv, Next, status' = "done"
               PROVE  /\ Spans(Front(tokens')) = Expected /\ Last(tokens').type = "EOF"
                      /\ errors' = ExpectedErrors
    OBVIOUS
  <2>1. status = "run"  BY DEF Next
  <2>2. End_Of_File
    BY <2>1 DEF Next, Skip_Space, Begin, Unknown_Character, Symbol, Collect, Number, Ident, String,
       Operator, Single_Line_Comment, Multi_Line_Comment, Endless, Silently, Reported
  <2> DEFINE t == [type |-> "EOF", from |-> cursor, to |-> cursor,
                   left |-> position, right |-> position]
  <2>3. mode = "top" /\ ~Inside /\ tokens' = Append(tokens, t) /\ errors' = errors /\ t.type = "EOF"
    BY <2>2 DEF End_Of_File
  <2> HIDE DEF t
  <2>4. cursor > Size /\ cursor # Size  BY <2>3, MunchFacts DEF Inside
  <2>5. Ended(tokens, errors)
    <3>1. AtTop(cursor, tokens, errors)  BY <2>1, <2>3 DEF MunchInv, Munching, Stands
    <3>2. ~(cursor <= Size)  BY <2>4, MunchFacts
    <3> QED  BY <2>4, <3>1, <3>2 DEF AtTop
  <2>6. Front(tokens') = tokens /\ Last(tokens') = t
    <3> DEFINE S == TokensOf \cup {t}
    <3>1. tokens \in Seq(S) /\ t \in S
      <4>1. tokens \in Seq(TokensOf)  BY MunchFacts
      <4> HIDE DEF TokensOf
      <4> QED  BY <4>1
    <3> HIDE DEF S
    <3>2. /\ Append(tokens, t) \in Seq(S) /\ Len(Append(tokens, t)) = Len(tokens) + 1
          /\ \A k \in 1..Len(tokens) : Append(tokens, t)[k] = tokens[k]
          /\ Append(tokens, t)[Len(tokens) + 1] = t
      BY <3>1, AppendProperties
    <3> DEFINE q == Append(tokens, t)
               n == Len(tokens)
    <3>3. n \in Nat  BY <3>1
    <3>4. q \in Seq(S) /\ Len(q) = n + 1 /\ (\A k \in 1..n : q[k] = tokens[k]) /\ q[n + 1] = t
      BY <3>2
    <3>5. Last(q) = t  BY <3>4 DEF Last
    <3> HIDE DEF q
    <3>6. /\ Front(q) \in Seq(S) /\ Len(Front(q)) = Len(q) - 1
          /\ \A k \in 1..(Len(q) - 1) : Front(q)[k] = q[k]
      <4>1. Len(q) > 0  BY <3>3, <3>4
      <4> QED  BY <3>4, <4>1, FrontOfSeq
    <3>7. Len(q) - 1 = n
      <4> HIDE DEF n
      <4> QED  BY <3>3, <3>4
    <3>8. Front(q) = tokens
      <4> DEFINE f == Front(q)
      <4>1. f \in Seq(S) /\ Len(f) = Len(tokens) /\ \A k \in 1..Len(f) : f[k] = tokens[k]
        BY <3>4, <3>6, <3>7
      <4> HIDE DEF f
      <4>2. f = tokens  BY <3>1, <4>1, SeqEqual
      <4> QED  BY <4>2 DEF f
    <3> QED  BY <2>3, <3>5, <3>8 DEF q
  <2> QED  BY <2>3, <2>5, <2>6 DEF Ended
<1> QED  BY <1>1, <1>2, <1>3, PTL DEF Spec, MaximalMunch
=============================================================================
