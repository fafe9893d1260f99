------------------------------- MODULE Lexemes -------------------------------
(***************************************************************************)
(* What lexer_tokenize should return: the source is cut, from left to      *)
(* right, into the longest lexemes, and the lexemes that are no blanks and *)
(* no comments are the tokens.  The lexemes are described here by their    *)
(* characters alone, without a cursor.                                     *)
(***************************************************************************)
EXTENDS Lexer, FiniteSetsExt, SequencesExt

\* A source is held in memory, and a size_t counts more columns than it has characters.
ASSUME SourceAssumption == \A c \in Codes : Len(c) + 2 < Columns

All(w, set)    == \A k \in DOMAIN w : w[k] \in set
Opens(w, c, d) == Len(w) >= 2 /\ w[1] = c /\ w[2] = d
\* c stands in w before its last character, from the k-th on.
Within(w, k, c) == \E l \in k..(Len(w) - 1) : w[l] = c

Blank(w)   == Len(w) = 1 /\ w[1] \in Spaces
Strange(w) == Len(w) = 1 /\ w[1] \in Unknown
Comment(w) ==
  \/ Opens(w, "/", "/") /\ ~Within(w, 3, "\n")
  \/ Opens(w, "/", "*") /\ \A l \in 3..(Len(w) - 2) : ~(w[l] = "*" /\ w[l + 1] = "/")
Integer(w) == All(w, Digits)
\* digits and one point, which is not the first
Float(w)   == w[1] \in Digits /\ \E k \in DOMAIN w : w[k] = "." /\ \A l \in DOMAIN w \ {k} : w[l] \in Digits
Word(w)    == w[1] \in Letters /\ All(w, Letters \cup Digits)
Quoted(w)  == w[1] = Quote /\ ~Within(w, 2, Quote)
OpText(w)  == w \in Pairs \/ (Len(w) = 1 /\ w[1] \in Singles)
\* a pair of operator characters that means nothing, and the lonely ^
NoOp(w)    == All(w, OpChars) /\ ~OpText(w) /\ Len(w) <= 2
Mark(w)    == Len(w) = 1 /\ w[1] \in Symbols

Skipped(w) == Blank(w) \/ Strange(w) \/ Comment(w) \/ NoOp(w)
Lexeme(w) ==
  Skipped(w) \/ Integer(w) \/ Float(w) \/ Word(w) \/ Quoted(w) \/ OpText(w) \/ Mark(w)

\* The type of the token a lexeme gives.
Class(w) ==
  CASE Integer(w) -> "INTEGER" [] Float(w) -> "FLOAT" [] Quoted(w) -> "STRING"
    [] Word(w) -> IF w \in Keywords THEN "KEYWORD" ELSE "IDENTIFIER"
    [] w \in Pairs -> w[1] \o w[2]
    [] OTHER -> w[1]

\* The characters from i on and before j, and where the longest lexeme at i ends.
Text_(i, j) == SubSeq(code, i, j - 1)
End(i) == Max({j \in (i + 1)..(Size + 1) : Lexeme(Text_(i, j))})

\* The source from i on: the tokens of the longest lexeme at i, of the longest behind it, ...,
\* the characters in blanks and comments, the number of unknown ones, the last lexeme's start.
Cut[i \in 1..(Size + 1)] ==
  IF i > Size THEN [spoken |-> <<>>, ignored |-> {}, strange |-> 0, last |-> i]
  ELSE LET w == Text_(i, End(i))
           rest == Cut[End(i)]
       IN [spoken |-> (IF Skipped(w) THEN <<>>
                       ELSE <<[type |-> Class(w), from |-> i, to |-> End(i)]>>) \o rest.spoken,
           ignored |-> (IF Blank(w) \/ Comment(w) THEN i..(End(i) - 1) ELSE {}) \cup rest.ignored,
           strange |-> (IF Strange(w) THEN 1 ELSE 0) + rest.strange,
           last |-> IF End(i) > Size THEN i ELSE rest.last]

LastLexeme == Text_(Cut[1].last, Size + 1)
NumberLast == Size > 0 /\ (Integer(LastLexeme) \/ Float(LastLexeme))
DotLast == NumberLast /\ code[Size] = "."

\* A number at the end of the source gives its last character back, which is read again.
Expected ==
  LET spoken == Cut[1].spoken
  IN IF DotLast
     THEN [spoken EXCEPT ![Len(spoken)].to = Size] \o
            <<[type |-> ".", from |-> Size, to |-> Size + 1]>>
     ELSE spoken
Unclosed == /\ Size > 0 /\ Comment(LastLexeme) /\ LastLexeme[2] = "*"
            /\ ~(Len(LastLexeme) >= 4 /\ code[Size] = "/" /\ code[Size - 1] = "*")
OpLast == Size > 0 /\ Cut[1].last = Size /\ code[Size] \in OpChars
ExpectedErrors ==
  Cut[1].strange +
  (IF OpLast THEN 1 ELSE IF ~Unclosed THEN 0 ELSE IF Len(LastLexeme) = 2 THEN 1 ELSE 2)

-----------------------------------------------------------------------------
Spans(ts) == [k \in DOMAIN ts |-> [type |-> ts[k].type, from |-> ts[k].from, to |-> ts[k].to]]

\* lexer_tokenize, when it returns: the tokens are the longest lexemes of the source, one
\* after the other, and there is an error for every character that begins no lexeme and
\* for every look behind the end, and no other.
MaximalMunch ==
  [][status' = "done" =>
       /\ Spans(Front(tokens')) = Expected /\ Last(tokens').type = "EOF"
       /\ errors' = ExpectedErrors]_vars

\* The position lexer_step keeps: a line break counts from the second character behind it
\* on, and the first character of a line is still on the line before.
PositionAt(c) ==
  LET breaks == {k \in 1..Size : code[k] = "\n" /\ k + 2 <= c}
  IN [line |-> Cardinality(breaks),
      column |-> IF breaks = {} THEN c - 1 ELSE c - (Max(breaks) + 2)]

\* The position is a function of the cursor, however it has come there, by lexer_step and
\* lexer_step_back, and every token carries the positions of its two ends.  ("This doesn't
\* work with lines": a number of one digit at the end, alone on its line, is excepted.)
PositionFollowsCursor ==
  \/ Size >= 2 /\ code[Size - 1] = "\n" /\ code[Size] \in Digits
  \/ /\ position = PositionAt(cursor)
     /\ \A k \in DOMAIN tokens : /\ tokens[k].left = PositionAt(tokens[k].from)
                                 /\ tokens[k].right = PositionAt(tokens[k].to)

\* lexer_tokenize returns or breaks off, unless the source ends with a digit of a number,
\* which is given back and read again for ever.
LexingEnds == (NumberLast /\ ~DotLast) \/ <>(status \in {"done", "overflow"})

\* lexer.c:530: "If the token type is 0, it's a comment, so we ignore it".  In a source
\* without errors every character is a blank, part of a comment, or part of a token.
OnlyCommentsIgnored ==
  status = "done" /\ errors = 0 =>
    \A i \in 1..Size :
      \/ \E k \in DOMAIN tokens : i \in tokens[k].from..(tokens[k].to - 1)
      \/ i \in Cut[1].ignored
=============================================================================
