-------------------------------- MODULE Lexer --------------------------------
(***************************************************************************)
(* lexer.c: from characters to tokens.  Each action is one round of the    *)
(* loop of lexer_tokenize or of the function it has called; mode tells     *)
(* which.  What kind a character is of counts, hardly which letter or      *)
(* digit it is, and a few words stand for the fifteen keywords.            *)
(*                                                                         *)
(* A position is kept beside the cursor and follows it step by step, also  *)
(* where lexer_step_back takes a step back.                                *)
(***************************************************************************)
EXTENDS Integers, Sequences, FiniteSets

CONSTANTS
  Codes,        \* the source texts, sequences of characters
  Keywords,     \* the words that are no identifiers
  MaxText,      \* the size of strbuf, 256 in the code
  MaxErrors,    \* the entries of an error list, 128 in the code
  MaxTokens,    \* bound: a source that yields more is not followed further
  Columns       \* the values of a size_t, 2^64 in the code

Spaces    == {" ", "\n"}
Digits    == {"0", "1"}
Letters   == {"i", "f"}
Symbols   == {".", ",", ":", ";", "(", ")", "[", "]", "{", "}"}
OpChars   == {"+", "-", "*", "/", "%", "^", "=", "<", ">", "&", "|", "!"}
Unknown   == {"$"}
Quote     == "'"      \* stands for the double quote
Characters == Spaces \cup Digits \cup Letters \cup Symbols \cup OpChars \cup Unknown \cup {Quote}

\* The operators of two characters; of one, all but ^.
Pairs ==
  {<<"+", "+">>, <<"-", "-">>, <<"+", "=">>, <<"-", "=">>, <<"*", "=">>, <<"/", "=">>,
   <<"%", "=">>, <<"=", "=">>, <<"!", "=">>, <<"<", "=">>, <<">", "=">>, <<"&", "&">>,
   <<"|", "|">>}
Singles == OpChars \ {"^"}

ASSUME LexerAssumption ==
  /\ MaxText \in Nat \ {0} /\ MaxErrors \in Nat /\ MaxTokens \in Nat \ {0}
  /\ Columns \in Nat \ {0}
  /\ Codes \subseteq Seq(Characters) /\ Keywords \subseteq Seq(Letters)

VARIABLES
  code,        \* lexer->code
  cursor,      \* lexer->cursor, counted from 1
  position,    \* lexer->position: [line, column]
  mode,        \* "top", or the function lexer_tokenize has called
  start,       \* where it was called: [cursor, position]
  has_dot,     \* in a number
  tokens,      \* the token array
  errors,      \* lexer->error_list: how many
  past,        \* has a character behind the code been read?
  status       \* "run", "done", or how it broke off

vars == <<code, cursor, position, mode, start, has_dot, tokens, errors, past, status>>

Size == Len(code)
Inside == cursor <= Size
Here == code[cursor]

\* Mutant: the column begins one early, so that the first character of a line is at 0.
SteppedEarly(p, at) ==
  IF at \in 2..(Size + 1) /\ code[at - 1] = "\n"
  THEN [line |-> p.line + 1, column |-> -1]
  ELSE [p EXCEPT !.column = @ + 1]
\* lexer_step: a line begins only when its first character has been taken.
Stepped(p, at) ==
  IF at \in 2..(Size + 1) /\ code[at - 1] = "\n"
  THEN [line |-> p.line + 1, column |-> 0]
  ELSE [p EXCEPT !.column = (@ + 1) % Columns]
lexer_step == cursor' = cursor + 1 /\ position' = Stepped(position, cursor)

\* Mutant: the column stays when the cursor goes back.
SteppedBackNot(p) == p
\* lexer_step_back: "NOTE: This doesn't work with lines".
SteppedBack(p) == [p EXCEPT !.column = (@ - 1) % Columns]

\* Mutant: the bound is off by one.
lexer_at_beyond(i) == IF i > Size + 1 THEN 1 ELSE 0
\* lexer_at: the errors that a look at the i-th character reports.
lexer_at(i) == IF i > Size THEN 1 ELSE 0

\* add_lexer_error writes one entry too many behind the list.
Reported(n) ==
  /\ errors' = errors + n
  /\ status' = IF errors + n > MaxErrors THEN "overflow" ELSE "run"
Silently == UNCHANGED <<errors, status>>

Token(type, to, right) ==
  [type |-> type, from |-> start.cursor, to |-> to, left |-> start.position, right |-> right]

\* push_token_array, back in lexer_tokenize.
push_token_array(type) ==
  /\ Len(tokens) < MaxTokens
  /\ tokens' = Append(tokens, Token(type, cursor', position'))
  /\ mode' = "top"

Enter(m) == mode' = m /\ start' = [cursor |-> cursor, position |-> position]
Stay == UNCHANGED <<mode, start, tokens>>

-----------------------------------------------------------------------------
(***************************************************************************)
(* lexer_tokenize.                                                         *)
(***************************************************************************)
Skip_Space ==
  /\ mode = "top" /\ Inside /\ Here \in Spaces
  /\ lexer_step /\ Stay /\ Silently /\ UNCHANGED <<has_dot, past>>

Begin ==
  /\ mode = "top" /\ Inside
  /\ \/ Here \in Digits /\ Enter("number") /\ UNCHANGED <<cursor, position>>
     \/ Here \in Letters /\ Enter("ident") /\ UNCHANGED <<cursor, position>>
     \/ Here \in OpChars /\ Enter("operator") /\ lexer_step
     \/ Here = Quote /\ Enter("string") /\ lexer_step
     \/ Here \in Symbols /\ Enter("symbol") /\ lexer_step
  /\ has_dot' = FALSE
  /\ Silently /\ UNCHANGED <<tokens, past>>

Unknown_Character ==
  /\ mode = "top" /\ Inside /\ Here \in Unknown
  /\ Reported(1) /\ lexer_step /\ Stay /\ UNCHANGED <<has_dot, past>>

End_Of_File ==
  /\ mode = "top" /\ ~Inside
  /\ Len(tokens) < MaxTokens
  /\ tokens' = Append(tokens, [type |-> "EOF", from |-> cursor, to |-> cursor,
                               left |-> position, right |-> position])
  /\ status' = "done"
  /\ UNCHANGED <<cursor, position, mode, start, has_dot, errors, past>>

Symbol ==
  /\ mode = "symbol"
  /\ UNCHANGED <<cursor, position>> /\ push_token_array(code[cursor - 1])
  /\ Silently /\ UNCHANGED <<start, has_dot, past>>

-----------------------------------------------------------------------------
\* strbuf holds MaxText characters with the 0 at the end.
Text == SubSeq(code, start.cursor + (IF mode = "string" THEN 1 ELSE 0), cursor - 1)
\* Mutant: a number takes every dot.
BelongsDots ==
  Inside /\ CASE mode = "number" -> Here \in Digits \cup {"."}
              [] mode = "ident"  -> Here \in Letters \cup Digits
              [] mode = "string" -> Here # Quote
              [] OTHER           -> FALSE
Belongs ==
  Inside /\ CASE mode = "number" -> Here \in Digits \/ (Here = "." /\ ~has_dot)
              [] mode = "ident"  -> Here \in Letters \cup Digits
              [] mode = "string" -> Here # Quote
              [] OTHER           -> FALSE

Collect ==
  /\ Belongs
  /\ IF Len(Text) < MaxText - 1
     THEN /\ lexer_step /\ Stay /\ Silently
          /\ has_dot' = (has_dot \/ (mode = "number" /\ Here = "."))
          /\ UNCHANGED past
     ELSE /\ status' = "overflow"
          /\ UNCHANGED <<cursor, position, mode, start, has_dot, tokens, errors, past>>

\* The character behind the number is taken and given back; at the end of the input there
\* is none, and the last one of the number is given back.
\* Mutant: the last character of the number is given back, too.
GivenBackAlways == cursor - 1
GivenBack == IF Inside THEN cursor ELSE cursor - 1
Number ==
  /\ mode = "number" /\ ~Belongs
  /\ cursor' = GivenBack
  /\ position' = SteppedBack(IF Inside THEN Stepped(position, cursor) ELSE position)
  /\ push_token_array(IF has_dot THEN "FLOAT" ELSE "INTEGER")
  /\ Silently /\ UNCHANGED <<start, has_dot, past>>

WordType == IF Text \in Keywords THEN "KEYWORD" ELSE "IDENTIFIER"
Ident ==
  /\ mode = "ident" /\ ~Belongs
  /\ UNCHANGED <<cursor, position>> /\ push_token_array(WordType)
  /\ Silently /\ UNCHANGED <<start, has_dot, past>>

\* A string ends at the quote or at the end of the input.
String ==
  /\ mode = "string" /\ ~Belongs
  /\ IF Inside THEN lexer_step ELSE UNCHANGED <<cursor, position>>
  /\ push_token_array("STRING")
  /\ Silently /\ UNCHANGED <<start, has_dot, past>>

\* The second character of an operator is looked for also behind the last one, which
\* is reported; a pair that is no operator is taken, and gives no token.
char1 == code[cursor - 1]
Ignore == mode' = "top" /\ UNCHANGED tokens
Operator ==
  /\ mode = "operator"
  /\ \/ /\ Inside /\ Here \in OpChars /\ lexer_step /\ Silently
        /\ CASE <<char1, Here>> \in Pairs -> push_token_array(char1 \o Here)
             [] <<char1, Here>> = <<"/", "*">> -> mode' = "multi_line" /\ UNCHANGED tokens
             [] <<char1, Here>> = <<"/", "/">> -> mode' = "single_line" /\ UNCHANGED tokens
             [] OTHER -> Ignore
     \/ /\ Inside => Here \notin OpChars
        /\ UNCHANGED <<cursor, position>>
        /\ Reported(lexer_at(cursor))
        /\ IF char1 \in Singles THEN push_token_array(char1) ELSE Ignore
  /\ UNCHANGED <<start, has_dot, past>>

Single_Line_Comment ==
  /\ mode = "single_line"
  /\ IF Inside THEN lexer_step ELSE UNCHANGED <<cursor, position>>
  /\ mode' = IF Inside /\ Here # "\n" THEN mode ELSE "top"
  /\ Silently /\ UNCHANGED <<start, has_dot, tokens, past>>

\* Two steps close the comment, whether or not its end has been found.
Multi_Line_Comment ==
  /\ mode = "multi_line"
  /\ IF Inside /\ ~(Here = "*" /\ cursor < Size /\ code[cursor + 1] = "/")
     THEN /\ lexer_step /\ UNCHANGED <<mode, past>>
          /\ Reported(lexer_at(cursor + 1))
     ELSE /\ cursor' = cursor + 2
          /\ position' = Stepped(Stepped(position, cursor), cursor + 1)
          /\ mode' = "top" /\ past' = (past \/ ~Inside)
          /\ Reported(lexer_at(cursor))
  /\ UNCHANGED <<start, has_dot, tokens>>

\* The bound: no room for another token.
Endless ==
  /\ Len(tokens) = MaxTokens /\ status' = "endless"
  /\ UNCHANGED <<cursor, position, mode, start, has_dot, tokens, errors, past>>

-----------------------------------------------------------------------------
Init ==
  /\ code \in Codes /\ cursor = 1 /\ position = [line |-> 0, column |-> 0]
  /\ mode = "top" /\ start = [cursor |-> 1, position |-> position] /\ has_dot = FALSE
  /\ tokens = <<>> /\ errors = 0 /\ past = FALSE /\ status = "run"

Next ==
  /\ status = "run" /\ UNCHANGED code
  /\ \/ Skip_Space \/ Begin \/ Unknown_Character \/ End_Of_File \/ Symbol \/ Collect
     \/ Number \/ Ident \/ String \/ Operator
     \/ Single_Line_Comment \/ Multi_Line_Comment \/ Endless

\* lexer_tokenize is called and runs.
Spec == Init /\ [][Next]_vars /\ WF_vars(Next)

-----------------------------------------------------------------------------
Types == Symbols \cup Singles \cup {p[1] \o p[2] : p \in Pairs} \cup
         {"INTEGER", "FLOAT", "STRING", "IDENTIFIER", "KEYWORD", "EOF"}
Positions == [line : 0..(Size + MaxTokens), column : 0..(Columns - 1)]
TokensOf == [type : Types, from : 1..(Size + 3), to : 1..(Size + 3), left : Positions, right : Positions]

\* The state has its type, and while the lexer runs the error list has not overflowed.
LexTypeOK ==
  /\ code \in Seq(Characters) /\ cursor \in 1..(Size + 3) /\ position \in Positions
  /\ mode \in {"top", "number", "ident", "string", "symbol", "operator", "single_line",
               "multi_line"}
  /\ start \in [cursor : 1..(Size + 2), position : Positions]
  /\ has_dot \in BOOLEAN /\ past \in BOOLEAN
  /\ Len(tokens) <= MaxTokens /\ \A k \in DOMAIN tokens : tokens[k] \in TokensOf
  /\ errors \in 0..(MaxErrors + 1) /\ (status # "overflow" => errors <= MaxErrors)
  /\ status \in {"run", "done", "overflow", "endless"}

\* lexer_at reports what lexer_step then does without looking: when a character behind the
\* source has been read, an error stands in the list, and main goes no further.
OverreadReported == past => errors > 0
=============================================================================
