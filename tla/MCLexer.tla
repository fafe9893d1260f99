------------------------------- MODULE MCLexer -------------------------------
(***************************************************************************)
(* The lexer on every source of up to three characters, twelve of them to  *)
(* choose from, and of up to four, from fewer: each kind of token and      *)
(* comment, each way to end and each error is among them.  And on some     *)
(* longer ones.                                                            *)
(***************************************************************************)
EXTENDS Lexemes

MCKeywords == {<<"i", "f">>}

Upto(n, set) == UNION {[1..k -> set] : k \in 0..n}
Short == Upto(3, {" ", "\n", "1", "i", "f", ".", "+", "/", "*", "=", "$", Quote}) \cup
         Upto(4, {"\n", "1", ".", "/", "*", Quote}) \cup
         Upto(4, {" ", "1", "i", "f", "="})

\* every pair of operator characters, followed by a word
OpCodes == {<<"f", o, p, "i">> : o, p \in OpChars} \cup {<<"f", o>> : o \in OpChars}

Longer == {
  <<"i", "f", "(", "1", ")", "{", "f", "[", "1", "]", "}">>,
  <<"i", ":", "f", ",", "f", ";">>, <<"$", "$", "i", "$", "$">>,
  <<"1", ".", "1", ".", "1", " ">>, <<"1", "1", ".">>,
  <<"f", " ", "/", "*", "i", "*", "1", "\n", "*", "/", "1", ";">>,
  <<"/", "*", "*", "/", "\n", "1", "1", ";", "\n", "\n", "f">>,
  <<"i", "=", "1", ";", "/", "/", Quote, "*", "/", "\n", "1", "+", "=", "i", ";">>,
  <<Quote, "/", "*", Quote, "i", Quote, "\n", "f">> }

MCCodes == Short \cup OpCodes \cup Longer
=============================================================================
