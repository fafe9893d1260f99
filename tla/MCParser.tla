------------------------------- MODULE MCParser -------------------------------
(***************************************************************************)
(* The parser on short sources with every construct of the language, on    *)
(* what is left of them when the end or one token is missing, and on all   *)
(* expressions of three operators.                                         *)
(***************************************************************************)
EXTENDS Grammar

Whole == {
  \* declarations and expressions
  <<"var", "ident", ":", "ident", "=", "int", "+", "ident", ";">>,
  <<"const", "ident", ":", "[", "int", "]", "ident", "=", "[", "int", ",", "float", "]">>,
  <<"var", "ident", ":", "[", "]", "ident", ".", "ident">>,
  <<"ident", ".", "ident", "(", "int", ",", "string", ")", "(", ")", ".", "ident", "=", "ident", "++">>,
  <<"-", "ident", "*", "--", "ident", "(", ")", ";">>,
  <<"ident", "=", "(", "ident", ")", "ident", "+", "int", ";">>,
  <<"(", "ident", ")", ";", "(", "int", ")", "+", "(", "ident", ".", "ident", ")", "int">>,
  <<"var", "ident", ":", "ident", "=", "{", "ident", "=", "int", ",", "ident", "}">>,
  <<"var", "(", "ident", ")", ":", "ident">>,
  <<"ident", "(", ",", "int", ",", "[", "int", ",", "]", ")">>,
  <<"[", "[", "ident", "]", ",", "ident", ";", "{", "}">>,
  \* statements
  <<"fn", "ident", "(", "ident", ":", "ident", ",", ")", ":", "ident", "{", "return", "ident", ";", "}">>,
  <<"if", "(", "ident", ")", "{", "break", "}", "else", "if", "(", "int", ")", "{", "}", "else", "ident">>,
  <<"while", "(", "ident", "<", "int", ")", "{", "continue", ";", "defer", "ident", "(", ")", "}">>,
  <<"while", "(", "ident", ")", ";">>,
  <<"enum", "ident", "{", "ident", "=", "int", ",", "ident", ",", "}">>,
  <<"struct", "ident", "{", "ident", ":", "ident", ",", "ident", ":", "[", "]", "ident", "}">>,
  <<"enum", "ident", ";", "struct", "ident", "{", "}">>,
  <<"switch", "(", "ident", ")", "{", "case", "int", ":", "{", "}", "default", ":", "{", "ident", "}", "}">>,
  <<"switch", "(", "ident", ")", "{", "default", ":", "{", "}", "default", ":", "{", "}", "}">>,
  <<"switch", "(", "ident", ")", "{", "case", "int", ":", "ident", "(", "int", ")", ";", "}", "}">>,
  <<"{", "{", "ident", "}", "return", ";", "}">>,
  \* names and operands of the wrong kind
  <<"var", "int", ":", "ident">>, <<"defer", ";">>, <<"ident", ".", "int">>,
  <<"enum", "ident", "{", "int", "}">>, <<"fn", "int", "(", ")", ":", "ident", "{", "}">>,
  \* arrays that grow, some of them twice
  <<"int", "int", "int", "int", "int", "int", "int">>,
  <<"ident", "(", "int", ",", "int", ",", "int", ",", "int", ")">>,
  <<"{", "[", "int", ",", "int", ",", "int", ",", "int", "]", "int", "int", "int", "}">>,
  \* more nodes, and more arrays, than are recorded
  <<"ident", "+", "ident", "+", "ident", "+", "ident", "+", "ident", "+", "ident", "+", "ident",
    "+", "ident">>,
  <<"{", "}", "{", "}", "{", "}", "{", "}", "{", "}", "{", "}">> }

Prefix(s, n) == SubSeq(s, 1, n)
Without(s, k) == SubSeq(s, 1, k - 1) \o SubSeq(s, k + 1, Len(s))

Ops == {"=", "<", "+", "*"}
Expressions ==
  {<<"ident", o, "int", p, "ident", q, "int", ";">> : o, p, q \in Ops} \cup
  {<<"(", "ident", o, "int", ")", p, "ident", ";">> : o, p \in Ops} \cup
  {<<"ident", p, "(", "ident", o, "int", ")", ";">> : o, p \in Ops} \cup
  {<<"-", "(", "ident", o, "int", ")", p, "-", "ident", ";">> : o, p \in Ops} \cup
  {<<"-", "ident", o, "-", "int", p, "ident", ";">> : o, p \in Ops}

MCSources ==
  LET sources == UNION {{Prefix(s, n) : n \in 0..Len(s)} \cup {Without(s, k) : k \in 1..Len(s)} :
                          s \in Whole} \cup Expressions
  IN {Append(s, "EOF") : s \in sources}
=============================================================================
