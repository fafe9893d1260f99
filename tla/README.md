# Verification of the Prior interpreter

Prior is a small language run by a tree-walking interpreter in C. This directory
models its four stages, the lexer, the parser, the semantics stage and the
interpreter, in TLA+, checks the models with TLC on families of sources and
programs, and proves the main invariants of all four with TLAPS for every source,
sequence of tokens or program.

## 1. The system

| part | source | state | operations | what makes it correct |
|---|---|---|---|---|
| lexer | `lexer.c`, `token.h` | code, cursor, position, error list, token array | step, step back, one function per kind of token | tokens are the longest lexemes, positions follow the cursor, what is read behind the end is reported, it ends |
| parser | `ast.c`, `parser.c` | token cursor, error latch, allocation lists | one function per production | the first error ends parsing, the tree has the shape the later stages rely on and says what the source says, the memory of the tree can be given back, it ends |
| types | `type.c` | type tables | assign, get | a name means one type from its declaration on |
| scopes | `scope.c` | variables, type table, defers, `is_deferred`, parent | declare, define, get, add defer, free | lexical lookup, slots for all names, defers bounded by the text, lifetime |
| semantics stage | `semantics.c`, `eval.c` | the scopes open at a node, error list | one `process_` function per node type | scopes follow the text whatever is reported; what it accepts is what the interpreter relies on |
| values | `value.c` | none | cast, zero | a value lies in the range of its type |
| interpreter | `interp.c` | C stack of `evaluate_` calls, live scopes, function objects | one `evaluate_` function per node type | scope lifetime, isolation of calls, defers, control flow |
| driver | `main.c` | global scope | `interpret`, `compile` | stages in order, nothing is interpreted after an error |
| error list | `error.c` | 128 errors | add | bounded |
| the rest | `printast.c`, `mem.c`, `utils.c` | none | printing, copying, file input | - |

The stages run one after the other in one thread. The driver makes the global
`Scope`, fills in core types and `null`, `false`, `true`; the semantics stage
declares the program's types and global variables in that scope; the interpreter
gets the scope and the tree. Inside a stage everything is recursion on the tree:
C frames hold pointers to `Scope` objects that are locals of other C frames, and
results carry a control-flow tag (`EvalBreakType`) or an error flag (`SemRes.error`)
up through them.

There is no concurrency, and nothing persists. What is hard to test is what takes
long legal sequences to go wrong: defers against the three kinds of jumps, the
lifetime of scopes that are C locals, lookups through parent pointers during nested
calls, arithmetic at the edges of ten number types, fixed arrays without bounds
checks, the agreement of two stages that look things up in different ways, and, in
the first two stages, what happens where the input stops short: look-ahead behind the
end, an error latch that has to be looked at after every call, loops that take
nothing, and array headers recorded before the array moves.
`PROJECT.json` lists these hazards line by line.

## 2. Modules

| module | models | builds on |
|---|---|---|
| `Lexer` | `lexer.c`, character by character | |
| `Lexemes` | what the tokens of a source are, from the lexemes' characters alone, and the properties that compare | `Lexer` |
| `Parser` | `ast.c`, `parser.c`, and what `interpret` does with the parser | |
| `Grammar` | what a finished tree must be: its spelling, the children of each node, expressions by precedence | `Parser` |
| `Values` | `value.c`, the operator switches of `interp.c` and `eval.c` | |
| `Tree` | the tree in memory (`parser.h`): node types, number of children, and as assumptions what the parser builds | `Values` |
| `Ast` | constructors of syntax trees, for writing down programs | |
| `Interp` | `interp.c` over `scope.c` | `Tree` |
| `DeferStack` | what defer promises, as an abstract specification | |
| `Reference` | the meaning of a program as a recursive function on its tree | `Interp` |
| `Semantics` | `semantics.c`, `eval.c`, over `scope.c`, `type.c`, `error.c` | `Tree` |
| `Pipeline` | `interpret` of `main.c`: both stages over one scope | `Semantics`, `Interp` |
| `Soundness` | what acceptance by the semantics stage is worth to the interpreter (a property, no code) | `Pipeline` |
| `Claims` | statements of the repository that the code does not keep | `Interp` |
| `Families` | the programs the runs use | `Ast`, `Values` |
| `MCLexer`, `MCParser`, `MCInterp`, `MCSemantics`, `MCPipeline`, `MCClaims` | instances for TLC | |
| `LexerTheorems` | proofs about the lexer, its positions and its tokens | `Lexemes` |
| `ParserTheorems`, `SemanticsTheorems` | proofs about these stages | the stage |
| `InterpTheorems`, `InterpStorage` | proofs about the interpreter, the second on the first | `Interp` |
| `HandoverTheorems`, `PipelineTheorems` | proofs about the hand-over and about what follows it, the second on the first | `Pipeline`, `SemanticsTheorems` |
| `CommonLemmas` | lemmas about values, sequences, finite sets and trees | `Values` |

**The lexer is a loop inside a loop.** `lexer_tokenize` looks at one character and
calls the function for it, which loops over the characters that follow. `mode` tells
which function is running and an action is one round of its loop. The cursor, the
position beside it and the error list are as in the code; a token has its type, the
span of the source it was made of and its two positions, its value being the text of
the span. Every character of the source is one of a few that stand for their kind (two
letters, two digits, one unknown character); the fifteen keywords are one word.

**The parser is a table.** The functions of `ast.c` are of three kinds and each is one
entry: a straight run of steps (`Take`, `Expect`, `Parse`, `When`, `Check` stand for
`parser_advance`, `parser_advance_expect`, a call and the test of the latch behind it,
and the two kinds of tests in between), a list (a loop that fills a node array up to its
closing token), or a level of the expression grammar. `frames` is the C stack; a call's
result is appended to the children its caller holds. The actions execute the entry of
the innermost call: `Straight_Step` and `Build`, `Open`, `Take_Comma`, `Next_Element`,
`Add` and `Close`, `Operand` and `Join`, `Choose` for the functions that only look at the
next token, and `parse_literal_term` and `Postfix` for the two that fit no pattern.
`Unwinding` names the calls behind which the latch is looked at: three are missing in the
code. `nodes`, `arrays`, `live` and `fresh` are the memory: how many nodes are recorded,
to which chunk each recorded array header points, which chunks are allocated, and the
next one. `realloc` may or may not move a full array. `parse_array_lit` is the one list
that goes on after its own complaint.

The two are not composed: what the parser gets are sequences of token types, of which the
lexer can produce any, so that a composition would repeat both runs with fewer sources.

**Programs are constants.** A node pointer is a member of `Nodes`, `NodeData` says
what it points to, `Programs` are the roots. The only assumptions about them are
those in `Tree` and `GlobalsAssumption` in `Interp`: the shapes the parser gives to
nodes (`NodesAssumption`), that they form trees, each node being lower than the one it hangs
below (`TreeAssumption`), that expressions and the values of variables hold only expressions
and assign to identifiers (`ExpressionsAssumption`, whose second half the parser does not
enforce, see section 5), that the entries of a compound literal are assignments (which it
does not enforce either), that declarations, defers and jumps stand in blocks and at the top,
because only `parse_stat` makes them (`DeclarationsAssumption`), and that the
global variables fit in the global scope. The theorems therefore
speak of all programs; the runs of those in `Families`, which lays their trees out in
memory (`Listing`).

**The C stack is a variable.** In `Interp`, `stack` has one frame for each active
`evaluate_` call with the locals of that function that matter; `pc` says where the
function stands. An action is what one function does between two of its recursive
calls, and pushes or pops a frame: `Evaluate` is a call of `evaluate_node`, `Finish` a
return to the caller with the result in `ret`, `Resume` a step within the function,
`Fail` the end of the process (`abort` for a failed assertion, `exit`, `crash` for a
null or wild pointer or a trap, `overflow` for a write past an array or an exhausted
stack). `scopes` holds the live `Scope` objects in the order of creation, each with the
set of scopes its parent pointers lead to, so that a lookup takes the newest scope of
`chain` that declares the name. `fns` are the `ValueFunction` objects; a function's
value is its address as in the code, so that any number can be called. `ran` is a
history variable for `DeferStack`.

`Semantics` is built the same way (`calls`, `result`, `chain`, `errors`, `verdict`).
There every child is processed in the newest scope, so that the scopes form one chain.
`Visit` and `Visited` are the pattern "process a child, return if it failed" that most
of the functions share; the kinds of nodes with work of their own before, between or
after the children have their own actions.

**Nondeterminism.** A cast of a value outside the target type is undefined in C (a
conversion from `long double`); `Cast` allows the outcomes of the build. `realloc`
moves an array or does not. When the semantics stage complains about an enum value or a
callee that is no identifier, it prints the identifier's place in the union of the node
(semantics.c:128, semantics.c:312): where that holds an operator instead of a pointer, the
complaint or the end of the process follows (`ReportNamed`). Everything else is deterministic.

**Abstractions.** Floats are fixed-point numbers: the payload counts units, of which
`FloatUnit` make 1.0, and what is finer is cut off. So conversions cut fractions as in the
code, a float condition reads a low byte that is zero, and a division by a fraction cast
to an integer type ends the program; infinities, NaN, the negative zero and rounding to a
mantissa are not there. Values of structs carry no fields (the interpreter cannot read
them); instantiating one is modelled for its evaluations, casts and failures. Arrays,
update expressions (`++`), members and switches have no case in `evaluate_node`: they end
the process, in the semantics stage or in the interpreter, as in the code. Messages and
printing are left out, and from the parser on positions and the texts of literals.

## 3. Runs

| run | specification | programs | distinct states |
|---|---|---|---|
| `Lexer` | `Spec` | every source of up to three of twelve characters, of up to four of six, all pairs of operator characters, some longer ones | 42104 |
| `Parser` | `Spec` | 32 sources that between them have every construct, each also cut off at every token and without each of its tokens; all expressions of three operators, with parentheses and unary minus | 48136 |
| `Jumps` | `FairSpec` | 432: every combination of a block, if or loop with two simple statements (defer, defer of an assignment from a call, assignment, shadowing declaration, a call as a statement, one with calls as arguments) and a jump or none | 89693 |
| `Cases` | `Spec` | 10 regular programs, 24 that fail in a way of their own | 1636 |
| `Semantics` | `SemFairSpec` | 34 for the stage, and those of `Cases` | 2516 |
| `Pipeline` | `PipelineSpec` | 6 with unusual global scopes or callees, those of `Cases`, and every combination of 5 function bodies with 12 mains | 8575 |
| `BreakHonoured`, `ArgumentsDefined`, `MainIsolated` | `Spec` | one for each claim, among others | violated |
| `OnlyCommentsIgnored` | `Spec` | as `Lexer` | violated |
| `FreedOnce` | `Spec` | as `Parser` | violated |
| `ErrorFlag` | `SemSpec` | as `Semantics` | violated |

What they show:

* **LexTypeOK**, **OverreadReported**: wherever `lexer_step` has read a character behind
  the source without looking, an error stands in the list, so that `main` goes no further.
* **MaximalMunch**: the tokens are the longest lexemes of the source, one after the other
  (a point that ends a number at the very end becomes a token of its own besides),
  and there is an error for each unknown character and each look behind the end, and no
  other. `Lexemes` cuts the source by the lexemes' own definition.
* **PositionFollowsCursor**: the position is a function of the cursor, whichever steps and
  steps back have led there; the one exception is the step back over a line break.
* **LexingEnds**: the only source without an end is one that ends in a digit of a number,
  which is given back and read again.
* **Spelled**: read off in order, the tree an accepted source gives has the identifiers,
  literals, operators and keywords of the source, each once and in order.
* **Conforms**: every node's children are of the types the later stages take for granted
  when they reach into the union of the node.
* **AsReference**: for a source that is one expression the tree is that of a definition by
  precedence, which splits at the last operator of the loosest level.
* **StaysInBounds**, **ReadToTheEnd**: the parser reads behind the tokens only after an
  error it has not looked at or behind a `switch` that takes any token for its brace; an
  accepted source has been read exactly to its last token, without an error on the way.
* **ParserTypeOK**, **MemoryAccounted**: while the parser runs there is one chunk for each
  recorded array, and open lists share none; what `free_parser` leaves behind or frees
  twice is explained by the two faults `FreedOnce` finds, and nothing else.
* **ParsingEnds**: the parser ends, or goes round in `parse_switch_block` at a token that
  begins no case.
* **ScopeDiscipline**: each scope but the global one is the `sub_scope` of one frame on
  the stack, in the order of the frames, and no frame stands in a scope that is gone or
  newer than its own.
* **CallIsolation**, **CallersUntouched**: what runs for a call can neither find nor
  change a scope that was alive before the call, apart from the global one.
* **DefersKept**: with the mapping `Promise`, `Interp` implements `DeferStack`: in each
  scope nodes run newest first, at most once, and all have run before the scope ends.
  The programs of `Jumps` are `Tidy` (`JumpsAssumption`), which is what it takes, see below.
* **AgreesWithReference**: at a regular end the global variables have the values that
  `Reference` computes, which knows neither frames nor flags. A call hands on how its callee
  ended, as in the code (interp.c:800): a call that is a statement of its own ends the block
  or loop it stands in when the callee returns, and does not when the callee comes to its end.
* **Terminates**: every program of the family, whose loops are bounded, ends.
* **TypeOK**: the type invariant, by which every value lies in the range of its type.
* **SlotsSuffice**: no sequence of declarations and parameters takes more slots than a scope
  has (the code asserts it), and each name that is declared has a slot.
* **DefersFromText**: a scope defers the first so many of the `defer` statements that stand
  directly in its block or function body, in their order and each once. The code does not
  look at the capacity of `defers` (scope.c:128-130), so this is all that keeps it: a text with
  more than 256 of them in one block does write past the array, and the model ends there.
* **TypesKept**: assignments keep the type of a number, whatever is assigned and whatever
  runs before it is. Declarations and parameters take the value's type (interp.c:204).
* **LexicalScoping**: the scopes along which the semantics stage looks names up are those
  the text has at that place, after any sequence of errors that left functions early.
* **TypesResolve**, **ArgumentsMatch**: types are made of types that are there; arguments
  have passed the check they should have passed, for the type of the whole expression.
* **Decides**: the stage ends with a verdict or the process.
* **InterpretsProgram**, **TypesHandedOver**: in `Interp` the initial global scope and the
  types are formulas over the tree (`GlobalScope`, `GlobalType`, `StructFields`). Here
  the interpreter starts from what `Semantics` has built, and `Pipeline` implements
  `Interp`: the formulas are right, also for names declared several times.
* **CarefulProgramsRun**: the interpreter asserts and dereferences where a program goes
  wrong. A program the semantics stage accepts gets to its end all the same if it keeps to
  `Careful`, twelve conditions on its tree (`Soundness`), one for each check that neither
  stage makes: variables have values, nothing stands behind an `if`, arguments and the operands of casts name globals only, arguments are as many
  as parameters, functions return, divisors are constants, and so on. The rest, above all that
  every other name is declared where it is read, the stage does check. Each condition is
  needed: for each, the run has a program that keeps to the others, is accepted (or ends the
  semantics stage itself), and dies; without the condition the invariant fails on it.

**Bounds.** `MaxVars` (16, 9), `MaxDefers` (4, 3), `MaxTypes` (15, four more than the core
types) and `MaxErrors` (4, in the lexer 3) stand for the arrays of 256 and 128, `MaxText` (4)
for the 256 characters of the lexer's text buffer, `MaxNodes` (13) and `MaxArrays` (6) for the
parser's lists of 512 allocations, `ArraySize` (2) for the 64 places a node array begins with.
The programs and sources go past each of them by one or more, and stay below in others, so that
both sides of every limit are seen; arrays grow once and twice. `MaxTokens` (13) is a bound of
the model: a source that yields more tokens is followed no further, which only the endless ones
do. `Columns` (64) is 2^64 in the code: a column of -1 is a large number in both. `MaxDepth` is
20 frames, more than the programs need. `Modulus` gives 8- and 16-bit types their width and the
others 24 or 28 bits, because TLC computes with 32; the division that traps and the casts that
do not fit are at the edges of these. `FloatUnit` is 4, so that halves and quarters are exact.
`FnBase` is where `malloc` starts. Sources of the lexer are short because the lexer remembers
one character and the start of a token: three characters reach each of its branches from each of
the others, the longer ones are for comments, positions and the capacities.

**Fairness.** `WF_vars(Next)` in the lexer, the semantics stage and the interpreter,
`WF_vars(ParseNext)` in the parser: the process goes on as long as it can. It has one thread
and waits for nothing. `free_parser` is called by `interpret`, after the parser's end; no
property waits for it. The violated claims are safety properties and need none.

**Deadlock** is not checked: a program that has ended has no next step.

### Where the code and its documents part

Six runs show a statement of the repository violated; the findings in `PROJECT.json` quote
them: `break` in an `if` does not stop the loop body (TODO.md:14); arguments are evaluated in
the callee's scope (semantics.c:318); main's locals are visible to what main calls
(TODO.md:36-37); `free_parser` frees memory that is no longer allocated (TODO.md:22-24); two
operator characters that are no operator vanish as if they were a comment (lexer.c:530);
functions and if statements report an error they do not have (semantics.c:14-18), so that
statements behind them are not checked.

Four properties state the code's behaviour with exceptions, where the code does what no document
rules out, or where one of these six is at work: the endless number of `LexingEnds`, the endless
switch of `ParsingEnds`, the unchecked latch and brace of `StaysInBounds`, the line break of
`PositionFollowsCursor`. The exceptions are as narrow as the runs allow, so that a second such
place would show.

`DefersKept` holds for `Tidy` programs, those of `Jumps` and all others, and not for every
program. A block stops for `return` only, so that a statement after a `break` may register a
defer in a scope that is already marked and will not run it, and a second jump runs the defers
again; a `return` at the top level runs the global defers and a `return` in main runs them
again. `Tidy` rules out just these: a `break` or `continue` with a jump or a defer somewhere
behind it in the same block, and a jump that is a statement of the top level. What stands
behind a `return` is not restricted: it is never reached.
Likewise `AgreesWithReference` is checked where a `break` or `continue` is the last statement
of the loop body, where arguments are literals, calls, or globals that no local shadows
(the finding `ArgumentsDefined` is about the others), where main only calls and assigns (it shares
the global scope with what it calls, `MainIsolated`), and where the top level only declares.

## 4. Proofs

| theorem | says | module |
|---|---|---|
| `LexTypeCorrectness` | `Spec => []LexTypeOK` | `LexerTheorems` |
| `OverreadsAreReported` | `Spec => []OverreadReported` | |
| `PositionsAreRight` | `Spec => []PositionFollowsCursor` | |
| `TokensAreLongest` | `Spec => MaximalMunch` | |
| `ParserTypeCorrectness` | `Spec => []ParserTypeOK` | `ParserTheorems` |
| `MemoryIsAccounted` | `Spec => []MemoryAccounted` | |
| `BoundsAreKept` | `Spec => []StaysInBounds` | |
| `ProgramsAreReadToTheEnd` | `Spec => []ReadToTheEnd` | |
| `SemTypesHold` | `SemSpec => []SemTypeOK` | `SemanticsTheorems` |
| `ScopingIsLexical` | `SemSpec => []LexicalScoping` | |
| `TypesAlwaysResolve` | `SemSpec => []TypesResolve` | |
| `ArgumentsAlwaysMatch` | `SemSpec => []ArgumentsMatch` | |
| `Invariance` | `Spec => []IInv` | `InterpTheorems` |
| `TypeCorrectness` | `Spec => []TypeOK` | |
| `ScopeLifetimes` | `Spec => []ScopeDiscipline` | |
| `CallsAreIsolated` | `Spec => []CallIsolation` | `InterpStorage` |
| `SlotsKept` | `Spec => []SlotsSuffice` | |
| `CallersAreSafe` | `Spec => CallersUntouched` | |
| `TypesAreKept` | `Spec => TypesKept` | |
| `DefersAreKept` | `Tidy` implies `Spec => DefersKept`: `Interp` implements `DeferStack` | |
| `HandInvariance` | `PipelineSpec => []HandInv`: the global scope after every statement | `HandoverTheorems` |
| `TypesAreHandedOver` | `PipelineSpec => TypesHandedOver` | |
| `ProgramsAreInterpreted` | `PipelineSpec => InterpretsProgram`: `Pipeline` implements `Interp` | `PipelineTheorems` |

They hold for every set of sources, token sequences ending in `EOF`, or programs of the shape
in `Tree`, every modulus, every limit and every depth, under the named assumptions only
(`LexerAssumption`, `SourceAssumption`, `ParserAssumption`, `ModulusAssumption`,
`FloatUnitAssumption`, `NamesAssumption`, `NodesAssumption`, `TreeAssumption`,
`ExpressionsAssumption`, `DeclarationsAssumption`, `ProgramsAssumption`, `BoundsAssumption`,
`GlobalsAssumption`, `SemanticsBounds`), all of which TLC evaluates on the instances.
`DefersAreKept` has `Tidy` besides. None of the properties is inductive as it stands;
each module states the invariants that are.

**Lexer.** `LexInv` adds to the types where each function of the lexer may stand (`ModeOK`).
Only a comment takes the cursor past the end without a look at every character, and a number
has a digit in front of the cursor whenever it gives a character back, so that the cursor never
goes below the token's start. The line is bounded by the number of tokens and of line breaks
before the cursor, because a step back over a line break, of which there is one for each
number, leaves the line where it is (`At`). `OverreadReported` then rests on `LookedAt`: each
path that steps without a test has called `lexer_at` at the place before.
`PositionFollowsCursor` compares the position with one read off the source, by the number and
the last of the line breaks before the cursor. A `lexer_step` moves both alike
(`SteppedPosition`), and a step back undoes it where it gives back a character that follows
no break (`SteppedBackPosition`). So `PosInv` adds what makes that so: a number has taken
digits and points only (`Numeral`), so that with the one exception the property names, a digit
alone on the last line, no break is where it steps back. Columns are below their modulus because
no source is as long as that (`SourceAssumption`).

`MaximalMunch` is about the step that returns, and compares with `Cut`, a recursive function of
the source. `Munching` says how far the comparison has got: at the top of the loop the spans of
the tokens so far, followed by those of the lexemes of the rest, are those of the whole source,
and likewise the errors (`Right`). Inside a function this is so of the place where it was called,
and what it has taken since is the beginning of a lexeme of its kind (`Reading`). When it returns,
the kind's definition says that it has the whole lexeme and that no longer one begins there,
and `Cut` has the token before those of the rest. A comment that runs into the end has reported
its last look already (`Looks`). A number at the very end gives its last character back: a
point is then read once more, as a token (`Repeated`), a digit for ever (`Circling`), so that the
lexer never returns and the property claims nothing. That `Cut` is what its definition says
comes from `TreeRecursion`, described below, over the places of the source.

**Parser.** `ParserInv` speaks of the whole stack of calls. A caller waits behind exactly one
call with the children of the calls before (`Waits`). What the innermost function takes
blindly has been looked at, by itself or by whoever chose it (`Runs`). Behind an error only a
function that tests the latch, or an expression, which ends in one that does, can be innermost
(`Latched`); the three places without a test are why it has two more alternatives. The cursor
is behind the end without an error only in a switch's block or a case's (`Behind`), and those
are entered only where the words stand (`Spoken`). For the memory, as many chunks are allocated
as recorded, chunks not handed out yet are in neither set, and the open lists have chunks of
their own (`ChunksOK`, `FilledFrom`). A step moves the stack in one of four ways: the innermost
function stays, calls, becomes another, or returns. `StayMove`, `CallMove`, `GotoMove` and
`ReturnMove` show that each keeps the order of the calls, and one lemma for each action says
which it is. What the tables of the model contain enters through `StraightTables`,
`ListTables`, `LevelTables` and `ChoiceFacts`, which say of each entry what the argument needs,
for instance that no step takes a token but the first one and one behind a test. A function added
to the parser has only these to satisfy.

**Semantics stage.** `LexicalScoping` compares scopes with the text, and to be kept it needs to
know that the frames on the stack are a path in the tree, each waiting for the child the
next one processes (`Calling`), that the scope of a frame is as deep as the open blocks and
functions before it (`Stacked`), and what the child that has just returned declared, which
depends on its error flag (`ByTheText`). `Resolved` speaks of the tables in all scopes, also of
those the innermost frame has left. Five moves stand for the actions: the frame goes on,
enters its scope, with what it declares in it, visits a child, returns and closes what it opened,
or the process has ended.

Two properties compare with recursive functions of the tree, `evaluate_expr_node` and
`ExprType`. The theorems for induction and recursion of the library take operators, which the
provers cannot instantiate; `CommonLemmas` states them for sets instead: a set of nodes that
contains each node all of whose lower nodes it contains is the set of all nodes
(`TreeInduction`), and a rule that looks at lower nodes only is obeyed by some function
(`TreeRecursion`), from which what the two functions are at a node follows from what they are
at its children (`EvaluationRecurses`, `AscribedRecurses`). Lower is by `Height`, whence
`TreeAssumption`. `SemTypesHold` needs it for the verdict of a constant expression, which is one
the evaluation can give. `ArgumentsAlwaysMatch` needs that the type an expression's frame hands
up is `ExprType` of its node, while frames below it on the stack wait with the types of what
they have got so far, and the type tables do not change in the meantime: above an expression
there are only expressions (`ExpressionsAbove`), and those declare nothing (`ArgInv`).

**Interpreter.** `CommonLemmas` shows that wrapping lands in the range of a type and that each
computation yields values that fit. `ScopeDiscipline` is not inductive: a step may use the
frame's loop counter, operands or function, and reach a scope through a chain. **IInv** adds
exactly that: `TypeOK`; `FramesOK`, by which a frame stands at a label its node has, has a
`sub_scope` exactly between opening and freeing it, and has counters in range; and `ChainsOK`,
by which a scope's chain contains itself and otherwise only older scopes.

Some forty actions would make forty proofs of the same facts. `InterpTheorems` therefore shows
that `IInv` is kept by six **moves** that say how a step may change the stack and the scopes:
the top frame continues; it calls in its own scope or in the newest; it opens a scope; it
returns; it returns and frees the newest scope; or the process ends. In each, `Grow` says
that existing scopes keep their chains and never lose a defer. It then shows, one
lemma for each group of actions, that every action is one of the moves (`NextMoves`).

`InterpStorage` first proves `CallIsolation` from `IInv` and a stronger fact: each frame above
a call stands in the global scope or in one no older than the call's, and the chain of such
a scope has only scopes of that kind. A new call's scope has the chain of the global scope
and itself, whoever calls; a block's scope has that of the frame it stands in.

It then says what a step writes (`Effect`): it notes something about defers, takes a
slot for a name, or gives a declared name another value, in one scope, which lies in the chain
of the scope the innermost frame works in. With the isolation of calls that is
`CallersUntouched`. `Roomy`, which the three kinds of writing keep, gives `SlotsSuffice`.
`TypesKept` is about one assignment but reads the variable and writes it in two steps, between
which the right-hand side runs, with calls and all they do; `Typing` says that nothing in
between can have changed the type: a declaration in progress has its slot (`Pending`), what
runs on top of an expression is an expression or stands in a younger scope (`Nested`, which is
where the assumptions about declarations and expressions are needed), and so the first operand
of every assignment on the stack has the type the variable still has (`Reads`).

**Defers.** `DefersAreKept` is a refinement: each step opens a scope, registers a node, runs the
newest that has not run, closes a scope of which all have, or stutters (`Promised`). That the
scope a step works in is the innermost one of `DeferStack` comes from `ScopeDiscipline`. How far
a scope's defers have got depends on two frames at most, and `Tended` says it of each pair of
frames of which one has called the other: the owner of the scope, a block, a call or the
program, and a jump or a defer that stands directly in it. While no jump runs (`Alone`), the
scope is either `Fresh` (nothing has run, the mark is not set) or `Spent` (all has run and the
mark is set), and between the two only while the owner is in its loop over the defers, where the
nodes that have not run are the first `i`. While a jump runs (`Jumped`), it is the jump that is in
that loop. An owner can go on behind a jump only where nothing that follows would jump or defer
(`Harmless`), or if it is about to return; this is where `Tidy` is used, and section 3 names for
either half of it the programs that break the property without it. Deferred nodes are expressions (`Deferrable`), so that running
one neither defers nor jumps in the scope. `Tended` is claimed while the process runs: a stack
that overflows in the middle of a defer has recorded its run, of which the owner knows nothing,
and has no further step.

**Hand-over.** `ProgramsAreInterpreted` needs what no step of either stage shows: that the scope
the semantics stage leaves behind when it accepts is the one the formula `GlobalScope` reads off
the tree. `HandInv` says what the global scope holds after the first `k` statements of the
program: there is a slot for each declaration and each preloaded name, the first slot of a name
holds the zero of the type of its last declaration (`SlotsAfter`), and each type name that is no
core type stands for the first statement among them that registers it (`TableAfter`). A function is
registered before its body is processed and a variable after its value, so `k` is one more for
types than for variables while a function's body is being processed (`Made`, `Returned`). All of it holds as
long as nothing is reported; that no statement fails without a report but an `if` and a
function, whose flags are wrong (finding `ErrorFlag`), neither of which declares a variable, is
`Blameless`. A declaration in progress knows its type already (`Knows`); that this type is the
one the finished table gives, although statements behind it may register the same name again, is
because the first one counts. `GlobalScope` and the tables are then equal at the hand-over
(`TypesAreHandedOver`), that step is a stutter of `Interp`, and so is each of the semantics
stage. From there on the two instances of `Interp` in `Pipeline`, over the real variables and
over those the mapping gives, see the same state, as long as the stack is not empty: `Rooted`
says that the program's frame never leaves it. One lemma for each action shows that it is the
same action in both.

**Left to TLC.** `Terminates`, `Decides`, `ParsingEnds` and `LexingEnds` are liveness.
`Reference`, `Families` and `Grammar` have recursive operators (`AgreesWithReference`, `Spelled`,
`Conforms`, `AsReference`), and `AgreesWithReference` is for the programs described above only.
`DefersFromText` is checked on the programs of `Cases`, and would need what `DefersAreKept` needs,
for each place of a block's text.
`CarefulProgramsRun` speaks of both stages at once, in each of which it would need an invariant
that follows the other's checks through the whole tree.

## 5. Not modelled, and the plan

Done: values with floats, lexer, parser, semantics stage, interpreter, hand-over, the invariants
of the four stages, and both refinements (`Pipeline` implements `Interp`, `Interp` implements
`DeferStack`). What would come next is `CarefulProgramsRun` as a theorem: from the twelve
conditions and acceptance that the interpreter asserts and dereferences nothing wrong.

Not modelled: `printast.c` and the printing options (pure output), `mem.c` and `utils.c` (no
state), `compile` (the first stages of `interpret`, without the interpreter), reading the source
file, the copying of token texts into literals (`ast.c` allocates them and never frees them),
positions in the tree. The later stages are modelled for trees whose names are identifiers:
`parse_assign_expr` and the lists of fields and parameters accept any expression there
(`Grammar`), and a compound literal any expression for an entry (`{1, 2}`, ast.c:165-191), of
which those stages then read the wrong member of a union. A cast to a member expression is
modelled for the end it comes to (`CastUnsupported`), its names as `MemberType`.
