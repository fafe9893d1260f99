------------------------------- MODULE Reference -------------------------------
(***************************************************************************)
(* What a Prior program means, as a recursive function on its tree: an     *)
(* independent account of the control flow that Interp spells out call by  *)
(* call.  It follows what the repository says of the language: a call does *)
(* not see its caller's locals (TODO.md:36-37) and takes the values its    *)
(* arguments have for the caller; break and continue leave the block they  *)
(* stand in (TODO.md:14); a defer runs when its scope is left and return   *)
(* computes its value after that (test.pr:30); main is a function like any *)
(* other.  Nothing there says what becomes of a call that is a statement   *)
(* of its own; here it is as in interp.c:800-803, where the return of the  *)
(* callee also ends the function that makes the call.  The store           *)
(* operations are those of Interp; values that do not fit their type, and  *)
(* programs that fail, are outside this definition.                        *)
(***************************************************************************)
EXTENDS Interp

\* A machine m has the live scopes and the functions; a result adds a value
\* and the way control goes on.
Yield(m, v, brk) == [scopes |-> m.scopes, fns |-> m.fns, value |-> v, brk |-> brk]
Given(outcomes) == (CHOOSE o \in outcomes : TRUE).value
InScopes(m, ss) == [m EXCEPT !.scopes = ss]

RECURSIVE Means(_, _, _), InOrder(_, _, _), Unwind(_, _), Loop(_, _, _), Arguments(_, _, _)

\* Statements one after the other until one of them jumps.
InOrder(nodes, s, m) ==
  IF nodes = <<>> THEN Yield(m, None, "none")
  ELSE LET r == Means(Head(nodes), s, m) IN
       IF r.brk # "none" THEN r ELSE InOrder(Tail(nodes), s, r)

\* The defers of scope s, each forgotten as it is run, newest first.
Unwind(s, m) ==
  LET ds == m.scopes[s].defers IN
  IF ds = <<>> THEN m
  ELSE Unwind(s, Means(Last(ds), s, InScopes(m, [m.scopes EXCEPT ![s].defers = Front(ds)])))

\* Statements in a scope of their own, opened as the newest of m.
Scoped(nodes, m) ==
  LET s == Len(m.scopes)
      body == InOrder(nodes, s, m)
      end == Unwind(s, body) IN
  Yield(InScopes(end, Front(end.scopes)), body.value, body.brk)

Loop(n, s, m) ==
  LET cond == Means(NodeData[n].kids[1], s, m)
      body == Means(NodeData[n].kids[2], s, cond) IN
  IF ~Truth(cond.value) THEN Yield(cond, None, "none")
  ELSE CASE body.brk = "return" -> body
         [] body.brk = "break" -> Yield(body, None, "none")
         [] OTHER -> Loop(n, s, body)

\* The machine after the arguments, and their values in order.
Arguments(nodes, s, m) ==
  IF nodes = <<>> THEN [after |-> m, values |-> <<>>]
  ELSE LET r == Means(Head(nodes), s, m)
           rest == Arguments(Tail(nodes), s, r) IN
       [after |-> rest.after, values |-> <<r.value>> \o rest.values]

Bound(ss, s, params, values) ==
  [ss EXCEPT ![s].vars = [x \in Names |->
     IF \E k \in 1..Len(values) : params[k] = x
     THEN values[CHOOSE k \in 1..Len(values) : params[k] = x] ELSE @[x]]]

Function(m, v) == m.fns[v.n \div 16 - FnBase]

\* The value of a call is that of its body, and so is the way it ends, a return or not:
\* an expression takes the value alone, a call that is a statement goes on that way.
Applied(m, f, values) ==
  LET inside == InScopes(m, Bound(NewScope(m.scopes, 1), Len(m.scopes) + 1, f.params, values))
  IN Scoped(NodeData[f.body].kids, inside)

Declared(m, s, x, v) ==
  InScopes(m, scope_define_var(scope_declare_var(m.scopes, s, x), s, x, v))

Means(n, s, m) ==
  LET d == NodeData[n]
      first == Means(d.kids[1], s, m)
      second == Means(d.kids[2], s, first)
      value(r, v) == Yield(r, v, "none") IN
  CASE d.type = "INTEGER_LIT" -> value(m, [t |-> "i32", n |-> d.num])
    [] d.type = "FLOAT_LIT" -> value(m, [t |-> "f32", n |-> d.num])
    [] d.type = "IDENT_LIT" -> value(m, scope_get_var(m.scopes, s, d.name))
    [] d.type = "BIN_EXPR" ->
         value(second, Given(BinaryOutcomes(d.aux, first.value, second.value)))
    [] d.type = "UN_EXPR" -> value(first, NegateOutcome(d.aux, first.value).value)
    [] d.type = "CAST_EXPR" -> value(first, Given(Cast(first.value, ValueTypeOf(d.aux))))
    [] d.type = "ASSIGN_EXPR" ->
         LET v == Given(AssignOutcomes(d.aux, first.value, second.value)) IN
         value(InScopes(second, scope_define_var(second.scopes, s, d.name, v)), v)
    [] d.type = "CALL_EXPR" ->
         LET args == Arguments(Tail(d.kids), s, first) IN
         Applied(args.after, Function(m, first.value), args.values)
    [] d.type = "VAR_STAT" -> value(Declared(first, s, d.name, first.value), None)
    [] d.type = "FUNC_STAT" ->
         value(Declared([m EXCEPT !.fns = Append(@, [params |-> d.params, body |-> d.kids[1]])],
                        s, d.name, Address(Len(m.fns) + 1)), None)
    [] d.type = "DEFER_STAT" ->
         value(InScopes(m, scope_add_defer(m.scopes, s, d.kids[1])), None)
    [] d.type = "BLOCK" -> Scoped(d.kids, InScopes(m, NewScope(m.scopes, s)))
    [] d.type = "IF_STAT" ->
         IF Truth(first.value) THEN second
         ELSE IF TypeOf(d.kids[3]) = "NULL" THEN value(first, None)
         ELSE Means(d.kids[3], s, first)
    [] d.type = "WHILE_STAT" -> Loop(n, s, m)
    [] d.type = "RETURN_STAT" ->
         LET r == Means(d.kids[1], s, Unwind(s, m)) IN Yield(r, r.value, "return")
    [] d.type = "BREAK_STAT" -> Yield(m, None, "break")
    [] d.type = "CONTINUE_STAT" -> Yield(m, None, "continue")

Meaning(program) ==
  LET start == Yield([scopes |-> <<GlobalScope(program)>>, fns |-> <<>>], None, "none")
      loaded == InOrder(NodeData[program].kids, 1, start)
      main == Function(loaded, scope_get_var(loaded.scopes, 1, "main")) IN
  Applied(loaded, main, <<>>).scopes[1].vars

(***************************************************************************)
(* When a run ends regularly, it leaves every global variable with the     *)
(* value the program's meaning gives it.                                   *)
(***************************************************************************)
AgreesWithReference ==
  [][status' = "done" =>
       LET program == stack[1].node
           globals == {NodeData[TopLevel(program)[k]].name : k \in GlobalVars(program)}
           meaning == Meaning(program) IN
       \A x \in globals : scopes'[1].vars[x] = meaning[x]]_vars
=============================================================================
