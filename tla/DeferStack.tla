------------------------------ MODULE DeferStack ------------------------------
(***************************************************************************)
(* What defer promises, with nothing of how the interpreter keeps it:      *)
(* scopes nest; a deferred node belongs to the innermost scope; the nodes  *)
(* of a scope run newest first, each at most once; and a scope other than  *)
(* the outermost one cannot end before every node it holds has run.        *)
(***************************************************************************)
EXTENDS Integers, Sequences, SequencesExt

VARIABLE pending
\* One record per open scope, the innermost last: how many nodes it has
\* registered, and the positions of those that have run, in the order they ran.

Inner == pending[Len(pending)]
NotRun(scope) == (1..scope.registered) \ ToSet(scope.ran)

Open == pending' = Append(pending, [registered |-> 0, ran |-> <<>>])

Register == pending' = [pending EXCEPT ![Len(pending)].registered = @ + 1]

Run ==
  /\ NotRun(Inner) # {}
  /\ pending' = [pending EXCEPT ![Len(pending)].ran = Append(@, Max(NotRun(Inner)))]

Close ==
  /\ Len(pending) > 1
  /\ NotRun(Inner) = {}
  /\ pending' = Front(pending)

Init == pending = <<[registered |-> 0, ran |-> <<>>]>>
Next == Open \/ Register \/ Run \/ Close
Spec == Init /\ [][Next]_pending
=============================================================================
