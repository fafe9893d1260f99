----------------------------- MODULE InterpStorage -----------------------------
(***************************************************************************)
(* Proofs about the scopes: who reaches them, and what is stored in them,  *)
(* for every program and every depth of calls.                             *)
(***************************************************************************)
EXTENDS InterpTheorems

-----------------------------------------------------------------------------
(***************************************************************************)
(* A call is isolated from the local variables of its callers.             *)
(* CallIsolation says of two frames, a call and one above it, that the     *)
(* call's callers are out of the other's reach; a move leaves such a pair  *)
(* as it is, or puts a new frame or a new scope on top, reached from what  *)
(* the pair below already had or from the global scope.                    *)
(***************************************************************************)
\* s does not lead to the scopes below b, the global one apart.
Apart(ss, s, b) == ss[s].chain \cap (2..(b - 1)) = {}

\* The call at j hides its callers from the frame at k.
Sealed(j, k) ==
  ActiveCall(stack[j]) =>
    /\ j < k => Apart(scopes, stack[k].scope, stack[j].sub)
    /\ stack[k].sub > 0 => Apart(scopes, stack[k].sub, stack[j].sub)

LEMMA IsolationIsSealed ==
  CallIsolation <=> \A j, k \in 1..Len(stack) : j <= k => Sealed(j, k)
  BY DEF CallIsolation, Sealed, Apart, Hidden

LEMMA GlobalApart ==
  ASSUME ChainsOK, NEW b
  PROVE  Apart(scopes, 1, b)
<1>1. Len(scopes) \in Nat  BY DEF ChainsOK
<1> QED  BY <1>1 DEF ChainsOK, Apart

\* Frame k after a step is still the same call of the same function.
Inherits(k) ==
  /\ stack'[k].node = stack[k].node /\ stack'[k].scope = stack[k].scope
  /\ stack'[k].sub = stack[k].sub \/ (stack'[k].sub <= 1 /\ stack[k].sub <= 1)

ChainsKept ==
  \A s \in 1..Len(scopes) : s <= Len(scopes') => scopes'[s].chain = scopes[s].chain

\* An active call has a scope of its own.
LEMMA ActiveOwns ==
  ASSUME IInv, NEW k \in 1..Len(stack), ActiveCall(stack[k])
  PROVE  Owns(stack[k])
<1>1. Frame(stack[k], scopes, fns)  BY DEF IInv, FramesOK
<1> QED  BY <1>1 DEF Frame, SubOf, ActiveCall, Owns

LEMMA FrameNumbers ==
  ASSUME IInv, NEW k \in 1..Len(stack)
  PROVE  stack[k].scope \in 1..Len(scopes) /\ stack[k].sub \in 0..Len(scopes)
         /\ Len(stack) \in Nat /\ Len(scopes) \in Nat
<1>1. Len(stack) \in Nat /\ Len(scopes) \in Nat  BY StackFacts
<1> QED  BY <1>1 DEF IInv, ScopeDiscipline

\* Pairs of frames that were there before stay sealed.
LEMMA OldPairs ==
  ASSUME IInv, IInv', CallIsolation, ChainsKept,
         NEW j \in 1..Len(stack), NEW k \in 1..Len(stack), j <= k,
         j \in 1..Len(stack'), k \in 1..Len(stack'), Inherits(j), Inherits(k)
  PROVE  Sealed(j, k)'
<1> SUFFICES ASSUME ActiveCall(stack'[j])
             PROVE  /\ j < k => Apart(scopes', stack'[k].scope, stack'[j].sub)
                    /\ stack'[k].sub > 0 => Apart(scopes', stack'[k].sub, stack'[j].sub)
  BY DEF Sealed, Apart, ActiveCall
<1>1. /\ stack[j].sub \in 0..Len(scopes) /\ stack[k].sub \in 0..Len(scopes)
      /\ stack[k].scope \in 1..Len(scopes) /\ Len(scopes) \in Nat
  BY FrameNumbers
<1>2. /\ stack'[j].sub \in 0..Len(scopes') /\ stack'[k].sub \in 0..Len(scopes')
      /\ stack'[k].scope \in 1..Len(scopes') /\ Len(scopes') \in Nat
  <2>1. scopes' \in Seq(ScopeType)  BY DEF IInv, TypeOK
  <2>2. Len(scopes') \in Nat  BY <2>1
  <2>3. ScopeDiscipline'  BY DEF IInv
  <2> QED  BY <2>2, <2>3 DEF ScopeDiscipline
<1>3. Owns(stack'[j])
  <2>1. Frame(stack'[j], scopes', fns')  BY DEF IInv, FramesOK
  <2> QED  BY <2>1 DEF Frame, SubOf, ActiveCall, Owns
<1>4. stack'[j].sub = stack[j].sub /\ ActiveCall(stack[j])
  BY <1>1, <1>2, <1>3 DEF Inherits, Owns, ActiveCall
<1>5. Sealed(j, k)  BY IsolationIsSealed
<1>6. ASSUME j < k PROVE Apart(scopes', stack'[k].scope, stack'[j].sub)
  <2>1. Apart(scopes, stack[k].scope, stack[j].sub)  BY <1>4, <1>5, <1>6 DEF Sealed
  <2>2. scopes'[stack[k].scope].chain = scopes[stack[k].scope].chain
    BY <1>1, <1>2 DEF ChainsKept, Inherits
  <2> QED  BY <1>4, <2>1, <2>2 DEF Apart, Inherits
<1>7. ASSUME stack'[k].sub > 0 PROVE Apart(scopes', stack'[k].sub, stack'[j].sub)
  <2>1. CASE stack'[k].sub = stack[k].sub
    <3>1. Apart(scopes, stack[k].sub, stack[j].sub)  BY <1>4, <1>5, <1>7, <2>1 DEF Sealed
    <3>2. scopes'[stack[k].sub].chain = scopes[stack[k].sub].chain
      BY <1>1, <1>2, <1>7, <2>1 DEF ChainsKept
    <3> QED  BY <1>4, <2>1, <3>1, <3>2 DEF Apart
  <2>2. CASE stack'[k].sub = 1
    <3>1. Apart(scopes', 1, stack'[j].sub)
      <4>1. scopes'[1].chain \subseteq 1..1  BY <1>2, <2>2 DEF IInv, ChainsOK
      <4> QED  BY <4>1 DEF Apart
    <3> QED  BY <2>2, <3>1
  <2> QED  BY <1>1, <1>2, <1>7, <2>1, <2>2 DEF Inherits
<1> QED  BY <1>6, <1>7

\* A step that adds no frame and no scope.
LEMMA NothingNew ==
  ASSUME IInv, IInv', CallIsolation, ChainsKept, Len(stack') <= Len(stack),
         \A k \in 1..Len(stack') : Inherits(k)
  PROVE  CallIsolation'
<1>1. Len(stack) \in Nat  BY StackFacts
<1>2. Len(stack') \in Nat
  <2>1. stack' \in Seq(FrameType)  BY DEF IInv, TypeOK
  <2> QED  BY <2>1
<1>3. ASSUME NEW j \in 1..Len(stack'), NEW k \in 1..Len(stack'), j <= k
      PROVE  Sealed(j, k)'
  BY <1>1, <1>2, <1>3, OldPairs
<1>4. (CallIsolation <=> \A j, k \in 1..Len(stack) : j <= k => Sealed(j, k))'
  BY IsolationIsSealed, PTL
<1> QED  BY <1>3, <1>4

LEMMA GrowKeepsChains ==
  ASSUME Grow
  PROVE  ChainsKept
  BY DEF Grow, ChainsKept

LEMMA ReplacedInherits ==
  ASSUME IInv, NEW f, Continues(f), NEW k \in 1..Len(stack)
  PROVE  /\ Replaced(f)[k].node = stack[k].node
         /\ Replaced(f)[k].scope = stack[k].scope
         /\ \/ Replaced(f)[k].sub = stack[k].sub
            \/ Replaced(f)[k].sub <= 1 /\ stack[k].sub <= 1
<1>1. Len(stack) \in Nat \ {0} /\ Top = stack[Len(stack)] /\ stack \in Seq(FrameType)
  BY StackFacts
<1>2. Replaced(f)[k] = IF k = Len(stack) THEN f ELSE stack[k]  BY <1>1 DEF Replaced
<1> QED  BY <1>1, <1>2 DEF Continues

-----------------------------------------------------------------------------
(***************************************************************************)
(* The six moves.                                                          *)
(***************************************************************************)
LEMMA ResumesIsolated ==
  ASSUME IInv, IInv', CallIsolation, NEW f, Resumes(f)
  PROVE  CallIsolation'
<1>1. Grow /\ Continues(f) /\ stack' = Replaced(f)  BY DEF Resumes
<1>2. Len(stack') = Len(stack)  BY <1>1, ReplacedTop
<1>3. \A k \in 1..Len(stack') : Inherits(k)  BY <1>1, <1>2, ReplacedInherits DEF Inherits
<1>4. Len(stack) \in Nat  BY StackFacts
<1> QED  BY <1>1, <1>2, <1>3, <1>4, GrowKeepsChains, NothingNew

LEMMA StopsIsolated ==
  ASSUME IInv, IInv', CallIsolation, Stops
  PROVE  CallIsolation'
<1>1. Grow /\ stack' = stack  BY DEF Stops
<1>2. \A k \in 1..Len(stack') : Inherits(k)  BY <1>1 DEF Inherits
<1>3. Len(stack) \in Nat  BY StackFacts
<1> QED  BY <1>1, <1>2, <1>3, GrowKeepsChains, NothingNew

LEMMA PopInherits ==
  ASSUME IInv, stack' = Front(stack)
  PROVE  Len(stack') <= Len(stack) /\ \A k \in 1..Len(stack') : Inherits(k)
<1>1. stack \in Seq(FrameType) /\ Len(stack) \in Nat \ {0}  BY StackFacts
<1>2. Len(stack') = Len(stack) - 1 /\ \A k \in 1..(Len(stack) - 1) : stack'[k] = stack[k]
  BY <1>1, FrontOfSeq
<1> QED  BY <1>1, <1>2 DEF Inherits

LEMMA FinishesIsolated ==
  ASSUME IInv, IInv', CallIsolation, Finishes
  PROVE  CallIsolation'
<1>1. Grow /\ stack' = Front(stack)  BY DEF Finishes
<1> QED  BY <1>1, PopInherits, GrowKeepsChains, NothingNew

LEMMA ClosesIsolated ==
  ASSUME IInv, IInv', CallIsolation, Closes
  PROVE  CallIsolation'
<1>1. scopes' = Front(scopes) /\ stack' = Front(stack)  BY DEF Closes
<1>2. ChainsKept
  <2>1. scopes \in Seq(ScopeType) /\ Len(scopes) \in Nat \ {0}  BY StackFacts
  <2>2. Len(scopes') = Len(scopes) - 1 /\ \A s \in 1..(Len(scopes) - 1) : scopes'[s] = scopes[s]
    BY <1>1, <2>1, FrontOfSeq
  <2> QED  BY <2>1, <2>2 DEF ChainsKept
<1> QED  BY <1>1, <1>2, PopInherits, NothingNew

\* A step that puts one frame on top: the frames below inherit.
LEMMA EvaluatesIsolated ==
  ASSUME IInv, IInv', CallIsolation, NEW f, NEW n, NEW s, Evaluates(f, n, s)
  PROVE  CallIsolation'
<1> DEFINE N == Len(stack)
<1>1. /\ Grow /\ Continues(f) /\ s \in {1, Working} /\ s \in 1..Len(scopes) /\ n \in Nodes
      /\ stack' = Append(Replaced(f), NewFrame(n, s))
  BY DEF Evaluates
<1>2. N \in Nat \ {0} /\ Top = stack[N] /\ Len(scopes) \in Nat
  BY StackFacts
<1>3. Replaced(f) \in Seq(FrameType) /\ Len(Replaced(f)) = N
  BY <1>1, ReplacedTop
<1>4. NewFrame(n, s) \in FrameType /\ NewFrame(n, s).scope = s /\ NewFrame(n, s).sub = 0
  <2>1. s \in Nat  BY <1>1, <1>2
  <2> QED  BY <1>1, <2>1, NewFrameFacts
<1>5. /\ Len(stack') = N + 1 /\ stack'[N + 1].scope = s /\ stack'[N + 1].sub = 0
      /\ \A k \in 1..N : stack'[k] = Replaced(f)[k]
  BY <1>1, <1>3, <1>4, AppendProperties
<1>6. \A k \in 1..N : Inherits(k)
  BY <1>1, <1>5, ReplacedInherits DEF Inherits
<1>7. ChainsKept /\ Len(scopes') = Len(scopes)  BY <1>1, GrowKeepsChains DEF Grow
<1>8. ASSUME NEW j \in 1..N, ActiveCall(stack'[j])
      PROVE  Apart(scopes', s, stack'[j].sub)
  <2>1. Owns(stack'[j])
    <3>1. Frame(stack'[j], scopes', fns')  BY <1>2, <1>5 DEF IInv, FramesOK
    <3> QED  BY <1>8, <3>1 DEF Frame, SubOf, ActiveCall, Owns
  <2>2. stack[j].sub \in 0..Len(scopes)  BY FrameNumbers
  <2>3. stack'[j].sub \in 0..Len(scopes)  BY <1>2, <1>5, <1>7 DEF IInv, ScopeDiscipline
  <2>4. stack'[j].sub = stack[j].sub /\ ActiveCall(stack[j])
    <3>1. Inherits(j)  BY <1>6
    <3>2. stack'[j].sub > 1  BY <2>1 DEF Owns
    <3>3. stack'[j].sub = stack[j].sub  BY <2>2, <2>3, <3>1, <3>2 DEF Inherits
    <3>4. stack'[j].node = stack[j].node  BY <3>1 DEF Inherits
    <3> QED  BY <1>8, <3>3, <3>4 DEF ActiveCall
  <2>5. Apart(scopes, s, stack[j].sub)
    <3>1. CASE s = 1
      BY <3>1, GlobalApart DEF IInv
    <3>2. CASE s = Working
      <4>1. Sealed(j, N)  BY <1>2, IsolationIsSealed
      <4>2. CASE Top.sub > 0
        BY <1>2, <2>4, <3>2, <4>1, <4>2 DEF Sealed, Working
      <4>3. CASE ~(Top.sub > 0)
        <5>1. j # N  BY <1>2, <2>4, <4>3 DEF ActiveCall
        <5>2. j < N  BY <1>2, <5>1
        <5> QED  BY <1>2, <2>4, <3>2, <4>1, <4>3, <5>2 DEF Sealed, Working
      <4> QED  BY <4>2, <4>3
    <3> QED  BY <1>1, <3>1, <3>2
  <2>6. scopes'[s].chain = scopes[s].chain  BY <1>1, <1>7 DEF ChainsKept
  <2> QED  BY <2>4, <2>5, <2>6 DEF Apart
<1>9. ASSUME NEW j \in 1..Len(stack'), NEW k \in 1..Len(stack'), j <= k
      PROVE  Sealed(j, k)'
  <2>1. CASE k <= N
    <3>1. j \in 1..N /\ k \in 1..N  BY <1>2, <1>5, <1>9, <2>1
    <3> QED  BY <1>6, <1>7, <1>9, <3>1, OldPairs
  <2>2. CASE k = N + 1
    <3>1. j < k => j \in 1..N  BY <1>2, <1>5, <2>2
    <3>2. ~(stack'[k].sub > 0) /\ stack'[k].scope = s  BY <1>5, <2>2
    <3> QED  BY <1>8, <3>1, <3>2 DEF Sealed, Apart, ActiveCall
  <2> QED  BY <1>2, <1>5, <2>1, <2>2
<1>10. (CallIsolation <=> \A j, k \in 1..Len(stack) : j <= k => Sealed(j, k))'
  BY IsolationIsSealed, PTL
<1> QED  BY <1>9, <1>10

\* A step that opens a scope for the innermost frame.
LEMMA OpensIsolated ==
  ASSUME IInv, IInv', CallIsolation, NEW f, NEW p, Opens(f, p)
  PROVE  CallIsolation'
<1> DEFINE N == Len(stack)
<1> DEFINE s == Len(scopes) + 1
<1>1. /\ p = (IF TypeOf(Top.node) = "CALL_EXPR" THEN 1 ELSE Top.scope)
      /\ p \in 1..Len(scopes) /\ scopes' = NewScope(scopes, p)
      /\ f \in FrameType /\ f.node = Top.node /\ f.scope = Top.scope /\ f.sub = s
      /\ stack' = Replaced(f)
  BY DEF Opens
<1>2. N \in Nat \ {0} /\ Top = stack[N] /\ Len(scopes) \in Nat \ {0} /\ stack \in Seq(FrameType)
  BY StackFacts
<1>3. /\ Len(stack') = N /\ stack'[N] = f
      /\ \A k \in 1..N : k # N => stack'[k] = stack[k]
  BY <1>1, <1>2 DEF Replaced
<1>4. /\ Len(scopes') = s /\ \A k \in 1..Len(scopes) : scopes'[k] = scopes[k]
      /\ scopes'[s] = create_scope(scopes[p].chain \cup {s})
  BY <1>1, NewScopeFacts
<1>5. scopes'[s].chain = scopes[p].chain \cup {s}  BY <1>4 DEF create_scope
<1>6. ChainsKept
  <2>1. \A k \in 1..Len(scopes) : scopes'[k].chain = scopes[k].chain  BY <1>4
  <2> QED  BY <2>1 DEF ChainsKept
<1>7. \A k \in 1..N : k # N => Inherits(k)  BY <1>3 DEF Inherits
<1>8. ASSUME NEW j \in 1..N, ActiveCall(stack'[j])
      PROVE  /\ j < N => Apart(scopes', stack'[N].scope, stack'[j].sub)
             /\ Apart(scopes', s, stack'[j].sub)
  <2>1. CASE j = N
    <3>1. TypeOf(Top.node) = "CALL_EXPR" /\ p = 1  BY <1>1, <1>3, <1>8, <2>1 DEF ActiveCall
    <3>2. Apart(scopes, 1, s)  BY GlobalApart DEF IInv
    <3>3. Apart(scopes', s, s)
      <4>1. s \notin 2..(s - 1)  BY <1>2
      <4> HIDE DEF s
      <4> QED  BY <1>5, <3>1, <3>2, <4>1 DEF Apart
    <3> QED  BY <1>1, <1>2, <1>3, <2>1, <3>3
  <2>2. CASE j # N
    <3>1. j < N /\ stack'[j] = stack[j]  BY <1>2, <1>3, <2>2
    <3>2. Sealed(j, N)  BY <1>2, <3>1, IsolationIsSealed
    <3>3. Apart(scopes, Top.scope, stack[j].sub)  BY <1>2, <1>8, <3>1, <3>2 DEF Sealed
    <3>4. Apart(scopes, p, stack[j].sub)
      <4>1. Apart(scopes, 1, stack[j].sub)  BY GlobalApart DEF IInv
      <4> QED  BY <1>1, <3>3, <4>1
    <3>5. s \notin 2..(stack[j].sub - 1)
      <4>1. stack[j].sub \in 0..Len(scopes)  BY FrameNumbers
      <4> QED  BY <1>2, <4>1
    <3>6. scopes'[Top.scope].chain = scopes[Top.scope].chain
      <4>1. Top.scope \in 1..Len(scopes)  BY StackFacts
      <4> QED  BY <1>4, <4>1
    <3> HIDE DEF s
    <3>7. Apart(scopes', s, stack[j].sub)  BY <1>5, <3>4, <3>5 DEF Apart
    <3>8. Apart(scopes', Top.scope, stack[j].sub)  BY <3>3, <3>6 DEF Apart
    <3> QED  BY <1>1, <1>3, <3>1, <3>7, <3>8
  <2> QED  BY <2>1, <2>2
<1>9. ASSUME NEW j \in 1..Len(stack'), NEW k \in 1..Len(stack'), j <= k
      PROVE  Sealed(j, k)'
  <2>0. j \in 1..N /\ k \in 1..N  BY <1>3
  <2>1. CASE k # N
    <3>1. j # N  BY <1>2, <1>9, <2>0, <2>1
    <3> QED  BY <1>6, <1>7, <1>9, <2>0, <2>1, <3>1, OldPairs
  <2>2. CASE k = N
    <3>1. stack'[k].sub = s  BY <1>1, <1>3, <2>2
    <3> HIDE DEF s
    <3> QED  BY <1>8, <2>0, <2>2, <3>1 DEF Sealed, Apart, ActiveCall
  <2> QED  BY <2>1, <2>2
<1>10. (CallIsolation <=> \A j, k \in 1..Len(stack) : j <= k => Sealed(j, k))'
  BY IsolationIsSealed, PTL
<1> QED  BY <1>9, <1>10

-----------------------------------------------------------------------------
LEMMA NextIsolated == IInv /\ CallIsolation /\ [Next]_vars => IInv' /\ CallIsolation'
<1>1. ASSUME IInv, CallIsolation, Next PROVE IInv' /\ CallIsolation'
  <2>1. IInv' /\ Move  BY <1>1, NextMoves, MoveKeeps
  <2> QED
    BY <1>1, <2>1, ResumesIsolated, StopsIsolated, FinishesIsolated, ClosesIsolated,
       EvaluatesIsolated, OpensIsolated DEF Move
<1>2. ASSUME IInv, CallIsolation, UNCHANGED vars PROVE IInv' /\ CallIsolation'
  <2>1. IInv'  BY <1>2, NextIInv
  <2> QED  BY <1>2, <2>1 DEF vars, CallIsolation, ActiveCall, Hidden
<1> QED  BY <1>1, <1>2

LEMMA InitIsolated == Init => CallIsolation
<1> SUFFICES ASSUME Init PROVE CallIsolation  OBVIOUS
<1>1. PICK program \in Programs : stack = <<NewFrame(program, 1)>>  BY DEF Init
<1>2. program \in Nodes  BY ProgramsAssumption
<1>3. stack[1].sub = 0 /\ Len(stack) = 1  BY <1>1, <1>2, NewFrameFacts
<1> QED  BY <1>3 DEF CallIsolation, ActiveCall

(***************************************************************************)
(* TODO.md:36 "Isolate function call scope to the global state": in every  *)
(* run of every program, nothing executed for a call can find, and so read *)
(* or assign, a local variable of the functions and blocks that were being *)
(* executed when the call began.                                           *)
(***************************************************************************)
THEOREM CallsAreIsolated == Spec => []CallIsolation
<1>1. Init => IInv /\ CallIsolation  BY InitIInv, InitIsolated
<1>2. IInv /\ CallIsolation /\ [Next]_vars => IInv' /\ CallIsolation'  BY NextIsolated
<1> QED  BY <1>1, <1>2, PTL DEF Spec

-----------------------------------------------------------------------------
(***************************************************************************)
(* What is stored.  A step writes to one scope at most, one that the       *)
(* innermost frame reaches: it notes something about defers there, takes a *)
(* slot for a name, or gives a declared name another value.  Hence the     *)
(* arrays of a scope keep within their limits, a step made for a call      *)
(* leaves the scopes of the callers alone, and assignments keep the types  *)
(* of variables.                                                           *)
(***************************************************************************)

(***************************************************************************)
(* What a step does to the scopes.                                         *)
(***************************************************************************)
OnlyAt(d) ==
  /\ d \in 1..Len(scopes) /\ d \in scopes[Working].chain
  /\ Len(scopes') = Len(scopes)
  /\ \A s \in 1..Len(scopes) : s # d => scopes'[s] = scopes[s]

Notes(d) ==
  /\ OnlyAt(d)
  /\ scopes'[d].vars = scopes[d].vars /\ scopes'[d].varcount = scopes[d].varcount
  /\ \/ scopes'[d].defers = scopes[d].defers
     \/ /\ Len(scopes[d].defers) # MaxDefers
        /\ Len(scopes'[d].defers) = Len(scopes[d].defers) + 1

Takes(d, x, v) ==
  /\ OnlyAt(d)
  /\ x \in Names /\ v \in Value
  /\ scopes'[d].vars = [scopes[d].vars EXCEPT ![x] = v]
  /\ scopes'[d].defers = scopes[d].defers

NewSlot(x, v) ==
  /\ Takes(Working, x, v) /\ Declares(x)
  /\ scopes[Working].varcount # MaxVars
  /\ scopes'[Working].varcount = scopes[Working].varcount + 1

\* By the declaration itself, or by an assignment, which keeps the type.
Redefines(d, x, v) ==
  /\ Takes(d, x, v)
  /\ scopes[d].vars[x] # Undeclared /\ scopes'[d].varcount = scopes[d].varcount
  /\ x = This.name
  /\ \/ This.type = "VAR_STAT" /\ d = Top.scope
     \/ /\ This.type = "ASSIGN_EXPR" /\ d = Nearest(scopes, Top.scope, x)
        /\ Top.vals # <<>> /\ v.t = Top.vals[1].t

Effect ==
  \/ scopes' = scopes
  \/ \E d : Notes(d)
  \/ \E x, v : NewSlot(x, v)
  \/ \E d, x, v : Redefines(d, x, v)
  \/ \E p \in 1..Len(scopes) : scopes' = NewScope(scopes, p)
  \/ scopes' = Front(scopes) /\ Top.sub > 1

-----------------------------------------------------------------------------
(***************************************************************************)
(* The operations on scopes.                                               *)
(***************************************************************************)
LEMMA WithFacts ==
  ASSUME NEW ss \in Seq(ScopeType), NEW d \in 1..Len(ss), NEW sc
  PROVE  /\ Len(With(ss, d, sc)) = Len(ss) /\ With(ss, d, sc)[d] = sc
         /\ \A s \in 1..Len(ss) : s # d => With(ss, d, sc)[s] = ss[s]
  BY DEF With

\* A name declared in a scope itself is found there first.
LEMMA NearestOwn ==
  ASSUME NEW ss, NEW s \in Nat, NEW x,
         s \in ss[s].chain, ss[s].chain \subseteq 1..s, ss[s].vars[x] # Undeclared
  PROVE  Nearest(ss, s, x) = s
<1> DEFINE S == Declaring(ss, s, x)
<1>1. s \in S /\ \A y \in S : y \in 1..s  BY DEF Declaring
<1>2. \E m \in S : \A y \in S : m >= y  BY <1>1
<1> HIDE DEF S
<1>3. Max(S) \in S /\ \A y \in S : Max(S) >= y  BY <1>2 DEF Max
<1>4. Max(S) \in 1..s /\ Max(S) >= s  BY <1>1, <1>3
<1>5. Max(S) = s  BY <1>4
<1> QED  BY <1>5 DEF Nearest, S

LEMMA DeclareFacts ==
  ASSUME NEW ss \in Seq(ScopeType), NEW s \in 1..Len(ss), NEW x \in Names
  PROVE  LET tt == scope_declare_var(ss, s, x) IN
         /\ Len(tt) = Len(ss) /\ tt[s].chain = ss[s].chain
         /\ \A k \in 1..Len(ss) : k # s => tt[k] = ss[k]
         /\ \E v \in Value : tt[s].vars = [ss[s].vars EXCEPT ![x] = v]
         /\ tt[s].vars[x] # Undeclared
         /\ tt[s].varcount = ss[s].varcount + 1 /\ tt[s].defers = ss[s].defers
<1> DEFINE w == IF ss[s].vars[x] = Undeclared THEN None ELSE ss[s].vars[x]
<1> DEFINE vs == [ss[s].vars EXCEPT ![x] = w]
<1> DEFINE c == ss[s].varcount + 1
<1> DEFINE sc == [ss[s] EXCEPT !.vars = vs, !.varcount = c]
<1>1. ss[s] \in ScopeType  OBVIOUS
<1>2. ss[s].vars \in [Names -> Value \cup {Undeclared}]  BY <1>1 DEF ScopeType
<1>3. None \in Value  BY ZeroFits DEF None, ValueTypes
<1>4. w \in Value /\ w # Undeclared
  <2>1. ss[s].vars[x] \in Value \cup {Undeclared}  BY <1>2
  <2>2. None # Undeclared  BY DEF None, Zero, Undeclared
  <2> QED  BY <1>3, <2>1, <2>2
<1>5. scope_declare_var(ss, s, x) = With(ss, s, sc)
  BY <1>1 DEF scope_declare_var, ScopeType, With
<1>6. vs[x] = w  BY <1>2
<1> HIDE DEF w, c
<1>7. \E v \in Value : vs = [ss[s].vars EXCEPT ![x] = v]  BY <1>4
<1> HIDE DEF vs
<1>8. sc.vars = vs /\ sc.varcount = c /\ sc.defers = ss[s].defers /\ sc.chain = ss[s].chain
  BY <1>1 DEF ScopeType
<1> HIDE DEF sc
<1>9. /\ Len(With(ss, s, sc)) = Len(ss) /\ With(ss, s, sc)[s] = sc
      /\ \A k \in 1..Len(ss) : k # s => With(ss, s, sc)[k] = ss[k]
  BY WithFacts
<1> QED  BY <1>4, <1>5, <1>6, <1>7, <1>8, <1>9 DEF c

LEMMA DefineFacts ==
  ASSUME NEW ss \in Seq(ScopeType), NEW s, NEW x \in Names, NEW v,
         Nearest(ss, s, x) \in 1..Len(ss)
  PROVE  LET tt == scope_define_var(ss, s, x, v)
             d == Nearest(ss, s, x) IN
         /\ Len(tt) = Len(ss) /\ tt[d].chain = ss[d].chain
         /\ \A k \in 1..Len(ss) : k # d => tt[k] = ss[k]
         /\ tt[d].vars = [ss[d].vars EXCEPT ![x] = v]
         /\ tt[d].varcount = ss[d].varcount /\ tt[d].defers = ss[d].defers
<1> DEFINE d == Nearest(ss, s, x)
<1> DEFINE vs == [ss[d].vars EXCEPT ![x] = v]
<1> DEFINE sc == [ss[d] EXCEPT !.vars = vs]
<1>1. scope_define_var(ss, s, x, v) = With(ss, d, sc)
  BY Zenon DEF scope_define_var, With
<1>2. d \in 1..Len(ss)  OBVIOUS
<1> HIDE DEF d
<1>3. ss[d] \in ScopeType  BY <1>2
<1> HIDE DEF vs
<1>4. sc.vars = vs /\ sc.varcount = ss[d].varcount /\ sc.defers = ss[d].defers
      /\ sc.chain = ss[d].chain
  BY <1>3 DEF ScopeType
<1> HIDE DEF sc
<1>5. /\ Len(With(ss, d, sc)) = Len(ss) /\ With(ss, d, sc)[d] = sc
      /\ \A k \in 1..Len(ss) : k # d => With(ss, d, sc)[k] = ss[k]
  BY <1>2, WithFacts
<1> QED  BY <1>1, <1>4, <1>5 DEF d, vs

\* A parameter or a function takes its slot and its value in one step.
LEMMA DeclareDefineFacts ==
  ASSUME IInv, NEW s \in 1..Len(scopes), NEW x \in Names, NEW v \in Value
  PROVE  LET uu == scope_define_var(scope_declare_var(scopes, s, x), s, x, v) IN
         /\ Len(uu) = Len(scopes)
         /\ \A k \in 1..Len(scopes) : k # s => uu[k] = scopes[k]
         /\ uu[s].vars = [scopes[s].vars EXCEPT ![x] = v]
         /\ uu[s].varcount = scopes[s].varcount + 1 /\ uu[s].defers = scopes[s].defers
<1> DEFINE tt == scope_declare_var(scopes, s, x)
<1>0. scopes \in Seq(ScopeType)  BY StackFacts
<1>1. /\ Len(tt) = Len(scopes) /\ tt[s].chain = scopes[s].chain
      /\ \A k \in 1..Len(scopes) : k # s => tt[k] = scopes[k]
      /\ \E w \in Value : tt[s].vars = [scopes[s].vars EXCEPT ![x] = w]
      /\ tt[s].vars[x] # Undeclared
      /\ tt[s].varcount = scopes[s].varcount + 1 /\ tt[s].defers = scopes[s].defers
  BY <1>0, DeclareFacts
<1>2. tt \in Seq(ScopeType)  BY <1>0, DeclareEvolves DEF Evolved
<1> HIDE DEF tt
<1>3. s \in scopes[s].chain /\ scopes[s].chain \subseteq 1..s  BY ScopeFacts
<1>4. Nearest(tt, s, x) = s
  <2>1. s \in Nat /\ s \in tt[s].chain /\ tt[s].chain \subseteq 1..s  BY <1>1, <1>3
  <2>2. tt[s].vars[x] # Undeclared  BY <1>1
  <2> QED  BY <2>1, <2>2, NearestOwn
<1> DEFINE uu == scope_define_var(tt, s, x, v)
<1>5. /\ Len(uu) = Len(tt)
      /\ \A k \in 1..Len(tt) : k # s => uu[k] = tt[k]
      /\ uu[s].vars = [tt[s].vars EXCEPT ![x] = v]
      /\ uu[s].varcount = tt[s].varcount /\ uu[s].defers = tt[s].defers
  BY <1>1, <1>2, <1>4, DefineFacts
<1> HIDE DEF uu
<1>6. [tt[s].vars EXCEPT ![x] = v] = [scopes[s].vars EXCEPT ![x] = v]
  <2>1. scopes[s].vars \in [Names -> Value \cup {Undeclared}]  BY ScopeFacts
  <2> QED  BY <1>1, <2>1
<1> QED  BY <1>1, <1>5, <1>6 DEF uu, tt

-----------------------------------------------------------------------------
(***************************************************************************)
(* Every action has the effect.  For a declaration under way this needs    *)
(* that its name has a slot: the code asserts it where it defines it.      *)
(***************************************************************************)
Pending ==
  \A j \in 1..Len(stack) :
    TypeOf(stack[j].node) = "VAR_STAT" /\ stack[j].pc # "enter" =>
      scopes[stack[j].scope].vars[NodeData[stack[j].node].name] # Undeclared

\* Where an action that has no sub_scope, or has one, writes.
LEMMA WorkingScope ==
  ASSUME IInv
  PROVE  /\ Working \in 1..Len(scopes) /\ Working \in scopes[Working].chain
         /\ Top.sub = 0 => Working = Top.scope
         /\ Top.sub > 0 => Working = Top.sub
<1>1. Top.scope \in 1..Len(scopes) /\ Top.sub \in 0..Len(scopes) /\ Len(scopes) \in Nat
  BY StackFacts DEF Frame
<1>2. Working \in 1..Len(scopes)  BY <1>1 DEF Working
<1>3. Working \in scopes[Working].chain  BY <1>2, ScopeFacts
<1> QED  BY <1>1, <1>2, <1>3 DEF Working

LEMMA AssignEffect ==
  ASSUME IInv, evaluate_assign_expr
  PROVE  Effect
<1> DEFINE x == This.name
<1>1. /\ Top.node \in Nodes /\ Top.scope \in 1..Len(scopes)
      /\ This = NodeData[Top.node] /\ This.type = TypeOf(Top.node) /\ scopes \in Seq(ScopeType)
  BY StackFacts
<1>2. This.type = "ASSIGN_EXPR" /\ Operands = Len(This.kids)
  BY DEF evaluate_assign_expr, Complete, At
<1>3. Len(Top.vals) = 2 /\ Top.vals # <<>>
  <2>1. Arity("ASSIGN_EXPR", Len(This.kids))  BY <1>1, <1>2, NodeFacts
  <2>2. Len(Top.vals) = 2  BY <1>2, <2>1 DEF Arity, Operands
  <2> QED  BY <2>2
<1>4. Top.vals[1] \in Value /\ Top.vals[2] \in Value /\ This.aux \in AssignOps
  <2>1. This.aux \in AssignOps  BY <1>1, <1>2, NodesAssumption
  <2> QED  BY <1>2, <2>1, CompleteOperands DEF evaluate_assign_expr, Operations
<1>5. PICK o \in AssignOutcomes(This.aux, Top.vals[1], Top.vals[2]) :
          IF o.fault # "none" THEN Fail(o.fault)
          ELSE IF Declaring(scopes, Top.scope, x) = {} THEN Fail("abort")
          ELSE /\ scopes' = scope_define_var(scopes, Top.scope, x, o.value)
               /\ Finish(Result(o.value, "none"))
               /\ UNCHANGED fns
  BY DEF evaluate_assign_expr
<1>6. CASE scopes' = scopes  BY <1>6 DEF Effect
<1>7. CASE /\ o.fault = "none" /\ Declaring(scopes, Top.scope, x) # {}
           /\ scopes' = scope_define_var(scopes, Top.scope, x, o.value)
  <2> DEFINE d == Nearest(scopes, Top.scope, x)
  <2>1. x \in Names  BY <1>1, NodeFacts
  <2>2. d \in 1..Len(scopes) /\ d \in scopes[Top.scope].chain /\ scopes[d].vars[x] # Undeclared
    BY <1>1, <1>7, <2>1, NearestDeclares
  <2>3. o.value \in Value /\ o.value.t = Top.vals[1].t
    BY <1>4, <1>5, <1>7, AssignYields DEF Yields, Outcome
  <2>4. /\ Len(scopes') = Len(scopes)
        /\ \A k \in 1..Len(scopes) : k # d => scopes'[k] = scopes[k]
        /\ scopes'[d].vars = [scopes[d].vars EXCEPT ![x] = o.value]
        /\ scopes'[d].varcount = scopes[d].varcount /\ scopes'[d].defers = scopes[d].defers
    <3>1. scopes \in Seq(ScopeType)  BY <1>1
    <3> QED  BY <1>7, <2>1, <2>2, <3>1, DefineFacts, SMTT(40)
  <2>5. Top.sub = 0  BY <1>2, NoSubScope
  <2>6. Working = Top.scope  BY <2>5, WorkingScope
  <2>7. Takes(d, x, o.value)
    <3> HIDE DEF d
    <3> QED  BY <2>1, <2>2, <2>3, <2>4, <2>6 DEF Takes, OnlyAt
  <2>8. Redefines(d, x, o.value)
    BY <1>2, <1>3, <2>2, <2>3, <2>4, <2>7 DEF Redefines
  <2> QED  BY <2>8 DEF Effect
<1> QED  BY <1>5, <1>6, <1>7 DEF Fail

LEMMA DeclareSlot ==
  ASSUME IInv, NEW s \in 1..Len(scopes), s = Working, NEW x \in Names, Declares(x),
         ~ScopeIsFull(scopes, s), scopes' = scope_declare_var(scopes, s, x)
  PROVE  \E v : NewSlot(x, v)
<1> DEFINE tt == scope_declare_var(scopes, s, x)
<1>1. scopes \in Seq(ScopeType) /\ s \in scopes[s].chain  BY StackFacts, ScopeFacts
<1>2. /\ Len(tt) = Len(scopes) /\ tt[s].chain = scopes[s].chain
      /\ \A k \in 1..Len(scopes) : k # s => tt[k] = scopes[k]
      /\ \E v \in Value : tt[s].vars = [scopes[s].vars EXCEPT ![x] = v]
      /\ tt[s].vars[x] # Undeclared
      /\ tt[s].varcount = scopes[s].varcount + 1 /\ tt[s].defers = scopes[s].defers
  BY <1>1, DeclareFacts
<1>3. scopes' = tt  OBVIOUS
<1> HIDE DEF tt
<1>4. PICK v \in Value : tt[s].vars = [scopes[s].vars EXCEPT ![x] = v]  BY <1>2
<1>5. Takes(s, x, v)  BY <1>1, <1>2, <1>3, <1>4 DEF Takes, OnlyAt
<1>6. NewSlot(x, v)  BY <1>2, <1>3, <1>5 DEF NewSlot, ScopeIsFull
<1> QED  BY <1>6

LEMMA DefineSlot ==
  ASSUME IInv, NEW s \in 1..Len(scopes), s = Working, NEW x \in Names, NEW v \in Value,
         Declares(x), ~ScopeIsFull(scopes, s),
         scopes' = scope_define_var(scope_declare_var(scopes, s, x), s, x, v)
  PROVE  NewSlot(x, v)
<1>1. /\ Len(scopes') = Len(scopes)
      /\ \A k \in 1..Len(scopes) : k # s => scopes'[k] = scopes[k]
      /\ scopes'[s].vars = [scopes[s].vars EXCEPT ![x] = v]
      /\ scopes'[s].varcount = scopes[s].varcount + 1
      /\ scopes'[s].defers = scopes[s].defers
  BY DeclareDefineFacts
<1>2. s \in scopes[s].chain  BY ScopeFacts
<1>3. Takes(s, x, v)  BY <1>1, <1>2 DEF Takes, OnlyAt
<1> QED  BY <1>1, <1>3 DEF NewSlot, ScopeIsFull

LEMMA VarDeclareEffect ==
  ASSUME IInv, VarDeclare
  PROVE  \/ stack' = stack /\ scopes' = scopes
         \/ \E v : NewSlot(This.name, v)
<1>1. Top.node \in Nodes /\ Top.scope \in 1..Len(scopes) /\ This = NodeData[Top.node]
  BY StackFacts
<1>2. This.type = "VAR_STAT" /\ This.name \in Names  BY <1>1, NodeFacts DEF VarDeclare, At
<1>3. \/ \E how : Fail(how)
      \/ /\ ~ScopeIsFull(scopes, Top.scope)
         /\ scopes' = scope_declare_var(scopes, Top.scope, This.name)
  BY Zenon DEF VarDeclare
<1>4. Working = Top.scope  BY <1>2, NoSubScope, WorkingScope
<1>5. Declares(This.name)  BY <1>2 DEF Declares
<1> QED  BY <1>1, <1>2, <1>3, <1>4, <1>5, DeclareSlot DEF Fail

\* The end of a declaration.
LEMMA DefineEffect ==
  ASSUME IInv, Pending, NEW v \in Value,
         This.type = "VAR_STAT", Top.pc # "enter",
         scopes' = scope_define_var(scopes, Top.scope, This.name, v)
  PROVE  Effect
<1> DEFINE x == This.name
<1> DEFINE d == Top.scope
<1>1. /\ Top.node \in Nodes /\ d \in 1..Len(scopes) /\ This = NodeData[Top.node]
      /\ This.type = TypeOf(Top.node) /\ scopes \in Seq(ScopeType)
      /\ Len(stack) \in Nat \ {0} /\ Top = stack[Len(stack)] /\ Len(scopes) \in Nat
  BY StackFacts
<1>2. x \in Names  BY <1>1, NodeFacts
<1>3. scopes[d].vars[x] # Undeclared
  <2>1. Len(stack) \in 1..Len(stack)  BY <1>1
  <2>2. TypeOf(stack[Len(stack)].node) = "VAR_STAT" /\ stack[Len(stack)].pc # "enter"
    BY <1>1
  <2>3. scopes[stack[Len(stack)].scope].vars[NodeData[stack[Len(stack)].node].name] # Undeclared
    BY <2>1, <2>2 DEF Pending
  <2> QED  BY <1>1, <2>3
<1>4. d \in scopes[d].chain /\ scopes[d].chain \subseteq 1..d  BY <1>1, ScopeFacts
<1> HIDE DEF x
<1>5. Nearest(scopes, d, x) = d  BY <1>1, <1>3, <1>4, NearestOwn
<1>6. scopes' = scope_define_var(scopes, d, x, v)  BY DEF x
<1>7. /\ Len(scopes') = Len(scopes)
      /\ \A k \in 1..Len(scopes) : k # d => scopes'[k] = scopes[k]
      /\ scopes'[d].vars = [scopes[d].vars EXCEPT ![x] = v]
      /\ scopes'[d].varcount = scopes[d].varcount /\ scopes'[d].defers = scopes[d].defers
  <2>1. scopes \in Seq(ScopeType) /\ d \in 1..Len(scopes)  BY <1>1
  <2> HIDE DEF d
  <2> QED  BY <1>2, <1>5, <1>6, <2>1, DefineFacts, SMTT(40)
<1>8. Working = d  BY NoSubScope, WorkingScope
<1>9. Takes(d, x, v)  BY <1>1, <1>2, <1>4, <1>7, <1>8 DEF Takes, OnlyAt
<1>10. Redefines(d, x, v)  BY <1>3, <1>7, <1>9 DEF Redefines, x
<1> QED  BY <1>10 DEF Effect

LEMMA DeclarationEffect ==
  ASSUME IInv, Pending, Declaration
  PROVE  Effect
<1>1. CASE VarDeclare  BY <1>1, VarDeclareEffect DEF Effect
<1>2. CASE VarDefine
  <2>1. ret.value \in Value  BY StackFacts
  <2> QED  BY <1>2, <2>1, DefineEffect DEF VarDefine, At
<1>3. CASE StructDefine
  <2>1. Zero("struct") \in Value  BY ZeroFits DEF ValueTypes, NumberTypes
  <2> QED  BY <1>3, <2>1, DefineEffect DEF StructDefine, At
<1>4. CASE StructField \/ StructFieldValue
  <2>1. scopes' = scopes  BY <1>4 DEF StructField, StructFieldValue, Fail
  <2> QED  BY <2>1 DEF Effect
<1>5. CASE evaluate_fn_stat
  <2>1. /\ Top.node \in Nodes /\ Top.scope \in 1..Len(scopes) /\ This = NodeData[Top.node]
        /\ fns \in Seq(FnType)
    BY StackFacts
  <2>2. This.type = "FUNC_STAT" /\ This.name \in Names
    BY <1>5, <2>1, NodeFacts DEF evaluate_fn_stat, At
  <2>3. Address(Len(fns) + 1) \in Value
    <3>1. Len(fns) + 1 \in Nat  BY <2>1
    <3> QED  BY <3>1, AddressFits
  <2>4. \/ scopes' = scopes
        \/ /\ ~ScopeIsFull(scopes, Top.scope)
           /\ scopes' = scope_define_var(scope_declare_var(scopes, Top.scope, This.name),
                                         Top.scope, This.name, Address(Len(fns) + 1))
    BY <1>5 DEF evaluate_fn_stat, Fail
  <2>5. Working = Top.scope  BY <2>2, NoSubScope, WorkingScope
  <2>6. Declares(This.name)  BY <2>2 DEF Declares
  <2>7. scopes' = scopes \/ NewSlot(This.name, Address(Len(fns) + 1))
    BY <2>1, <2>2, <2>3, <2>4, <2>5, <2>6, DefineSlot
  <2> QED  BY <2>7 DEF Effect
<1> QED  BY <1>1, <1>2, <1>3, <1>4, <1>5 DEF Declaration

LEMMA DefersEffect ==
  ASSUME IInv, RunDefer \/ JumpDefersDone \/ DefersDone
  PROVE  Effect
<1> DEFINE d == DeferScope
<1>1. Top.pc = "defers"  BY DEF RunDefer, JumpDefersDone, DefersDone
<1>2. d \in 1..Len(scopes) /\ This.type \in Jumps \cup {"BLOCK", "CALL_EXPR"}
  BY <1>1, DefersLabel
<1>3. d = Working
  <2>1. CASE This.type \in Jumps
    <3>1. Top.sub = 0  BY <2>1, NoSubScope DEF Jumps
    <3>2. Working = Top.scope  BY <3>1, WorkingScope
    <3>3. d = Top.scope  BY <2>1 DEF DeferScope, Leaving
    <3> QED  BY <3>2, <3>3
  <2>2. CASE This.type \notin Jumps
    <3>1. Top.sub > 1 /\ Top.sub \in Nat  BY <1>1, <1>2, <2>2, OpenFrame, StackFacts DEF FrameType
    <3>2. Working = Top.sub  BY <3>1, WorkingScope
    <3>3. d = Top.sub  BY <2>2 DEF DeferScope, Leaving
    <3> QED  BY <3>2, <3>3
  <2> QED  BY <2>1, <2>2
<1>4. d \in scopes[Working].chain  BY <1>3, WorkingScope
<1>5. \E sc : /\ scopes' = With(scopes, d, sc)
              /\ sc.vars = scopes[d].vars /\ sc.varcount = scopes[d].varcount
              /\ sc.defers = scopes[d].defers
  <2>1. scopes[d] \in ScopeType  BY <1>2, ScopeFacts
  <2>2. CASE RunDefer
    <3> DEFINE r == Append(scopes[d].ran, Top.i)
    <3> DEFINE sc == [scopes[d] EXCEPT !.ran = r]
    <3>1. scopes' = With(scopes, d, sc)  BY <2>2 DEF RunDefer, With
    <3> HIDE DEF r
    <3>2. sc.vars = scopes[d].vars /\ sc.varcount = scopes[d].varcount
          /\ sc.defers = scopes[d].defers
      BY <2>1 DEF ScopeType
    <3> QED  BY <3>1, <3>2
  <2>3. CASE JumpDefersDone \/ DefersDone
    <3> DEFINE sc == [scopes[d] EXCEPT !.is_deferred = TRUE]
    <3>1. scopes' = With(scopes, d, sc)
      BY <2>3 DEF JumpDefersDone, DefersDone, With, DeferScope
    <3>2. sc.vars = scopes[d].vars /\ sc.varcount = scopes[d].varcount
          /\ sc.defers = scopes[d].defers
      BY <2>1 DEF ScopeType
    <3> QED  BY <3>1, <3>2
  <2> QED  BY <2>2, <2>3
<1>6. scopes \in Seq(ScopeType)  BY StackFacts
<1> HIDE DEF d
<1>7. Notes(d)  BY <1>2, <1>4, <1>5, <1>6, WithFacts DEF Notes, OnlyAt
<1> QED  BY <1>7 DEF Effect

LEMMA DeferEffect ==
  ASSUME IInv, evaluate_defer_stat
  PROVE  Effect
<1> DEFINE d == Top.scope
<1> DEFINE n == This.kids[1]
<1>1. /\ Top.node \in Nodes /\ d \in 1..Len(scopes) /\ This = NodeData[Top.node]
      /\ This.type = TypeOf(Top.node) /\ scopes \in Seq(ScopeType)
  BY StackFacts
<1>2. This.type = "DEFER_STAT"  BY DEF evaluate_defer_stat, At
<1>3. n \in Nodes
  <2>1. Arity("DEFER_STAT", Len(This.kids))  BY <1>1, <1>2, NodeFacts
  <2> QED  BY <1>1, <2>1, NodeFacts DEF Arity
<1>4. Working = d  BY <1>2, NoSubScope, WorkingScope
<1>5. CASE scopes' = scopes  BY <1>5 DEF Effect
<1>6. CASE Len(scopes[d].defers) # MaxDefers /\ scopes' = scope_add_defer(scopes, d, n)
  <2> DEFINE ds == Append(scopes[d].defers, n)
  <2> DEFINE sc == [scopes[d] EXCEPT !.defers = ds]
  <2>1. scopes[d] \in ScopeType /\ d \in scopes[d].chain  BY <1>1, ScopeFacts
  <2>2. scopes' = With(scopes, d, sc)  BY <1>6 DEF scope_add_defer, With
  <2>3. Len(ds) = Len(scopes[d].defers) + 1
    <3>1. scopes[d].defers \in Seq(Below)  BY <1>1, ScopeFacts
    <3> QED  BY <3>1
  <2> HIDE DEF ds
  <2>4. sc.vars = scopes[d].vars /\ sc.varcount = scopes[d].varcount /\ sc.defers = ds
    BY <2>1 DEF ScopeType
  <2> HIDE DEF sc
  <2>5. Notes(d)
    BY <1>1, <1>4, <1>6, <2>1, <2>2, <2>3, <2>4, WithFacts DEF Notes, OnlyAt
  <2> QED  BY <2>5 DEF Effect
<1> QED  BY <1>5, <1>6 DEF evaluate_defer_stat, Fail

LEMMA BindEffect ==
  ASSUME IInv, CallBind
  PROVE  Effect
<1> DEFINE param == fns[Top.fn].params[Top.i + 1]
<1>1. ret.value \in Value /\ fns \in Seq(FnType) /\ Top \in FrameType  BY StackFacts
<1>2. This.type = "CALL_EXPR" /\ Top.pc = "arg"  BY DEF CallBind, At
<1>3. Top.sub > 1 /\ Top.sub \in 1..Len(scopes) /\ Top.fn \in 1..Len(fns)
  BY <1>2, OpenFrame DEF Jumps
<1>4. \/ scopes' = scopes
      \/ /\ ~(Top.i >= Len(fns[Top.fn].params)) /\ ~ScopeIsFull(scopes, Top.sub)
         /\ scopes' = scope_define_var(scope_declare_var(scopes, Top.sub, param),
                                       Top.sub, param, ret.value)
  BY DEF CallBind, Fail
<1>5. ~(Top.i >= Len(fns[Top.fn].params)) => param \in Names
  <2>1. fns[Top.fn] \in FnType  BY <1>1, <1>3
  <2>2. fns[Top.fn].params \in Seq(Names)  BY <2>1 DEF FnType
  <2>3. Top.i \in Nat  BY <1>1 DEF FrameType
  <2> QED  BY <2>2, <2>3
<1> HIDE DEF param
<1>6. Working = Top.sub /\ Declares(param)
  BY <1>2, <1>3, WorkingScope DEF Declares
<1>7. scopes' = scopes \/ NewSlot(param, ret.value)
  BY <1>1, <1>3, <1>4, <1>5, <1>6, DefineSlot
<1> QED  BY <1>7 DEF Effect

LEMMA ScopingEffect ==
  ASSUME IInv, Scoping
  PROVE  Effect
<1>1. Top.scope \in 1..Len(scopes) /\ Len(scopes) \in Nat \ {0}  BY StackFacts
<1>2. CASE BlockEnter  BY <1>1, <1>2 DEF BlockEnter, Effect
<1>3. CASE CallScope
  <2>1. scopes' = scopes \/ scopes' = NewScope(scopes, 1)  BY <1>3 DEF CallScope, Fail
  <2> QED  BY <1>1, <2>1 DEF Effect
<1>4. CASE CallBind  BY <1>4, BindEffect
<1>5. CASE DefersDone  BY <1>5, DefersEffect
<1>6. CASE FreeScope
  <2>1. Top.pc = "free" /\ scopes' = Front(scopes)  BY <1>6 DEF FreeScope
  <2>2. This.type \notin Jumps
    <3>1. Frame(Top, scopes, fns) /\ This.type = TypeOf(Top.node)  BY StackFacts
    <3> QED  BY <2>1, <3>1 DEF Frame, LabelsOf, Jumps, Operations
  <2>3. Top.sub > 1  BY <2>1, <2>2, OpenFrame
  <2> QED  BY <2>1, <2>3 DEF Effect
<1>7. CASE CallEnter \/ CallArgument \/ CallBody \/ Statement \/ StatementDone \/ Leave
  <2>1. scopes' = scopes
    BY <1>7 DEF CallEnter, CallArgument, CallBody, Statement, StatementDone, Leave, Fail
  <2> QED  BY <2>1 DEF Effect
<1> QED  BY <1>2, <1>3, <1>4, <1>5, <1>6, <1>7 DEF Scoping

LEMMA NextEffect ==
  ASSUME IInv, Pending, Next
  PROVE  Effect
<1>1. CASE EvaluateLeaf
  <2>1. scopes' = scopes
    BY <1>1 DEF EvaluateLeaf, EvaluateInteger, EvaluateFloat, EvaluateIdent, EvaluateDeclaration,
                EvaluateUnhandled, EvaluateNull, Deliver, Fail
  <2> QED  BY <2>1 DEF Effect
<1>2. CASE Expression
  <2>1. CASE evaluate_assign_expr  BY <2>1, AssignEffect
  <2>2. CASE \/ CastUnsupported \/ EvaluateOperand \/ OperandValue
             \/ evaluate_bin_expr \/ evaluate_unary_expr \/ evaluate_cast_expr
    <3>1. scopes' = scopes
      BY <2>2 DEF CastUnsupported, EvaluateOperand, OperandValue, evaluate_bin_expr,
                  evaluate_unary_expr, evaluate_cast_expr, Deliver, Fail
    <3> QED  BY <3>1 DEF Effect
  <2> QED  BY <1>2, <2>1, <2>2 DEF Expression
<1>3. CASE Declaration  BY <1>3, DeclarationEffect
<1>4. CASE Branching
  <2>1. scopes' = scopes
    BY <1>4 DEF Branching, IfCondition, IfBranch, IfDone, WhileCondition, WhileTest, WhileBody
  <2> QED  BY <2>1 DEF Effect
<1>5. CASE Jumping
  <2>1. CASE evaluate_defer_stat  BY <2>1, DeferEffect
  <2>2. CASE RunDefer \/ JumpDefersDone  BY <2>2, DefersEffect
  <2>3. CASE JumpEnter \/ ReturnExpr \/ ReturnValue
    <3>1. scopes' = scopes  BY <2>3 DEF JumpEnter, ReturnExpr, ReturnValue, Fail
    <3> QED  BY <3>1 DEF Effect
  <2> QED  BY <1>5, <2>1, <2>2, <2>3 DEF Jumping
<1>6. CASE Scoping  BY <1>6, ScopingEffect
<1>7. CASE Running
  <2>1. scopes' = scopes  BY <1>7 DEF Running, ProgramStatement, MainEnter, MainDone, Fail
  <2> QED  BY <2>1 DEF Effect
<1> QED  BY <1>1, <1>2, <1>3, <1>4, <1>5, <1>6, <1>7 DEF Next

-----------------------------------------------------------------------------
(***************************************************************************)
(* Frames after a step: the ones below the innermost are as they were, the *)
(* innermost is still the same call, and at most one new frame is on top.  *)
(***************************************************************************)
Before(k) ==
  /\ k \in 1..Len(stack)
  /\ stack'[k].node = stack[k].node /\ stack'[k].scope = stack[k].scope
  /\ k # Len(stack) => stack'[k] = stack[k]

Entered(k) ==
  /\ k = Len(stack) + 1 /\ Len(stack') = Len(stack) + 1
  /\ \E n \in Nodes, s \in {1, Working} : s \in 1..Len(scopes) /\ stack'[k] = NewFrame(n, s)

LEMMA FramesAfter ==
  ASSUME IInv, Move, NEW k \in 1..Len(stack')
  PROVE  Before(k) \/ Entered(k)
<1>1. stack \in Seq(FrameType) /\ Len(stack) \in Nat \ {0} /\ Top = stack[Len(stack)]
      /\ Len(scopes) \in Nat
  BY StackFacts
<1>2. ASSUME NEW f, Continues(f), stack' = Replaced(f) PROVE Before(k)
  <2>1. /\ stack'[Len(stack)] = f /\ Len(stack') = Len(stack)
        /\ \A j \in 1..Len(stack) : j # Len(stack) => stack'[j] = stack[j]
    BY <1>1, <1>2 DEF Replaced
  <2> QED  BY <1>1, <1>2, <2>1 DEF Before, Continues
<1>3. CASE \E f : Resumes(f)  BY <1>2, <1>3 DEF Resumes
<1>4. CASE \E f, n, s : Evaluates(f, n, s)
  <2>1. PICK f, n, s : Evaluates(f, n, s)  BY <1>4
  <2>2. /\ Continues(f) /\ Grow /\ n \in Nodes /\ s \in {1, Working} /\ s \in 1..Len(scopes)
        /\ stack' = Append(Replaced(f), NewFrame(n, s))
    BY <2>1 DEF Evaluates
  <2>3. Replaced(f) \in Seq(FrameType) /\ Len(Replaced(f)) = Len(stack)  BY <2>2, ReplacedTop
  <2>4. NewFrame(n, s) \in FrameType
    <3>1. s \in Nat  BY <1>1, <2>2
    <3> QED  BY <2>2, <3>1, NewFrameFacts
  <2>5. /\ Len(stack') = Len(stack) + 1 /\ stack'[Len(stack) + 1] = NewFrame(n, s)
        /\ \A j \in 1..Len(stack) : stack'[j] = Replaced(f)[j]
    BY <2>2, <2>3, <2>4, AppendProperties
  <2>6. CASE k = Len(stack) + 1  BY <2>2, <2>5, <2>6 DEF Entered
  <2>7. CASE k \in 1..Len(stack)
    <3>1. /\ Replaced(f)[Len(stack)] = f
          /\ \A j \in 1..Len(stack) : j # Len(stack) => Replaced(f)[j] = stack[j]
      BY <1>1, <2>2 DEF Replaced, Continues
    <3> QED  BY <1>1, <2>2, <2>5, <2>7, <3>1 DEF Before, Continues
  <2> QED  BY <1>1, <2>5, <2>6, <2>7
<1>5. CASE stack' = Front(stack)
  <2>1. Len(stack') = Len(stack) - 1 /\ \A j \in 1..(Len(stack) - 1) : stack'[j] = stack[j]
    BY <1>1, <1>5, FrontOfSeq
  <2> QED  BY <1>1, <2>1 DEF Before
<1>6. CASE stack' = stack  BY <1>6 DEF Before
<1>7. CASE \E f, p : Opens(f, p)
  <2>1. PICK f, p : Opens(f, p)  BY <1>7
  <2>2. f.node = Top.node /\ f.scope = Top.scope /\ stack' = Replaced(f)  BY <2>1 DEF Opens
  <2>3. /\ stack'[Len(stack)] = f /\ Len(stack') = Len(stack)
        /\ \A j \in 1..Len(stack) : j # Len(stack) => stack'[j] = stack[j]
    BY <1>1, <2>2 DEF Replaced
  <2> QED  BY <1>1, <2>2, <2>3 DEF Before
<1> QED  BY <1>3, <1>4, <1>5, <1>6, <1>7 DEF Move, Finishes, Stops, Closes

LEMMA ValueDeclared ==
  ASSUME NEW v \in Value
  PROVE  v # Undeclared
<1>1. v.t \in ValueTypes  BY ValueFacts
<1> QED  BY <1>1 DEF ValueTypes, NumberTypes, IntTypes, FloatTypes, Undeclared

\* No scope loses a name while it lives.
LEMMA DeclaredStays ==
  ASSUME IInv, Effect, NEW s \in 1..Len(scopes), s <= Len(scopes'), NEW x \in Names,
         scopes[s].vars[x] # Undeclared
  PROVE  scopes'[s].vars[x] # Undeclared
<1>1. scopes \in Seq(ScopeType) /\ Len(scopes) \in Nat \ {0}  BY StackFacts
<1>2. scopes[s].vars \in [Names -> Value \cup {Undeclared}]  BY ScopeFacts
<1>3. CASE scopes' = scopes  BY <1>3
<1>4. ASSUME NEW d, Notes(d) PROVE scopes'[s].vars[x] # Undeclared
  BY <1>4 DEF Notes, OnlyAt
<1>5. ASSUME NEW d, NEW y, NEW v, Takes(d, y, v) PROVE scopes'[s].vars[x] # Undeclared
  <2>1. v # Undeclared  BY <1>5, ValueDeclared DEF Takes
  <2>2. CASE s # d  BY <1>5, <2>2 DEF Takes, OnlyAt
  <2>3. CASE s = d
    <3>1. scopes'[s].vars = [scopes[s].vars EXCEPT ![y] = v]  BY <1>5, <2>3 DEF Takes
    <3> QED  BY <1>2, <2>1, <3>1
  <2> QED  BY <2>2, <2>3
<1>6. CASE \E p \in 1..Len(scopes) : scopes' = NewScope(scopes, p)
  <2>1. scopes'[s] = scopes[s]  BY <1>6, NewScopeFacts
  <2> QED  BY <2>1
<1>7. CASE scopes' = Front(scopes)
  <2>1. Len(scopes') = Len(scopes) - 1 /\ \A j \in 1..(Len(scopes) - 1) : scopes'[j] = scopes[j]
    BY <1>1, <1>7, FrontOfSeq
  <2>2. s \in 1..(Len(scopes) - 1)  BY <1>1, <2>1
  <2> QED  BY <2>1, <2>2
<1> QED  BY <1>3, <1>4, <1>5, <1>6, <1>7 DEF Effect, NewSlot, Redefines

\* What begins the evaluation of a declaration declares its name.
LEMMA VarEnters ==
  ASSUME IInv, Next, This.type = "VAR_STAT", Top.pc = "enter"
  PROVE  VarDeclare
<1>1. CASE EvaluateLeaf
  BY <1>1 DEF EvaluateLeaf, EvaluateInteger, EvaluateFloat, EvaluateIdent, EvaluateDeclaration,
              EvaluateUnhandled, EvaluateNull, Unhandled, At
<1>2. CASE Expression
  BY <1>2 DEF Expression, CastUnsupported, EvaluateOperand, OperandValue, evaluate_bin_expr,
              evaluate_unary_expr, evaluate_cast_expr, evaluate_assign_expr, Complete, Operations, At
<1>3. CASE Declaration
  BY <1>3 DEF Declaration, VarDefine, StructField, StructFieldValue, StructDefine,
              evaluate_fn_stat, At
<1>4. CASE Branching
  BY <1>4 DEF Branching, IfCondition, IfBranch, IfDone, WhileCondition, WhileTest, WhileBody, At
<1>5. CASE Jumping
  BY <1>5 DEF Jumping, evaluate_defer_stat, JumpEnter, RunDefer, JumpDefersDone, ReturnExpr,
              ReturnValue, Jumps, At
<1>6. CASE Scoping
  BY <1>6 DEF Scoping, BlockEnter, CallEnter, CallScope, CallArgument, CallBind, CallBody,
              Statement, StatementDone, Leave, DefersDone, FreeScope, At
<1>7. CASE Running
  BY <1>7 DEF Running, ProgramStatement, MainEnter, MainDone, At
<1> QED  BY <1>1, <1>2, <1>3, <1>4, <1>5, <1>6, <1>7 DEF Next

LEMMA PendingKept ==
  ASSUME IInv, Pending, Next
  PROVE  Pending'
<1> SUFFICES ASSUME NEW k \in 1..Len(stack'),
                    TypeOf(stack'[k].node) = "VAR_STAT", stack'[k].pc # "enter"
             PROVE  scopes'[stack'[k].scope].vars[NodeData[stack'[k].node].name] # Undeclared
  BY DEF Pending, TypeOf
<1>1. IInv' /\ Move /\ Effect  BY NextMoves, MoveKeeps, NextEffect
<1>2. stack'[k].scope \in 1..Len(scopes')  BY <1>1 DEF IInv, ScopeDiscipline
<1>3. Len(scopes') \in Nat /\ Len(scopes) \in Nat /\ Len(stack) \in Nat \ {0} /\ Top = stack[Len(stack)]
  <2>1. scopes' \in Seq(ScopeType)  BY <1>1 DEF IInv, TypeOK
  <2> QED  BY <2>1, StackFacts
<1>4. CASE Entered(k)
  <2>1. PICK n \in Nodes, s \in {1, Working} : s \in 1..Len(scopes) /\ stack'[k] = NewFrame(n, s)
    BY <1>4 DEF Entered
  <2>2. stack'[k].pc = "enter"  BY <2>1 DEF NewFrame
  <2> QED  BY <2>2
<1>5. CASE Before(k)
  <2> DEFINE s == stack[k].scope
  <2> DEFINE x == NodeData[stack[k].node].name
  <2>1. /\ stack'[k].scope = s /\ stack'[k].node = stack[k].node /\ k \in 1..Len(stack)
        /\ k # Len(stack) => stack'[k] = stack[k]
    BY <1>5 DEF Before
  <2>2. s \in 1..Len(scopes)  BY <2>1, FrameNumbers
  <2>3. stack[k].node \in Nodes
    <3>1. stack[k] \in FrameType  BY <2>1 DEF IInv, TypeOK
    <3> QED  BY <3>1 DEF FrameType
  <2>4. x \in Names  BY <2>3, NodeFacts
  <2>5. s <= Len(scopes')  BY <1>2, <2>1
  <2>6. CASE stack[k].pc # "enter"
    <3>1. scopes[s].vars[x] # Undeclared  BY <2>1, <2>6 DEF Pending
    <3> HIDE DEF s, x
    <3>2. scopes'[s].vars[x] # Undeclared  BY <1>1, <2>2, <2>4, <2>5, <3>1, DeclaredStays
    <3> QED  BY <2>1, <3>2 DEF s, x
  <2>7. CASE stack[k].pc = "enter"
    <3>1. stack'[k] # stack[k]  BY <2>7
    <3>2. k = Len(stack) /\ stack' # stack  BY <2>1, <3>1
    <3>3. stack[k] = Top /\ s = Top.scope /\ x = This.name /\ This.type = "VAR_STAT"
      BY <1>3, <2>1, <3>2, StackFacts
    <3>4. VarDeclare  BY <2>7, <3>3, VarEnters
    <3>5. PICK v : NewSlot(x, v)  BY <3>2, <3>3, <3>4, VarDeclareEffect
    <3>6. Working = s  BY <3>3, NoSubScope, WorkingScope
    <3>7. v \in Value /\ scopes'[s].vars = [scopes[s].vars EXCEPT ![x] = v]
      BY <3>5, <3>6 DEF NewSlot, Takes
    <3>8. scopes[s].vars \in [Names -> Value \cup {Undeclared}]  BY <2>2, ScopeFacts
    <3> HIDE DEF s, x
    <3>9. scopes'[s].vars[x] = v  BY <2>4, <3>7, <3>8
    <3> QED  BY <2>1, <3>7, <3>9, ValueDeclared DEF s, x
  <2> QED  BY <2>6, <2>7
<1> QED  BY <1>1, <1>4, <1>5, FramesAfter

LEMMA InitPending == Init => Pending
<1> SUFFICES ASSUME Init PROVE Pending  OBVIOUS
<1>1. PICK program \in Programs : stack = <<NewFrame(program, 1)>>  BY DEF Init
<1>2. program \in Nodes  BY ProgramsAssumption
<1>3. stack[1].pc = "enter" /\ Len(stack) = 1  BY <1>1, <1>2, NewFrameFacts
<1> QED  BY <1>3 DEF Pending

LEMMA NextPending == IInv /\ Pending /\ [Next]_vars => IInv' /\ Pending'
<1>1. ASSUME IInv, Pending, Next PROVE IInv' /\ Pending'
  BY <1>1, NextMoves, MoveKeeps, PendingKept
<1>2. ASSUME IInv, Pending, UNCHANGED vars PROVE IInv' /\ Pending'
  <2>1. IInv'  BY <1>2, NextIInv
  <2> QED  BY <1>2, <2>1 DEF vars, Pending
<1> QED  BY <1>1, <1>2

-----------------------------------------------------------------------------
(***************************************************************************)
(* The limits of a scope.  The names a scope holds are counted, so the     *)
(* invariant also says that there are finitely many of them.               *)
(***************************************************************************)
Held(ss, s) == {x \in Names : ss[s].vars[x] # Undeclared}
Roomy(ss, s) ==
  /\ ss[s].varcount <= MaxVars
  /\ s > 1 => /\ IsFiniteSet(Held(ss, s))
              /\ Cardinality(Held(ss, s)) <= ss[s].varcount
Limits == \A s \in 1..Len(scopes) : Roomy(scopes, s)

LEMMA LimitsKept ==
  ASSUME IInv, Limits, Effect, NEW s \in 1..Len(scopes')
  PROVE  Roomy(scopes', s)
<1>1. scopes \in Seq(ScopeType) /\ Len(scopes) \in Nat \ {0} /\ MaxVars \in Nat
  BY StackFacts, BoundsAssumption
<1>2. ASSUME s \in 1..Len(scopes)
      PROVE  /\ scopes[s].vars \in [Names -> Value \cup {Undeclared}]
             /\ scopes[s].varcount \in Nat /\ Roomy(scopes, s)
  <2>1. scopes[s] \in ScopeType  BY <1>2, ScopeFacts
  <2>2. scopes[s].varcount \in Nat  BY <2>1 DEF ScopeType
  <2> QED  BY <1>2, <2>2, ScopeFacts DEF Limits
<1>3. CASE s \in 1..Len(scopes) /\ scopes'[s] = scopes[s]
  BY <1>2, <1>3 DEF Roomy, Held
<1>4. ASSUME NEW d, Notes(d) PROVE Roomy(scopes', s)
  <2>1. s \in 1..Len(scopes)  BY <1>4 DEF Notes, OnlyAt
  <2>2. CASE s # d  BY <1>3, <1>4, <2>1, <2>2 DEF Notes, OnlyAt
  <2>3. CASE s = d  BY <1>2, <1>4, <2>1, <2>3 DEF Notes, Roomy, Held
  <2> QED  BY <2>2, <2>3
<1>5. ASSUME NEW x, NEW v, NewSlot(x, v) PROVE Roomy(scopes', s)
  <2>1. Takes(Working, x, v) /\ scopes[Working].varcount # MaxVars
        /\ scopes'[Working].varcount = scopes[Working].varcount + 1
    BY <1>5 DEF NewSlot
  <2>2. s \in 1..Len(scopes)  BY <2>1 DEF Takes, OnlyAt
  <2>3. CASE s # Working  BY <1>3, <2>1, <2>2, <2>3 DEF Takes, OnlyAt
  <2>4. CASE s = Working
    <3>1. /\ x \in Names /\ v # Undeclared
          /\ scopes'[s].vars = [scopes[s].vars EXCEPT ![x] = v]
          /\ scopes'[s].defers = scopes[s].defers
      BY <2>1, <2>4, ValueDeclared DEF Takes
    <3>2. Held(scopes', s) = Held(scopes, s) \cup {x}  BY <1>2, <2>2, <3>1 DEF Held
    <3>3. ASSUME s > 1
          PROVE  IsFiniteSet(Held(scopes', s)) /\ Cardinality(Held(scopes', s)) <= scopes'[s].varcount
      <4>1. IsFiniteSet(Held(scopes, s)) /\ Cardinality(Held(scopes, s)) <= scopes[s].varcount
        BY <1>2, <2>2, <3>3 DEF Roomy
      <4>2. Cardinality(Held(scopes, s)) \in Nat  BY <4>1, FS_CardinalityType
      <4>3. /\ IsFiniteSet(Held(scopes, s) \cup {x})
            /\ Cardinality(Held(scopes, s) \cup {x}) <= Cardinality(Held(scopes, s)) + 1
        <5> DEFINE H == Held(scopes, s)
        <5> HIDE DEF H
        <5>1. IsFiniteSet(H) /\ Cardinality(H) \in Nat  BY <4>1, <4>2 DEF H
        <5>2. /\ IsFiniteSet(H \cup {x})
              /\ Cardinality(H \cup {x}) = IF x \in H THEN Cardinality(H) ELSE Cardinality(H) + 1
          BY <5>1, FS_AddElement
        <5>3. Cardinality(H \cup {x}) <= Cardinality(H) + 1
          <6>1. CASE x \in H  BY <5>1, <5>2, <6>1
          <6>2. CASE x \notin H  BY <5>1, <5>2, <6>2
          <6> QED  BY <6>1, <6>2
        <5> QED  BY <5>2, <5>3 DEF H
      <4> HIDE DEF Held
      <4>4. Cardinality(Held(scopes, s) \cup {x}) \in Nat  BY <4>3, FS_CardinalityType
      <4> QED  BY <1>2, <2>1, <2>2, <2>4, <3>2, <4>1, <4>2, <4>3, <4>4
    <3>4. scopes'[s].varcount <= MaxVars
      BY <1>1, <1>2, <2>1, <2>2, <2>4 DEF Roomy
    <3> QED  BY <3>3, <3>4 DEF Roomy
  <2> QED  BY <2>3, <2>4
<1>6. ASSUME NEW d, NEW x, NEW v, Redefines(d, x, v) PROVE Roomy(scopes', s)
  <2>1. Takes(d, x, v) /\ scopes[d].vars[x] # Undeclared /\ scopes'[d].varcount = scopes[d].varcount
    BY <1>6 DEF Redefines
  <2>2. s \in 1..Len(scopes)  BY <2>1 DEF Takes, OnlyAt
  <2>3. CASE s # d  BY <1>3, <2>1, <2>2, <2>3 DEF Takes, OnlyAt
  <2>4. CASE s = d
    <3>1. /\ x \in Names /\ v # Undeclared
          /\ scopes'[s].vars = [scopes[s].vars EXCEPT ![x] = v]
          /\ scopes'[s].defers = scopes[s].defers
      BY <2>1, <2>4, ValueDeclared DEF Takes
    <3>2. Held(scopes', s) = Held(scopes, s)  BY <1>2, <2>1, <2>2, <2>4, <3>1 DEF Held
    <3> QED  BY <1>2, <2>1, <2>2, <2>4, <3>1, <3>2 DEF Roomy
  <2> QED  BY <2>3, <2>4
<1>7. ASSUME NEW p \in 1..Len(scopes), scopes' = NewScope(scopes, p) PROVE Roomy(scopes', s)
  <2> DEFINE c == scopes[p].chain \cup {Len(scopes) + 1}
  <2>1. /\ Len(scopes') = Len(scopes) + 1 /\ \A j \in 1..Len(scopes) : scopes'[j] = scopes[j]
        /\ scopes'[Len(scopes) + 1] = create_scope(c)
    BY <1>7, NewScopeFacts
  <2>2. CASE s \in 1..Len(scopes)  BY <1>3, <2>1, <2>2
  <2>3. CASE s = Len(scopes) + 1
    <3> HIDE DEF c
    <3>1. /\ scopes'[s].varcount = 0 /\ scopes'[s].defers = <<>>
          /\ \A x \in Names : scopes'[s].vars[x] = Undeclared
      BY <2>1, <2>3 DEF create_scope
    <3>2. Held(scopes', s) = {}  BY <3>1 DEF Held
    <3> QED  BY <1>1, <3>1, <3>2, FS_EmptySet DEF Roomy
  <2> QED  BY <1>1, <2>1, <2>2, <2>3
<1>8. CASE scopes' = scopes  BY <1>3, <1>8
<1>9. CASE scopes' = Front(scopes)
  <2>1. Len(scopes') = Len(scopes) - 1 /\ \A j \in 1..(Len(scopes) - 1) : scopes'[j] = scopes[j]
    BY <1>1, <1>9, FrontOfSeq
  <2> QED  BY <1>1, <1>3, <2>1
<1> QED  BY <1>4, <1>5, <1>6, <1>7, <1>8, <1>9 DEF Effect

LEMMA InitLimits == Init => Limits
<1> SUFFICES ASSUME Init PROVE Limits  OBVIOUS
<1>1. PICK program \in Programs : scopes = <<GlobalScope(program)>>  BY DEF Init
<1>2. GlobalScope(program).varcount = 3 + Cardinality(GlobalVars(program))
  BY DEF GlobalScope, create_scope
<1>3. 3 + Cardinality(GlobalVars(program)) <= MaxVars  BY GlobalsAssumption
<1>4. Len(scopes) = 1 /\ scopes[1] = GlobalScope(program)  BY <1>1
<1> QED  BY <1>2, <1>3, <1>4, BoundsAssumption DEF Limits, Roomy

LEMMA NextLimits ==
  IInv /\ Pending /\ Limits /\ [Next]_vars => IInv' /\ Pending' /\ Limits'
<1> SUFFICES ASSUME IInv, Pending, Limits, [Next]_vars PROVE Limits'
  BY NextPending
<1>1. CASE Next
  <2>1. \A s \in 1..Len(scopes') : Roomy(scopes', s)  BY <1>1, NextEffect, LimitsKept
  <2> QED  BY <2>1 DEF Limits, Roomy, Held
<1>2. CASE UNCHANGED vars  BY <1>2 DEF vars, Limits, Roomy, Held
<1> QED  BY <1>1, <1>2

(***************************************************************************)
(* scope_declare_var never takes more slots than a scope has, however many *)
(* those are, and a scope has taken a slot for every name it holds.        *)
(***************************************************************************)
THEOREM SlotsKept == Spec => []SlotsSuffice
<1>1. Init => IInv /\ Pending /\ Limits  BY InitIInv, InitPending, InitLimits
<1>2. IInv /\ Pending /\ Limits /\ [Next]_vars => IInv' /\ Pending' /\ Limits'
  BY NextLimits
<1>3. Limits => SlotsSuffice  BY DEF Limits, Roomy, Held, SlotsSuffice
<1> QED  BY <1>1, <1>2, <1>3, PTL DEF Spec

-----------------------------------------------------------------------------
(***************************************************************************)
(* The scopes of the callers.                                              *)
(***************************************************************************)
LEMMA HiddenScopes ==
  ASSUME IInv, CallIsolation, NEW j \in 1..Len(stack), ActiveCall(stack[j])
  PROVE  /\ stack[j].sub \in 2..Len(scopes)
         /\ scopes[Working].chain \cap (2..(stack[j].sub - 1)) = {}
<1> DEFINE N == Len(stack)
<1>1. N \in Nat \ {0} /\ Top = stack[N] /\ Len(scopes) \in Nat  BY StackFacts
<1>2. stack[j].sub \in 2..Len(scopes)
  BY <1>1, ActiveOwns, FrameNumbers DEF Owns
<1>3. Sealed(j, N)  BY <1>1, IsolationIsSealed
<1>4. CASE Top.sub > 0  BY <1>1, <1>2, <1>3, <1>4 DEF Sealed, Apart, Working
<1>5. CASE ~(Top.sub > 0)
  <2>1. j # N  BY <1>1, <1>5 DEF ActiveCall
  <2>2. j < N  BY <1>1, <2>1
  <2> QED  BY <1>1, <1>2, <1>3, <1>5, <2>2 DEF Sealed, Apart, Working
<1> QED  BY <1>2, <1>4, <1>5

LEMMA CallersLeftAlone ==
  ASSUME IInv, CallIsolation, Effect, NEW j \in 1..Len(stack), ActiveCall(stack[j]),
         NEW s \in 2..(stack[j].sub - 1)
  PROVE  s <= Len(scopes') /\ scopes'[s] = scopes[s]
<1>1. scopes \in Seq(ScopeType) /\ Len(scopes) \in Nat \ {0}  BY StackFacts
<1>2. /\ stack[j].sub \in 2..Len(scopes)
      /\ scopes[Working].chain \cap (2..(stack[j].sub - 1)) = {}
  BY HiddenScopes
<1>3. s \in 1..(Len(scopes) - 1) /\ s \notin scopes[Working].chain  BY <1>1, <1>2
<1>4. ASSUME NEW d, OnlyAt(d) PROVE s <= Len(scopes') /\ scopes'[s] = scopes[s]
  BY <1>1, <1>3, <1>4 DEF OnlyAt
<1>5. CASE scopes' = scopes  BY <1>1, <1>3, <1>5
<1>6. CASE \E p \in 1..Len(scopes) : scopes' = NewScope(scopes, p)
  <2>1. Len(scopes') = Len(scopes) + 1 /\ \A k \in 1..Len(scopes) : scopes'[k] = scopes[k]
    BY <1>6, NewScopeFacts
  <2> QED  BY <1>1, <1>3, <2>1
<1>7. CASE scopes' = Front(scopes)
  <2>1. Len(scopes') = Len(scopes) - 1 /\ \A k \in 1..(Len(scopes) - 1) : scopes'[k] = scopes[k]
    BY <1>1, <1>7, FrontOfSeq
  <2> QED  BY <1>1, <1>3, <2>1
<1> QED  BY <1>4, <1>5, <1>6, <1>7 DEF Effect, Notes, NewSlot, Redefines, Takes

(***************************************************************************)
(* TODO.md:36 for writes: no statement of a called function, no defer run  *)
(* for it and no argument evaluated for it changes a scope of its callers. *)
(***************************************************************************)
THEOREM CallersAreSafe == Spec => CallersUntouched
<1>1. Init => IInv /\ CallIsolation /\ Pending  BY InitIInv, InitIsolated, InitPending
<1>2. IInv /\ CallIsolation /\ Pending /\ [Next]_vars => IInv' /\ CallIsolation' /\ Pending'
  BY NextIsolated, NextPending
<1>3. IInv /\ CallIsolation /\ Pending /\ [Next]_vars =>
        [\A j \in 1..Len(stack) : ActiveCall(stack[j]) =>
           \A s \in 2..(stack[j].sub - 1) : s <= Len(scopes') /\ scopes'[s] = scopes[s]]_vars
  BY NextEffect, CallersLeftAlone
<1> QED  BY <1>1, <1>2, <1>3, PTL DEF Spec, CallersUntouched

-----------------------------------------------------------------------------
(***************************************************************************)
(* The types of variables.  evaluate_assign_expr reads the variable, then  *)
(* evaluates the new value, then writes: the value it converts to the type *)
(* it read must still be for a variable of that type.  In between, only    *)
(* statements of inner scopes run: an expression has none in its own.      *)
(***************************************************************************)
Nested ==
  \A j, k \in 1..Len(stack) :
    j < k /\ TypeOf(stack[j].node) \in Expressions =>
      TypeOf(stack[k].node) \in Expressions \/ stack[j].scope < stack[k].scope

\* The variable an assignment is for.
Current(f) == scope_get_var(scopes, f.scope, NodeData[f.node].name)

\* Read, or being read.
Read(j) ==
  /\ stack[j].vals # <<>> => stack[j].vals[1].t = Current(stack[j]).t
  /\ stack[j].vals = <<>> /\ stack[j].pc = "operand" =>
       \/ j = Len(stack) /\ ret.value.t = Current(stack[j]).t
       \/ j + 1 = Len(stack) /\ Top = NewFrame(NodeData[stack[j].node].kids[1], stack[j].scope)
Reads == \A j \in 1..Len(stack) : TypeOf(stack[j].node) = "ASSIGN_EXPR" => Read(j)

\* Where the innermost frame evaluates node n.
Inside(n, s) ==
  /\ s = Top.scope \/ (Top.sub > 1 /\ s = Top.sub) \/ This.type = "PROGRAM"
  /\ This.type \in Expressions => TypeOf(n) \in Expressions \/ (Top.sub > 1 /\ s = Top.sub)

LEMMA KidIsExpression ==
  ASSUME NEW n \in Nodes, TypeOf(n) \in Expressions, NEW k \in 1..Len(NodeData[n].kids)
  PROVE  TypeOf(NodeData[n].kids[k]) \in Expressions
  BY ExpressionsAssumption

\* Every evaluate_node that Next can begin.
LEMMA NextPushes ==
  ASSUME IInv, Next
  PROVE  \/ Len(stack') # Len(stack) + 1
         \/ \E f, n, s : Evaluate(f, n, s) /\ Inside(n, s)
<1>0. /\ stack \in Seq(FrameType) /\ Len(stack) \in Nat \ {0} /\ Top.node \in Nodes
      /\ This = NodeData[Top.node] /\ This.type = TypeOf(Top.node) /\ Top.sub \in Nat
      /\ Top.i \in Nat
  BY StackFacts DEF FrameType
<1>1. ASSUME NEW f, stack' = [stack EXCEPT ![Len(stack)] = f] PROVE Len(stack') # Len(stack) + 1
  BY <1>0, <1>1
<1>2. ASSUME stack' = Front(stack) PROVE Len(stack') # Len(stack) + 1
  BY <1>0, <1>2, FrontOfSeq
<1>3. ASSUME stack' = stack PROVE Len(stack') # Len(stack) + 1
  BY <1>0, <1>3
<1>4. ASSUME This.type \notin Expressions, NEW n PROVE Inside(n, Top.scope)
  BY <1>4 DEF Inside
<1>5. ASSUME NEW k \in 1..Len(This.kids), This.type \in Expressions
      PROVE  Inside(This.kids[k], Top.scope)
  BY <1>0, <1>5, KidIsExpression DEF Inside
<1>6. ASSUME Top.pc \in {"args", "arg", "body", "stat", "leave", "free", "defers"},
             This.type \notin Jumps, NEW n
      PROVE  Inside(n, Top.sub)
  BY <1>6, OpenFrame DEF Inside, Expressions
<1>7. CASE EvaluateLeaf
  BY <1>2, <1>3, <1>7
  DEF EvaluateLeaf, EvaluateInteger, EvaluateFloat, EvaluateIdent, EvaluateDeclaration,
      EvaluateUnhandled, EvaluateNull, Deliver, Finish, Fail
<1>8. CASE Expression
  <2>1. CASE EvaluateOperand
    <3>1. This.type \in Expressions  BY <2>1 DEF EvaluateOperand, At, Operations, Expressions
    <3>2. Top.vals \in Seq(Value)  BY StackFacts DEF FrameType
    <3>3. Len(This.kids) \in Nat  BY <1>0, NodeFacts
    <3>4. Operands + 1 \in 1..Len(This.kids)  BY <2>1, <3>2, <3>3 DEF EvaluateOperand, Operands
    <3>5. Inside(This.kids[Operands + 1], Top.scope)  BY <1>5, <3>1, <3>4
    <3> QED  BY <2>1, <3>5 DEF EvaluateOperand
  <2> QED
    BY <1>1, <1>2, <1>3, <1>8, <2>1
    DEF Expression, CastUnsupported, OperandValue, evaluate_bin_expr, evaluate_unary_expr,
        evaluate_cast_expr, evaluate_assign_expr, Deliver, Finish, Fail, Resume
<1>9. CASE Declaration
  <2>1. This.type \notin Expressions
    BY <1>9 DEF Declaration, VarDeclare, VarDefine, StructField, StructFieldValue, StructDefine,
                evaluate_fn_stat, At, Expressions
  <2>2. CASE VarDeclare
    <3>1. \/ \E how : Fail(how)
          \/ \E f : Resume(f)
          \/ \E f : Evaluate(f, This.kids[1], Top.scope)
      BY <2>2 DEF VarDeclare
    <3> QED  BY <1>1, <1>3, <1>4, <2>1, <3>1 DEF Fail, Resume
  <2>3. CASE StructField
    <3>1. \/ \E how : Fail(how)
          \/ \E f : Resume(f)
          \/ \E f, n : Evaluate(f, n, Top.scope)
      BY <2>3 DEF StructField
    <3> QED  BY <1>1, <1>3, <1>4, <2>1, <3>1 DEF Fail, Resume
  <2> QED
    BY <1>1, <1>2, <1>3, <1>9, <2>2, <2>3
    DEF Declaration, VarDefine, StructFieldValue, StructDefine, evaluate_fn_stat, Finish, Fail,
        Resume
<1>10. CASE Branching
  <2>1. This.type \notin Expressions
    BY <1>10 DEF Branching, IfCondition, IfBranch, IfDone, WhileCondition, WhileTest, WhileBody,
                 At, Expressions
  <2>2. \/ \E f : Resume(f)
        \/ \E r : Finish(r)
        \/ \E f, n : Evaluate(f, n, Top.scope)
    <3>1. CASE IfCondition \/ WhileCondition  BY <3>1 DEF IfCondition, WhileCondition
    <3>2. CASE IfBranch  BY <3>2 DEF IfBranch
    <3>3. CASE WhileTest  BY <3>3 DEF WhileTest
    <3>4. CASE IfDone \/ WhileBody
      <4>1. ret.brk \in BreakTypes  BY StackFacts DEF ResultType
      <4>2. (\E f : Resume(f)) \/ (\E r : Finish(r))
        BY <3>4, <4>1 DEF IfDone, WhileBody, BreakTypes
      <4> QED  BY <4>2
    <3> QED  BY <1>10, <3>1, <3>2, <3>3, <3>4 DEF Branching
  <2> QED  BY <1>1, <1>2, <1>4, <2>1, <2>2 DEF Resume, Finish
<1>11. CASE Jumping
  <2>1. CASE RunDefer
    <3>1. \E f, n : Evaluate(f, n, DeferScope)  BY <2>1 DEF RunDefer
    <3>2. ASSUME NEW n PROVE Inside(n, DeferScope)
      <4>1. CASE This.type \in Jumps
        <5>1. DeferScope = Top.scope  BY <4>1 DEF DeferScope, Leaving
        <5>2. This.type \notin Expressions  BY <4>1 DEF Jumps, Expressions
        <5> QED  BY <1>4, <5>1, <5>2
      <4>2. CASE This.type \notin Jumps
        <5>1. DeferScope = Top.sub  BY <4>2 DEF DeferScope, Leaving
        <5>2. Top.pc = "defers"  BY <2>1 DEF RunDefer
        <5> QED  BY <1>6, <4>2, <5>1, <5>2
      <4> QED  BY <4>1, <4>2
    <3> QED  BY <3>1, <3>2
  <2>2. CASE ReturnExpr
    <3>1. This.type \notin Expressions  BY <2>2 DEF ReturnExpr, At, Expressions
    <3>2. (\E how : Fail(how)) \/ \E f, n : Evaluate(f, n, Top.scope)  BY <2>2 DEF ReturnExpr
    <3> QED  BY <1>3, <1>4, <3>1, <3>2 DEF Fail
  <2>3. CASE evaluate_defer_stat \/ JumpEnter \/ JumpDefersDone \/ ReturnValue
    <3>1. \/ \E how : Fail(how)
          \/ \E f : Resume(f)
          \/ \E r : Finish(r)
      BY <2>3 DEF evaluate_defer_stat, JumpEnter, JumpDefersDone, ReturnValue, Leaving, Jumps
    <3> QED  BY <1>1, <1>2, <1>3, <3>1 DEF Fail, Resume, Finish
  <2> QED  BY <1>11, <2>1, <2>2, <2>3 DEF Jumping
<1>12. CASE Scoping
  <2>1. CASE CallEnter
    <3>1. This.type = "CALL_EXPR"  BY <2>1 DEF CallEnter, At
    <3>2. 1 \in 1..Len(This.kids)
      <4>1. Arity("CALL_EXPR", Len(This.kids)) /\ Len(This.kids) \in Nat  BY <1>0, <3>1, NodeFacts
      <4> QED  BY <4>1 DEF Arity
    <3>3. Inside(This.kids[1], Top.scope)  BY <1>5, <3>1, <3>2 DEF Expressions
    <3>4. (\E how : Fail(how)) \/ \E f : Evaluate(f, This.kids[1], Top.scope)
      BY <2>1 DEF CallEnter
    <3> QED  BY <1>3, <3>3, <3>4 DEF Fail
  <2>2. CASE CallArgument \/ Statement
    <3>1. Top.pc \in {"args", "body"} /\ This.type \notin Jumps
      <4>1. Top.pc \in {"args", "body"}  BY <2>2 DEF CallArgument, Statement, At
      <4>2. Frame(Top, scopes, fns)  BY StackFacts
      <4> QED  BY <1>0, <4>1, <4>2 DEF Frame, LabelsOf, Jumps, Operations
    <3>2. \E f, n : Evaluate(f, n, Top.sub)  BY <2>2 DEF CallArgument, Statement
    <3> QED  BY <1>6, <3>1, <3>2
  <2>3. CASE \/ BlockEnter \/ CallScope \/ CallBind \/ CallBody
             \/ StatementDone \/ Leave \/ DefersDone \/ FreeScope
    <3>1. \/ \E how : Fail(how)
          \/ \E f : Resume(f)
          \/ \E r : Finish(r)
      BY <2>3 DEF BlockEnter, CallScope, CallBind, CallBody, StatementDone, Leave, DefersDone,
                  FreeScope
    <3> QED  BY <1>1, <1>2, <1>3, <3>1 DEF Fail, Resume, Finish
  <2> QED  BY <1>12, <2>1, <2>2, <2>3 DEF Scoping
<1>13. CASE Running
  <2>1. CASE ProgramStatement
    <3>1. This.type = "PROGRAM"  BY <2>1 DEF ProgramStatement, At
    <3>2. ASSUME NEW n PROVE Inside(n, 1)  BY <3>1 DEF Inside, Expressions
    <3> QED  BY <2>1, <3>2 DEF ProgramStatement
  <2> QED  BY <1>1, <1>3, <1>13, <2>1 DEF Running, MainEnter, MainDone, Fail, Resume
<1> QED  BY <1>7, <1>8, <1>9, <1>10, <1>11, <1>12, <1>13 DEF Next

LEMMA PushedFrame ==
  ASSUME IInv, NEW f, NEW n, NEW s, Evaluate(f, n, s), Len(stack') = Len(stack) + 1
  PROVE  stack'[Len(stack) + 1].node = n /\ stack'[Len(stack) + 1].scope = s
<1> DEFINE new == NewFrame(n, s)
<1> DEFINE S == FrameType \cup {f, new}
<1> DEFINE q == [stack EXCEPT ![Len(stack)] = f]
<1>1. stack \in Seq(FrameType) /\ Len(stack) \in Nat \ {0}  BY StackFacts
<1>2. new.node = n /\ new.scope = s  BY DEF NewFrame
<1>3. stack' = Append(q, new)
  <2>1. stack' # stack  BY <1>1
  <2> QED  BY <2>1 DEF Evaluate
<1> HIDE DEF new
<1>4. q \in Seq(S) /\ Len(q) = Len(stack)
  <2>1. stack \in Seq(S)  BY <1>1
  <2> HIDE DEF S
  <2>2. f \in S  BY DEF S
  <2> QED  BY <1>1, <2>1, <2>2
<1>5. new \in S  OBVIOUS
<1> HIDE DEF q, S
<1>6. Append(q, new)[Len(q) + 1] = new  BY <1>4, <1>5, AppendProperties
<1> QED  BY <1>2, <1>3, <1>4, <1>6

LEMMA NestedKept ==
  ASSUME IInv, Nested, Next
  PROVE  Nested'
<1> DEFINE N == Len(stack)
<1>1. /\ stack \in Seq(FrameType) /\ N \in Nat \ {0} /\ Top = stack[N]
      /\ This.type = TypeOf(Top.node) /\ Len(scopes) \in Nat
  BY StackFacts
<1>2. Move  BY NextMoves
<1> SUFFICES ASSUME NEW j \in 1..Len(stack'), NEW k \in 1..Len(stack'), j < k,
                    TypeOf(stack'[j].node) \in Expressions
             PROVE  TypeOf(stack'[k].node) \in Expressions \/ stack'[j].scope < stack'[k].scope
  BY DEF Nested, TypeOf
<1>3. Len(stack') \in Nat /\ (Before(j) \/ Entered(j)) /\ (Before(k) \/ Entered(k))
  <2>1. stack' \in Seq(FrameType)  BY <1>2, MoveKeeps DEF IInv, TypeOK
  <2> QED  BY <1>2, <2>1, FramesAfter
<1>4. Before(j)  BY <1>1, <1>3 DEF Before, Entered
<1>5. CASE Before(k)
  <2>1. /\ j \in 1..N /\ k \in 1..N /\ stack'[j].node = stack[j].node
        /\ stack'[j].scope = stack[j].scope /\ stack'[k].node = stack[k].node
        /\ stack'[k].scope = stack[k].scope
    BY <1>4, <1>5 DEF Before
  <2>2. TypeOf(stack[k].node) \in Expressions \/ stack[j].scope < stack[k].scope
    BY <2>1 DEF Nested
  <2> QED  BY <2>1, <2>2
<1>6. CASE Entered(k)
  <2>1. k = N + 1 /\ Len(stack') = N + 1  BY <1>6 DEF Entered
  <2>2. PICK f, n, s : Evaluate(f, n, s) /\ Inside(n, s)  BY <2>1, NextPushes
  <2>3. stack'[k].node = n /\ stack'[k].scope = s  BY <2>1, <2>2, PushedFrame
  <2>4. /\ j \in 1..N /\ stack'[j].scope = stack[j].scope
        /\ TypeOf(stack[j].node) \in Expressions
    BY <1>4 DEF Before
  <2>5. j = N \/ (j \in 1..(N - 1) /\ j < N)  BY <1>1, <2>4
  <2>6. Top.sub > 1 => stack[j].scope < Top.sub
    BY <1>1, <2>4, <2>5 DEF IInv, ScopeDiscipline, Owns
  <2>7. j # N => This.type \in Expressions \/ stack[j].scope < Top.scope
    BY <1>1, <2>4, <2>5 DEF Nested
  <2>8. This.type = "PROGRAM" => N = 1
    <3>1. N \in 1..Len(stack)  BY <1>1
    <3>2. TypeOf(stack[N].node) = "PROGRAM" <=> N = 1  BY <3>1 DEF IInv, FramesOK
    <3> QED  BY <1>1, <3>2
  <2>9. j = N => This.type \in Expressions  BY <1>1, <2>4
  <2>10. "PROGRAM" \notin Expressions  BY DEF Expressions
  <2>11. TypeOf(n) \in Expressions \/ stack[j].scope < s
    <3>1. CASE This.type \in Expressions  BY <2>2, <2>6, <3>1 DEF Inside
    <3>2. CASE This.type \notin Expressions
      <4>1. j # N /\ stack[j].scope < Top.scope  BY <2>7, <2>9, <3>2
      <4>2. This.type # "PROGRAM"  BY <1>1, <2>5, <2>8, <4>1
      <4> QED  BY <2>2, <2>6, <4>1, <4>2 DEF Inside
    <3> QED  BY <3>1, <3>2
  <2> QED  BY <2>3, <2>4, <2>11
<1> QED  BY <1>3, <1>5, <1>6

\* Up to scope s, every variable keeps its type.
Keeps(s) ==
  \A k \in 1..s, x \in Names : scopes'[k].vars[x].t = scopes[k].vars[x].t

LEMMA TypedVars ==
  ASSUME NEW ss \in Seq(ScopeType), NEW s \in 1..Len(ss), NEW x \in Names
  PROVE  ss[s].vars[x] = Undeclared <=> ss[s].vars[x].t = "undeclared"
<1>1. ss[s] \in ScopeType  OBVIOUS
<1>2. ss[s].vars[x] \in Value \cup {Undeclared}  BY <1>1 DEF ScopeType
<1>3. ASSUME ss[s].vars[x] \in Value PROVE ss[s].vars[x].t # "undeclared"
  BY <1>3, ValueFacts DEF ValueTypes, NumberTypes, IntTypes, FloatTypes
<1> QED  BY <1>2, <1>3 DEF Undeclared

\* Then what is read from scope s keeps its type as well.
LEMMA ReadsKept ==
  ASSUME IInv, IInv', ChainsKept, NEW s \in 1..Len(scopes), s <= Len(scopes'), Keeps(s),
         NEW x \in Names
  PROVE  scope_get_var(scopes', s, x).t = scope_get_var(scopes, s, x).t
<1>1. /\ scopes' \in Seq(ScopeType) /\ scopes \in Seq(ScopeType)
      /\ Len(scopes) \in Nat /\ Len(scopes') \in Nat
  <2>1. scopes' \in Seq(ScopeType)  BY DEF IInv, TypeOK
  <2> QED  BY <2>1, StackFacts
<1>2. scopes'[s].chain = scopes[s].chain /\ scopes[s].chain \subseteq 1..s
  BY ScopeFacts DEF ChainsKept
<1>3. \A k \in 1..s : scopes'[k].vars[x] = Undeclared <=> scopes'[k].vars[x].t = "undeclared"
  BY <1>1, TypedVars
<1>4. \A k \in 1..s : scopes[k].vars[x] = Undeclared <=> scopes[k].vars[x].t = "undeclared"
  BY <1>1, TypedVars
<1>5. Declaring(scopes', s, x) = Declaring(scopes, s, x)
  BY <1>2, <1>3, <1>4 DEF Declaring, Keeps
<1>6. CASE Declaring(scopes, s, x) = {}  BY <1>5, <1>6 DEF scope_get_var
<1>7. CASE Declaring(scopes, s, x) # {}
  <2> DEFINE d == Nearest(scopes, s, x)
  <2>1. d = Nearest(scopes', s, x)  BY <1>5 DEF Nearest
  <2>2. d \in 1..s  BY <1>2, <1>7, NearestDeclares
  <2> HIDE DEF d
  <2>3. scopes'[d].vars[x].t = scopes[d].vars[x].t  BY <2>2 DEF Keeps
  <2> QED  BY <1>5, <1>7, <2>1, <2>3 DEF scope_get_var, d
<1> QED  BY <1>6, <1>7

\* An assignment stores a value of the type the variable has.
LEMMA AssignKeeps ==
  ASSUME IInv, Reads, NEW d, NEW x, NEW v, Redefines(d, x, v), This.type = "ASSIGN_EXPR"
  PROVE  v.t = scopes[d].vars[x].t
<1> DEFINE N == Len(stack)
<1>1. N \in Nat \ {0} /\ Top = stack[N] /\ This = NodeData[Top.node]
      /\ This.type = TypeOf(Top.node) /\ Top.scope \in 1..Len(scopes)
  BY StackFacts
<1>2. /\ d \in 1..Len(scopes) /\ d \in scopes[Working].chain /\ x = This.name
      /\ scopes[d].vars[x] # Undeclared
      /\ d = Nearest(scopes, Top.scope, x) /\ Top.vals # <<>> /\ v.t = Top.vals[1].t
  BY DEF Redefines, Takes, OnlyAt
<1>3. Working = Top.scope  BY NoSubScope, WorkingScope
<1>4. d \in Declaring(scopes, Top.scope, x)  BY <1>2, <1>3 DEF Declaring
<1>5. Current(Top) = scopes[d].vars[x]  BY <1>1, <1>2, <1>4 DEF Current, scope_get_var
<1>6. Read(N)  BY <1>1 DEF Reads
<1> QED  BY <1>1, <1>2, <1>5, <1>6 DEF Read

\* What a step changes of the types, it changes in the scope it works in.
LEMMA TypesAfter ==
  ASSUME IInv, Reads, Effect, NEW s \in 1..Len(scopes), s <= Len(scopes'), NEW x \in Names
  PROVE  \/ scopes'[s].vars[x].t = scopes[s].vars[x].t
         \/ /\ s = Working /\ Declares(x)
            /\ \/ This.type \in {"VAR_STAT", "FUNC_STAT"} /\ Working = Top.scope
               \/ This.type = "CALL_EXPR" /\ Top.pc = "arg" /\ Working = Top.sub /\ Top.sub > 1
<1>1. scopes \in Seq(ScopeType) /\ Len(scopes) \in Nat \ {0}  BY StackFacts
<1>2. scopes[s].vars \in [Names -> Value \cup {Undeclared}]  BY ScopeFacts
<1>3. ASSUME NEW d, Notes(d) PROVE scopes'[s].vars[x].t = scopes[s].vars[x].t
  BY <1>3 DEF Notes, OnlyAt
<1>4. ASSUME NEW d, NEW y, NEW v, Takes(d, y, v), ~(s = d /\ x = y)
      PROVE  scopes'[s].vars[x].t = scopes[s].vars[x].t
  <2>1. CASE s # d  BY <1>4, <2>1 DEF Takes, OnlyAt
  <2>2. CASE s = d
    <3>1. scopes'[s].vars = [scopes[s].vars EXCEPT ![y] = v]  BY <1>4, <2>2 DEF Takes
    <3> QED  BY <1>2, <1>4, <2>2, <3>1
  <2> QED  BY <2>1, <2>2
<1>5. ASSUME Declares(x)
      PROVE  \/ This.type \in {"VAR_STAT", "FUNC_STAT"} /\ Working = Top.scope
             \/ This.type = "CALL_EXPR" /\ Top.pc = "arg" /\ Working = Top.sub /\ Top.sub > 1
  <2>1. CASE This.type \in {"VAR_STAT", "FUNC_STAT"}  BY <2>1, NoSubScope, WorkingScope
  <2>2. CASE This.type = "CALL_EXPR" /\ Top.pc = "arg"
    <3>1. Top.sub > 1 /\ Top.sub \in 1..Len(scopes)  BY <2>2, OpenFrame DEF Jumps
    <3> QED  BY <1>1, <2>2, <3>1, WorkingScope
  <2> QED  BY <1>5, <2>1, <2>2 DEF Declares
<1>6. ASSUME NEW y, NEW v, NewSlot(y, v), ~(s = Working /\ Declares(x))
      PROVE  scopes'[s].vars[x].t = scopes[s].vars[x].t
  BY <1>4, <1>6 DEF NewSlot
<1>7. ASSUME NEW d, NEW y, NEW v, Redefines(d, y, v), ~(s = Working /\ Declares(x))
      PROVE  scopes'[s].vars[x].t = scopes[s].vars[x].t
  <2>1. Takes(d, y, v) /\ y = This.name  BY <1>7 DEF Redefines
  <2>2. CASE This.type = "VAR_STAT"
    <3>1. d = Top.scope /\ Working = Top.scope
      BY <1>7, <2>2, NoSubScope, WorkingScope DEF Redefines
    <3>2. Declares(y)  BY <2>1, <2>2 DEF Declares
    <3> QED  BY <1>4, <1>7, <2>1, <3>1, <3>2
  <2>3. CASE This.type = "ASSIGN_EXPR"
    <3>1. v.t = scopes[d].vars[y].t  BY <1>7, <2>3, AssignKeeps
    <3>2. CASE s = d /\ x = y
      <4>1. scopes'[s].vars = [scopes[s].vars EXCEPT ![x] = v]  BY <2>1, <3>2 DEF Takes
      <4> QED  BY <1>2, <3>1, <3>2, <4>1
    <3> QED  BY <1>4, <2>1, <3>2
  <2> QED  BY <1>7, <2>2, <2>3 DEF Redefines
<1>8. CASE scopes' = scopes  BY <1>8
<1>9. CASE \E p \in 1..Len(scopes) : scopes' = NewScope(scopes, p)
  <2>1. scopes'[s] = scopes[s]  BY <1>9, NewScopeFacts
  <2> QED  BY <2>1
<1>10. CASE scopes' = Front(scopes)
  <2>1. Len(scopes') = Len(scopes) - 1 /\ \A j \in 1..(Len(scopes) - 1) : scopes'[j] = scopes[j]
    BY <1>1, <1>10, FrontOfSeq
  <2>2. s \in 1..(Len(scopes) - 1)  BY <1>1, <2>1
  <2> QED  BY <2>1, <2>2
<1> QED  BY <1>3, <1>5, <1>6, <1>7, <1>8, <1>9, <1>10 DEF Effect

\* The steps of an identifier and of an assignment.
LEMMA AssignmentSteps ==
  ASSUME IInv, Next, This.type \in {"IDENT_LIT", "ASSIGN_EXPR"}
  PROVE  \/ EvaluateIdent /\ This.type = "IDENT_LIT"
         \/ /\ EvaluateOperand \/ OperandValue \/ evaluate_assign_expr
            /\ This.type = "ASSIGN_EXPR"
<1>0. Top.pc \in {"enter", "operand"}
  <2>1. Frame(Top, scopes, fns) /\ This.type = TypeOf(Top.node)  BY StackFacts
  <2> QED  BY <2>1 DEF Frame, LabelsOf, Operations, Jumps
<1>1. CASE EvaluateLeaf
  BY <1>1 DEF EvaluateLeaf, EvaluateInteger, EvaluateFloat, EvaluateIdent, EvaluateDeclaration,
              EvaluateUnhandled, EvaluateNull, Unhandled, At
<1>2. CASE Expression
  <2>1. This.type \in Operations
    BY <1>2 DEF Expression, CastUnsupported, EvaluateOperand, OperandValue, evaluate_bin_expr,
                evaluate_unary_expr, evaluate_cast_expr, evaluate_assign_expr, Complete, Operations, At
  <2>2. This.type = "ASSIGN_EXPR"  BY <2>1 DEF Operations
  <2>3. ~(CastUnsupported \/ evaluate_bin_expr \/ evaluate_unary_expr \/ evaluate_cast_expr)
    BY <2>2 DEF CastUnsupported, evaluate_bin_expr, evaluate_unary_expr, evaluate_cast_expr,
                Complete, At
  <2> QED  BY <1>2, <2>2, <2>3 DEF Expression
<1>3. CASE Declaration
  BY <1>3 DEF Declaration, VarDeclare, VarDefine, StructField, StructFieldValue, StructDefine,
              evaluate_fn_stat, At
<1>4. CASE Branching
  BY <1>4 DEF Branching, IfCondition, IfBranch, IfDone, WhileCondition, WhileTest, WhileBody, At
<1>5. CASE Jumping
  BY <1>0, <1>5 DEF Jumping, evaluate_defer_stat, JumpEnter, RunDefer, JumpDefersDone,
                    ReturnExpr, ReturnValue, Jumps, At
<1>6. CASE Scoping
  BY <1>0, <1>6 DEF Scoping, BlockEnter, CallEnter, CallScope, CallArgument, CallBind, CallBody,
                    Statement, StatementDone, Leave, DefersDone, FreeScope, At
<1>7. CASE Running
  BY <1>7 DEF Running, ProgramStatement, MainEnter, MainDone, At
<1> QED  BY <1>1, <1>2, <1>3, <1>4, <1>5, <1>6, <1>7 DEF Next

\* An assignment under way sees the same type for its variable after a step.
LEMMA CurrentKept ==
  ASSUME IInv, IInv', Nested, Reads, Effect, ChainsKept,
         NEW j \in 1..Len(stack), TypeOf(stack[j].node) = "ASSIGN_EXPR",
         stack[j].scope <= Len(scopes')
  PROVE  scope_get_var(scopes', stack[j].scope, NodeData[stack[j].node].name).t
           = Current(stack[j]).t
<1> DEFINE N == Len(stack)
<1> DEFINE s == stack[j].scope
<1> DEFINE x == NodeData[stack[j].node].name
<1>1. N \in Nat \ {0} /\ Top = stack[N] /\ This.type = TypeOf(Top.node) /\ Len(scopes) \in Nat
      /\ Top.scope \in 1..Len(scopes)
  BY StackFacts
<1>2. s \in 1..Len(scopes) /\ x \in Names
  <2>1. stack[j] \in FrameType  BY DEF IInv, TypeOK
  <2>2. stack[j].node \in Nodes  BY <2>1 DEF FrameType
  <2> QED  BY <2>2, NodeFacts, FrameNumbers
<1>3. Top.sub > 1 => s < Top.sub
  <2>1. j <= N /\ N \in 1..Len(stack)  BY <1>1
  <2> QED  BY <1>1, <2>1 DEF IInv, ScopeDiscipline, Owns
<1>4. This.type \in {"VAR_STAT", "FUNC_STAT"} => s < Top.scope
  <2>1. SUFFICES ASSUME This.type \in {"VAR_STAT", "FUNC_STAT"} PROVE s < Top.scope  OBVIOUS
  <2>2. j # N  BY <1>1, <2>1
  <2>3. j < N /\ N \in 1..Len(stack)  BY <1>1, <2>2
  <2> QED  BY <1>1, <2>1, <2>3 DEF Nested, Expressions
<1> HIDE DEF s, x
<1>5. Keeps(s)
  <2> SUFFICES ASSUME NEW k \in 1..s, NEW y \in Names
               PROVE  scopes'[k].vars[y].t = scopes[k].vars[y].t
    BY DEF Keeps
  <2>1. scopes' \in Seq(ScopeType)  BY DEF IInv, TypeOK
  <2>2. k \in 1..Len(scopes) /\ k <= Len(scopes')  BY <1>1, <1>2, <2>1 DEF s
  <2>3. ~(k = Working /\ (\/ This.type \in {"VAR_STAT", "FUNC_STAT"} /\ Working = Top.scope
                          \/ Working = Top.sub /\ Top.sub > 1))
    BY <1>1, <1>2, <1>3, <1>4
  <2> QED  BY <2>2, <2>3, TypesAfter
<1>6. scope_get_var(scopes', s, x).t = scope_get_var(scopes, s, x).t
  BY <1>2, <1>5, ReadsKept DEF s
<1> QED  BY <1>6 DEF Current, s, x

\* Read or being read, in the next state.
ReadAfter(k) ==
  /\ stack'[k].vals # <<>> => stack'[k].vals[1].t = Current(stack[k]).t
  /\ stack'[k].vals = <<>> /\ stack'[k].pc = "operand" =>
       \/ k = Len(stack') /\ ret'.value.t = Current(stack[k]).t
       \/ /\ k + 1 = Len(stack')
          /\ stack'[Len(stack')] = NewFrame(NodeData[stack[k].node].kids[1], stack[k].scope)

\* An assignment below the innermost frame waits for its operand.
LEMMA WaitingReads ==
  ASSUME IInv, Reads, Next, NEW k \in 1..Len(stack'), k < Len(stack),
         TypeOf(stack[k].node) = "ASSIGN_EXPR", stack'[k] = stack[k]
  PROVE  ReadAfter(k)
<1>1. /\ stack \in Seq(FrameType) /\ Len(stack) \in Nat \ {0} /\ Top = stack[Len(stack)]
      /\ This = NodeData[Top.node] /\ This.type = TypeOf(Top.node)
  BY StackFacts
<1>2. k \in 1..Len(stack)  BY <1>1
<1>3. Read(k)  BY <1>2 DEF Reads
<1>4. ASSUME stack[k].vals = <<>>, stack[k].pc = "operand"
      PROVE  k = Len(stack') /\ ret'.value.t = Current(stack[k]).t
  <2> DEFINE n == stack[k].node
  <2> DEFINE left == NodeData[n].kids[1]
  <2>1. k + 1 = Len(stack) /\ Top = NewFrame(left, stack[k].scope)
    BY <1>1, <1>3, <1>4 DEF Read
  <2>2. n \in Nodes
    <3>1. stack[k] \in FrameType  BY <1>1, <1>2
    <3> QED  BY <3>1 DEF FrameType
  <2>3. TypeOf(left) = "IDENT_LIT" /\ NodeData[left].name = NodeData[n].name
    BY <2>2, ExpressionsAssumption
  <2>4. Top.node = left /\ Top.scope = stack[k].scope
    <3> HIDE DEF left
    <3> QED  BY <2>1 DEF NewFrame
  <2> HIDE DEF left, n
  <2>5. This.type = "IDENT_LIT" /\ This.name = NodeData[n].name  BY <1>1, <2>3, <2>4
  <2>6. EvaluateIdent  BY <2>5, AssignmentSteps
  <2>7. stack' = Front(stack) /\ ret' = Result(scope_get_var(scopes, Top.scope, This.name), "none")
    BY <2>6 DEF EvaluateIdent, Deliver, OK, Finish
  <2>8. Len(stack') = Len(stack) - 1  BY <1>1, <2>7, FrontOfSeq
  <2>9. ret'.value = Current(stack[k])
    BY <2>4, <2>5, <2>7 DEF Current, Result, n
  <2> QED  BY <1>1, <2>1, <2>8, <2>9
<1> QED  BY <1>3, <1>4 DEF ReadAfter, Read

LEMMA InnermostReads ==
  ASSUME IInv, Reads, Next, This.type = "ASSIGN_EXPR", NEW k \in 1..Len(stack'), k = Len(stack)
  PROVE  ReadAfter(k)
<1>1. /\ stack \in Seq(FrameType) /\ k \in 1..Len(stack) /\ k \in Nat \ {0}
      /\ Top = stack[k] /\ Top \in FrameType
      /\ This = NodeData[Top.node] /\ This.type = TypeOf(Top.node)
  BY StackFacts
<1>2. Read(k)  BY <1>1 DEF Reads
<1>3. Top.vals \in Seq(Value) /\ ret.value \in Value  BY <1>1, StackFacts DEF FrameType
<1>4. ASSUME stack' = stack, Top.pc = "enter" PROVE ReadAfter(k)
  BY <1>1, <1>2, <1>4 DEF ReadAfter, Read
<1>5. CASE EvaluateOperand
  <2> DEFINE f == [Top EXCEPT !.pc = "operand"]
  <2> DEFINE n == This.kids[Operands + 1]
  <2>1. Top.pc = "enter"  BY <1>5 DEF EvaluateOperand, At
  <2>2. f \in FrameType /\ f.vals = Top.vals  BY <1>1 DEF FrameType, PcLabels
  <2>3. CASE stack' = Append([stack EXCEPT ![Len(stack)] = f], NewFrame(n, Top.scope))
    <3> DEFINE q == [stack EXCEPT ![Len(stack)] = f]
    <3>1. q \in Seq(FrameType) /\ Len(q) = k /\ q[k] = f
      <4> HIDE DEF f
      <4> QED  BY <1>1, <2>2
    <3>2. NewFrame(n, Top.scope) \in FrameType
      <4>1. Len(This.kids) \in Nat /\ This.kids \in Seq(Nodes)
        <5>1. Top.node \in Nodes  BY StackFacts
        <5> QED  BY <1>1, <5>1, NodeFacts
      <4>2. n \in Nodes
        <5>1. Operands + 1 \in 1..Len(This.kids)  BY <1>3, <1>5, <4>1 DEF EvaluateOperand, Operands
        <5> QED  BY <4>1, <5>1
      <4>3. Top.scope \in Nat  BY <1>1 DEF FrameType
      <4> QED  BY <4>2, <4>3, NewFrameFacts
    <3> HIDE DEF q, f
    <3>3. Len(stack') = k + 1 /\ stack'[k + 1] = NewFrame(n, Top.scope) /\ stack'[k] = q[k]
      BY <1>1, <2>3, <3>1, <3>2, AppendProperties DEF q
    <3>4. Top.vals = <<>> => n = This.kids[1]  BY <1>3 DEF Operands
    <3> HIDE DEF n
    <3> QED  BY <1>1, <1>2, <2>2, <3>1, <3>3, <3>4 DEF ReadAfter, Read
  <2>4. CASE stack' = stack  BY <1>4, <2>1, <2>4
  <2> QED  BY <1>5, <2>3, <2>4 DEF EvaluateOperand, Evaluate
<1>6. CASE OperandValue
  <2> DEFINE w == Append(Top.vals, ret.value)
  <2> DEFINE f == [Top EXCEPT !.pc = "enter", !.vals = w]
  <2>1. Top.pc = "operand" /\ stack' = [stack EXCEPT ![Len(stack)] = f]
    BY <1>6 DEF OperandValue, Resume, At
  <2>2. w # <<>> /\ w[1] = IF Top.vals = <<>> THEN ret.value ELSE Top.vals[1]
    <3>1. CASE Top.vals = <<>>  BY <1>3, <3>1
    <3>2. CASE Top.vals # <<>>
      <4>1. 1 \in 1..Len(Top.vals)  BY <1>3, <3>2
      <4> QED  BY <1>3, <3>2, <4>1, AppendProperties
    <3> QED  BY <3>1, <3>2
  <2> HIDE DEF w
  <2>3. f.pc = "enter" /\ f.vals = w  BY <1>1 DEF FrameType
  <2>4. stack'[k] = f
    <3> HIDE DEF f
    <3> QED  BY <1>1, <2>1
  <2> HIDE DEF f
  <2>5. Top.vals = <<>> => ret.value.t = Current(Top).t
    <3>1. k + 1 # Len(stack)  BY <1>1
    <3> QED  BY <1>1, <1>2, <2>1, <3>1 DEF Read
  <2>6. w[1].t = Current(Top).t  BY <1>1, <1>2, <2>2, <2>5 DEF Read
  <2> QED  BY <1>1, <2>2, <2>3, <2>4, <2>6 DEF ReadAfter
<1>7. CASE evaluate_assign_expr
  <2>1. Top.pc = "enter"  BY <1>7 DEF evaluate_assign_expr, Complete, At
  <2>2. stack' = stack \/ stack' = Front(stack)
    BY <1>7 DEF evaluate_assign_expr, Fail, Finish
  <2>3. stack' # Front(stack)
    <3>1. Len(Front(stack)) = Len(stack) - 1  BY <1>1, FrontOfSeq
    <3> QED  BY <1>1, <3>1
  <2> QED  BY <1>4, <2>1, <2>2, <2>3
<1> QED  BY <1>5, <1>6, <1>7, AssignmentSteps

LEMMA NextReads ==
  ASSUME IInv, Pending, Nested, Reads, Next
  PROVE  Reads'
<1>1. IInv' /\ Move /\ Effect  BY NextMoves, MoveKeeps, NextEffect
<1>2. ChainsKept
  <2>1. CASE Grow  BY <2>1, GrowKeepsChains
  <2>2. CASE \E f, p : Opens(f, p)
    <3>1. \E p \in 1..Len(scopes) : scopes' = NewScope(scopes, p)  BY <2>2 DEF Opens
    <3>2. \A s \in 1..Len(scopes) : scopes'[s] = scopes[s]  BY <3>1, NewScopeFacts
    <3> QED  BY <3>2 DEF ChainsKept
  <2>3. CASE Closes
    <3>1. scopes \in Seq(ScopeType) /\ Len(scopes) \in Nat \ {0}  BY StackFacts
    <3>2. Len(scopes') = Len(scopes) - 1 /\ \A s \in 1..(Len(scopes) - 1) : scopes'[s] = scopes[s]
      BY <2>3, <3>1, FrontOfSeq DEF Closes
    <3> QED  BY <3>1, <3>2 DEF ChainsKept
  <2> QED  BY <1>1, <2>1, <2>2, <2>3 DEF Move, Resumes, Evaluates, Finishes, Stops
<1> SUFFICES ASSUME NEW k \in 1..Len(stack'), TypeOf(stack'[k].node) = "ASSIGN_EXPR"
             PROVE  /\ stack'[k].vals # <<>> => stack'[k].vals[1].t = (Current(stack[k]).t)'
                    /\ stack'[k].vals = <<>> /\ stack'[k].pc = "operand" =>
                         \/ k = Len(stack') /\ ret'.value.t = (Current(stack[k]).t)'
                         \/ /\ k + 1 = Len(stack')
                            /\ Top' = NewFrame(NodeData[stack'[k].node].kids[1], stack'[k].scope)
  BY DEF Reads, Read, TypeOf
<1>3. Len(stack) \in Nat \ {0} /\ Top = stack[Len(stack)] /\ This.type = TypeOf(Top.node)
  BY StackFacts
<1>4. CASE Entered(k)
  <2>1. PICK n \in Nodes, s \in {1, Working} : s \in 1..Len(scopes) /\ stack'[k] = NewFrame(n, s)
    BY <1>4 DEF Entered
  <2>2. stack'[k].pc = "enter" /\ stack'[k].vals = <<>>  BY <2>1 DEF NewFrame
  <2> QED  BY <2>2
<1>5. CASE Before(k)
  <2>1. /\ k \in 1..Len(stack) /\ stack'[k].node = stack[k].node
        /\ stack'[k].scope = stack[k].scope
        /\ k # Len(stack) => stack'[k] = stack[k]
    BY <1>5 DEF Before
  <2>2. TypeOf(stack[k].node) = "ASSIGN_EXPR"  BY <2>1
  <2>3. ReadAfter(k)
    <3>1. CASE k = Len(stack)  BY <1>3, <2>2, <3>1, InnermostReads
    <3>2. CASE k # Len(stack)
      <4>1. k < Len(stack)  BY <1>3, <2>1, <3>2
      <4> QED  BY <2>1, <2>2, <3>2, <4>1, WaitingReads
    <3> QED  BY <3>1, <3>2
  <2>4. stack[k].scope <= Len(scopes')
    <3>1. stack'[k].scope \in 1..Len(scopes')  BY <1>1 DEF IInv, ScopeDiscipline
    <3> QED  BY <2>1, <3>1
  <2>5. scope_get_var(scopes', stack[k].scope, NodeData[stack[k].node].name).t = Current(stack[k]).t
    BY <1>1, <1>2, <2>1, <2>2, <2>4, CurrentKept
  <2>6. (Current(stack[k]).t)' = Current(stack[k]).t
    BY <2>1, <2>5 DEF Current, scope_get_var, Declaring, Nearest
  <2> QED  BY <2>1, <2>3, <2>6 DEF ReadAfter, Top
<1> QED  BY <1>1, <1>4, <1>5, FramesAfter

Typing == Pending /\ Nested /\ Reads

LEMMA InitTyping == Init => Typing
<1> SUFFICES ASSUME Init PROVE Typing  OBVIOUS
<1>1. PICK program \in Programs : stack = <<NewFrame(program, 1)>>  BY DEF Init
<1>2. program \in Nodes  BY ProgramsAssumption
<1>3. stack[1].node = program /\ Len(stack) = 1  BY <1>1, <1>2, NewFrameFacts
<1>4. TypeOf(program) = "PROGRAM"  BY ProgramsAssumption
<1>5. Nested /\ Reads  BY <1>3, <1>4 DEF Nested, Reads
<1> QED  BY <1>5, InitPending DEF Typing

LEMMA NextTyping == IInv /\ Typing /\ [Next]_vars => IInv' /\ Typing'
<1>1. ASSUME IInv, Typing, Next PROVE IInv' /\ Typing'
  BY <1>1, NextPending, NestedKept, NextReads DEF Typing
<1>2. ASSUME IInv, Typing, UNCHANGED vars PROVE IInv' /\ Typing'
  <2>1. IInv' /\ Pending'  BY <1>2, NextPending DEF Typing
  <2>2. Nested' /\ Reads'
    BY <1>2 DEF vars, Typing, Nested, Reads, Read, Current, scope_get_var, Declaring, Nearest, Top
  <2> QED  BY <2>1, <2>2 DEF Typing
<1> QED  BY <1>1, <1>2

(***************************************************************************)
(* README.md:3 "statically-typed": in every run of every program, whatever *)
(* an assignment computes from whatever operands, calls in the middle of   *)
(* it included, the variable keeps the type its declaration gave it.       *)
(***************************************************************************)
THEOREM TypesAreKept == Spec => TypesKept
<1>1. Init => IInv /\ Typing  BY InitIInv, InitTyping
<1>2. IInv /\ Typing /\ [Next]_vars => IInv' /\ Typing'  BY NextTyping
<1>3. IInv /\ Typing /\ [Next]_vars =>
        [\A s \in 1..Len(scopes), x \in Names :
           /\ s <= Len(scopes')
           /\ scopes[s].vars[x].t \in NumberTypes
           /\ scopes'[s].vars[x].t # scopes[s].vars[x].t
           => Declares(x)]_vars
  BY NextEffect, TypesAfter DEF Typing
<1> QED  BY <1>1, <1>2, <1>3, PTL DEF Spec, TypesKept

-----------------------------------------------------------------------------
(***************************************************************************)
(* Defers.  The nodes a scope holds are run by the block or the call that  *)
(* owns it, or by a jump that stands directly in that, in which case the   *)
(* owner must neither run one again nor see another one registered.  The   *)
(* invariant says how far they have got, by where the owner stands and     *)
(* what it has called; only two frames, one calling the other, ever have   *)
(* to do with the same scope.                                              *)
(***************************************************************************)
Fresh(sc) == sc.ran = <<>> /\ sc.is_deferred = FALSE
Left(sc) == (1..Len(sc.defers)) \ ToSet(sc.ran)
Spent(sc) == Left(sc) = {} /\ sc.is_deferred = TRUE

\* Who owns a scope, and which one; main's statements share the global scope.
Manages(f) == TypeOf(f.node) = "PROGRAM" \/ f.sub > 1
Home(f) == IF TypeOf(f.node) = "PROGRAM" THEN 1 ELSE f.sub

BodyOf(f, fs) ==
  IF TypeOf(f.node) = "BLOCK" THEN NodeData[f.node].kids ELSE NodeData[fs[f.fn].body].kids
Harmless(f, fs) ==
  \A m \in (f.i + 1)..Len(BodyOf(f, fs)) : TypeOf(BodyOf(f, fs)[m]) \notin DeferTypes

\* The owner f of scope sc, unless a jump is running on its behalf.
Alone(f, sc, fs, back) ==
  /\ f.pc \in {"enter", "args", "arg"} => Fresh(sc)
  /\ f.pc = "body" => Fresh(sc) \/ (Spent(sc) /\ Harmless(f, fs))
  /\ f.pc = "stat" => Fresh(sc) \/ (Spent(sc) /\ (back \/ Harmless(f, fs)))
  /\ f.pc = "leave" => Fresh(sc) \/ Spent(sc)
  /\ f.pc = "defers" => Left(sc) = 1..f.i
  /\ f.pc = "free" => Left(sc) = {}

\* The owner f of scope sc while the jump g is running.
Jumped(f, g, sc, fs) ==
  /\ f.pc = "stat" /\ f.i \in 1..Len(BodyOf(f, fs)) /\ g.node = BodyOf(f, fs)[f.i]
  /\ g.pc = "enter" => Fresh(sc)
  /\ g.pc = "defers" => Left(sc) = 1..g.i
  /\ g.pc \in {"jump", "value"} => Spent(sc)

\* f has called g.
Pair(f, g, ss, fs) ==
  IF TypeOf(g.node) \in DeferTypes
  THEN /\ Manages(f) /\ g.scope = Home(f)
       /\ IF TypeOf(g.node) \in Jumps THEN Jumped(f, g, ss[Home(f)], fs)
          ELSE f.pc \in {"enter", "stat"} /\ Fresh(ss[Home(f)])
  ELSE Manages(f) => Alone(f, ss[Home(f)], fs, FALSE)

Innermost(f, ss, fs, back) == Manages(f) => Alone(f, ss[Home(f)], fs, back)

Tended ==
  /\ \A k \in 1..(Len(stack) - 1) : Pair(stack[k], stack[k + 1], scopes, fns)
  /\ Innermost(stack[Len(stack)], scopes, fns, ret.brk = "return")

\* What is deferred is an expression, so that running it registers nothing here.
Deferrable ==
  \A s \in 1..Len(scopes) : \A k \in 1..Len(scopes[s].defers) :
    TypeOf(scopes[s].defers[k]) \notin DeferTypes

Deferral == (status = "run" => Tended) /\ Deferrable

(***************************************************************************)
(* What a step leaves as it was.                                           *)
(***************************************************************************)
Alike(sc, scNew) ==
  scNew.defers = sc.defers /\ scNew.ran = sc.ran /\ scNew.is_deferred = sc.is_deferred

AllAlike ==
  Len(scopes') = Len(scopes) /\ \A s \in 1..Len(scopes) : Alike(scopes[s], scopes'[s])

AllButAlike(d) ==
  /\ Len(scopes') = Len(scopes) /\ d \in 1..Len(scopes)
  /\ \A s \in 1..Len(scopes) : s # d => Alike(scopes[s], scopes'[s])

FunctionsStay == Len(fns) <= Len(fns') /\ \A m \in 1..Len(fns) : fns'[m] = fns[m]

LEMMA AloneStays ==
  ASSUME NEW f, NEW sc, NEW scNew, Alike(sc, scNew), NEW fs, NEW gs,
         f.pc \in {"body", "stat"} => BodyOf(f, fs) = BodyOf(f, gs),
         NEW back, NEW later, back => later, Alone(f, sc, fs, back)
  PROVE  Alone(f, scNew, gs, later)
<1>1. /\ Fresh(sc) => Fresh(scNew)
      /\ Spent(sc) => Spent(scNew)
      /\ Left(scNew) = Left(sc)
  BY DEF Alike, Fresh, Spent, Left
<1>2. f.pc \in {"body", "stat"} /\ Harmless(f, fs) => Harmless(f, gs)
  BY DEF Harmless
<1> QED  BY <1>1, <1>2 DEF Alone

LEMMA PairStays ==
  ASSUME NEW f, NEW g, NEW h, NEW ss, NEW tt, NEW fs, NEW gs,
         h.node = g.node, h.scope = g.scope, TypeOf(g.node) \in Jumps => h.pc = g.pc /\ h.i = g.i,
         Manages(f) => Alike(ss[Home(f)], tt[Home(f)]),
         Manages(f) /\ f.pc \in {"body", "stat"} => BodyOf(f, fs) = BodyOf(f, gs),
         Pair(f, g, ss, fs)
  PROVE  Pair(f, h, tt, gs)
<1>1. CASE TypeOf(g.node) \notin DeferTypes
  <2>1. Manages(f) => Alone(f, ss[Home(f)], fs, FALSE)  BY <1>1 DEF Pair
  <2>2. Manages(f) => Alone(f, tt[Home(f)], gs, FALSE)  BY <2>1, AloneStays
  <2> QED  BY <1>1, <2>2 DEF Pair
<1>2. CASE TypeOf(g.node) \in DeferTypes
  <2>1. Manages(f) /\ g.scope = Home(f)  BY <1>2 DEF Pair
  <2> DEFINE sc == ss[Home(f)]
             scNew == tt[Home(f)]
  <2>2. Alike(sc, scNew)  BY <2>1
  <2>3. /\ Fresh(sc) => Fresh(scNew)
        /\ Spent(sc) => Spent(scNew)
        /\ Left(scNew) = Left(sc)
    BY <2>2 DEF Alike, Fresh, Spent, Left
  <2>4. CASE TypeOf(g.node) \in Jumps
    <3>1. Jumped(f, g, sc, fs)  BY <1>2, <2>4 DEF Pair
    <3>2. BodyOf(f, fs) = BodyOf(f, gs)  BY <2>1, <3>1 DEF Jumped
    <3>3. Jumped(f, h, scNew, gs)
      BY <2>3, <2>4, <3>1, <3>2 DEF Jumped
    <3> QED  BY <1>2, <2>1, <2>4, <3>3 DEF Pair
  <2>5. CASE TypeOf(g.node) \notin Jumps
    <3>1. f.pc \in {"enter", "stat"} /\ Fresh(sc)  BY <1>2, <2>5 DEF Pair
    <3> QED  BY <1>2, <2>1, <2>3, <2>5, <3>1 DEF Pair
  <2> QED  BY <2>4, <2>5
<1> QED  BY <1>1, <1>2

(***************************************************************************)
(* The frames after a step, put together from what it does at the top.     *)
(***************************************************************************)
LEMMA Managers ==
  ASSUME IInv, NEW k \in 1..Len(stack), Manages(stack[k])
  PROVE  /\ Home(stack[k]) \in 1..Len(scopes)
         /\ TypeOf(stack[k].node) \in {"BLOCK", "CALL_EXPR", "PROGRAM"}
         /\ stack[k].pc \in {"body", "stat"} =>
              stack[k].sub = Home(stack[k])
              /\ (TypeOf(stack[k].node) # "BLOCK" => stack[k].fn \in 1..Len(fns))
<1>1. Frame(stack[k], scopes, fns) /\ stack[k] \in FrameType /\ Len(scopes) \in Nat \ {0}
  BY StackFacts DEF IInv, FramesOK
<1>2. SubOf(stack[k]) /\ stack[k].sub \in 0..Len(scopes)  BY <1>1 DEF Frame
<1>3. TypeOf(stack[k].node) \in {"BLOCK", "CALL_EXPR", "PROGRAM"}
  BY <1>1, <1>2 DEF Manages, SubOf
<1>4. Home(stack[k]) \in 1..Len(scopes)  BY <1>1, <1>2 DEF Manages, Home
<1>5. ASSUME stack[k].pc \in {"body", "stat"}
      PROVE  stack[k].sub = Home(stack[k])
             /\ (TypeOf(stack[k].node) # "BLOCK" => stack[k].fn \in 1..Len(fns))
  <2>1. Opened(stack[k])  BY <1>5 DEF Opened
  <2>2. stack[k].sub = Home(stack[k])  BY <1>2, <1>3, <2>1 DEF SubOf, Home
  <2>3. TypeOf(stack[k].node) # "BLOCK" => stack[k].fn \in 1..Len(fns)
    BY <1>1, <1>3, <2>1 DEF Frame
  <2> QED  BY <2>2, <2>3
<1> QED  BY <1>3, <1>4, <1>5

LEMMA HomesApart ==
  ASSUME IInv, NEW j \in 1..Len(stack), NEW k \in 1..Len(stack), j < k,
         Manages(stack[j]), Manages(stack[k])
  PROVE  Home(stack[j]) < Home(stack[k])
<1>1. TypeOf(stack[k].node) # "PROGRAM"  BY DEF IInv, FramesOK
<1>2. stack[k].sub > 1 /\ Home(stack[k]) = stack[k].sub  BY <1>1 DEF Manages, Home
<1>3. Home(stack[k]) \in Nat  BY Managers, StackFacts
<1>4. CASE TypeOf(stack[j].node) = "PROGRAM"
  BY <1>2, <1>3, <1>4 DEF Home
<1>5. CASE TypeOf(stack[j].node) # "PROGRAM"
  <2>1. stack[j].sub > 1 /\ Home(stack[j]) = stack[j].sub  BY <1>5 DEF Manages, Home
  <2> QED  BY <1>2, <2>1 DEF IInv, ScopeDiscipline, Owns
<1> QED  BY <1>4, <1>5

LEMMA BodiesStay ==
  ASSUME IInv, FunctionsStay, NEW k \in 1..Len(stack), Manages(stack[k]),
         stack[k].pc \in {"body", "stat"}
  PROVE  BodyOf(stack[k], fns) = BodyOf(stack[k], fns')
<1>1. TypeOf(stack[k].node) # "BLOCK" => stack[k].fn \in 1..Len(fns)  BY Managers
<1> QED  BY <1>1 DEF BodyOf, FunctionsStay

LEMMA StackAfter ==
  ASSUME IInv, Move
  PROVE  Len(stack') \in {Len(stack) - 1, Len(stack), Len(stack) + 1}
<1>1. stack \in Seq(FrameType) /\ Len(stack) \in Nat \ {0} /\ Len(scopes) \in Nat
  BY StackFacts
<1>2. ASSUME NEW f, stack' = Replaced(f) PROVE Len(stack') = Len(stack)
  BY <1>1, <1>2 DEF Replaced
<1>3. ASSUME stack' = Front(stack) PROVE Len(stack') = Len(stack) - 1
  BY <1>1, <1>3, FrontOfSeq
<1>4. CASE \E f, n, s : Evaluates(f, n, s)
  <2>1. PICK f, n, s : Evaluates(f, n, s)  BY <1>4
  <2>2. Continues(f) /\ Grow /\ n \in Nodes /\ s \in 1..Len(scopes)
        /\ stack' = Append(Replaced(f), NewFrame(n, s))
    BY <2>1 DEF Evaluates
  <2>3. Replaced(f) \in Seq(FrameType) /\ Len(Replaced(f)) = Len(stack)  BY <2>2, ReplacedTop
  <2>4. NewFrame(n, s) \in FrameType
    <3>1. s \in Nat  BY <1>1, <2>2
    <3> QED  BY <2>2, <3>1, NewFrameFacts
  <2> QED  BY <2>2, <2>3, <2>4, AppendProperties
<1> QED  BY <1>2, <1>3, <1>4 DEF Move, Resumes, Finishes, Stops, Opens, Closes

LEMMA Assembled ==
  ASSUME IInv, Next, Tended, FunctionsStay,
         \A k \in 1..(Len(stack) - 2) :
           Manages(stack[k]) => Alike(scopes[Home(stack[k])], scopes'[Home(stack[k])]),
         Len(stack') >= Len(stack) /\ Len(stack) > 1 =>
           Pair(stack[Len(stack) - 1], stack'[Len(stack)], scopes', fns'),
         Len(stack') = Len(stack) - 1 =>
           Innermost(stack[Len(stack) - 1], scopes', fns', ret'.brk = "return"),
         Len(stack') = Len(stack) =>
           Innermost(stack'[Len(stack)], scopes', fns', ret'.brk = "return"),
         Len(stack') = Len(stack) + 1 =>
           Pair(stack'[Len(stack)], stack'[Len(stack) + 1], scopes', fns')
  PROVE  Tended'
<1> DEFINE N == Len(stack)
<1> DEFINE M == Len(stack')
<1>1. stack \in Seq(FrameType) /\ N \in Nat \ {0}  BY StackFacts
<1>2. Move /\ IInv'  BY NextMoves, MoveKeeps
<1>3. M \in {N - 1, N, N + 1} /\ M \in Nat \ {0}
  <2>1. M \in Nat \ {0}  BY <1>2 DEF IInv, TypeOK, FramesOK
  <2> QED  BY <1>2, <2>1, StackAfter
<1>4. ASSUME NEW k \in 1..M, k < N PROVE stack'[k] = stack[k]
  <2>1. Before(k) \/ Entered(k)  BY <1>2, <1>4, FramesAfter
  <2> QED  BY <1>1, <1>4, <2>1 DEF Before, Entered
<1>5. ASSUME NEW k \in 1..(M - 1) PROVE Pair(stack'[k], stack'[k + 1], scopes', fns')
  <2>1. CASE k < N - 1
    <3>1. stack'[k] = stack[k] /\ stack'[k + 1] = stack[k + 1]  BY <1>1, <1>3, <1>4, <1>5, <2>1
    <3>2. k \in 1..(N - 1) /\ k \in 1..N /\ k \in 1..(N - 2)  BY <1>1, <1>3, <1>5, <2>1
    <3>3. Pair(stack[k], stack[k + 1], scopes, fns)  BY <3>2 DEF Tended
    <3>4. Manages(stack[k]) => Alike(scopes[Home(stack[k])], scopes'[Home(stack[k])])
      BY <3>2
    <3>5. Manages(stack[k]) /\ stack[k].pc \in {"body", "stat"} =>
            BodyOf(stack[k], fns) = BodyOf(stack[k], fns')
      BY <3>2, BodiesStay
    <3>6. Pair(stack[k], stack[k + 1], scopes', fns')  BY <3>3, <3>4, <3>5, PairStays
    <3> QED  BY <3>1, <3>6
  <2>2. CASE k = N - 1
    <3>1. M >= N /\ N > 1 /\ k + 1 = N  BY <1>1, <1>3, <1>5, <2>2
    <3>2. stack'[k] = stack[N - 1]  BY <1>1, <1>3, <1>4, <1>5, <2>2
    <3> QED  BY <2>2, <3>1, <3>2
  <2>3. CASE k = N
    <3>1. M = N + 1  BY <1>1, <1>3, <1>5, <2>3
    <3> QED  BY <2>3, <3>1
  <2> QED  BY <1>1, <1>3, <1>5, <2>1, <2>2, <2>3
<1>6. Innermost(stack'[M], scopes', fns', ret'.brk = "return")
  <2>1. CASE M = N - 1
    <3>1. stack'[M] = stack[N - 1]  BY <1>1, <1>3, <1>4, <2>1
    <3> QED  BY <2>1, <3>1
  <2>2. CASE M = N  BY <2>2
  <2>3. CASE M = N + 1
    <3>1. M \in 1..M  BY <1>3
    <3>2. Entered(M)
      <4>1. Before(M) \/ Entered(M)  BY <1>2, <3>1, FramesAfter
      <4> QED  BY <1>1, <2>3, <4>1 DEF Before
    <3>3. PICK n \in Nodes, s \in {1, Working} :
            s \in 1..Len(scopes) /\ stack'[M] = NewFrame(n, s)
      BY <3>2 DEF Entered
    <3>4. stack'[M].sub = 0
      <4>1. s \in Nat  BY <3>3, StackFacts
      <4> QED  BY <3>3, <4>1, NewFrameFacts
    <3>5. TypeOf(stack'[M].node) # "PROGRAM"
      <4>1. TypeOf(stack'[M].node) = "PROGRAM" <=> M = 1  BY <1>2, <3>1 DEF IInv, FramesOK, TypeOf
      <4> QED  BY <1>1, <2>3, <4>1
    <3> QED  BY <3>4, <3>5 DEF Innermost, Manages
  <2> QED  BY <1>3, <2>1, <2>2, <2>3
<1>7. QED  BY <1>5, <1>6 DEF Tended

\* The frame below the innermost, which is no jump.
LEMMA CallerStays ==
  ASSUME IInv, Next, Tended, FunctionsStay, Len(stack) > 1, This.type \notin DeferTypes,
         NEW u, u = stack[Len(stack) - 1],
         Manages(u) => Alike(scopes[Home(u)], scopes'[Home(u)])
  PROVE  /\ Len(stack') >= Len(stack) => Pair(u, stack'[Len(stack)], scopes', fns')
         /\ Innermost(u, scopes', fns', ret'.brk = "return")
<1> DEFINE N == Len(stack)
<1>1. N \in Nat \ {0} /\ Top = stack[N] /\ This.type = TypeOf(Top.node)  BY StackFacts
<1>2. N - 1 \in 1..(N - 1) /\ N - 1 \in 1..N /\ (N - 1) + 1 = N  BY <1>1
<1>3. Pair(u, Top, scopes, fns)
  <2>1. Pair(stack[N - 1], stack[(N - 1) + 1], scopes, fns)  BY <1>2 DEF Tended
  <2> QED  BY <1>1, <1>2, <2>1
<1>4. Manages(u) /\ u.pc \in {"body", "stat"} => BodyOf(u, fns) = BodyOf(u, fns')
  BY <1>2, BodiesStay
<1>5. ASSUME Len(stack') >= N PROVE Pair(u, stack'[N], scopes', fns')
  <2>1. Move /\ Len(stack') \in Nat
    <3>1. Move /\ IInv'  BY NextMoves, MoveKeeps
    <3> QED  BY <3>1 DEF IInv, TypeOK
  <2>2. Before(N) \/ Entered(N)
    <3>1. N \in 1..Len(stack')  BY <1>1, <1>5, <2>1
    <3> QED  BY <2>1, <3>1, FramesAfter
  <2>3. stack'[N].node = Top.node /\ stack'[N].scope = Top.scope
    BY <1>1, <2>2 DEF Before, Entered
  <2>4. TypeOf(Top.node) \notin Jumps  BY <1>1 DEF DeferTypes
  <2> QED  BY <1>3, <1>4, <2>3, <2>4, PairStays
<1>6. Innermost(u, scopes', fns', ret'.brk = "return")
  <2>1. ASSUME Manages(u) PROVE Alone(u, scopes'[Home(u)], fns', ret'.brk = "return")
    <3>1. Alone(u, scopes[Home(u)], fns, FALSE)  BY <1>1, <1>3, <2>1 DEF Pair
    <3> QED  BY <1>4, <2>1, <3>1, AloneStays
  <2> QED  BY <2>1 DEF Innermost
<1> QED  BY <1>5, <1>6

LEMMA Above ==
  ASSUME IInv, This.type # "PROGRAM"
  PROVE  Len(stack) > 1
<1> DEFINE N == Len(stack)
<1>1. N \in Nat \ {0} /\ Top = stack[N] /\ This.type = TypeOf(Top.node)  BY StackFacts
<1>2. N = 1 => TypeOf(stack[N].node) = "PROGRAM"  BY <1>1 DEF IInv, FramesOK
<1>3. N # 1  BY <1>1, <1>2
<1> HIDE DEF N
<1>4. N > 1  BY <1>1, <1>3
<1> QED  BY <1>4 DEF N

\* A step that has nothing to do with defers.
LEMMA QuietSteps ==
  ASSUME IInv, Next, Tended, FunctionsStay, AllAlike,
         This.type \notin {"BLOCK", "CALL_EXPR", "PROGRAM"} \cup DeferTypes,
         Len(stack') = Len(stack) + 1 => TypeOf(stack'[Len(stack) + 1].node) \notin DeferTypes
  PROVE  Tended'
<1> DEFINE N == Len(stack)
<1>1. N \in Nat \ {0} /\ Top = stack[N] /\ This.type = TypeOf(Top.node)  BY StackFacts
<1>2. ASSUME NEW k \in 1..N, Manages(stack[k])
      PROVE  Alike(scopes[Home(stack[k])], scopes'[Home(stack[k])])
  BY <1>2, Managers DEF AllAlike
<1>3. N > 1
  <2>1. This.type # "PROGRAM"  OBVIOUS
  <2> QED  BY <2>1, Above
<1>4. /\ Len(stack') >= N => Pair(stack[N - 1], stack'[N], scopes', fns')
      /\ Innermost(stack[N - 1], scopes', fns', ret'.brk = "return")
  <2>1. N - 1 \in 1..N  BY <1>1, <1>3
  <2> QED  BY <1>2, <1>3, <2>1, CallerStays
<1>5. ASSUME Len(stack') >= N PROVE ~Manages(stack'[N])
  <2>1. Move /\ IInv'  BY NextMoves, MoveKeeps
  <2>2. N \in 1..Len(stack')
    <3>1. Len(stack') \in Nat  BY <2>1 DEF IInv, TypeOK
    <3> QED  BY <1>1, <1>5, <3>1
  <2>3. stack'[N].node = Top.node
    <3>1. Before(N) \/ Entered(N)  BY <2>1, <2>2, FramesAfter
    <3> QED  BY <1>1, <3>1 DEF Before, Entered
  <2>4. SubOf(stack'[N])
    <3>1. Frame(stack'[N], scopes', fns')  BY <2>1, <2>2 DEF IInv, FramesOK
    <3> QED  BY <3>1 DEF Frame
  <2> QED  BY <1>1, <2>3, <2>4 DEF SubOf, Manages
<1>6. ASSUME NEW k \in 1..(N - 2), Manages(stack[k])
      PROVE  Alike(scopes[Home(stack[k])], scopes'[Home(stack[k])])
  <2>1. k \in 1..N  BY <1>1
  <2> QED  BY <1>2, <1>6, <2>1
<1>7. Len(stack') = N => Innermost(stack'[N], scopes', fns', ret'.brk = "return")
  BY <1>1, <1>5 DEF Innermost
<1>8. ASSUME Len(stack') = N + 1 PROVE Pair(stack'[N], stack'[N + 1], scopes', fns')
  <2>1. TypeOf(stack'[N + 1].node) \notin DeferTypes  BY <1>8
  <2>2. ~Manages(stack'[N])  BY <1>1, <1>5, <1>8
  <2> QED  BY <2>1, <2>2 DEF Pair
<1> QED  BY <1>4, <1>6, <1>7, <1>8, Assembled

(***************************************************************************)
(* What DeferStack sees of the scopes.                                     *)
(***************************************************************************)
Book == [s \in 1..Len(scopes) |->
           [registered |-> Len(scopes[s].defers), ran |-> scopes[s].ran]]

Promised == [Promise!Next]_Book

LEMMA AlikeBook ==
  ASSUME AllAlike
  PROVE  Book' = Book
<1>1. \A s \in 1..Len(scopes) :
        [registered |-> Len(scopes'[s].defers), ran |-> scopes'[s].ran]
          = [registered |-> Len(scopes[s].defers), ran |-> scopes[s].ran]
  BY DEF AllAlike, Alike
<1> QED  BY <1>1 DEF Book, AllAlike

LEMMA AlikeDeferrable ==
  ASSUME AllAlike, Deferrable
  PROVE  Deferrable'
  BY DEF AllAlike, Alike, Deferrable, TypeOf

\* One scope's variables change.
LEMMA VarsAlike ==
  ASSUME NEW ss, NEW d, NEW vs, NEW tt, tt = [ss EXCEPT ![d].vars = vs], ss \in Seq(ScopeType)
  PROVE  Len(tt) = Len(ss) /\ \A s \in 1..Len(ss) : Alike(ss[s], tt[s])
<1>1. Len(tt) = Len(ss) /\ DOMAIN ss = 1..Len(ss)  OBVIOUS
<1>2. ASSUME NEW s \in 1..Len(ss) PROVE Alike(ss[s], tt[s])
  <2>1. CASE s # d
    <3>1. tt[s] = ss[s]  BY <1>1, <2>1
    <3> QED  BY <3>1 DEF Alike
  <2>2. CASE s = d
    <3>1. tt[s] = [ss[s] EXCEPT !.vars = vs]  BY <1>1, <2>2
    <3>2. ss[s] \in ScopeType  OBVIOUS
    <3> QED  BY <3>1, <3>2 DEF Alike, ScopeType
  <2> QED  BY <2>1, <2>2
<1> QED  BY <1>1, <1>2

LEMMA DefineAlike ==
  ASSUME NEW ss \in Seq(ScopeType), NEW s, NEW x, NEW v
  PROVE  LET tt == scope_define_var(ss, s, x, v) IN
         Len(tt) = Len(ss) /\ \A k \in 1..Len(ss) : Alike(ss[k], tt[k])
<1> DEFINE d == Nearest(ss, s, x)
<1> DEFINE vs == [ss[d].vars EXCEPT ![x] = v]
<1>1. scope_define_var(ss, s, x, v) = [ss EXCEPT ![d].vars = vs]
  BY Zenon DEF scope_define_var
<1> HIDE DEF d, vs
<1> QED  BY <1>1, VarsAlike

LEMMA DeclareAlike ==
  ASSUME NEW ss \in Seq(ScopeType), NEW s, NEW x
  PROVE  LET tt == scope_declare_var(ss, s, x) IN
         Len(tt) = Len(ss) /\ \A k \in 1..Len(ss) : Alike(ss[k], tt[k])
<1> DEFINE vs == [ss[s].vars EXCEPT ![x] = IF @ = Undeclared THEN None ELSE @]
<1> DEFINE sc == [[ss[s] EXCEPT !.varcount = @ + 1] EXCEPT !.vars = vs]
<1>1. scope_declare_var(ss, s, x) = [ss EXCEPT ![s] = sc]
  BY Zenon DEF scope_declare_var
<1> HIDE DEF vs
<1>2. s \in 1..Len(ss) => Alike(ss[s], sc)
  <2>1. s \in 1..Len(ss) => ss[s] \in ScopeType  OBVIOUS
  <2> QED  BY <2>1 DEF Alike, ScopeType
<1> HIDE DEF sc
<1> DEFINE tt == [ss EXCEPT ![s] = sc]
<1>3. Len(tt) = Len(ss) /\ \A k \in 1..Len(ss) : tt[k] = IF k = s THEN sc ELSE ss[k]
  OBVIOUS
<1> HIDE DEF tt
<1>4. \A k \in 1..Len(ss) : Alike(ss[k], tt[k])
  BY <1>2, <1>3 DEF Alike
<1> QED  BY <1>1, <1>3, <1>4 DEF tt

(***************************************************************************)
(* Expressions, declarations and branches.                                 *)
(***************************************************************************)
Special == {"BLOCK", "CALL_EXPR", "PROGRAM"} \cup DeferTypes

NewOrdinary ==
  Len(stack') = Len(stack) + 1 => TypeOf(stack'[Len(stack) + 1].node) \notin DeferTypes

Quietly == FunctionsStay /\ AllAlike /\ NewOrdinary

LEMMA OrdinaryKid ==
  ASSUME NEW n \in Nodes, TypeOf(n) \notin {"BLOCK", "PROGRAM"},
         NEW k \in 1..Len(NodeData[n].kids)
  PROVE  TypeOf(NodeData[n].kids[k]) \notin DeferTypes
  BY DeclarationsAssumption DEF StatTypes, DeferTypes, Jumps

LEMMA FramesMade ==
  ASSUME IInv
  PROVE  /\ \A f : stack' = [stack EXCEPT ![Len(stack)] = f] => Len(stack') = Len(stack)
         /\ stack' = Front(stack) => Len(stack') = Len(stack) - 1
         /\ \A f, n, s : Evaluate(f, n, s) /\ TypeOf(n) \notin DeferTypes => NewOrdinary
<1>1. stack \in Seq(FrameType) /\ Len(stack) \in Nat \ {0}  BY StackFacts
<1>2. ASSUME NEW f, stack' = [stack EXCEPT ![Len(stack)] = f] PROVE Len(stack') = Len(stack)
  BY <1>1, <1>2
<1>3. stack' = Front(stack) => Len(stack') = Len(stack) - 1
  BY <1>1, FrontOfSeq
<1>4. ASSUME NEW f, NEW n, NEW s, Evaluate(f, n, s), TypeOf(n) \notin DeferTypes
      PROVE  NewOrdinary
  BY <1>4, PushedFrame DEF NewOrdinary
<1> QED  BY <1>2, <1>3, <1>4

LEMMA Ordinary ==
  ASSUME IInv,
         \/ \E how : Fail(how)
         \/ \E f : Resume(f)
         \/ \E r : Finish(r)
         \/ \E f, n, s : Evaluate(f, n, s) /\ TypeOf(n) \notin DeferTypes
  PROVE  NewOrdinary
<1>1. Len(stack) \in Nat  BY StackFacts
<1>2. ASSUME Len(stack') \in {Len(stack), Len(stack) - 1} PROVE NewOrdinary
  <2>1. Len(stack') # Len(stack) + 1  BY <1>1, <1>2
  <2> QED  BY <2>1 DEF NewOrdinary
<1>3. CASE \E how : Fail(how)
  <2>1. stack' = stack  BY <1>3 DEF Fail
  <2> QED  BY <1>2, <2>1
<1>4. CASE (\E f : Resume(f)) \/ (\E r : Finish(r))
  BY <1>2, <1>4, FramesMade DEF Resume, Finish
<1>5. CASE \E f, n, s : Evaluate(f, n, s) /\ TypeOf(n) \notin DeferTypes
  BY <1>5, FramesMade
<1> QED  BY <1>3, <1>4, <1>5

LEMMA NothingTouched ==
  ASSUME IInv, NewOrdinary, UNCHANGED <<scopes, fns>>
  PROVE  Quietly
<1>1. Len(fns) \in Nat  BY StackFacts
<1>2. AllAlike  BY DEF AllAlike, Alike
<1> QED  BY <1>1, <1>2 DEF Quietly, FunctionsStay

LEMMA FailsQuietly ==
  ASSUME IInv, NEW how, Fail(how)
  PROVE  Quietly
<1>1. UNCHANGED <<scopes, fns>>  BY DEF Fail
<1>2. NewOrdinary  BY Ordinary
<1> QED  BY <1>1, <1>2, NothingTouched

LEMMA DeliversQuietly ==
  ASSUME IInv, NEW o, Deliver(o)
  PROVE  Quietly
<1>1. CASE Fail(o.fault)  BY <1>1, FailsQuietly
<1>2. CASE Finish(Result(o.value, "none")) /\ UNCHANGED <<scopes, fns>>
  BY <1>2, Ordinary, NothingTouched
<1> QED  BY <1>1, <1>2 DEF Deliver

LEMMA QuietLeaf ==
  ASSUME IInv, EvaluateLeaf
  PROVE  Quietly /\ This.type \notin Special
<1>1. This.type \notin Special
  BY DEF EvaluateLeaf, EvaluateInteger, EvaluateFloat, EvaluateIdent, EvaluateDeclaration,
         EvaluateUnhandled, EvaluateNull, At, Unhandled, Special, DeferTypes, Jumps
<1>2. (\E o : Deliver(o)) \/ (\E how : Fail(how))
  BY DEF EvaluateLeaf, EvaluateInteger, EvaluateFloat, EvaluateIdent, EvaluateDeclaration,
         EvaluateUnhandled, EvaluateNull
<1> QED  BY <1>1, <1>2, DeliversQuietly, FailsQuietly

LEMMA QuietExpression ==
  ASSUME IInv, Expression
  PROVE  Quietly /\ This.type \notin Special
<1>0. /\ Top.node \in Nodes /\ This = NodeData[Top.node] /\ This.type = TypeOf(Top.node)
      /\ Top.vals \in Seq(Value) /\ scopes \in Seq(ScopeType) /\ Len(fns) \in Nat
  BY StackFacts DEF FrameType
<1>1. This.type \in Operations
  BY DEF Expression, CastUnsupported, EvaluateOperand, OperandValue, evaluate_bin_expr,
         evaluate_unary_expr, evaluate_cast_expr, evaluate_assign_expr, Complete, At, Operations
<1>2. This.type \notin Special  BY <1>1 DEF Operations, Special, DeferTypes, Jumps
<1>3. CASE EvaluateOperand
  <2>1. Operands + 1 \in 1..Len(This.kids)
    <3>1. Len(This.kids) \in Nat  BY <1>0, NodeFacts
    <3> QED  BY <1>0, <1>3, <3>1 DEF EvaluateOperand, Operands
  <2>2. TypeOf(This.kids[Operands + 1]) \notin DeferTypes
    BY <1>0, <1>2, <2>1, OrdinaryKid DEF Special
  <2>3. NewOrdinary  BY <1>3, <2>2, Ordinary DEF EvaluateOperand
  <2> QED  BY <1>2, <1>3, <2>3, NothingTouched DEF EvaluateOperand
<1>4. CASE OperandValue
  BY <1>2, <1>4, Ordinary, NothingTouched DEF OperandValue
<1>5. CASE evaluate_bin_expr \/ evaluate_unary_expr \/ evaluate_cast_expr
  <2>1. \E o : Deliver(o)
    BY <1>5 DEF evaluate_bin_expr, evaluate_unary_expr, evaluate_cast_expr
  <2> QED  BY <1>2, <2>1, DeliversQuietly
<1>6. CASE evaluate_assign_expr
  <2>1. \/ \E how : Fail(how)
        \/ \E v, r : /\ scopes' = scope_define_var(scopes, Top.scope, This.name, v)
                     /\ Finish(r) /\ fns' = fns
    BY <1>6 DEF evaluate_assign_expr
  <2>2. CASE \E how : Fail(how)  BY <1>2, <2>2, FailsQuietly
  <2>3. CASE \E v, r : /\ scopes' = scope_define_var(scopes, Top.scope, This.name, v)
                       /\ Finish(r) /\ fns' = fns
    <3>1. AllAlike  BY <1>0, <2>3, DefineAlike DEF AllAlike
    <3>2. NewOrdinary  BY <2>3, Ordinary
    <3> QED  BY <1>0, <1>2, <2>3, <3>1, <3>2 DEF Quietly, FunctionsStay
  <2> QED  BY <2>1, <2>2, <2>3
<1>7. CASE CastUnsupported  BY <1>2, <1>7, FailsQuietly DEF CastUnsupported
<1> QED  BY <1>3, <1>4, <1>5, <1>6, <1>7 DEF Expression

\* The value of a field stands on the right of an assignment.
LEMMA FieldValueNode ==
  ASSUME IInv, At("VAR_STAT", "fields"), FieldEntries # {}
  PROVE  TypeOf(NodeData[Entries[Min(FieldEntries)]].kids[2]) \notin DeferTypes
<1> DEFINE e == Entries[Min(FieldEntries)]
<1>1. /\ Top.node \in Nodes /\ This = NodeData[Top.node] /\ This.type = TypeOf(Top.node)
      /\ Frame(Top, scopes, fns)
  BY StackFacts
<1>2. This.type = "VAR_STAT" /\ Top.pc = "fields"  BY DEF At
<1>3. Instantiates(Top)  BY <1>1, <1>2 DEF Frame
<1>4. Arity("VAR_STAT", Len(This.kids))  BY <1>1, <1>2, NodeFacts
<1>5. This.kids[1] \in Nodes /\ TypeOf(This.kids[1]) \in {"NULL", "COMPOUND_LIT"}
  BY <1>1, <1>3, <1>4, NodeFacts DEF Arity, Instantiates
<1>6. Len(Entries) \in Nat /\ Arity(TypeOf(This.kids[1]), Len(Entries))
  BY <1>5, NodeFacts DEF Entries
<1>7. Min(FieldEntries) \in 1..Len(Entries)
  <2>1. FieldEntries \in SUBSET (1..Len(Entries))  BY DEF FieldEntries
  <2> QED  BY <1>6, <2>1, MinExists
<1>8. TypeOf(This.kids[1]) = "COMPOUND_LIT"  BY <1>5, <1>6, <1>7 DEF Arity
<1>9. e \in Nodes /\ TypeOf(e) = "ASSIGN_EXPR"
  BY <1>5, <1>7, <1>8, NodeFacts, NodesAssumption DEF Entries
<1> HIDE DEF e
<1>10. Arity("ASSIGN_EXPR", Len(NodeData[e].kids))  BY <1>9, NodeFacts
<1>11. 2 \in 1..Len(NodeData[e].kids)  BY <1>10 DEF Arity
<1>12. TypeOf(NodeData[e].kids[2]) \notin DeferTypes  BY <1>9, <1>11, OrdinaryKid
<1> QED  BY <1>12 DEF e

LEMMA QuietDeclaration ==
  ASSUME IInv, Declaration
  PROVE  Quietly /\ This.type \notin Special
<1>0. /\ Top.node \in Nodes /\ This = NodeData[Top.node] /\ This.type = TypeOf(Top.node)
      /\ scopes \in Seq(ScopeType) /\ Len(fns) \in Nat /\ fns \in Seq(FnType)
  BY StackFacts
<1>1. This.type \in {"VAR_STAT", "FUNC_STAT"}
  BY DEF Declaration, VarDeclare, VarDefine, StructField, StructFieldValue, StructDefine,
         evaluate_fn_stat, At
<1>2. This.type \notin Special  BY <1>1 DEF Special, DeferTypes, Jumps
<1>3. TypeOf(This.kids[1]) \notin DeferTypes
  <2>1. Arity(This.type, Len(This.kids))  BY <1>0, NodeFacts
  <2>2. 1 \in 1..Len(This.kids)  BY <1>1, <2>1 DEF Arity
  <2> QED  BY <1>0, <1>2, <2>2, OrdinaryKid DEF Special
<1>4. CASE VarDeclare
  <2>1. \/ \E how : Fail(how)
        \/ /\ scopes' = scope_declare_var(scopes, Top.scope, This.name) /\ fns' = fns
           /\ (\E f : Resume(f)) \/ (\E f : Evaluate(f, This.kids[1], Top.scope))
    BY <1>4 DEF VarDeclare
  <2>2. CASE \E how : Fail(how)  BY <1>2, <2>2, FailsQuietly
  <2>3. CASE /\ scopes' = scope_declare_var(scopes, Top.scope, This.name) /\ fns' = fns
             /\ (\E f : Resume(f)) \/ (\E f : Evaluate(f, This.kids[1], Top.scope))
    <3>1. AllAlike  BY <1>0, <2>3, DeclareAlike DEF AllAlike
    <3>2. NewOrdinary  BY <1>3, <2>3, Ordinary
    <3> QED  BY <1>0, <1>2, <2>3, <3>1, <3>2 DEF Quietly, FunctionsStay
  <2> QED  BY <2>1, <2>2, <2>3
<1>5. CASE VarDefine \/ StructDefine
  <2>1. \E v, r : /\ scopes' = scope_define_var(scopes, Top.scope, This.name, v)
                  /\ Finish(r) /\ fns' = fns
    BY <1>5 DEF VarDefine, StructDefine
  <2>2. AllAlike  BY <1>0, <2>1, DefineAlike DEF AllAlike
  <2>3. NewOrdinary  BY <2>1, Ordinary
  <2> QED  BY <1>0, <1>2, <2>1, <2>2, <2>3 DEF Quietly, FunctionsStay
<1>6. CASE StructField
  <2>1. At("VAR_STAT", "fields") /\ UNCHANGED <<scopes, fns>>  BY <1>6 DEF StructField
  <2>2. \/ \E how : Fail(how)
        \/ \E f : Resume(f)
        \/ /\ FieldEntries # {}
           /\ \E f : Evaluate(f, NodeData[Entries[Min(FieldEntries)]].kids[2], Top.scope)
    BY <1>6 DEF StructField
  <2>3. NewOrdinary  BY <2>1, <2>2, FieldValueNode, Ordinary
  <2> QED  BY <1>2, <2>1, <2>3, NothingTouched
<1>7. CASE StructFieldValue
  <2>1. \/ \E how : Fail(how)
        \/ (\E f : Resume(f)) /\ UNCHANGED <<scopes, fns>>
    BY <1>7 DEF StructFieldValue
  <2> QED  BY <1>2, <2>1, FailsQuietly, Ordinary, NothingTouched
<1>8. CASE evaluate_fn_stat
  <2>1. \/ \E how : Fail(how)
        \/ /\ fns' = Append(fns, [params |-> This.params, body |-> This.kids[1]])
           /\ \E v : scopes' = scope_define_var(scope_declare_var(scopes, Top.scope, This.name),
                                                Top.scope, This.name, v)
           /\ Finish(NoValue)
    BY <1>8 DEF evaluate_fn_stat
  <2>2. CASE \E how : Fail(how)  BY <1>2, <2>2, FailsQuietly
  <2>3. CASE /\ fns' = Append(fns, [params |-> This.params, body |-> This.kids[1]])
             /\ \E v : scopes' = scope_define_var(scope_declare_var(scopes, Top.scope, This.name),
                                                  Top.scope, This.name, v)
             /\ Finish(NoValue)
    <3> DEFINE tt == scope_declare_var(scopes, Top.scope, This.name)
               fn == [params |-> This.params, body |-> This.kids[1]]
    <3>1. Len(tt) = Len(scopes) /\ \A k \in 1..Len(scopes) : Alike(scopes[k], tt[k])
      BY <1>0, DeclareAlike
    <3>2. tt \in Seq(ScopeType)
      <4>1. This.name \in Names /\ Top.scope \in 1..Len(scopes)  BY <1>0, NodeFacts, StackFacts
      <4> QED  BY <1>0, <4>1, DeclareEvolves DEF Evolved
    <3> HIDE DEF tt
    <3>3. Len(scopes') = Len(tt) /\ \A k \in 1..Len(tt) : Alike(tt[k], scopes'[k])
      BY <2>3, <3>2, DefineAlike DEF tt
    <3>4. AllAlike  BY <3>1, <3>3 DEF AllAlike, Alike
    <3>5. FunctionsStay
      <4>1. fn \in FnType
        <5>1. Arity("FUNC_STAT", Len(This.kids))
          BY <1>0, <1>8, NodeFacts DEF evaluate_fn_stat, At
        <5> QED  BY <1>0, <5>1, NodeFacts DEF Arity, FnType
      <4> HIDE DEF fn
      <4>2. fns' = Append(fns, fn)  BY <2>3 DEF fn
      <4> QED  BY <1>0, <4>1, <4>2, AppendProperties DEF FunctionsStay
    <3>6. NewOrdinary  BY <2>3, Ordinary
    <3> QED  BY <1>2, <3>4, <3>5, <3>6 DEF Quietly
  <2> QED  BY <2>1, <2>2, <2>3
<1> QED  BY <1>4, <1>5, <1>6, <1>7, <1>8 DEF Declaration

LEMMA QuietBranching ==
  ASSUME IInv, Branching
  PROVE  Quietly /\ This.type \notin Special
<1>0. /\ Top.node \in Nodes /\ This = NodeData[Top.node] /\ This.type = TypeOf(Top.node)
      /\ ret.brk \in BreakTypes
  BY StackFacts DEF ResultType
<1>1. This.type \in {"IF_STAT", "WHILE_STAT"}
  BY DEF Branching, IfCondition, IfBranch, IfDone, WhileCondition, WhileTest, WhileBody, At
<1>2. This.type \notin Special  BY <1>1 DEF Special, DeferTypes, Jumps
<1>3. Arity(This.type, Len(This.kids)) /\ Len(This.kids) \in Nat  BY <1>0, NodeFacts
<1>4. ASSUME NEW k \in 1..Len(This.kids) PROVE TypeOf(This.kids[k]) \notin DeferTypes
  BY <1>0, <1>2, OrdinaryKid DEF Special
<1>5. \/ \E f : Resume(f)
      \/ \E r : Finish(r)
      \/ \E f, s : \E k \in 1..Len(This.kids) : Evaluate(f, This.kids[k], s)
  <2>1. CASE IfCondition \/ WhileCondition
    <3>1. 1 \in 1..Len(This.kids)  BY <1>1, <1>3 DEF Arity
    <3> QED  BY <2>1, <3>1 DEF IfCondition, WhileCondition
  <2>2. CASE IfBranch
    <3>1. 2 \in 1..Len(This.kids) /\ 3 \in 1..Len(This.kids)
      BY <1>3, <2>2 DEF IfBranch, At, Arity
    <3> QED  BY <2>2, <3>1 DEF IfBranch
  <2>3. CASE WhileTest
    <3>1. 2 \in 1..Len(This.kids)  BY <1>3, <2>3 DEF WhileTest, At, Arity
    <3> QED  BY <2>3, <3>1 DEF WhileTest
  <2>4. CASE IfDone \/ WhileBody
    <3>1. (\E f : Resume(f)) \/ (\E r : Finish(r))
      BY <1>0, <2>4 DEF IfDone, WhileBody, BreakTypes
    <3> QED  BY <3>1
  <2> QED  BY <2>1, <2>2, <2>3, <2>4 DEF Branching
<1>6. NewOrdinary  BY <1>4, <1>5, Ordinary
<1>7. UNCHANGED <<scopes, fns>>
  BY DEF Branching, IfCondition, IfBranch, IfDone, WhileCondition, WhileTest, WhileBody
<1> QED  BY <1>2, <1>6, <1>7, NothingTouched

(***************************************************************************)
(* Blocks, calls and the program, which own scopes.                        *)
(***************************************************************************)
OthersAlike ==
  \A k \in 1..(Len(stack) - 1) :
    Manages(stack[k]) => Alike(scopes[Home(stack[k])], scopes'[Home(stack[k])])

LEMMA OthersAlikeBelow ==
  ASSUME IInv, Manages(Top),
         \A s \in 1..Len(scopes) : s < Home(Top) => Alike(scopes[s], scopes'[s])
  PROVE  OthersAlike
<1> DEFINE N == Len(stack)
<1>1. N \in Nat \ {0} /\ Top = stack[N]  BY StackFacts
<1>2. ASSUME NEW k \in 1..(N - 1), Manages(stack[k])
      PROVE  Alike(scopes[Home(stack[k])], scopes'[Home(stack[k])])
  <2>1. k \in 1..N /\ N \in 1..N /\ k < N  BY <1>1
  <2>2. Home(stack[k]) \in 1..Len(scopes)  BY <1>2, <2>1, Managers
  <2>3. Home(stack[k]) < Home(Top)  BY <1>1, <1>2, <2>1, HomesApart
  <2> QED  BY <2>2, <2>3
<1> QED  BY <1>2 DEF OthersAlike

LEMMA OthersAlikeAll ==
  ASSUME IInv, AllAlike
  PROVE  OthersAlike
<1> DEFINE N == Len(stack)
<1>1. N \in Nat \ {0}  BY StackFacts
<1>2. ASSUME NEW k \in 1..(N - 1), Manages(stack[k])
      PROVE  Alike(scopes[Home(stack[k])], scopes'[Home(stack[k])])
  <2>1. k \in 1..N  BY <1>1
  <2>2. Home(stack[k]) \in 1..Len(scopes)  BY <1>2, <2>1, Managers
  <2> QED  BY <2>2 DEF AllAlike
<1> QED  BY <1>2 DEF OthersAlike

LEMMA OwnerSteps ==
  ASSUME IInv, Next, Tended, FunctionsStay, OthersAlike, This.type \notin DeferTypes,
         Len(stack') = Len(stack) =>
           Innermost(stack'[Len(stack)], scopes', fns', ret'.brk = "return"),
         Len(stack') = Len(stack) + 1 =>
           Pair(stack'[Len(stack)], stack'[Len(stack) + 1], scopes', fns')
  PROVE  Tended'
<1> DEFINE N == Len(stack)
<1>1. N \in Nat \ {0}  BY StackFacts
<1>2. Len(stack') \in Nat \ {0}
  <2>1. IInv'  BY NextMoves, MoveKeeps
  <2> QED  BY <2>1 DEF IInv, TypeOK, FramesOK
<1>3. ASSUME NEW k \in 1..(N - 2), Manages(stack[k])
      PROVE  Alike(scopes[Home(stack[k])], scopes'[Home(stack[k])])
  <2>1. k \in 1..(N - 1)  BY <1>1
  <2> QED  BY <1>3, <2>1 DEF OthersAlike
<1>4. ASSUME N > 1
      PROVE  /\ Len(stack') >= N => Pair(stack[N - 1], stack'[N], scopes', fns')
             /\ Innermost(stack[N - 1], scopes', fns', ret'.brk = "return")
  <2>1. N - 1 \in 1..(N - 1)  BY <1>1, <1>4
  <2>2. Manages(stack[N - 1]) =>
          Alike(scopes[Home(stack[N - 1])], scopes'[Home(stack[N - 1])])
    BY <2>1 DEF OthersAlike
  <2> QED  BY <1>4, <2>2, CallerStays
<1>5. Len(stack') = N - 1 => Innermost(stack[N - 1], scopes', fns', ret'.brk = "return")
  <2>1. Len(stack') = N - 1 => N > 1  BY <1>1, <1>2
  <2> QED  BY <1>4, <2>1
<1> QED  BY <1>3, <1>4, <1>5, Assembled

LEMMA ResumedFrame ==
  ASSUME IInv, NEW f, Resume(f)
  PROVE  Len(stack') = Len(stack) /\ stack'[Len(stack)] = f
<1>1. stack \in Seq(FrameType) /\ Len(stack) \in Nat \ {0}  BY StackFacts
<1>2. stack' = [stack EXCEPT ![Len(stack)] = f]  BY DEF Resume
<1> QED  BY <1>1, <1>2

LEMMA PushedFrames ==
  ASSUME IInv, NEW f, NEW n, NEW s, Evaluate(f, n, s), status' = "run"
  PROVE  /\ Len(stack') = Len(stack) + 1
         /\ stack'[Len(stack)] = f /\ stack'[Len(stack) + 1] = NewFrame(n, s)
<1> DEFINE new == NewFrame(n, s)
<1> DEFINE S == FrameType \cup {f, new}
<1> DEFINE q == [stack EXCEPT ![Len(stack)] = f]
<1>1. stack \in Seq(FrameType) /\ Len(stack) \in Nat \ {0}  BY StackFacts
<1>2. stack' = Append(q, new)  BY DEF Evaluate
<1> HIDE DEF new
<1>3. q \in Seq(S) /\ Len(q) = Len(stack) /\ q[Len(stack)] = f
  <2>1. stack \in Seq(S)  BY <1>1
  <2> HIDE DEF S
  <2>2. f \in S  BY DEF S
  <2> QED  BY <1>1, <2>1, <2>2
<1>4. new \in S  OBVIOUS
<1> HIDE DEF q, S
<1>5. /\ Len(Append(q, new)) = Len(q) + 1 /\ Append(q, new)[Len(q) + 1] = new
      /\ Append(q, new)[Len(stack)] = q[Len(stack)]
  <2>1. Len(stack) \in 1..Len(q)  BY <1>1, <1>3
  <2> QED  BY <1>3, <1>4, <2>1, AppendProperties
<1> QED  BY <1>2, <1>3, <1>5 DEF new

LEMMA OwnerResumes ==
  ASSUME IInv, Next, Tended, fns' = fns, OthersAlike, This.type \notin DeferTypes,
         NEW f, Resume(f), Manages(f) => Alone(f, scopes'[Home(f)], fns', FALSE)
  PROVE  Tended'
<1>1. Len(stack') = Len(stack) /\ stack'[Len(stack)] = f  BY ResumedFrame
<1>2. Len(stack) \in Nat /\ Len(fns) \in Nat  BY StackFacts
<1>3. Manages(f) => Alone(f, scopes'[Home(f)], fns', ret'.brk = "return")
  <2>1. Alike(scopes'[Home(f)], scopes'[Home(f)])  BY DEF Alike
  <2> QED  BY <2>1, AloneStays
<1>4. Innermost(stack'[Len(stack)], scopes', fns', ret'.brk = "return")
  BY <1>1, <1>3 DEF Innermost
<1>5. Len(stack') # Len(stack) + 1  BY <1>1, <1>2
<1>6. FunctionsStay  BY <1>2 DEF FunctionsStay
<1> QED  BY <1>4, <1>5, <1>6, OwnerSteps

LEMMA OwnerEvaluates ==
  ASSUME IInv, Next, Tended, fns' = fns, OthersAlike, This.type \notin DeferTypes,
         status' = "run", NEW f, NEW n, NEW s, Evaluate(f, n, s),
         Pair(f, NewFrame(n, s), scopes', fns')
  PROVE  Tended'
<1>1. /\ Len(stack') = Len(stack) + 1
      /\ stack'[Len(stack)] = f /\ stack'[Len(stack) + 1] = NewFrame(n, s)
  BY PushedFrames
<1>2. Len(stack) \in Nat /\ Len(fns) \in Nat  BY StackFacts
<1>3. Len(stack') # Len(stack)  BY <1>1, <1>2
<1>4. FunctionsStay  BY <1>2 DEF FunctionsStay
<1>5. Pair(stack'[Len(stack)], stack'[Len(stack) + 1], scopes', fns')  BY <1>1
<1> QED  BY <1>3, <1>4, <1>5, OwnerSteps

\* What is known of the scope the innermost frame owns.
LEMMA OwnScope ==
  ASSUME IInv, Tended, Manages(Top)
  PROVE  /\ Alone(Top, scopes[Home(Top)], fns, ret.brk = "return")
         /\ Home(Top) \in 1..Len(scopes) /\ scopes[Home(Top)] \in ScopeType
<1>1. Len(stack) \in 1..Len(stack) /\ Top = stack[Len(stack)] /\ scopes \in Seq(ScopeType)
  BY StackFacts
<1>2. Home(Top) \in 1..Len(scopes)  BY <1>1, Managers
<1> QED  BY <1>1, <1>2 DEF Tended, Innermost

LEMMA Owner ==
  ASSUME IInv, Top.pc \in {"args", "arg", "body", "stat", "leave", "free", "defers"},
         Top.pc = "defers" => This.type \notin Jumps
  PROVE  /\ This.type \in {"BLOCK", "CALL_EXPR", "PROGRAM"} /\ This.type \notin DeferTypes
         /\ Manages(Top) /\ Home(Top) = Top.sub /\ Body = BodyOf(Top, fns)
<1>1. Frame(Top, scopes, fns) /\ This.type = TypeOf(Top.node) /\ This = NodeData[Top.node]
  BY StackFacts
<1>2. Top.pc \in LabelsOf(This.type)  BY <1>1 DEF Frame
<1>3. This.type \notin Jumps
  <2>1. CASE Top.pc = "defers"  BY <2>1
  <2>2. CASE Top.pc # "defers"  BY <1>2, <2>2 DEF LabelsOf, Jumps, Operations
  <2> QED  BY <2>1, <2>2
<1>4. /\ This.type \in {"BLOCK", "CALL_EXPR", "PROGRAM"} /\ Opened(Top)
      /\ This.type # "PROGRAM" => Top.sub > 1
  BY <1>3, OpenFrame
<1>5. This.type = "PROGRAM" => Top.sub = 1  BY <1>1, <1>4 DEF Frame, SubOf
<1> QED  BY <1>1, <1>3, <1>4, <1>5 DEF Manages, Home, Body, BodyOf, DeferTypes

LEMMA LabelOwner ==
  ASSUME Top \in FrameType, NEW pc, NEW i, NEW last
  PROVE  LET f == LabelFrame(pc, i, last) IN
         /\ f.pc = pc /\ f.i = i
         /\ Manages(f) <=> Manages(Top)
         /\ Home(f) = Home(Top)
         /\ \A fs : BodyOf(f, fs) = BodyOf(Top, fs)
<1> DEFINE f == LabelFrame(pc, i, last)
<1>1. f.pc = pc /\ f.i = i /\ f.node = Top.node /\ f.sub = Top.sub /\ f.fn = Top.fn
  BY DEF LabelFrame, FrameType
<1> HIDE DEF f
<1>2. /\ Manages(f) <=> Manages(Top)
      /\ Home(f) = Home(Top)
      /\ \A fs : BodyOf(f, fs) = BodyOf(Top, fs)
  BY <1>1 DEF Manages, Home, BodyOf
<1> QED  BY <1>1, <1>2 DEF f

LEMMA SameAlike == UNCHANGED scopes => AllAlike
  BY DEF AllAlike, Alike

\* The owner goes on, and its scope is as it was.
LEMMA OwnerOnward ==
  ASSUME IInv, Next, Tended, UNCHANGED <<scopes, fns>>, This.type \notin DeferTypes,
         NEW pc, NEW i, NEW last, Resume(LabelFrame(pc, i, last)), Manages(Top),
         Alone(LabelFrame(pc, i, last), scopes[Home(Top)], fns, FALSE)
  PROVE  Tended'
<1>1. Top \in FrameType  BY StackFacts
<1> DEFINE f == LabelFrame(pc, i, last)
<1>2. Home(f) = Home(Top)  BY <1>1, LabelOwner
<1> HIDE DEF f
<1>3. Alone(f, scopes'[Home(f)], fns', FALSE)  BY <1>2 DEF f
<1>4. OthersAlike  BY SameAlike, OthersAlikeAll
<1>5. Resume(f)  BY DEF f
<1> QED  BY <1>3, <1>4, <1>5, OwnerResumes

LEMMA BodyBegins ==
  ASSUME IInv, Next, Tended, CallBody
  PROVE  Tended'
<1>1. /\ Top.pc = "args" /\ UNCHANGED <<scopes, fns>>
      /\ Resume([Top EXCEPT !.pc = "body", !.i = 0])
  BY DEF CallBody, At
<1>2. Top \in FrameType  BY StackFacts
<1>3. This.type \notin DeferTypes /\ Manages(Top)  BY <1>1, Owner
<1> DEFINE f == LabelFrame("body", 0, Top.last)
<1>4. [Top EXCEPT !.pc = "body", !.i = 0] = f  BY <1>2, LabelFrames
<1>5. Fresh(scopes[Home(Top)])  BY <1>1, <1>3, OwnScope DEF Alone
<1>6. f.pc = "body"  BY <1>2, LabelOwner
<1> HIDE DEF f
<1>7. Alone(f, scopes[Home(Top)], fns, FALSE)  BY <1>5, <1>6 DEF Alone
<1>8. Resume(f)  BY <1>1, <1>4
<1> QED  BY <1>1, <1>3, <1>7, <1>8, OwnerOnward DEF f

LEMMA StatementEnds ==
  ASSUME IInv, Next, Tended, StatementDone
  PROVE  Tended'
<1> DEFINE pc == IF ret.brk = "return" THEN "leave" ELSE "body"
<1>1. /\ Top.pc = "stat" /\ UNCHANGED <<scopes, fns>>
      /\ Resume([Top EXCEPT !.pc = pc, !.last = ret])
  BY DEF StatementDone
<1>2. Top \in FrameType  BY StackFacts
<1>3. This.type \notin DeferTypes /\ Manages(Top)  BY <1>1, Owner
<1> DEFINE f == LabelFrame(pc, Top.i, ret)
<1>4. [Top EXCEPT !.pc = pc, !.last = ret] = f  BY <1>2, LabelFrames
<1> DEFINE sc == scopes[Home(Top)]
<1>5. Fresh(sc) \/ (Spent(sc) /\ (ret.brk = "return" \/ Harmless(Top, fns)))
  BY <1>1, <1>3, OwnScope DEF Alone
<1>6. f.pc = pc /\ f.i = Top.i /\ BodyOf(f, fns) = BodyOf(Top, fns)  BY <1>2, LabelOwner
<1>7. Resume(f)  BY <1>1, <1>4
<1>8. f.pc \in {"leave", "body"} /\ (f.pc = "body" => ret.brk # "return")  BY <1>6
<1> HIDE DEF f, pc
<1>9. Harmless(Top, fns) => Harmless(f, fns)  BY <1>6 DEF Harmless
<1>10. Alone(f, sc, fns, FALSE)  BY <1>5, <1>8, <1>9 DEF Alone
<1> QED  BY <1>1, <1>3, <1>7, <1>10, OwnerOnward DEF f

\* A scope that no jump has marked still has all its defers to run.
LEMMA BodyEnds ==
  ASSUME IInv, Next, Tended, Leave
  PROVE  Tended'
<1> DEFINE sc == scopes[Home(Top)]
<1> DEFINE d == Len(scopes[Top.sub].defers)
<1>1. /\ Top.pc = "leave" \/ (Top.pc = "body" /\ Top.i = Len(Body))
      /\ UNCHANGED <<scopes, fns>>
      /\ IF scopes[Top.sub].is_deferred THEN Resume([Top EXCEPT !.pc = "free"])
         ELSE Resume([Top EXCEPT !.pc = "defers", !.i = d])
  BY DEF Leave, BodyDone
<1>2. Top \in FrameType  BY StackFacts
<1>3. This.type \notin DeferTypes /\ Manages(Top) /\ Home(Top) = Top.sub  BY <1>1, Owner
<1>4. /\ sc \in ScopeType
      /\ Fresh(sc) \/ Spent(sc)
  BY <1>1, <1>3, OwnScope DEF Alone
<1>5. CASE sc.is_deferred
  <2> DEFINE f == LabelFrame("free", Top.i, Top.last)
  <2>1. Left(sc) = {}  BY <1>4, <1>5 DEF Fresh, Spent
  <2>2. Resume(f)  BY <1>1, <1>2, <1>3, <1>5, LabelFrames
  <2>3. f.pc = "free"  BY <1>2, LabelOwner
  <2> HIDE DEF f
  <2>4. Alone(f, sc, fns, FALSE)  BY <2>1, <2>3 DEF Alone
  <2> QED  BY <1>1, <1>3, <2>2, <2>4, OwnerOnward DEF f
<1>6. CASE ~sc.is_deferred
  <2> DEFINE f == LabelFrame("defers", d, Top.last)
  <2>1. Left(sc) = 1..d
    <3>1. sc.ran = <<>>  BY <1>4, <1>6 DEF Fresh, Spent
    <3>2. ToSet(<<>>) = {}  BY DEF ToSet
    <3> QED  BY <1>3, <3>1, <3>2 DEF Left
  <2>2. Resume(f)  BY <1>1, <1>2, <1>3, <1>6, LabelFrames
  <2>3. f.pc = "defers" /\ f.i = d  BY <1>2, LabelOwner
  <2> HIDE DEF f
  <2>4. Alone(f, sc, fns, FALSE)  BY <2>1, <2>3 DEF Alone
  <2> QED  BY <1>1, <1>3, <2>2, <2>4, OwnerOnward DEF f
<1> QED  BY <1>5, <1>6

(***************************************************************************)
(* A new scope has nothing to run, and is not seen by those below.         *)
(***************************************************************************)
LEMMA ScopeOpens ==
  ASSUME IInv, Next, Tended, fns' = fns, This.type \in {"BLOCK", "CALL_EXPR"},
         NEW p \in 1..Len(scopes), scopes' = NewScope(scopes, p), NEW f, Resume(f),
         f.node = Top.node, f.sub = Len(scopes) + 1, f.pc \in {"body", "args"}
  PROVE  Tended'
<1>1. /\ Len(scopes) \in Nat \ {0} /\ Len(scopes') = Len(scopes) + 1
      /\ \A s \in 1..Len(scopes) : scopes'[s] = scopes[s]
      /\ \E c : scopes'[Len(scopes) + 1] = create_scope(c)
  BY NewScopeFacts, StackFacts
<1>2. Fresh(scopes'[Len(scopes) + 1])  BY <1>1 DEF create_scope, Fresh
<1>3. This.type = TypeOf(Top.node)  BY StackFacts
<1>4. Home(f) = Len(scopes) + 1  BY <1>3 DEF Home
<1>5. Alone(f, scopes'[Home(f)], fns', FALSE)  BY <1>2, <1>4 DEF Alone
<1>6. OthersAlike
  <2> DEFINE N == Len(stack)
  <2>1. N \in Nat \ {0}  BY StackFacts
  <2>2. ASSUME NEW k \in 1..(N - 1), Manages(stack[k])
        PROVE  Alike(scopes[Home(stack[k])], scopes'[Home(stack[k])])
    <3>1. k \in 1..N  BY <2>1
    <3>2. Home(stack[k]) \in 1..Len(scopes)  BY <2>2, <3>1, Managers
    <3> QED  BY <1>1, <3>2 DEF Alike
  <2> QED  BY <2>2 DEF OthersAlike
<1>7. This.type \notin DeferTypes  BY DEF DeferTypes, Jumps
<1> QED  BY <1>5, <1>6, <1>7, OwnerResumes

LEMMA ScopesOpen ==
  ASSUME IInv, Next, Tended, BlockEnter \/ CallScope, status' = "run"
  PROVE  Tended'
<1>1. Top \in FrameType /\ Top.scope \in 1..Len(scopes) /\ Len(scopes) \in Nat \ {0}
  BY StackFacts
<1>2. CASE BlockEnter
  <2> DEFINE f == [Top EXCEPT !.sub = Len(scopes) + 1, !.pc = "body"]
  <2>1. /\ This.type = "BLOCK" /\ scopes' = NewScope(scopes, Top.scope) /\ Resume(f)
        /\ fns' = fns
    BY <1>2 DEF BlockEnter, At
  <2>2. f.node = Top.node /\ f.sub = Len(scopes) + 1 /\ f.pc = "body"  BY <1>1 DEF FrameType
  <2> HIDE DEF f
  <2> QED  BY <1>1, <2>1, <2>2, ScopeOpens
<1>3. CASE CallScope
  <2>1. This.type = "CALL_EXPR" /\ status = "run"  BY <1>3 DEF CallScope, At
  <2>2. ~Fail("crash")  BY DEF Fail
  <2>3. /\ scopes' = NewScope(scopes, 1) /\ fns' = fns
        /\ \E k : Resume([Top EXCEPT !.sub = Len(scopes) + 1, !.fn = k, !.pc = "args"])
    BY <1>3, <2>2 DEF CallScope
  <2>4. PICK k : Resume([Top EXCEPT !.sub = Len(scopes) + 1, !.fn = k, !.pc = "args"])
    BY <2>3
  <2> DEFINE f == [Top EXCEPT !.sub = Len(scopes) + 1, !.fn = k, !.pc = "args"]
  <2>5. f.node = Top.node /\ f.sub = Len(scopes) + 1 /\ f.pc = "args"  BY <1>1 DEF FrameType
  <2>6. Resume(f)  BY <2>4
  <2> HIDE DEF f
  <2>7. 1 \in 1..Len(scopes)  BY <1>1
  <2> QED  BY <2>1, <2>3, <2>5, <2>6, <2>7, ScopeOpens
<1> QED  BY <1>2, <1>3

(***************************************************************************)
(* The callee, the arguments and the parameters.                           *)
(***************************************************************************)
LEMMA CallKid ==
  ASSUME IInv, This.type = "CALL_EXPR", NEW k \in Nat \ {0}, k <= Len(This.kids)
  PROVE  TypeOf(This.kids[k]) \notin DeferTypes
<1>1. Top.node \in Nodes /\ This = NodeData[Top.node] /\ This.type = TypeOf(Top.node)
  BY StackFacts
<1>2. k \in 1..Len(NodeData[Top.node].kids)
  <2>1. Len(This.kids) \in Nat  BY <1>1, NodeFacts
  <2> QED  BY <1>1, <2>1
<1> QED  BY <1>1, <1>2, OrdinaryKid

LEMMA CalleeBegins ==
  ASSUME IInv, Next, Tended, CallEnter, status' = "run"
  PROVE  Tended'
<1>1. /\ This.type = "CALL_EXPR" /\ Top.pc = "enter" /\ UNCHANGED <<scopes, fns>>
      /\ Evaluate([Top EXCEPT !.pc = "callee"], This.kids[1], Top.scope)
  BY DEF CallEnter, At, Fail
<1>2. /\ Top \in FrameType /\ This.type = TypeOf(Top.node) /\ This = NodeData[Top.node]
      /\ Frame(Top, scopes, fns) /\ Top.node \in Nodes
  BY StackFacts
<1> DEFINE f == [Top EXCEPT !.pc = "callee"]
           n == This.kids[1]
<1>3. Top.sub = 0  BY <1>1, <1>2 DEF Frame, SubOf, Opened
<1>4. f.node = Top.node /\ f.sub = 0  BY <1>2, <1>3 DEF FrameType
<1>5. ~Manages(f)  BY <1>1, <1>2, <1>4 DEF Manages
<1>6. TypeOf(n) \notin DeferTypes
  <2>1. Arity("CALL_EXPR", Len(This.kids)) /\ Len(This.kids) \in Nat  BY <1>1, <1>2, NodeFacts
  <2>2. 1 <= Len(This.kids)  BY <2>1 DEF Arity
  <2> QED  BY <1>1, <2>2, CallKid
<1>7. Evaluate(f, n, Top.scope)  BY <1>1
<1> HIDE DEF f, n
<1>8. NewFrame(n, Top.scope).node = n  BY DEF NewFrame
<1>9. Pair(f, NewFrame(n, Top.scope), scopes', fns')  BY <1>5, <1>6, <1>8 DEF Pair
<1>10. This.type \notin DeferTypes  BY <1>1 DEF DeferTypes, Jumps
<1>11. OthersAlike  BY <1>1, SameAlike, OthersAlikeAll
<1> QED  BY <1>1, <1>7, <1>9, <1>10, <1>11, OwnerEvaluates

LEMMA ArgumentBegins ==
  ASSUME IInv, Next, Tended, CallArgument, status' = "run"
  PROVE  Tended'
<1>1. /\ This.type = "CALL_EXPR" /\ Top.pc = "args" /\ UNCHANGED <<scopes, fns>>
      /\ Top.i < Len(This.kids) - 1
      /\ Evaluate([Top EXCEPT !.pc = "arg"], This.kids[Top.i + 2], Top.sub)
  BY DEF CallArgument, At
<1>2. Top \in FrameType /\ Top.node \in Nodes /\ This = NodeData[Top.node]  BY StackFacts
<1>3. This.type \notin DeferTypes /\ Manages(Top)  BY <1>1, Owner
<1> DEFINE f == LabelFrame("arg", Top.i, Top.last)
           n == This.kids[Top.i + 2]
<1>4. f.pc = "arg" /\ Home(f) = Home(Top)  BY <1>2, LabelOwner
<1>5. Fresh(scopes[Home(Top)])  BY <1>1, <1>3, OwnScope DEF Alone
<1>6. TypeOf(n) \notin DeferTypes
  <2>1. Len(This.kids) \in Nat /\ Top.i \in Nat  BY <1>2, NodeFacts DEF FrameType
  <2>2. Top.i + 2 \in Nat \ {0} /\ Top.i + 2 <= Len(This.kids)  BY <1>1, <2>1
  <2> QED  BY <1>1, <2>2, CallKid
<1>7. Evaluate(f, n, Top.sub)  BY <1>1, <1>2, LabelFrames
<1> HIDE DEF f, n
<1>8. NewFrame(n, Top.sub).node = n  BY DEF NewFrame
<1>9. Alone(f, scopes'[Home(f)], fns', FALSE)  BY <1>1, <1>4, <1>5 DEF Alone
<1>10. Pair(f, NewFrame(n, Top.sub), scopes', fns')  BY <1>6, <1>8, <1>9 DEF Pair
<1>11. OthersAlike  BY <1>1, SameAlike, OthersAlikeAll
<1> QED  BY <1>1, <1>3, <1>7, <1>10, <1>11, OwnerEvaluates

LEMMA BindAlike ==
  ASSUME IInv, CallBind, status' = "run"
  PROVE  AllAlike /\ fns' = fns /\ Resume([Top EXCEPT !.pc = "args", !.i = @ + 1])
<1>1. /\ Top.sub \in 1..Len(scopes) /\ scopes \in Seq(ScopeType) /\ fns \in Seq(FnType)
      /\ Top.fn \in 1..Len(fns) /\ Top.i \in Nat
  <2>1. Top.pc = "arg"  BY DEF CallBind, At
  <2>2. This.type = "CALL_EXPR"  BY DEF CallBind, At
  <2>3. This.type \notin Jumps  BY <2>2 DEF Jumps
  <2> QED  BY <2>1, <2>2, <2>3, OpenFrame, StackFacts DEF FrameType
<1> DEFINE x == fns[Top.fn].params[Top.i + 1]
           tt == scope_declare_var(scopes, Top.sub, x)
<1>2. /\ Top.i < Len(fns[Top.fn].params)
      /\ scopes' = scope_define_var(tt, Top.sub, x, ret.value)
      /\ fns' = fns /\ Resume([Top EXCEPT !.pc = "args", !.i = @ + 1])
  <2>1. ~Fail("crash") /\ ~Fail("abort")  BY DEF Fail
  <2>2. /\ ~(Top.i >= Len(fns[Top.fn].params))
        /\ scopes' = scope_define_var(tt, Top.sub, x, ret.value)
        /\ fns' = fns /\ Resume([Top EXCEPT !.pc = "args", !.i = @ + 1])
    BY <2>1, Zenon DEF CallBind
  <2>3. Len(fns[Top.fn].params) \in Nat
    <3>1. fns[Top.fn] \in FnType  BY <1>1
    <3>2. fns[Top.fn].params \in Seq(Names)  BY <3>1 DEF FnType
    <3> QED  BY <3>2
  <2> QED  BY <1>1, <2>2, <2>3
<1>3. x \in Names
  <2>1. fns[Top.fn] \in FnType  BY <1>1
  <2>2. fns[Top.fn].params \in Seq(Names)  BY <2>1 DEF FnType
  <2>3. Top.i + 1 \in 1..Len(fns[Top.fn].params)  BY <1>1, <1>2, <2>2
  <2> QED  BY <2>2, <2>3
<1> HIDE DEF x
<1>4. Len(tt) = Len(scopes) /\ \A k \in 1..Len(scopes) : Alike(scopes[k], tt[k])
  BY <1>1, DeclareAlike
<1>5. tt \in Seq(ScopeType)  BY <1>1, <1>3, DeclareEvolves DEF Evolved
<1> HIDE DEF tt
<1>6. Len(scopes') = Len(tt) /\ \A k \in 1..Len(tt) : Alike(tt[k], scopes'[k])
  BY <1>2, <1>5, DefineAlike
<1>7. AllAlike  BY <1>4, <1>6 DEF AllAlike, Alike
<1> QED  BY <1>2, <1>7

LEMMA ArgumentBinds ==
  ASSUME IInv, Next, Tended, CallBind, status' = "run"
  PROVE  Tended'
<1>1. Top.pc = "arg" /\ fns' = fns /\ AllAlike
  BY BindAlike DEF CallBind, At
<1>2. Top \in FrameType  BY StackFacts
<1>3. This.type \notin DeferTypes /\ Manages(Top)  BY <1>1, Owner
<1>4. Fresh(scopes[Home(Top)]) /\ Home(Top) \in 1..Len(scopes)
  BY <1>1, <1>3, OwnScope DEF Alone
<1> DEFINE f == LabelFrame("args", Top.i + 1, Top.last)
<1>5. [Top EXCEPT !.pc = "args", !.i = @ + 1] = f  BY <1>2 DEF FrameType, LabelFrame
<1>6. f.pc = "args" /\ Home(f) = Home(Top)  BY <1>2, LabelOwner
<1>7. Resume(f)  BY <1>5, BindAlike
<1> HIDE DEF f
<1>8. Fresh(scopes'[Home(f)])  BY <1>1, <1>4, <1>6 DEF AllAlike, Alike, Fresh
<1>9. Alone(f, scopes'[Home(f)], fns', FALSE)  BY <1>6, <1>8 DEF Alone
<1>10. OthersAlike  BY <1>1, OthersAlikeAll
<1> QED  BY <1>1, <1>3, <1>7, <1>9, <1>10, OwnerResumes

(***************************************************************************)
(* Statements: one about defers comes only while the scope is untouched.   *)
(***************************************************************************)
LEMMA StatementBegins ==
  ASSUME IInv, Next, Tended, Statement, status' = "run"
  PROVE  Tended'
<1> DEFINE n == Body[Top.i + 1]
<1> DEFINE f == LabelFrame("stat", Top.i + 1, Top.last)
<1> DEFINE g == NewFrame(n, Top.sub)
<1> DEFINE sc == scopes[Home(Top)]
<1>1. /\ Top.pc = "body" /\ UNCHANGED <<scopes, fns>> /\ Top.i < Len(Body)
      /\ Evaluate([Top EXCEPT !.pc = "stat", !.i = @ + 1], n, Top.sub)
  BY DEF Statement
<1>2. Top \in FrameType /\ Top.i \in Nat  BY StackFacts DEF FrameType
<1>3. This.type \notin DeferTypes /\ Manages(Top) /\ Home(Top) = Top.sub
      /\ Body = BodyOf(Top, fns)
  BY <1>1, Owner
<1>4. [Top EXCEPT !.pc = "stat", !.i = @ + 1] = f  BY <1>2 DEF FrameType, LabelFrame
<1>5. /\ f.pc = "stat" /\ f.i = Top.i + 1 /\ Manages(f) /\ Home(f) = Home(Top)
      /\ BodyOf(f, fns) = Body
  BY <1>2, <1>3, LabelOwner
<1>6. g.node = n /\ g.scope = Top.sub /\ g.pc = "enter"  BY DEF NewFrame
<1>7. Evaluate(f, n, Top.sub)  BY <1>1, <1>4
<1>8. Fresh(sc) \/ (Spent(sc) /\ Harmless(Top, fns))
  BY <1>1, <1>3, OwnScope DEF Alone
<1>9. Len(Body) \in Nat
  <2>1. PICK b \in Nodes : Body = NodeData[b].kids
    <3>1. CASE This.type = "BLOCK"  BY <3>1, StackFacts DEF Body
    <3>2. CASE This.type # "BLOCK"
      <4>1. Top.fn \in 1..Len(fns) /\ fns \in Seq(FnType)
        <5>1. This.type \in {"BLOCK", "CALL_EXPR", "PROGRAM"} /\ This.type \notin DeferTypes
          BY <1>1, Owner
        <5>2. This.type \notin Jumps  BY <5>1 DEF DeferTypes
        <5> QED  BY <1>1, <3>2, <5>1, <5>2, OpenFrame, StackFacts
      <4>2. fns[Top.fn] \in FnType  BY <4>1
      <4>3. fns[Top.fn].body \in Nodes  BY <4>2 DEF FnType
      <4> QED  BY <3>2, <4>3 DEF Body
    <3> QED  BY <3>1, <3>2
  <2> QED  BY <2>1, NodeFacts
<1> HIDE DEF f, g
<1>10. Harmless(Top, fns) => TypeOf(n) \notin DeferTypes /\ Harmless(f, fns)
  <2> DEFINE L == Len(Body)
             i == Top.i
  <2>1. i \in Nat /\ L \in Nat /\ i < L  BY <1>1, <1>2, <1>9
  <2>2. Harmless(Top, fns) <=> \A m \in (i + 1)..L : TypeOf(Body[m]) \notin DeferTypes
    BY <1>3 DEF Harmless
  <2>3. Harmless(f, fns) <=> \A m \in ((i + 1) + 1)..L : TypeOf(Body[m]) \notin DeferTypes
    BY <1>5 DEF Harmless
  <2> HIDE DEF L, i
  <2>4. i + 1 \in (i + 1)..L /\ ((i + 1) + 1)..L \subseteq (i + 1)..L  BY <2>1
  <2> QED  BY <2>2, <2>3, <2>4 DEF i
<1>11. Pair(f, g, scopes', fns')
  <2>1. CASE TypeOf(n) \in DeferTypes
    <3>1. Fresh(sc)  BY <1>8, <1>10, <2>1
    <3>2. f.i \in 1..Len(Body)  BY <1>1, <1>2, <1>5, <1>9
    <3>3. Jumped(f, g, sc, fns)  BY <1>5, <1>6, <3>1, <3>2 DEF Jumped
    <3> QED  BY <1>1, <1>3, <1>5, <1>6, <2>1, <3>1, <3>3 DEF Pair
  <2>2. CASE TypeOf(n) \notin DeferTypes
    <3>1. Fresh(sc) \/ (Spent(sc) /\ Harmless(f, fns))  BY <1>8, <1>10
    <3>2. Alone(f, sc, fns, FALSE)  BY <1>5, <3>1 DEF Alone
    <3> QED  BY <1>1, <1>5, <1>6, <2>2, <3>2 DEF Pair
  <2> QED  BY <2>1, <2>2
<1>12. OthersAlike  BY <1>1, SameAlike, OthersAlikeAll
<1> QED  BY <1>1, <1>3, <1>7, <1>11, <1>12, OwnerEvaluates DEF g

\* The global scope is fresh as long as the program's own statements run.
LEMMA ProgramBegins ==
  ASSUME Tidy(Nodes), IInv, Next, Tended, ProgramStatement, status' = "run"
  PROVE  Tended'
<1> DEFINE n == This.kids[Top.i + 1]
<1> DEFINE f == LabelFrame("enter", Top.i + 1, Top.last)
<1> DEFINE g == NewFrame(n, 1)
<1>1. /\ This.type = "PROGRAM" /\ Top.pc = "enter" /\ UNCHANGED <<scopes, fns>>
      /\ Top.i < Len(This.kids)
      /\ Evaluate([Top EXCEPT !.i = @ + 1], n, 1)
  BY DEF ProgramStatement, At
<1>2. /\ Top \in FrameType /\ Top.node \in Nodes /\ This = NodeData[Top.node]
      /\ This.type = TypeOf(Top.node) /\ Top.i \in Nat
  BY StackFacts DEF FrameType
<1>3. Manages(Top) /\ Home(Top) = 1 /\ This.type \notin DeferTypes
  BY <1>1, <1>2 DEF Manages, Home, DeferTypes, Jumps
<1>4. [Top EXCEPT !.i = @ + 1] = f  BY <1>1, <1>2 DEF FrameType, LabelFrame
<1>5. f.pc = "enter" /\ Manages(f) /\ Home(f) = 1  BY <1>2, <1>3, LabelOwner
<1>6. g.node = n /\ g.scope = 1  BY DEF NewFrame
<1>7. Fresh(scopes[1])  BY <1>1, <1>3, OwnScope DEF Alone
<1>8. Evaluate(f, n, 1)  BY <1>1, <1>4
<1>9. TypeOf(n) \notin Jumps
  <2>1. Len(This.kids) \in Nat  BY <1>2, NodeFacts
  <2>2. Top.i + 1 \in 1..Len(This.kids)  BY <1>1, <1>2, <2>1
  <2> QED  BY <1>1, <1>2, <2>2 DEF Tidy
<1> HIDE DEF f, g
<1>10. Alone(f, scopes[1], fns, FALSE)  BY <1>5, <1>7 DEF Alone
<1>11. Pair(f, g, scopes', fns')  BY <1>1, <1>5, <1>6, <1>7, <1>9, <1>10 DEF Pair
<1>12. OthersAlike  BY <1>1, SameAlike, OthersAlikeAll
<1> QED  BY <1>1, <1>3, <1>8, <1>11, <1>12, OwnerEvaluates DEF g

LEMMA MainBegins ==
  ASSUME IInv, Next, Tended, MainEnter, status' = "run"
  PROVE  Tended'
<1>1. /\ This.type = "PROGRAM" /\ Top.pc = "enter"
      /\ UNCHANGED <<scopes, fns>>
      /\ \E k : Resume([Top EXCEPT !.pc = "body", !.i = 0, !.sub = 1, !.fn = k])
  <2>1. ~Fail("crash")  BY DEF Fail
  <2> QED  BY <2>1 DEF MainEnter, At
<1>2. Top \in FrameType /\ This.type = TypeOf(Top.node)  BY StackFacts
<1>3. Manages(Top) /\ Home(Top) = 1 /\ This.type \notin DeferTypes
  BY <1>1, <1>2 DEF Manages, Home, DeferTypes, Jumps
<1>4. Fresh(scopes[1])  BY <1>1, <1>3, OwnScope DEF Alone
<1>5. PICK k : Resume([Top EXCEPT !.pc = "body", !.i = 0, !.sub = 1, !.fn = k])  BY <1>1
<1> DEFINE f == [Top EXCEPT !.pc = "body", !.i = 0, !.sub = 1, !.fn = k]
<1>6. f.pc = "body" /\ f.node = Top.node  BY <1>2 DEF FrameType
<1>7. Resume(f)  BY <1>5
<1> HIDE DEF f
<1>8. Home(f) = 1  BY <1>1, <1>2, <1>6 DEF Home
<1>9. Alone(f, scopes'[Home(f)], fns', FALSE)  BY <1>1, <1>4, <1>6, <1>8 DEF Alone
<1>10. OthersAlike  BY <1>1, SameAlike, OthersAlikeAll
<1> QED  BY <1>1, <1>3, <1>7, <1>9, <1>10, OwnerResumes

(***************************************************************************)
(* The scope of the innermost owner is the newest.                         *)
(***************************************************************************)
LEMMA NewestHome ==
  ASSUME IInv, NEW k \in 1..Len(stack), Manages(stack[k]),
         \A j \in 1..Len(stack) : k < j => ~Manages(stack[j])
  PROVE  Home(stack[k]) = Len(scopes)
<1> DEFINE S == Len(scopes)
<1>1. S \in Nat \ {0} /\ Home(stack[k]) \in 1..S  BY Managers, StackFacts
<1>2. SUFFICES ASSUME Home(stack[k]) < S PROVE FALSE  BY <1>1
<1>3. S \in 2..Len(scopes) /\ S # 0 /\ S # 1
  <2> DEFINE h == Home(stack[k])
  <2>1. S \in Nat \ {0} /\ h \in 1..S /\ h < S  BY <1>1, <1>2
  <2> HIDE DEF h, S
  <2>2. S \in 2..S /\ S # 0 /\ S # 1  BY <2>1
  <2> QED  BY <2>2 DEF S
<1>4. PICK j \in 1..Len(stack) : stack[j].sub = S  BY <1>3 DEF IInv, ScopeDiscipline
<1>5. Manages(stack[j])  BY <1>3, <1>4 DEF Manages
<1>6. TypeOf(stack[j].node) # "PROGRAM"
  <2>1. SubOf(stack[j])
    <3>1. Frame(stack[j], scopes, fns)  BY DEF IInv, FramesOK
    <3> QED  BY <3>1 DEF Frame
  <2>2. TypeOf(stack[j].node) = "PROGRAM" => stack[j].sub = 1 \/ stack[j].sub = 0
    BY <2>1 DEF SubOf
  <2> QED  BY <1>3, <1>4, <2>2
<1>7. Home(stack[j]) = S  BY <1>4, <1>6 DEF Home
<1>8. CASE j = k  BY <1>2, <1>7, <1>8, <1>1
<1>9. CASE j > k  BY <1>5, <1>9
<1>10. CASE j < k
  <2>1. Home(stack[j]) < Home(stack[k])  BY <1>5, <1>10, HomesApart
  <2> QED  BY <1>1, <1>7, <2>1
<1> QED  BY <1>8, <1>9, <1>10

LEMMA OwnNewest ==
  ASSUME IInv, Manages(Top)
  PROVE  Home(Top) = Len(scopes)
<1> DEFINE N == Len(stack)
<1>1. N \in Nat \ {0} /\ Top = stack[N]  BY StackFacts
<1>2. N \in 1..N /\ \A j \in 1..N : ~(N < j)  BY <1>1
<1> QED  BY <1>1, <1>2, NewestHome

(***************************************************************************)
(* One scope changes.                                                      *)
(***************************************************************************)
OnlyScope(d) ==
  /\ d \in 1..Len(scopes) /\ Len(scopes') = Len(scopes)
  /\ \A s \in 1..Len(scopes) : s # d => scopes'[s] = scopes[s]

LEMMA ScopeReplaced ==
  ASSUME NEW ss \in Seq(ScopeType), NEW d \in 1..Len(ss), NEW sc
  PROVE  LET tt == [ss EXCEPT ![d] = sc] IN
         /\ Len(tt) = Len(ss) /\ tt[d] = sc
         /\ \A s \in 1..Len(ss) : s # d => tt[s] = ss[s]
  OBVIOUS

LEMMA RanSet ==
  ASSUME NEW r \in Seq(Nat), NEW i \in Nat
  PROVE  ToSet(Append(r, i)) = ToSet(r) \cup {i}
<1>1. DOMAIN r = 1..Len(r) /\ Len(r) \in Nat  OBVIOUS
<1>2. /\ Len(Append(r, i)) = Len(r) + 1 /\ Append(r, i)[Len(r) + 1] = i
      /\ \A k \in 1..Len(r) : Append(r, i)[k] = r[k]
      /\ DOMAIN Append(r, i) = 1..(Len(r) + 1)
  OBVIOUS
<1> DEFINE n == Len(r)
           q == Append(r, i)
<1>3. /\ n \in Nat /\ DOMAIN r = 1..n /\ DOMAIN q = 1..(n + 1) /\ q[n + 1] = i
      /\ \A k \in 1..n : q[k] = r[k]
  BY <1>1, <1>2
<1> HIDE DEF n, q
<1>4. 1..(n + 1) = (1..n) \cup {n + 1}  BY <1>3
<1>5. {q[k] : k \in 1..(n + 1)} = {r[k] : k \in 1..n} \cup {i}
  BY <1>3, <1>4
<1> QED  BY <1>3, <1>5 DEF ToSet, q

LEMMA RanLeft ==
  ASSUME NEW sc \in ScopeType, NEW i \in Nat \ {0}, Left(sc) = 1..i
  PROVE  LET tt == [sc EXCEPT !.ran = Append(sc.ran, i)] IN
         /\ tt.defers = sc.defers /\ tt.is_deferred = sc.is_deferred
         /\ tt.ran = Append(sc.ran, i) /\ Left(tt) = 1..(i - 1)
<1> DEFINE tt == [sc EXCEPT !.ran = Append(sc.ran, i)]
<1>1. tt.defers = sc.defers /\ tt.is_deferred = sc.is_deferred /\ tt.ran = Append(sc.ran, i)
  BY DEF ScopeType
<1> HIDE DEF tt
<1>2. ToSet(tt.ran) = ToSet(sc.ran) \cup {i}  BY <1>1, RanSet DEF ScopeType
<1>3. Left(tt) = Left(sc) \ {i}  BY <1>1, <1>2 DEF Left
<1>4. (1..i) \ {i} = 1..(i - 1)  OBVIOUS
<1> QED  BY <1>1, <1>3, <1>4 DEF tt

LEMMA DeferRuns ==
  ASSUME IInv, RunDefer, Left(scopes[DeferScope]) = 1..Top.i
  PROVE  LET d == DeferScope IN
         /\ OnlyScope(d) /\ Top.i \in Nat \ {0}
         /\ scopes'[d].defers = scopes[d].defers
         /\ scopes'[d].is_deferred = scopes[d].is_deferred
         /\ scopes'[d].ran = Append(scopes[d].ran, Top.i)
         /\ Left(scopes'[d]) = 1..(Top.i - 1)
         /\ Top.i \in 1..Len(scopes[d].defers)
<1> DEFINE d == DeferScope
           i == Top.i
           sc == [scopes[d] EXCEPT !.ran = Append(scopes[d].ran, i)]
<1>1. /\ Top.pc = "defers" /\ i > 0
      /\ scopes' = [scopes EXCEPT ![d].ran = Append(@, i)]
  BY DEF RunDefer
<1>2. d \in 1..Len(scopes) /\ i \in Nat /\ i <= Len(scopes[d].defers)  BY <1>1, DefersLabel
<1>3. scopes \in Seq(ScopeType)  BY StackFacts
<1>4. i \in Nat \ {0} /\ scopes[d] \in ScopeType  BY <1>1, <1>2, <1>3
<1>5. scopes' = [scopes EXCEPT ![d] = sc]  BY <1>1
<1>6. /\ sc.defers = scopes[d].defers /\ sc.is_deferred = scopes[d].is_deferred
      /\ sc.ran = Append(scopes[d].ran, i) /\ Left(sc) = 1..(i - 1)
  BY <1>4, RanLeft
<1>7. i \in 1..Len(scopes[d].defers)
  <2>1. Len(scopes[d].defers) \in Nat  BY <1>4, DefersLength
  <2> QED  BY <1>2, <1>4, <2>1
<1> HIDE DEF sc, d
<1>8. /\ Len(scopes') = Len(scopes) /\ scopes'[d] = sc
      /\ \A s \in 1..Len(scopes) : s # d => scopes'[s] = scopes[s]
  BY <1>2, <1>3, <1>5, ScopeReplaced
<1> QED  BY <1>2, <1>4, <1>6, <1>7, <1>8 DEF OnlyScope, d

LEMMA MarkedScope ==
  ASSUME IInv, NEW d \in 1..Len(scopes), scopes' = [scopes EXCEPT ![d].is_deferred = TRUE]
  PROVE  /\ OnlyScope(d)
         /\ scopes'[d].defers = scopes[d].defers /\ scopes'[d].ran = scopes[d].ran
         /\ scopes'[d].is_deferred = TRUE
<1> DEFINE sc == [scopes[d] EXCEPT !.is_deferred = TRUE]
<1>1. scopes \in Seq(ScopeType)  BY StackFacts
<1>2. scopes[d] \in ScopeType  BY <1>1
<1>3. sc.defers = scopes[d].defers /\ sc.ran = scopes[d].ran /\ sc.is_deferred = TRUE
  BY <1>2 DEF ScopeType
<1>4. scopes' = [scopes EXCEPT ![d] = sc]  OBVIOUS
<1> HIDE DEF sc
<1>5. /\ Len(scopes') = Len(scopes) /\ scopes'[d] = sc
      /\ \A s \in 1..Len(scopes) : s # d => scopes'[s] = scopes[s]
  BY <1>1, <1>4, ScopeReplaced
<1> QED  BY <1>3, <1>5 DEF OnlyScope

\* What the one scope is to those below its owner.
LEMMA OwnScopeOnly ==
  ASSUME IInv, Manages(Top), OnlyScope(Home(Top))
  PROVE  OthersAlike
<1>1. ASSUME NEW s \in 1..Len(scopes), s < Home(Top) PROVE Alike(scopes[s], scopes'[s])
  <2>1. Home(Top) \in Nat  BY StackFacts DEF OnlyScope
  <2>2. s # Home(Top)  BY <1>1, <2>1
  <2> QED  BY <2>2 DEF OnlyScope, Alike
<1> QED  BY <1>1, OthersAlikeBelow

(***************************************************************************)
(* A block or a call runs its defers, marks its scope and frees it.        *)
(***************************************************************************)
LEMMA OwnerAtDefers ==
  ASSUME IInv, Tended, Top.pc = "defers", This.type \notin Jumps
  PROVE  /\ This.type \notin DeferTypes /\ Manages(Top) /\ Home(Top) = Top.sub
         /\ DeferScope = Top.sub /\ Left(scopes[Top.sub]) = 1..Top.i
         /\ Top.sub \in 1..Len(scopes)
<1>1. This.type \notin DeferTypes /\ Manages(Top) /\ Home(Top) = Top.sub  BY Owner
<1>2. DeferScope = Top.sub  BY DEF DeferScope, Leaving
<1>3. Alone(Top, scopes[Home(Top)], fns, ret.brk = "return") /\ Home(Top) \in 1..Len(scopes)
  BY <1>1, OwnScope
<1> QED  BY <1>1, <1>2, <1>3 DEF Alone

LEMMA OwnerRuns ==
  ASSUME IInv, Next, Deferrable, Tended, RunDefer, This.type \notin Jumps, status' = "run"
  PROVE  Tended'
<1> DEFINE d == Top.sub
           i == Top.i
           n == scopes[d].defers[i]
           f == LabelFrame("defers", i - 1, Top.last)
           g == NewFrame(n, d)
<1>1. Top.pc = "defers" /\ fns' = fns  BY DEF RunDefer
<1>2. /\ This.type \notin DeferTypes /\ Manages(Top) /\ Home(Top) = d
      /\ DeferScope = d /\ Left(scopes[d]) = 1..i /\ d \in 1..Len(scopes)
  BY <1>1, OwnerAtDefers
<1>3. /\ OnlyScope(d) /\ i \in 1..Len(scopes[d].defers)
      /\ Left(scopes'[d]) = 1..(i - 1)
  BY <1>2, DeferRuns
<1>4. Top \in FrameType  BY StackFacts
<1>5. Evaluate(f, n, d)
  <2>1. Evaluate([Top EXCEPT !.i = @ - 1], n, d)  BY <1>2 DEF RunDefer
  <2>2. [Top EXCEPT !.i = @ - 1] = f  BY <1>1, <1>4 DEF FrameType, LabelFrame
  <2> QED  BY <2>1, <2>2
<1>6. f.pc = "defers" /\ f.i = i - 1 /\ Home(f) = d  BY <1>2, <1>4, LabelOwner
<1>7. TypeOf(n) \notin DeferTypes  BY <1>2, <1>3 DEF Deferrable
<1>8. g.node = n  BY DEF NewFrame
<1> HIDE DEF f, g, n, d
<1>9. Alone(f, scopes'[Home(f)], fns', FALSE)  BY <1>3, <1>6 DEF Alone
<1>10. Pair(f, g, scopes', fns')  BY <1>7, <1>8, <1>9 DEF Pair
<1>11. OthersAlike  BY <1>2, <1>3, OwnScopeOnly
<1> QED  BY <1>1, <1>2, <1>5, <1>10, <1>11, OwnerEvaluates DEF g

LEMMA OwnerMarks ==
  ASSUME IInv, Next, Tended, DefersDone
  PROVE  Tended'
<1> DEFINE d == Top.sub
           f == LabelFrame("free", Top.i, Top.last)
<1>1. /\ Top.pc = "defers" /\ This.type \notin Jumps /\ Top.i = 0 /\ fns' = fns
      /\ scopes' = [scopes EXCEPT ![d].is_deferred = TRUE]
      /\ Resume([Top EXCEPT !.pc = "free"])
  BY DEF DefersDone, Leaving
<1>2. /\ This.type \notin DeferTypes /\ Manages(Top) /\ Home(Top) = d
      /\ Left(scopes[d]) = 1..0 /\ d \in 1..Len(scopes)
  BY <1>1, OwnerAtDefers
<1>3. /\ OnlyScope(d) /\ scopes'[d].defers = scopes[d].defers
      /\ scopes'[d].ran = scopes[d].ran
  BY <1>1, <1>2, MarkedScope
<1>4. Left(scopes'[d]) = {}
  <2>1. 1..0 = {}  OBVIOUS
  <2> QED  BY <1>2, <1>3, <2>1 DEF Left
<1>5. Top \in FrameType  BY StackFacts
<1>6. Resume(f)  BY <1>1, <1>5, LabelFrames
<1>7. f.pc = "free" /\ Home(f) = d  BY <1>2, <1>5, LabelOwner
<1> HIDE DEF f, d
<1>8. Alone(f, scopes'[Home(f)], fns', FALSE)  BY <1>4, <1>7 DEF Alone
<1>9. OthersAlike  BY <1>2, <1>3, OwnScopeOnly
<1> QED  BY <1>1, <1>2, <1>6, <1>8, <1>9, OwnerResumes

LEMMA OwnerFrees ==
  ASSUME IInv, Next, Tended, FreeScope
  PROVE  /\ Tended' /\ Left(scopes[Len(scopes)]) = {}
         /\ scopes' = Front(scopes) /\ Len(scopes) > 1
<1>1. /\ Top.pc = "free" /\ scopes' = Front(scopes) /\ fns' = fns /\ stack' = Front(stack)
  BY DEF FreeScope, Finish
<1>2. This.type \notin DeferTypes /\ Manages(Top) /\ Home(Top) = Top.sub  BY <1>1, Owner
<1>3. Left(scopes[Home(Top)]) = {}  BY <1>1, <1>2, OwnScope DEF Alone
<1>4. Home(Top) = Len(scopes)  BY <1>2, OwnNewest
<1>5. Top.sub > 1
  <2>1. This.type # "PROGRAM" /\ This.type \notin Jumps
    <3>1. This.type \notin Jumps  BY <1>2 DEF DeferTypes
    <3> QED  BY <1>1, <3>1, OpenFrame
  <2> QED  BY <1>1, <2>1, OpenFrame
<1>6. /\ scopes \in Seq(ScopeType) /\ stack \in Seq(FrameType)
      /\ Len(stack) \in Nat \ {0} /\ Len(fns) \in Nat /\ Len(scopes) \in Nat \ {0}
  BY StackFacts
<1>7. /\ Len(stack') = Len(stack) - 1
      /\ \A s \in 1..(Len(scopes) - 1) : scopes'[s] = scopes[s]
  BY <1>1, <1>6, FrontOfSeq
<1>8. OthersAlike
  <2>1. ASSUME NEW s \in 1..Len(scopes), s < Home(Top) PROVE Alike(scopes[s], scopes'[s])
    <3>1. s \in 1..(Len(scopes) - 1)  BY <1>4, <1>6, <2>1
    <3> QED  BY <1>7, <3>1 DEF Alike
  <2> QED  BY <1>2, <2>1, OthersAlikeBelow
<1>9. Tended'
  <2>1. Len(stack') # Len(stack) /\ Len(stack') # Len(stack) + 1  BY <1>6, <1>7
  <2>2. FunctionsStay  BY <1>1, <1>6 DEF FunctionsStay
  <2> QED  BY <1>2, <1>8, <2>1, <2>2, OwnerSteps
<1> QED  BY <1>1, <1>2, <1>3, <1>4, <1>5, <1>9

(***************************************************************************)
(* defer, return, break and continue, on behalf of the caller's scope.     *)
(***************************************************************************)
Caller == stack[Len(stack) - 1]

LEMMA CallerOfJump ==
  ASSUME IInv, Tended, This.type \in DeferTypes
  PROVE  /\ Len(stack) > 1 /\ Len(stack) - 1 \in 1..Len(stack)
         /\ Manages(Caller) /\ Home(Caller) = Top.scope /\ Top.scope = Len(scopes)
         /\ Top.scope \in 1..Len(scopes) /\ Pair(Caller, Top, scopes, fns)
<1> DEFINE N == Len(stack)
<1>1. N \in Nat \ {0} /\ Top = stack[N] /\ This.type = TypeOf(Top.node)
      /\ Top.scope \in 1..Len(scopes)
  BY StackFacts
<1>2. This.type \notin {"BLOCK", "CALL_EXPR", "PROGRAM"}  BY DEF DeferTypes, Jumps
<1>3. N > 1
  <2>1. This.type # "PROGRAM"  BY <1>2
  <2> QED  BY <2>1, Above
<1>4. N - 1 \in 1..(N - 1) /\ N - 1 \in 1..N /\ (N - 1) + 1 = N  BY <1>1, <1>3
<1>5. Pair(Caller, Top, scopes, fns)
  <2>1. Pair(stack[N - 1], stack[(N - 1) + 1], scopes, fns)  BY <1>4 DEF Tended
  <2> QED  BY <1>1, <1>4, <2>1 DEF Caller
<1>6. Manages(Caller) /\ Home(Caller) = Top.scope  BY <1>1, <1>5 DEF Pair
<1>7. ~Manages(Top)
  <2>1. Top.sub = 0  BY <1>2, NoSubScope
  <2> QED  BY <1>1, <1>2, <2>1 DEF Manages
<1>8. \A j \in 1..N : N - 1 < j => ~Manages(stack[j])
  <2>1. \A j \in 1..N : N - 1 < j => j = N  BY <1>1
  <2> QED  BY <1>1, <1>7, <2>1
<1>9. Home(Caller) = Len(scopes)  BY <1>4, <1>6, <1>8, NewestHome DEF Caller
<1> QED  BY <1>1, <1>3, <1>4, <1>5, <1>6, <1>9

LEMMA JumpAssembled ==
  ASSUME IInv, Next, Tended, fns' = fns, This.type \in DeferTypes, OnlyScope(Top.scope),
         Len(stack') >= Len(stack) => Pair(Caller, stack'[Len(stack)], scopes', fns'),
         Len(stack') = Len(stack) - 1 => Innermost(Caller, scopes', fns', ret'.brk = "return"),
         NewOrdinary
  PROVE  Tended'
<1> DEFINE N == Len(stack)
<1>1. N \in Nat \ {0} /\ Top = stack[N] /\ This.type = TypeOf(Top.node) /\ Len(fns) \in Nat
  BY StackFacts
<1>2. N > 1 /\ N - 1 \in 1..N /\ Manages(Caller) /\ Home(Caller) = Top.scope
  BY CallerOfJump
<1>3. This.type \notin {"BLOCK", "CALL_EXPR", "PROGRAM"}  BY DEF DeferTypes, Jumps
<1>4. ASSUME NEW k \in 1..(N - 2), Manages(stack[k])
      PROVE  Alike(scopes[Home(stack[k])], scopes'[Home(stack[k])])
  <2>1. k \in 1..N /\ k < N - 1  BY <1>1
  <2>2. Home(stack[k]) \in 1..Len(scopes)  BY <1>4, <2>1, Managers
  <2>3. Home(stack[k]) < Home(Caller)  BY <1>2, <1>4, <2>1, HomesApart DEF Caller
  <2>4. Home(stack[k]) # Top.scope
    <3>1. Top.scope \in Nat  BY StackFacts
    <3> QED  BY <1>2, <2>2, <2>3, <3>1
  <2> QED  BY <2>2, <2>4 DEF OnlyScope, Alike
<1>5. ASSUME Len(stack') >= N PROVE ~Manages(stack'[N])
  <2>1. Move /\ IInv'  BY NextMoves, MoveKeeps
  <2>2. N \in 1..Len(stack')
    <3>1. Len(stack') \in Nat  BY <2>1 DEF IInv, TypeOK
    <3> QED  BY <1>1, <1>5, <3>1
  <2>3. stack'[N].node = Top.node
    <3>1. Before(N) \/ Entered(N)  BY <2>1, <2>2, FramesAfter
    <3> QED  BY <1>1, <3>1 DEF Before, Entered
  <2>4. SubOf(stack'[N])
    <3>1. Frame(stack'[N], scopes', fns')  BY <2>1, <2>2 DEF IInv, FramesOK
    <3> QED  BY <3>1 DEF Frame
  <2> QED  BY <1>1, <1>3, <2>3, <2>4 DEF SubOf, Manages
<1>6. Len(stack') = N => Innermost(stack'[N], scopes', fns', ret'.brk = "return")
  BY <1>1, <1>5 DEF Innermost
<1>7. ASSUME Len(stack') = N + 1 PROVE Pair(stack'[N], stack'[N + 1], scopes', fns')
  <2>1. TypeOf(stack'[N + 1].node) \notin DeferTypes  BY <1>7 DEF NewOrdinary
  <2>2. ~Manages(stack'[N])  BY <1>1, <1>5, <1>7
  <2> QED  BY <2>1, <2>2 DEF Pair
<1>8. FunctionsStay  BY <1>1 DEF FunctionsStay
<1>9. /\ Len(stack') >= N /\ N > 1 => Pair(stack[N - 1], stack'[N], scopes', fns')
      /\ Len(stack') = N - 1 => Innermost(stack[N - 1], scopes', fns', ret'.brk = "return")
  BY DEF Caller
<1> QED  BY <1>4, <1>6, <1>7, <1>8, <1>9, Assembled

LEMMA SameOnly ==
  ASSUME IInv, UNCHANGED scopes
  PROVE  OnlyScope(Top.scope)
  BY StackFacts DEF OnlyScope

\* What holds of the scope while a jump of the caller's body is running.
LEMMA JumpGoesOn ==
  ASSUME IInv, Next, Tended, fns' = fns, This.type \in Jumps, OnlyScope(Top.scope),
         NEW pc \in {"defers", "jump", "value"}, NEW i, NEW last,
         stack'[Len(stack)] = LabelFrame(pc, i, last), Len(stack') >= Len(stack), NewOrdinary,
         pc = "defers" => Left(scopes'[Top.scope]) = 1..i,
         pc \in {"jump", "value"} => Spent(scopes'[Top.scope])
  PROVE  Tended'
<1> DEFINE f == LabelFrame(pc, i, last)
<1>1. Top \in FrameType /\ Len(stack) \in Nat /\ This.type = TypeOf(Top.node)  BY StackFacts
<1>2. f.pc = pc /\ f.i = i /\ f.node = Top.node /\ f.scope = Top.scope
  BY <1>1 DEF LabelFrame, FrameType
<1>3. This.type \in DeferTypes  BY DEF DeferTypes
<1>4. /\ Manages(Caller) /\ Home(Caller) = Top.scope /\ Pair(Caller, Top, scopes, fns)
  BY <1>3, CallerOfJump
<1>5. Jumped(Caller, Top, scopes[Top.scope], fns)  BY <1>1, <1>3, <1>4 DEF Pair
<1> HIDE DEF f
<1>6. Jumped(Caller, f, scopes'[Top.scope], fns')  BY <1>2, <1>5 DEF Jumped
<1>7. Pair(Caller, f, scopes', fns')  BY <1>1, <1>2, <1>3, <1>4, <1>6 DEF Pair
<1>8. Len(stack') # Len(stack) - 1  BY <1>1
<1> QED  BY <1>3, <1>7, <1>8, JumpAssembled DEF f

LEMMA CallerBody ==
  ASSUME IInv, Tended, This.type \in DeferTypes, Caller.pc = "stat"
  PROVE  \E b \in Nodes : BodyOf(Caller, fns) = NodeData[b].kids
<1>1. Len(stack) - 1 \in 1..Len(stack) /\ Manages(Caller)  BY CallerOfJump
<1>2. Caller \in FrameType /\ fns \in Seq(FnType)  BY <1>1, StackFacts DEF Caller
<1>3. TypeOf(Caller.node) # "BLOCK" => Caller.fn \in 1..Len(fns)  BY <1>1, Managers DEF Caller
<1>4. CASE TypeOf(Caller.node) = "BLOCK"
  <2>1. Caller.node \in Nodes  BY <1>2 DEF FrameType
  <2> QED  BY <1>4, <2>1 DEF BodyOf
<1>5. CASE TypeOf(Caller.node) # "BLOCK"
  <2>1. fns[Caller.fn] \in FnType  BY <1>2, <1>3, <1>5
  <2>2. fns[Caller.fn].body \in Nodes  BY <2>1 DEF FnType
  <2> QED  BY <1>5, <2>2 DEF BodyOf
<1> QED  BY <1>4, <1>5

LEMMA DeferRegisters ==
  ASSUME IInv, Next, Tended, evaluate_defer_stat, status' = "run"
  PROVE  LET d == Len(scopes) IN
         /\ Tended' /\ OnlyScope(d)
         /\ scopes'[d].defers = Append(scopes[d].defers, This.kids[1])
         /\ scopes'[d].ran = scopes[d].ran
         /\ TypeOf(This.kids[1]) \notin DeferTypes
<1> DEFINE d == Top.scope
           n == This.kids[1]
           sc == [scopes[d] EXCEPT !.defers = Append(scopes[d].defers, n)]
<1>1. /\ This.type = "DEFER_STAT"
      /\ scopes' = scope_add_defer(scopes, d, n) /\ Finish(NoValue) /\ fns' = fns
  <2>1. ~Fail("overflow")  BY DEF Fail
  <2> QED  BY <2>1 DEF evaluate_defer_stat, At
<1>2. This.type \in DeferTypes /\ This.type \notin Jumps  BY <1>1 DEF DeferTypes, Jumps
<1>3. /\ Manages(Caller) /\ Home(Caller) = d /\ Pair(Caller, Top, scopes, fns)
      /\ d = Len(scopes) /\ d \in 1..Len(scopes)
  BY <1>2, CallerOfJump
<1>4. /\ Top.node \in Nodes /\ This = NodeData[Top.node] /\ This.type = TypeOf(Top.node)
      /\ scopes \in Seq(ScopeType) /\ Len(stack) \in Nat
  BY StackFacts
<1>5. Caller.pc \in {"enter", "stat"} /\ Fresh(scopes[d])  BY <1>2, <1>3, <1>4 DEF Pair
<1>6. scopes[d] \in ScopeType  BY <1>3, <1>4
<1>7. /\ sc.defers = Append(scopes[d].defers, n) /\ sc.ran = scopes[d].ran
      /\ sc.is_deferred = scopes[d].is_deferred
  BY <1>6 DEF ScopeType
<1>8. scopes' = [scopes EXCEPT ![d] = sc]  BY <1>1 DEF scope_add_defer
<1> HIDE DEF sc
<1>9. OnlyScope(d) /\ scopes'[d] = sc
  <2>1. /\ Len(scopes') = Len(scopes) /\ scopes'[d] = sc
        /\ \A s \in 1..Len(scopes) : s # d => scopes'[s] = scopes[s]
    BY <1>3, <1>4, <1>8, ScopeReplaced
  <2> QED  BY <1>3, <2>1 DEF OnlyScope
<1>10. Fresh(sc)  BY <1>5, <1>7 DEF Fresh
<1>11. Innermost(Caller, scopes', fns', ret'.brk = "return")
  BY <1>3, <1>5, <1>9, <1>10 DEF Innermost, Alone
<1>12. Len(stack') = Len(stack) - 1 /\ NewOrdinary
  BY <1>1, FramesMade, Ordinary DEF Finish
<1>13. ~(Len(stack') >= Len(stack))  BY <1>4, <1>12
<1>14. Tended'  BY <1>1, <1>2, <1>9, <1>11, <1>12, <1>13, JumpAssembled
<1>15. TypeOf(n) \notin DeferTypes
  <2>1. Arity("DEFER_STAT", Len(This.kids))  BY <1>1, <1>4, NodeFacts
  <2>2. 1 \in 1..Len(This.kids)  BY <2>1 DEF Arity
  <2> QED  BY <1>1, <1>4, <2>2, OrdinaryKid
<1> QED  BY <1>3, <1>7, <1>9, <1>14, <1>15

LEMMA JumpBegins ==
  ASSUME IInv, Next, Tended, JumpEnter
  PROVE  Tended'
<1> DEFINE d == Len(scopes[Top.scope].defers)
           f == LabelFrame("defers", d, Top.last)
<1>1. /\ This.type \in Jumps /\ Top.pc = "enter" /\ UNCHANGED <<scopes, fns>>
      /\ Resume([Top EXCEPT !.pc = "defers", !.i = d])
  BY DEF JumpEnter, At
<1>2. Top \in FrameType /\ Len(stack) \in Nat /\ This.type = TypeOf(Top.node)  BY StackFacts
<1>3. Resume(f)  BY <1>1, <1>2, LabelFrames
<1>4. This.type \in DeferTypes  BY <1>1 DEF DeferTypes
<1>5. Home(Caller) = Top.scope /\ Pair(Caller, Top, scopes, fns)  BY <1>4, CallerOfJump
<1>6. Fresh(scopes[Top.scope])  BY <1>1, <1>2, <1>4, <1>5 DEF Pair, Jumped
<1>7. Left(scopes'[Top.scope]) = 1..d
  <2>1. ToSet(<<>>) = {}  BY DEF ToSet
  <2> QED  BY <1>1, <1>6, <2>1 DEF Left, Fresh
<1>8. Len(stack') = Len(stack) /\ stack'[Len(stack)] = f /\ NewOrdinary
  BY <1>3, ResumedFrame, Ordinary
<1>9. Len(stack') >= Len(stack)  BY <1>2, <1>8
<1>10. OnlyScope(Top.scope)  BY <1>1, SameOnly
<1> QED  BY <1>1, <1>7, <1>8, <1>9, <1>10, JumpGoesOn

LEMMA JumpAtDefers ==
  ASSUME IInv, Tended, Top.pc = "defers", This.type \in Jumps
  PROVE  DeferScope = Top.scope /\ Left(scopes[Top.scope]) = 1..Top.i
         /\ Jumped(Caller, Top, scopes[Top.scope], fns)
<1>1. This.type \in DeferTypes /\ This.type = TypeOf(Top.node)  BY StackFacts DEF DeferTypes
<1>2. Home(Caller) = Top.scope /\ Pair(Caller, Top, scopes, fns)  BY <1>1, CallerOfJump
<1>3. Jumped(Caller, Top, scopes[Top.scope], fns)  BY <1>1, <1>2 DEF Pair
<1> QED  BY <1>3 DEF Jumped, DeferScope, Leaving

LEMMA JumpRuns ==
  ASSUME IInv, Next, Deferrable, Tended, RunDefer, This.type \in Jumps, status' = "run"
  PROVE  Tended'
<1> DEFINE d == Top.scope
           i == Top.i
           n == scopes[d].defers[i]
           f == LabelFrame("defers", i - 1, Top.last)
<1>1. Top.pc = "defers" /\ fns' = fns  BY DEF RunDefer
<1>2. DeferScope = d /\ Left(scopes[d]) = 1..i  BY <1>1, JumpAtDefers
<1>3. /\ OnlyScope(d) /\ i \in 1..Len(scopes[d].defers)
      /\ Left(scopes'[d]) = 1..(i - 1)
  BY <1>2, DeferRuns
<1>4. Top \in FrameType /\ Len(stack) \in Nat /\ d \in 1..Len(scopes)  BY StackFacts
<1>5. Evaluate(f, n, d)
  <2>1. Evaluate([Top EXCEPT !.i = @ - 1], n, d)  BY <1>2 DEF RunDefer
  <2>2. [Top EXCEPT !.i = @ - 1] = f  BY <1>1, <1>4 DEF FrameType, LabelFrame
  <2> QED  BY <2>1, <2>2
<1>6. TypeOf(n) \notin DeferTypes  BY <1>3, <1>4 DEF Deferrable
<1>7. NewOrdinary  BY <1>5, <1>6, Ordinary
<1>8. Len(stack') = Len(stack) + 1 /\ stack'[Len(stack)] = f  BY <1>5, PushedFrames
<1>9. Len(stack') >= Len(stack)  BY <1>4, <1>8
<1> QED  BY <1>1, <1>3, <1>7, <1>8, <1>9, JumpGoesOn

\* Nothing about defers comes behind a break or a continue, and return stops the loop.
LEMMA JumpMarks ==
  ASSUME Tidy(Nodes), IInv, Next, Tended, JumpDefersDone
  PROVE  Tended'
<1> DEFINE d == Top.scope
<1>1. /\ Top.pc = "defers" /\ Top.i = 0 /\ This.type \in Jumps /\ fns' = fns
      /\ scopes' = [scopes EXCEPT ![DeferScope].is_deferred = TRUE]
      /\ \/ This.type = "BREAK_STAT" /\ Finish(Result(None, "break"))
         \/ This.type = "CONTINUE_STAT" /\ Finish(Result(None, "continue"))
         \/ This.type = "RETURN_STAT" /\ Resume([Top EXCEPT !.pc = "jump"])
  BY DEF JumpDefersDone, Leaving, Jumps
<1>2. /\ DeferScope = d /\ Left(scopes[d]) = 1..0 /\ Jumped(Caller, Top, scopes[d], fns)
  BY <1>1, JumpAtDefers
<1>3. Top \in FrameType /\ Len(stack) \in Nat /\ d \in 1..Len(scopes) /\ This.type = TypeOf(Top.node)
  BY StackFacts
<1>4. /\ OnlyScope(d) /\ scopes'[d].defers = scopes[d].defers
      /\ scopes'[d].ran = scopes[d].ran /\ scopes'[d].is_deferred = TRUE
  BY <1>1, <1>2, <1>3, MarkedScope
<1>5. Spent(scopes'[d])
  <2>1. 1..0 = {}  OBVIOUS
  <2> QED  BY <1>2, <1>4, <2>1 DEF Left, Spent
<1>6. This.type \in DeferTypes  BY <1>1 DEF DeferTypes
<1>7. CASE This.type \in {"BREAK_STAT", "CONTINUE_STAT"} /\ \E r : Finish(r)
  <2>1. Caller.pc = "stat" /\ Caller.i \in 1..Len(BodyOf(Caller, fns))
        /\ Top.node = BodyOf(Caller, fns)[Caller.i]
    BY <1>2 DEF Jumped
  <2>2. PICK b \in Nodes : BodyOf(Caller, fns) = NodeData[b].kids
    BY <1>6, <2>1, CallerBody
  <2>3. TypeOf(NodeData[b].kids[Caller.i]) = This.type  BY <1>3, <2>1, <2>2
  <2>4. \A m \in (Caller.i + 1)..Len(NodeData[b].kids) :
          TypeOf(NodeData[b].kids[m]) \notin DeferTypes
    BY <1>7, <2>1, <2>2, <2>3 DEF Tidy
  <2>5. Harmless(Caller, fns')  BY <1>1, <2>2, <2>4 DEF Harmless
  <2>6. Home(Caller) = d  BY <1>6, CallerOfJump
  <2>7. Innermost(Caller, scopes', fns', ret'.brk = "return")
    BY <1>5, <2>1, <2>5, <2>6 DEF Innermost, Alone
  <2>8. Len(stack') = Len(stack) - 1 /\ NewOrdinary
    BY <1>7, FramesMade, Ordinary DEF Finish
  <2>9. ~(Len(stack') >= Len(stack))  BY <1>3, <2>8
  <2> QED  BY <1>1, <1>4, <1>6, <2>7, <2>8, <2>9, JumpAssembled
<1>8. CASE This.type = "RETURN_STAT" /\ Resume([Top EXCEPT !.pc = "jump"])
  <2>1. Resume(LabelFrame("jump", Top.i, Top.last))  BY <1>3, <1>8, LabelFrames
  <2>2. /\ Len(stack') = Len(stack) /\ NewOrdinary
        /\ stack'[Len(stack)] = LabelFrame("jump", Top.i, Top.last)
    BY <2>1, ResumedFrame, Ordinary
  <2>3. Len(stack') >= Len(stack)  BY <1>3, <2>2
  <2> QED  BY <1>1, <1>4, <1>5, <2>2, <2>3, JumpGoesOn
<1> QED  BY <1>1, <1>7, <1>8

LEMMA ReturnSpent ==
  ASSUME IInv, Tended, This.type = "RETURN_STAT", Top.pc \in {"jump", "value"}
  PROVE  /\ Spent(scopes[Top.scope]) /\ This.type \in DeferTypes /\ This.type \in Jumps
         /\ Caller.pc = "stat" /\ Home(Caller) = Top.scope
<1>1. This.type \in DeferTypes /\ This.type \in Jumps /\ This.type = TypeOf(Top.node)
  BY StackFacts DEF DeferTypes, Jumps
<1>2. Home(Caller) = Top.scope /\ Pair(Caller, Top, scopes, fns)  BY <1>1, CallerOfJump
<1>3. Jumped(Caller, Top, scopes[Top.scope], fns)  BY <1>1, <1>2 DEF Pair
<1> QED  BY <1>1, <1>2, <1>3 DEF Jumped

LEMMA ReturnSteps ==
  ASSUME IInv, Next, Tended, ReturnExpr \/ ReturnValue, status' = "run"
  PROVE  Tended'
<1>0. This.type = "RETURN_STAT" /\ Top.pc \in {"jump", "value"}
  BY DEF ReturnExpr, ReturnValue, At
<1>1. /\ Spent(scopes[Top.scope]) /\ This.type \in DeferTypes /\ This.type \in Jumps
      /\ Caller.pc = "stat" /\ Home(Caller) = Top.scope
  BY <1>0, ReturnSpent
<1>2. /\ Top \in FrameType /\ Top.node \in Nodes /\ Len(stack) \in Nat
      /\ This = NodeData[Top.node] /\ This.type = TypeOf(Top.node)
  BY StackFacts
<1>3. CASE ReturnExpr
  <2>1. Evaluate([Top EXCEPT !.pc = "value"], This.kids[1], Top.scope) /\ UNCHANGED <<scopes, fns>>
    <3>1. ~Fail("crash")  BY DEF Fail
    <3> QED  BY <1>3, <3>1 DEF ReturnExpr
  <2>2. TypeOf(This.kids[1]) \notin DeferTypes
    <3>1. Arity("RETURN_STAT", Len(This.kids))  BY <1>0, <1>2, NodeFacts
    <3>2. 1 \in 1..Len(This.kids)  BY <3>1 DEF Arity
    <3> QED  BY <1>0, <1>2, <3>2, OrdinaryKid
  <2>3. NewOrdinary  BY <2>1, <2>2, Ordinary
  <2>4. Evaluate(LabelFrame("value", Top.i, Top.last), This.kids[1], Top.scope)
    BY <1>2, <2>1, LabelFrames
  <2>5. /\ Len(stack') = Len(stack) + 1
        /\ stack'[Len(stack)] = LabelFrame("value", Top.i, Top.last)
    BY <2>4, PushedFrames
  <2>6. Len(stack') >= Len(stack)  BY <1>2, <2>5
  <2>7. OnlyScope(Top.scope) /\ Spent(scopes'[Top.scope])  BY <1>1, <2>1, SameOnly
  <2> QED  BY <1>1, <2>1, <2>3, <2>5, <2>6, <2>7, JumpGoesOn
<1>4. CASE ReturnValue
  <2>1. Finish(Result(ret.value, "return")) /\ UNCHANGED <<scopes, fns>>
    BY <1>4 DEF ReturnValue
  <2>2. ret'.brk = "return"  BY <2>1 DEF Finish, Result
  <2>3. Innermost(Caller, scopes', fns', ret'.brk = "return")
    BY <1>1, <2>1, <2>2 DEF Innermost, Alone
  <2>4. Len(stack') = Len(stack) - 1 /\ NewOrdinary
    BY <2>1, FramesMade, Ordinary DEF Finish
  <2>5. ~(Len(stack') >= Len(stack))  BY <1>2, <2>4
  <2>6. OnlyScope(Top.scope)  BY <2>1, SameOnly
  <2> QED  BY <1>1, <2>1, <2>3, <2>4, <2>5, <2>6, JumpAssembled
<1> QED  BY <1>3, <1>4

(***************************************************************************)
(* The steps as DeferStack sees them.                                      *)
(***************************************************************************)
Page == [registered : Nat, ran : Seq(Nat)]

PageOf(sc) == [registered |-> Len(sc.defers), ran |-> sc.ran]

LEMMA BookPages ==
  ASSUME IInv
  PROVE  /\ Book \in Seq(Page) /\ Len(Book) = Len(scopes) /\ Len(scopes) \in Nat \ {0}
         /\ \A s \in 1..Len(scopes) : Book[s] = PageOf(scopes[s])
<1>1. scopes \in Seq(ScopeType) /\ Len(scopes) \in Nat \ {0}  BY StackFacts
<1>2. ASSUME NEW s \in 1..Len(scopes) PROVE PageOf(scopes[s]) \in Page
  <2>1. scopes[s] \in ScopeType  BY <1>1
  <2>2. scopes[s].ran \in Seq(Nat) /\ Len(scopes[s].defers) \in Nat
    BY <2>1, DefersLength DEF ScopeType
  <2> QED  BY <2>2 DEF Page, PageOf
<1>3. Book = [s \in 1..Len(scopes) |-> PageOf(scopes[s])]  BY DEF Book, PageOf
<1> QED  BY <1>1, <1>2, <1>3

LEMMA BookAfter ==
  ASSUME IInv'
  PROVE  /\ Book' \in Seq(Page) /\ Len(Book') = Len(scopes') /\ Len(scopes') \in Nat \ {0}
         /\ \A s \in 1..Len(scopes') : Book'[s] = PageOf(scopes'[s])
<1>1. scopes' \in Seq(ScopeType) /\ Len(scopes') \in Nat \ {0}
  BY DEF IInv, TypeOK, ChainsOK
<1>2. ASSUME NEW s \in 1..Len(scopes') PROVE PageOf(scopes'[s]) \in Page
  <2>1. scopes'[s] \in ScopeType  BY <1>1
  <2>2. scopes'[s].ran \in Seq(Nat) /\ Len(scopes'[s].defers) \in Nat
    BY <2>1, DefersLength DEF ScopeType
  <2> QED  BY <2>2 DEF Page, PageOf
<1>3. Book' = [s \in 1..Len(scopes') |-> PageOf(scopes'[s])]  BY DEF Book, PageOf
<1> QED  BY <1>1, <1>2, <1>3

\* Books with the same pages.
LEMMA SamePages ==
  ASSUME NEW p \in Seq(Page), NEW q \in Seq(Page), Len(p) = Len(q),
         \A s \in 1..Len(p) : p[s] = q[s]
  PROVE  p = q
  OBVIOUS

LEMMA BookOpens ==
  ASSUME IInv, IInv', Len(scopes') = Len(scopes) + 1,
         \A s \in 1..Len(scopes) : scopes'[s] = scopes[s],
         NEW c, scopes'[Len(scopes) + 1] = create_scope(c)
  PROVE  Promised
<1> DEFINE new == [registered |-> 0, ran |-> <<>>]
<1>1. PageOf(create_scope(c)) = new  BY DEF PageOf, create_scope
<1>2. new \in Page  BY DEF Page
<1> HIDE DEF new
<1> DEFINE q == Append(Book, new)
<1>3. q \in Seq(Page) /\ Len(q) = Len(Book) + 1 /\ q[Len(Book) + 1] = new
      /\ \A s \in 1..Len(Book) : q[s] = Book[s]
  BY <1>2, BookPages, AppendProperties
<1>4. \A s \in 1..Len(q) : Book'[s] = q[s]
  BY <1>1, <1>3, BookPages, BookAfter
<1>5. Book' = q  BY <1>3, <1>4, BookPages, BookAfter, SamePages
<1> QED  BY <1>5 DEF Promised, Promise!Next, Promise!Open, Book, new

LEMMA BookRegisters ==
  ASSUME IInv, IInv', NEW d, d = Len(scopes), OnlyScope(d), NEW n,
         scopes'[d].defers = Append(scopes[d].defers, n), scopes'[d].ran = scopes[d].ran
  PROVE  Promised
<1> DEFINE q == [Book EXCEPT ![Len(Book)].registered = @ + 1]
<1>1. d \in 1..Len(scopes) /\ Len(Book) = d /\ Book \in Seq(Page) /\ Len(Book') = Len(Book)
      /\ Book' \in Seq(Page)
  BY BookPages, BookAfter DEF OnlyScope
<1>2. Book[d] = PageOf(scopes[d]) /\ Book'[d] = PageOf(scopes'[d])
      /\ \A s \in 1..Len(Book) : s # d => Book'[s] = Book[s]
  BY <1>1, BookPages, BookAfter DEF OnlyScope
<1>3. Len(scopes'[d].defers) = Len(scopes[d].defers) + 1
  <2>1. scopes[d] \in ScopeType /\ scopes'[d] \in ScopeType
    <3>1. scopes \in Seq(ScopeType) /\ scopes' \in Seq(ScopeType)  BY DEF IInv, TypeOK
    <3> QED  BY <1>1, <3>1 DEF OnlyScope
  <2>2. scopes[d].defers \in Seq(Below)  BY <2>1, DefersLength
  <2>3. Len(Append(scopes[d].defers, n)) = Len(scopes[d].defers) + 1  BY <2>2
  <2> QED  BY <2>3
<1>4. Book'[d] = [Book[d] EXCEPT !.registered = @ + 1]  BY <1>2, <1>3 DEF PageOf
<1>5. q \in Seq(Page) /\ Len(q) = Len(Book) /\ q[d] = [Book[d] EXCEPT !.registered = @ + 1]
      /\ \A s \in 1..Len(Book) : s # d => q[s] = Book[s]
  <2> DEFINE page == [Book[d] EXCEPT !.registered = @ + 1]
  <2>1. q = [Book EXCEPT ![d] = page]  BY <1>1
  <2>2. page \in Page
    <3>1. Book'[d] \in Page  BY <1>1
    <3> QED  BY <1>4, <3>1
  <2> HIDE DEF page, q
  <2>3. q \in Seq(Page) /\ Len(q) = Len(Book) /\ q[d] = page
        /\ \A s \in 1..Len(Book) : s # d => q[s] = Book[s]
    BY <1>1, <2>1, <2>2
  <2> QED  BY <2>3 DEF page
<1>6. Book' = q
  <2> HIDE DEF q
  <2>1. \A s \in 1..Len(Book') : Book'[s] = q[s]
    <3>1. ASSUME NEW s \in 1..Len(Book') PROVE Book'[s] = q[s]
      <4>1. CASE s = d  BY <1>4, <1>5, <4>1
      <4>2. CASE s # d  BY <1>1, <1>2, <1>5, <4>2
      <4> QED  BY <4>1, <4>2
    <3> QED  BY <3>1
  <2>2. Len(Book') = Len(q)  BY <1>1, <1>5
  <2> QED  BY <1>1, <1>5, <2>1, <2>2, SamePages
<1> QED  BY <1>6 DEF Promised, Promise!Next, Promise!Register, Book

\* What DeferStack takes from SequencesExt is what Interp takes from it.
LEMMA PromiseOperators ==
  /\ \A q : Promise!ToSet(q) = ToSet(q)
  /\ \A q : Promise!Front(q) = Front(q)
  /\ \A S : Promise!Max(S) = Max(S)
<1>1. \A q : Promise!ToSet(q) = ToSet(q)  BY Zenon DEF Promise!ToSet, ToSet
<1>2. \A q : Promise!Front(q) = Front(q)  BY Zenon DEF Promise!Front, Front
<1>3. \A S : Promise!Max(S) = Max(S)  BY Zenon DEF Promise!Max, Max
<1> QED  BY <1>1, <1>2, <1>3

LEMMA BookRuns ==
  ASSUME IInv, IInv', NEW d, d = Len(scopes), OnlyScope(d), NEW i \in Nat \ {0},
         scopes'[d].defers = scopes[d].defers, scopes'[d].ran = Append(scopes[d].ran, i),
         Left(scopes[d]) = 1..i
  PROVE  Promised
<1>1. d \in 1..Len(scopes) /\ Len(Book) = d /\ Book \in Seq(Page) /\ Len(Book') = Len(Book)
      /\ Book' \in Seq(Page)
  BY BookPages, BookAfter DEF OnlyScope
<1>2. Book[d] = PageOf(scopes[d]) /\ Book'[d] = PageOf(scopes'[d])
      /\ \A s \in 1..Len(Book) : s # d => Book'[s] = Book[s]
  BY <1>1, BookPages, BookAfter DEF OnlyScope
<1> DEFINE notRun == (1..Book[Len(Book)].registered) \ ToSet(Book[Len(Book)].ran)
<1>3. notRun = 1..i  BY <1>1, <1>2 DEF Left, PageOf
<1>4. Max(1..i) = i
  <2>1. i \in 1..i /\ \A j \in 1..i : j <= i  OBVIOUS
  <2> QED  BY <2>1, MaxIs
<1>5. notRun # {} /\ Max(notRun) = i
  <2>1. i \in 1..i  OBVIOUS
  <2> QED  BY <1>3, <1>4, <2>1
<1> DEFINE q == [Book EXCEPT ![Len(Book)].ran = Append(@, i)]
<1> HIDE DEF notRun
<1>6. Book'[d] = [Book[d] EXCEPT !.ran = Append(@, i)]
  <2>1. Book[d] = [registered |-> Len(scopes[d].defers), ran |-> scopes[d].ran]
    BY <1>2 DEF PageOf
  <2>2. Book'[d] = [registered |-> Len(scopes[d].defers), ran |-> Append(scopes[d].ran, i)]
    BY <1>2 DEF PageOf
  <2> QED  BY <2>1, <2>2
<1>7. q \in Seq(Page) /\ Len(q) = Len(Book) /\ q[d] = [Book[d] EXCEPT !.ran = Append(@, i)]
      /\ \A s \in 1..Len(Book) : s # d => q[s] = Book[s]
  <2> DEFINE page == [Book[d] EXCEPT !.ran = Append(@, i)]
  <2>1. q = [Book EXCEPT ![d] = page]  BY <1>1
  <2>2. page \in Page
    <3>1. Book'[d] \in Page  BY <1>1
    <3> QED  BY <1>6, <3>1
  <2> HIDE DEF page, q
  <2>3. q \in Seq(Page) /\ Len(q) = Len(Book) /\ q[d] = page
        /\ \A s \in 1..Len(Book) : s # d => q[s] = Book[s]
    BY <1>1, <2>1, <2>2
  <2> QED  BY <2>3 DEF page
<1>8. Book' = q
  <2> HIDE DEF q
  <2>1. \A s \in 1..Len(Book') : Book'[s] = q[s]
    <3>1. ASSUME NEW s \in 1..Len(Book') PROVE Book'[s] = q[s]
      <4>1. CASE s = d  BY <1>6, <1>7, <4>1
      <4>2. CASE s # d  BY <1>1, <1>2, <1>7, <4>2
      <4> QED  BY <4>1, <4>2
    <3> QED  BY <3>1
  <2>2. Len(Book') = Len(q)  BY <1>1, <1>7
  <2> QED  BY <1>1, <1>7, <2>1, <2>2, SamePages
<1>9. Book' = [Book EXCEPT ![Len(Book)].ran = Append(@, Max(notRun))]  BY <1>5, <1>8
<1>10. Promise!Run
  <2>1. Promise!NotRun(Promise!Inner) = notRun
    BY PromiseOperators, Zenon DEF notRun, Promise!NotRun, Promise!Inner, Book
  <2>2. Promise!Max(Promise!NotRun(Promise!Inner)) = Max(notRun)  BY <2>1, PromiseOperators, Zenon
  <2> QED  BY <1>5, <1>9, <2>1, <2>2, Zenon DEF Promise!Run, Book
<1> QED  BY <1>10 DEF Promised, Promise!Next

LEMMA BookCloses ==
  ASSUME IInv, IInv', scopes' = Front(scopes), Len(scopes) > 1,
         Left(scopes[Len(scopes)]) = {}
  PROVE  Promised
<1> DEFINE notRun == (1..Book[Len(Book)].registered) \ ToSet(Book[Len(Book)].ran)
<1>1. Len(Book) = Len(scopes) /\ Len(Book) \in Nat \ {0} /\ Book \in Seq(Page)
      /\ \A s \in 1..Len(scopes) : Book[s] = PageOf(scopes[s])
  BY BookPages
<1>2. notRun = {}
  <2>1. Book[Len(Book)] = PageOf(scopes[Len(scopes)])  BY <1>1
  <2> QED  BY <2>1 DEF Left, PageOf
<1>3. /\ Len(scopes') = Len(scopes) - 1
      /\ \A s \in 1..(Len(scopes) - 1) : scopes'[s] = scopes[s]
  <2>1. scopes \in Seq(ScopeType) /\ Len(scopes) \in Nat \ {0}  BY StackFacts
  <2> QED  BY <2>1, FrontOfSeq
<1>4. /\ Front(Book) \in Seq(Page) /\ Len(Front(Book)) = Len(Book) - 1
      /\ \A s \in 1..(Len(Book) - 1) : Front(Book)[s] = Book[s]
  BY <1>1, FrontOfSeq
<1>5. \A s \in 1..Len(Book') : Book'[s] = Front(Book)[s]
  <2>1. Len(Book') = Len(scopes') /\ \A s \in 1..Len(scopes') : Book'[s] = PageOf(scopes'[s])
    BY BookAfter
  <2>2. ASSUME NEW s \in 1..(Len(scopes) - 1) PROVE Book'[s] = Front(Book)[s]
    <3>1. s \in 1..Len(scopes)  BY <1>1
    <3> QED  BY <1>1, <1>3, <1>4, <2>1, <3>1
  <2> QED  BY <1>3, <2>1, <2>2
<1>6. Book' = Front(Book)
  <2>1. Book' \in Seq(Page) /\ Len(Book') = Len(Front(Book))  BY <1>1, <1>3, <1>4, BookAfter
  <2> QED  BY <1>4, <1>5, <2>1, SamePages
<1>7. Len(Book) > 1  BY <1>1
<1> HIDE DEF notRun
<1>8. Promise!Close
  <2>1. Promise!NotRun(Promise!Inner) = notRun
    BY PromiseOperators, Zenon DEF notRun, Promise!NotRun, Promise!Inner, Book
  <2>2. Book' = Promise!Front(Book)  BY <1>6, PromiseOperators, Zenon
  <2> QED  BY <1>2, <1>7, <2>1, <2>2, Zenon DEF Promise!Close, Book
<1> QED  BY <1>8 DEF Promised, Promise!Next

LEMMA BookStays ==
  ASSUME Book' = Book
  PROVE  Promised
  BY DEF Promised

(***************************************************************************)
(* Every step keeps the invariant, and is one of DeferStack's or none.     *)
(***************************************************************************)
LEMMA NextRuns ==
  ASSUME Next
  PROVE  status = "run"
<1>1. CASE EvaluateLeaf
  BY <1>1 DEF EvaluateLeaf, EvaluateInteger, EvaluateFloat, EvaluateIdent, EvaluateDeclaration,
              EvaluateUnhandled, EvaluateNull, At
<1>2. CASE Expression
  BY <1>2 DEF Expression, CastUnsupported, EvaluateOperand, OperandValue, evaluate_bin_expr,
              evaluate_unary_expr, evaluate_cast_expr, evaluate_assign_expr, Complete, At
<1>3. CASE Declaration
  BY <1>3 DEF Declaration, VarDeclare, VarDefine, StructField, StructFieldValue, StructDefine,
              evaluate_fn_stat, At
<1>4. CASE Branching
  BY <1>4 DEF Branching, IfCondition, IfBranch, IfDone, WhileCondition, WhileTest, WhileBody, At
<1>5. CASE Jumping
  BY <1>5 DEF Jumping, evaluate_defer_stat, JumpEnter, RunDefer, JumpDefersDone, ReturnExpr,
              ReturnValue, At
<1>6. CASE Scoping
  BY <1>6 DEF Scoping, BlockEnter, CallEnter, CallScope, CallArgument, CallBind, CallBody,
              Statement, StatementDone, Leave, DefersDone, FreeScope, At
<1>7. CASE Running
  BY <1>7 DEF Running, ProgramStatement, MainEnter, MainDone, At
<1> QED  BY <1>1, <1>2, <1>3, <1>4, <1>5, <1>6, <1>7 DEF Next

LEMMA QuietTended ==
  ASSUME IInv, Next, Tended, EvaluateLeaf \/ Expression \/ Declaration \/ Branching
  PROVE  Tended'
<1>1. Quietly /\ This.type \notin Special
  BY QuietLeaf, QuietExpression, QuietDeclaration, QuietBranching
<1> QED  BY <1>1, QuietSteps DEF Quietly, NewOrdinary, Special

LEMMA NextTended ==
  ASSUME Tidy(Nodes), IInv, Next, Tended, Deferrable, status' = "run"
  PROVE  Tended'
<1>1. CASE EvaluateLeaf \/ Expression \/ Declaration \/ Branching
  BY <1>1, QuietTended
<1>2. CASE Jumping
  <2>1. CASE RunDefer  BY <2>1, JumpRuns, OwnerRuns
  <2>2. CASE evaluate_defer_stat  BY <2>2, DeferRegisters
  <2>3. CASE JumpEnter \/ JumpDefersDone  BY <2>3, JumpBegins, JumpMarks
  <2>4. CASE ReturnExpr \/ ReturnValue  BY <2>4, ReturnSteps
  <2> QED  BY <1>2, <2>1, <2>2, <2>3, <2>4 DEF Jumping
<1>3. CASE Scoping
  <2>1. CASE BlockEnter \/ CallScope  BY <2>1, ScopesOpen
  <2>2. CASE CallEnter \/ CallArgument \/ CallBind \/ CallBody
    BY <2>2, CalleeBegins, ArgumentBegins, ArgumentBinds, BodyBegins
  <2>3. CASE Statement \/ StatementDone \/ Leave
    BY <2>3, StatementBegins, StatementEnds, BodyEnds
  <2>4. CASE DefersDone \/ FreeScope  BY <2>4, OwnerMarks, OwnerFrees
  <2> QED  BY <1>3, <2>1, <2>2, <2>3, <2>4 DEF Scoping
<1>4. CASE Running
  <2>1. CASE MainDone  BY <2>1 DEF MainDone
  <2> QED  BY <1>4, <2>1, ProgramBegins, MainBegins DEF Running
<1> QED  BY <1>1, <1>2, <1>3, <1>4 DEF Next

\* The steps that leave every scope's defers alone.
LEMMA AlikeSteps ==
  ASSUME IInv, Next
  PROVE  \/ AllAlike
         \/ evaluate_defer_stat /\ status' = "run"
         \/ RunDefer
         \/ (BlockEnter \/ CallScope) /\ status' = "run"
         \/ DefersDone \/ JumpDefersDone
         \/ FreeScope
<1>1. status = "run"  BY NextRuns
<1>2. ASSUME UNCHANGED scopes PROVE AllAlike  BY <1>2, SameAlike
<1>3. ASSUME NEW how, Fail(how) PROVE AllAlike  BY <1>2, <1>3 DEF Fail
<1>4. CASE EvaluateLeaf \/ Expression \/ Declaration \/ Branching
  BY <1>4, QuietLeaf, QuietExpression, QuietDeclaration, QuietBranching DEF Quietly
<1>5. CASE Jumping
  <2>1. CASE evaluate_defer_stat
    <3>1. Fail("overflow") \/ status' = "run"
      BY <1>1, <2>1 DEF evaluate_defer_stat, Finish
    <3> QED  BY <1>3, <2>1, <3>1
  <2>2. CASE ReturnExpr
    <3>1. Fail("crash") \/ UNCHANGED scopes  BY <2>2 DEF ReturnExpr
    <3> QED  BY <1>2, <1>3, <3>1
  <2>3. CASE JumpEnter \/ ReturnValue  BY <1>2, <2>3 DEF JumpEnter, ReturnValue
  <2> QED  BY <1>5, <2>1, <2>2, <2>3 DEF Jumping
<1>6. CASE Scoping
  <2>1. CASE BlockEnter  BY <1>1, <2>1 DEF BlockEnter, Resume
  <2>2. CASE CallScope
    <3>1. Fail("crash") \/ status' = "run"  BY <1>1, <2>2 DEF CallScope, Resume
    <3> QED  BY <1>3, <2>2, <3>1
  <2>3. CASE CallEnter
    <3>1. Fail("exit") \/ UNCHANGED scopes  BY <2>3 DEF CallEnter
    <3> QED  BY <1>2, <1>3, <3>1
  <2>4. CASE CallBind
    <3>1. Fail("crash") \/ Fail("abort") \/ \E f : Resume(f)  BY <2>4 DEF CallBind
    <3>2. ASSUME NEW f, Resume(f) PROVE status' = "run"  BY <1>1, <3>2 DEF Resume
    <3> QED  BY <1>3, <2>4, <3>1, <3>2, BindAlike
  <2>5. CASE CallArgument \/ CallBody \/ Statement \/ StatementDone \/ Leave
    BY <1>2, <2>5 DEF CallArgument, CallBody, Statement, StatementDone, Leave
  <2> QED  BY <1>6, <2>1, <2>2, <2>3, <2>4, <2>5 DEF Scoping
<1>7. CASE Running
  <2>1. CASE MainEnter
    <3>1. Fail("crash") \/ UNCHANGED scopes  BY <2>1 DEF MainEnter
    <3> QED  BY <1>2, <1>3, <3>1
  <2>2. CASE ProgramStatement \/ MainDone  BY <1>2, <2>2 DEF ProgramStatement, MainDone
  <2> QED  BY <1>7, <2>1, <2>2 DEF Running
<1> QED  BY <1>4, <1>5, <1>6, <1>7 DEF Next

\* One scope changes, and what it holds can still be deferred.
LEMMA OnlyDeferrable ==
  ASSUME Deferrable, NEW d, OnlyScope(d), scopes'[d].defers = scopes[d].defers
  PROVE  Deferrable'
<1>1. ASSUME NEW s \in 1..Len(scopes) PROVE scopes'[s].defers = scopes[s].defers
  <2>1. CASE s = d  BY <2>1
  <2>2. CASE s # d  BY <2>2 DEF OnlyScope
  <2> QED  BY <2>1, <2>2
<1> QED  BY <1>1 DEF Deferrable, OnlyScope, TypeOf

LEMMA OnlyMarked ==
  ASSUME NEW d, OnlyScope(d), scopes'[d].defers = scopes[d].defers,
         scopes'[d].ran = scopes[d].ran
  PROVE  Book' = Book
<1>1. \A s \in 1..Len(scopes) :
        [registered |-> Len(scopes'[s].defers), ran |-> scopes'[s].ran]
          = [registered |-> Len(scopes[s].defers), ran |-> scopes[s].ran]
  BY DEF OnlyScope
<1> QED  BY <1>1 DEF Book, OnlyScope

LEMMA RunIsPromised ==
  ASSUME IInv, IInv', Tended, RunDefer
  PROVE  Promised /\ OnlyScope(DeferScope)
         /\ scopes'[DeferScope].defers = scopes[DeferScope].defers
<1>1. Top.pc = "defers"  BY DEF RunDefer
<1>2. DeferScope = Len(scopes) /\ Left(scopes[DeferScope]) = 1..Top.i
  <2>1. CASE This.type \in Jumps
    <3>1. This.type \in DeferTypes  BY <2>1 DEF DeferTypes
    <3> QED  BY <1>1, <2>1, <3>1, JumpAtDefers, CallerOfJump
  <2>2. CASE This.type \notin Jumps
    BY <1>1, <2>2, OwnerAtDefers, OwnNewest
  <2> QED  BY <2>1, <2>2
<1>3. /\ OnlyScope(DeferScope) /\ Top.i \in Nat \ {0}
      /\ scopes'[DeferScope].defers = scopes[DeferScope].defers
      /\ scopes'[DeferScope].ran = Append(scopes[DeferScope].ran, Top.i)
  BY <1>2, DeferRuns
<1> QED  BY <1>2, <1>3, BookRuns

LEMMA NextDeferral ==
  ASSUME Tidy(Nodes), IInv, IInv', Next, Tended, Deferrable
  PROVE  Deferrable' /\ Promised
<1>0. scopes \in Seq(ScopeType) /\ Len(scopes) \in Nat \ {0}  BY StackFacts
<1>1. CASE AllAlike
  BY <1>1, AlikeBook, AlikeDeferrable, BookStays
<1>2. CASE evaluate_defer_stat /\ status' = "run"
  <2> DEFINE d == Len(scopes)
             n == This.kids[1]
  <2>1. /\ OnlyScope(d) /\ scopes'[d].defers = Append(scopes[d].defers, n)
        /\ scopes'[d].ran = scopes[d].ran /\ TypeOf(n) \notin DeferTypes
    BY <1>2, DeferRegisters
  <2>2. Promised  BY <2>1, BookRegisters
  <2>3. scopes[d].defers \in Seq(Below)
    <3>1. scopes[d] \in ScopeType  BY <1>0
    <3> QED  BY <3>1, DefersLength
  <2>4. ASSUME NEW k \in 1..Len(scopes'[d].defers)
        PROVE  TypeOf(scopes'[d].defers[k]) \notin DeferTypes
    <3> DEFINE q == scopes[d].defers
    <3> HIDE DEF n
    <3>1. k = Len(q) + 1 \/ k \in 1..Len(q)  BY <2>1, <2>3, <2>4
    <3>2. CASE k = Len(q) + 1  BY <2>1, <2>3, <3>2
    <3>3. CASE k \in 1..Len(q)
      <4>1. scopes'[d].defers[k] = q[k]  BY <2>1, <2>3, <3>3
      <4>2. d \in 1..Len(scopes)  BY <1>0
      <4> QED  BY <3>3, <4>1, <4>2 DEF Deferrable
    <3> QED  BY <3>1, <3>2, <3>3
  <2>5. ASSUME NEW s \in 1..Len(scopes'), NEW k \in 1..Len(scopes'[s].defers)
        PROVE  TypeOf(scopes'[s].defers[k]) \notin DeferTypes
    <3>1. CASE s = d  BY <2>4, <2>5, <3>1
    <3>2. CASE s # d  BY <2>1, <2>5, <3>2 DEF OnlyScope, Deferrable
    <3> QED  BY <3>1, <3>2
  <2> QED  BY <2>2, <2>5 DEF Deferrable, TypeOf
<1>3. CASE RunDefer
  BY <1>3, RunIsPromised, OnlyDeferrable
<1>4. CASE (BlockEnter \/ CallScope) /\ status' = "run"
  <2>1. PICK p \in 1..Len(scopes) : scopes' = NewScope(scopes, p)
    <3>1. 1 \in 1..Len(scopes) /\ Top.scope \in 1..Len(scopes)  BY <1>0, StackFacts
    <3>2. ~Fail("crash") \/ ~CallScope  BY <1>4 DEF Fail
    <3> QED  BY <1>4, <3>1, <3>2 DEF BlockEnter, CallScope
  <2>2. PICK c : /\ Len(scopes') = Len(scopes) + 1
                 /\ \A s \in 1..Len(scopes) : scopes'[s] = scopes[s]
                 /\ scopes'[Len(scopes) + 1] = create_scope(c)
    BY <2>1, NewScopeFacts
  <2>3. Promised  BY <2>2, BookOpens
  <2>4. scopes'[Len(scopes) + 1].defers = <<>>  BY <2>2 DEF create_scope
  <2>5. ASSUME NEW s \in 1..Len(scopes'), NEW k \in 1..Len(scopes'[s].defers)
        PROVE  TypeOf(scopes'[s].defers[k]) \notin DeferTypes
    <3>1. CASE s = Len(scopes) + 1  BY <2>4, <2>5, <3>1
    <3>2. CASE s # Len(scopes) + 1
      <4>1. s \in 1..Len(scopes)  BY <1>0, <2>2, <3>2
      <4> QED  BY <2>2, <2>5, <4>1 DEF Deferrable
    <3> QED  BY <3>1, <3>2
  <2> QED  BY <2>3, <2>5 DEF Deferrable, TypeOf
<1>5. CASE DefersDone \/ JumpDefersDone
  <2>1. Top.pc = "defers"  BY <1>5 DEF DefersDone, JumpDefersDone
  <2>2. DeferScope \in 1..Len(scopes)  BY <2>1, DefersLabel
  <2>3. scopes' = [scopes EXCEPT ![DeferScope].is_deferred = TRUE]
    BY <1>5 DEF DefersDone, JumpDefersDone, DeferScope
  <2>4. /\ OnlyScope(DeferScope) /\ scopes'[DeferScope].defers = scopes[DeferScope].defers
        /\ scopes'[DeferScope].ran = scopes[DeferScope].ran
    BY <2>2, <2>3, MarkedScope
  <2> QED  BY <2>4, OnlyDeferrable, OnlyMarked, BookStays
<1>6. CASE FreeScope
  <2>1. /\ Left(scopes[Len(scopes)]) = {} /\ scopes' = Front(scopes) /\ Len(scopes) > 1
    BY <1>6, OwnerFrees
  <2>2. Promised  BY <2>1, BookCloses
  <2>3. /\ Len(scopes') = Len(scopes) - 1
        /\ \A s \in 1..(Len(scopes) - 1) : scopes'[s] = scopes[s]
    BY <1>0, <2>1, FrontOfSeq
  <2>4. ASSUME NEW s \in 1..Len(scopes'), NEW k \in 1..Len(scopes'[s].defers)
        PROVE  TypeOf(scopes'[s].defers[k]) \notin DeferTypes
    <3>1. s \in 1..(Len(scopes) - 1) /\ s \in 1..Len(scopes)  BY <1>0, <2>3
    <3> QED  BY <2>3, <2>4, <3>1 DEF Deferrable
  <2> QED  BY <2>2, <2>4 DEF Deferrable, TypeOf
<1> QED  BY <1>1, <1>2, <1>3, <1>4, <1>5, <1>6, AlikeSteps

LEMMA InitDeferral ==
  ASSUME Init
  PROVE  Deferral /\ Promise!Init
<1>1. PICK program \in Programs :
        stack = <<NewFrame(program, 1)>> /\ scopes = <<GlobalScope(program)>>
  BY DEF Init
<1>2. Len(stack) = 1 /\ stack[1] = NewFrame(program, 1) /\ Len(scopes) = 1
      /\ scopes[1] = GlobalScope(program)
  BY <1>1
<1>3. stack[1].pc = "enter" /\ stack[1].node = program  BY <1>2 DEF NewFrame
<1>4. TypeOf(program) = "PROGRAM"  BY ProgramsAssumption
<1>5. scopes[1].defers = <<>> /\ Fresh(scopes[1])
  BY <1>2 DEF GlobalScope, create_scope, Fresh
<1>6. Home(stack[1]) = 1  BY <1>3, <1>4 DEF Home
<1>7. Innermost(stack[1], scopes, fns, ret.brk = "return")
  BY <1>3, <1>5, <1>6 DEF Innermost, Alone
<1>8. Tended
  <2>1. 1..(Len(stack) - 1) = {}  BY <1>2
  <2> QED  BY <1>2, <1>7, <2>1 DEF Tended
<1>9. Deferrable
  <2>1. \A s \in 1..Len(scopes) : scopes[s].defers = <<>>  BY <1>2, <1>5
  <2>2. Len(<<>>) = 0 /\ 1..0 = {}  OBVIOUS
  <2> QED  BY <2>1, <2>2 DEF Deferrable
<1>10. Book = <<[registered |-> 0, ran |-> <<>>]>>
  <2>1. [registered |-> Len(scopes[1].defers), ran |-> scopes[1].ran]
          = [registered |-> 0, ran |-> <<>>]
    BY <1>5 DEF Fresh
  <2>2. 1..Len(scopes) = {1}  BY <1>2
  <2> QED  BY <2>1, <2>2 DEF Book
<1> QED  BY <1>8, <1>9, <1>10 DEF Deferral, Promise!Init, Book

LEMMA DeferralKept ==
  ASSUME Tidy(Nodes), IInv, Deferral, [Next]_vars
  PROVE  Deferral' /\ Promised
<1>1. CASE Next
  <2>1. IInv'  BY <1>1, NextIInv
  <2>2. Tended /\ Deferrable  BY <1>1, NextRuns DEF Deferral
  <2> QED  BY <1>1, <2>1, <2>2, NextTended, NextDeferral DEF Deferral
<1>2. CASE UNCHANGED vars
  <2>1. Book' = Book  BY <1>2 DEF vars, Book
  <2>2. Deferral'
    <3>1. Tended' <=> Tended  BY <1>2 DEF vars, Tended
    <3>2. Deferrable' <=> Deferrable  BY <1>2 DEF vars, Deferrable, TypeOf
    <3> QED  BY <1>2, <3>1, <3>2 DEF vars, Deferral
  <2> QED  BY <2>1, <2>2, BookStays
<1> QED  BY <1>1, <1>2

(***************************************************************************)
(* In every run of a tidy program, however it leaves its blocks and calls  *)
(* and whatever the defers themselves call, the nodes deferred in a scope  *)
(* run once each, newest first, and before the scope ends: the loops and   *)
(* the mark is_deferred of interp.c:25, 43, 56, 344 and 791.               *)
(***************************************************************************)
THEOREM DefersAreKept ==
  ASSUME Tidy(Nodes)
  PROVE  Spec => DefersKept
<1>1. Init => IInv /\ Deferral /\ Promise!Init  BY InitIInv, InitDeferral
<1>2. IInv /\ Deferral /\ [Next]_vars => IInv' /\ Deferral' /\ Promised
  BY NextIInv, DeferralKept
<1>3. Promised => [Promise!Next]_[s \in 1..Len(scopes) |->
                    [registered |-> Len(scopes[s].defers), ran |-> scopes[s].ran]]
  BY DEF Promised, Book
<1> QED  BY <1>1, <1>2, <1>3, PTL DEF Spec, DefersKept, Promise!Spec
=============================================================================
