---------------------------- MODULE InterpTheorems ----------------------------
(***************************************************************************)
(* Proofs about Interp for every program, every bound and every memory     *)
(* layout.  An action of the interpreter makes one of six moves on the     *)
(* stack and the scopes; each move keeps the inductive invariant IInv,     *)
(* each action is one of the moves, and the initial states satisfy IInv:   *)
(* so what the runs check on small families of programs holds for all of   *)
(* them.                                                                   *)
(***************************************************************************)
EXTENDS Interp, CommonLemmas

FnType == [params : Seq(Names), body : Nodes]
Statuses == {"run", "done", "abort", "exit", "crash", "overflow"}

(***************************************************************************)
(* The moves.                                                              *)
(***************************************************************************)
\* The scopes are the same ones and hold at least the defers they held.
Grow ==
  /\ scopes' \in Seq(ScopeType) /\ Len(scopes') = Len(scopes)
  /\ \A s \in 1..Len(scopes) : /\ scopes'[s].chain = scopes[s].chain
                               /\ Len(scopes[s].defers) <= Len(scopes'[s].defers)
  /\ fns' \in Seq(FnType) /\ Len(fns) <= Len(fns')

\* The stack with f for its innermost frame.
Replaced(f) == [stack EXCEPT ![Len(stack)] = f]

\* f is the innermost frame, further on.
Continues(f) ==
  /\ f \in FrameType
  /\ f.node = Top.node /\ f.scope = Top.scope
  /\ f.sub = Top.sub \/ (f.sub <= 1 /\ Top.sub <= 1)
  /\ Frame(f, scopes', fns')

Resumes(f) ==
  /\ Continues(f) /\ Grow
  /\ stack' = Replaced(f)
  /\ ret' = ret /\ status' = status

\* Where a frame evaluates its children: in its own sub_scope once it has one.
Working == IF Top.sub > 0 THEN Top.sub ELSE Top.scope

Evaluates(f, n, s) ==
  /\ Continues(f) /\ Grow
  /\ s \in {1, Working}
  /\ n \in Nodes /\ TypeOf(n) # "PROGRAM" /\ s \in 1..Len(scopes)
  /\ stack' = Append(Replaced(f), NewFrame(n, s))
  /\ ret' = ret /\ status' = status

Finishes ==
  /\ Grow /\ Top.sub = 0 /\ TypeOf(Top.node) # "PROGRAM"
  /\ stack' = Front(stack)
  /\ ret' \in ResultType /\ status' = status

Stops ==
  /\ Grow
  /\ stack' = stack /\ ret' = ret /\ status' \in Statuses

Opens(f, parent) ==
  /\ parent = IF TypeOf(Top.node) = "CALL_EXPR" THEN 1 ELSE Top.scope
  /\ parent \in 1..Len(scopes) /\ scopes' = NewScope(scopes, parent) /\ fns' = fns
  /\ f \in FrameType
  /\ f.node = Top.node /\ f.scope = Top.scope
  /\ Top.sub = 0 /\ f.sub = Len(scopes) + 1
  /\ Frame(f, scopes', fns')
  /\ stack' = Replaced(f)
  /\ ret' = ret /\ status' = status

Closes ==
  /\ Top.sub > 1 /\ TypeOf(Top.node) # "PROGRAM"
  /\ scopes' = Front(scopes) /\ fns' = fns
  /\ stack' = Front(stack)
  /\ ret' \in ResultType /\ status' = status

Move ==
  \/ \E f : Resumes(f)
  \/ \E f, n, s : Evaluates(f, n, s)
  \/ Finishes
  \/ Stops
  \/ \E f, p : Opens(f, p)
  \/ Closes

-----------------------------------------------------------------------------
(***************************************************************************)
(* Frames and scopes.                                                      *)
(***************************************************************************)
LEMMA DefersLength ==
  ASSUME NEW scope \in ScopeType
  PROVE  scope.defers \in Seq(Below) /\ Len(scope.defers) \in Nat
<1>1. scope.defers \in Seq(Below)  BY DEF ScopeType
<1> QED  BY <1>1

LEMMA StackFacts ==
  ASSUME IInv
  PROVE  /\ Len(stack) \in Nat \ {0} /\ Top \in FrameType /\ Top = stack[Len(stack)]
         /\ Len(scopes) \in Nat \ {0}
         /\ Frame(Top, scopes, fns)
         /\ Top.scope \in 1..Len(scopes)
         /\ This = NodeData[Top.node] /\ This.type = TypeOf(Top.node) /\ Top.node \in Nodes
         /\ ret \in ResultType /\ ret.value \in Value
         /\ fns \in Seq(FnType) /\ scopes \in Seq(ScopeType) /\ stack \in Seq(FrameType)
         /\ status \in Statuses
<1>1. Len(stack) \in Nat \ {0} /\ Len(scopes) \in Nat \ {0}
  BY DEF IInv, FramesOK, ChainsOK, TypeOK
<1>2. stack[Len(stack)] \in FrameType  BY <1>1 DEF IInv, TypeOK
<1>3. Top.node \in Nodes  BY <1>2 DEF Top, FrameType
<1>4. Frame(Top, scopes, fns)  BY <1>1 DEF IInv, FramesOK, Top
<1>5. ret.value \in Value  BY DEF IInv, TypeOK, ResultType
<1> QED  BY <1>1, <1>2, <1>3, <1>4, <1>5 DEF IInv, TypeOK, Top, This, TypeOf, FnType, Statuses, Frame

\* A frame stays in shape while the scopes and functions it may refer to grow.
LEMMA FrameMonotone ==
  ASSUME NEW f \in FrameType, NEW ss \in Seq(ScopeType), NEW tt \in Seq(ScopeType),
         NEW fs \in Seq(FnType), NEW gs \in Seq(FnType),
         Frame(f, ss, fs), Len(ss) <= Len(tt), Len(fs) <= Len(gs),
         \A s \in 1..Len(ss) : Len(ss[s].defers) <= Len(tt[s].defers)
  PROVE  Frame(f, tt, gs)
<1>1. f.scope \in 1..Len(tt) /\ f.sub \in 0..Len(tt)  BY DEF Frame
<1>2. TypeOf(f.node) \in {"CALL_EXPR", "PROGRAM"} /\ Opened(f) => f.fn \in 1..Len(gs)
  BY DEF Frame, FrameType
<1>3. ASSUME f.pc = "defers"
      PROVE  f.i <= Len(tt[IF TypeOf(f.node) \in Jumps THEN f.scope ELSE f.sub].defers)
  <2> DEFINE d == IF TypeOf(f.node) \in Jumps THEN f.scope ELSE f.sub
  <2>1. d \in 1..Len(ss)
    <3>1. CASE TypeOf(f.node) \in Jumps
      BY <3>1 DEF Frame
    <3>2. CASE TypeOf(f.node) \notin Jumps
      <4>1. TypeOf(f.node) \in {"BLOCK", "CALL_EXPR"}
        BY <1>3, <3>2 DEF Frame, LabelsOf, Operations, Jumps
      <4>2. f.sub > 1  BY <1>3, <4>1 DEF Frame, SubOf, Opened
      <4> QED  BY <3>2, <4>2 DEF Frame
    <3> QED  BY <3>1, <3>2
  <2>2. f.i <= Len(ss[d].defers)  BY <1>3 DEF Frame
  <2>3. ss[d] \in ScopeType /\ tt[d] \in ScopeType  BY <2>1
  <2>4. Len(ss[d].defers) \in Nat /\ Len(tt[d].defers) \in Nat  BY <2>3, DefersLength
  <2>5. f.i \in Nat  BY DEF FrameType
  <2> QED  BY <2>1, <2>2, <2>4, <2>5
<1> QED  BY <1>1, <1>2, <1>3 DEF Frame

LEMMA GrowingFrames ==
  ASSUME IInv, Grow, NEW k \in 1..Len(stack)
  PROVE  stack[k] \in FrameType /\ Frame(stack[k], scopes', fns')
<1>1. stack[k] \in FrameType /\ Frame(stack[k], scopes, fns)
  BY DEF IInv, TypeOK, FramesOK
<1>2. scopes \in Seq(ScopeType) /\ fns \in Seq(FnType)  BY StackFacts
<1>3. /\ scopes' \in Seq(ScopeType) /\ fns' \in Seq(FnType)
      /\ Len(scopes) <= Len(scopes') /\ Len(fns) <= Len(fns')
      /\ \A s \in 1..Len(scopes) : Len(scopes[s].defers) <= Len(scopes'[s].defers)
  BY DEF Grow
<1> QED  BY <1>1, <1>2, <1>3, FrameMonotone

LEMMA GrowingChains ==
  ASSUME IInv, Grow
  PROVE  ChainsOK'
  BY StackFacts DEF IInv, ChainsOK, Grow

LEMMA ReplacedTop ==
  ASSUME IInv, Grow, NEW f, Continues(f)
  PROVE  /\ Replaced(f) \in Seq(FrameType) /\ Len(Replaced(f)) = Len(stack)
         /\ \A k \in 1..Len(stack) :
              /\ Replaced(f)[k] \in FrameType
              /\ Frame(Replaced(f)[k], scopes', fns')
              /\ TypeOf(Replaced(f)[k].node) = "PROGRAM" <=> k = 1
              /\ Replaced(f)[k].scope = stack[k].scope
              /\ Replaced(f)[k].sub \in Nat /\ stack[k].sub \in Nat
              /\ Owns(Replaced(f)[k]) <=> Owns(stack[k])
              /\ Owns(stack[k]) => Replaced(f)[k].sub = stack[k].sub
<1>1. f \in FrameType /\ stack \in Seq(FrameType) /\ Len(stack) \in Nat \ {0}
  BY StackFacts DEF Continues
<1>2. Replaced(f) \in Seq(FrameType) /\ Len(Replaced(f)) = Len(stack)  BY <1>1 DEF Replaced
<1>3. ASSUME NEW k \in 1..Len(stack), k # Len(stack)
      PROVE  Replaced(f)[k] = stack[k]
  BY <1>1, <1>3 DEF Replaced
<1>4. Replaced(f)[Len(stack)] = f  BY <1>1 DEF Replaced
<1>5. ASSUME NEW k \in 1..Len(stack)
      PROVE  /\ Replaced(f)[k] \in FrameType
             /\ Frame(Replaced(f)[k], scopes', fns')
             /\ TypeOf(Replaced(f)[k].node) = "PROGRAM" <=> k = 1
             /\ Replaced(f)[k].scope = stack[k].scope
             /\ Replaced(f)[k].sub \in Nat /\ stack[k].sub \in Nat
             /\ Owns(Replaced(f)[k]) <=> Owns(stack[k])
             /\ Owns(stack[k]) => Replaced(f)[k].sub = stack[k].sub
  <2>0. stack[k] \in FrameType  BY <1>1
  <2>1. stack[k] \in FrameType /\ stack[k].sub \in Nat
    BY <2>0 DEF FrameType
  <2>2. TypeOf(stack[k].node) = "PROGRAM" <=> k = 1
    BY DEF IInv, FramesOK
  <2>3. CASE k # Len(stack)
    BY <1>3, <2>1, <2>2, <2>3, GrowingFrames
  <2>4. CASE k = Len(stack)
    <3>1. stack[k] = Top  BY <2>4 DEF Top
    <3>2. f.sub \in Nat  BY <1>1 DEF FrameType
    <3> QED  BY <1>1, <1>4, <2>1, <2>2, <2>4, <3>1, <3>2 DEF Continues, Owns
  <2> QED  BY <2>3, <2>4
<1> QED  BY <1>2, <1>5

LEMMA ResumesKeeps ==
  ASSUME IInv, NEW f, Resumes(f)
  PROVE  IInv'
<1>1. Grow /\ Continues(f) /\ stack' = Replaced(f) /\ ret' = ret /\ status' = status
  BY DEF Resumes
<1>2. /\ stack' \in Seq(FrameType) /\ Len(stack') = Len(stack)
      /\ \A k \in 1..Len(stack) :
              /\ stack'[k] \in FrameType
              /\ Frame(stack'[k], scopes', fns')
              /\ TypeOf(stack'[k].node) = "PROGRAM" <=> k = 1
              /\ stack'[k].scope = stack[k].scope
              /\ stack'[k].sub \in Nat /\ stack[k].sub \in Nat
              /\ Owns(stack'[k]) <=> Owns(stack[k])
              /\ Owns(stack[k]) => stack'[k].sub = stack[k].sub
  BY <1>1, ReplacedTop
<1>3. TypeOK'
  BY <1>1, <1>2, StackFacts DEF TypeOK, Grow, FnType, Statuses
<1>4. FramesOK'
  BY <1>2, StackFacts DEF FramesOK
<1>5. ScopeDiscipline'
  <2>1. ScopeDiscipline /\ Len(scopes') = Len(scopes) /\ Len(scopes) \in Nat
    BY <1>1, StackFacts DEF IInv, Grow
  <2>2. \A k \in 1..Len(stack') : stack'[k].scope \in 1..Len(scopes')
                                  /\ stack'[k].sub \in 0..Len(scopes')
    BY <1>2 DEF Frame
  <2>3. ASSUME NEW s \in 2..Len(scopes')
        PROVE  \E k \in 1..Len(stack') : stack'[k].sub = s
    <3>1. PICK k \in 1..Len(stack) : stack[k].sub = s  BY <2>1 DEF ScopeDiscipline
    <3>2. Owns(stack[k])  BY <3>1, <2>1 DEF Owns
    <3> QED  BY <1>2, <3>1, <3>2
  <2>4. ASSUME NEW j \in 1..Len(stack'), NEW k \in 1..Len(stack')
        PROVE /\ j < k /\ Owns(stack'[j]) /\ Owns(stack'[k]) => stack'[j].sub < stack'[k].sub
              /\ j <= k /\ Owns(stack'[k]) => stack'[j].scope < stack'[k].sub
    <3>1. /\ j < k /\ Owns(stack[j]) /\ Owns(stack[k]) => stack[j].sub < stack[k].sub
          /\ j <= k /\ Owns(stack[k]) => stack[j].scope < stack[k].sub
      BY <1>2, <2>1 DEF ScopeDiscipline
    <3> QED  BY <1>2, <3>1
  <2> QED  BY <2>2, <2>3, <2>4 DEF ScopeDiscipline, Owns
<1> QED  BY <1>1, <1>3, <1>4, <1>5, GrowingChains DEF IInv

LEMMA NewFrameFacts ==
  ASSUME NEW n \in Nodes, NEW s \in Nat
  PROVE  /\ NewFrame(n, s) \in FrameType
         /\ NewFrame(n, s).node = n /\ NewFrame(n, s).scope = s
         /\ NewFrame(n, s).sub = 0 /\ NewFrame(n, s).pc = "enter"
         /\ NewFrame(n, s).i = 0 /\ NewFrame(n, s).vals = <<>>
<1>1. NoValue \in ResultType
  BY ZeroFits DEF NoValue, Result, ResultType, BreakTypes, None, ValueTypes
<1> QED  BY <1>1 DEF NewFrame, FrameType, PcLabels

\* A frame begins in shape wherever it begins.
LEMMA NewFrameOK ==
  ASSUME NEW n \in Nodes, NEW ss \in Seq(ScopeType), NEW s \in 1..Len(ss), NEW fs
  PROVE  Frame(NewFrame(n, s), ss, fs)
<1> DEFINE f == NewFrame(n, s)
<1>1. f.node = n /\ f.scope = s /\ f.sub = 0 /\ f.pc = "enter" /\ f.vals = <<>>
  BY NewFrameFacts
<1>2. ~Opened(f)  BY <1>1 DEF Opened
<1>3. SubOf(f)  BY <1>1, <1>2 DEF SubOf
<1>4. f.pc \in LabelsOf(TypeOf(f.node))  BY <1>1 DEF LabelsOf
<1>5. Len(f.vals) <= Len(NodeData[f.node].kids)
  <2>1. NodeData[n].kids \in Seq(Nodes)  BY NodesAssumption
  <2>2. Len(NodeData[n].kids) >= 0  BY <2>1
  <2> QED  BY <1>1, <2>2
<1> HIDE DEF f
<1>6. Frame(f, ss, fs)  BY <1>1, <1>2, <1>3, <1>4, <1>5 DEF Frame
<1> QED  BY <1>6 DEF f

LEMMA EvaluatesKeeps ==
  ASSUME IInv, NEW f, NEW n, NEW s, Evaluates(f, n, s)
  PROVE  IInv'
<1> DEFINE N == Len(stack)
<1>1. /\ Grow /\ Continues(f) /\ stack' = Append(Replaced(f), NewFrame(n, s))
      /\ ret' = ret /\ status' = status
      /\ n \in Nodes /\ TypeOf(n) # "PROGRAM" /\ s \in 1..Len(scopes)
  BY DEF Evaluates
<1>2. /\ Replaced(f) \in Seq(FrameType) /\ Len(Replaced(f)) = N
      /\ \A k \in 1..N :
              /\ Frame(Replaced(f)[k], scopes', fns')
              /\ TypeOf(Replaced(f)[k].node) = "PROGRAM" <=> k = 1
              /\ Replaced(f)[k].scope = stack[k].scope
              /\ Replaced(f)[k].sub \in Nat /\ stack[k].sub \in Nat
              /\ Owns(Replaced(f)[k]) <=> Owns(stack[k])
              /\ Owns(stack[k]) => Replaced(f)[k].sub = stack[k].sub
  BY <1>1, ReplacedTop
<1>3. /\ NewFrame(n, s) \in FrameType /\ NewFrame(n, s).node = n
      /\ NewFrame(n, s).scope = s /\ NewFrame(n, s).sub = 0
  <2>1. s \in Nat  BY <1>1, StackFacts
  <2> QED  BY <1>1, <2>1, NewFrameFacts
<1>4. Frame(NewFrame(n, s), scopes', fns')
  BY <1>1, NewFrameOK DEF Grow
<1>5. N \in Nat \ {0}  BY StackFacts
<1>6. /\ stack' \in Seq(FrameType) /\ Len(stack') = N + 1
      /\ stack'[N + 1] = NewFrame(n, s)
      /\ \A k \in 1..N : stack'[k] = Replaced(f)[k]
  BY <1>1, <1>2, <1>3, AppendProperties
<1>7. TypeOK'
  BY <1>1, <1>6, StackFacts DEF TypeOK, Grow, FnType, Statuses
<1>8. FramesOK'
  <2>1. ASSUME NEW k \in 1..Len(stack')
        PROVE  Frame(stack'[k], scopes', fns') /\ (TypeOf(stack'[k].node) = "PROGRAM" <=> k = 1)
    <3>1. CASE k = N + 1
      BY <1>1, <1>3, <1>4, <1>5, <1>6, <3>1
    <3>2. CASE k \in 1..N
      BY <1>2, <1>6, <3>2
    <3> QED  BY <1>5, <1>6, <3>1, <3>2
  <2> QED  BY <1>5, <1>6, <2>1 DEF FramesOK
<1>9. ScopeDiscipline'
  <2>1. ScopeDiscipline /\ Len(scopes') = Len(scopes) /\ Len(scopes) \in Nat
    BY <1>1, StackFacts DEF IInv, Grow
  <2>2. \A k \in 1..Len(stack') : stack'[k].scope \in 1..Len(scopes')
                                  /\ stack'[k].sub \in 0..Len(scopes')
    BY <1>8 DEF FramesOK, Frame
  <2>3. ASSUME NEW x \in 2..Len(scopes')
        PROVE  \E k \in 1..Len(stack') : stack'[k].sub = x
    <3>1. PICK k \in 1..N : stack[k].sub = x  BY <2>1 DEF ScopeDiscipline
    <3>2. Owns(stack[k])  BY <3>1, <2>1 DEF Owns
    <3> QED  BY <1>2, <1>5, <1>6, <3>1, <3>2
  <2>4. ASSUME NEW j \in 1..Len(stack'), NEW k \in 1..Len(stack')
        PROVE /\ j < k /\ Owns(stack'[j]) /\ Owns(stack'[k]) => stack'[j].sub < stack'[k].sub
              /\ j <= k /\ Owns(stack'[k]) => stack'[j].scope < stack'[k].sub
    <3>1. CASE k = N + 1
      BY <1>3, <1>6, <3>1 DEF Owns
    <3>2. CASE k \in 1..N /\ j \in 1..N
      <4>1. /\ j < k /\ Owns(stack[j]) /\ Owns(stack[k]) => stack[j].sub < stack[k].sub
            /\ j <= k /\ Owns(stack[k]) => stack[j].scope < stack[k].sub
        BY <2>1, <3>2 DEF ScopeDiscipline
      <4> QED  BY <1>2, <1>6, <3>2, <4>1
    <3>3. CASE k \in 1..N /\ j = N + 1
      BY <1>5, <3>3
    <3> QED  BY <1>5, <1>6, <3>1, <3>2, <3>3
  <2> QED  BY <2>2, <2>3, <2>4 DEF ScopeDiscipline, Owns
<1> QED  BY <1>1, <1>7, <1>8, <1>9, GrowingChains DEF IInv

LEMMA PoppedStack ==
  ASSUME IInv, stack' = Front(stack), TypeOf(Top.node) # "PROGRAM"
  PROVE  /\ stack' \in Seq(FrameType) /\ Len(stack') = Len(stack) - 1 /\ Len(stack') > 0
         /\ Len(stack) \in Nat
         /\ \A k \in 1..Len(stack') : k \in 1..Len(stack) /\ k < Len(stack) /\ stack'[k] = stack[k]
<1>1. Len(stack) \in Nat \ {0} /\ stack \in Seq(FrameType) /\ Top = stack[Len(stack)]
  BY StackFacts
<1>2. Len(stack) # 1  BY <1>1 DEF IInv, FramesOK
<1>3. /\ stack' \in Seq(FrameType) /\ Len(stack') = Len(stack) - 1
      /\ \A k \in 1..(Len(stack) - 1) : stack'[k] = stack[k]
  BY <1>1, FrontOfSeq
<1> QED  BY <1>1, <1>2, <1>3

LEMMA FinishesKeeps ==
  ASSUME IInv, Finishes
  PROVE  IInv'
<1>1. Grow /\ Top.sub = 0 /\ TypeOf(Top.node) # "PROGRAM" /\ stack' = Front(stack)
      /\ ret' \in ResultType /\ status' = status
  BY DEF Finishes
<1>2. /\ stack' \in Seq(FrameType) /\ Len(stack') = Len(stack) - 1 /\ Len(stack') > 0
      /\ Len(stack) \in Nat
      /\ \A k \in 1..Len(stack') : k \in 1..Len(stack) /\ k < Len(stack) /\ stack'[k] = stack[k]
  BY <1>1, PoppedStack
<1>3. TypeOK'
  BY <1>1, <1>2, StackFacts DEF TypeOK, Grow, FnType, Statuses
<1>4. FramesOK'
  <2>1. ASSUME NEW k \in 1..Len(stack')
        PROVE  Frame(stack'[k], scopes', fns') /\ (TypeOf(stack'[k].node) = "PROGRAM" <=> k = 1)
    <3>1. k \in 1..Len(stack) /\ stack'[k] = stack[k]  BY <1>2
    <3>2. Frame(stack[k], scopes', fns')  BY <1>1, <3>1, GrowingFrames
    <3> QED  BY <3>1, <3>2 DEF IInv, FramesOK
  <2> QED  BY <1>2, <2>1 DEF FramesOK
<1>5. ScopeDiscipline'
  <2>1. ScopeDiscipline /\ Len(scopes') = Len(scopes) /\ Len(scopes) \in Nat
    BY <1>1, StackFacts DEF IInv, Grow
  <2>2. ASSUME NEW s \in 2..Len(scopes')
        PROVE  \E k \in 1..Len(stack') : stack'[k].sub = s
    <3>1. PICK k \in 1..Len(stack) : stack[k].sub = s  BY <2>1 DEF ScopeDiscipline
    <3>2. k # Len(stack)  BY <1>1, <2>1, <3>1 DEF Top
    <3> QED  BY <1>2, <3>1, <3>2
  <2> QED  BY <1>2, <2>1, <2>2 DEF ScopeDiscipline
<1> QED  BY <1>1, <1>3, <1>4, <1>5, GrowingChains DEF IInv

LEMMA StopsKeeps ==
  ASSUME IInv, Stops
  PROVE  IInv'
<1>1. Grow /\ stack' = stack /\ ret' = ret /\ status' \in Statuses
  BY DEF Stops
<1>2. TypeOK'
  BY <1>1, StackFacts DEF TypeOK, Grow, FnType, Statuses
<1>3. FramesOK'
  <2>1. \A k \in 1..Len(stack) : Frame(stack[k], scopes', fns')
    BY <1>1, GrowingFrames
  <2> QED  BY <1>1, <2>1 DEF IInv, FramesOK
<1>4. ScopeDiscipline'
  BY <1>1 DEF IInv, ScopeDiscipline, Grow
<1> QED  BY <1>1, <1>2, <1>3, <1>4, GrowingChains DEF IInv

LEMMA NewScopeFacts ==
  ASSUME IInv, NEW p \in 1..Len(scopes), scopes' = NewScope(scopes, p)
  PROVE  /\ scopes' \in Seq(ScopeType) /\ Len(scopes') = Len(scopes) + 1
         /\ \A s \in 1..Len(scopes) : scopes'[s] = scopes[s]
         /\ scopes'[Len(scopes) + 1] = create_scope(scopes[p].chain \cup {Len(scopes) + 1})
         /\ scopes[p].chain \subseteq 1..p
<1>1. scopes \in Seq(ScopeType) /\ Len(scopes) \in Nat \ {0}  BY StackFacts
<1>2. scopes[p].chain \subseteq 1..p  BY DEF IInv, ChainsOK
<1> DEFINE new == create_scope(scopes[p].chain \cup {Len(scopes) + 1})
<1>3. new \in ScopeType
  <2>1. scopes[p].chain \cup {Len(scopes) + 1} \in SUBSET Nat  BY <1>1, <1>2
  <2> HIDE DEF IInv
  <2> QED  BY <2>1 DEF create_scope, ScopeType
<1>4. scopes' = Append(scopes, new)
  <2>1. p # 0  BY <1>1
  <2>2. (IF p = 0 THEN {} ELSE scopes[p].chain) = scopes[p].chain  BY <2>1
  <2> QED  BY <2>2, Zenon DEF NewScope
<1> HIDE DEF new
<1>5. /\ scopes' \in Seq(ScopeType) /\ Len(scopes') = Len(scopes) + 1
      /\ \A s \in 1..Len(scopes) : scopes'[s] = scopes[s]
      /\ scopes'[Len(scopes) + 1] = new
  BY <1>1, <1>3, <1>4, AppendProperties
<1> QED  BY <1>2, <1>5 DEF new

LEMMA OpensKeeps ==
  ASSUME IInv, NEW f, NEW p, Opens(f, p)
  PROVE  IInv'
<1> DEFINE N == Len(stack)
<1>1. /\ p \in 1..Len(scopes) /\ scopes' = NewScope(scopes, p) /\ fns' = fns
      /\ f \in FrameType /\ f.node = Top.node /\ f.scope = Top.scope
      /\ Top.sub = 0 /\ f.sub = Len(scopes) + 1
      /\ Frame(f, scopes', fns')
      /\ stack' = Replaced(f) /\ ret' = ret /\ status' = status
  BY DEF Opens
<1>2. /\ scopes' \in Seq(ScopeType) /\ Len(scopes') = Len(scopes) + 1
      /\ \A s \in 1..Len(scopes) : scopes'[s] = scopes[s]
      /\ scopes'[Len(scopes) + 1] = create_scope(scopes[p].chain \cup {Len(scopes) + 1})
      /\ scopes[p].chain \subseteq 1..p
  BY <1>1, NewScopeFacts
<1>3. /\ stack \in Seq(FrameType) /\ N \in Nat \ {0} /\ Top = stack[N]
      /\ scopes \in Seq(ScopeType) /\ Len(scopes) \in Nat \ {0} /\ fns \in Seq(FnType)
      /\ ret \in ResultType /\ status \in Statuses
  BY StackFacts
<1>4. stack' \in Seq(FrameType) /\ Len(stack') = N /\ stack'[N] = f
  BY <1>1, <1>3 DEF Replaced
<1>5. ASSUME NEW k \in 1..N, k # N
      PROVE  stack'[k] = stack[k]
  BY <1>1, <1>3, <1>5 DEF Replaced
<1>6. TypeOK'
  BY <1>1, <1>2, <1>3, <1>4 DEF TypeOK, FnType, Statuses
<1>7. FramesOK'
  <2>1. ASSUME NEW k \in 1..N
        PROVE  Frame(stack'[k], scopes', fns') /\ (TypeOf(stack'[k].node) = "PROGRAM" <=> k = 1)
    <3>1. CASE k = N
      BY <1>1, <1>3, <1>4, <3>1 DEF IInv, FramesOK
    <3>2. CASE k # N
      <4>1. stack'[k] = stack[k] /\ stack[k] \in FrameType  BY <1>3, <1>5, <3>2
      <4>2. Frame(stack[k], scopes, fns) /\ (TypeOf(stack[k].node) = "PROGRAM" <=> k = 1)
        BY DEF IInv, FramesOK
      <4>3. \A s \in 1..Len(scopes) : Len(scopes[s].defers) <= Len(scopes'[s].defers)
        <5>1. \A s \in 1..Len(scopes) : Len(scopes[s].defers) \in Nat  BY <1>3, DefersLength
        <5> QED  BY <1>2, <5>1
      <4>4. Len(scopes) <= Len(scopes') /\ Len(fns) <= Len(fns')  BY <1>1, <1>2, <1>3
      <4>5. Frame(stack[k], scopes', fns')
        BY <1>1, <1>2, <1>3, <4>1, <4>2, <4>3, <4>4, FrameMonotone
      <4> QED  BY <4>1, <4>2, <4>5
    <3> QED  BY <3>1, <3>2
  <2> QED  BY <1>3, <1>4, <2>1 DEF FramesOK
<1>8. ChainsOK'
  <2>1. ASSUME NEW s \in 1..Len(scopes')
        PROVE  s \in scopes'[s].chain /\ scopes'[s].chain \subseteq 1..s
    <3>1. CASE s = Len(scopes) + 1
      <4>1. scopes'[s].chain = scopes[p].chain \cup {s}
        BY <1>2, <3>1 DEF create_scope
      <4>2. scopes[p].chain \subseteq 1..p  BY <1>1, <1>3 DEF IInv, ChainsOK
      <4>3. p \in Nat /\ p < s /\ s \in Nat  BY <1>1, <1>3, <3>1
      <4> QED  BY <4>1, <4>2, <4>3
    <3>2. CASE s \in 1..Len(scopes)
      BY <1>2, <3>2 DEF IInv, ChainsOK
    <3> QED  BY <1>2, <1>3, <3>1, <3>2
  <2> QED  BY <1>2, <1>3, <2>1 DEF ChainsOK
<1>9. ScopeDiscipline'
  <2>1. ASSUME NEW k \in 1..N
        PROVE  /\ stack[k].scope \in 1..Len(scopes) /\ stack[k].sub \in 0..Len(scopes)
               /\ stack'[k].scope = stack[k].scope
               /\ k # N => stack'[k] = stack[k]
               /\ k = N => stack'[k].sub = Len(scopes) + 1 /\ stack[k].sub = 0
    BY <1>1, <1>3, <1>4, <1>5 DEF IInv, ScopeDiscipline
  <2>2. \A k \in 1..Len(stack') : stack'[k].scope \in 1..Len(scopes')
                                  /\ stack'[k].sub \in 0..Len(scopes')
    BY <1>2, <1>3, <1>4, <2>1
  <2>3. ASSUME NEW s \in 2..Len(scopes')
        PROVE  \E k \in 1..Len(stack') : stack'[k].sub = s
    <3>1. CASE s = Len(scopes) + 1
      BY <1>3, <1>4, <2>1, <3>1
    <3>2. CASE s \in 2..Len(scopes)
      <4>1. PICK k \in 1..N : stack[k].sub = s  BY <3>2 DEF IInv, ScopeDiscipline
      <4>2. k # N  BY <2>1, <3>2, <4>1
      <4> QED  BY <1>4, <2>1, <4>1, <4>2
    <3> QED  BY <1>2, <1>3, <3>1, <3>2
  <2>4. ASSUME NEW j \in 1..Len(stack'), NEW k \in 1..Len(stack')
        PROVE /\ j < k /\ Owns(stack'[j]) /\ Owns(stack'[k]) => stack'[j].sub < stack'[k].sub
              /\ j <= k /\ Owns(stack'[k]) => stack'[j].scope < stack'[k].sub
    <3>1. CASE k = N
      BY <1>2, <1>3, <1>4, <2>1, <3>1
    <3>2. CASE k # N /\ j # N
      <4>1. /\ j < k /\ Owns(stack[j]) /\ Owns(stack[k]) => stack[j].sub < stack[k].sub
            /\ j <= k /\ Owns(stack[k]) => stack[j].scope < stack[k].sub
        BY <1>4 DEF IInv, ScopeDiscipline
      <4> QED  BY <1>4, <2>1, <3>2, <4>1
    <3>3. CASE k # N /\ j = N
      BY <1>3, <1>4, <3>3
    <3> QED  BY <3>1, <3>2, <3>3
  <2> QED  BY <2>2, <2>3, <2>4 DEF ScopeDiscipline, Owns
<1> QED  BY <1>6, <1>7, <1>8, <1>9 DEF IInv

\* The innermost frame's sub_scope is the newest scope, and nothing else uses it.
LEMMA ClosesKeeps ==
  ASSUME IInv, Closes
  PROVE  IInv'
<1> DEFINE N == Len(stack)
<1> DEFINE S == Len(scopes)
<1>1. /\ Top.sub > 1 /\ TypeOf(Top.node) # "PROGRAM"
      /\ scopes' = Front(scopes) /\ fns' = fns /\ stack' = Front(stack)
      /\ ret' \in ResultType /\ status' = status
  BY DEF Closes
<1>2. /\ stack \in Seq(FrameType) /\ N \in Nat \ {0} /\ Top = stack[N]
      /\ scopes \in Seq(ScopeType) /\ S \in Nat \ {0} /\ fns \in Seq(FnType)
      /\ status \in Statuses
  BY StackFacts
<1>3. /\ stack' \in Seq(FrameType) /\ Len(stack') = N - 1 /\ Len(stack') > 0
      /\ \A k \in 1..Len(stack') : k \in 1..N /\ k < N /\ stack'[k] = stack[k]
  BY <1>1, PoppedStack
<1>4. /\ scopes' \in Seq(ScopeType) /\ Len(scopes') = S - 1
      /\ \A s \in 1..(S - 1) : scopes'[s] = scopes[s]
  BY <1>1, <1>2, FrontOfSeq
<1>5. Top.sub = S
  <2>1. Top.sub \in 0..S  BY <1>2 DEF IInv, ScopeDiscipline
  <2>2. PICK k \in 1..N : stack[k].sub = S  BY <1>1, <1>2, <2>1 DEF IInv, ScopeDiscipline
  <2>3. CASE k = N
    BY <1>2, <2>2, <2>3
  <2>4. CASE k # N
    <3>1. Owns(stack[k]) /\ Owns(stack[N])  BY <1>1, <1>2, <2>1, <2>2 DEF Owns
    <3>2. stack[k].sub < stack[N].sub  BY <1>2, <2>4, <3>1 DEF IInv, ScopeDiscipline
    <3> QED  BY <1>2, <2>1, <2>2, <3>2
  <2> QED  BY <2>3, <2>4
<1>6. ASSUME NEW k \in 1..Len(stack')
      PROVE  /\ k \in 1..N /\ k < N /\ stack'[k] = stack[k] /\ stack[k] \in FrameType
             /\ stack[k].scope \in 1..(S - 1)
             /\ stack[k].sub \in 0..(S - 1)
  <2>1. k \in 1..N /\ k < N /\ stack'[k] = stack[k]  BY <1>3
  <2>2. stack[k].scope \in 1..S /\ stack[k].sub \in 0..S
    BY <2>1 DEF IInv, ScopeDiscipline
  <2>3. stack[k].scope < S /\ (Owns(stack[k]) => stack[k].sub < S)
    BY <1>1, <1>2, <1>5, <2>1 DEF IInv, ScopeDiscipline, Owns
  <2> QED  BY <1>1, <1>2, <1>5, <2>1, <2>2, <2>3 DEF Owns
<1>7. S > 1  BY <1>1, <1>2, <1>5
<1>8. TypeOK'
  BY <1>1, <1>2, <1>3, <1>4 DEF TypeOK, FnType, Statuses
<1>9. FramesOK'
  <2>1. ASSUME NEW k \in 1..Len(stack')
        PROVE  Frame(stack'[k], scopes', fns') /\ (TypeOf(stack'[k].node) = "PROGRAM" <=> k = 1)
    <3>1. Frame(stack[k], scopes, fns) /\ (TypeOf(stack[k].node) = "PROGRAM" <=> k = 1)
      BY <1>6 DEF IInv, FramesOK
    <3>2. stack[k].scope \in 1..Len(scopes') /\ stack[k].sub \in 0..Len(scopes')
      BY <1>4, <1>6
    <3>3. ASSUME stack[k].pc = "defers"
          PROVE  stack[k].i <= Len(scopes'[IF TypeOf(stack[k].node) \in Jumps
                                           THEN stack[k].scope ELSE stack[k].sub].defers)
      <4> DEFINE d == IF TypeOf(stack[k].node) \in Jumps THEN stack[k].scope ELSE stack[k].sub
      <4>1. stack[k].i <= Len(scopes[d].defers)  BY <3>1, <3>3 DEF Frame
      <4>2. TypeOf(stack[k].node) \notin Jumps => stack[k].sub > 1
        BY <3>1, <3>3 DEF Frame, SubOf, Opened, LabelsOf, Jumps, Operations
      <4>3. d \in 1..(S - 1)  BY <1>2, <1>6, <4>2
      <4>4. scopes'[d] = scopes[d]  BY <1>4, <4>3
      <4> QED  BY <4>1, <4>4
    <3>4. Frame(stack[k], scopes', fns')
      BY <1>1, <3>1, <3>2, <3>3 DEF Frame
    <3> QED  BY <1>6, <3>1, <3>4
  <2> QED  BY <1>3, <2>1 DEF FramesOK
<1>10. ChainsOK'
  BY <1>2, <1>4, <1>7 DEF IInv, ChainsOK
<1>11. ScopeDiscipline'
  <2>1. ASSUME NEW s \in 2..Len(scopes')
        PROVE  \E k \in 1..Len(stack') : stack'[k].sub = s
    <3>0. s \in 2..S /\ s # S  BY <1>2, <1>4
    <3>1. PICK k \in 1..N : stack[k].sub = s
      BY <3>0 DEF IInv, ScopeDiscipline
    <3>2. k # N  BY <1>2, <1>5, <3>0, <3>1
    <3>3. k \in 1..Len(stack')  BY <1>2, <1>3, <3>2
    <3> QED  BY <1>3, <3>1, <3>3
  <2>2. ASSUME NEW j \in 1..Len(stack'), NEW k \in 1..Len(stack')
        PROVE /\ j < k /\ Owns(stack'[j]) /\ Owns(stack'[k]) => stack'[j].sub < stack'[k].sub
              /\ j <= k /\ Owns(stack'[k]) => stack'[j].scope < stack'[k].sub
    BY <1>6 DEF IInv, ScopeDiscipline
  <2>3. \A k \in 1..Len(stack') : stack'[k].scope \in 1..Len(scopes')
                                  /\ stack'[k].sub \in 0..Len(scopes')
    BY <1>4, <1>6
  <2> QED  BY <2>1, <2>2, <2>3 DEF ScopeDiscipline, Owns
<1> QED  BY <1>8, <1>9, <1>10, <1>11 DEF IInv

LEMMA MoveKeeps ==
  ASSUME IInv, Move
  PROVE  IInv'
  BY ResumesKeeps, EvaluatesKeeps, FinishesKeeps, StopsKeeps, OpensKeeps, ClosesKeeps DEF Move

-----------------------------------------------------------------------------
(***************************************************************************)
(* Nodes and variables.                                                    *)
(***************************************************************************)
LEMMA NodeFacts ==
  ASSUME NEW n \in Nodes
  PROVE  /\ NodeData[n].type = TypeOf(n) /\ TypeOf(n) \in NodeTypes
         /\ NodeData[n].name \in Names /\ NodeData[n].num \in Int
         /\ NodeData[n].params \in Seq(Names)
         /\ NodeData[n].kids \in Seq(Nodes) /\ Len(NodeData[n].kids) \in Nat
         /\ Arity(TypeOf(n), Len(NodeData[n].kids))
         /\ \A k \in 1..Len(NodeData[n].kids) :
              NodeData[n].kids[k] \in Nodes /\ TypeOf(NodeData[n].kids[k]) # "PROGRAM"
<1>1. NodeData[n] \in [type : NodeTypes, name : Names, aux : STRING, num : Int,
                       params : Seq(Names), types : Seq(STRING), kids : Seq(Nodes)]
  BY NodesAssumption
<1>2. NodeData[n].kids \in Seq(Nodes)  BY <1>1
<1>3. Arity(TypeOf(n), Len(NodeData[n].kids))  BY NodesAssumption
<1>4. \A k \in 1..Len(NodeData[n].kids) : TypeOf(NodeData[n].kids[k]) # "PROGRAM"
  BY NodesAssumption
<1>5. TypeOf(n) \in NodeTypes /\ NodeData[n].type = TypeOf(n)  BY <1>1 DEF TypeOf
<1> QED  BY <1>1, <1>2, <1>3, <1>4, <1>5

LEMMA ScopeFacts ==
  ASSUME IInv, NEW s \in 1..Len(scopes)
  PROVE  /\ scopes[s] \in ScopeType
         /\ s \in scopes[s].chain /\ scopes[s].chain \subseteq 1..s
         /\ scopes[s].chain \subseteq 1..Len(scopes)
         /\ scopes[s].vars \in [Names -> Value \cup {Undeclared}]
         /\ scopes[s].defers \in Seq(Below) /\ Len(scopes[s].defers) \in Nat
<1>1. scopes[s] \in ScopeType  BY DEF IInv, TypeOK
<1>2. s \in scopes[s].chain /\ scopes[s].chain \subseteq 1..s  BY DEF IInv, ChainsOK
<1>3. Len(scopes) \in Nat  BY StackFacts
<1>4. scopes[s].vars \in [Names -> Value \cup {Undeclared}]  BY <1>1 DEF ScopeType
<1> QED  BY <1>1, <1>2, <1>3, <1>4, DefersLength

\* The chain of a scope leads to a nearest declaration, if there is one.
LEMMA NearestDeclares ==
  ASSUME IInv, NEW s \in 1..Len(scopes), NEW x \in Names, Declaring(scopes, s, x) # {}
  PROVE  /\ Nearest(scopes, s, x) \in 1..Len(scopes)
         /\ Nearest(scopes, s, x) \in scopes[s].chain
         /\ scopes[Nearest(scopes, s, x)].vars[x] # Undeclared
<1>1. Declaring(scopes, s, x) \in SUBSET (1..Len(scopes))
  BY ScopeFacts DEF Declaring
<1>2. Len(scopes) \in Nat  BY StackFacts
<1>3. Max(Declaring(scopes, s, x)) \in Declaring(scopes, s, x)
  BY <1>1, <1>2, MaxExists
<1> QED  BY <1>1, <1>3 DEF Nearest, Declaring

LEMMA GetVarValue ==
  ASSUME IInv, NEW s \in 1..Len(scopes), NEW x \in Names
  PROVE  scope_get_var(scopes, s, x) \in Value
<1>1. CASE Declaring(scopes, s, x) = {}
  BY <1>1, ZeroFits DEF scope_get_var, None, ValueTypes
<1>2. CASE Declaring(scopes, s, x) # {}
  <2> DEFINE d == Nearest(scopes, s, x)
  <2>1. d \in 1..Len(scopes) /\ scopes[d].vars[x] # Undeclared  BY <1>2, NearestDeclares
  <2>2. scopes[d].vars \in [Names -> Value \cup {Undeclared}]  BY <2>1, ScopeFacts
  <2>3. scopes[d].vars[x] \in Value  BY <2>1, <2>2
  <2> QED  BY <1>2, <2>3 DEF scope_get_var
<1> QED  BY <1>1, <1>2

-----------------------------------------------------------------------------
(***************************************************************************)
(* Operations on scopes: the chains stay, no deferred node is removed.     *)
(***************************************************************************)
Evolved(ss, tt) ==
  /\ tt \in Seq(ScopeType) /\ Len(tt) = Len(ss)
  /\ \A s \in 1..Len(ss) : /\ tt[s].chain = ss[s].chain
                           /\ Len(ss[s].defers) <= Len(tt[s].defers)

LEMMA EvolvedSame ==
  ASSUME NEW ss \in Seq(ScopeType)
  PROVE  Evolved(ss, ss)
<1>1. \A s \in 1..Len(ss) : Len(ss[s].defers) \in Nat  BY DefersLength
<1> QED  BY <1>1 DEF Evolved

LEMMA EvolvedTwice ==
  ASSUME NEW ss \in Seq(ScopeType), NEW tt, NEW uu, Evolved(ss, tt), Evolved(tt, uu)
  PROVE  Evolved(ss, uu)
<1>1. tt \in Seq(ScopeType) /\ uu \in Seq(ScopeType) /\ Len(tt) = Len(ss) /\ Len(uu) = Len(ss)
  BY DEF Evolved
<1>2. ASSUME NEW s \in 1..Len(ss)
      PROVE  uu[s].chain = ss[s].chain /\ Len(ss[s].defers) <= Len(uu[s].defers)
  <2>1. Len(ss[s].defers) \in Nat /\ Len(tt[s].defers) \in Nat /\ Len(uu[s].defers) \in Nat
    BY <1>1, DefersLength
  <2> QED  BY <1>1, <2>1 DEF Evolved
<1> QED  BY <1>1, <1>2 DEF Evolved

\* One scope takes another value; an index outside of ss changes nothing.
With(ss, s, sc) == [ss EXCEPT ![s] = sc]
Altered(scope, sc) ==
  sc \in ScopeType /\ sc.chain = scope.chain /\ Len(scope.defers) <= Len(sc.defers)

LEMMA EvolvedOne ==
  ASSUME NEW ss \in Seq(ScopeType), NEW s, NEW sc, s \in 1..Len(ss) => Altered(ss[s], sc)
  PROVE  Evolved(ss, With(ss, s, sc))
<1>1. Len(ss) \in Nat /\ DOMAIN ss = 1..Len(ss)  OBVIOUS
<1>2. CASE s \notin 1..Len(ss)
  <2>1. With(ss, s, sc) = ss  BY <1>1, <1>2 DEF With
  <2> QED  BY <2>1, EvolvedSame
<1>3. CASE s \in 1..Len(ss)
  <2> DEFINE tt == With(ss, s, sc)
  <2>1. Altered(ss[s], sc)  BY <1>3
  <2>2. tt \in Seq(ScopeType) /\ Len(tt) = Len(ss) /\ tt[s] = sc
    BY <1>3, <2>1 DEF With, Altered
  <2>3. \A k \in 1..Len(ss) : k # s => tt[k] = ss[k]  BY <1>1, <1>3 DEF With
  <2>4. ASSUME NEW k \in 1..Len(ss)
        PROVE  tt[k].chain = ss[k].chain /\ Len(ss[k].defers) <= Len(tt[k].defers)
    <3>1. Len(ss[k].defers) \in Nat  BY DefersLength
    <3> HIDE DEF tt
    <3>2. CASE k = s  BY <2>1, <2>2, <3>2 DEF Altered
    <3>3. CASE k # s  BY <2>3, <3>1, <3>3
    <3> QED  BY <3>2, <3>3
  <2> HIDE DEF tt
  <2>5. Evolved(ss, tt)  BY <2>2, <2>4 DEF Evolved
  <2> QED  BY <2>5 DEF tt
<1> QED  BY <1>2, <1>3

\* All but the chain and the defers of a scope may change.
LEMMA SameDefers ==
  ASSUME NEW scope \in ScopeType, NEW sc \in ScopeType,
         sc.chain = scope.chain, sc.defers = scope.defers
  PROVE  Altered(scope, sc)
<1>1. Len(scope.defers) \in Nat  BY DefersLength
<1> QED  BY <1>1 DEF Altered

LEMMA DeclareEvolves ==
  ASSUME NEW ss \in Seq(ScopeType), NEW s \in 1..Len(ss), NEW x \in Names
  PROVE  Evolved(ss, scope_declare_var(ss, s, x))
<1> DEFINE vs == [ss[s].vars EXCEPT ![x] = IF @ = Undeclared THEN None ELSE @]
<1> DEFINE c == ss[s].varcount + 1
<1> DEFINE sc == [ss[s] EXCEPT !.vars = vs, !.varcount = c]
<1>1. ss[s] \in ScopeType  OBVIOUS
<1>2. ss[s].vars \in [Names -> Value \cup {Undeclared}] /\ c \in Nat  BY <1>1 DEF ScopeType
<1>3. None \in Value  BY ZeroFits DEF None, ValueTypes
<1>4. vs \in [Names -> Value \cup {Undeclared}]  BY <1>2, <1>3
<1>5. scope_declare_var(ss, s, x) = With(ss, s, sc)
  BY <1>1 DEF scope_declare_var, ScopeType, With
<1> HIDE DEF vs, c
<1>6. sc \in ScopeType /\ sc.chain = ss[s].chain /\ sc.defers = ss[s].defers
  BY <1>1, <1>2, <1>4 DEF ScopeType
<1> HIDE DEF sc
<1>7. Altered(ss[s], sc)  BY <1>1, <1>6, SameDefers
<1> QED  BY <1>5, <1>7, EvolvedOne

LEMMA DefineEvolves ==
  ASSUME NEW ss \in Seq(ScopeType), NEW s, NEW x \in Names, NEW v \in Value
  PROVE  Evolved(ss, scope_define_var(ss, s, x, v))
<1> DEFINE d == Nearest(ss, s, x)
<1> DEFINE vs == [ss[d].vars EXCEPT ![x] = v]
<1> DEFINE sc == [ss[d] EXCEPT !.vars = vs]
<1>1. scope_define_var(ss, s, x, v) = With(ss, d, sc)
  BY Zenon DEF scope_define_var, With
<1> HIDE DEF d
<1>2. ASSUME d \in 1..Len(ss) PROVE Altered(ss[d], sc)
  <2>1. ss[d] \in ScopeType  BY <1>2
  <2>2. ss[d].vars \in [Names -> Value \cup {Undeclared}]  BY <2>1 DEF ScopeType
  <2>3. vs \in [Names -> Value \cup {Undeclared}]  BY <2>2
  <2> HIDE DEF vs
  <2>4. sc \in ScopeType /\ sc.chain = ss[d].chain /\ sc.defers = ss[d].defers
    BY <2>1, <2>3 DEF ScopeType
  <2> HIDE DEF sc
  <2> QED  BY <2>1, <2>4, SameDefers
<1> HIDE DEF vs, sc
<1> QED  BY <1>1, <1>2, EvolvedOne

LEMMA DeferEvolves ==
  ASSUME NEW ss \in Seq(ScopeType), NEW s \in 1..Len(ss), NEW n \in Below
  PROVE  Evolved(ss, scope_add_defer(ss, s, n))
<1> DEFINE ds == Append(ss[s].defers, n)
<1> DEFINE sc == [ss[s] EXCEPT !.defers = ds]
<1>1. ss[s] \in ScopeType  OBVIOUS
<1>2. ss[s].defers \in Seq(Below)  BY <1>1, DefersLength
<1>3. ds \in Seq(Below) /\ Len(ss[s].defers) <= Len(ds)  BY <1>2
<1>4. scope_add_defer(ss, s, n) = With(ss, s, sc)
  BY <1>1 DEF scope_add_defer, ScopeType, With
<1> HIDE DEF ds
<1>5. sc \in ScopeType /\ sc.chain = ss[s].chain /\ sc.defers = ds
  BY <1>1, <1>3 DEF ScopeType
<1> HIDE DEF sc
<1>6. Altered(ss[s], sc)  BY <1>3, <1>5 DEF Altered
<1> QED  BY <1>4, <1>6, EvolvedOne

LEMMA RanEvolves ==
  ASSUME NEW ss \in Seq(ScopeType), NEW s \in 1..Len(ss), NEW k \in Nat
  PROVE  Evolved(ss, [ss EXCEPT ![s].ran = Append(@, k)])
<1> DEFINE r == Append(ss[s].ran, k)
<1> DEFINE sc == [ss[s] EXCEPT !.ran = r]
<1>1. ss[s] \in ScopeType  OBVIOUS
<1>2. ss[s].ran \in Seq(Nat)  BY <1>1 DEF ScopeType
<1>3. r \in Seq(Nat)  BY <1>2
<1>4. [ss EXCEPT ![s].ran = Append(@, k)] = With(ss, s, sc)
  BY <1>1 DEF ScopeType, With
<1> HIDE DEF r
<1>5. sc \in ScopeType /\ sc.chain = ss[s].chain /\ sc.defers = ss[s].defers
  BY <1>1, <1>3 DEF ScopeType
<1> HIDE DEF sc
<1>6. Altered(ss[s], sc)  BY <1>1, <1>5, SameDefers
<1>7. Evolved(ss, With(ss, s, sc))  BY <1>6, EvolvedOne
<1> QED  BY <1>4, <1>7, Zenon

LEMMA MarkEvolves ==
  ASSUME NEW ss \in Seq(ScopeType), NEW s \in 1..Len(ss)
  PROVE  Evolved(ss, [ss EXCEPT ![s].is_deferred = TRUE])
<1> DEFINE sc == [ss[s] EXCEPT !.is_deferred = TRUE]
<1>1. ss[s] \in ScopeType  OBVIOUS
<1>2. [ss EXCEPT ![s].is_deferred = TRUE] = With(ss, s, sc)
  BY <1>1 DEF ScopeType, With
<1>3. sc \in ScopeType /\ sc.chain = ss[s].chain /\ sc.defers = ss[s].defers
  BY <1>1 DEF ScopeType
<1> HIDE DEF sc
<1>4. Altered(ss[s], sc)  BY <1>1, <1>3, SameDefers
<1>5. Evolved(ss, With(ss, s, sc))  BY <1>4, EvolvedOne
<1> QED  BY <1>2, <1>5, Zenon

\* A step that lets the scopes evolve and keeps the functions lets both grow.
LEMMA EvolvedGrow ==
  ASSUME IInv, Evolved(scopes, scopes'), fns' = fns
  PROVE  Grow
<1>1. fns \in Seq(FnType)  BY StackFacts
<1> QED  BY <1>1 DEF Grow, Evolved

LEMMA SameGrow ==
  ASSUME IInv, scopes' = scopes, fns' = fns
  PROVE  Grow
<1>1. Evolved(scopes, scopes')  BY StackFacts, EvolvedSame
<1> QED  BY <1>1, EvolvedGrow

-----------------------------------------------------------------------------
(***************************************************************************)
(* The steps an action is made of, as moves.                               *)
(***************************************************************************)
LEMMA StepsTo ==
  ASSUME IInv, Grow, NEW f \in FrameType,
         f.node = Top.node, f.scope = Top.scope, f.sub = Top.sub, f.fn = Top.fn,
         f.pc \in LabelsOf(This.type),
         This.type \in {"BLOCK", "CALL_EXPR", "PROGRAM"} => (Opened(f) <=> Opened(Top)),
         f.pc = "defers" => f.i <= Len(scopes[DeferScope].defers),
         f.pc \in {"fields", "field"} => Instantiates(f),
         This.type \in Operations =>
           /\ Len(f.vals) <= Len(This.kids)
           /\ f.pc = "operand" => Len(f.vals) < Len(This.kids)
  PROVE  Continues(f)
<1>1. Frame(Top, scopes, fns) /\ This.type = TypeOf(Top.node) /\ This = NodeData[Top.node]
  BY StackFacts
<1>2. SubOf(f)
  BY <1>1 DEF Frame, SubOf
<1>3. TypeOf(f.node) \in {"CALL_EXPR", "PROGRAM"} /\ Opened(f) => f.fn \in 1..Len(fns)
  BY <1>1 DEF Frame
<1>4. Frame(f, scopes, fns)
  BY <1>1, <1>2, <1>3 DEF Frame, DeferScope, Leaving
<1>5. scopes \in Seq(ScopeType) /\ fns \in Seq(FnType)  BY StackFacts
<1>6. Frame(f, scopes', fns')
  <2>1. /\ scopes' \in Seq(ScopeType) /\ fns' \in Seq(FnType)
        /\ Len(scopes) <= Len(scopes') /\ Len(fns) <= Len(fns')
        /\ \A s \in 1..Len(scopes) : Len(scopes[s].defers) <= Len(scopes'[s].defers)
    BY StackFacts DEF Grow
  <2> QED  BY <1>4, <1>5, <2>1, FrameMonotone
<1> QED  BY <1>6 DEF Continues

LEMMA ResumeMoves ==
  ASSUME IInv, Grow, NEW f, Continues(f), Resume(f)
  PROVE  Move
<1>1. Resumes(f)  BY DEF Resumes, Resume, Replaced
<1> QED  BY <1>1 DEF Move

LEMMA StopMoves ==
  ASSUME IInv, Grow, stack' = stack, ret' = ret, NEW how \in Statuses, status' = how
  PROVE  Move
<1>1. Stops  BY DEF Stops
<1> QED  BY <1>1 DEF Move

LEMMA FailMoves ==
  ASSUME IInv, NEW how \in Statuses, Fail(how)
  PROVE  Move
<1>1. stack' = stack /\ ret' = ret /\ status' = how /\ scopes' = scopes /\ fns' = fns
  BY DEF Fail
<1> QED  BY <1>1, SameGrow, StopMoves

LEMMA EvaluateMoves ==
  ASSUME IInv, Grow, NEW f, Continues(f),
         NEW n \in Nodes, TypeOf(n) # "PROGRAM", NEW s \in 1..Len(scopes),
         s \in {1, Working}, Evaluate(f, n, s)
  PROVE  Move
<1>1. CASE stack' = Append(Replaced(f), NewFrame(n, s)) /\ ret' = ret /\ status' = status
  <2>1. Evaluates(f, n, s)  BY <1>1 DEF Evaluates
  <2> QED  BY <2>1 DEF Move
<1>2. CASE status' = "overflow" /\ stack' = stack /\ ret' = ret
  BY <1>2, StopMoves DEF Statuses
<1> QED  BY <1>1, <1>2 DEF Evaluate, Replaced

LEMMA FinishMoves ==
  ASSUME IInv, Grow, Top.sub = 0, This.type # "PROGRAM", NEW r \in ResultType, Finish(r)
  PROVE  Move
<1>1. TypeOf(Top.node) # "PROGRAM"  BY StackFacts
<1>2. Finishes  BY <1>1 DEF Finishes, Finish
<1> QED  BY <1>2 DEF Move

\* A frame that is no block and no call has no sub_scope.
LEMMA NoSubScope ==
  ASSUME IInv, This.type \notin {"BLOCK", "CALL_EXPR", "PROGRAM"}
  PROVE  Top.sub = 0
  BY StackFacts DEF Frame, SubOf

LEMMA WorkingHere ==
  ASSUME IInv, This.type \notin {"BLOCK", "CALL_EXPR", "PROGRAM"}
  PROVE  Top.scope \in {1, Working}
  BY NoSubScope DEF Working

LEMMA WorkingInside ==
  ASSUME NEW s, s = Top.sub, s \in 1..Len(scopes)
  PROVE  s \in {1, Working}
  BY DEF Working

LEMMA ResultOfValue ==
  ASSUME NEW v \in Value, NEW brk \in BreakTypes
  PROVE  Result(v, brk) \in ResultType
  BY DEF Result, ResultType

LEMMA NoValueResult == NoValue \in ResultType
<1>1. None \in Value  BY ZeroFits DEF None, ValueTypes
<1> QED  BY <1>1, ResultOfValue DEF NoValue, BreakTypes

LEMMA DeliverMoves ==
  ASSUME IInv, This.type \notin {"BLOCK", "CALL_EXPR", "PROGRAM"},
         NEW o \in Outcome, Deliver(o)
  PROVE  Move
<1>1. o.fault \in Statuses \cup {"none"} /\ o.value \in Value  BY DEF Outcome, Statuses
<1>2. CASE o.fault = "none"
  <2>1. Finish(Result(o.value, "none")) /\ scopes' = scopes /\ fns' = fns
    BY <1>2 DEF Deliver
  <2>2. Result(o.value, "none") \in ResultType  BY <1>1, ResultOfValue DEF BreakTypes
  <2> QED  BY <2>1, <2>2, SameGrow, NoSubScope, FinishMoves
<1>3. CASE o.fault # "none"
  <2>1. Fail(o.fault)  BY <1>3 DEF Deliver
  <2> QED  BY <1>1, <1>3, <2>1, FailMoves
<1> QED  BY <1>2, <1>3

-----------------------------------------------------------------------------
(***************************************************************************)
(* The actions, one lemma for each group of Next.                          *)
(***************************************************************************)
LEMMA LeafSteps ==
  ASSUME IInv, EvaluateLeaf
  PROVE  Move
<1>1. Top.node \in Nodes /\ This = NodeData[Top.node] /\ Top.scope \in 1..Len(scopes)
  BY StackFacts
<1>2. CASE EvaluateInteger
  <2> DEFINE v == [t |-> "i32", n |-> Wrap("i32", This.num)]
  <2>1. v \in Value  BY <1>1, NodeFacts, WrapFits DEF IntTypes
  <2> HIDE DEF v
  <2>2. OK(v) \in Outcome  BY <2>1, ValueYields DEF Yields
  <2>3. Deliver(OK(v)) /\ This.type = "INTEGER_LIT"  BY <1>2 DEF EvaluateInteger, At, v
  <2> QED  BY <2>2, <2>3, DeliverMoves
<1>3. CASE EvaluateFloat
  <2> DEFINE v == [t |-> "f32", n |-> This.num]
  <2>1. v \in Value  BY <1>1, NodeFacts, FloatsFit DEF FloatTypes
  <2> HIDE DEF v
  <2>2. OK(v) \in Outcome  BY <2>1, ValueYields DEF Yields
  <2>3. Deliver(OK(v)) /\ This.type = "FLOAT_LIT"  BY <1>3 DEF EvaluateFloat, At, v
  <2> QED  BY <2>2, <2>3, DeliverMoves
<1>4. CASE EvaluateIdent
  <2> DEFINE v == scope_get_var(scopes, Top.scope, This.name)
  <2>1. v \in Value  BY <1>1, NodeFacts, GetVarValue
  <2> HIDE DEF v
  <2>2. OK(v) \in Outcome  BY <2>1, ValueYields DEF Yields
  <2>3. Deliver(OK(v)) /\ This.type = "IDENT_LIT"  BY <1>4 DEF EvaluateIdent, At, v
  <2> QED  BY <2>2, <2>3, DeliverMoves
<1>5. CASE EvaluateDeclaration
  <2>1. None \in Value  BY ZeroFits DEF None, ValueTypes
  <2>2. OK(None) \in Outcome  BY <2>1, ValueYields DEF Yields
  <2>3. Deliver(OK(None)) /\ This.type \in {"STRUCT_STAT", "ENUM_STAT"}
    BY <1>5 DEF EvaluateDeclaration, At
  <2> QED  BY <2>2, <2>3, DeliverMoves
<1>6. CASE EvaluateUnhandled
  BY <1>6, FailMoves DEF EvaluateUnhandled, Statuses
<1>7. CASE EvaluateNull
  BY <1>7, FailMoves DEF EvaluateNull, Statuses
<1> QED  BY <1>2, <1>3, <1>4, <1>5, <1>6, <1>7 DEF EvaluateLeaf

LEMMA OperandSteps ==
  ASSUME IInv, EvaluateOperand \/ OperandValue
  PROVE  Move
<1>1. /\ Top \in FrameType /\ Top.node \in Nodes /\ Top.scope \in 1..Len(scopes)
      /\ This = NodeData[Top.node] /\ This.type = TypeOf(Top.node)
      /\ Frame(Top, scopes, fns) /\ ret.value \in Value
  BY StackFacts
<1>2. Top.vals \in Seq(Value) /\ Operands = Len(Top.vals) /\ Operands \in Nat
  BY <1>1 DEF FrameType, Operands
<1>3. CASE EvaluateOperand
  <2> DEFINE f == [Top EXCEPT !.pc = "operand"]
  <2> DEFINE n == This.kids[Operands + 1]
  <2>1. /\ This.type \in Operations /\ Operands < Len(This.kids)
        /\ Evaluate(f, n, Top.scope) /\ scopes' = scopes /\ fns' = fns
    BY <1>3 DEF EvaluateOperand, At
  <2>2. /\ f \in FrameType /\ f.pc = "operand" /\ f.node = Top.node /\ f.scope = Top.scope
        /\ f.sub = Top.sub /\ f.fn = Top.fn /\ f.vals = Top.vals
    BY <1>1 DEF FrameType, PcLabels
  <2>3. Operands + 1 \in 1..Len(This.kids)  BY <1>1, <1>2, <2>1, NodeFacts
  <2>4. n \in Nodes /\ TypeOf(n) # "PROGRAM"  BY <1>1, <2>3, NodeFacts
  <2> HIDE DEF f, n
  <2>5. Grow  BY <2>1, SameGrow
  <2>6. Continues(f)
    BY <1>2, <2>1, <2>2, <2>5, StepsTo DEF Operations, LabelsOf
  <2>7. Top.scope \in {1, Working}  BY <2>1, WorkingHere DEF Operations
  <2> QED  BY <1>1, <2>1, <2>4, <2>5, <2>6, <2>7, EvaluateMoves
<1>4. CASE OperandValue
  <2> DEFINE f == [Top EXCEPT !.pc = "enter", !.vals = Append(@, ret.value)]
  <2>1. /\ This.type \in Operations /\ Top.pc = "operand"
        /\ Resume(f) /\ scopes' = scopes /\ fns' = fns
    BY <1>4 DEF OperandValue, At
  <2>2. Append(Top.vals, ret.value) \in Seq(Value)
        /\ Len(Append(Top.vals, ret.value)) = Operands + 1
    BY <1>1, <1>2
  <2>3. /\ f \in FrameType /\ f.pc = "enter" /\ f.node = Top.node /\ f.scope = Top.scope
        /\ f.sub = Top.sub /\ f.fn = Top.fn /\ f.vals = Append(Top.vals, ret.value)
    BY <1>1, <2>2 DEF FrameType, PcLabels
  <2> HIDE DEF f
  <2>4. Grow  BY <2>1, SameGrow
  <2>5. Operands < Len(This.kids)  BY <1>1, <1>2, <2>1 DEF Frame
  <2>6. Len(f.vals) <= Len(This.kids)
    <3>1. Len(This.kids) \in Nat  BY <1>1, NodeFacts
    <3> QED  BY <1>2, <2>2, <2>3, <2>5, <3>1
  <2>7. Continues(f)
    BY <2>1, <2>3, <2>4, <2>6, StepsTo DEF Operations, LabelsOf
  <2> QED  BY <2>1, <2>4, <2>7, ResumeMoves
<1> QED  BY <1>3, <1>4

\* The operands of a complete operation.
LEMMA CompleteOperands ==
  ASSUME IInv, NEW type \in Operations, Complete(type)
  PROVE  /\ This.type = type
         /\ Top.vals[1] \in Value
         /\ type \in {"BIN_EXPR", "ASSIGN_EXPR"} => Top.vals[2] \in Value
<1>1. /\ Top \in FrameType /\ Top.node \in Nodes
      /\ This = NodeData[Top.node] /\ This.type = TypeOf(Top.node)
  BY StackFacts
<1>2. This.type = type /\ Len(Top.vals) = Len(This.kids)  BY DEF Complete, At, Operands
<1>3. Arity(type, Len(Top.vals))  BY <1>1, <1>2, NodeFacts
<1>4. Top.vals \in Seq(Value)  BY <1>1 DEF FrameType
<1>5. Len(Top.vals) >= 1 /\ (type \in {"BIN_EXPR", "ASSIGN_EXPR"} => Len(Top.vals) = 2)
  BY <1>3 DEF Arity, Operations
<1> QED  BY <1>2, <1>4, <1>5

LEMMA OperationSteps ==
  ASSUME IInv,
         evaluate_bin_expr \/ evaluate_unary_expr \/ evaluate_cast_expr \/ evaluate_assign_expr
  PROVE  Move
<1>1. /\ Top.node \in Nodes /\ Top.scope \in 1..Len(scopes)
      /\ This = NodeData[Top.node] /\ This.type = TypeOf(Top.node)
  BY StackFacts
<1>2. CASE evaluate_bin_expr
  <2>1. PICK o \in BinaryOutcomes(This.aux, Top.vals[1], Top.vals[2]) : Deliver(o)
    BY <1>2 DEF evaluate_bin_expr
  <2>2. This.type = "BIN_EXPR" /\ Top.vals[1] \in Value /\ Top.vals[2] \in Value
    BY <1>2, CompleteOperands DEF evaluate_bin_expr, Operations
  <2>3. o \in Outcome  BY <2>1, <2>2, BinaryYields DEF Yields
  <2> QED  BY <2>1, <2>2, <2>3, DeliverMoves
<1>3. CASE evaluate_unary_expr
  <2>1. This.type = "UN_EXPR" /\ Top.vals[1] \in Value
    BY <1>3, CompleteOperands DEF evaluate_unary_expr, Operations
  <2>2. NegateOutcome(This.aux, Top.vals[1]) \in Outcome  BY <2>1, NegateYields DEF Yields
  <2> QED  BY <1>3, <2>1, <2>2, DeliverMoves DEF evaluate_unary_expr
<1>4. CASE evaluate_cast_expr
  <2>1. PICK o \in Cast(Top.vals[1], ValueTypeOf(This.aux)) : Deliver(o)
    BY <1>4 DEF evaluate_cast_expr
  <2>2. This.type = "CAST_EXPR" /\ Top.vals[1] \in Value
    BY <1>4, CompleteOperands DEF evaluate_cast_expr, Operations
  <2>3. ValueTypeOf(This.aux) \in ValueTypes  BY DEF ValueTypeOf, ValueTypes
  <2>4. o \in Outcome  BY <2>1, <2>2, <2>3, CastYields DEF Yields
  <2> QED  BY <2>1, <2>2, <2>4, DeliverMoves
<1>5. CASE evaluate_assign_expr
  <2>1. PICK o \in AssignOutcomes(This.aux, Top.vals[1], Top.vals[2]) :
          IF o.fault # "none" THEN Fail(o.fault)
          ELSE IF Declaring(scopes, Top.scope, This.name) = {} THEN Fail("abort")
          ELSE /\ scopes' = scope_define_var(scopes, Top.scope, This.name, o.value)
               /\ Finish(Result(o.value, "none"))
               /\ UNCHANGED fns
    BY <1>5 DEF evaluate_assign_expr
  <2>2. This.type = "ASSIGN_EXPR" /\ Top.vals[1] \in Value /\ Top.vals[2] \in Value
    BY <1>5, CompleteOperands DEF evaluate_assign_expr, Operations
  <2>3. This.aux \in AssignOps  BY <1>1, <2>2, NodesAssumption
  <2>4. o \in Outcome  BY <2>1, <2>2, <2>3, AssignYields DEF Yields
  <2>5. o.fault \in Statuses \cup {"none"} /\ o.value \in Value  BY <2>4 DEF Outcome, Statuses
  <2>6. CASE o.fault # "none"  BY <2>1, <2>5, <2>6, FailMoves
  <2>7. CASE Fail("abort")  BY <2>7, FailMoves DEF Statuses
  <2>8. CASE /\ scopes' = scope_define_var(scopes, Top.scope, This.name, o.value)
             /\ Finish(Result(o.value, "none")) /\ fns' = fns
    <3>1. This.name \in Names  BY <1>1, NodeFacts
    <3>2. Evolved(scopes, scopes')  BY <2>5, <2>8, <3>1, StackFacts, DefineEvolves
    <3>3. Grow  BY <2>8, <3>2, EvolvedGrow
    <3>4. Result(o.value, "none") \in ResultType  BY <2>5, ResultOfValue DEF BreakTypes
    <3> QED  BY <2>2, <2>8, <3>3, <3>4, NoSubScope, FinishMoves
  <2> QED  BY <2>1, <2>6, <2>7, <2>8
<1> QED  BY <1>2, <1>3, <1>4, <1>5

FieldType == [name : Names, vtype : ValueTypes]

LEMMA GlobalTypeValue ==
  ASSUME NEW program, NEW x
  PROVE  GlobalType(program, x) \in ValueTypes
<1>1. Kind(TypeDecl(program, x)) \in ValueTypes  BY DEF Kind, ValueTypes
<1> QED  BY <1>1 DEF GlobalType, ValueTypes, NumberTypes, IntTypes

\* A name of struct type has a declaration, whose fields are well formed.
LEMMA FieldsOfStruct ==
  ASSUME NEW program \in Nodes, NEW x, GlobalType(program, x) = "struct"
  PROVE  StructFields(program, x) \in Seq(FieldType)
<1> DEFINE decl == TypeDecl(program, x)
<1>1. TypeDecls(program, x) # {} /\ Kind(decl) = "struct"
  BY DEF GlobalType, NumberTypes, IntTypes, FloatTypes
<1>2. TypeDecls(program, x) \in SUBSET (1..Len(TopLevel(program)))  BY DEF TypeDecls
<1>3. Len(TopLevel(program)) \in Nat  BY NodeFacts DEF TopLevel
<1>4. Min(TypeDecls(program, x)) \in 1..Len(TopLevel(program))
  BY <1>1, <1>2, <1>3, MinExists
<1>5. decl \in Nodes  BY <1>4, NodeFacts DEF TopLevel, TypeDecl
<1>6. TypeOf(decl) = "STRUCT_STAT"  BY <1>1 DEF Kind
<1>7. NodeData[decl].params \in Seq(Names) /\ Len(NodeData[decl].params) \in Nat
  BY <1>5, NodeFacts
<1> HIDE DEF decl
<1> DEFINE field(k) == [name |-> NodeData[decl].params[k],
                        vtype |-> GlobalType(program, NodeData[decl].types[k])]
<1>8. \A k \in 1..Len(NodeData[decl].params) : field(k) \in FieldType
  BY <1>7, GlobalTypeValue DEF FieldType
<1>9. [k \in 1..Len(NodeData[decl].params) |-> field(k)] \in Seq(FieldType)
  <2> HIDE DEF field
  <2> QED  BY <1>7, <1>8
<1> QED  BY <1>9 DEF StructFields, decl

LEMMA VarSteps ==
  ASSUME IInv, VarDeclare \/ VarDefine
  PROVE  Move
<1>1. /\ Top \in FrameType /\ Top.node \in Nodes /\ Top.scope \in 1..Len(scopes)
      /\ This = NodeData[Top.node] /\ This.type = TypeOf(Top.node) /\ ret.value \in Value
  BY StackFacts
<1>2. This.name \in Names  BY <1>1, NodeFacts
<1>3. CASE VarDeclare
  <2> DEFINE value == This.kids[1]
  <2>1. This.type = "VAR_STAT" /\ Top.pc = "enter"  BY <1>3 DEF VarDeclare, At
  <2>2. Len(This.kids) = 1  BY <1>1, <2>1, NodeFacts DEF Arity
  <2>3. value \in Nodes /\ TypeOf(value) # "PROGRAM"  BY <1>1, <2>2, NodeFacts
  <2>4. Evolved(scopes, scope_declare_var(scopes, Top.scope, This.name))
    BY <1>1, <1>2, StackFacts, DeclareEvolves
  <2>5. CASE Fail("abort")  BY <2>5, FailMoves DEF Statuses
  <2>6. CASE /\ IsStruct /\ TypeOf(value) \in {"NULL", "COMPOUND_LIT"}
             /\ Resume([Top EXCEPT !.pc = "fields", !.i = 0,
                                   !.st = StructFields(stack[1].node, This.aux)])
             /\ scopes' = scope_declare_var(scopes, Top.scope, This.name) /\ fns' = fns
    <3> DEFINE fields == StructFields(stack[1].node, This.aux)
    <3> DEFINE f == [Top EXCEPT !.pc = "fields", !.i = 0, !.st = fields]
    <3>0. fields \in Seq(FieldType)
      <4>1. stack[1].node \in Nodes
        <5>1. stack[1] \in FrameType  BY StackFacts
        <5> QED  BY <5>1 DEF FrameType
      <4> QED  BY <2>6, <4>1, FieldsOfStruct DEF IsStruct
    <3> HIDE DEF fields
    <3>1. /\ f \in FrameType /\ f.pc = "fields" /\ f.i = 0 /\ f.node = Top.node
          /\ f.scope = Top.scope /\ f.sub = Top.sub /\ f.fn = Top.fn /\ f.st = fields
      BY <1>1, <3>0 DEF FrameType, PcLabels, FieldType
    <3> HIDE DEF f
    <3>2. Grow  BY <2>4, <2>6, EvolvedGrow
    <3>3. Instantiates(f)
      <4>1. Len(fields) \in Nat  BY <3>0
      <4> QED  BY <1>1, <2>6, <3>1, <4>1 DEF Instantiates
    <3>4. Continues(f)
      BY <2>1, <3>1, <3>2, <3>3, StepsTo DEF Operations, LabelsOf
    <3>5. Resume(f)  BY <2>6 DEF f, fields
    <3> QED  BY <3>2, <3>4, <3>5, ResumeMoves
  <2>7. CASE /\ Evaluate([Top EXCEPT !.pc = "value"], value, Top.scope)
             /\ scopes' = scope_declare_var(scopes, Top.scope, This.name) /\ fns' = fns
    <3> DEFINE f == [Top EXCEPT !.pc = "value"]
    <3>1. /\ f \in FrameType /\ f.pc = "value" /\ f.node = Top.node
          /\ f.scope = Top.scope /\ f.sub = Top.sub /\ f.fn = Top.fn
      BY <1>1 DEF FrameType, PcLabels
    <3>2. Evaluate(f, value, Top.scope)  BY <2>7
    <3> HIDE DEF f, value
    <3>3. Grow  BY <2>4, <2>7, EvolvedGrow
    <3>4. Continues(f)
      BY <2>1, <3>1, <3>3, StepsTo DEF Operations, LabelsOf
    <3>5. Top.scope \in {1, Working}  BY <2>1, WorkingHere
    <3> QED  BY <1>1, <2>3, <3>2, <3>3, <3>4, <3>5, EvaluateMoves
  <2> QED  BY <1>3, <2>5, <2>6, <2>7 DEF VarDeclare
<1>4. CASE VarDefine
  <2>1. /\ This.type = "VAR_STAT" /\ Finish(NoValue) /\ fns' = fns
        /\ scopes' = scope_define_var(scopes, Top.scope, This.name, ret.value)
    BY <1>4 DEF VarDefine, At
  <2>2. Evolved(scopes, scopes')  BY <1>1, <1>2, <2>1, StackFacts, DefineEvolves
  <2>3. Grow  BY <2>1, <2>2, EvolvedGrow
  <2> QED  BY <2>1, <2>3, NoValueResult, NoSubScope, FinishMoves
<1> QED  BY <1>3, <1>4

FieldFrame(pc, i) == [Top EXCEPT !.pc = pc, !.i = i]

LEMMA FieldSteps ==
  ASSUME IInv, StructField \/ StructFieldValue \/ StructDefine
  PROVE  Move
<1>1. /\ Top \in FrameType /\ Top.node \in Nodes /\ Top.scope \in 1..Len(scopes)
      /\ This = NodeData[Top.node] /\ This.type = TypeOf(Top.node) /\ ret.value \in Value
      /\ Frame(Top, scopes, fns)
  BY StackFacts
<1>2. This.type = "VAR_STAT" /\ Top.pc \in {"fields", "field"}
  BY DEF StructField, StructFieldValue, StructDefine, At
<1>3. Instantiates(Top)  BY <1>1, <1>2 DEF Frame
<1>4. Fields \in Seq(FieldType)
  BY <1>1 DEF FrameType, Fields, FieldType
<1>5. Len(Fields) \in Nat /\ Top.i \in Nat  BY <1>1, <1>4 DEF FrameType
<1>6. ASSUME NEW pc \in {"fields", "field"}, NEW i \in Nat, i <= Len(Fields),
             pc = "field" => i < Len(Fields), Grow
      PROVE  Continues(FieldFrame(pc, i))
  <2> DEFINE f == FieldFrame(pc, i)
  <2>1. /\ f \in FrameType /\ f.pc = pc /\ f.i = i /\ f.node = Top.node
        /\ f.scope = Top.scope /\ f.sub = Top.sub /\ f.fn = Top.fn /\ f.st = Top.st
    BY <1>1 DEF FrameType, PcLabels, FieldFrame
  <2> HIDE DEF f
  <2>2. Instantiates(f)  BY <1>3, <1>6, <2>1 DEF Instantiates, Fields
  <2>3. Continues(f)
    BY <1>2, <1>6, <2>1, <2>2, StepsTo DEF Operations, LabelsOf
  <2> QED  BY <2>3 DEF f
<1>7. CASE StructField
  <2>1. Top.pc = "fields" /\ Top.i < Len(Fields) /\ scopes' = scopes /\ fns' = fns
    BY <1>7 DEF StructField, At
  <2>2. Grow  BY <2>1, SameGrow
  <2>5. CASE Fail("abort")  BY <2>5, FailMoves DEF Statuses
  <2>3. CASE Resume([Top EXCEPT !.i = @ + 1])
    <3> DEFINE f == FieldFrame("fields", Top.i + 1)
    <3>1. f = [Top EXCEPT !.i = @ + 1]  BY <1>1, <2>1 DEF FrameType, FieldFrame
    <3>2. Continues(f)  BY <1>5, <1>6, <2>1, <2>2
    <3> HIDE DEF f
    <3>3. Resume(f)  BY <2>3, <3>1
    <3> QED  BY <2>2, <3>2, <3>3, ResumeMoves
  <2>4. CASE /\ FieldEntries # {}
             /\ Evaluate([Top EXCEPT !.pc = "field"],
                         NodeData[Entries[Min(FieldEntries)]].kids[2], Top.scope)
    <3> DEFINE f == FieldFrame("field", Top.i)
    <3> DEFINE e == Entries[Min(FieldEntries)]
    <3> DEFINE n == NodeData[e].kids[2]
    <3>1. f = [Top EXCEPT !.pc = "field"]  BY <1>1 DEF FrameType, FieldFrame
    <3>2. Continues(f)  BY <1>5, <1>6, <2>1, <2>2
    <3>3. Arity("VAR_STAT", Len(This.kids))  BY <1>1, <1>2, NodeFacts
    <3>4. This.kids[1] \in Nodes /\ TypeOf(This.kids[1]) \in {"NULL", "COMPOUND_LIT"}
      BY <1>1, <1>3, <3>3, NodeFacts DEF Arity, Instantiates
    <3>5. Len(Entries) \in Nat /\ Arity(TypeOf(This.kids[1]), Len(Entries))
      BY <3>4, NodeFacts DEF Entries
    <3>6. Min(FieldEntries) \in 1..Len(Entries)
      <4>1. FieldEntries \in SUBSET (1..Len(Entries))  BY DEF FieldEntries
      <4> QED  BY <2>4, <3>5, <4>1, MinExists
    <3>7. TypeOf(This.kids[1]) = "COMPOUND_LIT"
      BY <3>4, <3>5, <3>6 DEF Arity
    <3>8. e \in Nodes /\ TypeOf(e) = "ASSIGN_EXPR"
      BY <3>4, <3>6, <3>7, NodeFacts, NodesAssumption DEF Entries
    <3> HIDE DEF e
    <3>9. Arity("ASSIGN_EXPR", Len(NodeData[e].kids))  BY <3>8, NodeFacts
    <3>10. n \in Nodes /\ TypeOf(n) # "PROGRAM"  BY <3>8, <3>9, NodeFacts DEF Arity
    <3> HIDE DEF n, f
    <3>11. Evaluate(f, n, Top.scope)  BY <2>4, <3>1 DEF n, e
    <3>12. Top.scope \in {1, Working}  BY <1>2, WorkingHere
    <3> QED  BY <1>1, <2>2, <3>2, <3>10, <3>11, <3>12, EvaluateMoves
  <2> QED  BY <1>7, <2>3, <2>4, <2>5 DEF StructField
<1>8. CASE StructFieldValue
  <2>0. Top.pc = "field" /\ Top.i < Len(Fields)
    BY <1>3, <1>8 DEF StructFieldValue, At, Instantiates, Fields
  <2>1. PICK o \in IF ret.value.t = "none" THEN {OK(None)}
                   ELSE AutoCast(ret.value, Fields[Top.i + 1].vtype) :
          IF o.fault # "none" THEN Fail(o.fault)
          ELSE Resume([Top EXCEPT !.pc = "fields", !.i = @ + 1]) /\ UNCHANGED <<scopes, fns>>
    BY <1>8 DEF StructFieldValue
  <2>2. Fields[Top.i + 1].vtype \in ValueTypes
    <3>1. Top.i + 1 \in 1..Len(Fields)  BY <1>5, <2>0
    <3>2. Fields[Top.i + 1] \in FieldType  BY <1>4, <3>1
    <3> QED  BY <3>2 DEF FieldType
  <2>3. o \in Outcome
    <3>1. None \in Value  BY ZeroFits DEF None, ValueTypes
    <3>2. OK(None) \in Outcome  BY <3>1, ValueYields DEF Yields
    <3>3. \A c \in AutoCast(ret.value, Fields[Top.i + 1].vtype) : c \in Outcome
      BY <1>1, <2>2, AutoCastYields DEF Yields
    <3> QED  BY <2>1, <3>2, <3>3
  <2>4. CASE o.fault # "none"
    <3>1. o.fault \in Statuses  BY <2>3, <2>4 DEF Outcome, Statuses
    <3> QED  BY <2>1, <2>4, <3>1, FailMoves
  <2>5. CASE /\ Resume([Top EXCEPT !.pc = "fields", !.i = @ + 1])
             /\ scopes' = scopes /\ fns' = fns
    <3> DEFINE f == FieldFrame("fields", Top.i + 1)
    <3>1. Grow  BY <2>5, SameGrow
    <3>2. Continues(f)  BY <1>5, <1>6, <2>0, <3>1
    <3>3. Resume(f)  BY <2>5 DEF FieldFrame
    <3> HIDE DEF f
    <3> QED  BY <3>1, <3>2, <3>3, ResumeMoves
  <2> QED  BY <2>1, <2>4, <2>5
<1>9. CASE StructDefine
  <2>1. /\ Finish(NoValue) /\ fns' = fns
        /\ scopes' = scope_define_var(scopes, Top.scope, This.name, Zero("struct"))
    BY <1>9 DEF StructDefine
  <2>2. This.name \in Names /\ Zero("struct") \in Value
    BY <1>1, NodeFacts, ZeroFits DEF ValueTypes, NumberTypes
  <2>3. Evolved(scopes, scopes')  BY <2>1, <2>2, StackFacts, DefineEvolves
  <2>4. Grow  BY <2>1, <2>3, EvolvedGrow
  <2> QED  BY <1>2, <2>1, <2>4, NoValueResult, NoSubScope, FinishMoves
<1> QED  BY <1>7, <1>8, <1>9

LEMMA AddressFits ==
  ASSUME NEW k \in Nat
  PROVE  Address(k) \in Value
<1>1. 16 * (FnBase + k) \in Int  BY BoundsAssumption
<1> QED  BY <1>1, WrapFits DEF Address, IntTypes

LEMMA FunctionSteps ==
  ASSUME IInv, evaluate_fn_stat
  PROVE  Move
<1>1. /\ Top.node \in Nodes /\ Top.scope \in 1..Len(scopes)
      /\ This = NodeData[Top.node] /\ This.type = TypeOf(Top.node)
      /\ scopes \in Seq(ScopeType) /\ fns \in Seq(FnType)
  BY StackFacts
<1>2. This.type = "FUNC_STAT"  BY DEF evaluate_fn_stat, At
<1>3. CASE Fail("abort")  BY <1>3, FailMoves DEF Statuses
<1>5. CASE Fail("overflow")  BY <1>5, FailMoves DEF Statuses
<1>4. CASE /\ fns' = Append(fns, [params |-> This.params, body |-> This.kids[1]])
           /\ scopes' = scope_define_var(scope_declare_var(scopes, Top.scope, This.name),
                                         Top.scope, This.name, Address(Len(fns) + 1))
           /\ Finish(NoValue)
  <2> DEFINE tt == scope_declare_var(scopes, Top.scope, This.name)
  <2>1. This.name \in Names  BY <1>1, NodeFacts
  <2>2. Evolved(scopes, tt) /\ tt \in Seq(ScopeType)
    BY <1>1, <2>1, DeclareEvolves DEF Evolved
  <2> HIDE DEF tt
  <2>3. Len(fns) + 1 \in Nat  BY <1>1
  <2>4. Address(Len(fns) + 1) \in Value  BY <2>3, AddressFits
  <2>5. Evolved(tt, scopes')  BY <1>4, <2>1, <2>2, <2>4, DefineEvolves DEF tt
  <2>6. Evolved(scopes, scopes')  BY <1>1, <2>2, <2>5, EvolvedTwice
  <2>7. [params |-> This.params, body |-> This.kids[1]] \in FnType
    <3>1. Arity("FUNC_STAT", Len(This.kids))  BY <1>1, <1>2, NodeFacts
    <3>2. This.kids[1] \in Nodes /\ This.params \in Seq(Names)
      BY <1>1, <3>1, NodeFacts DEF Arity
    <3> QED  BY <3>2 DEF FnType
  <2>8. fns' \in Seq(FnType) /\ Len(fns') = Len(fns) + 1
    <3> DEFINE fn == [params |-> This.params, body |-> This.kids[1]]
    <3>1. fns' = Append(fns, fn) /\ fn \in FnType  BY <1>4, <2>7
    <3> HIDE DEF fn
    <3> QED  BY <1>1, <3>1
  <2>9. Grow  BY <1>1, <2>6, <2>8 DEF Grow, Evolved
  <2> QED  BY <1>2, <1>4, <2>9, NoValueResult, NoSubScope, FinishMoves
<1> QED  BY <1>3, <1>4, <1>5 DEF evaluate_fn_stat

\* A statement's frame at another label.
LabelFrame(pc, i, last) == [Top EXCEPT !.pc = pc, !.i = i, !.last = last]

LEMMA LabelContinues ==
  ASSUME IInv, Grow, This.type \notin Operations,
         NEW pc \in PcLabels \ {"fields", "field"}, pc \in LabelsOf(This.type),
         This.type \in {"BLOCK", "CALL_EXPR", "PROGRAM"} =>
           (pc \notin {"enter", "callee"} <=> Opened(Top)),
         NEW i \in Nat, pc = "defers" => i <= Len(scopes[DeferScope].defers),
         NEW last \in ResultType
  PROVE  Continues(LabelFrame(pc, i, last))
<1> DEFINE f == LabelFrame(pc, i, last)
<1>1. Top \in FrameType  BY StackFacts
<1>2. /\ f \in FrameType /\ f.pc = pc /\ f.i = i /\ f.node = Top.node
      /\ f.scope = Top.scope /\ f.sub = Top.sub /\ f.fn = Top.fn
  BY <1>1 DEF FrameType, LabelFrame
<1> HIDE DEF f
<1>3. Opened(f) <=> pc \notin {"enter", "callee"}  BY <1>2 DEF Opened
<1>4. Continues(f)  BY <1>2, <1>3, StepsTo
<1> QED  BY <1>4 DEF f

LEMMA LabelFrames ==
  ASSUME Top \in FrameType
  PROVE  /\ \A pc : [Top EXCEPT !.pc = pc] = LabelFrame(pc, Top.i, Top.last)
         /\ \A pc, i : [Top EXCEPT !.pc = pc, !.i = i] = LabelFrame(pc, i, Top.last)
         /\ \A pc, last : [Top EXCEPT !.pc = pc, !.last = last] = LabelFrame(pc, Top.i, last)
         /\ \A i : [Top EXCEPT !.i = i] = LabelFrame(Top.pc, i, Top.last)
         /\ Top.i \in Nat /\ Top.last \in ResultType
  BY DEF FrameType, LabelFrame

LEMMA BranchingSteps ==
  ASSUME IInv, Branching
  PROVE  Move
<1>1. /\ Top \in FrameType /\ Top.node \in Nodes /\ Top.scope \in 1..Len(scopes)
      /\ This = NodeData[Top.node] /\ This.type = TypeOf(Top.node) /\ ret \in ResultType
  BY StackFacts
<1>2. /\ This.type \in {"IF_STAT", "WHILE_STAT"} /\ scopes' = scopes /\ fns' = fns
  BY DEF Branching, IfCondition, IfBranch, IfDone, WhileCondition, WhileTest, WhileBody, At
<1>3. Grow  BY <1>2, SameGrow
<1>4. ASSUME NEW pc \in PcLabels \ {"fields", "field", "defers"}, pc \in LabelsOf(This.type),
             NEW last \in ResultType
      PROVE  Continues(LabelFrame(pc, Top.i, last))
  BY <1>1, <1>2, <1>3, <1>4, LabelFrames, LabelContinues DEF Operations
<1>5. /\ \A pc : [Top EXCEPT !.pc = pc] = LabelFrame(pc, Top.i, Top.last)
      /\ \A pc, last : [Top EXCEPT !.pc = pc, !.last = last] = LabelFrame(pc, Top.i, last)
      /\ Top.last \in ResultType
  BY <1>1, LabelFrames
<1>6. ASSUME NEW r \in ResultType, Finish(r) PROVE Move
  BY <1>2, <1>3, <1>6, NoSubScope, FinishMoves
<1>7. ASSUME NEW pc \in PcLabels \ {"fields", "field", "defers"}, pc \in LabelsOf(This.type),
             NEW k \in 1..Len(This.kids), Evaluate([Top EXCEPT !.pc = pc], This.kids[k], Top.scope)
      PROVE  Move
  <2> DEFINE n == This.kids[k]
  <2>1. n \in Nodes /\ TypeOf(n) # "PROGRAM"  BY <1>1, NodeFacts
  <2>2. Evaluate(LabelFrame(pc, Top.i, Top.last), n, Top.scope)  BY <1>5, <1>7
  <2>3. Continues(LabelFrame(pc, Top.i, Top.last))  BY <1>4, <1>5, <1>7
  <2> HIDE DEF n
  <2>4. Top.scope \in {1, Working}  BY <1>2, WorkingHere
  <2> QED  BY <1>1, <1>3, <2>1, <2>2, <2>3, <2>4, EvaluateMoves
<1>8. ASSUME NEW last \in ResultType, "enter" \in LabelsOf(This.type),
             Resume(LabelFrame("enter", Top.i, last))
      PROVE  Move
  <2>1. Continues(LabelFrame("enter", Top.i, last))  BY <1>4, <1>8 DEF PcLabels
  <2> QED  BY <1>3, <1>8, <2>1, ResumeMoves
<1>9. ASSUME This.type = "IF_STAT"
      PROVE  1 \in 1..Len(This.kids) /\ 2 \in 1..Len(This.kids) /\ 3 \in 1..Len(This.kids)
  <2>1. Arity("IF_STAT", Len(This.kids))  BY <1>1, <1>9, NodeFacts
  <2>2. Len(This.kids) = 3  BY <2>1 DEF Arity
  <2> QED  BY <2>2
<1>10. ASSUME This.type = "WHILE_STAT"
       PROVE  1 \in 1..Len(This.kids) /\ 2 \in 1..Len(This.kids)
  <2>1. Arity("WHILE_STAT", Len(This.kids))  BY <1>1, <1>10, NodeFacts
  <2>2. Len(This.kids) = 2  BY <2>1 DEF Arity
  <2> QED  BY <2>2
<1>11. CASE IfCondition
  <2>1. This.type = "IF_STAT" /\ Evaluate([Top EXCEPT !.pc = "cond"], This.kids[1], Top.scope)
    BY <1>11 DEF IfCondition, At
  <2>2. "cond" \in LabelsOf(This.type)  BY <2>1 DEF LabelsOf, Operations
  <2> QED  BY <1>7, <1>9, <2>1, <2>2 DEF PcLabels
<1>12. CASE IfBranch
  <2>1. /\ This.type = "IF_STAT"
        /\ \/ Finish(NoValue)
           \/ \E k \in {2, 3} : Evaluate([Top EXCEPT !.pc = "branch"], This.kids[k], Top.scope)
    BY <1>12 DEF IfBranch, At
  <2>2. "branch" \in LabelsOf(This.type)  BY <2>1 DEF LabelsOf, Operations
  <2> QED  BY <1>6, <1>7, <1>9, <2>1, <2>2, NoValueResult DEF PcLabels
<1>13. CASE IfDone
  BY <1>1, <1>6, <1>13 DEF IfDone
<1>14. CASE WhileCondition
  <2>1. This.type = "WHILE_STAT" /\ Evaluate([Top EXCEPT !.pc = "cond"], This.kids[1], Top.scope)
    BY <1>14 DEF WhileCondition, At
  <2>2. "cond" \in LabelsOf(This.type)  BY <2>1 DEF LabelsOf, Operations
  <2> QED  BY <1>7, <1>10, <2>1, <2>2 DEF PcLabels
<1>15. CASE WhileTest
  <2>1. /\ This.type = "WHILE_STAT"
        /\ \/ Finish(Top.last)
           \/ Evaluate([Top EXCEPT !.pc = "iteration"], This.kids[2], Top.scope)
    BY <1>15 DEF WhileTest, At
  <2>2. "iteration" \in LabelsOf(This.type)  BY <2>1 DEF LabelsOf, Operations
  <2> QED  BY <1>5, <1>6, <1>7, <1>10, <2>1, <2>2 DEF PcLabels
<1>16. CASE WhileBody
  <2>1. ret.brk \in BreakTypes  BY <1>1 DEF ResultType
  <2>2. /\ This.type = "WHILE_STAT"
        /\ \/ Finish(ret) \/ Finish(Top.last)
           \/ Resume([Top EXCEPT !.pc = "enter"])
           \/ Resume([Top EXCEPT !.pc = "enter", !.last = ret])
    BY <1>16, <2>1 DEF WhileBody, At, BreakTypes
  <2>3. "enter" \in LabelsOf(This.type)  BY <2>2 DEF LabelsOf, Operations
  <2> QED  BY <1>1, <1>5, <1>6, <1>8, <2>2, <2>3
<1> QED  BY <1>11, <1>12, <1>13, <1>14, <1>15, <1>16 DEF Branching

\* The labels at which a frame runs defers, and what it then runs them of.
LEMMA DeferScopeAlive ==
  ASSUME IInv, This.type \in Jumps \/ (This.type \in {"BLOCK", "CALL_EXPR"} /\ Opened(Top))
  PROVE  DeferScope \in 1..Len(scopes)
<1>1. /\ Frame(Top, scopes, fns) /\ This.type = TypeOf(Top.node) /\ Top.scope \in 1..Len(scopes)
      /\ Top.sub \in 0..Len(scopes)
  BY StackFacts DEF Frame
<1>2. CASE This.type \in Jumps
  BY <1>1, <1>2 DEF DeferScope, Leaving
<1>3. CASE This.type \notin Jumps
  <2>1. Top.sub > 1  BY <1>1, <1>3 DEF Frame, SubOf
  <2> QED  BY <1>1, <1>3, <2>1 DEF DeferScope, Leaving
<1> QED  BY <1>2, <1>3

LEMMA DefersLabel ==
  ASSUME IInv, Top.pc = "defers"
  PROVE  /\ This.type \in Jumps \/ (This.type \in {"BLOCK", "CALL_EXPR"} /\ Opened(Top))
         /\ DeferScope \in 1..Len(scopes)
         /\ Top.i \in Nat /\ Top.i <= Len(scopes[DeferScope].defers)
         /\ This.type \notin Operations
         /\ "defers" \in LabelsOf(This.type)
<1>1. /\ Frame(Top, scopes, fns) /\ This.type = TypeOf(Top.node) /\ Top \in FrameType
  BY StackFacts
<1>2. Top.pc \in LabelsOf(This.type)  BY <1>1 DEF Frame
<1>3. This.type \in Jumps \cup {"BLOCK", "CALL_EXPR"} /\ This.type \notin Operations
  BY <1>2 DEF LabelsOf, Operations, Jumps
<1>4. Opened(Top)  BY DEF Opened
<1>5. DeferScope \in 1..Len(scopes)  BY <1>3, <1>4, DeferScopeAlive
<1>6. Top.i \in Nat  BY <1>1 DEF FrameType
<1> QED  BY <1>1, <1>2, <1>3, <1>4, <1>5, <1>6 DEF Frame, DeferScope, Leaving

LEMMA RunDeferStep ==
  ASSUME IInv, RunDefer
  PROVE  Move
<1>1. /\ Top.pc = "defers" /\ Top.i > 0 /\ fns' = fns
      /\ Evaluate([Top EXCEPT !.i = @ - 1], scopes[DeferScope].defers[Top.i], DeferScope)
      /\ scopes' = [scopes EXCEPT ![DeferScope].ran = Append(@, Top.i)]
  BY DEF RunDefer
<1>2. /\ This.type \in Jumps \/ (This.type \in {"BLOCK", "CALL_EXPR"} /\ Opened(Top))
      /\ DeferScope \in 1..Len(scopes)
      /\ Top.i \in Nat /\ Top.i <= Len(scopes[DeferScope].defers)
      /\ This.type \notin Operations /\ "defers" \in LabelsOf(This.type)
  BY <1>1, DefersLabel
<1>3. Top \in FrameType  BY StackFacts
<1>4. Top.last \in ResultType /\ Top.pc \in PcLabels  BY <1>3 DEF FrameType
<1> DEFINE f == LabelFrame("defers", Top.i - 1, Top.last)
<1> DEFINE n == scopes[DeferScope].defers[Top.i]
<1>5. n \in Nodes /\ TypeOf(n) # "PROGRAM"
  <2>1. scopes[DeferScope].defers \in Seq(Below)  BY <1>2, ScopeFacts
  <2>2. Top.i \in 1..Len(scopes[DeferScope].defers)  BY <1>1, <1>2, <2>1
  <2>3. n \in Below  BY <2>1, <2>2
  <2> QED  BY <2>3 DEF Below, TypeOf
<1>6. Grow
  <2>1. Evolved(scopes, scopes')  BY <1>1, <1>2, StackFacts, RanEvolves
  <2> QED  BY <1>1, <2>1, EvolvedGrow
<1>7. [Top EXCEPT !.i = @ - 1] = f
  BY <1>1, <1>3 DEF FrameType, LabelFrame
<1>8. Continues(f)
  <2>1. Top.i - 1 \in Nat /\ Top.i - 1 <= Len(scopes[DeferScope].defers)
    <3>1. Len(scopes[DeferScope].defers) \in Nat  BY <1>2, ScopeFacts
    <3> QED  BY <1>1, <1>2, <3>1
  <2>2. "defers" \in PcLabels \ {"fields", "field"}  BY DEF PcLabels
  <2>3. This.type \in {"BLOCK", "CALL_EXPR", "PROGRAM"} => Opened(Top)
    BY <1>2 DEF Jumps
  <2> QED  BY <1>2, <1>4, <1>6, <2>1, <2>2, <2>3, LabelContinues
<1> HIDE DEF f, n
<1>9. Evaluate(f, n, DeferScope)  BY <1>1, <1>7 DEF n
<1>10. DeferScope \in {1, Working}
  <2>1. CASE This.type \in Jumps
    BY <2>1, WorkingHere DEF Jumps, DeferScope, Leaving
  <2>2. CASE This.type \notin Jumps
    BY <1>2, <2>2, WorkingInside DEF DeferScope, Leaving
  <2> QED  BY <2>1, <2>2
<1> QED  BY <1>2, <1>5, <1>6, <1>8, <1>9, <1>10, EvaluateMoves

LEMMA JumpingSteps ==
  ASSUME IInv, Jumping
  PROVE  Move
<1>1. /\ Top \in FrameType /\ Top.node \in Nodes /\ Top.scope \in 1..Len(scopes)
      /\ This = NodeData[Top.node] /\ This.type = TypeOf(Top.node)
      /\ ret \in ResultType /\ ret.value \in Value
  BY StackFacts
<1>2. /\ \A pc : [Top EXCEPT !.pc = pc] = LabelFrame(pc, Top.i, Top.last)
      /\ \A pc, i : [Top EXCEPT !.pc = pc, !.i = i] = LabelFrame(pc, i, Top.last)
      /\ Top.i \in Nat /\ Top.last \in ResultType
  BY <1>1, LabelFrames
<1>3. CASE evaluate_defer_stat
  <2>1. This.type = "DEFER_STAT"  BY <1>3 DEF evaluate_defer_stat, At
  <2>2. CASE Fail("overflow")  BY <2>2, FailMoves DEF Statuses
  <2>3. CASE /\ scopes' = scope_add_defer(scopes, Top.scope, This.kids[1])
             /\ Finish(NoValue) /\ fns' = fns
    <3>1. Arity("DEFER_STAT", Len(This.kids))  BY <1>1, <2>1, NodeFacts
    <3>2. Len(This.kids) = 1  BY <3>1 DEF Arity
    <3>3. This.kids[1] \in Below  BY <1>1, <3>2, NodeFacts DEF Below, TypeOf
    <3>4. Evolved(scopes, scopes')  BY <1>1, <2>3, <3>3, StackFacts, DeferEvolves
    <3>5. Grow  BY <2>3, <3>4, EvolvedGrow
    <3> QED  BY <2>1, <2>3, <3>5, NoValueResult, NoSubScope, FinishMoves
  <2> QED  BY <1>3, <2>2, <2>3 DEF evaluate_defer_stat
<1>4. CASE JumpEnter
  <2> DEFINE d == Len(scopes[Top.scope].defers)
  <2>1. /\ This.type \in Jumps /\ scopes' = scopes /\ fns' = fns
        /\ Resume([Top EXCEPT !.pc = "defers", !.i = d])
    BY <1>4 DEF JumpEnter, At
  <2>2. Grow  BY <2>1, SameGrow
  <2>3. d \in Nat /\ DeferScope = Top.scope
    BY <1>1, <2>1, ScopeFacts DEF DeferScope, Leaving
  <2>4. "defers" \in LabelsOf(This.type) /\ "defers" \in PcLabels \ {"fields", "field"}
        /\ This.type \notin Operations \cup {"BLOCK", "CALL_EXPR", "PROGRAM"}
    BY <2>1 DEF LabelsOf, Jumps, Operations, PcLabels
  <2>5. d <= Len(scopes[DeferScope].defers)  BY <2>3
  <2> HIDE DEF d
  <2>6. Continues(LabelFrame("defers", d, Top.last))
    BY <1>2, <2>2, <2>3, <2>4, <2>5, LabelContinues
  <2>7. Resume(LabelFrame("defers", d, Top.last))  BY <1>2, <2>1 DEF d
  <2> QED  BY <2>2, <2>6, <2>7, ResumeMoves
<1>5. CASE RunDefer
  BY <1>5, RunDeferStep
<1>6. CASE JumpDefersDone
  <2>1. /\ Top.pc = "defers" /\ This.type \in Jumps /\ fns' = fns
        /\ scopes' = [scopes EXCEPT ![DeferScope].is_deferred = TRUE]
        /\ \/ Finish(Result(None, "break"))
           \/ Finish(Result(None, "continue"))
           \/ This.type = "RETURN_STAT" /\ Resume([Top EXCEPT !.pc = "jump"])
    BY <1>6 DEF JumpDefersDone, Leaving, Jumps
  <2>2. DeferScope \in 1..Len(scopes)  BY <2>1, DefersLabel
  <2>3. Evolved(scopes, scopes')  BY <2>1, <2>2, StackFacts, MarkEvolves
  <2>4. Grow  BY <2>1, <2>3, EvolvedGrow
  <2>5. This.type \notin {"BLOCK", "CALL_EXPR", "PROGRAM"} \cup Operations
    BY <2>1 DEF Jumps, Operations
  <2>6. None \in Value  BY ZeroFits DEF None, ValueTypes
  <2>7. ASSUME NEW brk \in {"break", "continue"}, Finish(Result(None, brk)) PROVE Move
    <3>1. Result(None, brk) \in ResultType  BY <2>6, ResultOfValue DEF BreakTypes
    <3> QED  BY <2>4, <2>5, <2>7, <3>1, NoSubScope, FinishMoves
  <2>8. CASE This.type = "RETURN_STAT" /\ Resume([Top EXCEPT !.pc = "jump"])
    <3>1. "jump" \in LabelsOf(This.type) /\ "jump" \in PcLabels \ {"fields", "field"}
      BY <2>8 DEF LabelsOf, PcLabels, Operations
    <3>2. Continues(LabelFrame("jump", Top.i, Top.last))
      BY <1>2, <2>4, <2>5, <3>1, LabelContinues
    <3>3. Resume(LabelFrame("jump", Top.i, Top.last))  BY <1>2, <2>8
    <3> QED  BY <2>4, <3>2, <3>3, ResumeMoves
  <2> QED  BY <2>1, <2>7, <2>8
<1>7. CASE ReturnExpr
  <2> DEFINE n == This.kids[1]
  <2>1. This.type = "RETURN_STAT"  BY <1>7 DEF ReturnExpr, At
  <2>2. CASE Fail("crash")  BY <2>2, FailMoves DEF Statuses
  <2>3. CASE /\ Evaluate([Top EXCEPT !.pc = "value"], n, Top.scope)
             /\ scopes' = scopes /\ fns' = fns
    <3>1. Arity("RETURN_STAT", Len(This.kids))  BY <1>1, <2>1, NodeFacts
    <3>2. Len(This.kids) = 1  BY <3>1 DEF Arity
    <3>3. n \in Nodes /\ TypeOf(n) # "PROGRAM"  BY <1>1, <3>2, NodeFacts
    <3>4. Grow  BY <2>3, SameGrow
    <3>5. "value" \in LabelsOf(This.type) /\ "value" \in PcLabels \ {"fields", "field"}
          /\ This.type \notin {"BLOCK", "CALL_EXPR", "PROGRAM"} \cup Operations
      BY <2>1 DEF LabelsOf, PcLabels, Operations
    <3>6. Continues(LabelFrame("value", Top.i, Top.last))
      BY <1>2, <3>4, <3>5, LabelContinues
    <3>7. Evaluate(LabelFrame("value", Top.i, Top.last), n, Top.scope)  BY <1>2, <2>3
    <3> HIDE DEF n
    <3>8. Top.scope \in {1, Working}  BY <3>5, WorkingHere
    <3> QED  BY <1>1, <3>3, <3>4, <3>6, <3>7, <3>8, EvaluateMoves
  <2> QED  BY <1>7, <2>2, <2>3 DEF ReturnExpr
<1>8. CASE ReturnValue
  <2>1. /\ This.type = "RETURN_STAT" /\ Finish(Result(ret.value, "return"))
        /\ scopes' = scopes /\ fns' = fns
    BY <1>8 DEF ReturnValue, At
  <2>2. Result(ret.value, "return") \in ResultType
    BY <1>1, ResultOfValue DEF BreakTypes
  <2> QED  BY <2>1, <2>2, SameGrow, NoSubScope, FinishMoves
<1> QED  BY <1>3, <1>4, <1>5, <1>6, <1>7, <1>8 DEF Jumping

\* A frame that opens a scope of its own, for a block or for function k.
LEMMA OpeningStep ==
  ASSUME IInv, NEW p \in 1..Len(scopes), scopes' = NewScope(scopes, p), fns' = fns,
         NEW f \in FrameType,
         f.node = Top.node, f.scope = Top.scope, f.sub = Len(scopes) + 1,
         \/ This.type = "BLOCK" /\ f.pc = "body" /\ p = Top.scope
         \/ This.type = "CALL_EXPR" /\ f.pc = "args" /\ f.fn \in 1..Len(fns) /\ p = 1,
         ~Opened(Top), Resume(f)
  PROVE  Move
<1>1. /\ Frame(Top, scopes, fns) /\ This.type = TypeOf(Top.node) /\ Top.scope \in 1..Len(scopes)
      /\ Len(scopes) \in Nat \ {0}
  BY StackFacts
<1>2. Top.sub = 0  BY <1>1 DEF Frame, SubOf
<1>3. Len(scopes') = Len(scopes) + 1  BY NewScopeFacts
<1>4. SubOf(f)
  <2>1. Opened(f) /\ f.sub > 1  BY <1>1 DEF Opened
  <2> QED  BY <1>1, <2>1 DEF SubOf
<1>5. f.pc \in LabelsOf(TypeOf(f.node)) /\ TypeOf(f.node) \notin Operations
      /\ f.pc \notin {"defers", "fields", "field"} /\ TypeOf(f.node) # "PROGRAM"
  BY <1>1 DEF LabelsOf, Operations
<1>6. TypeOf(f.node) = "CALL_EXPR" => f.fn \in 1..Len(fns')  BY <1>1
<1>7. Frame(f, scopes', fns')
  BY <1>1, <1>3, <1>4, <1>5, <1>6 DEF Frame
<1>8. p = IF TypeOf(Top.node) = "CALL_EXPR" THEN 1 ELSE Top.scope  BY <1>1
<1>9. Opens(f, p)  BY <1>2, <1>7, <1>8 DEF Opens, Resume, Replaced
<1> QED  BY <1>9 DEF Move

LEMMA OpeningSteps ==
  ASSUME IInv, BlockEnter \/ CallScope
  PROVE  Move
<1>1. /\ Top \in FrameType /\ Top.scope \in 1..Len(scopes) /\ Len(scopes) \in Nat \ {0}
      /\ fns \in Seq(FnType)
  BY StackFacts
<1> DEFINE s == Len(scopes) + 1
<1>s. s \in Nat  BY <1>1
<1>2. CASE BlockEnter
  <2> DEFINE f == [Top EXCEPT !.sub = s, !.pc = "body"]
  <2>1. /\ This.type = "BLOCK" /\ Top.pc = "enter" /\ Resume(f)
        /\ scopes' = NewScope(scopes, Top.scope) /\ fns' = fns
    BY <1>2 DEF BlockEnter, At
  <2> HIDE DEF s
  <2>2. /\ f \in FrameType /\ f.node = Top.node /\ f.scope = Top.scope
        /\ f.sub = s /\ f.pc = "body"
    BY <1>1, <1>s DEF FrameType, PcLabels
  <2> HIDE DEF f
  <2>4. f.sub = Len(scopes) + 1  BY <2>2 DEF s
  <2>3. ~Opened(Top)  BY <2>1 DEF Opened
  <2>5. Resume(f) /\ scopes' = NewScope(scopes, Top.scope) /\ fns' = fns /\ This.type = "BLOCK"
    BY <2>1
  <2> QED  BY <1>1, <2>2, <2>3, <2>4, <2>5, OpeningStep
<1>3. CASE CallScope
  <2>1. This.type = "CALL_EXPR" /\ Top.pc = "callee"  BY <1>3 DEF CallScope, At
  <2>2. CASE Fail("crash")  BY <2>2, FailMoves DEF Statuses
  <2>3. CASE /\ scopes' = NewScope(scopes, 1) /\ fns' = fns
             /\ \E k \in Callable(ret.value) :
                  Resume([Top EXCEPT !.sub = Len(scopes) + 1, !.fn = k, !.pc = "args"])
    <3>1. PICK k \in Callable(ret.value) :
            Resume([Top EXCEPT !.sub = Len(scopes) + 1, !.fn = k, !.pc = "args"])
      BY <2>3
    <3>2. k \in 1..Len(fns) /\ k \in Nat  BY <1>1, <3>1 DEF Callable
    <3> DEFINE f == [Top EXCEPT !.sub = s, !.fn = k, !.pc = "args"]
    <3>4. Resume(f)  BY <3>1
    <3> HIDE DEF s
    <3>3. /\ f \in FrameType /\ f.node = Top.node /\ f.scope = Top.scope
          /\ f.sub = s /\ f.pc = "args" /\ f.fn = k
      BY <1>1, <1>s, <3>2 DEF FrameType, PcLabels
    <3> HIDE DEF f
    <3> USE DEF s
    <3>5. ~Opened(Top)  BY <2>1 DEF Opened
    <3>6. 1 \in 1..Len(scopes)  BY <1>1
    <3> QED  BY <2>1, <2>3, <3>2, <3>3, <3>4, <3>5, <3>6, OpeningStep
  <2> QED  BY <1>3, <2>2, <2>3 DEF CallScope
<1> QED  BY <1>2, <1>3

\* A block, a call or the program past the opening of its scope.
LEMMA OpenFrame ==
  ASSUME IInv, Top.pc \in {"args", "arg", "body", "stat", "leave", "free", "defers"},
         This.type \notin Jumps
  PROVE  /\ This.type \in {"BLOCK", "CALL_EXPR", "PROGRAM"} /\ Opened(Top)
         /\ Top.pc \in {"args", "arg"} => This.type = "CALL_EXPR"
         /\ Top.pc \in {"free", "defers"} => This.type # "PROGRAM"
         /\ This.type # "PROGRAM" => Top.sub > 1
         /\ Top.sub \in 1..Len(scopes)
         /\ This.type \in {"CALL_EXPR", "PROGRAM"} => Top.fn \in 1..Len(fns)
<1>1. /\ Frame(Top, scopes, fns) /\ This.type = TypeOf(Top.node) /\ Len(scopes) \in Nat \ {0}
      /\ Top.sub \in 0..Len(scopes)
  BY StackFacts DEF Frame
<1>2. Top.pc \in LabelsOf(This.type)  BY <1>1 DEF Frame
<1>3. This.type \in {"BLOCK", "CALL_EXPR", "PROGRAM"}
      /\ (Top.pc \in {"args", "arg"} => This.type = "CALL_EXPR")
      /\ (Top.pc \in {"free", "defers"} => This.type # "PROGRAM")
  BY <1>2 DEF LabelsOf, Operations, Jumps
<1>4. Opened(Top)  BY DEF Opened
<1>5. (This.type # "PROGRAM" => Top.sub > 1) /\ (This.type = "PROGRAM" => Top.sub = 1)
  BY <1>1, <1>3, <1>4 DEF Frame, SubOf
<1>6. Top.sub \in 1..Len(scopes)  BY <1>1, <1>5
<1> QED  BY <1>1, <1>3, <1>4, <1>5, <1>6 DEF Frame

LEMMA CallSteps ==
  ASSUME IInv, CallEnter \/ CallArgument \/ CallBind \/ CallBody
  PROVE  Move
<1>1. /\ Top \in FrameType /\ Top.node \in Nodes /\ Top.scope \in 1..Len(scopes)
      /\ This = NodeData[Top.node] /\ This.type = TypeOf(Top.node)
      /\ ret \in ResultType /\ ret.value \in Value
      /\ scopes \in Seq(ScopeType) /\ fns \in Seq(FnType)
  BY StackFacts
<1>2. This.type = "CALL_EXPR" /\ This.type \notin Operations \cup Jumps
  BY DEF CallEnter, CallArgument, CallBind, CallBody, At, Operations, Jumps
<1>3. /\ \A pc : [Top EXCEPT !.pc = pc] = LabelFrame(pc, Top.i, Top.last)
      /\ \A pc, i : [Top EXCEPT !.pc = pc, !.i = i] = LabelFrame(pc, i, Top.last)
      /\ Top.i \in Nat /\ Top.last \in ResultType
  BY <1>1, LabelFrames
<1>i. Top.i \in Nat  BY <1>3
<1>4. ASSUME NEW pc \in {"callee", "args", "arg", "body"}, NEW i \in Nat, Grow,
             Opened(Top) <=> pc # "callee"
      PROVE  Continues(LabelFrame(pc, i, Top.last))
  <2>1. pc \in LabelsOf(This.type) /\ pc \in PcLabels \ {"fields", "field"}
    BY <1>2 DEF LabelsOf, PcLabels, Operations
  <2> QED  BY <1>2, <1>3, <1>4, <2>1, LabelContinues
<1>5. ASSUME NEW k \in 1..Len(This.kids)
      PROVE  This.kids[k] \in Nodes /\ TypeOf(This.kids[k]) # "PROGRAM"
  BY <1>1, NodeFacts
<1>6. Len(This.kids) \in Nat /\ Len(This.kids) >= 1
  <2>1. Len(This.kids) \in Nat  BY <1>1, NodeFacts
  <2>2. Arity("CALL_EXPR", Len(This.kids))  BY <1>1, <1>2, NodeFacts
  <2> QED  BY <2>1, <2>2 DEF Arity
<1>7. CASE CallEnter
  <2>1. CASE Fail("exit")  BY <2>1, FailMoves DEF Statuses
  <2>2. CASE /\ Evaluate([Top EXCEPT !.pc = "callee"], This.kids[1], Top.scope)
             /\ scopes' = scopes /\ fns' = fns
    <3> DEFINE n == This.kids[1]
    <3>1. Grow  BY <2>2, SameGrow
    <3>2. ~Opened(Top)  BY <1>7 DEF CallEnter, At, Opened
    <3>3. Continues(LabelFrame("callee", Top.i, Top.last))  BY <1>3, <1>4, <3>1, <3>2
    <3>4. n \in Nodes /\ TypeOf(n) # "PROGRAM"  BY <1>5, <1>6
    <3>5. Evaluate(LabelFrame("callee", Top.i, Top.last), n, Top.scope)  BY <1>3, <2>2
    <3> HIDE DEF n
    <3>6. Top.sub = 0  BY <1>1, <1>2, <3>2, StackFacts DEF Frame, SubOf
    <3>7. Top.scope \in {1, Working}  BY <3>6 DEF Working
    <3> QED  BY <1>1, <3>1, <3>3, <3>4, <3>5, <3>7, EvaluateMoves
  <2> QED  BY <1>7, <2>1, <2>2 DEF CallEnter
<1>8. CASE CallArgument
  <2> DEFINE n == This.kids[Top.i + 2]
  <2>1. /\ Top.pc = "args" /\ Top.i < Len(This.kids) - 1 /\ scopes' = scopes /\ fns' = fns
        /\ Evaluate([Top EXCEPT !.pc = "arg"], n, Top.sub)
    BY <1>8 DEF CallArgument, At
  <2>2. Grow  BY <2>1, SameGrow
  <2>3. Opened(Top) /\ Top.sub \in 1..Len(scopes)  BY <1>2, <2>1, OpenFrame
  <2>4. Continues(LabelFrame("arg", Top.i, Top.last))  BY <1>3, <1>4, <2>2, <2>3
  <2>5. Top.i + 2 \in 1..Len(This.kids)  BY <1>i, <1>6, <2>1
  <2>6. n \in Nodes /\ TypeOf(n) # "PROGRAM"  BY <1>5, <2>5
  <2>7. Evaluate(LabelFrame("arg", Top.i, Top.last), n, Top.sub)  BY <1>3, <2>1
  <2> HIDE DEF n
  <2>8. Top.sub \in {1, Working}  BY <2>3, WorkingInside
  <2> QED  BY <2>2, <2>3, <2>4, <2>6, <2>7, <2>8, EvaluateMoves
<1>9. CASE CallBind
  <2> DEFINE param == fns[Top.fn].params[Top.i + 1]
  <2>1. Top.pc = "arg"  BY <1>9 DEF CallBind, At
  <2>2. Opened(Top) /\ Top.sub \in 1..Len(scopes) /\ Top.fn \in 1..Len(fns)
    BY <1>2, <2>1, OpenFrame
  <2>3. CASE Fail("crash")  BY <2>3, FailMoves DEF Statuses
  <2>4. CASE Fail("abort")  BY <2>4, FailMoves DEF Statuses
  <2>5. CASE /\ ~(Top.i >= Len(fns[Top.fn].params))
             /\ scopes' = scope_define_var(scope_declare_var(scopes, Top.sub, param),
                                           Top.sub, param, ret.value)
             /\ Resume([Top EXCEPT !.pc = "args", !.i = @ + 1]) /\ fns' = fns
    <3> DEFINE tt == scope_declare_var(scopes, Top.sub, param)
    <3>1. param \in Names
      <4>1. fns[Top.fn] \in FnType  BY <1>1, <2>2
      <4>2. fns[Top.fn].params \in Seq(Names)  BY <4>1 DEF FnType
      <4>3. Top.i + 1 \in 1..Len(fns[Top.fn].params)  BY <1>i, <2>5, <4>2
      <4> QED  BY <4>2, <4>3
    <3> HIDE DEF param
    <3>2. Evolved(scopes, tt) /\ tt \in Seq(ScopeType)
      BY <1>1, <2>2, <3>1, DeclareEvolves DEF Evolved
    <3>3. scopes' = scope_define_var(tt, Top.sub, param, ret.value)  BY <2>5
    <3> HIDE DEF tt
    <3>4. Evolved(tt, scopes')  BY <1>1, <3>1, <3>2, <3>3, DefineEvolves
    <3>5. Evolved(scopes, scopes')  BY <1>1, <3>2, <3>4, EvolvedTwice
    <3>6. Grow  BY <2>5, <3>5, EvolvedGrow
    <3>7. Top.i + 1 \in Nat  BY <1>i
    <3>8. Continues(LabelFrame("args", Top.i + 1, Top.last))
      BY <1>4, <2>2, <3>6, <3>7
    <3>9. Resume(LabelFrame("args", Top.i + 1, Top.last))  BY <1>3, <2>5
    <3> QED  BY <3>6, <3>8, <3>9, ResumeMoves
  <2> QED  BY <1>9, <2>3, <2>4, <2>5 DEF CallBind
<1>10. CASE CallBody
  <2>1. /\ Top.pc = "args" /\ scopes' = scopes /\ fns' = fns
        /\ Resume([Top EXCEPT !.pc = "body", !.i = 0])
    BY <1>10 DEF CallBody, At
  <2>2. Grow  BY <2>1, SameGrow
  <2>3. Opened(Top)  BY <1>2, <2>1, OpenFrame
  <2>4. Continues(LabelFrame("body", 0, Top.last))  BY <1>4, <2>2, <2>3
  <2>5. Resume(LabelFrame("body", 0, Top.last))  BY <1>3, <2>1
  <2> QED  BY <2>2, <2>4, <2>5, ResumeMoves
<1> QED  BY <1>7, <1>8, <1>9, <1>10

LEMMA BodySteps ==
  ASSUME IInv, Statement \/ StatementDone \/ Leave \/ DefersDone \/ FreeScope
  PROVE  Move
<1>1. /\ Top \in FrameType /\ Top.node \in Nodes /\ Top.scope \in 1..Len(scopes)
      /\ This = NodeData[Top.node] /\ This.type = TypeOf(Top.node)
      /\ ret \in ResultType
      /\ scopes \in Seq(ScopeType) /\ fns \in Seq(FnType)
  BY StackFacts
<1>2. Top.pc \in {"body", "stat", "leave", "defers", "free"} /\ This.type \notin Jumps
  <2>1. CASE Leave
    BY <2>1 DEF Leave, BodyDone, Jumps
  <2>2. CASE DefersDone
    BY <2>2 DEF DefersDone, Leaving
  <2>3. CASE Statement \/ StatementDone \/ FreeScope
    <3>1. Top.pc \in {"body", "stat", "free"}  BY <2>3 DEF Statement, StatementDone, FreeScope
    <3>2. Top.pc \in LabelsOf(This.type)  BY <1>1, StackFacts DEF Frame
    <3>3. This.type \notin Jumps  BY <3>1, <3>2 DEF LabelsOf, Jumps, Operations
    <3> QED  BY <3>1, <3>3
  <2> QED  BY <2>1, <2>2, <2>3
<1>3. /\ This.type \in {"BLOCK", "CALL_EXPR", "PROGRAM"} /\ Opened(Top)
      /\ Top.pc \in {"free", "defers"} => This.type # "PROGRAM"
      /\ This.type # "PROGRAM" => Top.sub > 1
      /\ Top.sub \in 1..Len(scopes)
      /\ This.type \in {"CALL_EXPR", "PROGRAM"} => Top.fn \in 1..Len(fns)
  BY <1>2, OpenFrame
<1>4. /\ \A pc : [Top EXCEPT !.pc = pc] = LabelFrame(pc, Top.i, Top.last)
      /\ \A pc, i : [Top EXCEPT !.pc = pc, !.i = i] = LabelFrame(pc, i, Top.last)
      /\ \A pc, last : [Top EXCEPT !.pc = pc, !.last = last] = LabelFrame(pc, Top.i, last)
      /\ Top.last \in ResultType
  BY <1>1, LabelFrames
<1>i. Top.i \in Nat  BY <1>1, LabelFrames
<1>5. ASSUME NEW pc \in {"stat", "body", "leave", "free"}, pc = "free" => This.type # "PROGRAM",
             NEW i \in Nat, NEW last \in ResultType, Grow
      PROVE  Continues(LabelFrame(pc, i, last))
  <2>1. pc \in LabelsOf(This.type) /\ pc \in PcLabels \ {"fields", "field"}
        /\ This.type \notin Operations
    BY <1>3, <1>5 DEF LabelsOf, PcLabels, Operations
  <2>2. pc # "defers" /\ pc \notin {"enter", "callee"}  OBVIOUS
  <2> QED  BY <1>3, <1>5, <2>1, <2>2, LabelContinues
<1>6. CASE Statement
  <2> DEFINE n == Body[Top.i + 1]
  <2>1. /\ Top.i < Len(Body) /\ scopes' = scopes /\ fns' = fns
        /\ Evaluate([Top EXCEPT !.pc = "stat", !.i = @ + 1], n, Top.sub)
    BY <1>6 DEF Statement
  <2>2. Grow  BY <2>1, SameGrow
  <2>3. Continues(LabelFrame("stat", Top.i + 1, Top.last))
    <3>1. Top.i + 1 \in Nat  BY <1>i
    <3> QED  BY <1>4, <1>5, <2>2, <3>1
  <2>4. PICK b \in Nodes : Body = NodeData[b].kids
    <3>1. CASE This.type = "BLOCK"  BY <1>1, <3>1 DEF Body
    <3>2. CASE This.type # "BLOCK"
      <4>1. fns[Top.fn] \in FnType  BY <1>1, <1>3, <3>2
      <4>2. fns[Top.fn].body \in Nodes  BY <4>1 DEF FnType
      <4> QED  BY <3>2, <4>2 DEF Body
    <3> QED  BY <3>1, <3>2
  <2>5. Top.i + 1 \in 1..Len(NodeData[b].kids)
    <3>1. Len(NodeData[b].kids) \in Nat  BY NodeFacts
    <3> QED  BY <1>i, <2>1, <2>4, <3>1
  <2>6. n \in Nodes /\ TypeOf(n) # "PROGRAM"  BY <2>4, <2>5, NodeFacts
  <2>7. Evaluate(LabelFrame("stat", Top.i + 1, Top.last), n, Top.sub)  BY <1>4, <2>1
  <2> HIDE DEF n
  <2>8. Top.sub \in {1, Working}  BY <1>3, WorkingInside
  <2> QED  BY <1>3, <2>2, <2>3, <2>6, <2>7, <2>8, EvaluateMoves
<1>7. CASE StatementDone
  <2> DEFINE pc == IF ret.brk = "return" THEN "leave" ELSE "body"
  <2>1. Resume([Top EXCEPT !.pc = pc, !.last = ret]) /\ scopes' = scopes /\ fns' = fns
    BY <1>7 DEF StatementDone
  <2>2. Grow  BY <2>1, SameGrow
  <2>3. pc \in {"leave", "body"}  OBVIOUS
  <2> HIDE DEF pc
  <2>4. Continues(LabelFrame(pc, Top.i, ret))  BY <1>1, <1>i, <1>5, <2>2, <2>3
  <2>5. Resume(LabelFrame(pc, Top.i, ret))  BY <1>4, <2>1
  <2> QED  BY <2>2, <2>4, <2>5, ResumeMoves
<1>8. CASE Leave
  <2>1. /\ This.type # "PROGRAM" /\ scopes' = scopes /\ fns' = fns
    BY <1>8 DEF Leave
  <2>2. Grow  BY <2>1, SameGrow
  <2>3. CASE Resume([Top EXCEPT !.pc = "free"])
    <3>1. Continues(LabelFrame("free", Top.i, Top.last))  BY <1>4, <1>i, <1>5, <2>1, <2>2
    <3>2. Resume(LabelFrame("free", Top.i, Top.last))  BY <1>4, <2>3
    <3> QED  BY <2>2, <3>1, <3>2, ResumeMoves
  <2>4. CASE Resume([Top EXCEPT !.pc = "defers", !.i = Len(scopes[Top.sub].defers)])
    <3> DEFINE d == Len(scopes[Top.sub].defers)
    <3>1. d \in Nat /\ DeferScope = Top.sub
      BY <1>2, <1>3, ScopeFacts DEF DeferScope, Leaving
    <3>2. d <= Len(scopes[DeferScope].defers)  BY <3>1
    <3>3. Resume(LabelFrame("defers", d, Top.last))  BY <1>4, <2>4
    <3> HIDE DEF d
    <3>4. "defers" \in LabelsOf(This.type) /\ "defers" \in PcLabels \ {"fields", "field"}
          /\ This.type \notin Operations
      BY <1>3, <2>1 DEF LabelsOf, PcLabels, Operations
    <3>5. Continues(LabelFrame("defers", d, Top.last))
      BY <1>3, <1>4, <2>2, <3>1, <3>2, <3>4, LabelContinues
    <3> QED  BY <2>2, <3>3, <3>5, ResumeMoves
  <2> QED  BY <1>8, <2>3, <2>4 DEF Leave
<1>9. CASE DefersDone
  <2>1. /\ Top.pc = "defers" /\ fns' = fns
        /\ scopes' = [scopes EXCEPT ![Top.sub].is_deferred = TRUE]
        /\ Resume([Top EXCEPT !.pc = "free"])
    BY <1>9 DEF DefersDone
  <2>2. Evolved(scopes, scopes')  BY <1>1, <1>3, <2>1, MarkEvolves
  <2>3. Grow  BY <2>1, <2>2, EvolvedGrow
  <2>4. Continues(LabelFrame("free", Top.i, Top.last))  BY <1>3, <1>4, <1>i, <1>5, <2>1, <2>3
  <2>5. Resume(LabelFrame("free", Top.i, Top.last))  BY <1>4, <2>1
  <2> QED  BY <2>3, <2>4, <2>5, ResumeMoves
<1>10. CASE FreeScope
  <2>1. /\ Top.pc = "free" /\ scopes' = Front(scopes) /\ fns' = fns
        /\ stack' = Front(stack) /\ ret' = Top.last /\ status' = status
    BY <1>10 DEF FreeScope, Finish
  <2>2. Closes  BY <1>1, <1>3, <1>4, <2>1 DEF Closes
  <2> QED  BY <2>2 DEF Move
<1> QED  BY <1>6, <1>7, <1>8, <1>9, <1>10

LEMMA RunningSteps ==
  ASSUME IInv, Running
  PROVE  Move
<1>1. /\ Top \in FrameType /\ Top.node \in Nodes /\ Top.scope \in 1..Len(scopes)
      /\ This = NodeData[Top.node] /\ This.type = TypeOf(Top.node)
      /\ Len(scopes) \in Nat \ {0} /\ fns \in Seq(FnType) /\ Frame(Top, scopes, fns)
  BY StackFacts
<1>2. This.type = "PROGRAM"  BY DEF Running, ProgramStatement, MainEnter, MainDone, At
<1>3. 1 \in 1..Len(scopes)  BY <1>1
<1>4. CASE ProgramStatement
  <2> DEFINE n == This.kids[Top.i + 1]
  <2>1. /\ Top.pc = "enter" /\ Top.i < Len(This.kids) /\ scopes' = scopes /\ fns' = fns
        /\ Evaluate([Top EXCEPT !.i = @ + 1], n, 1)
    BY <1>4 DEF ProgramStatement, At
  <2>2. Grow  BY <2>1, SameGrow
  <2>3. Top.i \in Nat /\ Top.last \in ResultType  BY <1>1, LabelFrames
  <2>4. [Top EXCEPT !.i = @ + 1] = LabelFrame("enter", Top.i + 1, Top.last)
    BY <1>1, <2>1 DEF FrameType, LabelFrame
  <2>5. Continues(LabelFrame("enter", Top.i + 1, Top.last))
    <3>1. "enter" \in LabelsOf(This.type) /\ "enter" \in PcLabels \ {"fields", "field"}
          /\ This.type \notin Operations
      BY <1>2 DEF LabelsOf, PcLabels, Operations
    <3>2. ~Opened(Top) /\ Top.i + 1 \in Nat  BY <2>1, <2>3 DEF Opened
    <3> QED  BY <2>2, <2>3, <3>1, <3>2, LabelContinues
  <2>6. Top.i + 1 \in 1..Len(This.kids)
    <3>1. Len(This.kids) \in Nat  BY <1>1, NodeFacts
    <3> QED  BY <2>1, <2>3, <3>1
  <2>7. n \in Nodes /\ TypeOf(n) # "PROGRAM"  BY <1>1, <2>6, NodeFacts
  <2>8. Evaluate(LabelFrame("enter", Top.i + 1, Top.last), n, 1)  BY <2>1, <2>4
  <2> HIDE DEF n
  <2> QED  BY <1>3, <2>2, <2>5, <2>7, <2>8, WorkingHere, EvaluateMoves
<1>5. CASE MainEnter
  <2>1. CASE Fail("crash")  BY <2>1, FailMoves DEF Statuses
  <2>2. CASE /\ Top.pc = "enter" /\ scopes' = scopes /\ fns' = fns
             /\ \E k \in Callable(scope_get_var(scopes, 1, "main")) :
                  Resume([Top EXCEPT !.pc = "body", !.i = 0, !.sub = 1, !.fn = k])
    <3>1. PICK k \in Callable(scope_get_var(scopes, 1, "main")) :
            Resume([Top EXCEPT !.pc = "body", !.i = 0, !.sub = 1, !.fn = k])
      BY <2>2
    <3>2. k \in 1..Len(fns) /\ k \in Nat  BY <1>1, <3>1 DEF Callable
    <3> DEFINE f == [Top EXCEPT !.pc = "body", !.i = 0, !.sub = 1, !.fn = k]
    <3>3. /\ f \in FrameType /\ f.node = Top.node /\ f.scope = Top.scope
          /\ f.sub = 1 /\ f.pc = "body" /\ f.fn = k
      BY <1>1, <3>2 DEF FrameType, PcLabels
    <3>4. Resume(f)  BY <3>1
    <3> HIDE DEF f
    <3>5. Grow  BY <2>2, SameGrow
    <3>6. Top.sub = 0
      <4>1. ~Opened(Top)  BY <2>2 DEF Opened
      <4> QED  BY <1>1, <1>2, <4>1 DEF Frame, SubOf
    <3>7. SubOf(f)
      <4>1. Opened(f)  BY <3>3 DEF Opened
      <4> QED  BY <1>1, <1>2, <3>3, <4>1 DEF SubOf
    <3>8. f.pc \in LabelsOf(TypeOf(f.node)) /\ TypeOf(f.node) \notin Operations
      BY <1>1, <1>2, <3>3 DEF LabelsOf, Operations
    <3>9. Frame(f, scopes', fns')
      BY <1>1, <1>2, <1>3, <2>2, <3>2, <3>3, <3>7, <3>8 DEF Frame
    <3>10. Continues(f)  BY <3>3, <3>6, <3>9 DEF Continues
    <3> QED  BY <3>4, <3>5, <3>10, ResumeMoves
  <2> QED  BY <1>5, <2>1, <2>2 DEF MainEnter, At
<1>6. CASE MainDone
  <2>1. status' = "done" /\ stack' = stack /\ ret' = ret /\ scopes' = scopes /\ fns' = fns
    BY <1>6 DEF MainDone
  <2> QED  BY <2>1, SameGrow, StopMoves DEF Statuses
<1> QED  BY <1>4, <1>5, <1>6 DEF Running

-----------------------------------------------------------------------------
(***************************************************************************)
(* The initial states.                                                     *)
(***************************************************************************)
LEMMA GlobalScopeType ==
  ASSUME NEW program \in Programs
  PROVE  GlobalScope(program) \in ScopeType /\ GlobalScope(program).chain = {1}
<1> DEFINE vs == [x \in Names |->
                 IF GlobalVarsNamed(program, x) # {}
                 THEN Zero(DeclaredType(program, TopLevel(program)[Max(GlobalVarsNamed(program, x))]))
                 ELSE CASE x \in {"null", "false"} -> Zero("u8")
                        [] x = "true" -> [t |-> "u8", n |-> 1]
                        [] OTHER -> Undeclared]
<1>1. \A n : DeclaredType(program, n) \in ValueTypes
  BY GlobalTypeValue DEF DeclaredType
<1>2. \A n : Zero(DeclaredType(program, n)) \in Value  BY <1>1, ZeroFits
<1>3. Zero("u8") \in Value  BY ZeroFits DEF ValueTypes, NumberTypes, IntTypes
<1>4. [t |-> "u8", n |-> 1] \in Value
  <2>1. "u8" \in IntTypes /\ Low("u8") = 0  BY DEF IntTypes, Low, SignedTypes
  <2>2. Wrap("u8", 1) = 1  BY <2>1, RangeOfType, WrapIdentity
  <2> QED  BY <2>1, <2>2, FittingValue
<1>5. ASSUME NEW x \in Names
      PROVE  (IF GlobalVarsNamed(program, x) # {}
              THEN Zero(DeclaredType(program, TopLevel(program)[Max(GlobalVarsNamed(program, x))]))
              ELSE CASE x \in {"null", "false"} -> Zero("u8")
                     [] x = "true" -> [t |-> "u8", n |-> 1]
                     [] OTHER -> Undeclared) \in Value \cup {Undeclared}
  BY <1>2, <1>3, <1>4
<1>6. vs \in [Names -> Value \cup {Undeclared}]  BY <1>5
<1>7. 3 + Cardinality(GlobalVars(program)) \in Nat
  <2>1. program \in Nodes  BY ProgramsAssumption
  <2>2. Len(TopLevel(program)) \in Nat  BY <2>1, NodeFacts DEF TopLevel
  <2>3. IsFiniteSet(1..Len(TopLevel(program)))  BY <2>2, FS_Interval
  <2>4. GlobalVars(program) \in SUBSET (1..Len(TopLevel(program)))  BY DEF GlobalVars
  <2>5. IsFiniteSet(GlobalVars(program))  BY <2>3, <2>4, FS_Subset
  <2>6. Cardinality(GlobalVars(program)) \in Nat  BY <2>5, FS_CardinalityType
  <2> QED  BY <2>6
<1> DEFINE c == 3 + Cardinality(GlobalVars(program))
<1>8. GlobalScope(program) = [create_scope({1}) EXCEPT !.varcount = c, !.vars = vs]
  BY DEF GlobalScope
<1> HIDE DEF c, vs
<1>9. c \in Nat  BY <1>7 DEF c
<1> DEFINE new == create_scope({1})
<1>10. new \in ScopeType /\ new.chain = {1}
  <2>1. {1} \in SUBSET Nat  OBVIOUS
  <2> QED  BY <2>1 DEF create_scope, ScopeType
<1>11. GlobalScope(program) = [new EXCEPT !.varcount = c, !.vars = vs]  BY <1>8
<1> HIDE DEF new
<1>12. /\ [new EXCEPT !.varcount = c, !.vars = vs] \in ScopeType
       /\ [new EXCEPT !.varcount = c, !.vars = vs].chain = {1}
  BY <1>6, <1>9, <1>10 DEF ScopeType
<1> QED  BY <1>11, <1>12

LEMMA InitIInv == Init => IInv
<1> SUFFICES ASSUME Init PROVE IInv  OBVIOUS
<1>1. PICK program \in Programs :
        /\ stack = <<NewFrame(program, 1)>> /\ scopes = <<GlobalScope(program)>>
        /\ ret = NoValue /\ fns = <<>> /\ status = "run"
  BY DEF Init
<1>2. program \in Nodes /\ TypeOf(program) = "PROGRAM"  BY ProgramsAssumption
<1> DEFINE f == NewFrame(program, 1)
<1>3. f \in FrameType /\ f.node = program /\ f.scope = 1 /\ f.sub = 0
  BY <1>2, NewFrameFacts
<1> DEFINE g == GlobalScope(program)
<1>4. g \in ScopeType /\ g.chain = {1}  BY GlobalScopeType
<1>5. stack = <<f>> /\ scopes = <<g>>  BY <1>1
<1>6. scopes \in Seq(ScopeType) /\ Len(scopes) = 1 /\ scopes[1] = g
  <2> HIDE DEF g
  <2> QED  BY <1>4, <1>5
<1>7. Frame(f, scopes, fns)  BY <1>2, <1>6, NewFrameOK
<1> HIDE DEF f, g
<1>8. stack \in Seq(FrameType) /\ Len(stack) = 1 /\ stack[1] = f  BY <1>3, <1>5
<1>9. TypeOK  BY <1>1, <1>6, <1>8, NoValueResult DEF TypeOK
<1>10. FramesOK  BY <1>2, <1>3, <1>7, <1>8 DEF FramesOK
<1>11. ChainsOK  BY <1>4, <1>6 DEF ChainsOK
<1>12. ScopeDiscipline  BY <1>3, <1>6, <1>8 DEF ScopeDiscipline, Owns
<1> QED  BY <1>9, <1>10, <1>11, <1>12 DEF IInv

LEMMA NextMoves ==
  ASSUME IInv, Next
  PROVE  Move
<1>1. CASE EvaluateLeaf  BY <1>1, LeafSteps
<1>2. CASE Expression
  <2>1. \/ CastUnsupported \/ EvaluateOperand \/ OperandValue
        \/ evaluate_bin_expr \/ evaluate_unary_expr \/ evaluate_cast_expr \/ evaluate_assign_expr
    BY <1>2 DEF Expression
  <2>2. CASE CastUnsupported  BY <2>2, FailMoves DEF CastUnsupported, Statuses
  <2> QED  BY <2>1, <2>2, OperandSteps, OperationSteps
<1>3. CASE Declaration
  <2>1. \/ VarDeclare \/ VarDefine \/ StructField \/ StructFieldValue
        \/ StructDefine \/ evaluate_fn_stat
    BY <1>3 DEF Declaration
  <2> QED  BY <2>1, VarSteps, FieldSteps, FunctionSteps
<1>4. CASE Branching  BY <1>4, BranchingSteps
<1>5. CASE Jumping  BY <1>5, JumpingSteps
<1>6. CASE Scoping
  <2>1. \/ BlockEnter \/ CallEnter \/ CallScope \/ CallArgument \/ CallBind \/ CallBody
        \/ Statement \/ StatementDone \/ Leave \/ DefersDone \/ FreeScope
    BY <1>6 DEF Scoping
  <2> QED  BY <2>1, OpeningSteps, CallSteps, BodySteps
<1>7. CASE Running  BY <1>7, RunningSteps
<1> QED  BY <1>1, <1>2, <1>3, <1>4, <1>5, <1>6, <1>7 DEF Next

LEMMA NextIInv == IInv /\ [Next]_vars => IInv'
<1>1. ASSUME IInv, Next PROVE IInv'
  BY <1>1, NextMoves, MoveKeeps
<1>2. ASSUME IInv, UNCHANGED vars PROVE IInv'
  BY <1>2 DEF vars, IInv, TypeOK, FramesOK, ChainsOK, ScopeDiscipline
<1> QED  BY <1>1, <1>2

(***************************************************************************)
(* IInv holds in every state of every run, for every accepted program,     *)
(* every capacity and every placement of functions in memory.              *)
(***************************************************************************)
THEOREM Invariance == Spec => []IInv
<1>1. Init => IInv  BY InitIInv
<1>2. IInv /\ [Next]_vars => IInv'  BY NextIInv
<1> QED  BY <1>1, <1>2, PTL DEF Spec

(***************************************************************************)
(* Every variable always holds what its C counterpart can hold; a value    *)
(* never leaves the range of its type, since Value has no such values.     *)
(***************************************************************************)
THEOREM TypeCorrectness == Spec => []TypeOK
<1>1. IInv => TypeOK  BY DEF IInv
<1> QED  BY <1>1, Invariance, PTL

(***************************************************************************)
(* free_scope, whichever way a block or a call is left, frees the newest   *)
(* scope, which no other active call uses, and no scope is left behind.    *)
(***************************************************************************)
THEOREM ScopeLifetimes == Spec => []ScopeDiscipline
<1>1. IInv => ScopeDiscipline  BY DEF IInv
<1> QED  BY <1>1, Invariance, PTL
=============================================================================
