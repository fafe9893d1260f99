-------------------------- MODULE SemanticsTheorems --------------------------
(***************************************************************************)
(* Proofs about the semantics stage for every program and every limit: the *)
(* scopes follow the text, and no type that is registered has a member     *)
(* whose type cannot be found.  A step is one of five moves on the calls   *)
(* and the scopes; each action is one of them, and each keeps SemInv.      *)
(***************************************************************************)
EXTENDS Semantics, CommonLemmas

-----------------------------------------------------------------------------
(***************************************************************************)
(* The inductive invariant.  It is stated over sequences, so that lemmas   *)
(* about the calls and the scopes hold for those of both states of a step. *)
(***************************************************************************)
Open(f) == TypeOf(f.node) \in {"BLOCK", "FUNC_STAT"} /\ f.pc # "enter"
Depth(q, n) == Cardinality({k \in 1..n : Open(q[k])})

\* Every frame but the innermost waits for the child the next one processes.
Waiting(f) == f.pc = "child" /\ f.i < Len(Children(f.node))
FrameOK(f) ==
  /\ f.i <= Len(Children(f.node))
  /\ f.pc = "child" => Waiting(f)
  /\ f.pc = "enter" => f.i = 0
Calling(q) ==
  /\ Len(q) >= 1
  /\ \A j \in 1..Len(q) : FrameOK(q[j]) /\ (TypeOf(q[j].node) = "PROGRAM" <=> j = 1)
  /\ \A j \in 1..(Len(q) - 1) :
       Waiting(q[j]) /\ q[j + 1].node = Children(q[j].node)[q[j].i + 1]

\* The scope a frame was called in lies above those of the frames before it.
Stacked(q, ss) ==
  /\ Len(ss) = 1 + Depth(q, Len(q))
  /\ \A j \in 1..Len(q) : q[j].scope = 1 + Depth(q, j - 1)

\* What the innermost frame is through with, given the last result.
Through(f, error) == IF f.pc = "child" /\ ~error THEN f.i + 1 ELSE f.i
VarsUpTo(n, i) ==
  LET kids == NodeData[n].kids IN
  {NodeData[kids[k]].name : k \in {k \in 1..i : TypeOf(kids[k]) = "VAR_STAT"}}
ParamsOf(n) == LET params == NodeData[n].params IN {params[k] : k \in 1..Len(params)}
Declared(n, i) == IF TypeOf(n) = "BLOCK" THEN VarsUpTo(n, i) ELSE ParamsOf(n)

Preloaded == {"null", "false", "true"}
PassedIn(q, error, j) == IF j = Len(q) THEN Through(q[j], error) ELSE q[j].i
ByTheText(q, error, ss) ==
  /\ \A j \in 1..Len(q) : Open(q[j]) =>
       NamesIn(ss[q[j].scope + 1].vars) = Declared(q[j].node, PassedIn(q, error, j))
  /\ NamesIn(ss[1].vars) \subseteq Preloaded \cup VarsUpTo(q[1].node, PassedIn(q, error, 1))

ResolvedAt(ss, s) ==
  \A k \in 1..Len(ss[s].types) : \A j \in 1..Len(ss[s].types[k].type.types) :
    \E outer \in 1..s : ss[s].types[k].type.types[j] \in NamesIn(ss[outer].types)
Resolved(ss) == \A s \in 1..Len(ss) : ResolvedAt(ss, s)

SemInv ==
  /\ DataOK
  /\ Calling(calls)
  /\ Stacked(calls, chain)
  /\ ByTheText(calls, result.error, chain)
  /\ Resolved(chain)

-----------------------------------------------------------------------------
(***************************************************************************)
(* Nodes.                                                                  *)
(***************************************************************************)
LEMMA NodeFacts ==
  ASSUME NEW n \in Nodes
  PROVE  /\ NodeData[n].type = TypeOf(n) /\ TypeOf(n) \in NodeTypes
         /\ NodeData[n].name \in Names /\ NodeData[n].name \in TypeNames
         /\ NodeData[n].params \in Seq(Names) /\ Len(NodeData[n].params) \in Nat
         /\ NodeData[n].types \in Seq(STRING) /\ Len(NodeData[n].types) \in Nat
         /\ NodeData[n].kids \in Seq(Nodes) /\ Len(NodeData[n].kids) \in Nat
         /\ Arity(TypeOf(n), Len(NodeData[n].kids))
         /\ \A k \in 1..Len(NodeData[n].kids) :
              NodeData[n].kids[k] \in Nodes /\ TypeOf(NodeData[n].kids[k]) # "PROGRAM"
<1>1. NodeData[n] \in [type : NodeTypes, name : Names, aux : STRING, num : Int,
                       params : Seq(Names), types : Seq(STRING), kids : Seq(Nodes)]
  BY NodesAssumption
<1>2. NodeData[n].kids \in Seq(Nodes)  BY <1>1
<1>3. NodeData[n].params \in Seq(Names) /\ NodeData[n].types \in Seq(STRING)  BY <1>1
<1>4. NodeData[n].name \in TypeNames  BY <1>1 DEF TypeNames
<1>5. Arity(TypeOf(n), Len(NodeData[n].kids))  BY NodesAssumption
<1>6. \A k \in 1..Len(NodeData[n].kids) : TypeOf(NodeData[n].kids[k]) # "PROGRAM"
  BY NodesAssumption
<1>7. TypeOf(n) \in NodeTypes /\ NodeData[n].type = TypeOf(n)  BY <1>1 DEF TypeOf
<1> QED  BY <1>1, <1>2, <1>3, <1>4, <1>5, <1>6, <1>7

\* The children that are processed are children in the tree.
LEMMA ChildrenFacts ==
  ASSUME NEW n \in Nodes
  PROVE  /\ Children(n) \in Seq(Nodes) /\ Len(Children(n)) \in Nat
         /\ \A k \in 1..Len(Children(n)) :
              \E m \in 1..Len(NodeData[n].kids) : Children(n)[k] = NodeData[n].kids[m]
         /\ TypeOf(n) \in {"BLOCK", "PROGRAM", "ENUM_STAT"} => Children(n) = NodeData[n].kids
<1> DEFINE kids == NodeData[n].kids
<1>1. kids \in Seq(Nodes) /\ Len(kids) \in Nat /\ \A k \in 1..Len(kids) : kids[k] \in Nodes
  BY NodeFacts
<1>2. ASSUME NEW m \in 1..Len(kids)
      PROVE  /\ Optional(kids[m]) \in Seq(Nodes)
             /\ Optional(kids[m]) = <<>> \/ Optional(kids[m]) = <<kids[m]>>
  BY <1>1 DEF Optional
<1>3. CASE TypeOf(n) \in {"VAR_STAT", "RETURN_STAT"}
  <2>1. Len(kids) = 1  BY <1>3, NodeFacts DEF Arity
  <2>2. Children(n) = Optional(kids[1])  BY <1>3 DEF Children
  <2> QED  BY <1>2, <1>3, <2>1, <2>2
<1>4. CASE TypeOf(n) = "IF_STAT"
  <2>1. Len(kids) = 3  BY <1>4, NodeFacts DEF Arity
  <2>2. Children(n) = <<kids[1], kids[2]>> \o Optional(kids[3])  BY <1>4 DEF Children
  <2>4. kids[1] \in Nodes /\ kids[2] \in Nodes /\ kids[3] \in Nodes  BY <1>1, <2>1
  <2> DEFINE two == <<kids[1], kids[2]>>
  <2> DEFINE third == Optional(kids[3])
  <2>5. two \in Seq(Nodes) /\ Len(two) = 2 /\ two[1] = kids[1] /\ two[2] = kids[2]  BY <2>4
  <2>6. third \in Seq(Nodes) /\ (third = <<>> \/ third = <<kids[3]>>)  BY <1>2, <2>1
  <2>7. Len(third) \in {0, 1} /\ \A k \in 1..Len(third) : k = 1 /\ third[k] = kids[3]  BY <2>6
  <2> HIDE DEF kids, two, third
  <2>8. /\ two \o third \in Seq(Nodes) /\ Len(two \o third) = Len(two) + Len(third)
        /\ \A k \in 1..(Len(two) + Len(third)) :
             (two \o third)[k] = IF k <= Len(two) THEN two[k] ELSE third[k - Len(two)]
    BY <2>5, <2>6, ConcatProperties
  <2>9. ASSUME NEW k \in 1..Len(two \o third)
        PROVE  \E m \in 1..Len(kids) : (two \o third)[k] = kids[m]
    <3>1. k \in {1, 2} => (two \o third)[k] = kids[k]  BY <2>5, <2>7, <2>8
    <3>2. k \notin {1, 2} => k = 3 /\ (two \o third)[k] = kids[3]  BY <2>5, <2>7, <2>8
    <3> QED  BY <2>1, <3>1, <3>2
  <2>10. Children(n) = two \o third  BY <2>2 DEF two, third
  <2>11. Len(two \o third) \in Nat  BY <2>5, <2>7, <2>8
  <2> QED  BY <1>4, <2>8, <2>9, <2>10, <2>11 DEF kids
<1>5. CASE TypeOf(n) \in {"ASSIGN_EXPR", "CALL_EXPR"}
  <2>1. Len(kids) >= 1
    <3>1. CASE TypeOf(n) = "ASSIGN_EXPR"
      <4>1. Arity("ASSIGN_EXPR", Len(kids))  BY <3>1, NodeFacts
      <4> HIDE DEF kids
      <4> QED  BY <4>1 DEF Arity
    <3>2. CASE TypeOf(n) = "CALL_EXPR"
      <4>1. Arity("CALL_EXPR", Len(kids))  BY <3>2, NodeFacts
      <4> HIDE DEF kids
      <4> QED  BY <4>1 DEF Arity
    <3> QED  BY <1>5, <3>1, <3>2
  <2>2. Children(n) = Tail(kids)  BY <1>5 DEF Children
  <2>3. /\ Tail(kids) \in Seq(Nodes) /\ Len(Tail(kids)) = Len(kids) - 1
        /\ \A k \in 1..(Len(kids) - 1) : Tail(kids)[k] = kids[k + 1]
    BY <1>1, <2>1
  <2> QED  BY <1>1, <1>5, <2>1, <2>2, <2>3
<1>6. CASE TypeOf(n) \notin {"VAR_STAT", "RETURN_STAT", "IF_STAT", "ASSIGN_EXPR", "CALL_EXPR"}
  <2>1. Children(n) = kids  BY <1>6 DEF Children
  <2> QED  BY <1>1, <2>1
<1> QED  BY <1>3, <1>4, <1>5, <1>6

-----------------------------------------------------------------------------
(***************************************************************************)
(* Scopes.                                                                 *)
(***************************************************************************)
SlotType == [name : Names, type : TypeType, value : Value]
EntryType == [name : TypeNames, type : TypeType]

LEMMA TypeFacts ==
  /\ NoType \in TypeType
  /\ \A vt \in ValueTypes, ts \in Seq(STRING) : Type(vt, ts) \in TypeType
  /\ \A vt \in ValueTypes : Numeric(vt) \in TypeType
  /\ \A type \in TypeType : type.vt \in ValueTypes /\ type.types \in Seq(STRING)
<1>1. <<>> \in Seq(STRING)  OBVIOUS
<1>2. "none" \in ValueTypes  BY DEF ValueTypes
<1> QED  BY <1>1, <1>2 DEF NoType, Type, Numeric, TypeType

LEMMA ScopeFacts ==
  ASSUME NEW scope \in SemScopeType
  PROVE  /\ scope.vars \in Seq(SlotType) /\ Len(scope.vars) \in Nat
         /\ scope.types \in Seq(EntryType) /\ Len(scope.types) \in Nat
         /\ scope = [vars |-> scope.vars, types |-> scope.types]
<1>1. scope.vars \in Seq(SlotType) /\ scope.types \in Seq(EntryType)
  BY DEF SemScopeType, SlotType, EntryType
<1> QED  BY <1>1 DEF SemScopeType

LEMMA ScopeMade ==
  ASSUME NEW vars \in Seq(SlotType), NEW types \in Seq(EntryType)
  PROVE  [vars |-> vars, types |-> types] \in SemScopeType
  BY DEF SemScopeType, SlotType, EntryType

\* What a scope's types are made of depends on the tables up to it only.
LEMMA ResolvedSame ==
  ASSUME NEW s \in Nat \ {0}, NEW ss, NEW tt, ResolvedAt(ss, s),
         \A outer \in 1..s : tt[outer].types = ss[outer].types
  PROVE  ResolvedAt(tt, s)
<1>1. tt[s].types = ss[s].types  OBVIOUS
<1>2. \A outer \in 1..s : NamesIn(tt[outer].types) = NamesIn(ss[outer].types)  OBVIOUS
<1> QED  BY <1>1, <1>2 DEF ResolvedAt

\* The first entry of a name is an entry of that name.
LEMMA FirstFacts ==
  ASSUME NEW S, NEW entries \in Seq(S), NEW x, Places(entries, x) # {}
  PROVE  /\ First(entries, x) \in S
         /\ Min(Places(entries, x)) \in 1..Len(entries)
         /\ First(entries, x).name = x
<1>1. Len(entries) \in Nat /\ Places(entries, x) \in SUBSET (1..Len(entries))
  BY DEF Places
<1>2. Min(Places(entries, x)) \in Places(entries, x)  BY <1>1, MinExists
<1> QED  BY <1>2 DEF First, Places

LEMMA TypeFound ==
  ASSUME chain \in Seq(SemScopeType), NEW T
  PROVE  /\ scope_get_type(T) \in TypeType
         /\ scope_get_type(T) # NoType =>
              \E s \in 1..Len(chain) : T \in NamesIn(chain[s].types)
<1>1. CASE Typing(T) = {}
  BY <1>1, TypeFacts DEF scope_get_type
<1>2. CASE Typing(T) # {}
  <2> DEFINE s == Max(Typing(T))
  <2>1. Len(chain) \in Nat /\ Typing(T) \in SUBSET (1..Len(chain))  BY DEF Typing
  <2>2. s \in Typing(T)  BY <1>2, <2>1, MaxExists
  <2>3. s \in 1..Len(chain) /\ Places(chain[s].types, T) # {}  BY <2>2 DEF Typing
  <2>4. chain[s] \in SemScopeType  BY <2>3
  <2>5. chain[s].types \in Seq(EntryType)  BY <2>4, ScopeFacts
  <2>6. First(chain[s].types, T) \in EntryType  BY <2>3, <2>5, FirstFacts
  <2>7. scope_get_type(T) = First(chain[s].types, T).type  BY <1>2 DEF scope_get_type
  <2>8. scope_get_type(T) \in TypeType  BY <2>6, <2>7 DEF EntryType
  <2>9. T \in NamesIn(chain[s].types)  BY <2>3 DEF Places, NamesIn
  <2> QED  BY <2>3, <2>8, <2>9
<1> QED  BY <1>1, <1>2

LEMMA CalleeFound ==
  ASSUME chain \in Seq(SemScopeType), NEW n
  PROVE  Callee(n) \in TypeType
BY TypeFound, TypeFacts DEF Callee

LEMMA VarFound ==
  ASSUME chain \in Seq(SemScopeType), NEW x, scope_get_var(x).t # "none"
  PROVE  Found(x).type \in TypeType
<1>1. Holding(x) # {}  BY DEF scope_get_var, None, Zero
<1> DEFINE s == Max(Holding(x))
<1>2. Len(chain) \in Nat /\ Holding(x) \in SUBSET (1..Len(chain))  BY DEF Holding
<1>3. s \in Holding(x)  BY <1>1, <1>2, MaxExists
<1>4. s \in 1..Len(chain) /\ Places(chain[s].vars, x) # {}  BY <1>3 DEF Holding
<1>5. chain[s] \in SemScopeType  BY <1>4
<1>6. chain[s].vars \in Seq(SlotType)  BY <1>5, ScopeFacts
<1>7. First(chain[s].vars, x) \in SlotType  BY <1>4, <1>6, FirstFacts
<1> QED  BY <1>7 DEF Found, SlotType

LEMMA NamesAppended ==
  ASSUME NEW S, NEW entries \in Seq(S), NEW e \in S
  PROVE  NamesIn(Append(entries, e)) = NamesIn(entries) \cup {e.name}
<1>1. /\ Len(Append(entries, e)) = Len(entries) + 1 /\ Len(entries) \in Nat
      /\ \A k \in 1..Len(entries) : Append(entries, e)[k] = entries[k]
      /\ Append(entries, e)[Len(entries) + 1] = e
  OBVIOUS
<1>2. 1..(Len(entries) + 1) = (1..Len(entries)) \cup {Len(entries) + 1}  BY <1>1
<1> QED  BY <1>1, <1>2 DEF NamesIn

\* A declaration adds its name, and writes into a slot of that name.
LEMMA DeclareFacts ==
  ASSUME NEW scope \in SemScopeType, NEW x \in Names, NEW type \in TypeType
  PROVE  /\ Declare(scope, x, type) \in SemScopeType
         /\ NamesIn(Declare(scope, x, type).vars) = NamesIn(scope.vars) \cup {x}
         /\ Declare(scope, x, type).types = scope.types
<1> DEFINE grown == Append(scope.vars, Slot(x, type, None))
<1> DEFINE d == Min(Places(grown, x))
<1> DEFINE filled == [grown EXCEPT ![d].value = Zero(type.vt)]
<1>1. /\ scope.vars \in Seq(SlotType) /\ Len(scope.vars) \in Nat
      /\ scope.types \in Seq(EntryType)
      /\ scope = [vars |-> scope.vars, types |-> scope.types]
  BY ScopeFacts
<1>2. None \in Value /\ Zero(type.vt) \in Value
  <2>1. "none" \in ValueTypes  BY DEF ValueTypes
  <2> QED  BY <2>1, TypeFacts, ZeroFits DEF None
<1>3. Slot(x, type, None) \in SlotType /\ Slot(x, type, None).name = x
  BY <1>2 DEF Slot, SlotType
<1>4. grown \in Seq(SlotType) /\ Len(grown) = Len(scope.vars) + 1 /\ grown[Len(grown)].name = x
  BY <1>1, <1>3
<1>5. NamesIn(grown) = NamesIn(scope.vars) \cup {x}
  BY <1>1, <1>3, NamesAppended
<1>6. Len(grown) \in Places(grown, x)
  BY <1>1, <1>4 DEF Places
<1> HIDE DEF grown
<1>7. d \in 1..Len(grown)  BY <1>4, <1>6, FirstFacts
<1>8. [grown[d] EXCEPT !.value = Zero(type.vt)] \in SlotType
      /\ [grown[d] EXCEPT !.value = Zero(type.vt)].name = grown[d].name
  <2>1. grown[d] \in SlotType  BY <1>4, <1>7
  <2> QED  BY <1>2, <2>1 DEF SlotType
<1>9. filled = [grown EXCEPT ![d] = [grown[d] EXCEPT !.value = Zero(type.vt)]]
  OBVIOUS
<1> HIDE DEF d
<1>10. /\ filled \in Seq(SlotType) /\ Len(filled) = Len(grown)
       /\ \A k \in 1..Len(grown) : filled[k].name = grown[k].name
  <2> DEFINE slot == [grown[d] EXCEPT !.value = Zero(type.vt)]
  <2>1. slot \in SlotType /\ slot.name = grown[d].name  BY <1>8
  <2>2. filled = [grown EXCEPT ![d] = slot]  BY <1>9
  <2> HIDE DEF slot, filled
  <2>3. /\ filled \in Seq(SlotType) /\ Len(filled) = Len(grown)
        /\ \A k \in 1..Len(grown) : filled[k] = IF k = d THEN slot ELSE grown[k]
    BY <1>4, <1>7, <2>1, <2>2, ExceptSeq
  <2> QED  BY <2>1, <2>3
<1> HIDE DEF filled
<1>11. NamesIn(filled) = NamesIn(grown)  BY <1>10 DEF NamesIn
<1>12. Declare(scope, x, type) = [scope EXCEPT !.vars = filled]
  BY DEF Declare, filled, grown, d
<1>13. Declare(scope, x, type) = [vars |-> filled, types |-> scope.types]
  BY <1>1, <1>12
<1> QED  BY <1>1, <1>5, <1>10, <1>11, <1>13, ScopeMade

\* The scope of a function declares its parameters.
LEMMA ParametersFacts ==
  ASSUME chain \in Seq(SemScopeType), NEW fn \in Nodes, TypeOf(fn) = "FUNC_STAT"
  PROVE  /\ Parameters(fn) \in SemScopeType
         /\ NamesIn(Parameters(fn).vars) = ParamsOf(fn)
         /\ Parameters(fn).types = <<>>
<1> DEFINE params == NodeData[fn].params
<1> DEFINE ts == NodeData[fn].types
<1> DEFINE value(k) ==
      LET same == {j \in 1..Len(params) : params[j] = params[k]} IN
      IF k = Min(same) THEN Zero(scope_get_type(ts[Max(same)]).vt) ELSE None
<1> DEFINE vars == [k \in 1..Len(params) |-> Slot(params[k], scope_get_type(ts[k]), value(k))]
<1>1. params \in Seq(Names) /\ Len(params) \in Nat  BY NodeFacts
<1>2. ASSUME NEW k \in 1..Len(params)
      PROVE  value(k) \in Value
  <2>1. "none" \in ValueTypes  BY DEF ValueTypes
  <2>2. \A T : scope_get_type(T).vt \in ValueTypes  BY TypeFound, TypeFacts
  <2> QED  BY <2>1, <2>2, ZeroFits DEF None
<1> HIDE DEF value
<1>3. ASSUME NEW k \in 1..Len(params)
      PROVE  vars[k] \in SlotType /\ vars[k].name = params[k]
  <2>1. params[k] \in Names  BY <1>1
  <2> QED  BY <1>2, <2>1, TypeFound DEF Slot, SlotType
<1>4. Parameters(fn) = [SubScope EXCEPT !.vars = vars]
  BY DEF Parameters, value
<1>5. DOMAIN vars = 1..Len(params)  OBVIOUS
<1>a. vars = [k \in 1..Len(params) |-> vars[k]]  OBVIOUS
<1> HIDE DEF vars, params
<1>6. vars \in Seq(SlotType)  BY <1>1, <1>3, <1>a
<1>7. Len(vars) = Len(params)  BY <1>1, <1>5, <1>6
<1>8. NamesIn(vars) = {params[k] : k \in 1..Len(params)}  BY <1>3, <1>7 DEF NamesIn
<1>9. Parameters(fn) = [vars |-> vars, types |-> <<>>]  BY <1>4 DEF SubScope
<1>10. <<>> \in Seq(EntryType)  OBVIOUS
<1>11. Parameters(fn) \in SemScopeType  BY <1>6, <1>9, <1>10, ScopeMade
<1>12. ParamsOf(fn) = {params[k] : k \in 1..Len(params)}  BY DEF ParamsOf, params
<1> QED  BY <1>8, <1>9, <1>11, <1>12

-----------------------------------------------------------------------------
(***************************************************************************)
(* The depth of a sequence of calls: how many of the first n have a scope. *)
(***************************************************************************)
LEMMA DepthFacts ==
  ASSUME NEW q, NEW n \in Nat
  PROVE  /\ Depth(q, n) \in Nat
         /\ Depth(q, 0) = 0
         /\ Depth(q, n + 1) = Depth(q, n) + (IF Open(q[n + 1]) THEN 1 ELSE 0)
<1> DEFINE opened(m) == {k \in 1..m : Open(q[k])}
<1>1. IsFiniteSet(opened(n))
  <2>1. IsFiniteSet(1..n)  BY FS_Interval
  <2> QED  BY <2>1, FS_Subset
<1>2. opened(0) = {}  OBVIOUS
<1>5. /\ \A m : Depth(q, m) = Cardinality(opened(m))
      /\ Cardinality(opened(n)) \in Nat /\ Cardinality(opened(0)) = 0
  <2>1. \A m : Depth(q, m) = Cardinality(opened(m))  BY DEF Depth
  <2> HIDE DEF opened
  <2> QED  BY <1>1, <1>2, <2>1, FS_CardinalityType, FS_EmptySet
<1>3. CASE Open(q[n + 1])
  <2>1. opened(n + 1) = opened(n) \cup {n + 1} /\ n + 1 \notin opened(n)  BY <1>3
  <2>2. Cardinality(opened(n + 1)) = Cardinality(opened(n)) + 1
    <3> HIDE DEF opened
    <3> QED  BY <1>1, <2>1, FS_AddElement
  <2> QED  BY <1>3, <1>5, <2>2
<1>4. CASE ~Open(q[n + 1])
  <2>1. opened(n + 1) = opened(n)  BY <1>4
  <2> QED  BY <1>4, <1>5, <2>1
<1> QED  BY <1>3, <1>4

LEMMA DepthMonotone ==
  ASSUME NEW q, NEW n \in Nat, NEW m \in 0..n
  PROVE  Depth(q, m) <= Depth(q, n)
<1>1. IsFiniteSet({k \in 1..n : Open(q[k])})
  <2>1. IsFiniteSet(1..n)  BY FS_Interval
  <2> QED  BY <2>1, FS_Subset
<1>2. {k \in 1..m : Open(q[k])} \subseteq {k \in 1..n : Open(q[k])}  OBVIOUS
<1> QED  BY <1>1, <1>2, FS_Subset DEF Depth

\* It depends on the frames it counts only.
LEMMA DepthSame ==
  ASSUME NEW q, NEW r, NEW n \in Nat, \A k \in 1..n : Open(q[k]) <=> Open(r[k])
  PROVE  Depth(q, n) = Depth(r, n)
<1>1. {k \in 1..n : Open(q[k])} = {k \in 1..n : Open(r[k])}  OBVIOUS
<1> QED  BY <1>1 DEF Depth

\* The scope a frame was called in lies below its own, and both are live.
LEMMA ScopesOfFrames ==
  ASSUME NEW q, Len(q) \in Nat, NEW ss, Stacked(q, ss), NEW j \in 1..Len(q)
  PROVE  /\ q[j].scope \in 1..Len(ss) /\ q[j].scope <= q[Len(q)].scope
         /\ Open(q[j]) => q[j].scope + 1 \in 1..Len(ss)
         /\ Open(q[j]) /\ j < Len(q) => q[j].scope + 1 <= q[Len(q)].scope
         /\ Len(ss) = q[Len(q)].scope + (IF Open(q[Len(q)]) THEN 1 ELSE 0)
<1> DEFINE N == Len(q)
<1>1. Len(ss) = 1 + Depth(q, N) /\ \A k \in 1..N : q[k].scope = 1 + Depth(q, k - 1)
  BY DEF Stacked
<1>2. j - 1 \in Nat /\ N - 1 \in Nat /\ N \in 1..N /\ j \in 0..N /\ j - 1 \in 0..(N - 1)
  OBVIOUS
<1>3. /\ Depth(q, j - 1) \in Nat /\ Depth(q, j) \in Nat /\ Depth(q, N) \in Nat
      /\ Depth(q, N - 1) \in Nat
  BY <1>2, DepthFacts
<1>4. Depth(q, j) = Depth(q, j - 1) + (IF Open(q[j]) THEN 1 ELSE 0)
  <2>1. j - 1 + 1 = j  BY <1>2
  <2> QED  BY <1>2, <2>1, DepthFacts
<1>5. Depth(q, N) = Depth(q, N - 1) + (IF Open(q[N]) THEN 1 ELSE 0)
  <2>1. N - 1 + 1 = N  BY <1>2
  <2> QED  BY <1>2, <2>1, DepthFacts
<1>6. Depth(q, j) <= Depth(q, N) /\ Depth(q, j - 1) <= Depth(q, N - 1)
  BY <1>2, DepthMonotone
<1>7. j < N => Depth(q, j) <= Depth(q, N - 1)
  <2>1. j < N => j \in 0..(N - 1)  OBVIOUS
  <2> QED  BY <1>2, <2>1, DepthMonotone
<1>8. q[j].scope = 1 + Depth(q, j - 1) /\ q[N].scope = 1 + Depth(q, N - 1)
  BY <1>1, <1>2
<1> HIDE DEF N
<1> QED  BY <1>1, <1>3, <1>4, <1>5, <1>6, <1>7, <1>8, SMTT(40) DEF N

-----------------------------------------------------------------------------
(***************************************************************************)
(* The moves.                                                              *)
(***************************************************************************)
\* The scopes ss are those of chain, the newest with some more names.
Grown(ss, added) ==
  /\ ss \in Seq(SemScopeType) /\ Len(ss) = Len(chain)
  /\ \A s \in 1..Len(chain) :
       NamesIn(ss[s].vars) = NamesIn(chain[s].vars) \cup (IF s = Len(chain) THEN added ELSE {})
  /\ Resolved(ss)

\* The innermost function goes on, through with as many children as before;
\* only the program takes note of a child that failed as well.
Advances(f) ==
  /\ f \in CallType /\ f.node = Caller.node /\ f.scope = Caller.scope
  /\ f.i <= Len(Children(f.node)) /\ f.pc = "visit"
  /\ TypeOf(f.node) = "BLOCK" => f.i = Through(Caller, result.error)
  /\ TypeOf(f.node) = "PROGRAM" => f.i >= Through(Caller, result.error)
  /\ calls' = [calls EXCEPT ![Len(calls)] = f] /\ result' = result /\ errors' = errors
Goes == \E f : Advances(f) /\ (Open(f) <=> Open(Caller)) /\ chain' = chain

\* A block or a function opens its scope.
Enters ==
  /\ Caller.pc = "enter" /\ TypeOf(Caller.node) \in {"BLOCK", "FUNC_STAT"}
  /\ Advances([Caller EXCEPT !.pc = "visit"])
  /\ \E ss, scope :
       /\ Grown(ss, {}) /\ chain' = Append(ss, scope)
       /\ scope \in SemScopeType /\ scope.types = <<>>
       /\ NamesIn(scope.vars) = Declared(Caller.node, 0)

Visits ==
  /\ Caller.pc = "visit" /\ Caller.i < Len(Children(Caller.node))
  /\ Process([Caller EXCEPT !.pc = "child"], Children(Caller.node)[Caller.i + 1])

\* A function other than process_semantics returns; a declaration of a variable
\* that does so without an error has declared it.
Returns ==
  \E ss \in Seq(SemScopeType), type \in TypeType, error \in BOOLEAN :
    /\ TypeOf(Caller.node) # "PROGRAM"
    /\ Grown(ss, IF TypeOf(Caller.node) = "VAR_STAT" /\ ~error
                 THEN {NodeData[Caller.node].name} ELSE {})
    /\ Leave(ss, type, error) /\ errors' \in Seq(Nodes)

Rests == UNCHANGED <<calls, result, chain, errors>>

Moves == Goes \/ Enters \/ Visits \/ Returns \/ Rests

-----------------------------------------------------------------------------
(***************************************************************************)
(* Each move keeps the invariant.                                          *)
(***************************************************************************)
LEMMA CallFacts ==
  ASSUME SemInv
  PROVE  /\ calls \in Seq(CallType) /\ Len(calls) \in Nat /\ Len(calls) >= 1
         /\ Len(calls) \in 1..Len(calls)
         /\ \A j \in 1..Len(calls) : calls[j] \in CallType /\ calls[j].node \in Nodes
                                      /\ calls[j].i \in Nat /\ FrameOK(calls[j])
         /\ Caller = calls[Len(calls)] /\ Caller \in CallType /\ Caller.node \in Nodes
         /\ Caller.i \in Nat /\ Caller.scope \in Nat /\ FrameOK(Caller)
         /\ Here = NodeData[Caller.node] /\ Here.type = TypeOf(Caller.node)
         /\ (TypeOf(Caller.node) = "PROGRAM" <=> Len(calls) = 1)
         /\ result \in [type : TypeType, error : BOOLEAN] /\ result.error \in BOOLEAN
         /\ chain \in Seq(SemScopeType) /\ Len(chain) \in Nat /\ Len(chain) >= 1
         /\ errors \in Seq(Nodes)
<1>1. DataOK /\ Calling(calls) /\ Stacked(calls, chain)  BY DEF SemInv
<1>2. /\ calls \in Seq(CallType) /\ chain \in Seq(SemScopeType) /\ errors \in Seq(Nodes)
      /\ result \in [type : TypeType, error : BOOLEAN]
  BY <1>1 DEF DataOK
<1>3. Len(calls) \in Nat /\ Len(calls) >= 1  BY <1>1, <1>2 DEF Calling
<1>4. Depth(calls, Len(calls)) \in Nat  BY <1>3, DepthFacts
<1>5. Len(chain) \in Nat /\ Len(chain) >= 1  BY <1>1, <1>2, <1>4 DEF Stacked
<1>6. \A j \in 1..Len(calls) : calls[j] \in CallType /\ FrameOK(calls[j])
        /\ (TypeOf(calls[j].node) = "PROGRAM" <=> j = 1)
  BY <1>1, <1>2 DEF Calling
<1>7. \A f \in CallType : f.node \in Nodes /\ f.i \in Nat /\ f.scope \in Nat  BY DEF CallType
<1>8. Len(calls) \in 1..Len(calls)  BY <1>3
<1> QED  BY <1>2, <1>3, <1>5, <1>6, <1>7, <1>8 DEF Caller, Here, TypeOf

\* A frame other than the program's has a caller.
LEMMA CalledByOne ==
  ASSUME SemInv, TypeOf(Caller.node) # "PROGRAM"
  PROVE  Len(calls) > 1
<1> DEFINE N == Len(calls)
<1>1. N \in Nat /\ N >= 1 /\ N # 1  BY CallFacts
<1> HIDE DEF N
<1>2. N > 1  BY <1>1
<1> QED  BY <1>2 DEF N

\* The innermost frame is replaced.
LEMMA ReplacedTop ==
  ASSUME SemInv, NEW f \in CallType, NEW q, q = [calls EXCEPT ![Len(calls)] = f]
  PROVE  /\ q \in Seq(CallType) /\ Len(q) = Len(calls) /\ q[Len(calls)] = f
         /\ \A j \in 1..(Len(calls) - 1) : q[j] = calls[j]
         /\ Depth(q, Len(calls) - 1) = Depth(calls, Len(calls) - 1)
         /\ \A j \in 1..Len(calls) : Depth(q, j - 1) = Depth(calls, j - 1)
         /\ (Open(f) <=> Open(Caller)) => Depth(q, Len(calls)) = Depth(calls, Len(calls))
<1> DEFINE N == Len(calls)
<1>1. calls \in Seq(CallType) /\ N \in Nat /\ N >= 1 /\ N \in 1..N /\ Caller = calls[N]
  BY CallFacts
<1>2. /\ q \in Seq(CallType) /\ Len(q) = N /\ q[N] = f
      /\ \A j \in 1..(N - 1) : q[j] = calls[j]
  <2>1. /\ q \in Seq(CallType) /\ Len(q) = N
        /\ \A j \in 1..N : q[j] = IF j = N THEN f ELSE calls[j]
    BY <1>1, ExceptSeq
  <2> HIDE DEF N
  <2> QED  BY <1>1, <2>1
<1> HIDE DEF N
<1>3. ASSUME NEW j \in 1..N PROVE Depth(q, j - 1) = Depth(calls, j - 1)
  <2>1. j - 1 \in Nat /\ \A k \in 1..(j - 1) : q[k] = calls[k]  BY <1>1, <1>2
  <2> QED  BY <2>1, DepthSame
<1>4. ASSUME Open(f) <=> Open(Caller) PROVE Depth(q, N) = Depth(calls, N)
  <2>1. \A k \in 1..N : Open(q[k]) <=> Open(calls[k])  BY <1>1, <1>2, <1>4
  <2> QED  BY <1>1, <2>1, DepthSame
<1>5. Depth(q, N - 1) = Depth(calls, N - 1)  BY <1>1, <1>3
<1> QED  BY <1>1, <1>2, <1>3, <1>4, <1>5 DEF N

LEMMA VarsFacts ==
  ASSUME NEW n \in Nodes, NEW i \in Nat
  PROVE  /\ i + 1 <= Len(NodeData[n].kids) =>
              VarsUpTo(n, i + 1) =
                VarsUpTo(n, i) \cup (IF TypeOf(NodeData[n].kids[i + 1]) = "VAR_STAT"
                                     THEN {NodeData[NodeData[n].kids[i + 1]].name} ELSE {})
         /\ VarsUpTo(n, 0) = {}
         /\ \A m \in Nat : i <= m => VarsUpTo(n, i) \subseteq VarsUpTo(n, m)
<1> DEFINE kids == NodeData[n].kids
<1>1. 1..(i + 1) = (1..i) \cup {i + 1}  OBVIOUS
<1>2. VarsUpTo(n, i + 1) =
        VarsUpTo(n, i) \cup (IF TypeOf(kids[i + 1]) = "VAR_STAT"
                             THEN {NodeData[kids[i + 1]].name} ELSE {})
  <2> DEFINE vars(m) == {k \in 1..m : TypeOf(kids[k]) = "VAR_STAT"}
  <2>1. vars(i + 1) = vars(i) \cup (IF TypeOf(kids[i + 1]) = "VAR_STAT" THEN {i + 1} ELSE {})
    BY <1>1
  <2>2. VarsUpTo(n, i + 1) = {NodeData[kids[k]].name : k \in vars(i + 1)}
        /\ VarsUpTo(n, i) = {NodeData[kids[k]].name : k \in vars(i)}
    BY DEF VarsUpTo
  <2> HIDE DEF vars
  <2> QED  BY <2>1, <2>2
<1>3. VarsUpTo(n, 0) = {}  BY DEF VarsUpTo
<1>4. \A m \in Nat : i <= m => VarsUpTo(n, i) \subseteq VarsUpTo(n, m)  BY DEF VarsUpTo
<1> QED  BY <1>2, <1>3, <1>4

\* One more child adds its name, if it declares a variable.
LEMMA VarsStep ==
  ASSUME NEW n \in Nodes, NEW i \in Nat, i + 1 <= Len(NodeData[n].kids),
         NEW kid, kid = NodeData[n].kids[i + 1]
  PROVE  VarsUpTo(n, i + 1) =
           VarsUpTo(n, i) \cup (IF TypeOf(kid) = "VAR_STAT" THEN {NodeData[kid].name} ELSE {})
  BY VarsFacts

LEMMA GoesKeeps ==
  ASSUME SemInv, Goes
  PROVE  SemInv'
<1> DEFINE N == Len(calls)
<1>1. PICK f : Advances(f) /\ (Open(f) <=> Open(Caller)) /\ chain' = chain  BY DEF Goes
<1>2. /\ f \in CallType /\ f.node = Caller.node /\ f.scope = Caller.scope
      /\ f.i <= Len(Children(f.node)) /\ f.pc = "visit"
      /\ TypeOf(f.node) = "BLOCK" => f.i = Through(Caller, result.error)
      /\ TypeOf(f.node) = "PROGRAM" => f.i >= Through(Caller, result.error)
      /\ calls' = [calls EXCEPT ![N] = f] /\ result' = result /\ errors' = errors
  BY <1>1 DEF Advances
<1>3. /\ calls \in Seq(CallType) /\ N \in Nat /\ N >= 1 /\ N \in 1..N
      /\ Caller = calls[N] /\ Caller \in CallType /\ Caller.node \in Nodes /\ Caller.i \in Nat
  BY CallFacts
<1>4. /\ calls' \in Seq(CallType) /\ Len(calls') = N /\ calls'[N] = f
      /\ \A j \in 1..(N - 1) : calls'[j] = calls[j]
      /\ \A j \in 1..N : Depth(calls', j - 1) = Depth(calls, j - 1)
      /\ Depth(calls', N) = Depth(calls, N)
  BY <1>1, <1>2, ReplacedTop
<1>5. DataOK /\ Calling(calls) /\ Stacked(calls, chain) /\ Resolved(chain)
      /\ ByTheText(calls, result.error, chain)
  BY DEF SemInv
<1>6. DataOK'  BY <1>1, <1>2, <1>4, <1>5 DEF DataOK
<1>7. Calling(calls')
  <2>1. FrameOK(f)  BY <1>2 DEF FrameOK
  <2>2. \A j \in 1..N : j = N \/ j \in 1..(N - 1)  BY <1>3
  <2>3. \A j \in 1..N : FrameOK(calls'[j]) /\ calls'[j].node = calls[j].node
    BY <1>2, <1>3, <1>4, <1>5, <2>1, <2>2 DEF Calling
  <2>4. ASSUME NEW j \in 1..(N - 1)
        PROVE  Waiting(calls'[j]) /\ calls'[j + 1].node = Children(calls'[j].node)[calls'[j].i + 1]
    <3>1. calls'[j] = calls[j] /\ j + 1 \in 1..N  BY <1>3, <1>4
    <3> QED  BY <1>5, <2>3, <3>1 DEF Calling
  <2> HIDE DEF N
  <2> QED  BY <1>3, <1>4, <1>5, <2>3, <2>4 DEF Calling, N
<1>8. Stacked(calls', chain')
  <2>1. \A j \in 1..N : calls'[j].scope = calls[j].scope
    <3>1. \A j \in 1..N : j = N \/ j \in 1..(N - 1)  BY <1>3
    <3> QED  BY <1>2, <1>3, <1>4, <3>1
  <2> HIDE DEF N
  <2> QED  BY <1>1, <1>4, <1>5, <2>1 DEF Stacked, N
<1>9. ByTheText(calls', result'.error, chain')
  <2>1. Through(f, result.error) = f.i  BY <1>2 DEF Through
  <2>2. ASSUME NEW j \in 1..N, Open(calls'[j])
        PROVE  NamesIn(chain[calls'[j].scope + 1].vars)
                 = Declared(calls'[j].node, PassedIn(calls', result.error, j))
    <3>1. CASE j # N
      <4>1. calls'[j] = calls[j] /\ j \in 1..(N - 1)  BY <1>3, <1>4, <3>1
      <4>2. PassedIn(calls', result.error, j) = PassedIn(calls, result.error, j)
        BY <1>4, <3>1, <4>1 DEF PassedIn
      <4> QED  BY <1>5, <2>2, <4>1, <4>2 DEF ByTheText
    <3>2. CASE j = N
      <4>1. Open(Caller)  BY <1>1, <1>4, <2>2, <3>2
      <4>2. NamesIn(chain[f.scope + 1].vars)
              = Declared(Caller.node, Through(Caller, result.error))
        BY <1>2, <1>3, <1>5, <4>1 DEF ByTheText, PassedIn
      <4>3. Declared(f.node, f.i) = Declared(Caller.node, Through(Caller, result.error))
        BY <1>2 DEF Declared
      <4> QED  BY <1>4, <2>1, <3>2, <4>2, <4>3 DEF PassedIn
    <3> QED  BY <3>1, <3>2
  <2>3. NamesIn(chain[1].vars)
          \subseteq Preloaded \cup VarsUpTo(calls'[1].node, PassedIn(calls', result.error, 1))
    <3>1. CASE N = 1
      <4>1. TypeOf(Caller.node) = "PROGRAM"  BY <3>1, CallFacts
      <4>2. VarsUpTo(Caller.node, Through(Caller, result.error)) \subseteq VarsUpTo(f.node, f.i)
        <5>1. f.i \in Nat  BY <1>2 DEF CallType
        <5>2. Through(Caller, result.error) \in Nat  BY <1>3 DEF Through
        <5> QED  BY <1>2, <1>3, <4>1, <5>1, <5>2, VarsFacts
      <4> QED  BY <1>2, <1>3, <1>4, <1>5, <2>1, <3>1, <4>2 DEF ByTheText, PassedIn
    <3>2. CASE N # 1
      <4>1. calls'[1] = calls[1]  BY <1>3, <1>4, <3>2
      <4> QED  BY <1>4, <1>5, <3>2, <4>1 DEF ByTheText, PassedIn
    <3> QED  BY <3>1, <3>2
  <2> HIDE DEF N
  <2> QED  BY <1>1, <1>2, <1>4, <2>2, <2>3 DEF ByTheText, N
<1>10. Resolved(chain')  BY <1>1, <1>5
<1> QED  BY <1>6, <1>7, <1>8, <1>9, <1>10 DEF SemInv

LEMMA EntersKeeps ==
  ASSUME SemInv, Enters
  PROVE  SemInv'
<1> DEFINE N == Len(calls)
<1> DEFINE f == [Caller EXCEPT !.pc = "visit"]
<1>1. /\ Caller.pc = "enter" /\ TypeOf(Caller.node) \in {"BLOCK", "FUNC_STAT"}
      /\ Advances(f)
  BY DEF Enters
<1>2. PICK ss, scope :
        /\ Grown(ss, {}) /\ chain' = Append(ss, scope)
        /\ scope \in SemScopeType /\ scope.types = <<>>
        /\ NamesIn(scope.vars) = Declared(Caller.node, 0)
  BY DEF Enters
<1>3. /\ calls \in Seq(CallType) /\ N \in Nat /\ N >= 1 /\ N \in 1..N
      /\ Caller = calls[N] /\ Caller \in CallType /\ Caller.node \in Nodes /\ Caller.i \in Nat
      /\ FrameOK(Caller) /\ (TypeOf(Caller.node) = "PROGRAM" <=> N = 1)
      /\ chain \in Seq(SemScopeType) /\ Len(chain) \in Nat /\ Len(chain) >= 1
  BY CallFacts
<1>4. /\ f \in CallType /\ f.node = Caller.node /\ f.scope = Caller.scope /\ f.pc = "visit"
      /\ f.i = Caller.i /\ Caller.i = 0 /\ f.i <= Len(Children(f.node))
      /\ calls' = [calls EXCEPT ![N] = f] /\ result' = result /\ errors' = errors
  <2>1. f.i = Caller.i /\ f.pc = "visit" /\ f.node = Caller.node  BY <1>3 DEF CallType
  <2>2. Caller.i = 0  BY <1>1, <1>3 DEF FrameOK
  <2> QED  BY <1>1, <2>1, <2>2 DEF Advances
<1>5. Open(f) /\ ~Open(Caller)  BY <1>1, <1>4 DEF Open
<1> HIDE DEF f
<1>6. /\ calls' \in Seq(CallType) /\ Len(calls') = N /\ calls'[N] = f
      /\ \A j \in 1..(N - 1) : calls'[j] = calls[j]
      /\ \A j \in 1..N : Depth(calls', j - 1) = Depth(calls, j - 1)
  <2>1. calls' = [calls EXCEPT ![Len(calls)] = f]  BY <1>4
  <2>2. f \in CallType  BY <1>4
  <2> DEFINE q == calls'
  <2>3. q = [calls EXCEPT ![Len(calls)] = f]  BY <2>1
  <2> HIDE DEF q
  <2>4. /\ q \in Seq(CallType) /\ Len(q) = Len(calls) /\ q[Len(calls)] = f
        /\ \A j \in 1..(Len(calls) - 1) : q[j] = calls[j]
        /\ \A j \in 1..Len(calls) : Depth(q, j - 1) = Depth(calls, j - 1)
    BY <2>2, <2>3, ReplacedTop, ZenonT(40)
  <2> QED  BY <2>4 DEF q, N
<1>7. DataOK /\ Calling(calls) /\ Stacked(calls, chain) /\ Resolved(chain)
      /\ ByTheText(calls, result.error, chain)
  BY DEF SemInv
<1>8. /\ ss \in Seq(SemScopeType) /\ Len(ss) = Len(chain) /\ Resolved(ss)
      /\ \A s \in 1..Len(chain) : NamesIn(ss[s].vars) = NamesIn(chain[s].vars)
  BY <1>2 DEF Grown
<1>9. /\ chain' \in Seq(SemScopeType) /\ Len(chain') = Len(chain) + 1
      /\ \A s \in 1..Len(chain) : chain'[s] = ss[s]
      /\ chain'[Len(chain) + 1] = scope
  BY <1>2, <1>3, <1>8
<1>10. DataOK'  BY <1>4, <1>6, <1>7, <1>9 DEF DataOK
<1>11. Calling(calls')
  <2>1. FrameOK(f)  BY <1>4 DEF FrameOK
  <2>2. \A j \in 1..N : j = N \/ j \in 1..(N - 1)  BY <1>3
  <2>3. \A j \in 1..N : FrameOK(calls'[j]) /\ calls'[j].node = calls[j].node
    BY <1>3, <1>4, <1>6, <1>7, <2>1, <2>2 DEF Calling
  <2>4. ASSUME NEW j \in 1..(N - 1)
        PROVE  Waiting(calls'[j]) /\ calls'[j + 1].node = Children(calls'[j].node)[calls'[j].i + 1]
    <3>1. calls'[j] = calls[j] /\ j + 1 \in 1..N  BY <1>3, <1>6
    <3> QED  BY <1>7, <2>3, <3>1 DEF Calling
  <2> HIDE DEF N
  <2> QED  BY <1>3, <1>6, <1>7, <2>3, <2>4 DEF Calling, N
<1>12. Stacked(calls', chain')
  <2>1. Depth(calls', N) = Depth(calls, N) + 1
    <3>1. N - 1 \in Nat /\ N - 1 + 1 = N  BY <1>3
    <3>2. Depth(calls', N) = Depth(calls', N - 1) + 1  BY <1>5, <1>6, <3>1, DepthFacts
    <3>3. Depth(calls, N) = Depth(calls, N - 1) + 0  BY <1>3, <1>5, <3>1, DepthFacts
    <3>4. Depth(calls, N - 1) \in Nat /\ Depth(calls', N - 1) = Depth(calls, N - 1)
      BY <1>3, <1>6, <3>1, DepthFacts
    <3> QED  BY <3>2, <3>3, <3>4
  <2>2. \A j \in 1..N : calls'[j].scope = calls[j].scope
    <3>1. \A j \in 1..N : j = N \/ j \in 1..(N - 1)  BY <1>3
    <3> QED  BY <1>3, <1>4, <1>6, <3>1
  <2>3. Depth(calls, N) \in Nat  BY <1>3, DepthFacts
  <2> HIDE DEF N
  <2> QED  BY <1>6, <1>7, <1>9, <2>1, <2>2, <2>3 DEF Stacked, N
<1>13. Len(chain) = Caller.scope
  BY <1>3, <1>5, <1>7, ScopesOfFrames
<1>14. ByTheText(calls', result'.error, chain')
  <2>1. ASSUME NEW j \in 1..N, Open(calls'[j])
        PROVE  NamesIn(chain'[calls'[j].scope + 1].vars)
                 = Declared(calls'[j].node, PassedIn(calls', result.error, j))
    <3>1. CASE j # N
      <4>1. calls'[j] = calls[j] /\ j \in 1..(N - 1) /\ Open(calls[j])
        <5>1. j \in 1..(N - 1)  BY <1>3, <3>1
        <5>2. calls'[j] = calls[j]  BY <1>6, <5>1
        <5> QED  BY <2>1, <5>1, <5>2
      <4>2. PassedIn(calls', result.error, j) = PassedIn(calls, result.error, j)
        BY <1>6, <3>1, <4>1 DEF PassedIn
      <4>3. calls[j].scope + 1 \in 1..Len(chain)  BY <1>3, <1>7, <4>1, ScopesOfFrames
      <4>4. NamesIn(chain'[calls[j].scope + 1].vars) = NamesIn(chain[calls[j].scope + 1].vars)
        BY <1>8, <1>9, <4>3
      <4> QED  BY <1>7, <4>1, <4>2, <4>4 DEF ByTheText
    <3>2. CASE j = N
      <4>1. calls'[j].scope + 1 = Len(chain) + 1  BY <1>4, <1>6, <1>13, <3>2
      <4>2. PassedIn(calls', result.error, j) = 0  BY <1>4, <1>6, <3>2 DEF PassedIn, Through
      <4> QED  BY <1>2, <1>4, <1>6, <1>9, <3>2, <4>1, <4>2
    <3> QED  BY <3>1, <3>2
  <2>2. NamesIn(chain'[1].vars)
          \subseteq Preloaded \cup VarsUpTo(calls'[1].node, PassedIn(calls', result.error, 1))
    <3>1. N # 1  BY <1>1, <1>3
    <3>2. calls'[1] = calls[1]  BY <1>3, <1>6, <3>1
    <3>3. 1 \in 1..Len(chain)  BY <1>3
    <3> QED  BY <1>6, <1>7, <1>8, <1>9, <3>1, <3>2, <3>3 DEF ByTheText, PassedIn
  <2> HIDE DEF N
  <2> QED  BY <1>4, <1>6, <2>1, <2>2 DEF ByTheText, N
<1>15. Resolved(chain')
  <2>1. \A s \in 1..Len(chain') : s \in 1..Len(chain) \/ s = Len(chain) + 1  BY <1>3, <1>9
  <2>2. ASSUME NEW s \in 1..Len(chain') PROVE ResolvedAt(chain', s)
    <3>1. CASE s = Len(chain) + 1
      BY <1>2, <1>9, <3>1 DEF ResolvedAt
    <3>2. CASE s \in 1..Len(chain)
      <4>1. s \in Nat \ {0} /\ \A outer \in 1..s : chain'[outer].types = ss[outer].types
        BY <1>3, <1>9, <3>2
      <4>2. ResolvedAt(ss, s)  BY <1>8, <3>2 DEF Resolved
      <4> QED  BY <4>1, <4>2, ResolvedSame
    <3> QED  BY <2>1, <3>1, <3>2
  <2> QED  BY <2>2 DEF Resolved
<1> QED  BY <1>10, <1>11, <1>12, <1>14, <1>15 DEF SemInv

LEMMA VisitsKeeps ==
  ASSUME SemInv, Visits
  PROVE  SemInv'
<1> DEFINE N == Len(calls)
<1> DEFINE f == [Caller EXCEPT !.pc = "child"]
<1> DEFINE child == Children(Caller.node)[Caller.i + 1]
<1> DEFINE new == NewCall(child, Len(chain))
<1> DEFINE q == [calls EXCEPT ![N] = f]
<1>1. /\ Caller.pc = "visit" /\ Caller.i < Len(Children(Caller.node))
      /\ calls' = Append(q, new) /\ UNCHANGED <<result, chain, errors>>
  BY DEF Visits, Process
<1>2. /\ calls \in Seq(CallType) /\ N \in Nat /\ N >= 1 /\ N \in 1..N
      /\ Caller = calls[N] /\ Caller \in CallType /\ Caller.node \in Nodes /\ Caller.i \in Nat
      /\ FrameOK(Caller) /\ Len(chain) \in Nat
  BY CallFacts
<1>3. /\ f \in CallType /\ f.node = Caller.node /\ f.scope = Caller.scope /\ f.pc = "child"
      /\ f.i = Caller.i /\ (Open(f) <=> Open(Caller)) /\ Waiting(f) /\ FrameOK(f)
  <2>1. /\ f \in CallType /\ f.node = Caller.node /\ f.scope = Caller.scope /\ f.pc = "child"
        /\ f.i = Caller.i
    BY <1>2 DEF CallType
  <2> HIDE DEF f
  <2> QED  BY <1>1, <1>2, <2>1 DEF Open, Waiting, FrameOK
<1>4. child \in Nodes /\ TypeOf(child) # "PROGRAM"
  <2>1. Caller.i + 1 \in 1..Len(Children(Caller.node))  BY <1>1, <1>2, ChildrenFacts
  <2>2. PICK m \in 1..Len(NodeData[Caller.node].kids) : child = NodeData[Caller.node].kids[m]
    BY <1>2, <2>1, ChildrenFacts
  <2> QED  BY <1>2, <2>2, NodeFacts
<1> HIDE DEF child
<1>5. /\ new \in CallType /\ new.node = child /\ new.scope = Len(chain) /\ new.i = 0
      /\ ~Open(new) /\ FrameOK(new)
  <2>1. Len(Children(child)) \in Nat  BY <1>4, ChildrenFacts
  <2>2. /\ new.node = child /\ new.scope = Len(chain) /\ new.i = 0
        /\ new.pc = IF TypeOf(child) \in Prepared THEN "enter" ELSE "visit"
    BY DEF NewCall
  <2>3. new \in CallType  BY <1>2, <1>4, TypeFacts DEF NewCall, CallType
  <2> HIDE DEF new
  <2> QED  BY <2>1, <2>2, <2>3 DEF Open, FrameOK, Prepared
<1> HIDE DEF f, new
<1>6. /\ q \in Seq(CallType) /\ Len(q) = N /\ q[N] = f
      /\ \A j \in 1..(N - 1) : q[j] = calls[j]
      /\ \A j \in 1..N : Depth(q, j - 1) = Depth(calls, j - 1)
      /\ Depth(q, N) = Depth(calls, N)
  <2>1. q = [calls EXCEPT ![Len(calls)] = f]  OBVIOUS
  <2> HIDE DEF q
  <2> QED  BY <1>3, <2>1, ReplacedTop
<1> HIDE DEF q
<1>7. /\ calls' \in Seq(CallType) /\ Len(calls') = N + 1 /\ calls'[N + 1] = new
      /\ \A j \in 1..N : calls'[j] = q[j]
  BY <1>1, <1>2, <1>5, <1>6
<1>8. \A j \in 1..(N + 1) : j \in 1..(N - 1) \/ j = N \/ j = N + 1  BY <1>2
<1>9. /\ calls'[N] = f
      /\ \A j \in 1..(N - 1) : calls'[j] = calls[j]
      /\ \A j \in 1..N : calls'[j].node = calls[j].node /\ calls'[j].i = calls[j].i
                          /\ calls'[j].scope = calls[j].scope
                          /\ (Open(calls'[j]) <=> Open(calls[j]))
  <2>1. N \in 1..N /\ \A j \in 1..(N - 1) : j \in 1..N  BY <1>2
  <2>2. calls'[N] = f /\ \A j \in 1..(N - 1) : calls'[j] = calls[j]  BY <1>6, <1>7, <2>1
  <2>3. \A j \in 1..N : j \in 1..(N - 1) \/ j = N  BY <1>2
  <2> QED  BY <1>2, <1>3, <2>2, <2>3
<1>10. DataOK /\ Calling(calls) /\ Stacked(calls, chain) /\ Resolved(chain)
      /\ ByTheText(calls, result.error, chain)
  BY DEF SemInv
<1>11. DataOK'  BY <1>1, <1>7, <1>10 DEF DataOK
<1>12. Calling(calls')
  <2>1. ASSUME NEW j \in 1..(N + 1)
        PROVE  FrameOK(calls'[j]) /\ (TypeOf(calls'[j].node) = "PROGRAM" <=> j = 1)
    <3>1. CASE j \in 1..(N - 1)  BY <1>2, <1>9, <1>10, <3>1 DEF Calling
    <3>2. CASE j = N  BY <1>2, <1>3, <1>9, <1>10, <3>2 DEF Calling
    <3>3. CASE j = N + 1  BY <1>2, <1>4, <1>5, <1>7, <3>3
    <3> QED  BY <1>8, <3>1, <3>2, <3>3
  <2>2. ASSUME NEW j \in 1..N
        PROVE  Waiting(calls'[j]) /\ calls'[j + 1].node = Children(calls'[j].node)[calls'[j].i + 1]
    <3>1. CASE j = N
      BY <1>3, <1>5, <1>7, <1>9, <3>1 DEF child
    <3>2. CASE j # N
      <4>1. j \in 1..(N - 1) /\ j + 1 \in 1..N  BY <1>2, <3>2
      <4> QED  BY <1>9, <1>10, <4>1 DEF Calling
    <3> QED  BY <3>1, <3>2
  <2>3. Len(calls') - 1 = N /\ Len(calls') >= 1  BY <1>2, <1>7
  <2> HIDE DEF N
  <2> QED  BY <1>7, <2>1, <2>2, <2>3 DEF Calling
<1>13. Stacked(calls', chain')
  <2>1. \A n \in 0..N : Depth(calls', n) = Depth(q, n)
    <3>1. ASSUME NEW n \in 0..N PROVE Depth(calls', n) = Depth(q, n)
      <4>1. n \in Nat /\ \A k \in 1..n : Open(calls'[k]) <=> Open(q[k])  BY <1>2, <1>7
      <4> QED  BY <4>1, DepthSame
    <3> QED  BY <3>1
  <2>2. Depth(calls', N) = Depth(calls, N) /\ Depth(calls, N) \in Nat
    BY <1>2, <1>6, <2>1, DepthFacts
  <2>3. Depth(calls', N + 1) = Depth(calls, N)
    <3>1. Depth(calls', N + 1) = Depth(calls', N) + 0  BY <1>2, <1>5, <1>7, DepthFacts
    <3> QED  BY <2>2, <3>1
  <2>4. Len(chain) = 1 + Depth(calls, N) /\ \A j \in 1..N : calls[j].scope = 1 + Depth(calls, j - 1)
    BY <1>10 DEF Stacked
  <2>5. ASSUME NEW j \in 1..N PROVE calls'[j].scope = 1 + Depth(calls', j - 1)
    <3>1. j - 1 \in 0..N  BY <1>2
    <3> QED  BY <1>6, <1>9, <2>1, <2>4, <3>1
  <2>6. calls'[N + 1].scope = 1 + Depth(calls', N + 1 - 1)
    <3>1. N + 1 - 1 = N  BY <1>2
    <3> QED  BY <1>5, <1>7, <2>2, <2>4, <3>1
  <2>7. \A j \in 1..(N + 1) : j \in 1..N \/ j = N + 1  BY <1>2
  <2>8. \A j \in 1..(N + 1) : calls'[j].scope = 1 + Depth(calls', j - 1)
    BY <2>5, <2>6, <2>7
  <2>9. Len(chain') = 1 + Depth(calls', N + 1) /\ Len(calls') = N + 1  BY <1>1, <1>7, <2>3, <2>4
  <2> HIDE DEF N
  <2> QED  BY <2>8, <2>9 DEF Stacked
<1>14. ByTheText(calls', result'.error, chain')
  <2>1. ASSUME NEW j \in 1..N
        PROVE  PassedIn(calls', result.error, j) = PassedIn(calls, result.error, j)
    <3>1. j # N + 1  BY <1>2
    <3>2. PassedIn(calls', result.error, j) = calls[j].i  BY <1>7, <1>9, <3>1 DEF PassedIn
    <3>3. PassedIn(calls, result.error, j) = calls[j].i
      BY <1>1, <1>2 DEF PassedIn, Through
    <3> QED  BY <3>2, <3>3
  <2>2. ASSUME NEW j \in 1..(N + 1), Open(calls'[j])
        PROVE  NamesIn(chain[calls'[j].scope + 1].vars)
                 = Declared(calls'[j].node, PassedIn(calls', result.error, j))
    <3>1. j \in 1..N
      <4>1. j # N + 1  BY <1>5, <1>7, <2>2
      <4> QED  BY <1>2, <4>1
    <3> QED  BY <1>9, <1>10, <2>1, <2>2, <3>1 DEF ByTheText
  <2>3. 1 \in 1..N  BY <1>2
  <2>4. NamesIn(chain[1].vars)
          \subseteq Preloaded \cup VarsUpTo(calls'[1].node, PassedIn(calls', result.error, 1))
    BY <1>9, <1>10, <2>1, <2>3 DEF ByTheText
  <2> HIDE DEF N
  <2> QED  BY <1>1, <1>7, <2>2, <2>4 DEF ByTheText
<1>15. Resolved(chain')  BY <1>1, <1>10
<1> QED  BY <1>11, <1>12, <1>13, <1>14, <1>15 DEF SemInv

LEMMA ReturnsKeeps ==
  ASSUME SemInv, Returns
  PROVE  SemInv'
<1> DEFINE N == Len(calls)
<1> DEFINE m == N - 1
<1>1. PICK ss \in Seq(SemScopeType), type \in TypeType, error \in BOOLEAN :
        /\ TypeOf(Caller.node) # "PROGRAM"
        /\ Grown(ss, IF TypeOf(Caller.node) = "VAR_STAT" /\ ~error
                     THEN {NodeData[Caller.node].name} ELSE {})
        /\ Leave(ss, type, error) /\ errors' \in Seq(Nodes)
  BY DEF Returns
<1> DEFINE added == IF TypeOf(Caller.node) = "VAR_STAT" /\ ~error
                    THEN {NodeData[Caller.node].name} ELSE {}
<1>2. /\ calls \in Seq(CallType) /\ N \in Nat /\ N >= 1 /\ N \in 1..N
      /\ Caller = calls[N] /\ Caller.node \in Nodes /\ Caller.scope \in Nat
      /\ (TypeOf(Caller.node) = "PROGRAM" <=> N = 1)
      /\ \A j \in 1..N : calls[j] \in CallType /\ calls[j].node \in Nodes /\ calls[j].i \in Nat
      /\ chain \in Seq(SemScopeType) /\ Len(chain) \in Nat
  BY CallFacts
<1>3. m \in Nat /\ m \in 1..m /\ m \in 1..N /\ m + 1 = N /\ m < N
  <2>1. N # 1  BY <1>1, <1>2
  <2>2. N \in Nat /\ N >= 1  BY <1>2
  <2> HIDE DEF N
  <2> QED  BY <2>1, <2>2
<1>4. DataOK /\ Calling(calls) /\ Stacked(calls, chain) /\ Resolved(chain)
      /\ ByTheText(calls, result.error, chain)
  BY DEF SemInv
<1>5. /\ ss \in Seq(SemScopeType) /\ Len(ss) = Len(chain) /\ Resolved(ss)
      /\ \A s \in 1..Len(chain) :
           NamesIn(ss[s].vars) = NamesIn(chain[s].vars) \cup (IF s = Len(chain) THEN added ELSE {})
  BY <1>1 DEF Grown
<1> HIDE DEF added
<1>6. /\ calls' = Front(calls) /\ result' = SemRes(type, error)
      /\ chain' = SubSeq(ss, 1, Caller.scope)
  BY <1>1 DEF Leave
<1>7. /\ calls' \in Seq(CallType) /\ Len(calls') = m
      /\ \A j \in 1..m : calls'[j] = calls[j]
  BY <1>2, <1>6, FrontOfSeq
<1> HIDE DEF m
<1>8. result'.error = error /\ result' \in [type : TypeType, error : BOOLEAN]
  BY <1>6 DEF SemRes
\* The scope the function was called in is live, and is that of its caller.
<1>9. /\ Caller.scope \in 1..Len(chain)
      /\ Len(chain) = Caller.scope + (IF Open(Caller) THEN 1 ELSE 0)
  BY <1>2, <1>4, ScopesOfFrames
<1>10. /\ chain' \in Seq(SemScopeType) /\ Len(chain') = Caller.scope
       /\ \A s \in 1..Caller.scope : chain'[s] = ss[s]
  <2>1. \A s \in 1..Caller.scope : ss[s] \in SemScopeType  BY <1>5, <1>9
  <2>2. /\ SubSeq(ss, 1, Caller.scope) \in Seq(SemScopeType)
        /\ Len(SubSeq(ss, 1, Caller.scope)) = IF 1 <= Caller.scope THEN Caller.scope - 1 + 1 ELSE 0
        /\ \A s \in 1..(Caller.scope - 1 + 1) : SubSeq(ss, 1, Caller.scope)[s] = ss[1 + s - 1]
    <3>1. 1 \in Int /\ Caller.scope \in Int  BY <1>9
    <3> QED  BY <2>1, <3>1, SubSeqProperties
  <2> QED  BY <1>6, <1>9, <2>2
<1>11. Caller.scope = 1 + Depth(calls, m) /\ \A j \in 1..m : calls[j].scope = 1 + Depth(calls, j - 1)
  <2>1. N - 1 = m /\ \A j \in 1..m : j \in 1..N  BY <1>3
  <2> QED  BY <1>2, <1>4, <2>1 DEF Stacked
<1>12. \A n \in 0..m : Depth(calls', n) = Depth(calls, n)
  <2>1. ASSUME NEW n \in 0..m PROVE Depth(calls', n) = Depth(calls, n)
    <3>1. n \in Nat /\ \A k \in 1..n : Open(calls'[k]) <=> Open(calls[k])  BY <1>3, <1>7
    <3> QED  BY <3>1, DepthSame
  <2> QED  BY <2>1
\* The caller waits for the child that returns.
<1>13. /\ Waiting(calls[m]) /\ calls[m].pc = "child" /\ calls[m].i < Len(Children(calls[m].node))
       /\ Caller.node = Children(calls[m].node)[calls[m].i + 1]
  <2>1. m \in 1..(N - 1)  BY <1>3
  <2>2. Waiting(calls[m]) /\ calls[m + 1].node = Children(calls[m].node)[calls[m].i + 1]
    BY <1>4, <2>1 DEF Calling
  <2> QED  BY <1>2, <1>3, <2>2 DEF Waiting
<1>14. TypeOf(Caller.node) = "VAR_STAT" => TypeOf(calls[m].node) \in {"BLOCK", "PROGRAM"}
  <2>1. calls[m].node \in Nodes /\ calls[m].i + 1 \in 1..Len(Children(calls[m].node))
    BY <1>2, <1>3, <1>13, ChildrenFacts
  <2>2. PICK k \in 1..Len(NodeData[calls[m].node].kids) :
          Caller.node = NodeData[calls[m].node].kids[k]
    BY <1>13, <2>1, ChildrenFacts
  <2> QED  BY <2>1, <2>2, DeclarationsAssumption DEF DeclarationTypes, StatTypes
<1>15. TypeOf(calls[m].node) = "BLOCK" => Open(calls[m])
  BY <1>13 DEF Open
<1>16. Calling(calls')
  <2>1. TypeOf(calls'[1].node) = "PROGRAM" /\ m >= 1  BY <1>3, <1>4, <1>7 DEF Calling
  <2>2. \A j \in 1..m : FrameOK(calls'[j]) /\ (TypeOf(calls'[j].node) = "PROGRAM" <=> j = 1)
    <3>1. \A j \in 1..m : j \in 1..N  BY <1>3
    <3> QED  BY <1>4, <1>7, <3>1 DEF Calling
  <2>3. ASSUME NEW j \in 1..(m - 1)
        PROVE  Waiting(calls'[j]) /\ calls'[j + 1].node = Children(calls'[j].node)[calls'[j].i + 1]
    <3>1. j \in 1..m /\ j + 1 \in 1..m /\ j \in 1..(N - 1)  BY <1>3
    <3> QED  BY <1>4, <1>7, <3>1 DEF Calling
  <2> HIDE DEF N
  <2> QED  BY <1>7, <2>1, <2>2, <2>3 DEF Calling
<1>17. DataOK'  BY <1>1, <1>7, <1>8, <1>10 DEF DataOK
<1>18. Stacked(calls', chain')
  <2>1. Len(chain') = 1 + Depth(calls', m)
    <3>1. m \in 0..m  BY <1>3
    <3> QED  BY <1>10, <1>11, <1>12, <3>1
  <2>2. ASSUME NEW j \in 1..m PROVE calls'[j].scope = 1 + Depth(calls', j - 1)
    <3>1. j - 1 \in 0..m  BY <1>3
    <3> QED  BY <1>7, <1>11, <1>12, <3>1
  <2> HIDE DEF N
  <2> QED  BY <1>7, <2>1, <2>2 DEF Stacked
<1>19. ByTheText(calls', result'.error, chain')
  <2>1. ASSUME NEW j \in 1..m, Open(calls'[j])
        PROVE  NamesIn(chain'[calls'[j].scope + 1].vars)
                 = Declared(calls'[j].node, PassedIn(calls', error, j))
    <3>1. /\ j \in 1..N /\ j < N /\ calls'[j] = calls[j] /\ Open(calls[j])
          /\ PassedIn(calls, result.error, j) = calls[j].i
      BY <1>3, <1>7, <2>1 DEF PassedIn
    <3>2. /\ calls[j].scope + 1 \in 1..Caller.scope
          /\ calls[j].scope + 1 \in 1..Len(chain)
      BY <1>2, <1>4, <1>9, <3>1, ScopesOfFrames
    <3>3. NamesIn(chain[calls[j].scope + 1].vars) = Declared(calls[j].node, calls[j].i)
      BY <1>4, <3>1 DEF ByTheText
    <3>4. NamesIn(chain'[calls[j].scope + 1].vars) =
            NamesIn(chain[calls[j].scope + 1].vars)
              \cup (IF calls[j].scope + 1 = Len(chain) THEN added ELSE {})
      BY <1>5, <1>10, <3>2
    <3>5. j - 1 \in Nat /\ Depth(calls, j) = Depth(calls, j - 1) + 1
      <4>1. j - 1 \in Nat /\ j - 1 + 1 = j  BY <1>3
      <4> QED  BY <3>1, <4>1, DepthFacts
    <3>6. calls[j].scope + 1 = 1 + Depth(calls, j) /\ Depth(calls, j) \in Nat
      <4>1. j \in Nat /\ Depth(calls, j - 1) \in Nat /\ Depth(calls, j) \in Nat
        BY <3>5, DepthFacts
      <4> QED  BY <1>11, <3>5, <4>1
    <3>7. CASE j < m
      <4>1. PassedIn(calls', error, j) = calls[j].i  BY <1>7, <3>1, <3>7 DEF PassedIn
      <4>2. calls[j].scope + 1 = Len(chain) => added = {}
        <5>1. SUFFICES ASSUME calls[j].scope + 1 = Len(chain), added # {} PROVE FALSE
          OBVIOUS
        <5>2. TypeOf(Caller.node) = "VAR_STAT"  BY <5>1 DEF added
        <5>3. TypeOf(calls[m].node) = "BLOCK"
          <6>1. m # 1  BY <1>3, <3>7
          <6> QED  BY <1>3, <1>4, <1>14, <5>2, <6>1 DEF Calling
        <5>4. Depth(calls, m) = Depth(calls, m - 1) + 1 /\ Depth(calls, m - 1) \in Nat
          <6>1. m - 1 \in Nat /\ m - 1 + 1 = m  BY <1>3
          <6> QED  BY <1>15, <5>3, <6>1, DepthFacts
        <5>5. Depth(calls, j) <= Depth(calls, m - 1)
          <6>1. m - 1 \in Nat /\ j \in 0..(m - 1)  BY <1>3, <3>7
          <6> QED  BY <6>1, DepthMonotone
        <5>6. Caller.scope <= Len(chain)  BY <1>9
        <5> QED  BY <1>2, <1>11, <3>6, <5>1, <5>4, <5>5, <5>6
      <4> QED  BY <3>1, <3>3, <3>4, <4>1, <4>2
    <3>8. CASE j = m
      <4>1. PassedIn(calls', error, m) = IF ~error THEN calls[m].i + 1 ELSE calls[m].i
        BY <1>3, <1>7, <1>13 DEF PassedIn, Through
      <4>2. calls[m].scope + 1 = Caller.scope  BY <1>11, <3>6, <3>8
      <4>3. CASE TypeOf(calls[m].node) = "BLOCK"
        <5>1. /\ calls[m].node \in Nodes /\ calls[m].i \in Nat
              /\ Children(calls[m].node) = NodeData[calls[m].node].kids
          BY <1>2, <1>3, <4>3, ChildrenFacts
        <5>2. /\ calls[m].i + 1 <= Len(NodeData[calls[m].node].kids)
              /\ Caller.node = NodeData[calls[m].node].kids[calls[m].i + 1]
          BY <1>13, <5>1, NodeFacts
        <5>3. VarsUpTo(calls[m].node, calls[m].i + 1) =
                VarsUpTo(calls[m].node, calls[m].i)
                  \cup (IF TypeOf(Caller.node) = "VAR_STAT"
                        THEN {NodeData[Caller.node].name} ELSE {})
          BY <5>1, <5>2, VarsStep
        <5>4. TypeOf(Caller.node) = "VAR_STAT" => Caller.scope = Len(chain)
          BY <1>2, <1>9 DEF Open
        <5>5. VarsUpTo(calls[m].node, PassedIn(calls', error, m)) =
                VarsUpTo(calls[m].node, calls[m].i)
                  \cup (IF Caller.scope = Len(chain) THEN added ELSE {})
          BY <4>1, <5>3, <5>4 DEF added
        <5> QED  BY <3>1, <3>3, <3>4, <3>8, <4>2, <4>3, <5>5 DEF Declared
      <4>4. CASE TypeOf(calls[m].node) # "BLOCK"
        <5>1. TypeOf(calls[m].node) = "FUNC_STAT"  BY <3>1, <3>8, <4>4 DEF Open
        <5>2. added = {}  BY <1>14, <5>1 DEF added
        <5> QED  BY <3>1, <3>3, <3>4, <3>8, <4>4, <5>2 DEF Declared
      <4> QED  BY <4>3, <4>4
    <3>9. j \in Nat /\ j <= m  BY <1>3
    <3> QED  BY <1>3, <3>7, <3>8, <3>9
  <2>2. NamesIn(chain'[1].vars)
          \subseteq Preloaded \cup VarsUpTo(calls'[1].node, PassedIn(calls', error, 1))
    <3>1. /\ 1 \in 1..m /\ 1 \in 1..N /\ 1 # N /\ calls'[1] = calls[1] /\ calls[1].node \in Nodes
          /\ calls[1].i \in Nat /\ PassedIn(calls, result.error, 1) = calls[1].i
      BY <1>2, <1>3, <1>7 DEF PassedIn
    <3>2. NamesIn(chain[1].vars) \subseteq Preloaded \cup VarsUpTo(calls[1].node, calls[1].i)
      BY <1>4, <3>1 DEF ByTheText
    <3>3. 1 \in 1..Caller.scope /\ 1 \in 1..Len(chain)  BY <1>2, <1>9
    <3>4. NamesIn(chain'[1].vars) =
            NamesIn(chain[1].vars) \cup (IF 1 = Len(chain) THEN added ELSE {})
      BY <1>5, <1>10, <3>3
    <3>5. CASE m = 1
      <4>1. PassedIn(calls', error, 1) = IF ~error THEN calls[1].i + 1 ELSE calls[1].i
        BY <1>3, <1>7, <1>13, <3>5 DEF PassedIn, Through
      <4>2. TypeOf(calls[1].node) = "PROGRAM"  BY <1>4, <3>1 DEF Calling
      <4>3. Children(calls[1].node) = NodeData[calls[1].node].kids
        BY <3>1, <4>2, ChildrenFacts
      <4>4. /\ calls[1].i + 1 <= Len(NodeData[calls[1].node].kids)
            /\ Caller.node = NodeData[calls[1].node].kids[calls[1].i + 1]
        BY <1>13, <3>1, <3>5, <4>3, NodeFacts
      <4>5. VarsUpTo(calls[1].node, calls[1].i + 1) =
              VarsUpTo(calls[1].node, calls[1].i)
                \cup (IF TypeOf(Caller.node) = "VAR_STAT"
                      THEN {NodeData[Caller.node].name} ELSE {})
        BY <3>1, <4>4, VarsStep
      <4>6. VarsUpTo(calls[1].node, calls[1].i) \cup added
              \subseteq VarsUpTo(calls[1].node, PassedIn(calls', error, 1))
        BY <4>1, <4>5 DEF added
      <4> QED  BY <3>1, <3>2, <3>4, <4>6
    <3>6. CASE m # 1
      <4>1. PassedIn(calls', error, 1) = calls[1].i  BY <1>7, <3>1, <3>6 DEF PassedIn
      <4>2. 1 = Len(chain) => added = {}
        <5>1. SUFFICES ASSUME 1 = Len(chain), added # {} PROVE FALSE
          OBVIOUS
        <5>2. TypeOf(Caller.node) = "VAR_STAT"  BY <5>1 DEF added
        <5>3. TypeOf(calls[m].node) = "BLOCK"
          BY <1>3, <1>4, <1>14, <3>6, <5>2 DEF Calling
        <5>4. Depth(calls, m) = Depth(calls, m - 1) + 1 /\ Depth(calls, m - 1) \in Nat
          <6>1. m - 1 \in Nat /\ m - 1 + 1 = m  BY <1>3
          <6> QED  BY <1>15, <5>3, <6>1, DepthFacts
        <5>5. Caller.scope <= Len(chain)  BY <1>9
        <5>6. Caller.scope = 1 + Depth(calls, m) /\ Len(chain) = 1  BY <1>11, <5>1
        <5> HIDE DEF N
        <5> QED  BY <5>4, <5>5, <5>6
      <4> QED  BY <3>1, <3>2, <3>4, <4>1, <4>2
    <3> QED  BY <3>5, <3>6
  <2> HIDE DEF N
  <2> QED  BY <1>7, <1>8, <2>1, <2>2 DEF ByTheText
<1>20. Resolved(chain')
  <2>1. ASSUME NEW s \in 1..Len(chain') PROVE ResolvedAt(chain', s)
    <3>1. /\ s \in Nat \ {0} /\ s \in 1..Len(ss)
          /\ \A outer \in 1..s : chain'[outer].types = ss[outer].types
      <4>1. Caller.scope \in Nat /\ Caller.scope <= Len(ss)  BY <1>2, <1>5, <1>9
      <4>2. s \in 1..Caller.scope  BY <1>10
      <4> HIDE DEF N
      <4> QED  BY <1>5, <1>10, <4>1, <4>2
    <3>2. ResolvedAt(ss, s)  BY <1>5, <3>1 DEF Resolved
    <3> QED  BY <3>1, <3>2, ResolvedSame
  <2> QED  BY <2>1 DEF Resolved
<1> QED  BY <1>16, <1>17, <1>18, <1>19, <1>20 DEF SemInv

LEMMA MovesKeeps ==
  ASSUME SemInv, Moves
  PROVE  SemInv'
<1>1. CASE Rests
  BY <1>1 DEF Rests, SemInv, DataOK
<1> QED
  BY <1>1, GoesKeeps, EntersKeeps, VisitsKeeps, ReturnsKeeps DEF Moves

-----------------------------------------------------------------------------
(***************************************************************************)
(* Each action is one of the moves.                                        *)
(***************************************************************************)
LEMMA SameScopes ==
  ASSUME SemInv
  PROVE  Grown(chain, {})
  BY CallFacts DEF SemInv, Grown

LEMMA LeaveMoves ==
  ASSUME SemInv, NEW type \in TypeType, NEW error \in BOOLEAN, Leave(chain, type, error),
         errors' \in Seq(Nodes), TypeOf(Caller.node) # "PROGRAM",
         TypeOf(Caller.node) = "VAR_STAT" => error
  PROVE  Returns
<1>1. (IF TypeOf(Caller.node) = "VAR_STAT" /\ ~error
       THEN {NodeData[Caller.node].name} ELSE {}) = {}
  OBVIOUS
<1>2. Grown(chain, IF TypeOf(Caller.node) = "VAR_STAT" /\ ~error
                   THEN {NodeData[Caller.node].name} ELSE {})
  BY <1>1, SameScopes
<1>3. chain \in Seq(SemScopeType)  BY CallFacts
<1> QED  BY <1>2, <1>3 DEF Returns

LEMMA YieldMoves ==
  ASSUME SemInv, NEW type \in TypeType, Yield(type),
         TypeOf(Caller.node) \notin {"PROGRAM", "VAR_STAT"}
  PROVE  Returns
<1>1. Leave(chain, type, FALSE) /\ errors' \in Seq(Nodes)  BY CallFacts DEF Yield
<1> QED  BY <1>1, LeaveMoves

LEMMA DieMoves ==
  ASSUME NEW how, Die(how)
  PROVE  Rests
  BY DEF Die, Rests

LEMMA ReportMoves ==
  ASSUME SemInv, NEW n \in Nodes, NEW error \in BOOLEAN, Report(n, error),
         TypeOf(Caller.node) # "PROGRAM", TypeOf(Caller.node) = "VAR_STAT" => error
  PROVE  Returns \/ Rests
<1>1. CASE Die("overflow")  BY <1>1, DieMoves
<1>2. CASE errors' = Append(errors, n) /\ Leave(chain, NoType, error)
  <2>1. errors' \in Seq(Nodes)  BY <1>2, CallFacts
  <2> QED  BY <1>2, <2>1, LeaveMoves, TypeFacts
<1> QED  BY <1>1, <1>2 DEF Report

\* The innermost frame goes on as f, with as many children passed.
LEMMA ProceedMoves ==
  ASSUME SemInv, NEW f \in CallType, Proceed(f), chain' = chain,
         f.node = Caller.node, f.scope = Caller.scope, f.pc = "visit",
         f.i <= Len(Children(f.node)),
         TypeOf(f.node) = "BLOCK" => f.i = Through(Caller, result.error) /\ Caller.pc # "enter",
         TypeOf(f.node) = "PROGRAM" => f.i >= Through(Caller, result.error),
         TypeOf(f.node) = "FUNC_STAT" => Caller.pc # "enter"
  PROVE  Goes
<1>1. Open(f) <=> Open(Caller)  BY DEF Open
<1>2. calls' = [calls EXCEPT ![Len(calls)] = f] /\ UNCHANGED <<result, errors>>
  BY DEF Proceed
<1> QED  BY <1>1, <1>2 DEF Goes, Advances

\* A member that is not unknown is in some table.
LEMMA MembersKnown ==
  ASSUME SemInv, ~UnknownMember, Len(Here.types) <= MaxVars
  PROVE  \A k \in 1..Len(Here.types) :
           \E s \in 1..Len(chain) : Here.types[k] \in NamesIn(chain[s].types)
<1>1. Len(Here.types) \in Nat /\ chain \in Seq(SemScopeType)  BY CallFacts, NodeFacts
<1>2. ASSUME NEW k \in 1..Len(Here.types) PROVE scope_get_type(Here.types[k]) # NoType
  <2>1. k <= MaxVars + 1  BY <1>1, SemanticsBounds
  <2> QED  BY <2>1 DEF UnknownMember
<1> QED  BY <1>1, <1>2, TypeFound

\* A registration adds a type whose members are known.
LEMMA RegisteredGrown ==
  ASSUME SemInv, NEW x \in TypeNames, NEW type \in TypeType,
         \A k \in 1..Len(type.types) :
           \E s \in 1..Len(chain) : type.types[k] \in NamesIn(chain[s].types)
  PROVE  Grown(Registered(x, type), {})
<1> DEFINE L == Len(chain)
<1> DEFINE table == Append(chain[L].types, Named(x, type))
<1> DEFINE ss == Registered(x, type)
<1>1. chain \in Seq(SemScopeType) /\ L \in Nat /\ L >= 1 /\ L \in 1..L /\ Resolved(chain)
  BY CallFacts DEF SemInv
<1>2. chain[L] \in SemScopeType  BY <1>1
<1>3. /\ chain[L].types \in Seq(EntryType) /\ Len(chain[L].types) \in Nat
      /\ chain[L].vars \in Seq(SlotType)
      /\ chain[L] = [vars |-> chain[L].vars, types |-> chain[L].types]
  BY <1>2, ScopeFacts
<1>4. Named(x, type) \in EntryType /\ Named(x, type).name = x /\ Named(x, type).type = type
  BY DEF Named, EntryType
<1>5. /\ table \in Seq(EntryType) /\ Len(table) = Len(chain[L].types) + 1
      /\ \A k \in 1..Len(chain[L].types) : table[k] = chain[L].types[k]
      /\ table[Len(chain[L].types) + 1] = Named(x, type)
      /\ NamesIn(chain[L].types) \subseteq NamesIn(table)
  <2>1. table \in Seq(EntryType)  BY <1>3, <1>4
  <2>2. NamesIn(chain[L].types) \subseteq NamesIn(table)  BY <1>3, <1>4, NamesAppended
  <2> QED  BY <1>3, <1>4, <2>1, <2>2
<1> DEFINE scope == [vars |-> chain[L].vars, types |-> table]
<1>6. ss = [chain EXCEPT ![L] = scope]
  <2>1. ss = [chain EXCEPT ![L] = [chain[L] EXCEPT !.types = table]]  BY DEF Registered
  <2>2. [chain[L] EXCEPT !.types = table] = scope
    <3> HIDE DEF table, L
    <3> QED  BY <1>3
  <2> QED  BY <2>1, <2>2
<1> HIDE DEF table
<1>7. scope \in SemScopeType /\ scope.vars = chain[L].vars /\ scope.types = table
  BY <1>3, <1>5, ScopeMade
<1> HIDE DEF ss, scope
<1>8. /\ ss \in Seq(SemScopeType) /\ Len(ss) = L
      /\ \A s \in 1..L : ss[s] = IF s = L THEN scope ELSE chain[s]
  BY <1>1, <1>6, <1>7, ExceptSeq
<1>9. \A s \in 1..L : NamesIn(ss[s].vars) = NamesIn(chain[s].vars)
                      /\ NamesIn(chain[s].types) \subseteq NamesIn(ss[s].types)
  BY <1>5, <1>7, <1>8
<1>10. ASSUME NEW s \in 1..L PROVE ResolvedAt(ss, s)
  <2>1. CASE s # L
    <3>1. s \in Nat \ {0} /\ \A outer \in 1..s : ss[outer].types = chain[outer].types
      <4>1. \A outer \in 1..s : outer \in 1..L /\ outer # L  BY <1>1, <2>1
      <4> QED  BY <1>1, <1>8, <4>1
    <3>2. ResolvedAt(chain, s)  BY <1>1 DEF Resolved
    <3> QED  BY <3>1, <3>2, ResolvedSame
  <2>2. CASE s = L
    <3>1. ASSUME NEW k \in 1..Len(table), NEW j \in 1..Len(table[k].type.types)
          PROVE  \E outer \in 1..L : table[k].type.types[j] \in NamesIn(chain[outer].types)
      <4>1. CASE k \in 1..Len(chain[L].types)
        <5>1. table[k] = chain[L].types[k]  BY <1>5, <4>1
        <5> QED  BY <1>1, <3>1, <4>1, <5>1 DEF Resolved, ResolvedAt
      <4>2. CASE k \notin 1..Len(chain[L].types)
        <5>1. k = Len(chain[L].types) + 1  BY <1>3, <1>5, <4>2
        <5>2. table[k].type = type  BY <1>4, <1>5, <5>1
        <5> QED  BY <3>1, <5>2
      <4> QED  BY <4>1, <4>2
    <3>2. ss[s].types = table  BY <1>7, <1>8, <2>2
    <3>3. ASSUME NEW k \in 1..Len(table), NEW j \in 1..Len(table[k].type.types)
          PROVE  \E outer \in 1..L : table[k].type.types[j] \in NamesIn(ss[outer].types)
      BY <1>9, <3>1
    <3> QED  BY <2>2, <3>2, <3>3 DEF ResolvedAt
  <2> QED  BY <2>1, <2>2
<1> HIDE DEF L
<1>11. Resolved(ss)  BY <1>8, <1>10 DEF Resolved
<1> QED  BY <1>8, <1>9, <1>11 DEF Grown, ss, L

\* A declaration adds a name to the newest scope.
LEMMA DeclaredGrown ==
  ASSUME SemInv, NEW x \in Names, NEW type \in TypeType
  PROVE  Grown([chain EXCEPT ![Len(chain)] = Declare(@, x, type)], {x})
<1> DEFINE L == Len(chain)
<1> DEFINE scope == Declare(chain[L], x, type)
<1> DEFINE ss == [chain EXCEPT ![L] = scope]
<1>1. chain \in Seq(SemScopeType) /\ L \in Nat /\ L >= 1 /\ L \in 1..L /\ Resolved(chain)
  BY CallFacts DEF SemInv
<1>2. chain[L] \in SemScopeType  BY <1>1
<1>3. /\ scope \in SemScopeType /\ NamesIn(scope.vars) = NamesIn(chain[L].vars) \cup {x}
      /\ scope.types = chain[L].types
  BY <1>2, DeclareFacts
<1> HIDE DEF scope
<1>4. /\ ss \in Seq(SemScopeType) /\ Len(ss) = L
      /\ \A s \in 1..L : ss[s] = IF s = L THEN scope ELSE chain[s]
  BY <1>1, <1>3, ExceptSeq
<1>5. [chain EXCEPT ![Len(chain)] = Declare(@, x, type)] = ss  BY DEF scope
<1> HIDE DEF ss
<1>6. ASSUME NEW s \in 1..L PROVE ResolvedAt(ss, s)
  <2>1. s \in Nat \ {0} /\ \A outer \in 1..s : ss[outer].types = chain[outer].types
    <3>1. \A outer \in 1..s : outer \in 1..L  BY <1>1
    <3> QED  BY <1>1, <1>3, <1>4, <3>1
  <2>2. ResolvedAt(chain, s)  BY <1>1 DEF Resolved
  <2> QED  BY <2>1, <2>2, ResolvedSame
<1> HIDE DEF L
<1>7. Resolved(ss)  BY <1>4, <1>6 DEF Resolved
<1>8. \A s \in 1..L :
        NamesIn(ss[s].vars) = NamesIn(chain[s].vars) \cup (IF s = L THEN {x} ELSE {})
  BY <1>3, <1>4
<1>9. Grown(ss, {x})  BY <1>4, <1>7, <1>8 DEF Grown, L
<1> QED  BY <1>5, <1>9

LEMMA LeafActions ==
  ASSUME SemInv, Leaves
  PROVE  Moves
<1>1. /\ Caller \in CallType /\ Caller.node \in Nodes /\ Caller.i \in Nat
      /\ Here = NodeData[Caller.node] /\ Here.type = TypeOf(Caller.node)
  BY CallFacts
<1>2. /\ Here.name \in TypeNames /\ Here.types \in Seq(STRING) /\ Len(Here.types) \in Nat
      /\ Len(Here.params) \in Nat
      /\ Here.kids \in Seq(Nodes) /\ Len(Here.kids) \in Nat
      /\ \A k \in 1..Len(Here.kids) : Here.kids[k] \in Nodes
  BY <1>1, NodeFacts
<1>3. /\ NoType \in TypeType /\ Numeric("i32") \in TypeType /\ Numeric("f32") \in TypeType
      /\ \A ts \in Seq(STRING) : Type("struct", ts) \in TypeType
      /\ Type("enum", <<>>) \in TypeType
  <2>1. {"i32", "f32", "struct", "enum"} \subseteq ValueTypes
    BY DEF ValueTypes, NumberTypes, IntTypes, FloatTypes
  <2>2. <<>> \in Seq(STRING)  OBVIOUS
  <2> QED  BY <2>1, <2>2, TypeFacts
<1>4. CASE process_integer_lit
  <2>1. Yield(Numeric("i32")) /\ TypeOf(Caller.node) = "INTEGER_LIT"
    BY <1>1, <1>4 DEF process_integer_lit, In
  <2> QED  BY <1>3, <2>1, YieldMoves DEF Moves
<1>5. CASE process_float_lit
  <2>1. Yield(Numeric("f32")) /\ TypeOf(Caller.node) = "FLOAT_LIT"
    BY <1>1, <1>5 DEF process_float_lit, In
  <2> QED  BY <1>3, <2>1, YieldMoves DEF Moves
<1>6. CASE process_ident_lit
  <2>1. TypeOf(Caller.node) = "IDENT_LIT"  BY <1>1, <1>6 DEF process_ident_lit, In
  <2>2. CASE scope_get_var(Here.name).t = "none"
    <3>1. Report(Caller.node, TRUE)  BY <1>6, <2>2 DEF process_ident_lit
    <3> QED  BY <1>1, <2>1, <3>1, ReportMoves DEF Moves
  <2>3. CASE scope_get_var(Here.name).t # "none"
    <3>1. Yield(Found(Here.name).type)  BY <1>6, <2>3 DEF process_ident_lit
    <3>2. Found(Here.name).type \in TypeType  BY <2>3, CallFacts, VarFound
    <3> QED  BY <2>1, <3>1, <3>2, YieldMoves DEF Moves
  <2> QED  BY <2>2, <2>3
<1>7. CASE process_jump
  <2>1. Yield(NoType) /\ TypeOf(Caller.node) \in {"BREAK_STAT", "CONTINUE_STAT"}
    BY <1>1, <1>7 DEF process_jump, In
  <2> QED  BY <1>3, <2>1, YieldMoves DEF Moves
<1>8. CASE process_cast_expr
  <2>1. Yield(scope_get_type(Here.aux)) /\ TypeOf(Caller.node) = "CAST_EXPR"
    BY <1>1, <1>8 DEF process_cast_expr, In
  <2>2. scope_get_type(Here.aux) \in TypeType  BY CallFacts, TypeFound
  <2> QED  BY <2>1, <2>2, YieldMoves DEF Moves
<1>9. CASE process_struct_stat
  <2>1. TypeOf(Caller.node) = "STRUCT_STAT"  BY <1>1, <1>9 DEF process_struct_stat, In
  <2>2. CASE UnknownMember
    <3>1. Report(Caller.node, FALSE)  BY <1>9, <2>2 DEF process_struct_stat
    <3> QED  BY <1>1, <2>1, <3>1, ReportMoves DEF Moves
  <2>3. CASE ~UnknownMember /\ (Len(Here.types) > MaxVars \/ TableIsFull)
    <3>1. Die("overflow")  BY <1>9, <2>3 DEF process_struct_stat
    <3> QED  BY <3>1, DieMoves DEF Moves
  <2>4. CASE ~UnknownMember /\ ~(Len(Here.types) > MaxVars \/ TableIsFull)
    <3> DEFINE type == Type("struct", Here.types)
    <3>1. Leave(Registered(Here.name, type), NoType, FALSE) /\ UNCHANGED errors
      BY <1>9, <2>4 DEF process_struct_stat
    <3>2. type \in TypeType /\ type.types = Here.types  BY <1>2, <1>3 DEF Type
    <3>3. Len(Here.types) <= MaxVars  BY <1>2, <2>4, SemanticsBounds
    <3>4. \A k \in 1..Len(type.types) :
            \E s \in 1..Len(chain) : type.types[k] \in NamesIn(chain[s].types)
      BY <2>4, <3>2, <3>3, MembersKnown
    <3> HIDE DEF type
    <3>5. Grown(Registered(Here.name, type), {})  BY <1>2, <3>2, <3>4, RegisteredGrown
    <3>6. errors' \in Seq(Nodes) /\ Registered(Here.name, type) \in Seq(SemScopeType)
      BY <3>1, <3>5, CallFacts DEF Grown
    <3> QED  BY <1>3, <2>1, <3>1, <3>5, <3>6 DEF Returns, Moves
  <2> QED  BY <2>2, <2>3, <2>4
<1>10. CASE process_unsupported
  BY <1>10, DieMoves DEF process_unsupported, Moves
<1>11. CASE process_null
  BY <1>11, DieMoves DEF process_null, Moves
<1>12. CASE EnumEntry
  <2> DEFINE value == Here.kids[Caller.i + 1]
  <2>1. /\ TypeOf(Caller.node) = "ENUM_STAT" /\ Caller.pc = "visit" /\ Caller.i < Len(Here.kids)
        /\ value \in Nodes
    BY <1>1, <1>2, <1>12 DEF EnumEntry, In
  <2>2. \/ \E o : Die(o.fault)
        \/ Report(value, TRUE)
        \/ Die("overflow") \/ Die("crash")
        \/ Proceed([Caller EXCEPT !.i = @ + 1]) /\ UNCHANGED chain
    BY <1>12 DEF EnumEntry, ReportNamed
  <2> HIDE DEF value
  <2>3. CASE \E o : Die(o.fault)  BY <2>3, DieMoves DEF Moves
  <2>4. CASE Report(value, TRUE)  BY <2>1, <2>4, ReportMoves DEF Moves
  <2>5. CASE Die("overflow") \/ Die("crash")  BY <2>5, DieMoves DEF Moves
  <2>6. CASE Proceed([Caller EXCEPT !.i = @ + 1]) /\ UNCHANGED chain
    <3> DEFINE f == [Caller EXCEPT !.i = @ + 1]
    <3>1. /\ f \in CallType /\ f.node = Caller.node /\ f.scope = Caller.scope /\ f.pc = "visit"
          /\ f.i = Caller.i + 1
      BY <1>1, <2>1 DEF CallType
    <3>2. Proceed(f) /\ chain' = chain  BY <2>6
    <3> HIDE DEF f
    <3>3. f.i <= Len(Children(f.node))
      <4>1. Children(Caller.node) = Here.kids  BY <1>1, <2>1, ChildrenFacts
      <4> QED  BY <1>1, <1>2, <2>1, <3>1, <4>1
    <3> QED  BY <2>1, <3>1, <3>2, <3>3, ProceedMoves DEF Moves
  <2> QED  BY <2>2, <2>3, <2>4, <2>5, <2>6
<1>13. CASE process_enum_stat
  <2>1. TypeOf(Caller.node) = "ENUM_STAT"  BY <1>1, <1>13 DEF process_enum_stat, In
  <2>2. CASE Die("overflow")  BY <2>2, DieMoves DEF Moves
  <2>3. CASE Leave(Registered(Here.name, Type("enum", <<>>)), NoType, FALSE) /\ UNCHANGED errors
    <3> DEFINE type == Type("enum", <<>>)
    <3>1. type \in TypeType /\ type.types = <<>>  BY <1>3 DEF Type
    <3>2. Leave(Registered(Here.name, type), NoType, FALSE) /\ UNCHANGED errors  BY <2>3
    <3> HIDE DEF type
    <3>3. Grown(Registered(Here.name, type), {})
      <4>1. Len(type.types) = 0  BY <3>1
      <4>2. \A k \in 1..Len(type.types) :
              \E s \in 1..Len(chain) : type.types[k] \in NamesIn(chain[s].types)
        BY <4>1
      <4>3. Here.name \in TypeNames  BY <1>2
      <4> QED  BY <3>1, <4>2, <4>3, RegisteredGrown
    <3>4. errors' \in Seq(Nodes) /\ Registered(Here.name, type) \in Seq(SemScopeType)
      BY <3>2, <3>3, CallFacts DEF Grown
    <3> QED  BY <1>3, <2>1, <3>2, <3>3, <3>4 DEF Returns, Moves
  <2> QED  BY <1>13, <2>2, <2>3 DEF process_enum_stat
<1> QED
  BY <1>4, <1>5, <1>6, <1>7, <1>8, <1>9, <1>10, <1>11, <1>12, <1>13 DEF Leaves

LEMMA EnteringActions ==
  ASSUME SemInv, Entering
  PROVE  Moves
<1>1. /\ Caller \in CallType /\ Caller.node \in Nodes /\ Caller.i \in Nat /\ FrameOK(Caller)
      /\ Here = NodeData[Caller.node] /\ Here.type = TypeOf(Caller.node)
      /\ chain \in Seq(SemScopeType)
  BY CallFacts
<1>2. /\ Here.name \in TypeNames /\ Here.types \in Seq(STRING) /\ Len(Here.types) \in Nat
      /\ Len(Here.params) \in Nat
      /\ Here.kids \in Seq(Nodes) /\ Len(Here.kids) \in Nat
      /\ \A k \in 1..Len(Here.kids) : Here.kids[k] \in Nodes
  BY <1>1, NodeFacts
<1>3. \A T : scope_get_type(T) \in TypeType  BY <1>1, TypeFound
\* A frame that is entered is through with no child.
<1>4. ASSUME NEW type \in TypeType, Caller.pc = "enter",
             TypeOf(Caller.node) \in {"VAR_STAT", "CALL_EXPR"},
             Proceed([Caller EXCEPT !.pc = "visit", !.type = type]), UNCHANGED chain
      PROVE  Moves
  <2> DEFINE f == [Caller EXCEPT !.pc = "visit", !.type = type]
  <2>1. /\ f \in CallType /\ f.node = Caller.node /\ f.scope = Caller.scope /\ f.pc = "visit"
        /\ f.i = Caller.i
    BY <1>1, <1>4 DEF CallType
  <2>2. Proceed(f) /\ chain' = chain  BY <1>4
  <2> HIDE DEF f
  <2>3. f.i <= Len(Children(f.node))  BY <1>1, <2>1 DEF FrameOK
  <2> QED  BY <1>4, <2>1, <2>2, <2>3, ProceedMoves DEF Moves
<1>5. ASSUME Caller.pc = "enter", TypeOf(Caller.node) \in {"BLOCK", "FUNC_STAT"},
             Proceed([Caller EXCEPT !.pc = "visit"])
      PROVE  Advances([Caller EXCEPT !.pc = "visit"])
  <2> DEFINE f == [Caller EXCEPT !.pc = "visit"]
  <2>1. /\ f \in CallType /\ f.node = Caller.node /\ f.scope = Caller.scope /\ f.pc = "visit"
        /\ f.i = Caller.i
    BY <1>1, <1>5 DEF CallType
  <2>2. Proceed(f)  BY <1>5
  <2> HIDE DEF f
  <2>3. f.i <= Len(Children(f.node))  BY <1>1, <2>1 DEF FrameOK
  <2>4. Through(Caller, result.error) = f.i  BY <1>5, <2>1 DEF Through
  <2>5. Advances(f)  BY <1>5, <2>1, <2>2, <2>3, <2>4 DEF Advances, Proceed
  <2> QED  BY <2>5 DEF f
<1>6. CASE VarEnter
  <2> DEFINE type == scope_get_type(Here.aux)
  <2>1. TypeOf(Caller.node) = "VAR_STAT" /\ Caller.pc = "enter"  BY <1>1, <1>6 DEF VarEnter, In
  <2>2. \/ Report(Caller.node, TRUE)
        \/ Proceed([Caller EXCEPT !.pc = "visit", !.type = type]) /\ UNCHANGED chain
    BY <1>6 DEF VarEnter
  <2>3. type \in TypeType  BY <1>3
  <2> HIDE DEF type
  <2>4. CASE Report(Caller.node, TRUE)  BY <1>1, <2>1, <2>4, ReportMoves DEF Moves
  <2> QED  BY <1>4, <2>1, <2>2, <2>3, <2>4
<1>7. CASE FnEnter
  <2>1. TypeOf(Caller.node) = "FUNC_STAT" /\ Caller.pc = "enter"  BY <1>1, <1>7 DEF FnEnter, In
  <2>2. CASE UnknownMember
    <3>1. Report(Caller.node, TRUE)  BY <1>7, <2>2 DEF FnEnter
    <3> QED  BY <1>1, <2>1, <3>1, ReportMoves DEF Moves
  <2>3. CASE ~UnknownMember /\ (Len(Here.params) > MaxVars \/ TableIsFull)
    <3>1. Die("overflow")  BY <1>7, <2>3 DEF FnEnter
    <3> QED  BY <3>1, DieMoves DEF Moves
  <2>4. CASE ~UnknownMember /\ ~(Len(Here.params) > MaxVars \/ TableIsFull)
    <3> DEFINE type == Type("function", Here.types)
    <3>1. /\ chain' = Append(Registered(Here.name, type), Parameters(Caller.node))
          /\ Proceed([Caller EXCEPT !.pc = "visit"])
      BY <1>7, <2>4 DEF FnEnter
    <3>2. type \in TypeType /\ type.types = Here.types
      <4>1. "function" \in ValueTypes  BY DEF ValueTypes
      <4> QED  BY <1>2, <4>1, TypeFacts DEF Type
    <3>3. Len(Here.types) = Len(Here.params)  BY <1>1, <2>1, NodesAssumption
    <3>4. Len(Here.types) <= MaxVars  BY <1>2, <2>4, <3>3, SemanticsBounds
    <3>5. \A k \in 1..Len(type.types) :
            \E s \in 1..Len(chain) : type.types[k] \in NamesIn(chain[s].types)
      BY <2>4, <3>2, <3>4, MembersKnown
    <3> HIDE DEF type
    <3>6. Grown(Registered(Here.name, type), {})  BY <1>2, <3>2, <3>5, RegisteredGrown
    <3>7. /\ Parameters(Caller.node) \in SemScopeType
          /\ NamesIn(Parameters(Caller.node).vars) = Declared(Caller.node, 0)
          /\ Parameters(Caller.node).types = <<>>
      BY <1>1, <2>1, ParametersFacts DEF Declared
    <3>8. Advances([Caller EXCEPT !.pc = "visit"])  BY <1>5, <2>1, <3>1
    <3> QED  BY <2>1, <3>1, <3>6, <3>7, <3>8 DEF Enters, Moves
  <2> QED  BY <2>2, <2>3, <2>4
<1>8. CASE BlockEnter
  <2>1. /\ TypeOf(Caller.node) = "BLOCK" /\ Caller.pc = "enter"
        /\ chain' = Append(chain, SubScope)
        /\ Proceed([Caller EXCEPT !.pc = "visit"])
    BY <1>1, <1>8 DEF BlockEnter, In
  <2>2. SubScope \in SemScopeType /\ SubScope.types = <<>> /\ NamesIn(SubScope.vars) = {}
    <3>1. <<>> \in Seq(SlotType) /\ <<>> \in Seq(EntryType)  OBVIOUS
    <3>2. SubScope.vars = <<>> /\ SubScope.types = <<>>  BY DEF SubScope
    <3>3. NamesIn(<<>>) = {}  BY DEF NamesIn
    <3>4. SubScope \in SemScopeType  BY <3>1, ScopeMade DEF SubScope
    <3> QED  BY <3>2, <3>3, <3>4
  <2>3. Declared(Caller.node, 0) = {}  BY <1>1, <2>1, VarsFacts DEF Declared
  <2>4. Advances([Caller EXCEPT !.pc = "visit"])  BY <1>5, <2>1
  <2> QED  BY <2>1, <2>2, <2>3, <2>4, SameScopes DEF Enters, Moves
<1>9. CASE CallEnter
  <2> DEFINE function == Callee(Caller.node)
  <2>1. TypeOf(Caller.node) = "CALL_EXPR" /\ Caller.pc = "enter"  BY <1>1, <1>9 DEF CallEnter, In
  <2>2. \/ Report(Here.kids[1], TRUE)
        \/ Die("crash")
        \/ Proceed([Caller EXCEPT !.pc = "visit", !.type = function]) /\ UNCHANGED chain
    BY <1>9 DEF CallEnter, ReportNamed
  <2>3. function \in TypeType  BY CallFacts, CalleeFound
  <2> HIDE DEF function
  <2>4. CASE Report(Here.kids[1], TRUE)
    <3>1. Arity("CALL_EXPR", Len(Here.kids))  BY <1>1, <2>1, NodeFacts
    <3>2. Len(Here.kids) >= 1  BY <3>1 DEF Arity
    <3>3. Here.kids[1] \in Nodes  BY <1>2, <3>2
    <3> QED  BY <2>1, <2>4, <3>3, ReportMoves DEF Moves
  <2>5. CASE Die("crash")  BY <2>5, DieMoves DEF Moves
  <2> QED  BY <1>4, <2>1, <2>2, <2>3, <2>4, <2>5
<1> QED  BY <1>6, <1>7, <1>8, <1>9 DEF Entering

LEMMA FrameVisited ==
  ASSUME NEW c \in CallType, NEW i \in Nat, NEW type \in TypeType
  PROVE  LET f == [c EXCEPT !.pc = "visit", !.i = i, !.type = type] IN
         f \in CallType /\ f.node = c.node /\ f.scope = c.scope /\ f.pc = "visit" /\ f.i = i
<1> DEFINE g == [c EXCEPT !.pc = "visit"]
<1>1. g \in CallType /\ g.node = c.node /\ g.scope = c.scope /\ g.pc = "visit"
  BY DEF CallType
<1> HIDE DEF g
<1> DEFINE h == [g EXCEPT !.i = i]
<1>2. h \in CallType /\ h.node = c.node /\ h.scope = c.scope /\ h.pc = "visit" /\ h.i = i
  BY <1>1 DEF CallType
<1> HIDE DEF h
<1> DEFINE f == [h EXCEPT !.type = type]
<1>3. f \in CallType /\ f.node = c.node /\ f.scope = c.scope /\ f.pc = "visit" /\ f.i = i
  BY <1>2 DEF CallType
<1>4. f = [c EXCEPT !.pc = "visit", !.i = i, !.type = type]
  BY DEF f, g, h, CallType
<1> HIDE DEF f
<1> QED  BY <1>3, <1>4

LEMMA VisitingActions ==
  ASSUME SemInv, Visiting
  PROVE  Moves
<1>1. /\ Caller \in CallType /\ Caller.node \in Nodes /\ Caller.i \in Nat /\ FrameOK(Caller)
      /\ Here = NodeData[Caller.node] /\ Here.type = TypeOf(Caller.node)
      /\ result.error \in BOOLEAN /\ result.type \in TypeType
      /\ chain \in Seq(SemScopeType) /\ errors \in Seq(Nodes)
  BY CallFacts
<1>2. /\ Here.kids \in Seq(Nodes) /\ Len(Here.kids) \in Nat
      /\ \A k \in 1..Len(Here.kids) : Here.kids[k] \in Nodes
      /\ Len(Children(Caller.node)) \in Nat
  BY <1>1, NodeFacts, ChildrenFacts
\* Among the children of a frame that waits is the one it has just processed.
<1>3. Caller.pc = "child" => Caller.i + 1 <= Len(Children(Caller.node))
  BY <1>1, <1>2 DEF FrameOK, Waiting
\* An error is passed on.
<1>4. ASSUME TypeOf(Caller.node) # "PROGRAM", Leave(chain, NoType, TRUE), UNCHANGED errors
      PROVE  Moves
  <2>1. errors' \in Seq(Nodes)  BY <1>1, <1>4
  <2> QED  BY <1>4, <2>1, TypeFacts, LeaveMoves DEF Moves
<1>5. ASSUME NEW type \in TypeType, Caller.pc = "child", UNCHANGED chain,
             ~result.error \/ TypeOf(Caller.node) = "PROGRAM",
             Proceed([Caller EXCEPT !.pc = "visit", !.i = @ + 1, !.type = type])
      PROVE  Moves
  <2> DEFINE f == [Caller EXCEPT !.pc = "visit", !.i = @ + 1, !.type = type]
  <2>1. /\ f \in CallType /\ f.node = Caller.node /\ f.scope = Caller.scope /\ f.pc = "visit"
        /\ f.i = Caller.i + 1
    <3>1. Caller \in CallType /\ Caller.i \in Nat /\ type \in TypeType  BY <1>1, <1>5
    <3>2. Caller.i + 1 \in Nat  BY <3>1
    <3> QED  BY <3>1, <3>2, FrameVisited
  <2>2. Proceed(f) /\ chain' = chain  BY <1>5
  <2> HIDE DEF f
  <2>3. f.i <= Len(Children(f.node))  BY <1>3, <1>5, <2>1
  <2>4. ~result.error => Through(Caller, result.error) = f.i  BY <1>5, <2>1 DEF Through
  <2>5. Through(Caller, result.error) <= f.i  BY <1>1, <1>5, <2>1 DEF Through
  <2>6. f.i >= Through(Caller, result.error)
    <3>1. Through(Caller, result.error) \in Nat /\ f.i \in Nat  BY <1>1, <2>1 DEF Through
    <3> QED  BY <2>5, <3>1
  <2> QED  BY <1>5, <2>1, <2>2, <2>3, <2>4, <2>6, ProceedMoves DEF Moves
<1>6. CASE Visit
  <2>1. /\ Caller.pc = "visit" /\ Caller.i # Len(Children(Caller.node))
        /\ Process([Caller EXCEPT !.pc = "child"], Children(Caller.node)[Caller.i + 1])
    BY <1>6 DEF Visit, In, Over
  <2>2. Caller.i < Len(Children(Caller.node))  BY <1>1, <1>2, <2>1 DEF FrameOK
  <2> QED  BY <2>1, <2>2 DEF Visits, Moves
<1>7. CASE Visited
  <2>1. Caller.pc = "child"  BY <1>7 DEF Visited, In
  <2>2. CASE result.error /\ Here.type # "PROGRAM"
    <3>1. Leave(chain, NoType, TRUE) /\ UNCHANGED errors  BY <1>7, <2>2 DEF Visited
    <3> QED  BY <1>1, <1>4, <2>2, <3>1
  <2>3. CASE ~(result.error /\ Here.type # "PROGRAM")
    <3> DEFINE type == IF TakesType THEN result.type ELSE Caller.type
    <3>1. Proceed([Caller EXCEPT !.pc = "visit", !.i = @ + 1,
                                 !.type = IF TakesType THEN result.type ELSE @]) /\ UNCHANGED chain
      BY <1>7, <2>3 DEF Visited
    <3>2. [Caller EXCEPT !.pc = "visit", !.i = @ + 1,
                         !.type = IF TakesType THEN result.type ELSE @]
            = [Caller EXCEPT !.pc = "visit", !.i = @ + 1, !.type = type]
      OBVIOUS
    <3>3. type \in TypeType  BY <1>1 DEF CallType
    <3> HIDE DEF type
    <3> QED  BY <1>1, <1>5, <2>1, <2>3, <3>1, <3>2, <3>3
  <2> QED  BY <2>2, <2>3
<1>8. CASE Argument
  <2>1. TypeOf(Caller.node) = "CALL_EXPR" /\ Caller.pc = "child"
    BY <1>1, <1>8 DEF Argument, In
  <2>2. \/ result.error /\ Leave(chain, NoType, TRUE) /\ UNCHANGED errors
        \/ \E how : Die(how)
        \/ Report(Here.kids[Caller.i + 2], TRUE)
        \/ ~result.error /\ Proceed([Caller EXCEPT !.pc = "visit", !.i = @ + 1])
           /\ UNCHANGED chain
    BY <1>8 DEF Argument
  <2>3. CASE Leave(chain, NoType, TRUE) /\ UNCHANGED errors  BY <1>4, <2>1, <2>3
  <2>4. CASE \E how : Die(how)  BY <2>4, DieMoves DEF Moves
  <2>5. CASE Report(Here.kids[Caller.i + 2], TRUE)
    <3>1. Children(Caller.node) = Tail(Here.kids)  BY <1>1, <2>1 DEF Children
    <3>2. Arity("CALL_EXPR", Len(Here.kids))  BY <1>1, <2>1, NodeFacts
    <3>3. Len(Here.kids) >= 1  BY <3>2 DEF Arity
    <3>4. Len(Tail(Here.kids)) = Len(Here.kids) - 1  BY <1>2, <3>3
    <3>5. Caller.i + 2 \in 1..Len(Here.kids)
      <4>1. Caller.i \in Nat /\ Len(Here.kids) \in Nat  BY <1>1, <1>2
      <4>2. Caller.i < Len(Children(Caller.node))  BY <1>1, <1>3, <2>1
      <4> QED  BY <3>1, <3>4, <4>1, <4>2
    <3>6. Here.kids[Caller.i + 2] \in Nodes  BY <1>2, <3>5
    <3> QED  BY <2>1, <2>5, <3>6, ReportMoves DEF Moves
  <2>6. CASE ~result.error /\ Proceed([Caller EXCEPT !.pc = "visit", !.i = @ + 1])
             /\ UNCHANGED chain
    <3>1. [Caller EXCEPT !.pc = "visit", !.i = @ + 1]
            = [Caller EXCEPT !.pc = "visit", !.i = @ + 1, !.type = Caller.type]
      BY <1>1 DEF CallType
    <3>2. Caller.type \in TypeType  BY <1>1 DEF CallType
    <3> QED  BY <1>5, <2>1, <2>6, <3>1, <3>2
  <2> QED  BY <2>2, <2>3, <2>4, <2>5, <2>6
<1> QED  BY <1>6, <1>7, <1>8 DEF Visiting

LEMMA LeavingActions ==
  ASSUME SemInv, Leaving
  PROVE  Moves
<1>1. /\ Caller \in CallType /\ Caller.node \in Nodes
      /\ Here = NodeData[Caller.node] /\ Here.type = TypeOf(Caller.node)
      /\ errors \in Seq(Nodes) /\ Caller.type \in TypeType
  BY CallFacts DEF CallType
<1>2. NoType \in TypeType  BY TypeFacts
<1>3. CASE process_expr
  <2>1. Yield(Caller.type) /\ TypeOf(Caller.node) \notin {"PROGRAM", "VAR_STAT"}
    BY <1>1, <1>3 DEF process_expr, In
  <2> QED  BY <1>1, <2>1, YieldMoves DEF Moves
<1>4. CASE process_untyped
  <2>1. Yield(NoType) /\ TypeOf(Caller.node) \notin {"PROGRAM", "VAR_STAT"}
    BY <1>1, <1>4 DEF process_untyped, In
  <2> QED  BY <1>2, <2>1, YieldMoves DEF Moves
<1>5. CASE process_failing
  <2>1. Leave(chain, NoType, TRUE) /\ UNCHANGED errors /\ TypeOf(Caller.node) # "PROGRAM"
    BY <1>1, <1>5 DEF process_failing, In
  <2> QED  BY <1>1, <1>2, <2>1, LeaveMoves DEF Moves
<1>6. CASE process_var_stat
  <2>1. TypeOf(Caller.node) = "VAR_STAT"  BY <1>1, <1>6 DEF process_var_stat, In
  <2>2. CASE Die("abort")  BY <2>2, DieMoves DEF Moves
  <2>3. CASE /\ Leave([chain EXCEPT ![Len(chain)] = Declare(@, Here.name, Caller.type)],
                      Caller.type, FALSE)
             /\ UNCHANGED errors
    <3> DEFINE ss == [chain EXCEPT ![Len(chain)] = Declare(@, Here.name, Caller.type)]
    <3>1. Here.name \in Names  BY <1>1, NodeFacts
    <3>2. Grown(ss, {Here.name})  BY <1>1, <3>1, DeclaredGrown
    <3>3. Leave(ss, Caller.type, FALSE) /\ errors' \in Seq(Nodes)  BY <1>1, <2>3
    <3> HIDE DEF ss
    <3>4. ss \in Seq(SemScopeType)  BY <3>2 DEF Grown
    <3> QED  BY <1>1, <2>1, <3>2, <3>3, <3>4 DEF Returns, Moves
  <2> QED  BY <1>6, <2>2, <2>3 DEF process_var_stat
<1>7. CASE process_semantics
  BY <1>7 DEF process_semantics, Rests, Moves
<1> QED  BY <1>3, <1>4, <1>5, <1>6, <1>7 DEF Leaving

-----------------------------------------------------------------------------
(***************************************************************************)
(* The initial states, and the theorems.                                   *)
(***************************************************************************)
LEMMA GlobalScopeFacts ==
  /\ GlobalAtStart \in SemScopeType
  /\ NamesIn(GlobalAtStart.vars) \subseteq Preloaded
  /\ \A k \in 1..Len(GlobalAtStart.types) : GlobalAtStart.types[k].type.types = <<>>
<1>1. \A x \in Names, n \in {0, 1} : Preload(x, n) \in SlotType /\ Preload(x, n).name = x
  <2>1. "u8" \in IntTypes /\ "u8" \in ValueTypes
    BY DEF IntTypes, ValueTypes, NumberTypes
  <2>2. \A n \in {0, 1} : [t |-> "u8", n |-> n] \in Value
    <3>1. Wrap("u8", 0) = 0 /\ Wrap("u8", 1) = 1
      <4>1. Low("u8") <= 0 /\ 1 < Low("u8") + Modulus["u8"] /\ Low("u8") \in Int
        BY <2>1, ModulusAssumption, RangeOfType DEF Low, SignedTypes
      <4> QED  BY <2>1, <4>1, RangeOfType, WrapIdentity
    <3> QED  BY <2>1, <3>1, FittingValue
  <2> QED  BY <2>1, <2>2, TypeFacts DEF Preload, Slot, SlotType
<1>2. {"null", "false", "true"} \subseteq Names  BY NamesAssumption
<1>3. GlobalAtStart.vars = <<Preload("null", 0), Preload("false", 0), Preload("true", 1)>>
      /\ GlobalAtStart.types = CoreTypes
      /\ GlobalAtStart = [vars |-> GlobalAtStart.vars, types |-> GlobalAtStart.types]
  BY DEF GlobalAtStart
<1>4. GlobalAtStart.vars \in Seq(SlotType)  BY <1>1, <1>2, <1>3
<1>5. NamesIn(GlobalAtStart.vars) \subseteq Preloaded
  <2>1. Len(GlobalAtStart.vars) = 3  BY <1>3
  <2>2. \A k \in 1..3 : GlobalAtStart.vars[k].name \in Preloaded
    BY <1>1, <1>2, <1>3 DEF Preloaded
  <2> QED  BY <2>1, <2>2 DEF NamesIn
<1>6. \A x \in TypeNames, vt \in ValueTypes :
        Named(x, Numeric(vt)) \in EntryType /\ Named(x, Numeric(vt)).type.types = <<>>
  BY TypeFacts DEF Named, Numeric, Type, EntryType
<1>7. {"i8", "i16", "i32", "i64", "u8", "u16", "u32", "u64", "f32", "f64"} \subseteq ValueTypes
  BY DEF ValueTypes, NumberTypes, IntTypes, FloatTypes
<1>8. CoreTypes \in Seq(EntryType) /\ \A k \in 1..Len(CoreTypes) : CoreTypes[k].type.types = <<>>
  <2> DEFINE entry == {e \in EntryType : e.type.types = <<>>}
  <2>1. CoreTypes \in Seq(entry)
    <3> DEFINE core(x, vt) == Named(x, Numeric(vt))
    <3>1. \A x \in TypeNames, vt \in ValueTypes : core(x, vt) \in entry  BY <1>6
    <3> HIDE DEF entry, core
    <3>2. /\ \A x \in {"i8", "i16", "i32", "i64", "u8", "u16", "u32", "u64", "f32", "f64"} :
                core(x, x) \in entry
          /\ core("bool", "u8") \in entry
      <4>1. /\ {"i8", "i16", "i32", "i64", "u8", "u16", "u32", "u64", "f32", "f64"} \subseteq TypeNames
            /\ "bool" \in TypeNames
        <5>1. {CoreTypes[k].name : k \in 1..11} \subseteq TypeNames
          <6>1. Len(CoreTypes) = 11  BY DEF CoreTypes
          <6> QED  BY <6>1 DEF TypeNames
        <5>2. /\ CoreTypes[1].name = "i8" /\ CoreTypes[2].name = "i16" /\ CoreTypes[3].name = "i32"
              /\ CoreTypes[4].name = "i64" /\ CoreTypes[5].name = "u8" /\ CoreTypes[6].name = "u16"
              /\ CoreTypes[7].name = "u32" /\ CoreTypes[8].name = "u64" /\ CoreTypes[9].name = "f32"
              /\ CoreTypes[10].name = "f64" /\ CoreTypes[11].name = "bool"
          BY DEF CoreTypes, Named
        <5> HIDE DEF TypeNames
        <5> QED  BY <5>1, <5>2
      <4>2. ASSUME NEW x \in {"i8", "i16", "i32", "i64", "u8", "u16", "u32", "u64", "f32", "f64"}
            PROVE  core(x, x) \in entry
        <5>1. x \in TypeNames  BY <4>1
        <5>2. x \in ValueTypes  BY <1>7
        <5> QED  BY <3>1, <5>1, <5>2
      <4> QED  BY <1>7, <3>1, <4>1, <4>2
    <3>3. CoreTypes =
            <<core("i8", "i8"), core("i16", "i16"), core("i32", "i32"), core("i64", "i64"),
              core("u8", "u8"), core("u16", "u16"), core("u32", "u32"), core("u64", "u64"),
              core("f32", "f32"), core("f64", "f64"), core("bool", "u8")>>
      BY DEF CoreTypes, core
    <3> QED  BY <3>2, <3>3
  <2>2. entry \subseteq EntryType  OBVIOUS
  <2>3. \A k \in 1..Len(CoreTypes) : CoreTypes[k] \in entry
    <3> HIDE DEF entry
    <3> QED  BY <2>1, ElementOfSeq
  <2>4. CoreTypes \in Seq(EntryType)
    <3> HIDE DEF entry
    <3> QED  BY <2>1, <2>2, SeqMonotonic
  <2> QED  BY <2>3, <2>4
<1> QED  BY <1>3, <1>4, <1>5, <1>8, ScopeMade

LEMMA SemInitInv ==
  ASSUME SemInit
  PROVE  SemInv
<1>1. PICK program \in Programs :
        /\ calls = <<NewCall(program, 1)>> /\ chain = <<GlobalAtStart>>
        /\ result = SemRes(NoType, FALSE) /\ errors = <<>>
  BY DEF SemInit
<1>2. program \in Nodes /\ TypeOf(program) = "PROGRAM"  BY ProgramsAssumption
<1> DEFINE f == NewCall(program, 1)
<1>3. /\ f \in CallType /\ f.node = program /\ f.scope = 1 /\ f.pc = "visit" /\ f.i = 0
  BY <1>2, TypeFacts DEF NewCall, CallType, Prepared
<1>4. calls = <<f>>  BY <1>1
<1> HIDE DEF f
<1>5. calls \in Seq(CallType) /\ Len(calls) = 1 /\ calls[1] = f  BY <1>3, <1>4
<1>6. /\ chain \in Seq(SemScopeType) /\ Len(chain) = 1 /\ chain[1] = GlobalAtStart
  BY <1>1, GlobalScopeFacts
<1>7. DataOK
  <2>1. errors \in Seq(Nodes)  BY <1>1
  <2> QED  BY <1>1, <1>5, <1>6, <2>1, TypeFacts DEF DataOK, SemRes
<1>8. Calling(calls)
  <2>1. Len(Children(program)) \in Nat  BY <1>2, ChildrenFacts
  <2>2. FrameOK(f)  BY <1>3, <2>1 DEF FrameOK
  <2> QED  BY <1>2, <1>3, <1>5, <2>2 DEF Calling
<1>9. ~Open(f)  BY <1>2, <1>3 DEF Open
<1>10. Stacked(calls, chain)
  <2>1. Depth(calls, 0) = 0 /\ Depth(calls, 0 + 1) = 0
    BY <1>5, <1>9, DepthFacts
  <2> QED  BY <1>3, <1>5, <1>6, <2>1 DEF Stacked
<1>11. ByTheText(calls, result.error, chain)
  BY <1>5, <1>6, <1>9, GlobalScopeFacts DEF ByTheText
<1>12. Resolved(chain)
  <2>1. ResolvedAt(chain, 1)  BY <1>6, GlobalScopeFacts DEF ResolvedAt
  <2> QED  BY <1>6, <2>1 DEF Resolved
<1> QED  BY <1>7, <1>8, <1>10, <1>11, <1>12 DEF SemInv

LEMMA SemNextInv ==
  ASSUME SemInv, [SemNext]_semVars
  PROVE  SemInv'
<1>1. CASE SemNext
  BY <1>1, LeafActions, EnteringActions, VisitingActions, LeavingActions, MovesKeeps
  DEF SemNext
<1>2. CASE UNCHANGED semVars
  <2>1. Rests  BY <1>2 DEF semVars, Rests
  <2> QED  BY <2>1, MovesKeeps DEF Moves
<1> QED  BY <1>1, <1>2

(***************************************************************************)
(* The invariant holds of every run on every program of the parser's.      *)
(***************************************************************************)
THEOREM SemInvariance == SemSpec => []SemInv
<1>1. SemInit => SemInv  BY SemInitInv
<1>2. SemInv /\ [SemNext]_semVars => SemInv'  BY SemNextInv
<1> QED  BY <1>1, <1>2, PTL DEF SemSpec

(***************************************************************************)
(* semantics.c:244, 157-191: whichever functions and blocks ended in an    *)
(* error, the scopes a name is looked up in are those of the text around   *)
(* the statement at hand.                                                  *)
(***************************************************************************)
THEOREM ScopingIsLexical == SemSpec => []LexicalScoping
<1>1. SemInv => LexicalScoping
  <2>1. SUFFICES ASSUME SemInv PROVE LexicalScoping  OBVIOUS
  <2>2. /\ Stacked(calls, chain) /\ ByTheText(calls, result.error, chain)
        /\ Len(calls) \in Nat /\ 1 \in 1..Len(calls)
        /\ \A j \in 1..Len(calls) : Open(calls[j]) <=> Opens(j)
    BY <2>1, CallFacts DEF SemInv, Open, Opens
  <2>3. \A n \in 0..Len(calls) : Depth(calls, n) = Cardinality({k \in 1..n : Opens(k)})
    <3>1. ASSUME NEW n \in 0..Len(calls)
          PROVE  Depth(calls, n) = Cardinality({k \in 1..n : Opens(k)})
      <4>1. {k \in 1..n : Open(calls[k])} = {k \in 1..n : Opens(k)}  BY <2>2
      <4> QED  BY <4>1 DEF Depth
    <3> QED  BY <3>1
  <2>4. \A j \in 1..Len(calls) : PassedIn(calls, result.error, j) = Passed(j)
    BY DEF PassedIn, Passed, Through
  <2>5. \A j \in 1..Len(calls) : VarsUpTo(calls[j].node, PassedIn(calls, result.error, j)) = VarsBefore(j)
    BY <2>4 DEF VarsUpTo, VarsBefore
  <2>6. \A j \in 1..Len(calls) : Declared(calls[j].node, PassedIn(calls, result.error, j)) = Declares(j)
    BY <2>5 DEF Declared, Declares, ParamsOf
  <2>7. Len(chain) = 1 + Cardinality({j \in 1..Len(calls) : Opens(j)})
    <3>1. Len(calls) \in 0..Len(calls)  BY <2>2
    <3> QED  BY <2>2, <2>3, <3>1 DEF Stacked
  <2>8. ASSUME NEW j \in 1..Len(calls)
        PROVE  calls[j].scope = 1 + Cardinality({k \in 1..(j - 1) : Opens(k)})
    <3>1. j - 1 \in 0..Len(calls)  BY <2>2
    <3> QED  BY <2>2, <2>3, <3>1 DEF Stacked
  <2>9. \A j \in 1..Len(calls) : Opens(j) => NamesIn(chain[calls[j].scope + 1].vars) = Declares(j)
    BY <2>2, <2>6 DEF ByTheText
  <2>10. NamesIn(chain[1].vars) \subseteq {"null", "false", "true"} \cup VarsBefore(1)
    BY <2>2, <2>5 DEF ByTheText, Preloaded
  <2> QED  BY <2>7, <2>8, <2>9, <2>10 DEF LexicalScoping
<1> QED  BY <1>1, SemInvariance, PTL

(***************************************************************************)
(* semantics.c:157-186, 361-386: a function or struct is registered only   *)
(* when each of its members' types was found, and stays below the tables   *)
(* it was found in.                                                        *)
(***************************************************************************)
THEOREM TypesAlwaysResolve == SemSpec => []TypesResolve
<1>1. SemInv => TypesResolve  BY DEF SemInv, Resolved, ResolvedAt, TypesResolve
<1> QED  BY <1>1, SemInvariance, PTL

-----------------------------------------------------------------------------
(***************************************************************************)
(* eval.c on every tree: whatever is evaluated, it comes to a value or the *)
(* process ends.                                                           *)
(***************************************************************************)
EvalStep(n, f) ==
  CASE TypeOf(n) = "INTEGER_LIT" -> {OK([t |-> "i32", n |-> Wrap("i32", NodeData[n].num)])}
    [] TypeOf(n) = "FLOAT_LIT" -> {OK([t |-> "f32", n |-> NodeData[n].num])}
    [] TypeOf(n) = "IDENT_LIT" -> {OK(scope_get_var(NodeData[n].name))}
    [] TypeOf(n) = "BIN_EXPR" ->
         Combined(NodeData[n].aux, f[NodeData[n].kids[1]], f[NodeData[n].kids[2]])
    [] TypeOf(n) = "UN_EXPR" -> Negated(NodeData[n].aux, f[NodeData[n].kids[1]])
    [] OTHER -> {Fault("abort")}

LEMMA EvaluationRecurses ==
  ASSUME NEW g, g = [n \in Nodes |-> EvalStep(n, g)]
  PROVE  evaluate_expr_node = [n \in Nodes |-> EvalStep(n, evaluate_expr_node)]
BY DEF evaluate_expr_node, EvalStep

LEMMA VarValue ==
  ASSUME chain \in Seq(SemScopeType), NEW x
  PROVE  scope_get_var(x) \in Value
<1>1. CASE Holding(x) = {}
  <2>1. scope_get_var(x) = Zero("none")  BY <1>1 DEF scope_get_var, None
  <2> QED  BY <2>1, ZeroFits DEF ValueTypes
<1>2. CASE Holding(x) # {}
  <2> DEFINE s == Max(Holding(x))
  <2>1. Len(chain) \in Nat /\ Holding(x) \in SUBSET (1..Len(chain))  BY DEF Holding
  <2>2. s \in Holding(x)  BY <1>2, <2>1, MaxExists
  <2>3. s \in 1..Len(chain) /\ Places(chain[s].vars, x) # {}  BY <2>2 DEF Holding
  <2>4. chain[s] \in SemScopeType  BY <2>3
  <2>5. First(chain[s].vars, x) \in SlotType  BY <2>3, <2>4, ScopeFacts, FirstFacts
  <2>6. scope_get_var(x) = First(chain[s].vars, x).value  BY <1>2 DEF scope_get_var, Found
  <2> QED  BY <2>5, <2>6 DEF SlotType
<1> QED  BY <1>1, <1>2

LEMMA CombinedOutcomes ==
  ASSUME NEW op, NEW L \in SUBSET Outcome, NEW R \in SUBSET Outcome
  PROVE  Combined(op, L, R) \subseteq Outcome
<1>1. ASSUME NEW l \in L, NEW r \in R
      PROVE  (IF l.fault # "none" THEN {l} ELSE IF r.fault # "none" THEN {r}
              ELSE BinaryOutcomes(op, l.value, r.value)) \subseteq Outcome
  <2>1. l \in Outcome /\ r \in Outcome  OBVIOUS
  <2>2. l.value \in Value /\ r.value \in Value  BY <2>1 DEF Outcome
  <2>3. \A o \in BinaryOutcomes(op, l.value, r.value) : o \in Outcome
    BY <2>2, BinaryYields DEF Yields
  <2> QED  BY <2>1, <2>3
<1> QED  BY <1>1 DEF Combined

LEMMA NegatedOutcomes ==
  ASSUME NEW op, NEW E \in SUBSET Outcome
  PROVE  Negated(op, E) \subseteq Outcome
<1>1. ASSUME NEW e \in E
      PROVE  (IF e.fault # "none" THEN e ELSE NegateOutcome(op, e.value)) \in Outcome
  <2>1. e \in Outcome  OBVIOUS
  <2>2. e.value \in Value  BY <2>1 DEF Outcome
  <2>3. NegateOutcome(op, e.value) \in Outcome  BY <2>2, NegateYields DEF Yields
  <2> QED  BY <2>1, <2>3
<1> QED  BY <1>1 DEF Negated

\* What is evaluated at a node are its own children.
LEMMA OperandFacts ==
  ASSUME NEW n \in Nodes
  PROVE  /\ TypeOf(n) = "BIN_EXPR" => 1 \in 1..Len(NodeData[n].kids) /\ 2 \in 1..Len(NodeData[n].kids)
         /\ TypeOf(n) \in {"UN_EXPR", "UPDATE_EXPR"} => 1 \in 1..Len(NodeData[n].kids)
         /\ TypeOf(n) = "ASSIGN_EXPR" => 1 \in 1..Len(NodeData[n].kids) /\ 2 \in 1..Len(NodeData[n].kids)
         /\ \A k \in 1..Len(NodeData[n].kids) :
              NodeData[n].kids[k] \in Nodes /\ Height[NodeData[n].kids[k]] < Height[n]
<1>1. Arity(TypeOf(n), Len(NodeData[n].kids)) /\ Len(NodeData[n].kids) \in Nat  BY NodeFacts
<1>2. \A k \in 1..Len(NodeData[n].kids) :
        NodeData[n].kids[k] \in Nodes /\ Height[NodeData[n].kids[k]] < Height[n]
  BY NodeFacts, TreeAssumption
<1> DEFINE len == Len(NodeData[n].kids)
<1> HIDE DEF len
<1>3. /\ TypeOf(n) \in {"BIN_EXPR", "ASSIGN_EXPR"} => len = 2
      /\ TypeOf(n) \in {"UN_EXPR", "UPDATE_EXPR"} => len = 1
  BY <1>1 DEF Arity, len
<1> QED  BY <1>2, <1>3 DEF len

LEMMA EvalStepFacts ==
  ASSUME chain \in Seq(SemScopeType), NEW n \in Nodes
  PROVE  /\ \A f \in [Nodes -> SUBSET Outcome] : EvalStep(n, f) \in SUBSET Outcome
         /\ \A f, g :
              (\A m \in Nodes : Height[m] < Height[n] => f[m] = g[m])
                => EvalStep(n, f) = EvalStep(n, g)
<1> DEFINE data == NodeData[n]
<1>1. data.num \in Int  BY NodesAssumption
<1>2. OK([t |-> "i32", n |-> Wrap("i32", data.num)]) \in Outcome
  BY <1>1, WrapFits, ValueYields DEF Yields, IntTypes
<1>3. OK([t |-> "f32", n |-> data.num]) \in Outcome
  BY <1>1, FloatsFit, ValueYields DEF Yields, FloatTypes
<1>4. OK(scope_get_var(data.name)) \in Outcome  BY VarValue, ValueYields DEF Yields
<1>5. Fault("abort") \in Outcome  BY FaultYields DEF Yields
<1>6. ASSUME NEW f \in [Nodes -> SUBSET Outcome]
      PROVE  EvalStep(n, f) \in SUBSET Outcome
  <2>1. CASE TypeOf(n) = "BIN_EXPR"
    <3>1. data.kids[1] \in Nodes /\ data.kids[2] \in Nodes  BY <2>1, OperandFacts
    <3>2. f[data.kids[1]] \in SUBSET Outcome /\ f[data.kids[2]] \in SUBSET Outcome  BY <3>1
    <3>3. EvalStep(n, f) = Combined(data.aux, f[data.kids[1]], f[data.kids[2]])
      BY <2>1 DEF EvalStep
    <3> QED  BY <3>2, <3>3, CombinedOutcomes
  <2>2. CASE TypeOf(n) = "UN_EXPR"
    <3>1. data.kids[1] \in Nodes  BY <2>2, OperandFacts
    <3>2. f[data.kids[1]] \in SUBSET Outcome  BY <3>1
    <3>3. EvalStep(n, f) = Negated(data.aux, f[data.kids[1]])  BY <2>2 DEF EvalStep
    <3> QED  BY <3>2, <3>3, NegatedOutcomes
  <2>3. CASE TypeOf(n) \notin {"BIN_EXPR", "UN_EXPR"}
    BY <1>2, <1>3, <1>4, <1>5, <2>3 DEF EvalStep
  <2> QED  BY <2>1, <2>2, <2>3
<1>7. ASSUME NEW f, NEW g,
             \A m \in Nodes : Height[m] < Height[n] => f[m] = g[m]
      PROVE  EvalStep(n, f) = EvalStep(n, g)
  <2>1. CASE TypeOf(n) = "BIN_EXPR"
    <3>1. f[data.kids[1]] = g[data.kids[1]] /\ f[data.kids[2]] = g[data.kids[2]]
      BY <1>7, <2>1, OperandFacts
    <3> QED  BY <2>1, <3>1 DEF EvalStep
  <2>2. CASE TypeOf(n) = "UN_EXPR"
    <3>1. f[data.kids[1]] = g[data.kids[1]]  BY <1>7, <2>2, OperandFacts
    <3> QED  BY <2>2, <3>1 DEF EvalStep
  <2>3. CASE TypeOf(n) \notin {"BIN_EXPR", "UN_EXPR"}
    BY <2>3 DEF EvalStep
  <2> QED  BY <2>1, <2>2, <2>3
<1> QED  BY <1>6, <1>7

LEMMA HeightFacts ==
  [n \in Nodes |-> Height[n]] \in [Nodes -> Nat]
  BY TreeAssumption

LEMMA EvaluationYields ==
  ASSUME chain \in Seq(SemScopeType)
  PROVE  evaluate_expr_node \in [Nodes -> SUBSET Outcome]
<1> DEFINE S == SUBSET Outcome
<1> DEFINE height == [n \in Nodes |-> Height[n]]
<1> DEFINE D == [n \in Nodes |-> [f \in [Nodes -> S] |-> EvalStep(n, f)]]
<1>1. D \in [Nodes -> [[Nodes -> S] -> S]]
  <2>1. \A n \in Nodes : \A f \in [Nodes -> S] : EvalStep(n, f) \in S  BY EvalStepFacts
  <2> HIDE DEF S
  <2> QED  BY <2>1
<1>2. \A n \in Nodes : \A f, g \in [Nodes -> S] :
        (\A m \in Nodes : height[m] < height[n] => f[m] = g[m]) => D[n][f] = D[n][g]
  <2>1. SUFFICES ASSUME NEW n \in Nodes, NEW f \in [Nodes -> S], NEW g \in [Nodes -> S],
                        \A m \in Nodes : height[m] < height[n] => f[m] = g[m]
                 PROVE  D[n][f] = D[n][g]
    OBVIOUS
  <2>2. EvalStep(n, f) = EvalStep(n, g)  BY <2>1, EvalStepFacts
  <2> HIDE DEF S
  <2> QED  BY <2>2
<1>3. height \in [Nodes -> Nat] /\ S # {}  BY HeightFacts
<1>4. PICK g \in [Nodes -> S] : \A n \in Nodes : g[n] = D[n][g]
  <2> HIDE DEF S, height, D
  <2>1. D \in Recursions(Nodes, S, height)  BY <1>1, <1>2 DEF Recursions
  <2> QED  BY <1>3, <2>1, TreeRecursion
<1>5. \A n \in Nodes : g[n] = EvalStep(n, g)
  <2> HIDE DEF S
  <2> QED  BY <1>4
<1>6. g = [n \in Nodes |-> EvalStep(n, g)]  BY <1>4, <1>5
<1>7. evaluate_expr_node = [n \in Nodes |-> EvalStep(n, evaluate_expr_node)]
  BY <1>6, EvaluationRecurses
<1> DEFINE Same == {n \in Nodes : evaluate_expr_node[n] = g[n]}
<1>8. ASSUME NEW n \in Nodes, \A m \in Nodes : height[m] < height[n] => m \in Same
      PROVE  n \in Same
  <2>1. \A m \in Nodes : Height[m] < Height[n] => evaluate_expr_node[m] = g[m]  BY <1>8
  <2>2. EvalStep(n, evaluate_expr_node) = EvalStep(n, g)  BY <2>1, EvalStepFacts
  <2> QED  BY <1>5, <1>7, <2>2
<1>9. Nodes \subseteq Same
  <2> HIDE DEF height, Same
  <2> QED  BY <1>3, <1>8, TreeInduction
<1>10. \A n \in Nodes : evaluate_expr_node[n] \in S  BY <1>4, <1>9
<1> QED  BY <1>7, <1>10

(***************************************************************************)
(* How a step can end the process: in a way the model has a name for.      *)
(***************************************************************************)
Verdicts == {"run", "accepted", "rejected", "abort", "exit", "crash", "overflow"}

Undecided == {"run", "abort", "exit", "crash", "overflow"}

\* Only process_semantics decides.
LEMMA VerdictSteps ==
  ASSUME SemInv, SemNext
  PROVE  verdict = "run" /\ (verdict' \in Undecided \/ process_semantics)
<1>0. verdict = "run"
  <2>1. \A types, pc : In(types, pc) => verdict = "run"  BY DEF In
  <2>2. Leaves => verdict = "run"
    BY <2>1 DEF Leaves, process_integer_lit, process_float_lit, process_ident_lit, process_jump,
      process_cast_expr, process_struct_stat, process_unsupported, process_null, EnumEntry,
      process_enum_stat
  <2>3. Entering => verdict = "run"
    BY <2>1 DEF Entering, VarEnter, FnEnter, BlockEnter, CallEnter
  <2>4. Visiting => verdict = "run"  BY <2>1 DEF Visiting, Visit, Visited, Argument
  <2>5. Leaving => verdict = "run"
    BY <2>1 DEF Leaving, process_expr, process_untyped, process_failing, process_var_stat,
      process_semantics
  <2> QED  BY <2>2, <2>3, <2>4, <2>5 DEF SemNext
<1> SUFFICES ASSUME ~process_semantics PROVE verdict' \in Undecided
  BY <1>0
<1>1. \A scopes, type, error : Leave(scopes, type, error) => verdict' \in Undecided
  BY <1>0 DEF Leave, Undecided
<1>2. \A type : Yield(type) => verdict' \in Undecided  BY <1>1 DEF Yield
<1>3. \A how \in {"abort", "exit", "crash", "overflow"} : Die(how) => verdict' \in Undecided
  BY DEF Die, Undecided
<1>4. /\ \A n, error : Report(n, error) => verdict' \in Undecided
      /\ \A n : ReportNamed(n) => verdict' \in Undecided
  <2>1. \A n, error : Report(n, error) => verdict' \in Undecided  BY <1>1, <1>3 DEF Report
  <2> QED  BY <1>3, <2>1 DEF ReportNamed
<1>5. \A f : Proceed(f) => verdict' \in Undecided  BY <1>0 DEF Proceed, Undecided
<1>6. CASE EnumEntry
  <2> DEFINE value == Here.kids[Caller.i + 1]
  <2> DEFINE given == TypeOf(value) \notin {"NULL", "NONE"}
  <2> DEFINE outcomes == IF given THEN evaluate_expr_node[value] ELSE {OK(Zero("i32"))}
  <2>1. PICK o \in outcomes :
          IF o.fault # "none" THEN Die(o.fault)
          ELSE IF o.value.t = "none" THEN ReportNamed(value)
          ELSE IF Caller.i = MaxVars THEN Die("overflow")
          ELSE Proceed([Caller EXCEPT !.i = @ + 1]) /\ UNCHANGED chain
    BY <1>6 DEF EnumEntry
  <2>2. value \in Nodes
    <3>1. Caller.node \in Nodes /\ Here = NodeData[Caller.node] /\ Caller.i \in Nat  BY CallFacts
    <3>2. Caller.i + 1 \in 1..Len(Here.kids)  BY <1>6, <3>1, NodeFacts DEF EnumEntry
    <3> QED  BY <3>1, <3>2, NodeFacts
  <2>3. outcomes \subseteq Outcome
    <3>1. evaluate_expr_node[value] \subseteq Outcome  BY <2>2, CallFacts, EvaluationYields
    <3>2. OK(Zero("i32")) \in Outcome
      BY ZeroFits, ValueYields DEF Yields, ValueTypes, NumberTypes, IntTypes
    <3> QED  BY <3>1, <3>2
  <2>4. o.fault \in {"none", "abort", "exit", "crash"}  BY <2>3 DEF Outcome
  <2> HIDE DEF value, given, outcomes
  <2> QED  BY <1>3, <1>4, <1>5, <2>1, <2>4
<1>7. CASE Leaves /\ ~EnumEntry
  BY <1>2, <1>3, <1>1, <1>4, <1>7
  DEF Leaves, process_integer_lit, process_float_lit, process_ident_lit, process_jump,
      process_cast_expr, process_struct_stat, process_unsupported, process_null, process_enum_stat
<1>8. CASE Entering
  BY <1>3, <1>4, <1>5, <1>8 DEF Entering, VarEnter, FnEnter, BlockEnter, CallEnter
<1>9. CASE Visit  BY <1>0, <1>9 DEF Visit, Process, Undecided
<1>10. CASE Visited  BY <1>1, <1>5, <1>10 DEF Visited
<1>11. CASE Argument  BY <1>1, <1>3, <1>4, <1>5, <1>11 DEF Argument
<1>12. CASE process_expr \/ process_untyped \/ process_failing \/ process_var_stat
  BY <1>1, <1>2, <1>3, <1>12 DEF process_expr, process_untyped, process_failing, process_var_stat
<1> QED
  BY <1>0, <1>6, <1>7, <1>8, <1>9, <1>10, <1>11, <1>12 DEF SemNext, Visiting, Leaving

LEMMA VerdictStep ==
  ASSUME SemInv, verdict \in Verdicts, [SemNext]_semVars
  PROVE  verdict' \in Verdicts
<1>1. CASE SemNext /\ verdict' \in Undecided  BY <1>1 DEF Verdicts, Undecided
<1>2. CASE process_semantics  BY <1>2 DEF process_semantics, Verdicts
<1>3. CASE UNCHANGED semVars  BY <1>3 DEF semVars
<1> QED  BY <1>1, <1>2, <1>3, VerdictSteps

(***************************************************************************)
(* semantics.c, eval.c:44-303: the variables of the stage stay within what *)
(* their C counterparts hold, and it goes on, comes to a verdict, or ends  *)
(* the process in one of four ways: by an assertion, by exit, by a trap,   *)
(* or past the end of an array.                                            *)
(***************************************************************************)
THEOREM SemTypesHold == SemSpec => []SemTypeOK
<1> DEFINE Inv == SemInv /\ verdict \in Verdicts
<1>1. SemInit => Inv
  <2>1. SemInit => verdict \in Verdicts  BY DEF SemInit, Verdicts
  <2> QED  BY <2>1, SemInitInv
<1>2. Inv /\ [SemNext]_semVars => Inv'
  <2>1. SUFFICES ASSUME Inv, [SemNext]_semVars PROVE Inv'  OBVIOUS
  <2>2. SemInv'  BY <2>1, SemNextInv
  <2>3. verdict' \in Verdicts  BY <2>1, VerdictStep
  <2> QED  BY <2>2, <2>3 DEF Verdicts
<1>3. Inv => SemTypeOK  BY DEF SemInv, SemTypeOK, Verdicts
<1> QED  BY <1>1, <1>2, <1>3, PTL DEF SemSpec

-----------------------------------------------------------------------------
(***************************************************************************)
(* The type of an expression, by recursion over its tree, from the types   *)
(* of its identifiers and of its casts.                                    *)
(***************************************************************************)
Ascribed[n \in Nodes] ==
  LET data == NodeData[n] IN
  CASE data.type = "INTEGER_LIT" -> "i32"
    [] data.type = "FLOAT_LIT" -> "f32"
    [] data.type = "IDENT_LIT" -> Found(data.name).type.vt
    [] data.type \in {"BIN_EXPR", "UN_EXPR", "UPDATE_EXPR"} -> Ascribed[data.kids[1]]
    [] data.type = "ASSIGN_EXPR" -> Ascribed[data.kids[2]]
    [] data.type = "CAST_EXPR" -> scope_get_type(data.aux).vt
    [] OTHER -> "none"

IdentTypes == [n \in Nodes |-> Found(NodeData[n].name).type.vt]
CastTypes == [n \in Nodes |-> scope_get_type(NodeData[n].aux).vt]
TypeStep(n, f, idents, casts) ==
  CASE TypeOf(n) = "INTEGER_LIT" -> "i32"
    [] TypeOf(n) = "FLOAT_LIT" -> "f32"
    [] TypeOf(n) = "IDENT_LIT" -> idents[n]
    [] TypeOf(n) \in {"BIN_EXPR", "UN_EXPR", "UPDATE_EXPR"} -> f[NodeData[n].kids[1]]
    [] TypeOf(n) = "ASSIGN_EXPR" -> f[NodeData[n].kids[2]]
    [] TypeOf(n) = "CAST_EXPR" -> casts[n]
    [] OTHER -> "none"

ExprTypes == [n \in Nodes |-> ExprType(n)]

LEMMA AscribedRecurses ==
  ASSUME NEW g, g = [n \in Nodes |-> TypeStep(n, g, IdentTypes, CastTypes)]
  PROVE  Ascribed = [n \in Nodes |-> TypeStep(n, Ascribed, IdentTypes, CastTypes)]
<1> DEFINE After(f) ==
      [n \in Nodes |->
         LET data == NodeData[n] IN
         CASE data.type = "INTEGER_LIT" -> "i32"
           [] data.type = "FLOAT_LIT" -> "f32"
           [] data.type = "IDENT_LIT" -> Found(data.name).type.vt
           [] data.type \in {"BIN_EXPR", "UN_EXPR", "UPDATE_EXPR"} -> f[data.kids[1]]
           [] data.type = "ASSIGN_EXPR" -> f[data.kids[2]]
           [] data.type = "CAST_EXPR" -> scope_get_type(data.aux).vt
           [] OTHER -> "none"]
<1>1. ASSUME NEW f
      PROVE  [n \in Nodes |-> TypeStep(n, f, IdentTypes, CastTypes)] = After(f)
  BY DEF TypeStep, IdentTypes, CastTypes, TypeOf
<1>2. g = After(g)  BY <1>1
<1>3. Ascribed = After(Ascribed)  BY <1>2 DEF Ascribed
<1> HIDE DEF After
<1> QED  BY <1>1, <1>3

LEMMA ExprTypeIsAscribed == ASSUME NEW e PROVE ExprType(e) = Ascribed[e]
BY DEF ExprType, Ascribed

LEMMA TypeStepSame ==
  ASSUME NEW n \in Nodes, NEW f, NEW g, NEW idents, NEW casts,
         \A m \in Nodes : Height[m] < Height[n] => f[m] = g[m]
  PROVE  TypeStep(n, f, idents, casts) = TypeStep(n, g, idents, casts)
<1> DEFINE kids == NodeData[n].kids
<1>1. /\ TypeOf(n) \in {"BIN_EXPR", "UN_EXPR", "UPDATE_EXPR"} => f[kids[1]] = g[kids[1]]
      /\ TypeOf(n) = "ASSIGN_EXPR" => f[kids[2]] = g[kids[2]]
  BY OperandFacts
<1> HIDE DEF kids
<1> QED  BY <1>1 DEF TypeStep, kids

LEMMA ExprTypesRecurse ==
  \A n \in Nodes : ExprTypes[n] = TypeStep(n, ExprTypes, IdentTypes, CastTypes)
<1> DEFINE S == {"i32", "f32", "none"} \cup {IdentTypes[n] : n \in Nodes} \cup {CastTypes[n] : n \in Nodes}
<1> DEFINE height == [n \in Nodes |-> Height[n]]
<1> DEFINE D == [n \in Nodes |-> [f \in [Nodes -> S] |-> TypeStep(n, f, IdentTypes, CastTypes)]]
<1>1. ASSUME NEW n \in Nodes, NEW f \in [Nodes -> S]
      PROVE  TypeStep(n, f, IdentTypes, CastTypes) \in S
  <2> DEFINE kids == NodeData[n].kids
  <2>1. /\ TypeOf(n) \in {"BIN_EXPR", "UN_EXPR", "UPDATE_EXPR"} => f[kids[1]] \in S
        /\ TypeOf(n) = "ASSIGN_EXPR" => f[kids[2]] \in S
    <3>1. /\ TypeOf(n) \in {"BIN_EXPR", "UN_EXPR", "UPDATE_EXPR"} => kids[1] \in Nodes
          /\ TypeOf(n) = "ASSIGN_EXPR" => kids[2] \in Nodes
      BY OperandFacts
    <3> HIDE DEF S, kids
    <3> QED  BY <3>1
  <2>2. {"i32", "f32", "none", IdentTypes[n], CastTypes[n]} \subseteq S  OBVIOUS
  <2> HIDE DEF S, kids
  <2> QED  BY <2>1, <2>2 DEF TypeStep, kids
<1>2. D \in Recursions(Nodes, S, height)
  <2>1. D \in [Nodes -> [[Nodes -> S] -> S]]
    <3> HIDE DEF S
    <3> QED  BY <1>1
  <2>2. ASSUME NEW n \in Nodes, NEW f \in [Nodes -> S], NEW g \in [Nodes -> S],
               \A m \in Nodes : height[m] < height[n] => f[m] = g[m]
        PROVE  D[n][f] = D[n][g]
    <3>1. TypeStep(n, f, IdentTypes, CastTypes) = TypeStep(n, g, IdentTypes, CastTypes)
      BY <2>2, TypeStepSame
    <3> HIDE DEF S
    <3> QED  BY <3>1
  <2> HIDE DEF S, height, D
  <2> QED  BY <2>1, <2>2 DEF Recursions
<1>3. height \in [Nodes -> Nat] /\ S # {}  BY HeightFacts
<1>4. PICK g \in [Nodes -> S] : \A n \in Nodes : g[n] = D[n][g]
  <2> HIDE DEF S, height, D
  <2> QED  BY <1>2, <1>3, TreeRecursion
<1>5. \A n \in Nodes : g[n] = TypeStep(n, g, IdentTypes, CastTypes)
  <2> HIDE DEF S
  <2> QED  BY <1>4
<1>6. g = [n \in Nodes |-> TypeStep(n, g, IdentTypes, CastTypes)]  BY <1>4, <1>5
<1>7. Ascribed = [n \in Nodes |-> TypeStep(n, Ascribed, IdentTypes, CastTypes)]
  BY <1>6, AscribedRecurses
<1>8. ExprTypes = Ascribed
  <2>1. ExprTypes = [n \in Nodes |-> Ascribed[n]]  BY ExprTypeIsAscribed DEF ExprTypes
  <2> QED  BY <1>7, <2>1
<1> QED  BY <1>7, <1>8

\* While the scopes stay as they are, so do the types of all expressions.
LEMMA SameTypes ==
  ASSUME chain' = chain
  PROVE  ExprTypes' = ExprTypes
<1> DEFINE new == ExprTypes'
<1>1. IdentTypes' = IdentTypes /\ CastTypes' = CastTypes
  BY DEF IdentTypes, CastTypes, Found, Holding, scope_get_type, Typing
<1>2. \A n \in Nodes : new[n] = TypeStep(n, new, IdentTypes, CastTypes)
  <2>1. (\A n \in Nodes : ExprTypes[n] = TypeStep(n, ExprTypes, IdentTypes, CastTypes))'
    BY ExprTypesRecurse, PTL
  <2> QED  BY <1>1, <2>1 DEF TypeStep
<1>3. new = [n \in Nodes |-> new[n]]  BY DEF ExprTypes
<1> HIDE DEF new
<1> DEFINE height == [n \in Nodes |-> Height[n]]
<1> DEFINE Same == {n \in Nodes : new[n] = ExprTypes[n]}
<1>4. ASSUME NEW n \in Nodes, \A m \in Nodes : height[m] < height[n] => m \in Same
      PROVE  n \in Same
  <2>1. \A m \in Nodes : Height[m] < Height[n] => new[m] = ExprTypes[m]  BY <1>4
  <2>2. TypeStep(n, new, IdentTypes, CastTypes) = TypeStep(n, ExprTypes, IdentTypes, CastTypes)
    BY <2>1, TypeStepSame
  <2> QED  BY <1>2, <2>2, ExprTypesRecurse
<1>5. Nodes \subseteq Same
  <2>1. height \in [Nodes -> Nat]  BY HeightFacts
  <2> HIDE DEF height, Same
  <2> QED  BY <1>4, <2>1, TreeInduction
<1>6. ExprTypes = [n \in Nodes |-> ExprTypes[n]]  BY DEF ExprTypes
<1>7. new = ExprTypes  BY <1>3, <1>5, <1>6
<1> QED  BY <1>7 DEF new

-----------------------------------------------------------------------------
(***************************************************************************)
(* The types of expressions.  The inductive invariant says of each frame   *)
(* of an expression that its local Type is the type of what it is through  *)
(* with, and of the last result that it is the type of the child.  While   *)
(* an expression is processed the scopes stay as they are: its frame lies  *)
(* below frames of expressions only.                                       *)
(***************************************************************************)
TypeTable == [T \in STRING |-> scope_get_type(T).vt]

FrameTyped(f, types, table) ==
  LET kids == NodeData[f.node].kids IN
  /\ TypeOf(f.node) \in {"BIN_EXPR", "UN_EXPR", "UPDATE_EXPR"} /\ f.i >= 1 =>
       f.type.vt = types[kids[1]]
  /\ TypeOf(f.node) = "ASSIGN_EXPR" /\ f.i >= 1 => f.type.vt = types[kids[2]]
  /\ TypeOf(f.node) = "CALL_EXPR" =>
       \A k \in 1..f.i : k <= Len(f.type.types) /\ types[kids[k + 1]] = table[f.type.types[k]]
Typed(q, types, table) == \A j \in 1..Len(q) : FrameTyped(q[j], types, table)

IsExpr(n) == TypeOf(n) \in Expressions
Awaited(f) == Children(f.node)[f.i + 1]
Answered(q, r, types) ==
  LET f == q[Len(q)] IN
  f.pc = "child" /\ ~r.error /\ IsExpr(Awaited(f)) => r.type.vt = types[Awaited(f)]

ArgInv ==
  /\ SemInv
  /\ Typed(calls, ExprTypes, TypeTable)
  /\ Answered(calls, result, ExprTypes)

\* Above an expression there are expressions only.
LEMMA ExpressionsAbove ==
  ASSUME SemInv, NEW j \in 1..Len(calls), IsExpr(calls[j].node)
  PROVE  IsExpr(Caller.node)
<1>1. Len(calls) \in Nat /\ Calling(calls) /\ \A k \in 1..Len(calls) : calls[k].node \in Nodes
  BY CallFacts DEF SemInv
<1> DEFINE S == {n \in Nat : j + n <= Len(calls) => IsExpr(calls[j + n].node)}
<1>2. 0 \in S  OBVIOUS
<1>3. ASSUME NEW n \in Nat, n \in S PROVE n + 1 \in S
  <2>1. SUFFICES ASSUME j + n + 1 <= Len(calls) PROVE IsExpr(calls[j + n + 1].node)
    BY <1>1
  <2> DEFINE f == calls[j + n]
  <2>2. j + n \in 1..(Len(calls) - 1) /\ j + n \in 1..Len(calls)  BY <1>1, <2>1
  <2>3. IsExpr(f.node)  BY <1>3, <2>2
  <2>4. Waiting(f) /\ calls[j + n + 1].node = Children(f.node)[f.i + 1] /\ f.node \in Nodes
    BY <1>1, <2>2 DEF Calling
  <2>5. f.i \in Nat  BY <2>2, CallFacts
  <2> HIDE DEF f
  <2>6. f.i + 1 \in 1..Len(Children(f.node))  BY <2>4, <2>5, ChildrenFacts DEF Waiting
  <2>7. PICK m \in 1..Len(NodeData[f.node].kids) : Children(f.node)[f.i + 1] = NodeData[f.node].kids[m]
    BY <2>4, <2>6, ChildrenFacts
  <2> QED  BY <2>3, <2>4, <2>7, ExpressionsAssumption DEF IsExpr
<1> HIDE DEF S
<1>4. \A n \in Nat : n \in S  BY <1>2, <1>3, SetInduction
<1>5. Len(calls) - j \in Nat /\ j + (Len(calls) - j) = Len(calls)  BY <1>1
<1>6. Len(calls) - j \in S  BY <1>4, <1>5
<1> QED  BY <1>5, <1>6 DEF S, Caller

\* What an expression waits for is an expression.
LEMMA OperandIsExpr ==
  ASSUME SemInv, IsExpr(Caller.node), Caller.i < Len(Children(Caller.node))
  PROVE  IsExpr(Awaited(Caller)) /\ Awaited(Caller) \in Nodes
<1>1. Caller.node \in Nodes /\ Caller.i \in Nat  BY CallFacts
<1>2. Caller.i + 1 \in 1..Len(Children(Caller.node))  BY <1>1, ChildrenFacts
<1>3. PICK m \in 1..Len(NodeData[Caller.node].kids) : Awaited(Caller) = NodeData[Caller.node].kids[m]
  BY <1>1, <1>2, ChildrenFacts DEF Awaited
<1> QED  BY <1>1, <1>3, NodeFacts, ExpressionsAssumption DEF IsExpr

\* Nothing is said of the frame of a statement.
LEMMA StatementTyped ==
  ASSUME NEW f, NEW types, NEW table, ~IsExpr(f.node)
  PROVE  FrameTyped(f, types, table)
  BY DEF FrameTyped, IsExpr, Expressions

LEMMA FreshTyped ==
  ASSUME NEW f, NEW types, NEW table, f.i = 0
  PROVE  FrameTyped(f, types, table)
  BY DEF FrameTyped

\* The frames after a step: the top is replaced, pushed upon or taken away.
LEMMA FramesAfter ==
  ASSUME SemInv
  PROVE  /\ calls' = Front(calls) =>
              /\ Len(calls') = Len(calls) - 1
              /\ \A j \in 1..Len(calls') : j \in 1..Len(calls) /\ calls'[j] = calls[j]
         /\ \A f \in CallType : calls' = [calls EXCEPT ![Len(calls)] = f] =>
              /\ Len(calls') = Len(calls) /\ calls'[Len(calls)] = f
              /\ \A j \in 1..(Len(calls) - 1) : calls'[j] = calls[j]
         /\ \A f, g \in CallType : calls' = Append([calls EXCEPT ![Len(calls)] = f], g) =>
              /\ Len(calls') = Len(calls) + 1 /\ calls'[Len(calls)] = f
              /\ calls'[Len(calls) + 1] = g
              /\ \A j \in 1..(Len(calls) - 1) : calls'[j] = calls[j]
<1>1. calls \in Seq(CallType) /\ Len(calls) \in Nat /\ Len(calls) >= 1 /\ Len(calls) \in 1..Len(calls)
  BY CallFacts
<1>2. calls' = Front(calls) =>
        /\ Len(calls') = Len(calls) - 1
        /\ \A j \in 1..Len(calls') : j \in 1..Len(calls) /\ calls'[j] = calls[j]
  BY <1>1, FrontOfSeq
<1>3. ASSUME NEW f \in CallType
      PROVE  LET q == [calls EXCEPT ![Len(calls)] = f] IN
             /\ q \in Seq(CallType) /\ Len(q) = Len(calls) /\ q[Len(calls)] = f
             /\ \A j \in 1..(Len(calls) - 1) : q[j] = calls[j]
  BY <1>1, ReplacedTop
<1>4. ASSUME NEW f \in CallType, NEW g \in CallType,
             calls' = Append([calls EXCEPT ![Len(calls)] = f], g)
      PROVE  /\ Len(calls') = Len(calls) + 1 /\ calls'[Len(calls)] = f
             /\ calls'[Len(calls) + 1] = g
             /\ \A j \in 1..(Len(calls) - 1) : calls'[j] = calls[j]
  <2> DEFINE q == [calls EXCEPT ![Len(calls)] = f]
  <2>1. /\ q \in Seq(CallType) /\ Len(q) = Len(calls) /\ q[Len(calls)] = f
        /\ \A j \in 1..(Len(calls) - 1) : q[j] = calls[j]
    BY <1>3
  <2>2. calls' = Append(q, g)  BY <1>4
  <2> HIDE DEF q
  <2> QED  BY <1>1, <2>1, <2>2
<1> QED  BY <1>2, <1>3, <1>4

\* What a step has to keep.
StaysTyped == Typed(calls, ExprTypes, TypeTable)' /\ Answered(calls, result, ExprTypes)'

LEMMA RestsTyped ==
  ASSUME ArgInv, Rests
  PROVE  StaysTyped
<1>1. calls' = calls /\ result' = result /\ chain' = chain  BY DEF Rests
<1>2. ExprTypes' = ExprTypes  BY <1>1, SameTypes
<1>3. TypeTable' = TypeTable  BY <1>1 DEF TypeTable, scope_get_type, Typing
<1> QED  BY <1>1, <1>2, <1>3 DEF ArgInv, Typed, Answered, StaysTyped

\* A step of a statement, below which there is no frame of an expression.
LEMMA StatementStep ==
  ASSUME ArgInv, Moves, ~IsExpr(Caller.node)
  PROVE  StaysTyped
<1>1. SemInv  BY DEF ArgInv
<1>2. \A j \in 1..Len(calls) : ~IsExpr(calls[j].node)  BY <1>1, ExpressionsAbove
<1>3. /\ Len(calls) \in Nat /\ Len(calls) >= 1 /\ Caller = calls[Len(calls)] /\ Caller \in CallType
  BY <1>1, CallFacts
<1>4. ASSUME NEW f \in CallType, calls' = [calls EXCEPT ![Len(calls)] = f],
             f.node = Caller.node, f.pc = "visit"
      PROVE  StaysTyped
  <2>1. /\ Len(calls') = Len(calls) /\ calls'[Len(calls)] = f
        /\ \A j \in 1..(Len(calls) - 1) : calls'[j] = calls[j]
    BY <1>1, <1>4, FramesAfter
  <2>2. \A j \in 1..Len(calls') : ~IsExpr(calls'[j].node)  BY <1>2, <1>3, <1>4, <2>1
  <2>3. Typed(calls', ExprTypes', TypeTable')  BY <2>2, StatementTyped DEF Typed
  <2>4. calls'[Len(calls')].pc = "visit"
    <3>1. f.pc = "visit"  BY <1>4
    <3>2. calls'[Len(calls')] = f  BY <2>1
    <3> QED  BY <3>1, <3>2
  <2>5. Answered(calls', result', ExprTypes')  BY <2>4 DEF Answered
  <2> QED  BY <2>3, <2>5 DEF Typed, Answered, StaysTyped
<1>5. CASE Goes
  BY <1>4, <1>5 DEF Goes, Advances
<1>6. CASE Enters
  BY <1>4, <1>6 DEF Enters, Advances
<1>7. CASE Visits
  <2> DEFINE f == [Caller EXCEPT !.pc = "child"]
  <2> DEFINE g == NewCall(Awaited(Caller), Len(chain))
  <2>1. f \in CallType /\ f.node = Caller.node
    <3>1. f = [node |-> Caller.node, scope |-> Caller.scope, pc |-> "child", i |-> Caller.i,
               type |-> Caller.type]
      BY <1>3 DEF CallType
    <3> HIDE DEF f
    <3> QED  BY <1>3, <3>1 DEF CallType
  <2>2. g \in CallType /\ g.i = 0 /\ g.pc # "child"
    <3>1. Awaited(Caller) \in Nodes
      <4>1. Caller.node \in Nodes /\ Caller.i \in Nat  BY <1>1, CallFacts
      <4>2. Caller.i + 1 \in 1..Len(Children(Caller.node))
        BY <1>7, <4>1, ChildrenFacts DEF Visits
      <4> QED  BY <4>1, <4>2, ChildrenFacts DEF Awaited
    <3>2. Len(chain) \in Nat  BY <1>1, CallFacts
    <3> QED  BY <3>1, <3>2, TypeFacts DEF NewCall, CallType
  <2>3. calls' = Append([calls EXCEPT ![Len(calls)] = f], g)
    BY <1>7 DEF Visits, Process, Awaited
  <2> HIDE DEF f, g
  <2>4. /\ Len(calls') = Len(calls) + 1 /\ calls'[Len(calls)] = f
        /\ calls'[Len(calls) + 1] = g
        /\ \A j \in 1..(Len(calls) - 1) : calls'[j] = calls[j]
    BY <1>1, <2>1, <2>2, <2>3, FramesAfter
  <2>5. \A j \in 1..Len(calls') : ~IsExpr(calls'[j].node) \/ calls'[j].i = 0
    BY <1>2, <1>3, <2>1, <2>2, <2>4
  <2>6. Typed(calls', ExprTypes', TypeTable')  BY <2>5, StatementTyped, FreshTyped DEF Typed
  <2>7. Answered(calls', result', ExprTypes')  BY <2>2, <2>4 DEF Answered
  <2> QED  BY <2>6, <2>7 DEF Typed, Answered, StaysTyped
<1>8. CASE Returns
  <2>1. calls' = Front(calls) /\ Len(calls) > 1
    <3>1. calls' = Front(calls) /\ TypeOf(Caller.node) # "PROGRAM"  BY <1>8 DEF Returns, Leave
    <3>2. Len(calls) > 1  BY <1>1, <3>1, CalledByOne
    <3> QED  BY <3>1, <3>2
  <2>2. /\ Len(calls') = Len(calls) - 1
        /\ \A j \in 1..Len(calls') : j \in 1..Len(calls) /\ calls'[j] = calls[j]
    BY <1>1, <2>1, FramesAfter
  <2>3. \A j \in 1..Len(calls') : ~IsExpr(calls'[j].node)  BY <1>2, <2>2
  <2>4. Typed(calls', ExprTypes', TypeTable')  BY <2>3, StatementTyped DEF Typed
  <2>5. calls'[Len(calls')] = calls[Len(calls) - 1] /\ Len(calls) - 1 \in 1..(Len(calls) - 1)
    BY <1>3, <2>1, <2>2
  <2>6. Awaited(calls'[Len(calls')]) = Caller.node
    <3>1. calls[Len(calls) - 1 + 1].node = Awaited(calls[Len(calls) - 1])
      BY <1>1, <2>5 DEF SemInv, Calling, Awaited
    <3> QED  BY <1>3, <2>5, <3>1
  <2>7. Answered(calls', result', ExprTypes')  BY <2>6 DEF Answered
  <2> QED  BY <2>4, <2>7 DEF Typed, Answered, StaysTyped
<1>9. CASE Rests  BY <1>9, RestsTyped
<1> QED  BY <1>5, <1>6, <1>7, <1>8, <1>9 DEF Moves

\* An expression has no scope of its own to take away.
LEMMA ExprLeavesScopes ==
  ASSUME SemInv, IsExpr(Caller.node), NEW type, NEW error, Leave(chain, type, error)
  PROVE  chain' = chain
<1>1. /\ Len(calls) \in Nat /\ Len(calls) >= 1 /\ Len(calls) \in 1..Len(calls)
      /\ Caller = calls[Len(calls)] /\ chain \in Seq(SemScopeType) /\ Len(chain) \in Nat
      /\ Stacked(calls, chain)
  BY CallFacts DEF SemInv
<1>2. ~Open(Caller)  BY DEF IsExpr, Expressions, Open
<1>3. Depth(calls, Len(calls)) = Depth(calls, Len(calls) - 1)
  <2> DEFINE m == Len(calls) - 1
  <2>1. m \in Nat /\ m + 1 = Len(calls)  BY <1>1
  <2> HIDE DEF m
  <2>2. /\ Depth(calls, m) \in Nat
        /\ Depth(calls, m + 1) = Depth(calls, m) + (IF Open(calls[m + 1]) THEN 1 ELSE 0)
    BY <2>1, DepthFacts
  <2>3. ~Open(calls[m + 1])  BY <1>1, <1>2, <2>1
  <2>4. Depth(calls, Len(calls)) = Depth(calls, m)  BY <2>1, <2>2, <2>3
  <2> QED  BY <2>4 DEF m
<1>4. Caller.scope = Len(chain)  BY <1>1, <1>3 DEF Stacked
<1>5. chain' = SubSeq(chain, 1, Len(chain))  BY <1>4 DEF Leave
<1>6. SubSeq(chain, 1, Len(chain)) = chain
  <2> DEFINE q == SubSeq(chain, 1, Len(chain))
  <2>1. \A i \in 1..Len(chain) : chain[i] \in SemScopeType  BY <1>1
  <2>2. q \in Seq(SemScopeType) /\ Len(q) = Len(chain) /\ \A i \in 1..Len(chain) : q[i] = chain[i]
    BY <1>1, <2>1, SubSeqProperties
  <2> HIDE DEF q
  <2>3. q = chain  BY <1>1, <2>2, SeqEqual
  <2> QED  BY <2>3 DEF q
<1> QED  BY <1>5, <1>6

\* An expression that returns answers for itself.
LEMMA ExprReturns ==
  ASSUME ArgInv, IsExpr(Caller.node), NEW type, NEW error, Leave(chain, type, error),
         ~error => type.vt = ExprTypes[Caller.node]
  PROVE  StaysTyped
<1>1. SemInv /\ Typed(calls, ExprTypes, TypeTable)  BY DEF ArgInv
<1>2. chain' = chain  BY <1>1, ExprLeavesScopes
<1>3. ExprTypes' = ExprTypes  BY <1>2, SameTypes
<1>4. TypeTable' = TypeTable  BY <1>2 DEF TypeTable, scope_get_type, Typing
<1>5. calls' = Front(calls) /\ result' = SemRes(type, error)  BY DEF Leave
<1>6. /\ Len(calls') = Len(calls) - 1
      /\ \A j \in 1..Len(calls') : j \in 1..Len(calls) /\ calls'[j] = calls[j]
  BY <1>1, <1>5, FramesAfter
<1>7. Typed(calls', ExprTypes, TypeTable)  BY <1>1, <1>6 DEF Typed
<1>8. Len(calls) > 1  BY <1>1, CalledByOne DEF IsExpr, Expressions
<1>9. Awaited(calls'[Len(calls')]) = Caller.node
  <2> DEFINE m == Len(calls')
  <2>1. m \in 1..(Len(calls) - 1) /\ m \in 1..m /\ m + 1 = Len(calls)
    BY <1>1, <1>6, <1>8, CallFacts
  <2>2. calls[m + 1].node = Awaited(calls[m])
    <3> HIDE DEF m
    <3> QED  BY <1>1, <2>1 DEF SemInv, Calling, Awaited
  <2>3. calls'[m] = calls[m]  BY <1>6, <2>1
  <2>4. Caller = calls[m + 1]  BY <2>1 DEF Caller
  <2> QED  BY <2>2, <2>3, <2>4
<1>10. Answered(calls', result', ExprTypes)  BY <1>5, <1>9 DEF Answered, SemRes
<1> QED  BY <1>3, <1>4, <1>7, <1>10 DEF Typed, Answered, StaysTyped

GoesOnAs(f) == calls' = [calls EXCEPT ![Len(calls)] = f]

LEMMA ExprGoes ==
  ASSUME ArgInv, NEW f \in CallType, GoesOnAs(f), chain' = chain,
         f.pc = "visit", FrameTyped(f, ExprTypes, TypeTable)
  PROVE  StaysTyped
<1>1. SemInv /\ Typed(calls, ExprTypes, TypeTable)  BY DEF ArgInv
<1>2. ExprTypes' = ExprTypes  BY SameTypes
<1>3. TypeTable' = TypeTable  BY DEF TypeTable, scope_get_type, Typing
<1>4. /\ Len(calls') = Len(calls) /\ calls'[Len(calls)] = f
      /\ \A j \in 1..(Len(calls) - 1) : calls'[j] = calls[j]
  BY <1>1, FramesAfter DEF GoesOnAs
<1>5. Len(calls) \in Nat  BY <1>1, CallFacts
<1>6. ASSUME NEW j \in 1..Len(calls') PROVE FrameTyped(calls'[j], ExprTypes, TypeTable)
  <2>1. CASE j = Len(calls)
    <3>1. calls'[j] = f  BY <1>4, <2>1
    <3> QED  BY <3>1
  <2>2. CASE j # Len(calls)
    <3>1. j \in 1..(Len(calls) - 1) /\ j \in 1..Len(calls)  BY <1>4, <1>5, <2>2
    <3>2. calls'[j] = calls[j]  BY <1>4, <3>1
    <3> QED  BY <1>1, <3>1, <3>2 DEF Typed
  <2> QED  BY <2>1, <2>2
<1>7. calls'[Len(calls')].pc = "visit"
  <2>1. calls'[Len(calls')] = f  BY <1>4
  <2> QED  BY <2>1
<1> QED  BY <1>2, <1>3, <1>6, <1>7 DEF Typed, Answered, StaysTyped

LEMMA ExprVisits ==
  ASSUME ArgInv, IsExpr(Caller.node), Visits
  PROVE  StaysTyped
<1>1. SemInv /\ Typed(calls, ExprTypes, TypeTable)  BY DEF ArgInv
<1>2. /\ Caller \in CallType /\ Len(calls) \in Nat /\ Caller = calls[Len(calls)]
      /\ Len(calls) \in 1..Len(calls) /\ Len(chain) \in Nat
  BY <1>1, CallFacts
<1> DEFINE f == [Caller EXCEPT !.pc = "child"]
<1> DEFINE g == NewCall(Awaited(Caller), Len(chain))
<1>3. f \in CallType /\ f.node = Caller.node /\ f.i = Caller.i /\ f.type = Caller.type
  <2>1. f = [node |-> Caller.node, scope |-> Caller.scope, pc |-> "child", i |-> Caller.i,
             type |-> Caller.type]
    BY <1>2 DEF CallType
  <2> HIDE DEF f
  <2> QED  BY <1>2, <2>1 DEF CallType
<1>4. g \in CallType /\ g.i = 0 /\ g.pc # "child"
  <2>1. Awaited(Caller) \in Nodes  BY <1>1, OperandIsExpr DEF Visits
  <2> QED  BY <1>2, <2>1, TypeFacts DEF NewCall, CallType
<1>5. calls' = Append([calls EXCEPT ![Len(calls)] = f], g) /\ chain' = chain
  BY DEF Visits, Process, Awaited
<1> HIDE DEF f, g
<1>6. /\ Len(calls') = Len(calls) + 1 /\ calls'[Len(calls)] = f
      /\ calls'[Len(calls) + 1] = g
      /\ \A j \in 1..(Len(calls) - 1) : calls'[j] = calls[j]
  BY <1>1, <1>3, <1>4, <1>5, FramesAfter
<1>7. ExprTypes' = ExprTypes  BY <1>5, SameTypes
<1>8. TypeTable' = TypeTable  BY <1>5 DEF TypeTable, scope_get_type, Typing
<1>9. ASSUME NEW j \in 1..Len(calls') PROVE FrameTyped(calls'[j], ExprTypes, TypeTable)
  <2>1. CASE j = Len(calls) + 1
    <3>1. calls'[j] = g  BY <1>6, <2>1
    <3> QED  BY <1>4, <3>1, FreshTyped
  <2>2. CASE j = Len(calls)
    <3>1. calls'[j] = f  BY <1>6, <2>2
    <3>2. FrameTyped(Caller, ExprTypes, TypeTable)  BY <1>1, <1>2 DEF Typed
    <3>3. FrameTyped(f, ExprTypes, TypeTable)  BY <1>3, <3>2 DEF FrameTyped
    <3> QED  BY <3>1, <3>3
  <2>3. CASE j \notin {Len(calls), Len(calls) + 1}
    <3>1. j \in 1..(Len(calls) - 1) /\ j \in 1..Len(calls)  BY <1>2, <1>6, <2>3
    <3>2. calls'[j] = calls[j]  BY <1>6, <3>1
    <3> QED  BY <1>1, <3>1, <3>2 DEF Typed
  <2> QED  BY <2>1, <2>2, <2>3
<1>10. calls'[Len(calls')].pc # "child"
  <2>1. calls'[Len(calls')] = g  BY <1>6
  <2> QED  BY <1>4, <2>1
<1> QED  BY <1>7, <1>8, <1>9, <1>10 DEF Typed, Answered, StaysTyped

\* What each kind of expression has for a type.
LEMMA TypeOfExpr ==
  ASSUME NEW n \in Nodes
  PROVE  /\ TypeOf(n) = "INTEGER_LIT" => ExprTypes[n] = "i32"
         /\ TypeOf(n) = "FLOAT_LIT" => ExprTypes[n] = "f32"
         /\ TypeOf(n) = "IDENT_LIT" => ExprTypes[n] = Found(NodeData[n].name).type.vt
         /\ TypeOf(n) \in {"BIN_EXPR", "UN_EXPR", "UPDATE_EXPR"} =>
              ExprTypes[n] = ExprTypes[NodeData[n].kids[1]]
         /\ TypeOf(n) = "ASSIGN_EXPR" => ExprTypes[n] = ExprTypes[NodeData[n].kids[2]]
         /\ TypeOf(n) = "CAST_EXPR" => ExprTypes[n] = scope_get_type(NodeData[n].aux).vt
         /\ TypeOf(n) = "CALL_EXPR" => ExprTypes[n] = "none"
<1>1. ExprTypes[n] = TypeStep(n, ExprTypes, IdentTypes, CastTypes)  BY ExprTypesRecurse
<1>2. /\ IdentTypes[n] = Found(NodeData[n].name).type.vt
      /\ CastTypes[n] = scope_get_type(NodeData[n].aux).vt
  BY DEF IdentTypes, CastTypes
<1> DEFINE ident == Found(NodeData[n].name).type.vt
<1> DEFINE cast == scope_get_type(NodeData[n].aux).vt
<1> DEFINE left == ExprTypes[NodeData[n].kids[1]]
<1> DEFINE right == ExprTypes[NodeData[n].kids[2]]
<1>3. TypeStep(n, ExprTypes, IdentTypes, CastTypes)
        = CASE TypeOf(n) = "INTEGER_LIT" -> "i32"
            [] TypeOf(n) = "FLOAT_LIT" -> "f32"
            [] TypeOf(n) = "IDENT_LIT" -> ident
            [] TypeOf(n) \in {"BIN_EXPR", "UN_EXPR", "UPDATE_EXPR"} -> left
            [] TypeOf(n) = "ASSIGN_EXPR" -> right
            [] TypeOf(n) = "CAST_EXPR" -> cast
            [] OTHER -> "none"
  BY <1>2 DEF TypeStep
<1> HIDE DEF ident, cast, left, right
<1>4. /\ TypeOf(n) = "INTEGER_LIT" => ExprTypes[n] = "i32"
      /\ TypeOf(n) = "FLOAT_LIT" => ExprTypes[n] = "f32"
      /\ TypeOf(n) = "IDENT_LIT" => ExprTypes[n] = ident
      /\ TypeOf(n) \in {"BIN_EXPR", "UN_EXPR", "UPDATE_EXPR"} => ExprTypes[n] = left
      /\ TypeOf(n) = "ASSIGN_EXPR" => ExprTypes[n] = right
      /\ TypeOf(n) = "CAST_EXPR" => ExprTypes[n] = cast
      /\ TypeOf(n) = "CALL_EXPR" => ExprTypes[n] = "none"
  BY <1>1, <1>3
<1> QED  BY <1>4 DEF ident, cast, left, right

\* The children of an expression that are processed, in order.
LEMMA OperandsOf ==
  ASSUME NEW n \in Nodes
  PROVE  /\ TypeOf(n) = "BIN_EXPR" => Len(Children(n)) = 2 /\ Children(n)[1] = NodeData[n].kids[1]
         /\ TypeOf(n) \in {"UN_EXPR", "UPDATE_EXPR"} =>
              Len(Children(n)) = 1 /\ Children(n)[1] = NodeData[n].kids[1]
         /\ TypeOf(n) = "ASSIGN_EXPR" =>
              Len(Children(n)) = 1 /\ Children(n)[1] = NodeData[n].kids[2]
         /\ TypeOf(n) = "CALL_EXPR" =>
              /\ Len(Children(n)) = Len(NodeData[n].kids) - 1
              /\ \A k \in 1..Len(Children(n)) : Children(n)[k] = NodeData[n].kids[k + 1]
<1> DEFINE kids == NodeData[n].kids
<1> DEFINE len == Len(kids)
<1>1. kids \in Seq(Nodes) /\ len \in Nat /\ Arity(TypeOf(n), len)  BY NodeFacts
<1>2. TypeOf(n) \in {"BIN_EXPR", "UN_EXPR", "UPDATE_EXPR"} => Children(n) = kids
  BY DEF Children
<1>3. TypeOf(n) \in {"ASSIGN_EXPR", "CALL_EXPR"} => Children(n) = Tail(kids)
  BY DEF Children
<1>4. /\ TypeOf(n) \in {"BIN_EXPR", "ASSIGN_EXPR"} => len = 2
      /\ TypeOf(n) \in {"UN_EXPR", "UPDATE_EXPR"} => len = 1
      /\ TypeOf(n) = "CALL_EXPR" => len >= 1
  <2> HIDE DEF len
  <2> QED  BY <1>1 DEF Arity
<1> HIDE DEF kids
<1>5. len >= 1 => Len(Tail(kids)) = len - 1 /\ \A k \in 1..(len - 1) : Tail(kids)[k] = kids[k + 1]
  BY <1>1
<1>6. TypeOf(n) = "CALL_EXPR" =>
        /\ Len(Children(n)) = len - 1
        /\ \A k \in 1..Len(Children(n)) : Children(n)[k] = kids[k + 1]
  BY <1>1, <1>3, <1>4, <1>5
<1>7. TypeOf(n) = "ASSIGN_EXPR" => Len(Children(n)) = 1 /\ Children(n)[1] = kids[2]
  <2>1. SUFFICES ASSUME TypeOf(n) = "ASSIGN_EXPR"
                 PROVE  Len(Children(n)) = 1 /\ Children(n)[1] = kids[2]
    OBVIOUS
  <2>2. len = 2 /\ Children(n) = Tail(kids)  BY <1>3, <1>4, <2>1
  <2>3. Len(Tail(kids)) = 1 /\ Tail(kids)[1] = kids[1 + 1]  BY <1>5, <2>2
  <2> QED  BY <2>2, <2>3
<1>8. /\ TypeOf(n) = "BIN_EXPR" => Len(Children(n)) = 2 /\ Children(n)[1] = kids[1]
      /\ TypeOf(n) \in {"UN_EXPR", "UPDATE_EXPR"} =>
           Len(Children(n)) = 1 /\ Children(n)[1] = kids[1]
  BY <1>2, <1>4
<1> QED  BY <1>6, <1>7, <1>8 DEF kids

\* The frame of an expression after its own work, or after a child.
GoneOn(i, type) == [Caller EXCEPT !.pc = "visit", !.i = i, !.type = type]

LEMMA GoneOnFacts ==
  ASSUME Caller \in CallType, NEW i \in Nat, NEW type \in TypeType
  PROVE  LET f == GoneOn(i, type) IN
         /\ f \in CallType /\ f.node = Caller.node /\ f.pc = "visit" /\ f.i = i
         /\ f.type = type
<1> DEFINE g == [Caller EXCEPT !.pc = "visit"]
<1> DEFINE h == [g EXCEPT !.i = i]
<1> DEFINE f == [h EXCEPT !.type = type]
<1>1. g \in CallType /\ g.node = Caller.node /\ g.pc = "visit"  BY DEF CallType
<1>2. f = GoneOn(i, type)  BY DEF GoneOn, CallType
<1> HIDE DEF g
<1>3. h \in CallType /\ h.node = Caller.node /\ h.pc = "visit" /\ h.i = i
  BY <1>1 DEF CallType
<1> HIDE DEF h
<1>4. f \in CallType /\ f.node = Caller.node /\ f.pc = "visit" /\ f.i = i /\ f.type = type
  BY <1>3 DEF CallType
<1> HIDE DEF f
<1> QED  BY <1>2, <1>4

LEMMA ExprGoesOn ==
  ASSUME ArgInv, NEW type \in TypeType, NEW i \in Nat, Proceed(GoneOn(i, type)), chain' = chain,
         FrameTyped(GoneOn(i, type), ExprTypes, TypeTable)
  PROVE  StaysTyped
<1> DEFINE f == GoneOn(i, type)
<1>1. Caller \in CallType  BY CallFacts DEF ArgInv
<1>2. f \in CallType /\ f.pc = "visit"  BY <1>1, GoneOnFacts
<1>3. GoesOnAs(f)  BY DEF Proceed, GoesOnAs
<1>4. FrameTyped(f, ExprTypes, TypeTable)  OBVIOUS
<1> HIDE DEF f
<1> QED  BY <1>2, <1>3, <1>4, ExprGoes

LEMMA ExprStep ==
  ASSUME ArgInv, SemNext, IsExpr(Caller.node)
  PROVE  StaysTyped
<1>1. SemInv /\ Typed(calls, ExprTypes, TypeTable) /\ Answered(calls, result, ExprTypes)
  BY DEF ArgInv
<1>2. /\ Caller \in CallType /\ Caller.node \in Nodes /\ Caller.i \in Nat /\ FrameOK(Caller)
      /\ Len(calls) \in 1..Len(calls) /\ Caller = calls[Len(calls)]
      /\ Here = NodeData[Caller.node] /\ Here.type = TypeOf(Caller.node)
      /\ Caller.type \in TypeType /\ result.type \in TypeType /\ result.error \in BOOLEAN
  BY <1>1, CallFacts DEF CallType
<1>3. TypeOf(Caller.node) \in Expressions /\ TypeOf(Caller.node) = Here.type  BY <1>2 DEF IsExpr
<1>4. ASSUME NEW type, Yield(type), type.vt = ExprTypes[Caller.node] PROVE StaysTyped
  BY <1>4, ExprReturns DEF Yield
<1>5. ASSUME NEW n, Report(n, TRUE) PROVE StaysTyped
  <2>1. CASE Die("overflow")  BY <2>1, DieMoves, RestsTyped
  <2>2. CASE Leave(chain, NoType, TRUE)  BY <2>2, ExprReturns
  <2> QED  BY <1>5, <2>1, <2>2 DEF Report
<1>6. ASSUME NEW how, Die(how) PROVE StaysTyped  BY <1>6, DieMoves, RestsTyped
<1>7. ASSUME Leave(chain, NoType, TRUE) PROVE StaysTyped  BY <1>7, ExprReturns
<1>8. FrameTyped(Caller, ExprTypes, TypeTable)  BY <1>1, <1>2 DEF Typed
<1>10. CASE process_integer_lit \/ process_float_lit
  <2>1. \/ TypeOf(Caller.node) = "INTEGER_LIT" /\ Yield(Numeric("i32"))
        \/ TypeOf(Caller.node) = "FLOAT_LIT" /\ Yield(Numeric("f32"))
    BY <1>3, <1>10 DEF process_integer_lit, process_float_lit, In
  <2>2. Numeric("i32").vt = "i32" /\ Numeric("f32").vt = "f32"  BY DEF Numeric, Type
  <2> QED  BY <1>2, <1>4, <2>1, <2>2, TypeOfExpr
<1>11. CASE process_ident_lit
  <2>1. TypeOf(Caller.node) = "IDENT_LIT"  BY <1>3, <1>11 DEF process_ident_lit, In
  <2>2. ExprTypes[Caller.node] = Found(Here.name).type.vt  BY <1>2, <2>1, TypeOfExpr
  <2>3. Report(Caller.node, TRUE) \/ Yield(Found(Here.name).type)
    BY <1>11 DEF process_ident_lit
  <2> QED  BY <1>4, <1>5, <2>2, <2>3
<1>12. CASE process_cast_expr
  <2>1. TypeOf(Caller.node) = "CAST_EXPR" /\ Yield(scope_get_type(Here.aux))
    BY <1>3, <1>12 DEF process_cast_expr, In
  <2>2. ExprTypes[Caller.node] = scope_get_type(Here.aux).vt  BY <1>2, <2>1, TypeOfExpr
  <2> QED  BY <1>4, <2>1, <2>2
<1>13. CASE process_unsupported \/ process_null
  BY <1>6, <1>13 DEF process_unsupported, process_null
<1>14. CASE CallEnter
  <2>1. TypeOf(Caller.node) = "CALL_EXPR" /\ Caller.pc = "enter"
    BY <1>3, <1>14 DEF CallEnter, In
  <2>2. Caller.i = 0  BY <1>2, <2>1 DEF FrameOK
  <2> DEFINE function == Callee(Caller.node)
  <2>3. \/ Report(Here.kids[1], TRUE)
        \/ Die("crash")
        \/ Proceed([Caller EXCEPT !.pc = "visit", !.type = function]) /\ chain' = chain
    BY <1>14 DEF CallEnter, ReportNamed
  <2>4. function \in TypeType  BY <1>1, CallFacts, CalleeFound
  <2> HIDE DEF function
  <2>5. CASE Report(Here.kids[1], TRUE)  BY <1>5, <2>5
  <2>6. CASE Proceed([Caller EXCEPT !.pc = "visit", !.type = function]) /\ chain' = chain
    <3>1. [Caller EXCEPT !.pc = "visit", !.type = function] = GoneOn(0, function)
      <4>1. [Caller EXCEPT !.pc = "visit", !.type = function]
              = [Caller EXCEPT !.pc = "visit", !.i = 0, !.type = function]
        BY <1>2, <2>2 DEF CallType
      <4> QED  BY <4>1 DEF GoneOn
    <3>2. Proceed(GoneOn(0, function))  BY <2>6, <3>1
    <3>3. FrameTyped(GoneOn(0, function), ExprTypes, TypeTable)
      BY <1>2, <2>4, GoneOnFacts, FreshTyped
    <3> QED  BY <2>4, <2>6, <3>2, <3>3, ExprGoesOn
  <2>7. CASE Die("crash")  BY <1>6, <2>7
  <2> QED  BY <2>3, <2>5, <2>6, <2>7
<1>15. CASE Visit
  <2>1. Visits
    <3>1. /\ Caller.pc = "visit" /\ Caller.i # Len(Children(Caller.node))
          /\ Process([Caller EXCEPT !.pc = "child"], Children(Caller.node)[Caller.i + 1])
      BY <1>15 DEF Visit, In, Over
    <3>2. Caller.i < Len(Children(Caller.node))
      BY <1>2, <3>1, ChildrenFacts DEF FrameOK
    <3> QED  BY <3>1, <3>2 DEF Visits
  <2> QED  BY <2>1, ExprVisits
<1>16. Caller.pc = "child" /\ ~result.error =>
         /\ Caller.i < Len(Children(Caller.node))
         /\ result.type.vt = ExprTypes[Awaited(Caller)]
  <2>1. SUFFICES ASSUME Caller.pc = "child", ~result.error
                 PROVE  /\ Caller.i < Len(Children(Caller.node))
                        /\ result.type.vt = ExprTypes[Awaited(Caller)]
    OBVIOUS
  <2>2. Caller.i < Len(Children(Caller.node))  BY <1>2, <2>1 DEF FrameOK, Waiting
  <2>3. IsExpr(Awaited(Caller))  BY <1>1, <2>2, OperandIsExpr
  <2> QED  BY <1>1, <1>2, <2>1, <2>2, <2>3 DEF Answered
<1>17. CASE Visited
  <2>1. TypeOf(Caller.node) \in {"BIN_EXPR", "UN_EXPR", "UPDATE_EXPR", "ASSIGN_EXPR"}
        /\ Caller.pc = "child"
    BY <1>3, <1>17 DEF Visited, In, Parents, Expressions
  <2> DEFINE type == IF TakesType THEN result.type ELSE Caller.type
  <2>2. \/ Leave(chain, NoType, TRUE)
        \/ /\ ~result.error /\ chain' = chain
           /\ Proceed([Caller EXCEPT !.pc = "visit", !.i = @ + 1,
                                     !.type = IF TakesType THEN result.type ELSE @])
    <3>1. Here.type # "PROGRAM"  BY <1>3 DEF Expressions
    <3> QED  BY <1>2, <1>17, <3>1 DEF Visited
  <2>3. [Caller EXCEPT !.pc = "visit", !.i = @ + 1,
                       !.type = IF TakesType THEN result.type ELSE @]
          = GoneOn(Caller.i + 1, type)
    <3>1. [Caller EXCEPT !.pc = "visit", !.i = @ + 1,
                         !.type = IF TakesType THEN result.type ELSE @]
            = [Caller EXCEPT !.pc = "visit", !.i = Caller.i + 1, !.type = type]
      OBVIOUS
    <3> HIDE DEF type
    <3> QED  BY <3>1 DEF GoneOn
  <2>4. type \in TypeType  BY <1>2
  <2>5. ASSUME ~result.error
        PROVE  FrameTyped(GoneOn(Caller.i + 1, type), ExprTypes, TypeTable)
    <3> DEFINE kids == NodeData[Caller.node].kids
    <3> DEFINE f == GoneOn(Caller.i + 1, type)
    <3>0. f.node = Caller.node /\ f.i = Caller.i + 1 /\ f.type = type
      BY <1>2, <2>4, GoneOnFacts
    <3> HIDE DEF f
    <3>1. Caller.i < Len(Children(Caller.node)) /\ result.type.vt = ExprTypes[Awaited(Caller)]
      BY <1>16, <2>1, <2>5
    <3>2. CASE TypeOf(Caller.node) = "BIN_EXPR"
      <4>1. TakesType <=> Caller.i = 0  BY <1>3, <3>2 DEF TakesType
      <4>2. Caller.i = 0 => Awaited(Caller) = kids[1]  BY <1>2, <3>2, OperandsOf DEF Awaited
      <4>3. Caller.i # 0 => Caller.type.vt = ExprTypes[kids[1]]
        <5>1. Caller.i # 0 => Caller.i >= 1  BY <1>2
        <5> QED  BY <1>8, <3>2, <5>1 DEF FrameTyped
      <4>4. type.vt = ExprTypes[kids[1]]  BY <3>1, <4>1, <4>2, <4>3
      <4>5. FrameTyped(f, ExprTypes, TypeTable)
        <5> HIDE DEF type
        <5> QED  BY <3>0, <3>2, <4>4 DEF FrameTyped
      <4> QED  BY <4>5 DEF f
    <3>3. CASE TypeOf(Caller.node) \in {"UN_EXPR", "UPDATE_EXPR", "ASSIGN_EXPR"}
      <4>1. TakesType  BY <1>3, <3>3 DEF TakesType
      <4>2. Len(Children(Caller.node)) = 1  BY <1>2, <3>3, OperandsOf
      <4>3. Caller.i = 0  BY <1>2, <3>1, <4>2
      <4>4. /\ TypeOf(Caller.node) = "ASSIGN_EXPR" => Awaited(Caller) = kids[2]
            /\ TypeOf(Caller.node) # "ASSIGN_EXPR" => Awaited(Caller) = kids[1]
        BY <1>2, <3>3, <4>3, OperandsOf DEF Awaited
      <4>5. type.vt = ExprTypes[Awaited(Caller)]  BY <3>1, <4>1
      <4>6. FrameTyped(f, ExprTypes, TypeTable)
        <5> HIDE DEF type
        <5> QED  BY <3>0, <3>3, <4>4, <4>5 DEF FrameTyped
      <4> QED  BY <4>6 DEF f
    <3> QED  BY <2>1, <3>2, <3>3
  <2>6. Caller.i + 1 \in Nat  BY <1>2
  <2>7. CASE ~result.error /\ chain' = chain
             /\ Proceed([Caller EXCEPT !.pc = "visit", !.i = @ + 1,
                                       !.type = IF TakesType THEN result.type ELSE @])
    <3>1. Proceed(GoneOn(Caller.i + 1, type))  BY <2>3, <2>7
    <3> HIDE DEF type
    <3> QED  BY <2>4, <2>5, <2>6, <2>7, <3>1, ExprGoesOn
  <2> QED  BY <1>7, <2>2, <2>7
<1>18. CASE Argument
  <2> DEFINE T == Caller.type.types[Caller.i + 1]
  <2>1. TypeOf(Caller.node) = "CALL_EXPR" /\ Caller.pc = "child"
    BY <1>3, <1>18 DEF Argument, In
  <2>2. \/ Leave(chain, NoType, TRUE)
        \/ \E how : Die(how)
        \/ Report(Here.kids[Caller.i + 2], TRUE)
        \/ /\ ~result.error /\ ~(Caller.i >= Len(Caller.type.types))
           /\ result.type.vt = scope_get_type(T).vt
           /\ Proceed([Caller EXCEPT !.pc = "visit", !.i = @ + 1]) /\ chain' = chain
    BY <1>18 DEF Argument
  <2>3. CASE /\ ~result.error /\ ~(Caller.i >= Len(Caller.type.types))
             /\ result.type.vt = scope_get_type(T).vt
             /\ Proceed([Caller EXCEPT !.pc = "visit", !.i = @ + 1]) /\ chain' = chain
    <3> DEFINE types == Caller.type.types
    <3> DEFINE kids == NodeData[Caller.node].kids
    <3>1. [Caller EXCEPT !.pc = "visit", !.i = @ + 1] = GoneOn(Caller.i + 1, Caller.type)
      <4>1. [Caller EXCEPT !.pc = "visit", !.i = @ + 1]
              = [Caller EXCEPT !.pc = "visit", !.i = Caller.i + 1, !.type = Caller.type]
        BY <1>2 DEF CallType
      <4> QED  BY <4>1 DEF GoneOn
    <3>2. types \in Seq(STRING) /\ Len(types) \in Nat  BY <1>2, TypeFacts
    <3>3. Caller.i + 1 \in 1..Len(types) /\ Caller.i + 1 \in Nat  BY <1>2, <2>3, <3>2
    <3>4. TypeTable[T] = scope_get_type(T).vt
      <4>1. T \in STRING  BY <3>2, <3>3
      <4> QED  BY <4>1 DEF TypeTable
    <3>5. Awaited(Caller) = kids[(Caller.i + 1) + 1]
      <4>1. Caller.i + 1 \in 1..Len(Children(Caller.node))
        BY <1>2, <1>16, <2>1, <2>3, ChildrenFacts, SMTT(40)
      <4> QED  BY <1>2, <2>1, <4>1, OperandsOf DEF Awaited
    <3>6. ExprTypes[kids[(Caller.i + 1) + 1]] = TypeTable[types[Caller.i + 1]]
      BY <1>16, <2>1, <2>3, <3>4, <3>5
    <3>7. ASSUME NEW k \in 1..(Caller.i + 1)
          PROVE  k <= Len(types) /\ ExprTypes[kids[k + 1]] = TypeTable[types[k]]
      <4>1. CASE k = Caller.i + 1  BY <3>3, <3>6, <4>1
      <4>2. CASE k # Caller.i + 1
        <5>1. k \in 1..Caller.i  BY <1>2, <4>2
        <5> QED  BY <1>8, <2>1, <5>1 DEF FrameTyped
      <4> QED  BY <4>1, <4>2
    <3>8. FrameTyped(GoneOn(Caller.i + 1, Caller.type), ExprTypes, TypeTable)
      <4> DEFINE f == GoneOn(Caller.i + 1, Caller.type)
      <4>1. f.node = Caller.node /\ f.i = Caller.i + 1 /\ f.type = Caller.type
        BY <1>2, <3>3, GoneOnFacts
      <4> HIDE DEF f
      <4>2. FrameTyped(f, ExprTypes, TypeTable)  BY <2>1, <3>7, <4>1 DEF FrameTyped
      <4> QED  BY <4>2 DEF f
    <3>9. Proceed(GoneOn(Caller.i + 1, Caller.type)) /\ Caller.type \in TypeType
      BY <1>2, <2>3, <3>1
    <3> QED  BY <2>3, <3>3, <3>8, <3>9, ExprGoesOn
  <2> QED  BY <1>5, <1>6, <1>7, <2>2, <2>3
<1>19. CASE process_expr
  <2>1. /\ TypeOf(Caller.node) \in {"BIN_EXPR", "UN_EXPR", "UPDATE_EXPR", "ASSIGN_EXPR"}
        /\ Caller.i = Len(Children(Caller.node)) /\ Yield(Caller.type)
    BY <1>3, <1>19 DEF process_expr, In, Expressions, Over
  <2>2. Caller.i >= 1  BY <1>2, <2>1, OperandsOf
  <2>3. /\ TypeOf(Caller.node) \in {"BIN_EXPR", "UN_EXPR", "UPDATE_EXPR"} =>
             Caller.type.vt = ExprTypes[NodeData[Caller.node].kids[1]]
        /\ TypeOf(Caller.node) = "ASSIGN_EXPR" =>
             Caller.type.vt = ExprTypes[NodeData[Caller.node].kids[2]]
    BY <1>8, <2>2 DEF FrameTyped
  <2>4. Caller.type.vt = ExprTypes[Caller.node]  BY <1>2, <2>1, <2>3, TypeOfExpr
  <2> QED  BY <1>4, <2>1, <2>4
<1>20. CASE process_untyped
  <2>1. TypeOf(Caller.node) = "CALL_EXPR" /\ Yield(NoType)
    BY <1>3, <1>20 DEF process_untyped, In, Expressions
  <2>2. ExprTypes[Caller.node] = "none"  BY <1>2, <2>1, TypeOfExpr
  <2> QED  BY <1>4, <2>1, <2>2 DEF NoType, Type
<1>21. ~(process_jump \/ process_struct_stat \/ EnumEntry \/ process_enum_stat
         \/ VarEnter \/ FnEnter \/ BlockEnter
         \/ process_failing \/ process_var_stat \/ process_semantics)
  BY <1>3 DEF Expressions, In, process_jump, process_struct_stat, EnumEntry, process_enum_stat,
              VarEnter, FnEnter, BlockEnter, process_failing, process_var_stat, process_semantics
<1> QED
  BY <1>10, <1>11, <1>12, <1>13, <1>14, <1>15, <1>17, <1>18, <1>19, <1>20, <1>21
  DEF SemNext, Leaves, Entering, Visiting, Leaving

LEMMA ArgNextInv ==
  ASSUME ArgInv, [SemNext]_semVars
  PROVE  ArgInv'
<1>1. SemInv  BY DEF ArgInv
<1>2. SemInv'  BY <1>1, SemNextInv
<1>3. StaysTyped
  <2>1. CASE UNCHANGED semVars
    <3>1. Rests  BY <2>1 DEF semVars, Rests
    <3> QED  BY <3>1, RestsTyped
  <2>2. CASE SemNext /\ IsExpr(Caller.node)  BY <2>2, ExprStep
  <2>3. CASE SemNext /\ ~IsExpr(Caller.node)
    <3>1. Moves
      BY <1>1, <2>3, LeafActions, EnteringActions, VisitingActions, LeavingActions DEF SemNext
    <3> QED  BY <2>3, <3>1, StatementStep
  <2> QED  BY <2>1, <2>2, <2>3
<1> QED  BY <1>2, <1>3 DEF ArgInv, StaysTyped

LEMMA ArgInitInv ==
  ASSUME SemInit
  PROVE  ArgInv
<1>1. SemInv  BY SemInitInv
<1>2. PICK program \in Programs : calls = <<NewCall(program, 1)>>  BY DEF SemInit
<1>3. Len(calls) = 1 /\ calls[1].i = 0 /\ calls[1].pc # "child"  BY <1>2 DEF NewCall
<1>4. Typed(calls, ExprTypes, TypeTable)  BY <1>3, FreshTyped DEF Typed
<1>5. Answered(calls, result, ExprTypes)  BY <1>3 DEF Answered
<1> QED  BY <1>1, <1>4, <1>5 DEF ArgInv

(***************************************************************************)
(* semantics.c:318 "Check for argument-parameter matching", 208-299: each  *)
(* argument a call has got past stands for a parameter, and the type of    *)
(* the whole argument expression, however deep, is that of the parameter.  *)
(***************************************************************************)
THEOREM ArgumentsAlwaysMatch == SemSpec => []ArgumentsMatch
<1>1. SemInit => ArgInv  BY ArgInitInv
<1>2. ArgInv /\ [SemNext]_semVars => ArgInv'  BY ArgNextInv
<1>3. ArgInv => ArgumentsMatch
  <2>1. SUFFICES ASSUME ArgInv, NEW j \in 1..Len(calls), TypeOf(calls[j].node) = "CALL_EXPR",
                        NEW k \in 1..calls[j].i
                 PROVE  /\ k <= Len(calls[j].type.types)
                        /\ ExprType(NodeData[calls[j].node].kids[k + 1])
                             = scope_get_type(calls[j].type.types[k]).vt
    BY DEF ArgumentsMatch
  <2> DEFINE f == calls[j]
  <2> DEFINE kids == NodeData[f.node].kids
  <2>2. SemInv /\ FrameTyped(f, ExprTypes, TypeTable)  BY <2>1 DEF ArgInv, Typed
  <2>3. f \in CallType /\ f.node \in Nodes /\ f.i \in Nat /\ FrameOK(f)  BY <2>2, CallFacts
  <2> HIDE DEF f
  <2>4. k <= Len(f.type.types) /\ ExprTypes[kids[k + 1]] = TypeTable[f.type.types[k]]
    BY <2>1, <2>2 DEF FrameTyped, f
  <2>5. kids[k + 1] \in Nodes
    <3>1. Len(Children(f.node)) = Len(kids) - 1  BY <2>1, <2>3, OperandsOf DEF f
    <3>2. Len(kids) \in Nat  BY <2>3, NodeFacts
    <3>3. k + 1 \in 1..Len(kids)  BY <2>1, <2>3, <3>1, <3>2 DEF FrameOK, f
    <3> QED  BY <2>3, <3>3, NodeFacts
  <2>6. f.type.types[k] \in STRING
    <3>1. f.type \in TypeType  BY <2>3 DEF CallType
    <3>2. f.type.types \in Seq(STRING)  BY <3>1, TypeFacts
    <3>3. k \in 1..Len(f.type.types)
      <4>1. k \in 1..f.i  BY <2>1 DEF f
      <4> QED  BY <2>3, <2>4, <3>2, <4>1
    <3> QED  BY <3>2, <3>3
  <2> QED  BY <2>4, <2>5, <2>6 DEF ExprTypes, TypeTable, f
<1> QED  BY <1>1, <1>2, <1>3, PTL DEF SemSpec
=============================================================================
