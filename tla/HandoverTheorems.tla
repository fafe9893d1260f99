--------------------------- MODULE HandoverTheorems ---------------------------
(***************************************************************************)
(* Proofs about the hand-over from the semantics stage to the interpreter, *)
(* for every program and every limit.                                      *)
(*                                                                         *)
(* The global scope the stage leaves behind when it has reported nothing   *)
(* is the one a formula reads off the tree, its types and its variables    *)
(* both.  The scope grows with the statements of the program: the          *)
(* invariant says what it holds after the first k of them.                 *)
(***************************************************************************)
EXTENDS Pipeline, SemanticsTheorems

-----------------------------------------------------------------------------
(***************************************************************************)
(* The global scope after the first k statements of the program p.         *)
(***************************************************************************)
Registers(n) == TypeOf(n) \in {"STRUCT_STAT", "ENUM_STAT", "FUNC_STAT"}
TypeMade(n) ==
  CASE TypeOf(n) = "STRUCT_STAT" -> Type("struct", NodeData[n].types)
    [] TypeOf(n) = "ENUM_STAT" -> Type("enum", <<>>)
    [] OTHER -> Type("function", NodeData[n].types)

Makes(p, T, k) ==
  {d \in 1..k : Registers(TopLevel(p)[d]) /\ NodeData[TopLevel(p)[d]].name = T}
IsCore(T) == Places(CoreTypes, T) # {}

\* es is the type table.
TableAfter(es, p, k) ==
  \A T :
    IF IsCore(T) THEN Places(es, T) # {} /\ First(es, T) = First(CoreTypes, T)
    ELSE IF Makes(p, T, k) = {} THEN Places(es, T) = {}
    ELSE /\ Places(es, T) # {}
         /\ First(es, T).type = TypeMade(TopLevel(p)[Min(Makes(p, T, k))])

\* The value type a name stands for in the end.
TypeIn(p, T) ==
  IF IsCore(T) THEN First(CoreTypes, T).type.vt
  ELSE LET all == Makes(p, T, Len(TopLevel(p))) IN
       IF all = {} THEN "none" ELSE TypeMade(TopLevel(p)[Min(all)]).vt

VarsUp(p, k) == {d \in 1..k : TypeOf(TopLevel(p)[d]) = "VAR_STAT"}
VarsOf(p, x, k) == {d \in VarsUp(p, k) : NodeData[TopLevel(p)[d]].name = x}
VarType(p, d) == TypeIn(p, NodeData[TopLevel(p)[d]].aux)

\* vs are the slots.
SlotsAfter(vs, p, k) ==
  /\ Len(vs) = 3 + Cardinality(VarsUp(p, k))
  /\ \A x \in Names :
       IF VarsOf(p, x, k) # {}
       THEN /\ Places(vs, x) # {}
            /\ First(vs, x).value = Zero(VarType(p, Max(VarsOf(p, x, k))))
       ELSE IF x \in Preloaded
       THEN Places(vs, x) # {} /\ First(vs, x) = First(GlobalAtStart.vars, x)
       ELSE Places(vs, x) = {}

(***************************************************************************)
(* The invariant.  A function is registered before its body is processed;  *)
(* whatever else a statement declares is there when it has returned.  What *)
(* only an if statement or a function can do, fail without a report, no    *)
(* declaration of a type or of a variable does.                            *)
(***************************************************************************)
Returned(q) == IF Len(q) = 1 /\ q[1].pc = "child" THEN q[1].i + 1 ELSE q[1].i
Inside(q) == Len(q) > 1 /\ TypeOf(q[2].node) = "FUNC_STAT" /\ q[2].pc # "enter"
Made(q) == IF Inside(q) THEN q[1].i + 1 ELSE Returned(q)

GlobalIs(q, ss) ==
  /\ TableAfter(ss[1].types, q[1].node, Made(q))
  /\ SlotsAfter(ss[1].vars, q[1].node, Returned(q))

\* A declaration of a variable on the top level knows its type from the start.
Knows(q) ==
  Len(q) > 1 /\ TypeOf(q[2].node) = "VAR_STAT" /\ q[2].pc # "enter" =>
    q[2].type.vt = TypeIn(q[1].node, NodeData[q[2].node].aux)

Faultless == Expressions \cup {"VAR_STAT", "STRUCT_STAT", "ENUM_STAT"}
Blameless(q, error) ==
  LET f == q[Len(q)] IN
  f.pc = "child" /\ error => TypeOf(Children(f.node)[f.i + 1]) \notin Faultless

Accepting ==
  /\ errors = <<>> /\ Len(calls) = 1
  /\ Caller.pc = "visit" /\ Caller.i = Len(TopLevel(Caller.node))

HandInv ==
  /\ SemInv
  /\ errors = <<>> =>
       GlobalIs(calls, chain) /\ Knows(calls) /\ Blameless(calls, result.error)
  /\ verdict = "accepted" => Accepting

-----------------------------------------------------------------------------
(***************************************************************************)
(* Entries and their names.                                                *)
(***************************************************************************)
LEMMA EntryAppended ==
  ASSUME NEW S, NEW entries \in Seq(S), NEW e \in S, NEW T
  PROVE  /\ Places(entries, T) # {} => /\ Places(Append(entries, e), T) # {}
                                       /\ First(Append(entries, e), T) = First(entries, T)
         /\ Places(entries, T) = {} /\ e.name = T =>
              Places(Append(entries, e), T) # {} /\ First(Append(entries, e), T) = e
         /\ Places(entries, T) = {} /\ e.name # T => Places(Append(entries, e), T) = {}
<1> DEFINE more == Append(entries, e)
<1> DEFINE N == Len(entries)
<1>1. /\ N \in Nat /\ Len(more) = N + 1 /\ more[N + 1] = e
      /\ \A k \in 1..N : more[k] = entries[k]
  OBVIOUS
<1> HIDE DEF more, N
<1>2. Places(more, T) = Places(entries, T) \cup (IF e.name = T THEN {N + 1} ELSE {})
  <2>1. 1..(N + 1) = (1..N) \cup {N + 1}  BY <1>1
  <2> QED  BY <1>1, <2>1 DEF Places, N
<1>3. Places(entries, T) \in SUBSET (1..N) /\ Places(more, T) \in SUBSET (1..(N + 1))
  BY <1>1 DEF Places, N
<1>4. ASSUME Places(entries, T) # {}
      PROVE  Places(more, T) # {} /\ First(more, T) = First(entries, T)
  <2> DEFINE m == Min(Places(entries, T))
  <2>1. m \in Places(entries, T) /\ \A y \in Places(entries, T) : m <= y
    BY <1>1, <1>3, <1>4, MinIsLeast
  <2> HIDE DEF m
  <2>2. m \in Places(more, T) /\ \A y \in Places(more, T) : m <= y
    BY <1>1, <1>2, <1>3, <2>1
  <2>3. N + 1 \in Nat  BY <1>1
  <2>4. Min(Places(more, T)) = m  BY <1>3, <2>2, <2>3, MinIs
  <2>5. more[m] = entries[m]  BY <1>1, <1>3, <2>1
  <2> QED  BY <2>2, <2>4, <2>5 DEF First, m
<1>5. ASSUME Places(entries, T) = {}, e.name = T
      PROVE  Places(more, T) # {} /\ First(more, T) = e
  <2>1. Places(more, T) = {N + 1}  BY <1>2, <1>5
  <2>2. N + 1 \in Nat /\ N + 1 <= N + 1  BY <1>1
  <2>3. Min(Places(more, T)) = N + 1  BY <1>3, <2>1, <2>2, MinIs
  <2> QED  BY <1>1, <2>1, <2>3 DEF First
<1>6. Places(entries, T) = {} /\ e.name # T => Places(more, T) = {}  BY <1>2
<1> QED  BY <1>4, <1>5, <1>6 DEF more

VarsGrown(scope, x, type) == Declare(scope, x, type).vars
Spares(new, old, y) ==
  IF Places(old, y) = {} THEN Places(new, y) = {}
  ELSE Places(new, y) # {} /\ First(new, y) = First(old, y)

\* Declare fills the first slot of its name and no other.
LEMMA DeclareFills ==
  ASSUME NEW scope \in SemScopeType, NEW x \in Names, NEW type \in TypeType
  PROVE  /\ Len(VarsGrown(scope, x, type)) = Len(scope.vars) + 1
         /\ Places(VarsGrown(scope, x, type), x) # {}
         /\ First(VarsGrown(scope, x, type), x).value = Zero(type.vt)
         /\ \A y : y # x => Spares(VarsGrown(scope, x, type), scope.vars, y)
<1> DEFINE slot == Slot(x, type, None)
<1> DEFINE grown == Append(scope.vars, slot)
<1> DEFINE d == Min(Places(grown, x))
<1> DEFINE value == Zero(type.vt)
<1> DEFINE filled == [grown EXCEPT ![d].value = value]
<1>1. scope.vars \in Seq(SlotType) /\ Len(scope.vars) \in Nat
      /\ scope = [vars |-> scope.vars, types |-> scope.types]
  BY ScopeFacts
<1>2. slot \in SlotType /\ slot.name = x
  <2>1. "none" \in ValueTypes  BY DEF ValueTypes
  <2>2. None \in Value  BY <2>1, ZeroFits DEF None
  <2> QED  BY <2>2 DEF Slot, SlotType
<1>3. Declare(scope, x, type).vars = filled
  <2>1. Declare(scope, x, type) = [scope EXCEPT !.vars = filled]  BY DEF Declare
  <2> HIDE DEF filled
  <2> QED  BY <1>1, <2>1
<1> HIDE DEF slot
<1>4. grown \in Seq(SlotType) /\ Len(grown) = Len(scope.vars) + 1  BY <1>1, <1>2
<1>5. ASSUME NEW y
      PROVE  /\ Places(scope.vars, y) # {} =>
                  Places(grown, y) # {} /\ First(grown, y) = First(scope.vars, y)
             /\ Places(scope.vars, y) = {} /\ x # y => Places(grown, y) = {}
  BY <1>1, <1>2, EntryAppended
<1>6. Places(grown, x) # {}  BY <1>1, <1>2, EntryAppended
<1> HIDE DEF grown
<1>7. d \in 1..Len(grown) /\ grown[d].name = x
  BY <1>4, <1>6, FirstFacts DEF First
<1> HIDE DEF d, value
<1>8. /\ Len(filled) = Len(grown)
      /\ \A k \in 1..Len(grown) : k # d => filled[k] = grown[k]
      /\ filled[d].name = grown[d].name /\ filled[d].value = value
  <2>1. grown[d] \in SlotType  BY <1>4, <1>7
  <2>2. filled = [grown EXCEPT ![d] = [grown[d] EXCEPT !.value = value]]  OBVIOUS
  <2>3. DOMAIN grown = 1..Len(grown)  BY <1>4
  <2>4. Len(filled) = Len(grown)  BY <1>4, <2>2, <2>3
  <2>5. "value" \in DOMAIN grown[d] /\ "name" \in DOMAIN grown[d]  BY <2>1 DEF SlotType
  <2> QED  BY <1>7, <2>2, <2>3, <2>4, <2>5
<1> HIDE DEF filled
<1>9. \A z : Places(filled, z) = Places(grown, z)  BY <1>7, <1>8 DEF Places
<1>10. First(filled, x) = filled[d] /\ Places(filled, x) # {}
  BY <1>6, <1>9 DEF First, d
<1>11. ASSUME NEW y, y # x, Places(grown, y) # {}
       PROVE  First(filled, y) = First(grown, y)
  <2>1. Min(Places(grown, y)) \in 1..Len(grown) /\ First(grown, y).name = y
    BY <1>4, <1>11, FirstFacts
  <2>2. Min(Places(grown, y)) # d  BY <1>7, <1>11, <2>1 DEF First
  <2> QED  BY <1>8, <1>9, <2>1, <2>2 DEF First
<1>12. VarsGrown(scope, x, type) = filled  BY <1>3 DEF VarsGrown
<1>13. Len(filled) = Len(scope.vars) + 1  BY <1>4, <1>8
<1>14. Places(filled, x) # {} /\ First(filled, x).value = Zero(type.vt)
  BY <1>8, <1>10 DEF value
<1>15. ASSUME NEW y, y # x PROVE Spares(filled, scope.vars, y)
  <2>1. CASE Places(scope.vars, y) = {}  BY <1>5, <1>9, <1>15, <2>1 DEF Spares
  <2>2. CASE Places(scope.vars, y) # {}  BY <1>5, <1>9, <1>11, <1>15, <2>2 DEF Spares
  <2> QED  BY <2>1, <2>2
<1> QED  BY <1>12, <1>13, <1>14, <1>15

-----------------------------------------------------------------------------
(***************************************************************************)
(* A statement more.                                                       *)
(***************************************************************************)
LEMMA MakesFacts ==
  ASSUME NEW p, NEW T, NEW k \in Nat, NEW n, n = TopLevel(p)[k + 1]
  PROVE  /\ Makes(p, T, k) # {} =>
              /\ Makes(p, T, k + 1) # {}
              /\ Min(Makes(p, T, k + 1)) = Min(Makes(p, T, k))
         /\ Makes(p, T, k) = {} /\ Registers(n) /\ NodeData[n].name = T =>
              Makes(p, T, k + 1) # {} /\ Min(Makes(p, T, k + 1)) = k + 1
         /\ ~(Registers(n) /\ NodeData[n].name = T) => Makes(p, T, k + 1) = Makes(p, T, k)
<1>1. Makes(p, T, k) \in SUBSET (1..k) /\ Makes(p, T, k + 1) \in SUBSET (1..(k + 1))
      /\ k + 1 \in Nat
  BY DEF Makes
<1>2. 1..(k + 1) = (1..k) \cup {k + 1}  OBVIOUS
<1>3. Makes(p, T, k + 1) =
        Makes(p, T, k) \cup (IF Registers(n) /\ NodeData[n].name = T THEN {k + 1} ELSE {})
  BY <1>2 DEF Makes
<1>4. ASSUME Makes(p, T, k) # {}
      PROVE  Makes(p, T, k + 1) # {} /\ Min(Makes(p, T, k + 1)) = Min(Makes(p, T, k))
  <2> DEFINE m == Min(Makes(p, T, k))
  <2>1. m \in Makes(p, T, k) /\ \A y \in Makes(p, T, k) : m <= y
    BY <1>1, <1>4, MinIsLeast
  <2> HIDE DEF m
  <2>2. m \in Makes(p, T, k + 1) /\ \A y \in Makes(p, T, k + 1) : m <= y
    BY <1>1, <1>3, <2>1
  <2>3. Min(Makes(p, T, k + 1)) = m  BY <1>1, <2>2, MinIs
  <2> QED  BY <2>2, <2>3 DEF m
<1>5. ASSUME Makes(p, T, k) = {}, Registers(n), NodeData[n].name = T
      PROVE  Makes(p, T, k + 1) # {} /\ Min(Makes(p, T, k + 1)) = k + 1
  <2>1. Makes(p, T, k + 1) = {k + 1}  BY <1>3, <1>5
  <2>2. \A y \in {k + 1} : k + 1 <= y  OBVIOUS
  <2> QED  BY <1>1, <2>1, <2>2, MinIs
<1> QED  BY <1>3, <1>4, <1>5

\* What the first declaration makes of a name is made of it in the end.
LEMMA MadeForGood ==
  ASSUME NEW p \in Nodes, NEW T, NEW k \in 0..Len(TopLevel(p)), ~IsCore(T), Makes(p, T, k) # {}
  PROVE  TypeIn(p, T) = TypeMade(TopLevel(p)[Min(Makes(p, T, k))]).vt
<1> DEFINE n == Len(TopLevel(p))
<1> DEFINE m == Min(Makes(p, T, k))
<1>1. n \in Nat /\ k \in Nat /\ k <= n
  <2>1. n \in Nat  BY NodeFacts DEF TopLevel
  <2>2. k \in 0..n  OBVIOUS
  <2> HIDE DEF n
  <2> QED  BY <2>1, <2>2
<1> HIDE DEF n
<1>2. Makes(p, T, k) \in SUBSET (1..k) /\ Makes(p, T, n) \in SUBSET (1..n)  BY DEF Makes
<1>3. m \in Makes(p, T, k) /\ \A y \in Makes(p, T, k) : m <= y
  BY <1>1, <1>2, MinIsLeast
<1> HIDE DEF m
<1>4. m \in Makes(p, T, n)  BY <1>1, <1>3 DEF Makes
<1>5. ASSUME NEW y \in Makes(p, T, n) PROVE m <= y
  <2>1. CASE y <= k
    <3>1. y \in Makes(p, T, k)  BY <1>1, <2>1 DEF Makes
    <3> QED  BY <1>3, <3>1
  <2>2. CASE ~(y <= k)  BY <1>1, <1>2, <1>3, <2>2
  <2> QED  BY <2>1, <2>2
<1>6. Min(Makes(p, T, n)) = m  BY <1>1, <1>2, <1>4, <1>5, MinIs
<1> QED  BY <1>4, <1>6 DEF TypeIn, m, n

LEMMA TableRegistering ==
  ASSUME NEW p, NEW k \in Nat, NEW es \in Seq(EntryType), TableAfter(es, p, k),
         NEW n, n = TopLevel(p)[k + 1], Registers(n),
         NEW e \in EntryType, e = Named(NodeData[n].name, TypeMade(n))
  PROVE  TableAfter(Append(es, e), p, k + 1)
<1> SUFFICES ASSUME NEW T
             PROVE  IF IsCore(T)
                    THEN /\ Places(Append(es, e), T) # {}
                         /\ First(Append(es, e), T) = First(CoreTypes, T)
                    ELSE IF Makes(p, T, k + 1) = {} THEN Places(Append(es, e), T) = {}
                    ELSE /\ Places(Append(es, e), T) # {}
                         /\ First(Append(es, e), T).type
                              = TypeMade(TopLevel(p)[Min(Makes(p, T, k + 1))])
  BY DEF TableAfter
<1>1. IF IsCore(T) THEN Places(es, T) # {} /\ First(es, T) = First(CoreTypes, T)
      ELSE IF Makes(p, T, k) = {} THEN Places(es, T) = {}
      ELSE /\ Places(es, T) # {}
           /\ First(es, T).type = TypeMade(TopLevel(p)[Min(Makes(p, T, k))])
  BY DEF TableAfter
<1>2. e.name = NodeData[n].name /\ e.type = TypeMade(n)  BY DEF Named
<1>3. CASE IsCore(T)  BY <1>1, <1>3, EntryAppended
<1>4. CASE ~IsCore(T) /\ Makes(p, T, k) # {}
  <2>1. Makes(p, T, k + 1) # {} /\ Min(Makes(p, T, k + 1)) = Min(Makes(p, T, k))
    BY <1>4, MakesFacts
  <2> QED  BY <1>1, <1>4, <2>1, EntryAppended
<1>5. CASE ~IsCore(T) /\ Makes(p, T, k) = {} /\ NodeData[n].name = T
  <2>1. Makes(p, T, k + 1) # {} /\ Min(Makes(p, T, k + 1)) = k + 1
    BY <1>5, MakesFacts
  <2>2. Places(Append(es, e), T) # {} /\ First(Append(es, e), T) = e
    BY <1>1, <1>2, <1>5, EntryAppended
  <2> QED  BY <1>2, <1>5, <2>1, <2>2
<1>6. CASE ~IsCore(T) /\ Makes(p, T, k) = {} /\ NodeData[n].name # T
  <2>1. Makes(p, T, k + 1) = {}
    <3>1. ~(Registers(n) /\ NodeData[n].name = T) => Makes(p, T, k + 1) = Makes(p, T, k)
      BY MakesFacts
    <3> QED  BY <1>6, <3>1
  <2> QED  BY <1>1, <1>2, <1>6, <2>1, EntryAppended
<1> QED  BY <1>3, <1>4, <1>5, <1>6

LEMMA TableSame ==
  ASSUME NEW p, NEW k \in Nat, NEW es, TableAfter(es, p, k), ~Registers(TopLevel(p)[k + 1])
  PROVE  TableAfter(es, p, k + 1)
<1>1. \A T : Makes(p, T, k + 1) = Makes(p, T, k)  BY MakesFacts
<1> QED  BY <1>1 DEF TableAfter

LEMMA VarsUpFacts ==
  ASSUME NEW p, NEW k \in Nat, NEW n, n = TopLevel(p)[k + 1], NEW x
  PROVE  /\ Cardinality(VarsUp(p, k)) \in Nat
         /\ TypeOf(n) = "VAR_STAT" => Cardinality(VarsUp(p, k + 1)) = Cardinality(VarsUp(p, k)) + 1
         /\ TypeOf(n) # "VAR_STAT" => VarsUp(p, k + 1) = VarsUp(p, k)
         /\ TypeOf(n) = "VAR_STAT" /\ NodeData[n].name = x =>
              VarsOf(p, x, k + 1) = VarsOf(p, x, k) \cup {k + 1}
         /\ ~(TypeOf(n) = "VAR_STAT" /\ NodeData[n].name = x) =>
              VarsOf(p, x, k + 1) = VarsOf(p, x, k)
<1>1. IsFiniteSet(1..k)  BY FS_Interval
<1>2. IsFiniteSet(VarsUp(p, k))
  <2>1. VarsUp(p, k) \subseteq 1..k  BY DEF VarsUp
  <2> QED  BY <1>1, <2>1, FS_Subset
<1>3. 1..(k + 1) = (1..k) \cup {k + 1} /\ k + 1 \notin 1..k  OBVIOUS
<1>4. VarsUp(p, k + 1) = VarsUp(p, k) \cup (IF TypeOf(n) = "VAR_STAT" THEN {k + 1} ELSE {})
  BY <1>3 DEF VarsUp
<1>5. k + 1 \notin VarsUp(p, k)  BY <1>3 DEF VarsUp
<1>6. TypeOf(n) = "VAR_STAT" =>
        Cardinality(VarsUp(p, k + 1)) = Cardinality(VarsUp(p, k)) + 1
  BY <1>2, <1>4, <1>5, FS_AddElement
<1>7. Cardinality(VarsUp(p, k)) \in Nat  BY <1>2, FS_CardinalityType
<1>8. TypeOf(n) # "VAR_STAT" => VarsUp(p, k + 1) = VarsUp(p, k)  BY <1>4
<1>9. VarsOf(p, x, k + 1) =
        VarsOf(p, x, k) \cup
          (IF TypeOf(n) = "VAR_STAT" /\ NodeData[n].name = x THEN {k + 1} ELSE {})
  BY <1>4 DEF VarsOf
<1>10. ~(TypeOf(n) = "VAR_STAT" /\ NodeData[n].name = x) =>
         VarsOf(p, x, k + 1) = VarsOf(p, x, k)
  BY <1>9
<1> QED  BY <1>6, <1>7, <1>8, <1>9, <1>10

LEMMA SlotsDeclaring ==
  ASSUME NEW p, NEW k \in Nat, NEW scope \in SemScopeType, SlotsAfter(scope.vars, p, k),
         NEW n, n = TopLevel(p)[k + 1], TypeOf(n) = "VAR_STAT",
         NEW x \in Names, x = NodeData[n].name,
         NEW type \in TypeType, type.vt = TypeIn(p, NodeData[n].aux)
  PROVE  SlotsAfter(VarsGrown(scope, x, type), p, k + 1)
<1> DEFINE vs == VarsGrown(scope, x, type)
<1>1. /\ Len(vs) = Len(scope.vars) + 1
      /\ Places(vs, x) # {} /\ First(vs, x).value = Zero(type.vt)
  BY DeclareFills
<1>2. \A y : y # x => Spares(vs, scope.vars, y)  BY DeclareFills
<1> HIDE DEF vs
<1>3. Len(vs) = 3 + Cardinality(VarsUp(p, k + 1))
  <2>1. Len(vs) = Len(scope.vars) + 1  BY <1>1
  <2>2. Len(scope.vars) = 3 + Cardinality(VarsUp(p, k))  BY DEF SlotsAfter
  <2>3. Cardinality(VarsUp(p, k + 1)) = Cardinality(VarsUp(p, k)) + 1
        /\ Cardinality(VarsUp(p, k)) \in Nat
    BY VarsUpFacts
  <2> QED  BY <2>1, <2>2, <2>3
<1>4. ASSUME NEW y \in Names
      PROVE  IF VarsOf(p, y, k + 1) # {}
             THEN /\ Places(vs, y) # {}
                  /\ First(vs, y).value = Zero(VarType(p, Max(VarsOf(p, y, k + 1))))
             ELSE IF y \in Preloaded
             THEN Places(vs, y) # {} /\ First(vs, y) = First(GlobalAtStart.vars, y)
             ELSE Places(vs, y) = {}
  <2>1. CASE y = x
    <3>1. VarsOf(p, y, k + 1) = VarsOf(p, y, k) \cup {k + 1}
      <4>0. TypeOf(n) = "VAR_STAT" /\ NodeData[n].name = x  OBVIOUS
      <4>1. VarsOf(p, x, k + 1) = VarsOf(p, x, k) \cup {k + 1}  BY <4>0, VarsUpFacts, ZenonT(30)
      <4> QED  BY <2>1, <4>1
    <3>2. Max(VarsOf(p, y, k + 1)) = k + 1
      <4>1. VarsOf(p, y, k + 1) \in SUBSET (1..(k + 1)) /\ k + 1 \in Nat
        BY DEF VarsOf, VarsUp
      <4>2. \A z \in VarsOf(p, y, k + 1) : z <= k + 1  BY <4>1
      <4>3. k + 1 \in VarsOf(p, y, k + 1)  BY <3>1
      <4> QED  BY <4>1, <4>2, <4>3, MaxIs
    <3>3. Places(vs, y) # {} /\ First(vs, y).value = Zero(type.vt)  BY <1>1, <2>1
    <3> QED  BY <3>1, <3>2, <3>3 DEF VarType
  <2>2. CASE y # x
    <3>1. VarsOf(p, y, k + 1) = VarsOf(p, y, k)
      <4>1. ~(TypeOf(n) = "VAR_STAT" /\ NodeData[n].name = y)  BY <2>2
      <4> QED  BY <4>1, VarsUpFacts
    <3>2. /\ Places(scope.vars, y) = {} => Places(vs, y) = {}
          /\ Places(scope.vars, y) # {} =>
               Places(vs, y) # {} /\ First(vs, y) = First(scope.vars, y)
      BY <1>2, <2>2 DEF Spares
    <3> QED  BY <3>1, <3>2 DEF SlotsAfter
  <2> QED  BY <2>1, <2>2
<1> QED  BY <1>3, <1>4 DEF SlotsAfter, vs

LEMMA SlotsSame ==
  ASSUME NEW p, NEW k \in Nat, NEW vs, SlotsAfter(vs, p, k), TypeOf(TopLevel(p)[k + 1]) # "VAR_STAT"
  PROVE  SlotsAfter(vs, p, k + 1)
<1>1. VarsUp(p, k + 1) = VarsUp(p, k)  BY VarsUpFacts
<1>2. \A x : VarsOf(p, x, k + 1) = VarsOf(p, x, k)  BY <1>1 DEF VarsOf
<1> QED  BY <1>1, <1>2 DEF SlotsAfter

-----------------------------------------------------------------------------
(***************************************************************************)
(* Looking types up in the global scope.                                   *)
(***************************************************************************)
LEMMA TypeKnown ==
  ASSUME chain \in Seq(SemScopeType), Len(chain) = 1, NEW p \in Nodes, NEW T,
         NEW k \in 0..Len(TopLevel(p)), TableAfter(chain[1].types, p, k)
  PROVE  /\ scope_get_type(T) # NoType \/ k = Len(TopLevel(p)) =>
              scope_get_type(T).vt = TypeIn(p, T)
         /\ ~IsCore(T) /\ Makes(p, T, k) # {} =>
              scope_get_type(T) = TypeMade(TopLevel(p)[Min(Makes(p, T, k))])
<1> DEFINE es == chain[1].types
<1>1. ASSUME Places(es, T) # {} PROVE scope_get_type(T) = First(es, T).type
  <2>1. Typing(T) = {1}  BY <1>1 DEF Typing
  <2>2. Max({1}) = 1
    <3>1. 1 \in Nat /\ {1} \in SUBSET (1..1) /\ 1 \in {1} /\ \A y \in {1} : y <= 1  OBVIOUS
    <3> QED  BY <3>1, MaxIs
  <2> QED  BY <2>1, <2>2 DEF scope_get_type
<1>2. ASSUME Places(es, T) = {} PROVE scope_get_type(T) = NoType
  <2>1. Typing(T) = {}  BY <1>2 DEF Typing
  <2> QED  BY <2>1 DEF scope_get_type
<1>3. IF IsCore(T) THEN Places(es, T) # {} /\ First(es, T) = First(CoreTypes, T)
      ELSE IF Makes(p, T, k) = {} THEN Places(es, T) = {}
      ELSE /\ Places(es, T) # {}
           /\ First(es, T).type = TypeMade(TopLevel(p)[Min(Makes(p, T, k))])
  BY DEF TableAfter
<1> HIDE DEF es
<1>4. CASE IsCore(T)
  <2>1. scope_get_type(T) = First(CoreTypes, T).type  BY <1>1, <1>3, <1>4
  <2> QED  BY <1>4, <2>1 DEF TypeIn
<1>5. CASE ~IsCore(T) /\ Makes(p, T, k) # {}
  <2>1. scope_get_type(T) = TypeMade(TopLevel(p)[Min(Makes(p, T, k))])  BY <1>1, <1>3, <1>5
  <2>2. TypeIn(p, T) = TypeMade(TopLevel(p)[Min(Makes(p, T, k))]).vt  BY <1>5, MadeForGood
  <2> QED  BY <2>1, <2>2
<1>6. CASE ~IsCore(T) /\ Makes(p, T, k) = {}
  <2>1. scope_get_type(T) = NoType  BY <1>2, <1>3, <1>6
  <2>2. k = Len(TopLevel(p)) => TypeIn(p, T) = "none"  BY <1>6 DEF TypeIn
  <2>3. NoType.vt = "none"  BY DEF NoType, Type
  <2> QED  BY <1>6, <2>1, <2>2, <2>3
<1> QED  BY <1>4, <1>5, <1>6

LEMMA PreloadedFacts ==
  ASSUME NEW x
  PROVE  /\ x \in Preloaded => Places(GlobalAtStart.vars, x) # {}
         /\ x \notin Preloaded => Places(GlobalAtStart.vars, x) = {}
         /\ Len(GlobalAtStart.vars) = 3
<1> DEFINE vs == GlobalAtStart.vars
<1>1. Len(vs) = 3 /\ vs[1].name = "null" /\ vs[2].name = "false" /\ vs[3].name = "true"
  BY DEF GlobalAtStart, Preload, Slot
<1> HIDE DEF vs
<1>2. Places(vs, x) = {k \in 1..3 : vs[k].name = x}  BY <1>1 DEF Places
<1>3. x = "null" => 1 \in Places(vs, x)  BY <1>1, <1>2
<1>4. x = "false" => 2 \in Places(vs, x)  BY <1>1, <1>2
<1>5. x = "true" => 3 \in Places(vs, x)  BY <1>1, <1>2
<1>6. ASSUME NEW k \in Places(vs, x) PROVE x \in Preloaded
  <2>1. k \in {1, 2, 3}  BY <1>2
  <2> QED  BY <1>1, <1>2, <2>1 DEF Preloaded
<1> QED  BY <1>1, <1>3, <1>4, <1>5, <1>6 DEF Preloaded, vs

LEMMA GlobalStarts ==
  ASSUME NEW p
  PROVE  TableAfter(CoreTypes, p, 0) /\ SlotsAfter(GlobalAtStart.vars, p, 0)
<1>1. TableAfter(CoreTypes, p, 0)
  <2>1. \A T : Makes(p, T, 0) = {}  BY DEF Makes
  <2> QED  BY <2>1 DEF TableAfter, IsCore
<1>2. VarsUp(p, 0) = {} /\ \A x : VarsOf(p, x, 0) = {}  BY DEF VarsUp, VarsOf
<1>3. Cardinality(VarsUp(p, 0)) = 0  BY <1>2, FS_EmptySet
<1>4. Len(GlobalAtStart.vars) = 3 + Cardinality(VarsUp(p, 0))
  <2>1. Len(GlobalAtStart.vars) = 3  BY PreloadedFacts
  <2> HIDE DEF GlobalAtStart
  <2> QED  BY <1>3, <2>1
<1>5. SlotsAfter(GlobalAtStart.vars, p, 0)  BY <1>2, <1>4, PreloadedFacts DEF SlotsAfter
<1> QED  BY <1>1, <1>5

-----------------------------------------------------------------------------
(***************************************************************************)
(* Where the calls stand.                                                  *)
(***************************************************************************)
LEMMA OnTop ==
  ASSUME SemInv, Len(calls) <= 2, ~Open(Caller)
  PROVE  Len(chain) = 1
<1> DEFINE N == Len(calls)
<1>1. N \in {1, 2} /\ Caller = calls[N]
  <2>1. N \in Nat /\ N >= 1 /\ N <= 2 /\ Caller = calls[N]  BY CallFacts
  <2> HIDE DEF N
  <2> QED  BY <2>1
<1>2. ~Open(calls[1])  BY CallFacts DEF SemInv, Calling, Open
<1>3. Depth(calls, 0) = 0 /\ Depth(calls, 0 + 1) = 0  BY <1>2, DepthFacts
<1>4. N = 2 => Depth(calls, 1 + 1) = 0
  <2>1. 1 \in Nat /\ 0 + 1 = 1 /\ 1 + 1 = 2  OBVIOUS
  <2>2. N = 2 => ~Open(calls[1 + 1])  BY <1>1, <2>1
  <2>3. Depth(calls, 1 + 1) = Depth(calls, 1) + (IF Open(calls[1 + 1]) THEN 1 ELSE 0)
    BY <2>1, DepthFacts
  <2> QED  BY <1>3, <2>1, <2>2, <2>3
<1>5. Depth(calls, N) = 0
  <2> HIDE DEF N
  <2>1. 0 + 1 = 1 /\ 1 + 1 = 2  OBVIOUS
  <2> QED  BY <1>1, <1>3, <1>4, <2>1
<1> QED  BY <1>5 DEF SemInv, Stacked

\* Below the top level a declaration stands in a block, which has a scope.
LEMMA DeepDown ==
  ASSUME SemInv, Len(calls) > 2, TypeOf(Caller.node) \in DeclarationTypes
  PROVE  Len(chain) > 1
<1> DEFINE N == Len(calls)
<1>1. N \in Nat /\ N > 2 /\ Caller = calls[N] /\ N - 1 \in 1..(N - 1) /\ N - 1 \in 1..N
      /\ N - 1 # 1
  <2>1. N \in Nat /\ Caller = calls[N]  BY CallFacts
  <2>2. N > 2  OBVIOUS
  <2> HIDE DEF N
  <2> QED  BY <2>1, <2>2
<1>2. /\ Waiting(calls[N - 1]) /\ calls[(N - 1) + 1].node = Awaited(calls[N - 1])
      /\ TypeOf(calls[N - 1].node) # "PROGRAM"
  BY <1>1 DEF SemInv, Calling, Awaited
<1>3. calls[N - 1].node \in Nodes /\ calls[N - 1].i \in Nat /\ Len(chain) \in Nat  BY <1>1, CallFacts
<1>4. Caller.node = Awaited(calls[N - 1])
  <2>1. (N - 1) + 1 = N  BY <1>1
  <2> QED  BY <1>1, <1>2, <2>1
<1> HIDE DEF N
<1>5. PICK m \in 1..Len(NodeData[calls[N - 1].node].kids) :
        Caller.node = NodeData[calls[N - 1].node].kids[m]
  <2>1. calls[N - 1].i + 1 \in 1..Len(Children(calls[N - 1].node))
    BY <1>2, <1>3, ChildrenFacts DEF Waiting
  <2> DEFINE c == calls[N - 1]
             kids == Children(c.node)
  <2>2. Caller.node = kids[c.i + 1]  BY <1>4 DEF Awaited
  <2>3. \A k \in 1..Len(kids) :
          \E m \in 1..Len(NodeData[c.node].kids) : kids[k] = NodeData[c.node].kids[m]
    <3>1. c.node \in Nodes  BY <1>3
    <3> QED  BY <3>1, ChildrenFacts
  <2> HIDE DEF kids
  <2>4. c.i + 1 \in 1..Len(kids)  BY <2>1 DEF kids
  <2> QED  BY <2>2, <2>3, <2>4
<1>6. TypeOf(calls[N - 1].node) = "BLOCK"
  BY <1>2, <1>3, <1>5, DeclarationsAssumption DEF StatTypes
<1>7. Open(calls[N - 1])  BY <1>2, <1>6 DEF Open, Waiting
<1>8. calls[N - 1].scope \in 1..Len(chain) /\ calls[N - 1].scope + 1 \in 1..Len(chain)
  BY <1>1, <1>7, CallFacts, ScopesOfFrames DEF SemInv, N
<1> QED  BY <1>3, <1>8

LEMMA TopLevelStatement ==
  ASSUME SemInv
  PROVE  /\ calls[1].node \in Nodes /\ calls[1].i \in Nat /\ TypeOf(calls[1].node) = "PROGRAM"
         /\ Len(TopLevel(calls[1].node)) \in Nat
         /\ calls[1].i <= Len(TopLevel(calls[1].node))
         /\ Len(calls) > 1 =>
              /\ calls[1].pc = "child" /\ calls[1].i + 1 <= Len(TopLevel(calls[1].node))
              /\ calls[2].node = TopLevel(calls[1].node)[calls[1].i + 1]
              /\ calls[2].node \in Nodes /\ TypeOf(calls[2].node) # "PROGRAM"
              /\ calls[2] \in CallType
<1>1. Len(calls) \in Nat /\ 1 \in 1..Len(calls)  BY CallFacts
<1>2. calls[1].node \in Nodes /\ calls[1].i \in Nat /\ FrameOK(calls[1])  BY <1>1, CallFacts
<1>3. TypeOf(calls[1].node) = "PROGRAM"  BY <1>1 DEF SemInv, Calling
<1>4. Children(calls[1].node) = TopLevel(calls[1].node) /\ Len(TopLevel(calls[1].node)) \in Nat
  BY <1>2, <1>3, ChildrenFacts, NodeFacts DEF TopLevel
<1>5. calls[1].i <= Len(TopLevel(calls[1].node))  BY <1>2, <1>4 DEF FrameOK
<1>6. ASSUME Len(calls) > 1
      PROVE  /\ calls[1].pc = "child" /\ calls[1].i + 1 <= Len(TopLevel(calls[1].node))
             /\ calls[2].node = TopLevel(calls[1].node)[calls[1].i + 1]
             /\ calls[2].node \in Nodes /\ TypeOf(calls[2].node) # "PROGRAM"
             /\ calls[2] \in CallType
  <2>1. 1 \in 1..(Len(calls) - 1) /\ 2 \in 1..Len(calls) /\ 1 + 1 = 2  BY <1>1, <1>6
  <2>2. Waiting(calls[1]) /\ calls[2].node = Children(calls[1].node)[calls[1].i + 1]
        /\ TypeOf(calls[2].node) # "PROGRAM"
    BY <2>1 DEF SemInv, Calling
  <2>3. calls[2].node \in Nodes /\ calls[2] \in CallType  BY <2>1, CallFacts
  <2>4. calls[1].i + 1 <= Len(TopLevel(calls[1].node))
    BY <1>2, <1>4, <2>2 DEF Waiting
  <2> QED  BY <1>4, <2>2, <2>3, <2>4 DEF Waiting
<1> QED  BY <1>2, <1>3, <1>4, <1>5, <1>6

-----------------------------------------------------------------------------
(***************************************************************************)
(* What a step does to the calls and the global scope as long as nothing   *)
(* is reported.                                                            *)
(***************************************************************************)
Stays == UNCHANGED <<calls, result, chain>>

TypeKept(f) ==
  IF Caller.pc = "enter" THEN f.type = scope_get_type(NodeData[f.node].aux) /\ f.type # NoType
  ELSE f.type = Caller.type
GoesOn ==
  \E f \in CallType :
    /\ GoesOnAs(f) /\ UNCHANGED <<chain, result>>
    /\ f.node = Caller.node /\ f.pc = "visit"
    /\ TypeOf(f.node) = "PROGRAM" => Caller.pc = "child" /\ f.i = Caller.i + 1
    /\ TypeOf(f.node) = "FUNC_STAT" => Caller.pc # "enter"
    /\ TypeOf(f.node) = "VAR_STAT" => TypeKept(f)

WithItsType == Registered(NodeData[Caller.node].name, TypeMade(Caller.node))
OpensScope ==
  /\ Caller.pc = "enter" /\ TypeOf(Caller.node) \in {"BLOCK", "FUNC_STAT"}
  /\ \E f \in CallType : \E scope :
       /\ GoesOnAs(f) /\ UNCHANGED result
       /\ f.node = Caller.node /\ f.pc = "visit"
       /\ chain' = Append(IF TypeOf(f.node) = "FUNC_STAT" THEN WithItsType ELSE chain, scope)

LeftBehind ==
  IF TypeOf(Caller.node) \in {"STRUCT_STAT", "ENUM_STAT"} THEN WithItsType
  ELSE IF TypeOf(Caller.node) = "VAR_STAT"
  THEN [chain EXCEPT ![Len(chain)] = Declare(@, NodeData[Caller.node].name, Caller.type)]
  ELSE chain
ComesBack ==
  /\ TypeOf(Caller.node) # "PROGRAM"
  /\ TypeOf(Caller.node) \in {"FUNC_STAT", "VAR_STAT"} => Caller.pc # "enter"
  /\ calls' = Front(calls) /\ chain' = SubSeq(LeftBehind, 1, Caller.scope)
  /\ result'.error => TypeOf(Caller.node) \notin Faultless

QuietMoves == Stays \/ GoesOn \/ OpensScope \/ Visits \/ ComesBack

LEMMA QuietReport ==
  ASSUME SemInv, errors = <<>>, errors' = <<>>, NEW n \in Nodes, NEW error, Report(n, error)
  PROVE  Stays
<1>1. Append(errors, n) # <<>>
  <2>1. errors \in Seq(Nodes)  BY CallFacts
  <2>2. Len(Append(errors, n)) = Len(errors) + 1 /\ Len(errors) \in Nat  BY <2>1
  <2> QED  BY <2>2
<1>2. Die("overflow")  BY <1>1 DEF Report
<1> QED  BY <1>2 DEF Die, Stays

LEMMA QuietDeath ==
  ASSUME NEW how, Die(how)
  PROVE  Stays
BY DEF Die, Stays

LEMMA QuietLeave ==
  ASSUME NEW ss, NEW type, NEW error \in BOOLEAN, Leave(ss, type, error), ss = LeftBehind,
         TypeOf(Caller.node) # "PROGRAM",
         TypeOf(Caller.node) \in {"FUNC_STAT", "VAR_STAT"} => Caller.pc # "enter",
         error => TypeOf(Caller.node) \notin Faultless
  PROVE  ComesBack
BY DEF Leave, ComesBack, SemRes

LEMMA QuietYield ==
  ASSUME NEW type, Yield(type),
         TypeOf(Caller.node) \notin {"PROGRAM", "STRUCT_STAT", "ENUM_STAT", "VAR_STAT", "FUNC_STAT"}
  PROVE  ComesBack
<1>1. Leave(chain, type, FALSE)  BY DEF Yield
<1>2. chain = LeftBehind  BY DEF LeftBehind
<1> QED  BY <1>1, <1>2, QuietLeave

LEMMA QuietLeaves ==
  ASSUME SemInv, errors = <<>>, errors' = <<>>, Leaves
  PROVE  QuietMoves
<1>1. /\ Caller \in CallType /\ Caller.node \in Nodes /\ Caller.i \in Nat
      /\ Here = NodeData[Caller.node] /\ Here.type = TypeOf(Caller.node)
  BY CallFacts
<1>2. ASSUME NEW type \in {"INTEGER_LIT", "FLOAT_LIT", "IDENT_LIT", "BREAK_STAT",
                           "CONTINUE_STAT", "CAST_EXPR"},
             TypeOf(Caller.node) = type, NEW t, Yield(t)
      PROVE  QuietMoves
  BY <1>2, QuietYield DEF QuietMoves
<1>3. CASE process_integer_lit  BY <1>1, <1>2, <1>3 DEF process_integer_lit, In
<1>4. CASE process_float_lit  BY <1>1, <1>2, <1>4 DEF process_float_lit, In
<1>5. CASE process_ident_lit
  <2>1. TypeOf(Caller.node) = "IDENT_LIT"  BY <1>1, <1>5 DEF process_ident_lit, In
  <2>2. Report(Caller.node, TRUE) \/ \E t : Yield(t)  BY <1>5 DEF process_ident_lit
  <2> QED  BY <1>1, <1>2, <2>1, <2>2, QuietReport DEF QuietMoves
<1>6. CASE process_jump
  <2>1. TypeOf(Caller.node) \in {"BREAK_STAT", "CONTINUE_STAT"} /\ Yield(NoType)
    BY <1>1, <1>6 DEF process_jump, In
  <2> QED  BY <1>2, <2>1
<1>7. CASE process_cast_expr  BY <1>1, <1>2, <1>7 DEF process_cast_expr, In
<1>8. CASE process_struct_stat
  <2>1. TypeOf(Caller.node) = "STRUCT_STAT"  BY <1>1, <1>8 DEF process_struct_stat, In
  <2>2. \/ Report(Caller.node, FALSE) \/ Die("overflow")
        \/ Leave(Registered(Here.name, Type("struct", Here.types)), NoType, FALSE)
    BY <1>8 DEF process_struct_stat
  <2>3. Registered(Here.name, Type("struct", Here.types)) = LeftBehind
    BY <1>1, <2>1 DEF LeftBehind, WithItsType, TypeMade
  <2>4. CASE Leave(Registered(Here.name, Type("struct", Here.types)), NoType, FALSE)
    BY <2>1, <2>3, <2>4, QuietLeave DEF QuietMoves
  <2> QED  BY <1>1, <2>2, <2>4, QuietReport, QuietDeath DEF QuietMoves
<1>9. CASE process_unsupported \/ process_null
  BY <1>9, QuietDeath DEF process_unsupported, process_null, QuietMoves
<1>10. CASE EnumEntry
  <2> DEFINE value == Here.kids[Caller.i + 1]
  <2>1. /\ TypeOf(Caller.node) = "ENUM_STAT" /\ Caller.pc = "visit" /\ Caller.i < Len(Here.kids)
        /\ value \in Nodes
    BY <1>1, <1>10, NodeFacts DEF EnumEntry, In
  <2>2. \/ \E how : Die(how)
        \/ Report(value, TRUE)
        \/ Proceed([Caller EXCEPT !.i = @ + 1]) /\ UNCHANGED chain
    BY <1>10 DEF EnumEntry, ReportNamed
  <2> HIDE DEF value
  <2>3. CASE Proceed([Caller EXCEPT !.i = @ + 1]) /\ UNCHANGED chain
    <3> DEFINE f == [Caller EXCEPT !.i = @ + 1]
    <3>1. f \in CallType /\ f.node = Caller.node /\ f.pc = "visit"
      BY <1>1, <2>1 DEF CallType
    <3>2. GoesOnAs(f) /\ UNCHANGED <<chain, result>>  BY <2>3 DEF Proceed, GoesOnAs
    <3> HIDE DEF f
    <3> QED  BY <2>1, <3>1, <3>2 DEF GoesOn, QuietMoves
  <2> QED  BY <2>1, <2>2, <2>3, QuietReport, QuietDeath DEF QuietMoves
<1>11. CASE process_enum_stat
  <2>1. TypeOf(Caller.node) = "ENUM_STAT"  BY <1>1, <1>11 DEF process_enum_stat, In
  <2>2. \/ Die("overflow")
        \/ Leave(Registered(Here.name, Type("enum", <<>>)), NoType, FALSE)
    BY <1>11 DEF process_enum_stat
  <2>3. Registered(Here.name, Type("enum", <<>>)) = LeftBehind
    BY <1>1, <2>1 DEF LeftBehind, WithItsType, TypeMade
  <2> QED  BY <2>1, <2>2, <2>3, QuietLeave, QuietDeath DEF QuietMoves
<1> QED
  BY <1>3, <1>4, <1>5, <1>6, <1>7, <1>8, <1>9, <1>10, <1>11 DEF Leaves

LEMMA QuietEntering ==
  ASSUME SemInv, errors = <<>>, errors' = <<>>, Entering
  PROVE  QuietMoves
<1>1. /\ Caller \in CallType /\ Caller.node \in Nodes
      /\ Here = NodeData[Caller.node] /\ Here.type = TypeOf(Caller.node)
      /\ \A T : scope_get_type(T) \in TypeType
  BY CallFacts, TypeFound
<1>2. ASSUME NEW type \in TypeType, Proceed([Caller EXCEPT !.pc = "visit", !.type = type]),
             UNCHANGED chain, TypeOf(Caller.node) \in {"VAR_STAT", "CALL_EXPR"},
             TypeOf(Caller.node) = "VAR_STAT" =>
               Caller.pc = "enter" /\ type = scope_get_type(Here.aux) /\ type # NoType
      PROVE  QuietMoves
  <2> DEFINE f == [Caller EXCEPT !.pc = "visit", !.type = type]
  <2>1. f \in CallType /\ f.node = Caller.node /\ f.pc = "visit" /\ f.type = type
    BY <1>1, <1>2 DEF CallType
  <2>2. GoesOnAs(f) /\ UNCHANGED <<chain, result>>  BY <1>2 DEF Proceed, GoesOnAs
  <2> HIDE DEF f
  <2>3. TypeOf(f.node) = "VAR_STAT" => TypeKept(f)  BY <1>1, <1>2, <2>1 DEF TypeKept
  <2> QED  BY <1>2, <2>1, <2>2, <2>3 DEF GoesOn, QuietMoves
<1>3. CASE VarEnter
  <2> DEFINE type == scope_get_type(Here.aux)
  <2>1. TypeOf(Caller.node) = "VAR_STAT" /\ Caller.pc = "enter"  BY <1>1, <1>3 DEF VarEnter, In
  <2>2. \/ Report(Caller.node, TRUE)
        \/ /\ type # NoType /\ UNCHANGED chain
           /\ Proceed([Caller EXCEPT !.pc = "visit", !.type = type])
    BY <1>3 DEF VarEnter
  <2>3. type \in TypeType  BY <1>1
  <2>4. CASE Report(Caller.node, TRUE)  BY <1>1, <2>4, QuietReport DEF QuietMoves
  <2> QED  BY <1>2, <2>1, <2>2, <2>3, <2>4
<1>4. ASSUME Caller.pc = "enter", TypeOf(Caller.node) \in {"BLOCK", "FUNC_STAT"},
             Proceed([Caller EXCEPT !.pc = "visit"]), NEW scope,
             chain' = Append(IF TypeOf(Caller.node) = "FUNC_STAT" THEN WithItsType ELSE chain, scope)
      PROVE  QuietMoves
  <2> DEFINE f == [Caller EXCEPT !.pc = "visit"]
  <2>1. f \in CallType /\ f.node = Caller.node /\ f.pc = "visit"
    BY <1>1 DEF CallType
  <2>2. GoesOnAs(f) /\ UNCHANGED result  BY <1>4 DEF Proceed, GoesOnAs
  <2> HIDE DEF f
  <2> QED  BY <1>4, <2>1, <2>2 DEF OpensScope, QuietMoves
<1>5. CASE FnEnter
  <2>1. TypeOf(Caller.node) = "FUNC_STAT" /\ Caller.pc = "enter"  BY <1>1, <1>5 DEF FnEnter, In
  <2>2. \/ Report(Caller.node, TRUE) \/ Die("overflow")
        \/ /\ chain' = Append(Registered(Here.name, Type("function", Here.types)),
                              Parameters(Caller.node))
           /\ Proceed([Caller EXCEPT !.pc = "visit"])
    BY <1>5 DEF FnEnter
  <2>3. Registered(Here.name, Type("function", Here.types)) = WithItsType
    BY <1>1, <2>1 DEF WithItsType, TypeMade
  <2> QED  BY <1>1, <1>4, <2>1, <2>2, <2>3, QuietReport, QuietDeath DEF QuietMoves
<1>6. CASE BlockEnter
  <2>1. /\ TypeOf(Caller.node) = "BLOCK" /\ Caller.pc = "enter"
        /\ chain' = Append(chain, SubScope) /\ Proceed([Caller EXCEPT !.pc = "visit"])
    BY <1>1, <1>6 DEF BlockEnter, In
  <2> QED  BY <1>4, <2>1
<1>7. CASE CallEnter
  <2> DEFINE function == Callee(Caller.node)
  <2>1. TypeOf(Caller.node) = "CALL_EXPR"  BY <1>1, <1>7 DEF CallEnter, In
  <2>2. \/ Report(Here.kids[1], TRUE)
        \/ Die("crash")
        \/ Proceed([Caller EXCEPT !.pc = "visit", !.type = function]) /\ UNCHANGED chain
    BY <1>7 DEF CallEnter, ReportNamed
  <2>3. function \in TypeType  BY CallFacts, CalleeFound
  <2> HIDE DEF function
  <2>4. CASE Report(Here.kids[1], TRUE)
    <3>1. Arity("CALL_EXPR", Len(Here.kids))  BY <1>1, <2>1, NodeFacts
    <3>2. Len(Here.kids) >= 1 /\ Len(Here.kids) \in Nat  BY <1>1, <3>1, NodeFacts DEF Arity
    <3>3. Here.kids[1] \in Nodes  BY <1>1, <3>2, NodeFacts
    <3> QED  BY <2>4, <3>3, QuietReport DEF QuietMoves
  <2>5. CASE Die("crash")  BY <2>5, QuietDeath DEF QuietMoves
  <2> QED  BY <1>2, <2>1, <2>2, <2>3, <2>4, <2>5
<1> QED  BY <1>3, <1>5, <1>6, <1>7 DEF Entering

\* No error comes from below without a report but through what an if statement or a function is.
LEMMA FaultsComeFrom ==
  ASSUME SemInv, Blameless(calls, result.error), Caller.pc = "child", result.error
  PROVE  TypeOf(Caller.node) \notin Faultless \/ TypeOf(Caller.node) \in {"STRUCT_STAT", "ENUM_STAT"}
<1>1. Caller \in CallType /\ Caller.node \in Nodes /\ Caller.i \in Nat /\ FrameOK(Caller)
      /\ Caller = calls[Len(calls)]
  BY CallFacts
<1> SUFFICES ASSUME TypeOf(Caller.node) \in Expressions \cup {"VAR_STAT"} PROVE FALSE
  BY DEF Faultless
<1>2. Caller.i + 1 \in 1..Len(Children(Caller.node))
  BY <1>1, ChildrenFacts DEF FrameOK, Waiting
<1>3. PICK m \in 1..Len(NodeData[Caller.node].kids) :
        Children(Caller.node)[Caller.i + 1] = NodeData[Caller.node].kids[m]
  BY <1>1, <1>2, ChildrenFacts
<1>4. TypeOf(NodeData[Caller.node].kids[m]) \in Expressions
  BY <1>1, ExpressionsAssumption
<1>5. TypeOf(Children(Caller.node)[Caller.i + 1]) \in Faultless  BY <1>3, <1>4 DEF Faultless
<1>6. TypeOf(Children(Caller.node)[Caller.i + 1]) \notin Faultless  BY <1>1 DEF Blameless
<1> QED  BY <1>5, <1>6

LEMMA QuietVisiting ==
  ASSUME SemInv, errors = <<>>, errors' = <<>>, Blameless(calls, result.error), Visiting
  PROVE  QuietMoves
<1>1. /\ Caller \in CallType /\ Caller.node \in Nodes /\ Caller.i \in Nat /\ FrameOK(Caller)
      /\ Here = NodeData[Caller.node] /\ Here.type = TypeOf(Caller.node)
      /\ result.error \in BOOLEAN /\ result.type \in TypeType /\ Caller.type \in TypeType
  BY CallFacts DEF CallType
<1>2. Here.kids \in Seq(Nodes) /\ Len(Here.kids) \in Nat /\ Len(Children(Caller.node)) \in Nat
  BY <1>1, NodeFacts, ChildrenFacts
<1>3. ASSUME TypeOf(Caller.node) \in Parents, TypeOf(Caller.node) # "PROGRAM",
             Caller.pc = "child", result.error, Leave(chain, NoType, TRUE)
      PROVE  QuietMoves
  <2>1. TypeOf(Caller.node) \notin {"STRUCT_STAT", "ENUM_STAT"}  BY <1>3 DEF Parents
  <2>2. TypeOf(Caller.node) \notin Faultless  BY <1>3, <2>1, FaultsComeFrom
  <2>3. chain = LeftBehind  BY <2>2 DEF LeftBehind, Faultless
  <2> QED  BY <1>3, <2>2, <2>3, QuietLeave DEF QuietMoves
<1>4. ASSUME NEW type \in TypeType, Caller.pc = "child", UNCHANGED chain,
             TypeOf(Caller.node) = "VAR_STAT" => type = Caller.type,
             Proceed([Caller EXCEPT !.pc = "visit", !.i = @ + 1, !.type = type])
      PROVE  QuietMoves
  <2> DEFINE f == GoneOn(Caller.i + 1, type)
  <2>1. /\ f \in CallType /\ f.node = Caller.node /\ f.pc = "visit" /\ f.i = Caller.i + 1
        /\ f.type = type
    <3>1. Caller.i + 1 \in Nat  BY <1>1
    <3> QED  BY <1>1, <3>1, GoneOnFacts
  <2>2. GoesOnAs(f) /\ UNCHANGED <<chain, result>>
    BY <1>1, <1>4 DEF Proceed, GoesOnAs, GoneOn, CallType
  <2> HIDE DEF f
  <2>3. TypeOf(f.node) = "VAR_STAT" => TypeKept(f)  BY <1>4, <2>1 DEF TypeKept
  <2> QED  BY <1>4, <2>1, <2>2, <2>3 DEF GoesOn, QuietMoves
<1>5. CASE Visit
  <2>1. /\ Caller.pc = "visit" /\ Caller.i # Len(Children(Caller.node))
        /\ Process([Caller EXCEPT !.pc = "child"], Children(Caller.node)[Caller.i + 1])
    BY <1>5 DEF Visit, In, Over
  <2>2. Caller.i < Len(Children(Caller.node))  BY <1>1, <1>2, <2>1 DEF FrameOK
  <2> QED  BY <2>1, <2>2 DEF Visits, QuietMoves
<1>6. CASE Visited
  <2>1. Caller.pc = "child" /\ TypeOf(Caller.node) \in Parents  BY <1>1, <1>6 DEF Visited, In
  <2>2. CASE result.error /\ Here.type # "PROGRAM"
    <3>1. Leave(chain, NoType, TRUE)  BY <1>6, <2>2 DEF Visited
    <3> QED  BY <1>1, <1>3, <2>1, <2>2, <3>1
  <2>3. CASE ~(result.error /\ Here.type # "PROGRAM")
    <3> DEFINE type == IF TakesType THEN result.type ELSE Caller.type
    <3>1. Proceed([Caller EXCEPT !.pc = "visit", !.i = @ + 1,
                                 !.type = IF TakesType THEN result.type ELSE @]) /\ UNCHANGED chain
      BY <1>6, <2>3 DEF Visited
    <3>2. [Caller EXCEPT !.pc = "visit", !.i = @ + 1,
                         !.type = IF TakesType THEN result.type ELSE @]
            = [Caller EXCEPT !.pc = "visit", !.i = @ + 1, !.type = type]
      OBVIOUS
    <3>3. type \in TypeType  BY <1>1
    <3>4. TypeOf(Caller.node) = "VAR_STAT" => type = Caller.type  BY <1>1 DEF TakesType
    <3> HIDE DEF type
    <3> QED  BY <1>4, <2>1, <3>1, <3>2, <3>3, <3>4
  <2> QED  BY <2>2, <2>3
<1>7. CASE Argument
  <2>1. TypeOf(Caller.node) = "CALL_EXPR" /\ Caller.pc = "child"
    BY <1>1, <1>7 DEF Argument, In
  <2>2. \/ result.error /\ Leave(chain, NoType, TRUE)
        \/ \E how : Die(how)
        \/ Report(Here.kids[Caller.i + 2], TRUE)
        \/ Proceed([Caller EXCEPT !.pc = "visit", !.i = @ + 1]) /\ UNCHANGED chain
    BY <1>7 DEF Argument
  <2>3. CASE result.error /\ Leave(chain, NoType, TRUE)
    <3>1. TypeOf(Caller.node) \in Parents  BY <2>1 DEF Parents
    <3> QED  BY <1>3, <2>1, <2>3, <3>1
  <2>4. CASE Report(Here.kids[Caller.i + 2], TRUE)
    <3>1. Children(Caller.node) = Tail(Here.kids)  BY <1>1, <2>1 DEF Children
    <3>2. Arity("CALL_EXPR", Len(Here.kids))  BY <1>1, <2>1, NodeFacts
    <3>3. Len(Here.kids) >= 1  BY <3>2 DEF Arity
    <3>4. Len(Tail(Here.kids)) = Len(Here.kids) - 1  BY <1>2, <3>3
    <3>5. Caller.i + 1 <= Len(Children(Caller.node))  BY <1>1, <1>2, <2>1 DEF FrameOK, Waiting
    <3>6. Caller.i + 2 \in 1..Len(Here.kids)  BY <1>1, <1>2, <3>1, <3>4, <3>5
    <3>7. Here.kids[Caller.i + 2] \in Nodes  BY <1>1, <3>6, NodeFacts
    <3> QED  BY <2>4, <3>7, QuietReport DEF QuietMoves
  <2>5. CASE Proceed([Caller EXCEPT !.pc = "visit", !.i = @ + 1]) /\ UNCHANGED chain
    <3>1. [Caller EXCEPT !.pc = "visit", !.i = @ + 1]
            = [Caller EXCEPT !.pc = "visit", !.i = @ + 1, !.type = Caller.type]
      BY <1>1 DEF CallType
    <3> QED  BY <1>1, <1>4, <2>1, <2>5, <3>1
  <2> QED  BY <2>2, <2>3, <2>4, <2>5, QuietDeath DEF QuietMoves
<1> QED  BY <1>5, <1>6, <1>7 DEF Visiting

LEMMA QuietLeaving ==
  ASSUME SemInv, Leaving
  PROVE  QuietMoves
<1>1. Here = NodeData[Caller.node] /\ Here.type = TypeOf(Caller.node)  BY CallFacts
<1>2. CASE process_expr
  <2>1. /\ Yield(Caller.type)
        /\ TypeOf(Caller.node) \in {"DEFER_STAT", "RETURN_STAT", "BIN_EXPR", "UN_EXPR",
                                     "UPDATE_EXPR", "ASSIGN_EXPR", "BLOCK"}
    BY <1>1, <1>2 DEF process_expr, In
  <2> QED  BY <2>1, QuietYield DEF QuietMoves
<1>3. CASE process_untyped
  <2>1. Yield(NoType) /\ TypeOf(Caller.node) \in {"WHILE_STAT", "CALL_EXPR"}
    BY <1>1, <1>3 DEF process_untyped, In
  <2> QED  BY <2>1, QuietYield DEF QuietMoves
<1>4. CASE process_failing
  <2>1. /\ Leave(chain, NoType, TRUE) /\ Caller.pc = "visit"
        /\ TypeOf(Caller.node) \in {"IF_STAT", "FUNC_STAT"}
    BY <1>1, <1>4 DEF process_failing, In
  <2>2. TypeOf(Caller.node) \notin Faultless  BY <2>1 DEF Faultless, Expressions
  <2>3. chain = LeftBehind  BY <2>1 DEF LeftBehind
  <2> QED  BY <2>1, <2>2, <2>3, QuietLeave DEF QuietMoves
<1>5. CASE process_var_stat
  <2> DEFINE ss == [chain EXCEPT ![Len(chain)] = Declare(@, Here.name, Caller.type)]
  <2>1. TypeOf(Caller.node) = "VAR_STAT" /\ Caller.pc = "visit"
    BY <1>1, <1>5 DEF process_var_stat, In
  <2>2. Die("abort") \/ Leave(ss, Caller.type, FALSE)  BY <1>5 DEF process_var_stat
  <2>3. ss = LeftBehind  BY <1>1, <2>1 DEF LeftBehind
  <2> HIDE DEF ss
  <2> QED  BY <2>1, <2>2, <2>3, QuietLeave, QuietDeath DEF QuietMoves
<1>6. CASE process_semantics
  BY <1>6 DEF process_semantics, Stays, QuietMoves
<1> QED  BY <1>2, <1>3, <1>4, <1>5, <1>6 DEF Leaving

LEMMA QuietSteps ==
  ASSUME SemInv, errors = <<>>, errors' = <<>>, Blameless(calls, result.error), SemNext
  PROVE  QuietMoves
BY QuietLeaves, QuietEntering, QuietVisiting, QuietLeaving DEF SemNext

-----------------------------------------------------------------------------
(***************************************************************************)
(* What a declaration makes of the newest scope.                           *)
(***************************************************************************)
LEMMA ScopeReplaced ==
  ASSUME SemInv, NEW scope \in SemScopeType, NEW ss, ss = [chain EXCEPT ![Len(chain)] = scope]
  PROVE  /\ ss \in Seq(SemScopeType) /\ Len(ss) = Len(chain)
         /\ Len(chain) > 1 => ss[1] = chain[1]
         /\ Len(chain) = 1 => ss[1] = scope
<1> DEFINE L == Len(chain)
<1>1. chain \in Seq(SemScopeType) /\ L \in Nat /\ L >= 1  BY CallFacts
<1>2. ss = [chain EXCEPT ![L] = scope]  OBVIOUS
<1>3. DOMAIN chain = 1..L  BY <1>1
<1>4. ss \in Seq(SemScopeType) /\ Len(ss) = L
  <2> HIDE DEF L
  <2>1. L \in 1..L  BY <1>1
  <2> QED  BY <1>1, <1>2, <1>3, <2>1
<1> HIDE DEF L
<1>5. L > 1 => ss[1] = chain[1]  BY <1>1, <1>2, <1>3
<1>6. L = 1 => ss[1] = scope  BY <1>1, <1>2, <1>3
<1> QED  BY <1>4, <1>5, <1>6 DEF L

MadeEntry == Named(NodeData[Caller.node].name, TypeMade(Caller.node))

LEMMA WithItsTypeFacts ==
  ASSUME SemInv, Registers(Caller.node)
  PROVE  /\ WithItsType \in Seq(SemScopeType) /\ Len(WithItsType) = Len(chain)
         /\ MadeEntry \in EntryType
         /\ Len(chain) > 1 => WithItsType[1] = chain[1]
         /\ Len(chain) = 1 => /\ WithItsType[1].vars = chain[1].vars
                              /\ WithItsType[1].types = Append(chain[1].types, MadeEntry)
<1> DEFINE n == Caller.node
<1> DEFINE last == chain[Len(chain)]
<1>1. Caller.node \in Nodes /\ chain \in Seq(SemScopeType) /\ Len(chain) \in Nat /\ Len(chain) >= 1
  BY CallFacts
<1>2. last \in SemScopeType
  <2>1. Len(chain) \in 1..Len(chain)  BY <1>1
  <2> QED  BY <1>1, <2>1
<1>3. MadeEntry \in EntryType
  <2>1. NodeData[n].types \in Seq(STRING) /\ NodeData[n].name \in TypeNames /\ <<>> \in Seq(STRING)
    BY <1>1, NodeFacts
  <2>2. {"struct", "enum", "function"} \subseteq ValueTypes  BY DEF ValueTypes
  <2>3. TypeMade(n) \in TypeType  BY <2>1, <2>2, TypeFacts DEF TypeMade
  <2> QED  BY <2>1, <2>3 DEF MadeEntry, Named, EntryType
<1> DEFINE table == Append(last.types, MadeEntry)
<1> DEFINE scope == [vars |-> last.vars, types |-> table]
<1>4. last.vars \in Seq(SlotType) /\ last.types \in Seq(EntryType)
      /\ last = [vars |-> last.vars, types |-> last.types]
  BY <1>2, ScopeFacts
<1>5. table \in Seq(EntryType)
  <2> HIDE DEF last
  <2> QED  BY <1>3, <1>4
<1>6. scope \in SemScopeType  BY <1>4, <1>5, ScopeMade
<1>7. WithItsType = [chain EXCEPT ![Len(chain)] = scope]
  <2>1. WithItsType = [chain EXCEPT ![Len(chain)] =
                         [last EXCEPT !.types = table]]
    BY <1>1 DEF WithItsType, Registered, MadeEntry
  <2>2. [last EXCEPT !.types = table] = scope
    <3> HIDE DEF last, table
    <3> QED  BY <1>4
  <2> HIDE DEF scope, last, table
  <2> QED  BY <2>1, <2>2
<1>8. Len(chain) = 1 => last = chain[1]  OBVIOUS
<1>9. scope.vars = last.vars /\ scope.types = table  OBVIOUS
<1> HIDE DEF scope
<1>10. /\ WithItsType \in Seq(SemScopeType) /\ Len(WithItsType) = Len(chain)
       /\ Len(chain) > 1 => WithItsType[1] = chain[1]
       /\ Len(chain) = 1 => WithItsType[1] = scope
  BY <1>6, <1>7, ScopeReplaced
<1> QED  BY <1>3, <1>8, <1>9, <1>10

LEMMA LeftFacts ==
  ASSUME SemInv
  PROVE  LET n == Caller.node IN
         /\ LeftBehind \in Seq(SemScopeType) /\ Len(LeftBehind) = Len(chain)
         /\ Len(chain) > 1 => LeftBehind[1] = chain[1]
         /\ TypeOf(n) \in {"STRUCT_STAT", "ENUM_STAT"} /\ Len(chain) = 1 =>
              /\ LeftBehind[1].vars = chain[1].vars
              /\ LeftBehind[1].types = Append(chain[1].types, MadeEntry)
         /\ TypeOf(n) = "VAR_STAT" /\ Len(chain) = 1 =>
              /\ LeftBehind[1].vars = VarsGrown(chain[1], NodeData[n].name, Caller.type)
              /\ LeftBehind[1].types = chain[1].types
         /\ TypeOf(n) \notin {"STRUCT_STAT", "ENUM_STAT", "VAR_STAT"} => LeftBehind = chain
<1> DEFINE n == Caller.node
<1>1. /\ n \in Nodes /\ Caller.type \in TypeType /\ NodeData[n].name \in Names
      /\ chain \in Seq(SemScopeType) /\ Len(chain) \in Nat /\ Len(chain) >= 1
  BY CallFacts, NodeFacts DEF CallType
<1>2. CASE TypeOf(n) \in {"STRUCT_STAT", "ENUM_STAT"}
  <2>1. LeftBehind = WithItsType /\ Registers(n)  BY <1>2 DEF LeftBehind, Registers
  <2> QED  BY <1>2, <2>1, WithItsTypeFacts
<1>3. CASE TypeOf(n) = "VAR_STAT"
  <2> DEFINE scope == Declare(chain[Len(chain)], NodeData[n].name, Caller.type)
  <2>1. LeftBehind = [chain EXCEPT ![Len(chain)] = scope]  BY <1>3 DEF LeftBehind
  <2>2. chain[Len(chain)] \in SemScopeType
    <3>1. Len(chain) \in 1..Len(chain)  BY <1>1
    <3> QED  BY <1>1, <3>1
  <2>3. scope \in SemScopeType /\ scope.types = chain[Len(chain)].types
    BY <1>1, <2>2, DeclareFacts
  <2>4. scope.vars = VarsGrown(chain[Len(chain)], NodeData[n].name, Caller.type)  BY DEF VarsGrown
  <2> HIDE DEF scope
  <2>5. /\ LeftBehind \in Seq(SemScopeType) /\ Len(LeftBehind) = Len(chain)
        /\ Len(chain) > 1 => LeftBehind[1] = chain[1]
        /\ Len(chain) = 1 => LeftBehind[1] = scope
    BY <2>1, <2>3, ScopeReplaced
  <2> QED  BY <1>3, <2>3, <2>4, <2>5
<1>4. CASE TypeOf(n) \notin {"STRUCT_STAT", "ENUM_STAT", "VAR_STAT"}
  <2>1. LeftBehind = chain  BY <1>4 DEF LeftBehind
  <2> QED  BY <1>1, <1>4, <2>1
<1> QED  BY <1>2, <1>3, <1>4

-----------------------------------------------------------------------------
(***************************************************************************)
(* What is said of the global scope stays true.                            *)
(***************************************************************************)
Handed == GlobalIs(calls, chain) /\ Knows(calls) /\ Blameless(calls, result.error)
HandedOn(r, tt, error) == GlobalIs(r, tt) /\ Knows(r) /\ Blameless(r, error)

LEMMA GlobalSame ==
  ASSUME NEW q, NEW ss, GlobalIs(q, ss), NEW r, NEW tt, r[1].node = q[1].node,
         Returned(r) = Returned(q), Made(r) = Made(q), tt[1] = ss[1]
  PROVE  GlobalIs(r, tt)
BY DEF GlobalIs

LEMMA MadeSoFar ==
  ASSUME SemInv
  PROVE  /\ Made(calls) \in 0..Len(TopLevel(calls[1].node))
         /\ Returned(calls) \in 0..Len(TopLevel(calls[1].node))
<1> DEFINE p == calls[1].node
<1> DEFINE n == Len(TopLevel(p))
<1> DEFINE i == calls[1].i
<1>1. n \in Nat /\ i \in Nat /\ i <= n /\ (Len(calls) > 1 => i + 1 <= n)
  BY TopLevelStatement
<1>2. calls[1].pc = "child" => i + 1 <= n
  <2>1. 1 \in 1..Len(calls)  BY CallFacts
  <2>2. FrameOK(calls[1]) /\ Children(p) = TopLevel(p)
    BY <2>1, CallFacts, TopLevelStatement, ChildrenFacts DEF TopLevel
  <2> QED  BY <1>1, <2>2 DEF FrameOK, Waiting
<1>3. Returned(calls) \in {i, i + 1} /\ (Returned(calls) = i + 1 => calls[1].pc = "child")
  BY <1>1 DEF Returned
<1>4. Made(calls) = Returned(calls) \/ (Made(calls) = i + 1 /\ Len(calls) > 1)
  BY DEF Made, Inside
<1> HIDE DEF i, n
<1>5. Returned(calls) \in 0..n  BY <1>1, <1>2, <1>3
<1> QED  BY <1>1, <1>4, <1>5 DEF n

LEMMA TopReplaced ==
  ASSUME SemInv, Handed, NEW f \in CallType, NEW r, Len(r) = Len(calls), r[Len(calls)] = f,
         \A j \in 1..(Len(calls) - 1) : r[j] = calls[j],
         f.node = Caller.node, f.pc = "visit",
         TypeOf(f.node) = "PROGRAM" => Caller.pc = "child" /\ f.i = Caller.i + 1,
         TypeOf(f.node) = "FUNC_STAT" => Caller.pc # "enter",
         TypeOf(f.node) = "VAR_STAT" => TypeKept(f)
  PROVE  HandedOn(r, chain, result.error)
<1> DEFINE N == Len(calls)
<1>1. /\ N \in Nat /\ N >= 1 /\ Caller = calls[N] /\ r[N] = f /\ Len(r) = N
      /\ (TypeOf(Caller.node) = "PROGRAM" <=> N = 1)
  BY CallFacts
<1>2. \A j \in 1..(N - 1) : r[j] = calls[j]  OBVIOUS
<1>3. GlobalIs(calls, chain) /\ Knows(calls)  BY DEF Handed
<1>4. Blameless(r, result.error)  BY <1>1 DEF Blameless
<1> HIDE DEF N
<1>5. CASE N = 1
  <2>1. Returned(r) = Returned(calls)  BY <1>1, <1>5 DEF Returned, N
  <2>2. ~Inside(r) /\ ~Inside(calls) /\ Knows(r)  BY <1>1, <1>5 DEF Inside, Knows, N
  <2>3. GlobalIs(r, chain)  BY <1>1, <1>3, <1>5, <2>1, <2>2, GlobalSame DEF Made
  <2> QED  BY <1>4, <2>2, <2>3 DEF HandedOn
<1>6. CASE N > 1
  <2>1. r[1] = calls[1]  BY <1>1, <1>2, <1>6
  <2>2. Returned(r) = Returned(calls)  BY <1>1, <1>6, <2>1 DEF Returned, N
  <2>3. r[2].node = calls[2].node
        /\ (TypeOf(r[2].node) = "FUNC_STAT" => (r[2].pc = "enter" <=> calls[2].pc = "enter"))
    <3>1. CASE N = 2  BY <1>1, <3>1
    <3>2. CASE N > 2  BY <1>1, <1>2, <3>2
    <3> QED  BY <1>1, <1>6, <3>1, <3>2
  <2>4. Inside(r) <=> Inside(calls)  BY <1>1, <1>6, <2>3 DEF Inside, N
  <2>5. GlobalIs(r, chain)  BY <1>3, <2>1, <2>2, <2>4, GlobalSame DEF Made
  <2>6. Knows(r)
    <3>1. CASE N > 2
      <4>1. r[2] = calls[2]  BY <1>1, <1>2, <3>1
      <4> QED  BY <1>1, <1>3, <1>6, <2>1, <4>1 DEF Knows, N
    <3>2. CASE N = 2 /\ TypeOf(f.node) = "VAR_STAT"
      <4>1. r[2] = f /\ calls[2] = Caller /\ TypeKept(f)  BY <1>1, <3>2
      <4>2. CASE Caller.pc = "enter"
        <5> DEFINE T == NodeData[f.node].aux
        <5>1. f.type = scope_get_type(T) /\ scope_get_type(T) # NoType  BY <4>1, <4>2 DEF TypeKept
        <5>2. Len(chain) = 1
          <6>1. ~Open(Caller)  BY <3>2 DEF Open
          <6> QED  BY <1>1, <3>2, <6>1, OnTop DEF N
        <5>3. TableAfter(chain[1].types, calls[1].node, Made(calls))  BY <1>3 DEF GlobalIs
        <5>4. scope_get_type(T).vt = TypeIn(calls[1].node, T)
          BY <5>1, <5>2, <5>3, TypeKnown, MadeSoFar, CallFacts, TopLevelStatement
        <5> QED  BY <2>1, <4>1, <5>1, <5>4 DEF Knows
      <4>3. CASE Caller.pc # "enter"
        <5>1. f.type = Caller.type  BY <4>1, <4>3 DEF TypeKept
        <5> QED  BY <1>1, <1>3, <1>6, <2>1, <3>2, <4>1, <4>3, <5>1 DEF Knows, N
      <4> QED  BY <4>2, <4>3
    <3>3. CASE N = 2 /\ TypeOf(f.node) # "VAR_STAT"
      <4>1. r[2] = f  BY <1>1, <3>3
      <4> QED  BY <3>3, <4>1 DEF Knows
    <3> QED  BY <1>1, <1>6, <3>1, <3>2, <3>3
  <2> QED  BY <1>4, <2>5, <2>6 DEF HandedOn
<1> QED  BY <1>1, <1>5, <1>6

\* Below the second call nothing is seen of a step.
LEMMA FarBelow ==
  ASSUME SemInv, Handed, Len(calls) > 1, NEW r, Len(r) > 1, r[1] = calls[1],
         r[2].node = calls[2].node, r[2].type = calls[2].type, r[2].pc = "enter" <=> calls[2].pc = "enter",
         NEW tt, tt[1] = chain[1]
  PROVE  GlobalIs(r, tt) /\ Knows(r)
<1>1. GlobalIs(calls, chain) /\ Knows(calls)  BY DEF Handed
<1>2. Returned(r) = Returned(calls)  BY DEF Returned
<1>3. Inside(r) <=> Inside(calls)  BY DEF Inside
<1>4. GlobalIs(r, tt)  BY <1>1, <1>2, <1>3, GlobalSame DEF Made
<1>5. Knows(r)  BY <1>1 DEF Knows
<1> QED  BY <1>4, <1>5

LEMMA ScopeOpened ==
  ASSUME SemInv, Handed, Caller.pc = "enter", TypeOf(Caller.node) \in {"BLOCK", "FUNC_STAT"},
         NEW f \in CallType, NEW r, Len(r) = Len(calls), r[Len(calls)] = f,
         \A j \in 1..(Len(calls) - 1) : r[j] = calls[j],
         f.node = Caller.node, f.pc = "visit",
         NEW tt, NEW scope,
         tt = Append(IF TypeOf(f.node) = "FUNC_STAT" THEN WithItsType ELSE chain, scope),
         NEW error
  PROVE  HandedOn(r, tt, error)
<1> DEFINE N == Len(calls)
<1>1. /\ N \in Nat /\ Caller = calls[N] /\ r[N] = f /\ Len(r) = N /\ N > 1
      /\ chain \in Seq(SemScopeType) /\ Len(chain) >= 1 /\ Len(chain) \in Nat
  BY CallFacts, CalledByOne
<1>2. \A j \in 1..(N - 1) : r[j] = calls[j]  OBVIOUS
<1>3. GlobalIs(calls, chain) /\ Knows(calls)  BY DEF Handed
<1>4. Blameless(r, error)  BY <1>1 DEF Blameless
<1> HIDE DEF N
<1>5. r[1] = calls[1]  BY <1>1, <1>2
<1> DEFINE ss == IF TypeOf(f.node) = "FUNC_STAT" THEN WithItsType ELSE chain
<1>6. ss \in Seq(SemScopeType) /\ Len(ss) = Len(chain)
  <2>1. TypeOf(f.node) = "FUNC_STAT" => Registers(Caller.node)  BY DEF Registers
  <2> QED  BY <1>1, <2>1, WithItsTypeFacts
<1>7. tt = Append(ss, scope)  OBVIOUS
<1>8. tt[1] = ss[1]
  <2> HIDE DEF ss
  <2> QED  BY <1>1, <1>6, <1>7
<1>9. CASE N > 2
  <2>1. r[2] = calls[2]  BY <1>1, <1>2, <1>9
  <2>2. ss[1] = chain[1]
    <3>1. CASE TypeOf(f.node) = "FUNC_STAT"
      <4>1. Len(chain) > 1  BY <1>1, <1>9, <3>1, DeepDown DEF DeclarationTypes, N
      <4>2. Registers(Caller.node)  BY <3>1 DEF Registers
      <4> QED  BY <3>1, <4>1, <4>2, WithItsTypeFacts
    <3>2. CASE TypeOf(f.node) # "FUNC_STAT"  BY <3>2
    <3> QED  BY <3>1, <3>2
  <2> HIDE DEF ss
  <2>3. tt[1] = chain[1] /\ Len(r) > 1 /\ Len(calls) > 1  BY <1>1, <1>8, <2>2 DEF N
  <2>4. GlobalIs(r, tt) /\ Knows(r)  BY <1>5, <2>1, <2>3, FarBelow
  <2> QED  BY <1>4, <2>4 DEF HandedOn
<1>10. CASE N = 2
  <2> DEFINE p == calls[1].node
  <2> DEFINE k == calls[1].i
  <2>1. r[2] = f /\ calls[2] = Caller  BY <1>1, <1>10
  <2>2. Returned(r) = k /\ Returned(calls) = k  BY <1>1, <1>5, <1>10 DEF Returned, N
  <2>3. ~Inside(calls) /\ Made(calls) = k  BY <2>1, <2>2 DEF Made, Inside
  <2>4. Made(r) = IF TypeOf(f.node) = "FUNC_STAT" THEN k + 1 ELSE k
    BY <1>1, <1>5, <1>10, <2>1, <2>2 DEF Made, Inside
  <2>5. Knows(r)  BY <2>1 DEF Knows
  <2>6. TableAfter(chain[1].types, p, k) /\ SlotsAfter(chain[1].vars, p, k)
    BY <1>3, <2>2, <2>3 DEF GlobalIs
  <2>7. CASE TypeOf(f.node) = "BLOCK"
    <3>1. Made(r) = Made(calls) /\ tt[1] = chain[1]  BY <1>8, <2>3, <2>4, <2>7
    <3>2. GlobalIs(r, tt)  BY <1>3, <1>5, <2>2, <3>1, GlobalSame
    <3> QED  BY <1>4, <2>5, <3>2 DEF HandedOn
  <2>8. CASE TypeOf(f.node) = "FUNC_STAT"
    <3>1. Registers(Caller.node)  BY <2>8 DEF Registers
    <3>2. Len(chain) = 1
      <4>1. ~Open(Caller)  BY DEF Open
      <4> QED  BY <1>1, <1>10, <4>1, OnTop DEF N
    <3>3. /\ tt[1].vars = chain[1].vars /\ tt[1].types = Append(chain[1].types, MadeEntry)
          /\ MadeEntry \in EntryType
      BY <1>8, <2>8, <3>1, <3>2, WithItsTypeFacts
    <3>4. Caller.node = TopLevel(p)[k + 1] /\ k \in Nat
      <4>1. Len(calls) > 1  BY <1>1 DEF N
      <4>2. calls[2].node = TopLevel(p)[k + 1] /\ k \in Nat  BY <4>1, TopLevelStatement
      <4> QED  BY <2>1, <4>2
    <3>5. chain[1].types \in Seq(EntryType)
      <4>1. 1 \in 1..Len(chain)  BY <3>2
      <4>2. chain[1] \in SemScopeType  BY <1>1, <4>1
      <4> QED  BY <4>2, ScopeFacts
    <3>6. TableAfter(Append(chain[1].types, MadeEntry), p, k + 1)
      BY <2>6, <3>1, <3>3, <3>4, <3>5, TableRegistering DEF MadeEntry
    <3>7. GlobalIs(r, tt)  BY <1>5, <2>2, <2>4, <2>6, <2>8, <3>3, <3>6 DEF GlobalIs
    <3> QED  BY <1>4, <2>5, <3>7 DEF HandedOn
  <2> QED  BY <2>7, <2>8
<1> QED  BY <1>1, <1>9, <1>10

LEMMA ChildVisited ==
  ASSUME SemInv, Handed, Caller.pc = "visit",
         NEW f \in CallType, NEW g \in CallType, NEW r, Len(r) = Len(calls) + 1,
         r[Len(calls)] = f, r[Len(calls) + 1] = g,
         \A j \in 1..(Len(calls) - 1) : r[j] = calls[j],
         f.node = Caller.node, f.pc = "child", f.i = Caller.i, f.type = Caller.type,
         g.pc # "child", TypeOf(g.node) \in {"VAR_STAT", "FUNC_STAT"} => g.pc = "enter",
         NEW error
  PROVE  HandedOn(r, chain, error)
<1> DEFINE N == Len(calls)
<1>1. /\ N \in Nat /\ N >= 1 /\ Caller = calls[N] /\ r[N] = f /\ r[N + 1] = g /\ Len(r) = N + 1
  BY CallFacts
<1>2. \A j \in 1..(N - 1) : r[j] = calls[j]  OBVIOUS
<1>3. GlobalIs(calls, chain) /\ Knows(calls)  BY DEF Handed
<1>4. Blameless(r, error)  BY <1>1 DEF Blameless
<1> HIDE DEF N
<1>5. CASE N = 1
  <2>1. r[1] = f /\ r[2] = g /\ Caller = calls[1]  BY <1>1, <1>5
  <2>2. Returned(r) = Returned(calls)  BY <1>1, <1>5, <2>1 DEF Returned, N
  <2>3. ~Inside(r) /\ ~Inside(calls) /\ Knows(r)  BY <1>1, <1>5, <2>1 DEF Inside, Knows, N
  <2>4. GlobalIs(r, chain)  BY <1>3, <2>1, <2>2, <2>3, GlobalSame DEF Made
  <2> QED  BY <1>4, <2>3, <2>4 DEF HandedOn
<1>6. CASE N > 1
  <2>1. r[1] = calls[1]  BY <1>1, <1>2, <1>6
  <2>2. /\ r[2].node = calls[2].node /\ r[2].type = calls[2].type
        /\ r[2].pc = "enter" <=> calls[2].pc = "enter"
    <3>1. CASE N = 2  BY <1>1, <3>1
    <3>2. CASE N > 2  BY <1>1, <1>2, <3>2
    <3> QED  BY <1>1, <1>6, <3>1, <3>2
  <2>3. Len(calls) > 1 /\ Len(r) > 1  BY <1>1, <1>6 DEF N
  <2>4. GlobalIs(r, chain) /\ Knows(r)  BY <2>1, <2>2, <2>3, FarBelow
  <2> QED  BY <1>4, <2>4 DEF HandedOn
<1> QED  BY <1>1, <1>5, <1>6

LEMMA CalleeBack ==
  ASSUME SemInv, Handed, TypeOf(Caller.node) # "PROGRAM",
         TypeOf(Caller.node) \in {"FUNC_STAT", "VAR_STAT"} => Caller.pc # "enter",
         NEW r, Len(r) = Len(calls) - 1, \A j \in 1..Len(r) : r[j] = calls[j],
         NEW tt, tt = SubSeq(LeftBehind, 1, Caller.scope),
         NEW error, error => TypeOf(Caller.node) \notin Faultless
  PROVE  HandedOn(r, tt, error)
<1> DEFINE N == Len(calls)
<1>1. /\ N \in Nat /\ Caller = calls[N] /\ Len(r) = N - 1 /\ N > 1
      /\ chain \in Seq(SemScopeType) /\ Len(chain) >= 1 /\ Len(chain) \in Nat
      /\ Caller \in CallType /\ Caller.node \in Nodes /\ Caller.type \in TypeType
  BY CallFacts, CalledByOne DEF CallType
<1>2. \A j \in 1..(N - 1) : r[j] = calls[j]  BY <1>1
<1>3. GlobalIs(calls, chain) /\ Knows(calls)  BY DEF Handed
<1>4. Blameless(r, error)
  <2> HIDE DEF N
  <2>1. N - 1 \in 1..(N - 1) /\ (N - 1) + 1 = N  BY <1>1
  <2>2. calls[(N - 1) + 1].node = Children(calls[N - 1].node)[calls[N - 1].i + 1]
    BY <2>1 DEF SemInv, Calling, N
  <2>3. r[Len(r)] = calls[N - 1]  BY <1>1, <1>2, <2>1
  <2> QED  BY <1>1, <2>1, <2>2, <2>3 DEF Blameless
<1>5. tt[1] = LeftBehind[1]
  <2>1. Caller.scope \in 1..Len(chain)
    <3>1. Len(calls) \in 1..Len(calls) /\ Len(calls) \in Nat  BY CallFacts
    <3> QED  BY <1>1, <3>1, ScopesOfFrames DEF SemInv
  <2>2. LeftBehind \in Seq(SemScopeType) /\ Len(LeftBehind) = Len(chain)  BY LeftFacts
  <2> QED  BY <1>1, <2>1, <2>2
<1> HIDE DEF N
<1>6. r[1] = calls[1]  BY <1>1, <1>2
<1>7. CASE N > 2
  <2>1. r[2] = calls[2] /\ Len(r) > 1 /\ Len(calls) > 1  BY <1>1, <1>2, <1>7 DEF N
  <2>2. LeftBehind[1] = chain[1]
    <3>1. CASE TypeOf(Caller.node) \in DeclarationTypes
      <4>1. Len(chain) > 1  BY <1>1, <1>7, <3>1, DeepDown DEF N
      <4> QED  BY <4>1, LeftFacts
    <3>2. CASE TypeOf(Caller.node) \notin DeclarationTypes
      <4>1. TypeOf(Caller.node) \notin {"STRUCT_STAT", "ENUM_STAT", "VAR_STAT"}
        BY <3>2 DEF DeclarationTypes
      <4> QED  BY <4>1, LeftFacts
    <3> QED  BY <3>1, <3>2
  <2>3. GlobalIs(r, tt) /\ Knows(r)  BY <1>5, <1>6, <2>1, <2>2, FarBelow
  <2> QED  BY <1>4, <2>3 DEF HandedOn
<1>8. CASE N = 2
  <2> DEFINE p == calls[1].node
  <2> DEFINE k == calls[1].i
  <2> DEFINE n == Caller.node
  <2>1. Len(r) = 1 /\ calls[2] = Caller /\ Knows(r) /\ ~Inside(r)
    <3> DEFINE M == Len(r)
    <3>1. M = N - 1  BY <1>1
    <3> HIDE DEF M
    <3>2. M = 1 /\ ~(M > 1)  BY <1>8, <3>1
    <3>3. calls[2] = Caller  BY <1>1, <1>8
    <3> QED  BY <3>2, <3>3 DEF Knows, Inside, M
  <2>2. /\ k \in Nat /\ calls[1].pc = "child" /\ n = TopLevel(p)[k + 1]
    BY <1>1, <1>8, <2>1, TopLevelStatement DEF N
  <2>3. Returned(r) = k + 1 /\ Made(r) = k + 1
    BY <1>6, <2>1, <2>2 DEF Returned, Made
  <2>4. Returned(calls) = k  BY <1>1, <1>8 DEF Returned, N
  <2>5. Made(calls) = IF TypeOf(n) = "FUNC_STAT" THEN k + 1 ELSE k
    BY <1>1, <1>8, <2>1, <2>4 DEF Made, Inside, N
  <2>6. TableAfter(chain[1].types, p, Made(calls)) /\ SlotsAfter(chain[1].vars, p, k)
    BY <1>3, <2>4 DEF GlobalIs
  <2>7. chain[1] \in SemScopeType  BY <1>1
  <2>8. Len(chain) = 1 \/ TypeOf(n) \in {"BLOCK", "FUNC_STAT"}
    BY <1>1, <1>8, OnTop DEF Open, N
  <2> HIDE DEF n, k, p
  <2>9. CASE TypeOf(n) \in {"STRUCT_STAT", "ENUM_STAT"}
    <3>1. Registers(n) /\ TypeOf(n) # "VAR_STAT"  BY <2>9 DEF Registers
    <3>2. /\ LeftBehind[1].vars = chain[1].vars
          /\ LeftBehind[1].types = Append(chain[1].types, MadeEntry)
      BY <2>8, <2>9, LeftFacts DEF n
    <3>3. MadeEntry \in EntryType  BY <3>1, WithItsTypeFacts DEF n
    <3>4. chain[1].types \in Seq(EntryType)  BY <2>7, ScopeFacts
    <3>5. TableAfter(Append(chain[1].types, MadeEntry), p, k + 1)
      BY <2>2, <2>5, <2>6, <2>9, <3>1, <3>3, <3>4, TableRegistering DEF MadeEntry, n
    <3>6. SlotsAfter(chain[1].vars, p, k + 1)  BY <2>2, <2>6, <3>1, SlotsSame
    <3>7. GlobalIs(r, tt)  BY <1>5, <1>6, <2>3, <3>2, <3>5, <3>6 DEF GlobalIs, p
    <3> QED  BY <1>4, <2>1, <3>7 DEF HandedOn
  <2>10. CASE TypeOf(n) = "VAR_STAT"
    <3> DEFINE x == NodeData[n].name
    <3>1. ~Registers(n) /\ x \in Names  BY <1>1, <2>10, NodeFacts DEF Registers, n
    <3>2. /\ LeftBehind[1].vars = VarsGrown(chain[1], x, Caller.type)
          /\ LeftBehind[1].types = chain[1].types
      BY <2>8, <2>10, LeftFacts DEF n
    <3>3. TableAfter(chain[1].types, p, k + 1)  BY <2>2, <2>5, <2>6, <2>10, <3>1, TableSame
    <3>4. Caller.type.vt = TypeIn(p, NodeData[n].aux)
      BY <1>1, <1>3, <1>8, <2>1, <2>10 DEF Knows, n, p, N
    <3>5. SlotsAfter(VarsGrown(chain[1], x, Caller.type), p, k + 1)
      BY <1>1, <2>2, <2>6, <2>7, <2>10, <3>1, <3>4, SlotsDeclaring
    <3> HIDE DEF x
    <3>6. GlobalIs(r, tt)  BY <1>5, <1>6, <2>3, <3>2, <3>3, <3>5 DEF GlobalIs, p
    <3> QED  BY <1>4, <2>1, <3>6 DEF HandedOn
  <2>11. CASE TypeOf(n) \notin {"STRUCT_STAT", "ENUM_STAT", "VAR_STAT"}
    <3>1. LeftBehind = chain  BY <2>11, LeftFacts DEF n
    <3>2. SlotsAfter(chain[1].vars, p, k + 1)  BY <2>2, <2>6, <2>11, SlotsSame
    <3>3. TableAfter(chain[1].types, p, k + 1)
      <4>1. CASE TypeOf(n) = "FUNC_STAT"  BY <2>5, <2>6, <4>1
      <4>2. CASE TypeOf(n) # "FUNC_STAT"
        <5>1. ~Registers(n)  BY <2>11, <4>2 DEF Registers
        <5> QED  BY <2>2, <2>5, <2>6, <4>2, <5>1, TableSame
      <4> QED  BY <4>1, <4>2
    <3>4. GlobalIs(r, tt)  BY <1>5, <1>6, <2>3, <3>1, <3>2, <3>3 DEF GlobalIs, p
    <3> QED  BY <1>4, <2>1, <3>4 DEF HandedOn
  <2> QED  BY <2>9, <2>10, <2>11
<1> QED  BY <1>1, <1>7, <1>8

StaysHanded == HandedOn(calls', chain', result'.error)

LEMMA HandedStep ==
  ASSUME SemInv, Handed, QuietMoves
  PROVE  StaysHanded
<1>1. Len(calls) \in Nat /\ Len(calls) >= 1 /\ Caller \in CallType /\ Caller.node \in Nodes
      /\ Caller.i \in Nat /\ Caller.type \in TypeType
  BY CallFacts DEF CallType
<1>2. CASE Stays
  <2>1. calls' = calls /\ chain' = chain /\ result' = result  BY <1>2 DEF Stays
  <2> QED  BY <2>1 DEF StaysHanded, HandedOn, Handed
<1>3. CASE GoesOn
  <2>1. PICK f \in CallType :
          /\ GoesOnAs(f) /\ UNCHANGED <<chain, result>>
          /\ f.node = Caller.node /\ f.pc = "visit"
          /\ TypeOf(f.node) = "PROGRAM" => Caller.pc = "child" /\ f.i = Caller.i + 1
          /\ TypeOf(f.node) = "FUNC_STAT" => Caller.pc # "enter"
          /\ TypeOf(f.node) = "VAR_STAT" => TypeKept(f)
    BY <1>3 DEF GoesOn
  <2>2. /\ Len(calls') = Len(calls) /\ calls'[Len(calls)] = f
        /\ \A j \in 1..(Len(calls) - 1) : calls'[j] = calls[j]
    BY <2>1, FramesAfter DEF GoesOnAs
  <2>3. HandedOn(calls', chain, result.error)  BY <2>1, <2>2, TopReplaced
  <2> QED  BY <2>1, <2>3 DEF StaysHanded
<1>4. CASE OpensScope
  <2>0. PICK f \in CallType :
          \E scope : /\ GoesOnAs(f) /\ UNCHANGED result
                     /\ f.node = Caller.node /\ f.pc = "visit"
                     /\ chain' = Append(IF TypeOf(f.node) = "FUNC_STAT" THEN WithItsType ELSE chain,
                                        scope)
    BY <1>4 DEF OpensScope
  <2>1. PICK scope :
          /\ GoesOnAs(f) /\ UNCHANGED result
          /\ f.node = Caller.node /\ f.pc = "visit"
          /\ chain' = Append(IF TypeOf(f.node) = "FUNC_STAT" THEN WithItsType ELSE chain, scope)
    BY <2>0
  <2>2. /\ Len(calls') = Len(calls) /\ calls'[Len(calls)] = f
        /\ \A j \in 1..(Len(calls) - 1) : calls'[j] = calls[j]
    BY <2>1, FramesAfter DEF GoesOnAs
  <2>3. Caller.pc = "enter" /\ TypeOf(Caller.node) \in {"BLOCK", "FUNC_STAT"}
    BY <1>4 DEF OpensScope
  <2>4. HandedOn(calls', chain', result'.error)  BY <2>1, <2>2, <2>3, ScopeOpened
  <2> QED  BY <2>4 DEF StaysHanded
<1>5. CASE Visits
  <2> DEFINE f == [Caller EXCEPT !.pc = "child"]
  <2> DEFINE g == NewCall(Awaited(Caller), Len(chain))
  <2>1. f \in CallType /\ f.node = Caller.node /\ f.i = Caller.i /\ f.type = Caller.type
        /\ f.pc = "child"
    <3>1. f = [node |-> Caller.node, scope |-> Caller.scope, pc |-> "child", i |-> Caller.i,
               type |-> Caller.type]
      BY <1>1 DEF CallType
    <3> HIDE DEF f
    <3> QED  BY <1>1, <3>1 DEF CallType
  <2>2. /\ g \in CallType /\ g.pc # "child"
        /\ TypeOf(g.node) \in {"VAR_STAT", "FUNC_STAT"} => g.pc = "enter"
    <3>1. Awaited(Caller) \in Nodes
      <4>1. Caller.i + 1 \in 1..Len(Children(Caller.node))
        BY <1>1, <1>5, ChildrenFacts DEF Visits
      <4> QED  BY <1>1, <4>1, ChildrenFacts DEF Awaited
    <3>2. Len(chain) \in Nat  BY CallFacts
    <3>3. g \in CallType  BY <3>1, <3>2, TypeFacts DEF NewCall, CallType
    <3>4. g.node = Awaited(Caller)
          /\ g.pc = IF TypeOf(Awaited(Caller)) \in Prepared THEN "enter" ELSE "visit"
      BY DEF NewCall
    <3> HIDE DEF g
    <3> QED  BY <3>3, <3>4 DEF Prepared
  <2>3. calls' = Append([calls EXCEPT ![Len(calls)] = f], g)
        /\ chain' = chain /\ result' = result /\ Caller.pc = "visit"
    BY <1>5 DEF Visits, Process, Awaited
  <2> HIDE DEF f, g
  <2>4. /\ Len(calls') = Len(calls) + 1 /\ calls'[Len(calls)] = f
        /\ calls'[Len(calls) + 1] = g
        /\ \A j \in 1..(Len(calls) - 1) : calls'[j] = calls[j]
    BY <2>1, <2>2, <2>3, FramesAfter
  <2>5. HandedOn(calls', chain, result.error)  BY <2>1, <2>2, <2>3, <2>4, ChildVisited
  <2> QED  BY <2>3, <2>5 DEF StaysHanded
<1>6. CASE ComesBack
  <2>1. /\ TypeOf(Caller.node) # "PROGRAM"
        /\ TypeOf(Caller.node) \in {"FUNC_STAT", "VAR_STAT"} => Caller.pc # "enter"
        /\ calls' = Front(calls) /\ chain' = SubSeq(LeftBehind, 1, Caller.scope)
        /\ result'.error => TypeOf(Caller.node) \notin Faultless
    BY <1>6 DEF ComesBack
  <2>2. /\ Len(calls') = Len(calls) - 1
        /\ \A j \in 1..Len(calls') : calls'[j] = calls[j]
    BY <2>1, FramesAfter
  <2>3. HandedOn(calls', chain', result'.error)  BY <2>1, <2>2, CalleeBack
  <2> QED  BY <2>3 DEF StaysHanded
<1> QED  BY <1>2, <1>3, <1>4, <1>5, <1>6 DEF QuietMoves

-----------------------------------------------------------------------------
(***************************************************************************)
(* The invariant of the semantics stage.                                   *)
(***************************************************************************)
Grows == errors' = errors \/ \E n : errors' = Append(errors, n)

LEMMA ReportsGrow ==
  /\ \A n, error : Report(n, error) => Grows
  /\ \A type : Yield(type) => Grows
  /\ \A f : Proceed(f) => Grows
  /\ \A f, n : Process(f, n) => Grows
  /\ \A how : Die(how) => Grows
BY DEF Report, Yield, Proceed, Process, Die, Grows

LEMMA ErrorsGrow ==
  ASSUME SemNext
  PROVE  Grows
<1>1. CASE Leaves
  <2>1. CASE process_struct_stat  BY <2>1, ReportsGrow DEF process_struct_stat, Grows
  <2>2. CASE EnumEntry  BY <2>2, ReportsGrow DEF EnumEntry, ReportNamed
  <2>3. CASE process_enum_stat  BY <2>3, ReportsGrow DEF process_enum_stat, Grows
  <2>4. CASE process_ident_lit  BY <2>4, ReportsGrow DEF process_ident_lit
  <2> QED
    BY <1>1, <2>1, <2>2, <2>3, <2>4, ReportsGrow
    DEF Leaves, process_integer_lit, process_float_lit, process_jump, process_cast_expr,
        process_unsupported, process_null
<1>2. CASE Entering
  BY <1>2, ReportsGrow DEF Entering, VarEnter, FnEnter, BlockEnter, CallEnter, ReportNamed
<1>3. CASE Visiting
  <2>1. CASE Visit  BY <2>1, ReportsGrow DEF Visit
  <2>2. CASE Visited  BY <2>2, ReportsGrow DEF Visited, Grows
  <2>3. CASE Argument  BY <2>3, ReportsGrow DEF Argument, Grows
  <2> QED  BY <1>3, <2>1, <2>2, <2>3 DEF Visiting
<1>4. CASE Leaving
  <2>1. CASE process_var_stat  BY <2>1, ReportsGrow DEF process_var_stat, Grows
  <2>2. CASE process_failing  BY <2>2 DEF process_failing, Grows
  <2>3. CASE process_semantics  BY <2>3 DEF process_semantics, Grows
  <2>4. CASE process_expr  BY <2>4, ReportsGrow DEF process_expr
  <2>5. CASE process_untyped  BY <2>5, ReportsGrow DEF process_untyped
  <2> QED  BY <1>4, <2>1, <2>2, <2>3, <2>4, <2>5 DEF Leaving
<1> QED  BY <1>1, <1>2, <1>3, <1>4 DEF SemNext

LEMMA AcceptedAtEnd ==
  ASSUME SemInv, process_semantics, verdict' = "accepted"
  PROVE  Accepting'
<1>1. /\ verdict' = IF errors = <<>> THEN "accepted" ELSE "rejected"
      /\ UNCHANGED <<calls, result, chain, errors>>
      /\ Here.type = "PROGRAM" /\ Caller.pc = "visit" /\ Over
  BY DEF process_semantics, In
<1>2. errors = <<>>  BY <1>1
<1>3. TypeOf(Caller.node) = "PROGRAM" /\ Caller.node \in Nodes /\ Len(calls) = 1
  BY <1>1, CallFacts
<1>4. Caller.i = Len(TopLevel(Caller.node))
  BY <1>1, <1>3, ChildrenFacts DEF Over, TopLevel
<1>5. Accepting  BY <1>1, <1>2, <1>3, <1>4 DEF Accepting
<1> QED  BY <1>1, <1>5 DEF Accepting, Caller

LEMMA HandInitInv ==
  ASSUME SemInit
  PROVE  HandInv
<1>1. PICK p \in Programs :
        /\ calls = <<NewCall(p, 1)>> /\ chain = <<GlobalAtStart>>
        /\ result = SemRes(NoType, FALSE) /\ verdict = "run"
  BY DEF SemInit
<1>2. TypeOf(p) = "PROGRAM"  BY ProgramsAssumption
<1>3. Len(calls) = 1 /\ calls[1].node = p /\ calls[1].i = 0 /\ calls[1].pc = "visit"
  BY <1>1, <1>2 DEF NewCall, Prepared
<1>4. chain[1] = GlobalAtStart  BY <1>1
<1>5. GlobalAtStart.types = CoreTypes  BY DEF GlobalAtStart
<1>6. Returned(calls) = 0 /\ ~Inside(calls) /\ Made(calls) = 0
  BY <1>3 DEF Returned, Made, Inside
<1>7. GlobalIs(calls, chain)  BY <1>3, <1>4, <1>5, <1>6, GlobalStarts DEF GlobalIs
<1>8. Knows(calls)  BY <1>3 DEF Knows
<1>9. Blameless(calls, result.error)  BY <1>3 DEF Blameless
<1>10. SemInv /\ verdict # "accepted"  BY <1>1, SemInitInv
<1> QED  BY <1>7, <1>8, <1>9, <1>10 DEF HandInv

LEMMA HandNextInv ==
  ASSUME HandInv, [SemNext]_semVars
  PROVE  HandInv'
<1>1. SemInv /\ SemInv'  BY SemNextInv DEF HandInv
<1>2. CASE SemNext
  <2>1. errors' = <<>> => errors = <<>>
    <3>1. errors \in Seq(Nodes)  BY <1>1, CallFacts
    <3>2. Grows  BY <1>2, ErrorsGrow
    <3>3. \A n : Append(errors, n) # <<>>
      <4>1. \A n : Len(Append(errors, n)) = Len(errors) + 1 /\ Len(errors) \in Nat  BY <3>1
      <4> QED  BY <4>1
    <3> QED  BY <3>2, <3>3 DEF Grows
  <2>2. ASSUME errors' = <<>> PROVE StaysHanded
    <3>1. Handed /\ Blameless(calls, result.error)
      BY <2>1, <2>2 DEF HandInv, Handed
    <3>2. QuietMoves  BY <1>1, <1>2, <2>1, <2>2, <3>1, QuietSteps
    <3> QED  BY <1>1, <3>1, <3>2, HandedStep
  <2>3. ASSUME verdict' = "accepted" PROVE Accepting'
    <3>1. process_semantics  BY <1>1, <1>2, <2>3, VerdictSteps DEF Undecided
    <3> QED  BY <1>1, <2>3, <3>1, AcceptedAtEnd
  <2> QED  BY <1>1, <2>2, <2>3 DEF HandInv, StaysHanded, HandedOn
<1>3. CASE UNCHANGED semVars
  <2>1. calls' = calls /\ result' = result /\ chain' = chain /\ errors' = errors
        /\ verdict' = verdict
    BY <1>3 DEF semVars
  <2>2. (GlobalIs(calls, chain) /\ Knows(calls) /\ Blameless(calls, result.error))' =
          (GlobalIs(calls, chain) /\ Knows(calls) /\ Blameless(calls, result.error))
    BY <2>1
  <2>3. Accepting' = Accepting  BY <2>1 DEF Accepting, Caller
  <2> QED  BY <1>1, <2>1, <2>2, <2>3 DEF HandInv
<1> QED  BY <1>2, <1>3

-----------------------------------------------------------------------------
(***************************************************************************)
(* The formula Interp reads its types and its global scope off the tree    *)
(* with says the same as what the stage leaves behind.                     *)
(***************************************************************************)
LEMMA CoreNames ==
  ASSUME NEW T
  PROVE  /\ IsCore(T) <=> T \in NumberTypes \cup {"bool"}
         /\ IsCore(T) => First(CoreTypes, T).type.vt = IF T = "bool" THEN "u8" ELSE T
<1>1. Len(CoreTypes) = 11  BY DEF CoreTypes
<1>2. \A k \in 1..11 :
        /\ CoreTypes[k].name \in NumberTypes \cup {"bool"}
        /\ CoreTypes[k].type.vt = IF CoreTypes[k].name = "bool" THEN "u8" ELSE CoreTypes[k].name
  BY DEF CoreTypes, Named, Numeric, Type, NumberTypes, IntTypes, FloatTypes
<1>3. \A name \in NumberTypes \cup {"bool"} : \E k \in 1..11 : CoreTypes[k].name = name
  <2>1. /\ CoreTypes[1].name = "i8" /\ CoreTypes[2].name = "i16" /\ CoreTypes[3].name = "i32"
        /\ CoreTypes[4].name = "i64" /\ CoreTypes[5].name = "u8" /\ CoreTypes[6].name = "u16"
        /\ CoreTypes[7].name = "u32" /\ CoreTypes[8].name = "u64" /\ CoreTypes[9].name = "f32"
        /\ CoreTypes[10].name = "f64" /\ CoreTypes[11].name = "bool"
    BY DEF CoreTypes, Named
  <2> HIDE DEF CoreTypes
  <2>2. 1 \in 1..11 /\ 2 \in 1..11 /\ 3 \in 1..11 /\ 4 \in 1..11 /\ 5 \in 1..11 /\ 6 \in 1..11
        /\ 7 \in 1..11 /\ 8 \in 1..11 /\ 9 \in 1..11 /\ 10 \in 1..11 /\ 11 \in 1..11
    OBVIOUS
  <2> QED  BY <2>1, <2>2 DEF NumberTypes, IntTypes, FloatTypes
<1>4. Places(CoreTypes, T) = {k \in 1..11 : CoreTypes[k].name = T}  BY <1>1 DEF Places
<1>5. IsCore(T) <=> T \in NumberTypes \cup {"bool"}
  BY <1>2, <1>3, <1>4 DEF IsCore
<1>6. ASSUME IsCore(T)
      PROVE  First(CoreTypes, T).type.vt = IF T = "bool" THEN "u8" ELSE T
  <2> DEFINE m == Min(Places(CoreTypes, T))
  <2>1. m \in Places(CoreTypes, T)
    BY <1>4, <1>6, MinIsLeast DEF IsCore
  <2>2. m \in 1..11 /\ CoreTypes[m].name = T  BY <1>4, <2>1
  <2>3. First(CoreTypes, T) = CoreTypes[m]  BY DEF First
  <2> HIDE DEF m
  <2> QED  BY <1>2, <2>2, <2>3
<1> QED  BY <1>5, <1>6

LEMMA PreloadedValues ==
  ASSUME NEW x \in Preloaded
  PROVE  First(GlobalAtStart.vars, x).value = [t |-> "u8", n |-> IF x = "true" THEN 1 ELSE 0]
<1> DEFINE vs == GlobalAtStart.vars
<1>1. /\ Len(vs) = 3
      /\ \A k \in 1..3 : /\ vs[k].name \in Preloaded
                         /\ vs[k].value = [t |-> "u8", n |-> IF vs[k].name = "true" THEN 1 ELSE 0]
  BY DEF GlobalAtStart, Preload, Slot, Preloaded
<1>2. Places(vs, x) # {}  BY PreloadedFacts
<1> HIDE DEF vs
<1> DEFINE m == Min(Places(vs, x))
<1>3. Places(vs, x) \in SUBSET (1..3)  BY <1>1 DEF Places
<1>4. m \in Places(vs, x)  BY <1>2, <1>3, MinIsLeast
<1>5. m \in 1..3 /\ vs[m].name = x  BY <1>1, <1>4 DEF Places
<1>6. First(vs, x) = vs[m]  BY DEF First
<1> HIDE DEF m
<1> QED  BY <1>1, <1>5, <1>6 DEF vs

LEMMA SameDeclarations ==
  ASSUME NEW p, NEW T
  PROVE  /\ I!TypeDecls(p, T) = Makes(p, T, Len(TopLevel(p)))
         /\ I!TypeDecl(p, T) = TopLevel(p)[Min(Makes(p, T, Len(TopLevel(p))))]
         /\ \A n : I!Kind(n) = TypeMade(n).vt
<1>1. I!TypeDecls(p, T) = Makes(p, T, Len(TopLevel(p)))
  BY DEF I!TypeDecls, Makes, Registers, I!TopLevel, TopLevel, I!TypeOf, TypeOf
<1>2. I!TypeDecl(p, T) = TopLevel(p)[Min(Makes(p, T, Len(TopLevel(p))))]
  BY <1>1 DEF I!TypeDecl, I!TopLevel, TopLevel, I!Min, Min
<1>3. \A n : I!Kind(n) = TypeMade(n).vt
  BY DEF I!Kind, TypeMade, Type, I!TypeOf, TypeOf
<1> QED  BY <1>1, <1>2, <1>3

LEMMA SameAsGlobalType ==
  ASSUME NEW p, NEW T
  PROVE  I!GlobalType(p, T) = TypeIn(p, T)
<1>1. I!NumberTypes = NumberTypes
  BY DEF I!NumberTypes, NumberTypes, I!IntTypes, IntTypes, I!FloatTypes, FloatTypes
<1>2. "bool" \notin NumberTypes  BY DEF NumberTypes, IntTypes, FloatTypes
<1>3. CASE IsCore(T)
  <2>1. I!GlobalType(p, T) = IF T = "bool" THEN "u8" ELSE T
    BY <1>1, <1>2, <1>3, CoreNames DEF I!GlobalType
  <2>2. First(CoreTypes, T).type.vt = IF T = "bool" THEN "u8" ELSE T  BY <1>3, CoreNames
  <2> QED  BY <1>3, <2>1, <2>2 DEF TypeIn
<1>4. CASE ~IsCore(T)
  <2>1. T \notin NumberTypes /\ T # "bool"  BY <1>4, CoreNames
  <2>2. I!GlobalType(p, T) = IF I!TypeDecls(p, T) = {} THEN "none" ELSE I!Kind(I!TypeDecl(p, T))
    BY <1>1, <2>1 DEF I!GlobalType
  <2> QED  BY <1>4, <2>2, SameDeclarations DEF TypeIn
<1> QED  BY <1>3, <1>4

\* Where the stage stands when it has accepted the program.
LEMMA Accepted ==
  ASSUME HandInv, verdict = "accepted"
  PROVE  /\ program \in Nodes /\ Len(TopLevel(program)) \in Nat /\ TypeOf(program) = "PROGRAM"
         /\ chain \in Seq(SemScopeType) /\ Len(chain) = 1 /\ chain[1] \in SemScopeType
         /\ TableAfter(chain[1].types, program, Len(TopLevel(program)))
         /\ SlotsAfter(chain[1].vars, program, Len(TopLevel(program)))
<1>1. SemInv /\ GlobalIs(calls, chain) /\ Len(calls) = 1
      /\ Caller.pc = "visit" /\ Caller.i = Len(TopLevel(Caller.node))
  BY DEF HandInv, Accepting
<1>2. Caller = calls[1] /\ Caller.node = program
  BY <1>1, CallFacts DEF program
<1>3. program \in Nodes /\ Len(TopLevel(program)) \in Nat /\ TypeOf(program) = "PROGRAM"
  BY <1>1, TopLevelStatement DEF program
<1>4. ~Open(Caller)  BY <1>2, <1>3 DEF Open
<1>5. Len(chain) = 1  BY <1>1, <1>4, OnTop
<1>6. chain \in Seq(SemScopeType)  BY <1>1, CallFacts
<1>7. chain[1] \in SemScopeType
  <2>1. 1 \in 1..Len(chain)  BY <1>5
  <2> QED  BY <1>6, <2>1
<1>8. Returned(calls) = Len(TopLevel(program)) /\ ~Inside(calls)
  BY <1>1, <1>2 DEF Returned, Inside
<1> QED  BY <1>1, <1>3, <1>5, <1>6, <1>7, <1>8 DEF GlobalIs, Made, program

LEMMA ScopeHandedOver ==
  ASSUME HandInv, verdict = "accepted"
  PROVE  GlobalHandedOver = I!GlobalScope(program)
<1> DEFINE p == program
<1> DEFINE n == Len(TopLevel(p))
<1> DEFINE vs == chain[1].vars
<1>1. n \in Nat /\ SlotsAfter(vs, p, n)  BY Accepted
<1>2. I!GlobalVars(p) = VarsUp(p, n)
      /\ \A x : I!GlobalVarsNamed(p, x) = VarsOf(p, x, n)
  BY DEF I!GlobalVars, I!GlobalVarsNamed, VarsUp, VarsOf, I!TopLevel, TopLevel, I!TypeOf, TypeOf
<1>3. \A x : I!Max(VarsOf(p, x, n)) = Max(VarsOf(p, x, n))  BY DEF I!Max, Max
<1>4. \A t : I!Zero(t) = Zero(t)  BY DEF I!Zero, Zero
<1>5. \A d : I!DeclaredType(p, I!TopLevel(p)[d]) = VarType(p, d)
  BY SameAsGlobalType DEF I!DeclaredType, VarType, I!TopLevel, TopLevel
<1> DEFINE Given(x) == IF Places(vs, x) = {} THEN I!Undeclared ELSE First(vs, x).value
<1> DEFINE Read(x) ==
      IF I!GlobalVarsNamed(p, x) # {}
      THEN I!Zero(I!DeclaredType(p, I!TopLevel(p)[I!Max(I!GlobalVarsNamed(p, x))]))
      ELSE CASE x \in {"null", "false"} -> I!Zero("u8")
             [] x = "true" -> [t |-> "u8", n |-> 1]
             [] OTHER -> I!Undeclared
<1> HIDE DEF vs, n, p
<1>6. ASSUME NEW x \in Names PROVE Given(x) = Read(x)
  <2>1. CASE VarsOf(p, x, n) # {}
    <3>1. Places(vs, x) # {} /\ First(vs, x).value = Zero(VarType(p, Max(VarsOf(p, x, n))))
      BY <1>1, <2>1 DEF SlotsAfter
    <3>2. Given(x) = Zero(VarType(p, Max(VarsOf(p, x, n))))  BY <3>1
    <3>3. Read(x) = Zero(VarType(p, Max(VarsOf(p, x, n))))
      BY <1>2, <1>3, <1>4, <1>5, <2>1
    <3> QED  BY <3>2, <3>3
  <2>2. CASE VarsOf(p, x, n) = {} /\ x \in Preloaded
    <3>1. Given(x) = First(GlobalAtStart.vars, x).value
      BY <1>1, <2>2 DEF SlotsAfter
    <3>2. First(GlobalAtStart.vars, x).value = [t |-> "u8", n |-> IF x = "true" THEN 1 ELSE 0]
      BY <2>2, PreloadedValues
    <3>3. Read(x) = [t |-> "u8", n |-> IF x = "true" THEN 1 ELSE 0]
      BY <1>2, <1>4, <2>2 DEF Preloaded, Zero
    <3> QED  BY <3>1, <3>2, <3>3
  <2>3. CASE VarsOf(p, x, n) = {} /\ x \notin Preloaded
    <3>1. Given(x) = I!Undeclared  BY <1>1, <2>3 DEF SlotsAfter
    <3>2. Read(x) = I!Undeclared  BY <1>2, <2>3 DEF Preloaded
    <3> QED  BY <3>1, <3>2
  <2> QED  BY <2>1, <2>2, <2>3
<1>7. [x \in Names |-> Given(x)] = [x \in Names |-> Read(x)]  BY <1>6
<1>8. Len(vs) = 3 + Cardinality(I!GlobalVars(p))  BY <1>1, <1>2 DEF SlotsAfter
<1>9. GlobalHandedOver =
        [I!create_scope({1}) EXCEPT !.varcount = Len(vs), !.vars = [x \in Names |-> Given(x)]]
  BY DEF GlobalHandedOver, vs
<1>10. I!GlobalScope(p) =
         [I!create_scope({1}) EXCEPT !.varcount = 3 + Cardinality(I!GlobalVars(p)),
                                     !.vars = [x \in Names |-> Read(x)]]
  <2>1. I!Cardinality(I!GlobalVars(p)) = Cardinality(I!GlobalVars(p))
    BY DEF I!Cardinality, Cardinality
  <2> QED  BY <2>1 DEF I!GlobalScope
<1> HIDE DEF Given, Read
<1> QED  BY <1>7, <1>8, <1>9, <1>10 DEF p

-----------------------------------------------------------------------------
(***************************************************************************)
(* Both stages.                                                            *)
(***************************************************************************)
SameRoot(r) == r[1].node = calls[1].node
RootStays == SameRoot(calls')

LEMMA RootBelow ==
  ASSUME SemInv, NEW f, f.node = Caller.node, NEW r, r[Len(calls)] = f,
         \A j \in 1..(Len(calls) - 1) : r[j] = calls[j]
  PROVE  SameRoot(r)
<1> DEFINE N == Len(calls)
<1>1. N \in Nat /\ N >= 1 /\ Caller = calls[N]  BY CallFacts
<1>2. r[N] = f /\ \A j \in 1..(N - 1) : r[j] = calls[j]  OBVIOUS
<1> HIDE DEF N
<1>3. CASE N = 1  BY <1>1, <1>2, <1>3 DEF SameRoot
<1>4. CASE N > 1
  <2>1. 1 \in 1..(N - 1)  BY <1>1, <1>4
  <2> QED  BY <1>2, <2>1 DEF SameRoot
<1> QED  BY <1>1, <1>3, <1>4

LEMMA RootLeft ==
  ASSUME SemInv, TypeOf(Caller.node) # "PROGRAM", NEW r, Len(r) = Len(calls) - 1,
         \A j \in 1..Len(r) : r[j] = calls[j]
  PROVE  SameRoot(r)
<1> DEFINE N == Len(calls)
<1>1. N \in Nat /\ N > 1 /\ Len(r) = N - 1  BY CallFacts
<1> HIDE DEF N
<1>2. 1 \in 1..Len(r)  BY <1>1
<1> QED  BY <1>2 DEF SameRoot

LEMMA ProgramStays ==
  ASSUME SemInv, [SemNext]_semVars
  PROVE  program' = program
<1> SUFFICES RootStays  BY DEF RootStays, SameRoot, program
<1>1. ASSUME NEW f, Advances(f) PROVE RootStays
  <2>1. f \in CallType /\ f.node = Caller.node /\ GoesOnAs(f)  BY <1>1 DEF Advances, GoesOnAs
  <2>2. /\ calls'[Len(calls)] = f
        /\ \A j \in 1..(Len(calls) - 1) : calls'[j] = calls[j]
    BY <2>1, FramesAfter DEF GoesOnAs
  <2>3. SameRoot(calls')  BY <2>1, <2>2, RootBelow
  <2> QED  BY <2>3 DEF RootStays
<1>2. CASE Goes
  <2>1. PICK f : Advances(f)  BY <1>2 DEF Goes
  <2> QED  BY <1>1, <2>1
<1>3. CASE Enters
  <2>1. Advances([Caller EXCEPT !.pc = "visit"])  BY <1>3 DEF Enters
  <2> QED  BY <1>1, <2>1
<1>4. CASE Visits
  <2> DEFINE f == [Caller EXCEPT !.pc = "child"]
  <2> DEFINE g == NewCall(Awaited(Caller), Len(chain))
  <2>1. f \in CallType /\ f.node = Caller.node
    <3>1. Caller \in CallType  BY CallFacts
    <3>2. f = [node |-> Caller.node, scope |-> Caller.scope, pc |-> "child", i |-> Caller.i,
               type |-> Caller.type]
      BY <3>1 DEF CallType
    <3> HIDE DEF f
    <3> QED  BY <3>1, <3>2 DEF CallType
  <2>2. g \in CallType
    <3>1. Caller.node \in Nodes /\ Caller.i \in Nat /\ Len(chain) \in Nat  BY CallFacts
    <3>2. Caller.i + 1 \in 1..Len(Children(Caller.node))
      BY <1>4, <3>1, ChildrenFacts DEF Visits
    <3>3. Awaited(Caller) \in Nodes  BY <3>1, <3>2, ChildrenFacts DEF Awaited
    <3> QED  BY <3>1, <3>3, TypeFacts DEF NewCall, CallType
  <2>3. calls' = Append([calls EXCEPT ![Len(calls)] = f], g)
    BY <1>4 DEF Visits, Process, Awaited
  <2> HIDE DEF f, g
  <2>4. /\ calls'[Len(calls)] = f
        /\ \A j \in 1..(Len(calls) - 1) : calls'[j] = calls[j]
    BY <2>1, <2>2, <2>3, FramesAfter
  <2>5. SameRoot(calls')  BY <2>1, <2>4, RootBelow
  <2> QED  BY <2>5 DEF RootStays
<1>5. CASE Returns
  <2>1. TypeOf(Caller.node) # "PROGRAM" /\ calls' = Front(calls)  BY <1>5 DEF Returns, Leave
  <2>2. Len(calls') = Len(calls) - 1 /\ \A j \in 1..Len(calls') : calls'[j] = calls[j]
    BY <2>1, FramesAfter
  <2>3. SameRoot(calls')  BY <2>1, <2>2, RootLeft
  <2> QED  BY <2>3 DEF RootStays
<1>6. CASE Rests  BY <1>6 DEF Rests, RootStays, SameRoot
<1>7. Moves
  <2>1. SemNext => Moves
    BY LeafActions, EnteringActions, VisitingActions, LeavingActions DEF SemNext
  <2>2. UNCHANGED semVars => Moves  BY DEF semVars, Rests, Moves
  <2> QED  BY <2>1, <2>2
<1> QED  BY <1>2, <1>3, <1>4, <1>5, <1>6, <1>7 DEF Moves

LEMMA StageStep ==
  ASSUME [interpret]_pipelineVars
  PROVE  [SemNext]_semVars
BY DEF interpret, Analyse, create_interpreter, Interpret, pipelineVars, semVars

\* Only create_interpreter starts the interpreter.
LEMMA StartingStep ==
  ASSUME [interpret]_pipelineVars, Started', ~Started
  PROVE  create_interpreter
BY DEF interpret, Analyse, create_interpreter, Interpret, pipelineVars, interpVars, Started

(***************************************************************************)
(* main.c:56-110 up to create_interpreter: the invariant of the hand-over  *)
(* holds as long as the process runs.                                      *)
(***************************************************************************)
THEOREM HandInvariance == PipelineSpec => []HandInv
<1>1. PipelineInit => HandInv  BY HandInitInv DEF PipelineInit
<1>2. HandInv /\ [interpret]_pipelineVars => HandInv'  BY StageStep, HandNextInv
<1> QED  BY <1>1, <1>2, PTL DEF PipelineSpec

LEMMA TypeHandedOver ==
  ASSUME HandInv, verdict = "accepted", NEW T
  PROVE  SameType(T, scope_get_type(T))
<1> DEFINE n == Len(TopLevel(program))
<1> DEFINE type == scope_get_type(T)
<1>1. /\ program \in Nodes /\ n \in Nat
      /\ chain \in Seq(SemScopeType) /\ Len(chain) = 1
      /\ TableAfter(chain[1].types, program, n)
  BY Accepted
<1>2. n \in 0..n
  <2> HIDE DEF n
  <2> QED  BY <1>1
<1>3. \A x : scope_get_type(x).vt = I!GlobalType(program, x)
  <2>1. ASSUME NEW x PROVE scope_get_type(x).vt = TypeIn(program, x)
    BY <1>1, <1>2, TypeKnown
  <2> QED  BY <2>1, SameAsGlobalType
<1>4. ASSUME type.vt = "struct" PROVE SameFields(I!StructFields(program, T), type.types)
  <2> DEFINE d == TopLevel(program)[Min(Makes(program, T, n))]
  <2>1. ~IsCore(T) /\ Makes(program, T, n) # {}
    <3>1. TypeIn(program, T) = "struct"  BY <1>3, <1>4, SameAsGlobalType
    <3>2. IsCore(T) => TypeIn(program, T) \in NumberTypes
      BY CoreNames DEF TypeIn, NumberTypes, IntTypes
    <3>3. "struct" \notin NumberTypes /\ "struct" # "none"
      BY DEF NumberTypes, IntTypes, FloatTypes
    <3> QED  BY <3>1, <3>2, <3>3 DEF TypeIn
  <2>2. type = TypeMade(d)  BY <1>1, <1>2, <2>1, TypeKnown
  <2>3. d \in Nodes
    <3>1. Makes(program, T, n) \in SUBSET (1..n)  BY DEF Makes
    <3>2. Min(Makes(program, T, n)) \in 1..n
      <4> HIDE DEF n
      <4> QED  BY <1>1, <2>1, <3>1, MinIsLeast
    <3>3. TopLevel(program) \in Seq(Nodes)  BY <1>1, NodeFacts DEF TopLevel
    <3> QED  BY <3>2, <3>3
  <2>4. I!TypeDecl(program, T) = d  BY SameDeclarations
  <2> HIDE DEF d
  <2>5. TypeOf(d) = "STRUCT_STAT" /\ type.types = NodeData[d].types
    BY <1>4, <2>2 DEF TypeMade, Type
  <2>6. /\ Len(NodeData[d].types) = Len(NodeData[d].params)
        /\ Len(NodeData[d].params) \in Nat
    BY <2>3, <2>5, NodeFacts, NodesAssumption
  <2>7. I!StructFields(program, T) =
          [k \in 1..Len(NodeData[d].params) |->
             [name |-> NodeData[d].params[k],
              vtype |-> I!GlobalType(program, NodeData[d].types[k])]]
    BY <2>4 DEF I!StructFields
  <2> DEFINE fields == I!StructFields(program, T)
  <2>8. /\ Len(fields) = Len(NodeData[d].params)
        /\ \A k \in 1..Len(NodeData[d].params) :
             fields[k].vtype = I!GlobalType(program, NodeData[d].types[k])
    BY <2>6, <2>7
  <2> HIDE DEF fields, type
  <2>9. SameFields(fields, type.types)
    BY <1>3, <2>5, <2>6, <2>8 DEF SameFields
  <2> QED  BY <2>9 DEF fields
<1> QED  BY <1>3, <1>4 DEF SameType

(***************************************************************************)
(* main.c:273-295, interp.c:52-128: the struct types and variables the     *)
(* interpreter makes are the ones the program has been checked with, for   *)
(* every program: a type name the semantics stage has accepted stands for  *)
(* the same fields in the interpreter, whatever else has that name.        *)
(***************************************************************************)
THEOREM TypesAreHandedOver == PipelineSpec => TypesHandedOver
<1>1. HandInv /\ [interpret]_pipelineVars =>
        [Started' /\ ~Started => \A T \in TypeNames : SameType(T, scope_get_type(T))]_pipelineVars
  <2>1. SUFFICES ASSUME HandInv, [interpret]_pipelineVars, Started', ~Started
                 PROVE  \A T \in TypeNames : SameType(T, scope_get_type(T))
    OBVIOUS
  <2>2. verdict = "accepted"  BY <2>1, StartingStep DEF create_interpreter
  <2> QED  BY <2>1, <2>2, TypeHandedOver
<1> QED  BY <1>1, HandInvariance, PTL DEF PipelineSpec, TypesHandedOver

\* Seen from the interpreter's variables, nothing happens until it runs.
LEMMA HandOverStep ==
  ASSUME HandInv, ~Started, Analyse \/ create_interpreter
  PROVE  UNCHANGED Interpreter!vars
<1>1. program' = program
  <2>1. [SemNext]_semVars  BY DEF Analyse, create_interpreter
  <2> QED  BY <2>1, ProgramStays DEF HandInv
<1>2. CASE Analyse
  <2>1. UNCHANGED <<stack, ret, scopes, fns, status>> /\ ~Started'
    BY <1>2 DEF Analyse, interpVars, Started
  <2> QED  BY <1>1, <2>1 DEF Interpreter!vars
<1>3. CASE create_interpreter
  <2>1. /\ stack' = <<I!NewFrame(program, 1)>> /\ scopes' = <<GlobalHandedOver>>
        /\ UNCHANGED <<ret, fns, status>> /\ verdict = "accepted"
    BY <1>3 DEF create_interpreter
  <2>2. Started'  BY <2>1 DEF Started
  <2>3. GlobalHandedOver = I!GlobalScope(program)  BY <2>1, ScopeHandedOver
  <2> QED  BY <1>1, <2>1, <2>2, <2>3 DEF Interpreter!vars
<1> QED  BY <1>2, <1>3
=============================================================================
