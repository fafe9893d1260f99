----------------------------- MODULE CommonLemmas -----------------------------
(***************************************************************************)
(* Lemmas that the proofs about several components rest on: least and      *)
(* greatest elements, sequences without their last element, and about      *)
(* Values, that every computation ends in an outcome and a value it yields *)
(* fits the type it is tagged with.                                        *)
(***************************************************************************)
EXTENDS Values, SequencesExt, TLAPS, FiniteSetTheorems, SequenceTheorems, WellFoundedInduction

(***************************************************************************)
(* Least and greatest elements: an element with the fewest smaller (or     *)
(* greater) ones exists because strict inclusion of finite sets is         *)
(* well-founded.                                                           *)
(***************************************************************************)
Families(n) == SUBSET (SUBSET (1..n))

LEMMA FewestBelow ==
  ASSUME NEW n \in Nat, NEW T \in Families(n), T # {}
  PROVE  \E A \in T : \A B \in T : B \subseteq A => B = A
<1> DEFINE R == StrictSubsetOrdering(1..n)
<1>1. IsFiniteSet(1..n)  BY FS_Interval
<1>2. FiniteSubsetsOf(1..n) = SUBSET (1..n)  BY <1>1, FS_FiniteSubsetsOfFinite
<1>3. IsWellFoundedOn(R, SUBSET (1..n))  BY <1>2, FS_StrictSubsetOrderingWellFounded
<1> HIDE DEF R
<1>4. \E A \in T : \A B \in T : ~ (<<B, A>> \in R)
  <2>1. T \subseteq SUBSET (1..n)  BY DEF Families
  <2> QED  BY <1>3, <2>1, WFMin
<1>5. PICK A \in T : \A B \in T : ~ (<<B, A>> \in R)  BY <1>4
<1>6. ASSUME NEW B \in T, B \subseteq A PROVE B = A
  <2>1. SUFFICES ASSUME B # A PROVE FALSE  OBVIOUS
  <2>2. A \in SUBSET (1..n) /\ B \in SUBSET (1..n)  BY DEF Families
  <2>3. <<B, A>> \in (SUBSET (1..n)) \X (SUBSET (1..n))  BY <2>2
  <2>4. <<B, A>> \in R  BY <1>6, <2>1, <2>3 DEF R, StrictSubsetOrdering
  <2> QED  BY <1>5, <2>4
<1> QED  BY <1>6

LEMMA MaxExists ==
  ASSUME NEW n \in Nat, NEW S \in SUBSET (1..n), S # {}
  PROVE  Max(S) \in S
<1> DEFINE above == [x \in S |-> {y \in S : y > x}]
<1> DEFINE T == {above[x] : x \in S}
<1>1. T \in Families(n) /\ T # {}  BY DEF Families
<1> HIDE DEF T
<1>2. PICK A \in T : \A B \in T : B \subseteq A => B = A
  BY <1>1, FewestBelow
<1>3. PICK x \in S : A = above[x]  BY DEF T
<1>4. ASSUME NEW y \in S PROVE x >= y
  <2>1. SUFFICES ASSUME y > x PROVE FALSE  BY <1>1
  <2>2. above[y] \in T  BY DEF T
  <2>3. above[y] \subseteq above[x]
    <3>1. \A z \in S : z > y => z > x  BY <2>1
    <3> QED  BY <3>1
  <2>4. y \in above[x] /\ y \notin above[y]  BY <2>1
  <2> QED  BY <1>2, <1>3, <2>2, <2>3, <2>4
<1> QED  BY <1>4 DEF Max

\* The least element of a set of numbers is one of them.
LEMMA MinIsLeast ==
  ASSUME NEW n \in Nat, NEW S \in SUBSET (1..n), S # {}
  PROVE  Min(S) \in S /\ \A y \in S : Min(S) <= y
<1> DEFINE below == [x \in S |-> {y \in S : y < x}]
<1> DEFINE T == {below[x] : x \in S}
<1>1. T \in Families(n) /\ T # {}  BY DEF Families
<1> HIDE DEF T
<1>2. PICK A \in T : \A B \in T : B \subseteq A => B = A
  BY <1>1, FewestBelow
<1>3. PICK x \in S : A = below[x]  BY DEF T
<1>4. ASSUME NEW y \in S PROVE x =< y
  <2>1. SUFFICES ASSUME y < x PROVE FALSE  BY <1>1
  <2>2. below[y] \in T  BY DEF T
  <2>3. below[y] \subseteq below[x]
    <3>1. \A z \in S : z < y => z < x  BY <2>1
    <3> QED  BY <3>1
  <2>4. y \in below[x] /\ y \notin below[y]  BY <2>1
  <2> QED  BY <1>2, <1>3, <2>2, <2>3, <2>4
<1> QED  BY <1>4 DEF Min

LEMMA MinExists ==
  ASSUME NEW n \in Nat, NEW S \in SUBSET (1..n), S # {}
  PROVE  Min(S) \in S
  BY MinIsLeast

\* What is least, or greatest, is the minimum, or the maximum.
LEMMA MinIs ==
  ASSUME NEW n \in Nat, NEW S \in SUBSET (1..n), NEW x \in S, \A y \in S : x <= y
  PROVE  Min(S) = x
<1> DEFINE m == Min(S)
<1>1. m \in S /\ \A y \in S : m <= y  BY MinIsLeast
<1> HIDE DEF m
<1>2. x \in Nat /\ m \in Nat /\ m <= x /\ x <= m  BY <1>1
<1>3. m = x  BY <1>2
<1> QED  BY <1>3 DEF m

LEMMA MaxIs ==
  ASSUME NEW n \in Nat, NEW S \in SUBSET (1..n), NEW x \in S, \A y \in S : y <= x
  PROVE  Max(S) = x
<1> DEFINE m == Max(S)
<1>1. m \in S  BY MaxExists
<1>2. x \in Nat /\ \A y \in S : y \in Nat /\ x >= y  OBVIOUS
<1>3. \A y \in S : m >= y  BY <1>2 DEF Max
<1> HIDE DEF m
<1>4. m \in Nat /\ m <= x /\ x <= m  BY <1>1, <1>2, <1>3
<1>5. m = x  BY <1>2, <1>4
<1> QED  BY <1>5 DEF m

\* Every set of natural numbers has a least element.
LEMMA LeastExists ==
  ASSUME NEW S \in SUBSET Nat, S # {}
  PROVE  \E x \in S : \A y \in S : x <= y
<1>1. PICK n \in S : TRUE  OBVIOUS
<1> DEFINE T == {k \in 1..(n + 1) : k - 1 \in S}
<1>2. n + 1 \in T /\ T \in SUBSET (1..(n + 1)) /\ n + 1 \in Nat  BY <1>1
<1> DEFINE m == Min(T)
<1>3. m \in T  BY <1>2, MinExists
<1>4. \A y \in T : m <= y  BY <1>2, MinIsLeast
<1>5. ASSUME NEW y \in S PROVE m - 1 <= y
  <2>1. CASE y <= n  BY <1>1, <1>3, <1>4, <2>1
  <2>2. CASE y > n  BY <1>1, <1>3, <2>2
  <2> QED  BY <1>1, <2>1, <2>2
<1> QED  BY <1>3, <1>5

\* Induction over the natural numbers, for the set of those that have the property.
LEMMA SetInduction ==
  ASSUME NEW S, 0 \in S, \A n \in Nat : n \in S => n + 1 \in S
  PROVE  \A n \in Nat : n \in S
<1> DEFINE missed == {n \in Nat : n \notin S}
<1>1. SUFFICES ASSUME missed # {} PROVE FALSE  OBVIOUS
<1>2. PICK n \in missed : \A k \in missed : n <= k  BY <1>1, LeastExists
<1>3. n # 0 /\ n \in Nat  BY <1>2
<1>4. n - 1 \in Nat /\ n - 1 \in S  BY <1>2, <1>3
<1>5. (n - 1) + 1 \in S  BY <1>4
<1> QED  BY <1>2, <1>3, <1>5

-----------------------------------------------------------------------------
\* Induction over a tree: what holds of a node when it holds of all lower ones.
LEMMA TreeInduction ==
  ASSUME NEW N, NEW height \in [N -> Nat], NEW S,
         \A n \in N : (\A m \in N : height[m] < height[n] => m \in S) => n \in S
  PROVE  N \subseteq S
<1> DEFINE H == {h \in Nat : \A n \in N : height[n] < h => n \in S}
<1>1. 0 \in H  OBVIOUS
<1>2. ASSUME NEW h \in Nat, h \in H PROVE h + 1 \in H
  <2>1. ASSUME NEW n \in N, height[n] < h + 1 PROVE n \in S
    <3>1. \A m \in N : height[m] < height[n] => height[m] < h
      <4>1. \A m \in N : height[m] \in Nat  OBVIOUS
      <4> QED  BY <2>1, <4>1
    <3> QED  BY <1>2, <3>1
  <2> QED  BY <2>1
<1> HIDE DEF H
<1>3. \A h \in Nat : h \in H  BY <1>1, <1>2, SetInduction
<1>4. ASSUME NEW n \in N PROVE n \in S
  <2>1. height[n] \in Nat /\ height[n] + 1 \in H  BY <1>3
  <2> QED  BY <2>1 DEF H
<1> QED  BY <1>4

(***************************************************************************)
(* Recursion over a tree.  What D says of a node depends on what is known  *)
(* of lower nodes only; then some function does as D says at every node.   *)
(* The height of a node bounds the recursion.                              *)
(***************************************************************************)
Recursions(N, S, height) ==
  {D \in [N -> [[N -> S] -> S]] :
     \A n \in N : \A f, g \in [N -> S] :
       (\A m \in N : height[m] < height[n] => f[m] = g[m]) => D[n][f] = D[n][g]}

LEMMA TreeRecursion ==
  ASSUME NEW N, NEW S, S # {}, NEW height \in [N -> Nat], NEW D \in Recursions(N, S, height)
  PROVE  \E f \in [N -> S] : \A n \in N : f[n] = D[n][f]
<1>0. /\ D \in [N -> [[N -> S] -> S]]
      /\ \A n \in N : \A f, g \in [N -> S] :
           (\A m \in N : height[m] < height[n] => f[m] = g[m]) => D[n][f] = D[n][g]
  BY DEF Recursions
<1> DEFINE Right(k) == {f \in [N -> S] : \A n \in N : height[n] < k => f[n] = D[n][f]}
<1>1. \A k \in Nat : Right(k) # {}
  <2> DEFINE K == {k \in Nat : Right(k) # {}}
  <2>1. 0 \in K
    <3>1. PICK s \in S : TRUE  OBVIOUS
    <3>2. [n \in N |-> s] \in Right(0)  OBVIOUS
    <3> QED  BY <3>2
  <2>2. ASSUME NEW k \in Nat, k \in K PROVE k + 1 \in K
    <3>1. PICK f \in Right(k) : TRUE  BY <2>2
    <3> DEFINE g == [n \in N |-> D[n][f]]
    <3>2. f \in [N -> S] /\ \A n \in N : height[n] < k => f[n] = D[n][f]  BY <3>1
    <3>3. g \in [N -> S]  BY <1>0, <3>2
    <3>4. ASSUME NEW n \in N, height[n] < k + 1 PROVE g[n] = D[n][g]
      <4>1. \A m \in N : height[m] < height[n] => f[m] = g[m]
        <5>1. ASSUME NEW m \in N, height[m] < height[n] PROVE f[m] = g[m]
          <6>1. height[m] \in Nat /\ height[n] \in Nat  OBVIOUS
          <6>2. height[m] < k  BY <3>4, <5>1, <6>1
          <6> QED  BY <3>2, <6>2
        <5> QED  BY <5>1
      <4>2. g[n] = D[n][f]  OBVIOUS
      <4> HIDE DEF g
      <4> QED  BY <1>0, <3>2, <3>3, <4>1, <4>2
    <3> HIDE DEF g
    <3>5. g \in Right(k + 1)  BY <3>3, <3>4
    <3> QED  BY <3>5
  <2> HIDE DEF K
  <2>3. \A k \in Nat : k \in K => k + 1 \in K  BY <2>2
  <2>4. \A k \in Nat : k \in K  BY <2>1, <2>3, SetInduction
  <2> QED  BY <2>4 DEF K
<1> DEFINE F == [k \in Nat |-> CHOOSE f : f \in Right(k)]
<1>2. \A k \in Nat : F[k] \in Right(k)  BY <1>1
<1> HIDE DEF F
<1>3. \A j, k \in Nat : j <= k =>
        \A n \in N : height[n] < j => F[j][n] = F[k][n]
  <2>1. SUFFICES ASSUME NEW j \in Nat, NEW k \in Nat, j <= k
                 PROVE  \A n \in N : height[n] < j => F[j][n] = F[k][n]
    OBVIOUS
  <2>2. /\ F[j] \in [N -> S] /\ \A n \in N : height[n] < j => F[j][n] = D[n][F[j]]
        /\ F[k] \in [N -> S] /\ \A n \in N : height[n] < k => F[k][n] = D[n][F[k]]
    BY <1>2
  <2> DEFINE H == {h \in Nat : \A n \in N : height[n] < h /\ height[n] < j => F[j][n] = F[k][n]}
  <2>3. 0 \in H  OBVIOUS
  <2>4. ASSUME NEW h \in Nat, h \in H PROVE h + 1 \in H
    <3>1. ASSUME NEW n \in N, height[n] < h + 1, height[n] < j PROVE F[j][n] = F[k][n]
      <4>1. height[n] \in Nat /\ height[n] < k  BY <2>1, <3>1
      <4>2. ASSUME NEW m \in N, height[m] < height[n] PROVE F[j][m] = F[k][m]
        <5>1. height[m] \in Nat  OBVIOUS
        <5>2. height[m] < h /\ height[m] < j  BY <3>1, <4>1, <4>2, <5>1
        <5> QED  BY <2>4, <5>2
      <4>3. D[n][F[j]] = D[n][F[k]]  BY <1>0, <2>2, <4>2
      <4> QED  BY <2>2, <3>1, <4>1, <4>3
    <3> QED  BY <3>1
  <2> HIDE DEF H
  <2>5. \A h \in Nat : h \in H => h + 1 \in H  BY <2>4
  <2>6. \A h \in Nat : h \in H  BY <2>3, <2>5, SetInduction
  <2>7. j \in H  BY <2>6
  <2> QED  BY <2>7 DEF H
<1> DEFINE f == [n \in N |-> F[height[n] + 1][n]]
<1>4. \A n \in N : height[n] \in Nat /\ height[n] + 1 \in Nat  OBVIOUS
<1>5. f \in [N -> S]
  <2>1. \A n \in N : F[height[n] + 1] \in [N -> S]  BY <1>2, <1>4
  <2> QED  BY <2>1
<1>6. ASSUME NEW n \in N PROVE f[n] = D[n][f]
  <2> DEFINE g == F[height[n] + 1]
  <2>1. g \in [N -> S] /\ g[n] = D[n][g]
    <3>1. height[n] + 1 \in Nat /\ height[n] < height[n] + 1  BY <1>4
    <3>2. g \in Right(height[n] + 1)  BY <1>2, <3>1
    <3> HIDE DEF g
    <3> QED  BY <3>1, <3>2
  <2>2. ASSUME NEW m \in N, height[m] < height[n] PROVE g[m] = f[m]
    <3>1. /\ height[m] + 1 \in Nat /\ height[n] + 1 \in Nat /\ height[m] < height[m] + 1
          /\ height[m] + 1 <= height[n] + 1
      BY <1>4, <2>2
    <3>2. F[height[m] + 1][m] = F[height[n] + 1][m]  BY <1>3, <3>1
    <3> QED  BY <3>2
  <2>3. f[n] = g[n]  OBVIOUS
  <2> HIDE DEF f, g
  <2>4. D[n][g] = D[n][f]  BY <1>0, <1>5, <2>1, <2>2
  <2> QED  BY <2>1, <2>3, <2>4
<1> QED  BY <1>5, <1>6

-----------------------------------------------------------------------------
\* A sequence without its last element.
LEMMA FrontOfSeq ==
  ASSUME NEW S, NEW q \in Seq(S), Len(q) > 0
  PROVE  /\ Front(q) \in Seq(S) /\ Len(Front(q)) = Len(q) - 1
         /\ \A k \in 1..(Len(q) - 1) : Front(q)[k] = q[k]
<1>1. Len(q) \in Nat /\ \A k \in 1..(Len(q) - 1) : q[k] \in S
  OBVIOUS
<1>2. Front(q) = SubSeq(q, 1, Len(q) - 1)
  BY DEF Front
<1> DEFINE m == Len(q) - 1
<1>3. m \in Int /\ \A i \in 1..m : q[i] \in S
  BY <1>1
<1>4. /\ SubSeq(q, 1, m) \in Seq(S)
      /\ Len(SubSeq(q, 1, m)) = IF 1 <= m THEN m - 1 + 1 ELSE 0
      /\ \A i \in 1..(m - 1 + 1) : SubSeq(q, 1, m)[i] = q[1 + i - 1]
  <2>1. 1 \in Int  OBVIOUS
  <2> HIDE DEF m
  <2> QED  BY <1>3, <2>1, SubSeqProperties
<1>5. m >= 0 /\ m = Len(q) - 1  BY <1>1
<1>6. Front(q) = SubSeq(q, 1, m)  BY <1>2
<1>7. /\ Len(SubSeq(q, 1, m)) = m
      /\ \A i \in 1..m : SubSeq(q, 1, m)[i] = q[i]
  <2> HIDE DEF m
  <2> QED  BY <1>3, <1>4, <1>5
<1> QED  BY <1>4, <1>5, <1>6, <1>7

-----------------------------------------------------------------------------
\* A type holds 0 and its least value, and both ends of its range are integers.
LEMMA RangeOfType ==
  ASSUME NEW t \in IntTypes
  PROVE  /\ Modulus[t] \in Nat \ {0, 1}
         /\ Low(t) \in Int
         /\ Low(t) <= 0 /\ 0 < Low(t) + Modulus[t]
  BY ModulusAssumption DEF Low

\* Wrap yields a number of the type's range and leaves those numbers alone.
LEMMA WrapRange ==
  ASSUME NEW t \in IntTypes, NEW n \in Int
  PROVE  /\ Wrap(t, n) \in Int
         /\ Low(t) <= Wrap(t, n) /\ Wrap(t, n) < Low(t) + Modulus[t]
  BY RangeOfType DEF Wrap

LEMMA WrapIdentity ==
  ASSUME NEW t \in IntTypes, NEW n \in Int, Low(t) <= n, n < Low(t) + Modulus[t]
  PROVE  Wrap(t, n) = n
<1>1. n - Low(t) \in 0..(Modulus[t] - 1)  BY RangeOfType
<1>2. (n - Low(t)) % Modulus[t] = n - Low(t)  BY <1>1, RangeOfType
<1> QED  BY <1>2, RangeOfType DEF Wrap

LEMMA WrapIdempotent ==
  ASSUME NEW t \in IntTypes, NEW n \in Int
  PROVE  Wrap(t, Wrap(t, n)) = Wrap(t, n)
  BY WrapRange, WrapIdentity

LEMMA ValueFacts ==
  ASSUME NEW v \in Value
  PROVE  v.t \in ValueTypes /\ v.n \in Int /\ Fits(v) /\ v = [t |-> v.t, n |-> v.n]
  BY DEF Value, Tagged

LEMMA ZeroFits ==
  ASSUME NEW t \in ValueTypes
  PROVE  Zero(t) \in Value /\ Zero(t).t = t
<1>1. t \in IntTypes => Wrap(t, 0) = 0
  BY RangeOfType, WrapIdentity
<1> QED  BY <1>1 DEF Zero, Value, Tagged, Fits

LEMMA FittingValue ==
  ASSUME NEW t \in IntTypes, NEW n \in Int, Wrap(t, n) = n
  PROVE  [t |-> t, n |-> n] \in Value
  BY DEF Value, Tagged, Fits, ValueTypes, NumberTypes

LEMMA FloatsFit ==
  ASSUME NEW t \in FloatTypes, NEW n \in Int
  PROVE  [t |-> t, n |-> n] \in Value
  BY DEF Value, Tagged, Fits, ValueTypes, NumberTypes, FloatTypes, IntTypes

LEMMA WrapFits ==
  ASSUME NEW t \in IntTypes, NEW n \in Int
  PROVE  [t |-> t, n |-> Wrap(t, n)] \in Value
  BY WrapRange, WrapIdempotent, FittingValue

LEMMA StoredFits ==
  ASSUME NEW t \in NumberTypes, NEW n \in Int
  PROVE  [t |-> t, n |-> Stored(t, n)] \in Value
<1>1. CASE t \in IntTypes  BY <1>1, WrapFits DEF Stored
<1>2. CASE t \notin IntTypes  BY <1>2, FloatsFit DEF Stored, NumberTypes
<1> QED  BY <1>1, <1>2

\* What a computation that ends regularly yields: a value of type t.
Yields(o, t) == o \in Outcome /\ (o.fault = "none" => o.value.t = t)

LEMMA FaultYields ==
  ASSUME NEW f \in {"abort", "exit", "crash"}, NEW t
  PROVE  Yields(Fault(f), t)
  BY ZeroFits DEF Yields, Fault, Outcome, None, ValueTypes

LEMMA ValueYields ==
  ASSUME NEW v \in Value
  PROVE  Yields(OK(v), v.t)
  BY DEF Yields, OK, Outcome

LEMMA QuotientInt ==
  ASSUME NEW a \in Int, NEW b \in Int \ {0}
  PROVE  Quotient(a, b) \in Int
<1>1. Abs(a) \in Nat /\ Abs(b) \in Nat \ {0}  BY DEF Abs
<1>2. Abs(a) \div Abs(b) \in Int  BY <1>1
<1> QED  BY <1>2 DEF Quotient

LEMMA ConvertedInt ==
  ASSUME NEW v \in Value, NEW t
  PROVE  Converted(v, t) \in Int
<1>1. v.n \in Int  BY ValueFacts
<1>2. v.n * FloatUnit \in Int  BY <1>1, FloatUnitAssumption
<1>3. Quotient(v.n, FloatUnit) \in Int  BY <1>1, FloatUnitAssumption, QuotientInt
<1> QED  BY <1>1, <1>2, <1>3 DEF Converted

LEMMA CastYields ==
  ASSUME NEW v \in Value, NEW t \in ValueTypes, NEW o \in Cast(v, t)
  PROVE  Yields(o, t)
<1> DEFINE n == Converted(v, t)
<1>1. n \in Int  BY ConvertedInt
<1> HIDE DEF n
<1>2. CASE v.t \in NumberTypes /\ t \in NumberTypes
  <2>1. PICK k \in {n, Wrap(t, n), Low(t), 0} :
          /\ o = OK([t |-> t, n |-> k])
          /\ \/ k = n /\ Stored(t, n) = n
             \/ k \in {Wrap(t, n), Low(t), 0} /\ Stored(t, n) # n
    BY <1>2 DEF Cast, Fitted, n
  <2>2. CASE Stored(t, n) = n
    <3>1. [t |-> t, n |-> n] \in Value  BY <1>1, <1>2, <2>2, StoredFits
    <3> QED  BY <2>1, <2>2, <3>1, ValueYields
  <2>3. CASE Stored(t, n) # n
    <3>1. t \in IntTypes  BY <2>3 DEF Stored
    <3>2. k \in Int /\ Wrap(t, k) = k
      BY <1>1, <2>1, <2>3, <3>1, RangeOfType, WrapIdentity, WrapIdempotent, WrapRange
    <3>3. [t |-> t, n |-> k] \in Value  BY <3>1, <3>2, FittingValue
    <3> QED  BY <2>1, <3>3, ValueYields
  <2> QED  BY <2>2, <2>3
<1>3. CASE ~(v.t \in NumberTypes /\ t \in NumberTypes)
  BY <1>3, FaultYields DEF Cast
<1> QED  BY <1>2, <1>3

LEMMA AutoCastYields ==
  ASSUME NEW v \in Value, NEW t \in ValueTypes, NEW o \in AutoCast(v, t)
  PROVE  Yields(o, t)
  BY CastYields, ValueYields DEF AutoCast

LEMMA ArithInt ==
  ASSUME NEW t, NEW op \in ArithOps, NEW a \in Int, NEW b \in Int, op = "/" => b # 0
  PROVE  Arith(t, op, a, b) \in Int
<1> DEFINE unit == Unit(t)
<1>1. unit \in Int \ {0}  BY FloatUnitAssumption DEF Unit
<1> HIDE DEF unit
<1>2. a * b \in Int /\ a * unit \in Int  BY <1>1
<1>3. Quotient(a * b, unit) \in Int  BY <1>1, <1>2, QuotientInt
<1>4. op = "/" => Quotient(a * unit, b) \in Int  BY <1>2, QuotientInt
<1>5. op = "*" => Arith(t, op, a, b) = Quotient(a * b, unit)  BY DEF Arith, unit
<1>6. op = "/" => Arith(t, op, a, b) = Quotient(a * unit, b)  BY DEF Arith, unit
<1>7. op \in {"+", "-"} => Arith(t, op, a, b) \in Int  BY DEF Arith
<1> QED  BY <1>3, <1>4, <1>5, <1>6, <1>7 DEF ArithOps

\* An operator keeps the type of its left operand; a comparison gives an u8.
LEMMA ApplyYields ==
  ASSUME NEW op, NEW l \in Value, NEW r \in Value
  PROVE  Yields(Apply(op, l, r), IF op \in CompareOps THEN "u8" ELSE l.t)
<1> DEFINE t == IF op \in CompareOps THEN "u8" ELSE l.t
<1>1. l.t \in ValueTypes /\ l.n \in Int /\ r.n \in Int  BY ValueFacts
<1>2. CASE \/ op = "/" /\ r.n = 0
           \/ op \in ArithOps \cup CompareOps /\ l.t \notin NumberTypes
  <2>1. Apply(op, l, r) \in {Fault("exit"), Fault("abort")}
    BY <1>2 DEF Apply
  <2> QED  BY <2>1, FaultYields
<1>3. CASE op \notin ArithOps \cup CompareOps
  <2>1. Apply(op, l, r) = OK(Zero(l.t))  BY <1>3 DEF Apply, ArithOps
  <2> QED  BY <1>1, <1>3, <2>1, ZeroFits, ValueYields
<1>4. CASE op \in CompareOps /\ l.t \in NumberTypes
  <2>1. PICK k \in {0, 1} : Apply(op, l, r) = OK([t |-> "u8", n |-> k])
    BY <1>4 DEF Apply, CompareOps
  <2>2. 0 <= k /\ k < Low("u8") + Modulus["u8"] /\ Low("u8") = 0
    BY ModulusAssumption DEF IntTypes, Low, SignedTypes
  <2>3. Wrap("u8", k) = k  BY <2>2, WrapIdentity DEF IntTypes
  <2>4. [t |-> "u8", n |-> k] \in Value  BY <2>3, FittingValue DEF IntTypes
  <2> QED  BY <1>4, <2>1, <2>4, ValueYields
<1>5. CASE op \in ArithOps /\ l.t \in NumberTypes /\ ~(op = "/" /\ r.n = 0)
  <2>1. op \notin CompareOps  BY <1>5 DEF ArithOps, CompareOps
  <2>2. \/ Apply(op, l, r) = Fault("crash")
        \/ Apply(op, l, r) = OK([t |-> l.t, n |-> Stored(l.t, Arith(l.t, op, l.n, r.n))])
    BY <1>5, <2>1 DEF Apply
  <2>3. Arith(l.t, op, l.n, r.n) \in Int  BY <1>1, <1>5, ArithInt
  <2>4. [t |-> l.t, n |-> Stored(l.t, Arith(l.t, op, l.n, r.n))] \in Value  BY <1>5, <2>3, StoredFits
  <2> QED  BY <2>1, <2>2, <2>4, ValueYields, FaultYields
<1> QED  BY <1>2, <1>3, <1>4, <1>5

LEMMA BinaryYields ==
  ASSUME NEW op, NEW l \in Value, NEW r \in Value, NEW o \in BinaryOutcomes(op, l, r)
  PROVE  Yields(o, IF op \in CompareOps THEN "u8" ELSE l.t)
<1>1. PICK c \in AutoCast(r, l.t) : o = IF c.fault = "none" THEN Apply(op, l, c.value) ELSE c
  BY DEF BinaryOutcomes
<1>2. Yields(c, l.t)  BY AutoCastYields, ValueFacts
<1>3. CASE c.fault = "none"
  BY <1>1, <1>2, <1>3, ApplyYields DEF Yields, Outcome
<1>4. CASE c.fault # "none"
  BY <1>1, <1>2, <1>4 DEF Yields
<1> QED  BY <1>3, <1>4

\* An assignment never changes the type of the variable it assigns to.
LEMMA AssignYields ==
  ASSUME NEW op \in AssignOps, NEW var \in Value, NEW v \in Value, NEW o \in AssignOutcomes(op, var, v)
  PROVE  Yields(o, var.t)
<1>1. PICK c \in AutoCast(v, var.t) :
        o = IF c.fault = "none" THEN ApplyAssign(op, var, c.value) ELSE c
  BY DEF AssignOutcomes
<1>2. Yields(c, var.t)  BY AutoCastYields, ValueFacts
<1>3. CASE c.fault # "none"
  BY <1>1, <1>2, <1>3 DEF Yields
<1>4. CASE c.fault = "none" /\ op = "="
  <2>1. o = OK(c.value) \/ o = Fault("abort")  BY <1>1, <1>4 DEF ApplyAssign
  <2> QED  BY <1>2, <1>4, <2>1, FaultYields DEF Yields, OK, Outcome
<1>5. CASE c.fault = "none" /\ op # "="
  <2>1. o = Apply(BinaryOf(op), var, c.value)  BY <1>1, <1>5 DEF ApplyAssign
  <2>2. BinaryOf(op) \notin CompareOps  BY <1>5 DEF BinaryOf, CompareOps, AssignOps
  <2> QED  BY <1>2, <1>5, <2>1, <2>2, ApplyYields DEF Yields, Outcome
<1> QED  BY <1>3, <1>4, <1>5

LEMMA NegateYields ==
  ASSUME NEW op, NEW v \in Value
  PROVE  Yields(NegateOutcome(op, v), v.t)
<1>1. v.t \in ValueTypes /\ v.n \in Int  BY ValueFacts
<1>2. \/ NegateOutcome(op, v) = OK(Zero(v.t))
      \/ v.t \in NumberTypes /\ NegateOutcome(op, v) = OK([t |-> v.t, n |-> Stored(v.t, -v.n)])
      \/ NegateOutcome(op, v) = Fault("abort")
  BY DEF NegateOutcome
<1>3. v.t \in NumberTypes => [t |-> v.t, n |-> Stored(v.t, -v.n)] \in Value
  BY <1>1, StoredFits
<1> QED  BY <1>1, <1>2, <1>3, ZeroFits, ValueYields, FaultYields
=============================================================================
