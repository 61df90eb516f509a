------------------------------ MODULE Folding ------------------------------
(***************************************************************************)
(* What a fold of the community modules over a finite set computes: the    *)
(* recursive function behind it exists, and what every step keeps holds of *)
(* the result.  The module is instantiated with the operator that is       *)
(* folded and what is kept; c is what both depend on besides.              *)
(***************************************************************************)
EXTENDS Integers, FiniteSetsExt, SequencesExt, FiniteSetTheorems, TLAPS

CONSTANTS
  Op(_, _, _),   (* Op(c, a, x): the result a and one more element x      *)
  Choose(_),     (* the element of a set that is taken last               *)
  Keeps(_, _, _) (* Keeps(c, T, a): a is as it should be after T          *)

Folded(c, base, S) ==
  MapThenFoldSet(LAMBDA x, a : Op(c, a, x), base, LAMBDA x : x, Choose, S)

(* The equations that the recursive function solves.                       *)
Equation(c, base, h, T) ==
  h[T] = IF T = {} THEN base ELSE Op(c, h[T \ {Choose(T)}], Choose(T))
IterDef(c, base, S, h) ==
  [T \in SUBSET S |-> IF T = {} THEN base ELSE Op(c, h[T \ {Choose(T)}], Choose(T))]
Iter(c, base, S) == CHOOSE h : h = IterDef(c, base, S, h)

LEMMA FoldedIsIter ==
  ASSUME NEW c, NEW base, NEW S PROVE Folded(c, base, S) = Iter(c, base, S)[S]
BY Zenon DEF Folded, Iter, IterDef, MapThenFoldSet
-----------------------------------------------------------------------------
(* A set with 0 and every successor of its elements has all numbers.       *)
LEMMA NumbersInduction ==
  ASSUME NEW T, 0 \in T, \A n \in Nat : n \in T => n + 1 \in T
  PROVE  Nat \subseteq T
<1> SUFFICES ASSUME Nat \ T # {} PROVE FALSE
  OBVIOUS
<1> DEFINE R == {ss \in Nat \X Nat : ss[1] < ss[2]}
<1>1. IsWellFoundedOn(R, Nat)
  BY NatLessThanWellFounded DEF OpToRel
<1>2. PICK x \in Nat \ T : \A y \in Nat \ T : ~(<<y, x>> \in R)
  <2> HIDE DEF R
  <2> QED BY <1>1, WFMin
<1>3. x # 0 /\ x - 1 \in Nat /\ <<x - 1, x>> \in R
  BY <1>2
<1>4. x - 1 \in T
  BY <1>2, <1>3
<1> QED BY <1>2, <1>3, <1>4

(* The largest element of a set of numbers is one of them.                 *)
LEMMA MaxIsElement ==
  ASSUME NEW n \in Nat, NEW T \in SUBSET (1..n), T # {}
  PROVE  Max(T) \in T
<1> DEFINE Bound == {k \in Nat : \A U \in SUBSET (1..k) :
                       U # {} => \E x \in U : \A y \in U : x >= y}
<1>1. 0 \in Bound
  <2>1. 1..0 = {}
    OBVIOUS
  <2> QED BY <2>1
<1>2. ASSUME NEW k \in Nat, k \in Bound PROVE k + 1 \in Bound
  <2> SUFFICES ASSUME NEW U \in SUBSET (1..(k + 1)), U # {}
               PROVE  \E x \in U : \A y \in U : x >= y
    OBVIOUS
  <2>1. CASE k + 1 \in U
    BY <2>1
  <2>2. CASE k + 1 \notin U
    <3>1. U \in SUBSET (1..k)
      BY <2>2
    <3> QED BY <1>2, <3>1
  <2> QED BY <2>1, <2>2
<1>3. n \in Bound
  <2> HIDE DEF Bound
  <2> QED BY <1>1, <1>2, NumbersInduction
<1>4. \E x \in T : \A y \in T : x >= y
  BY <1>3
<1> QED BY <1>4 DEF Max
-----------------------------------------------------------------------------
(* The recursive function exists, by induction on the size of its argument.*)
LEMMA IterExists ==
  ASSUME NEW c, NEW base, NEW S, IsFiniteSet(S),
         \A T \in SUBSET S : T # {} => Choose(T) \in T
  PROVE  \A T \in SUBSET S : Equation(c, base, Iter(c, base, S), T)
<1> DEFINE Small(n) == {T \in SUBSET S : Cardinality(T) <= n}
           Solves(h, n) == \A T \in Small(n) : Equation(c, base, h, T)
           Good == {n \in Nat : \E h : Solves(h, n)}
           Value(h, T) == IF T = {} THEN base ELSE Op(c, h[T \ {Choose(T)}], Choose(T))
<1>1. \A T \in SUBSET S : IsFiniteSet(T) /\ Cardinality(T) \in Nat
                          /\ Cardinality(T) <= Cardinality(S)
  BY FS_Subset, FS_CardinalityType
<1>2. \A T \in SUBSET S : T # {} => /\ T \ {Choose(T)} \in SUBSET S
                                    /\ Cardinality(T \ {Choose(T)}) = Cardinality(T) - 1
  BY <1>1, FS_RemoveElement
<1>3. 0 \in Good
  <2>1. \A T \in Small(0) : T = {}
    BY <1>1, FS_EmptySet
  <2>2. Solves([T \in SUBSET S |-> base], 0)
    BY <2>1 DEF Equation
  <2> QED BY <2>2
<1>4. ASSUME NEW n \in Nat, n \in Good PROVE n + 1 \in Good
  <2>1. PICK h : Solves(h, n)
    BY <1>4
  <2> DEFINE g == [T \in SUBSET S |-> IF Cardinality(T) <= n THEN h[T] ELSE Value(h, T)]
  <2>2. ASSUME NEW T \in Small(n + 1) PROVE g[T] = Value(g, T)
    <3> DEFINE U == T \ {Choose(T)}
    <3>1. T \in SUBSET S /\ Cardinality(T) \in Nat
      BY <1>1
    <3>2. T # {} => U \in Small(n)
      BY <1>1, <1>2, <3>1
    <3>3. T # {} => g[U] = h[U]
      BY <3>2
    <3>4. Value(g, T) = Value(h, T)
      <4> HIDE DEF g
      <4> QED BY <3>3
    <3>5. CASE T \in Small(n)
      <4>1. g[T] = h[T]
        BY <3>5
      <4>2. h[T] = Value(h, T)
        <5> HIDE DEF Small
        <5> QED BY <2>1, <3>5 DEF Equation
      <4> HIDE DEF g, Value
      <4> QED BY <3>4, <4>1, <4>2
    <3>6. CASE T \notin Small(n)
      <4>1. ~(Cardinality(T) <= n)
        BY <3>1, <3>6
      <4>2. g[T] = Value(h, T)
        <5> HIDE DEF Value
        <5> QED BY <3>1, <4>1
      <4> HIDE DEF g, Value
      <4> QED BY <3>4, <4>2
    <3> QED BY <3>5, <3>6
  <2>3. Solves(g, n + 1)
    <3> HIDE DEF g, Small
    <3> QED BY <2>2 DEF Equation
  <2>4. \E h0 : Solves(h0, n + 1)
    <3> HIDE DEF g, Solves
    <3> QED BY <2>3
  <2> HIDE DEF Solves
  <2> QED BY <2>4
<1>5. PICK h : Solves(h, Cardinality(S))
  <2>1. Nat \subseteq Good
    <3> HIDE DEF Good
    <3> QED BY <1>3, <1>4, NumbersInduction
  <2>2. Cardinality(S) \in Good
    <3> HIDE DEF Good
    <3> QED BY <2>1, FS_CardinalityType
  <2> QED BY <2>2
<1> DEFINE r == [T \in SUBSET S |-> h[T]]
<1>6. \A T \in SUBSET S : r[T] = Value(r, T)
  <2> SUFFICES ASSUME NEW T \in SUBSET S PROVE r[T] = Value(r, T)
    OBVIOUS
  <2>1. h[T] = Value(h, T)
    <3>1. T \in Small(Cardinality(S))
      BY <1>1
    <3> HIDE DEF Small
    <3> QED BY <1>5, <3>1 DEF Equation
  <2>2. T # {} => r[T \ {Choose(T)}] = h[T \ {Choose(T)}]
    BY <1>2
  <2>3. r[T] = h[T]
    OBVIOUS
  <2> HIDE DEF r
  <2> QED BY <2>1, <2>2, <2>3
<1>7. r = IterDef(c, base, S, r)
  <2>1. IterDef(c, base, S, r) = [T \in SUBSET S |-> Value(r, T)]
    BY DEF IterDef
  <2>2. r = [T \in SUBSET S |-> r[T]]
    OBVIOUS
  <2> HIDE DEF r, Value
  <2> QED BY <1>6, <2>1, <2>2
<1>8. Iter(c, base, S) = IterDef(c, base, S, Iter(c, base, S))
  <2> HIDE DEF r
  <2> QED BY <1>7, Zenon DEF Iter
<1> DEFINE i == Iter(c, base, S)
<1>9. i = IterDef(c, base, S, i)
  BY <1>8
<1>10. \A T \in SUBSET S : i[T] = Value(i, T)
  <2>1. IterDef(c, base, S, i) = [T \in SUBSET S |-> Value(i, T)]
    BY DEF IterDef
  <2> HIDE DEF i, Value
  <2> QED BY <1>9, <2>1
<1>11. \A T \in SUBSET S : Equation(c, base, i, T)
  <2> HIDE DEF i
  <2> QED BY <1>10 DEF Equation
<1> QED BY <1>11

(* What the base is, and every step keeps, holds of the result.            *)
LEMMA FoldKeeps ==
  ASSUME NEW c, NEW base, NEW S, IsFiniteSet(S),
         \A T \in SUBSET S : T # {} => Choose(T) \in T,
         Keeps(c, {}, base),
         \A T \in SUBSET S : \A a :
           T # {} /\ Keeps(c, T \ {Choose(T)}, a) => Keeps(c, T, Op(c, a, Choose(T)))
  PROVE  Keeps(c, S, Folded(c, base, S))
<1> DEFINE i == Iter(c, base, S)
           Small(n) == {T \in SUBSET S : Cardinality(T) <= n}
           Good == {n \in Nat : \A T \in Small(n) : Keeps(c, T, i[T])}
<1>1. \A T \in SUBSET S : i[T] = IF T = {} THEN base
                                 ELSE Op(c, i[T \ {Choose(T)}], Choose(T))
  <2>1. \A T \in SUBSET S : Equation(c, base, i, T)
    BY IterExists
  <2> HIDE DEF i
  <2> QED BY <2>1 DEF Equation
<1> HIDE DEF i
<1>2. \A T \in SUBSET S : IsFiniteSet(T) /\ Cardinality(T) \in Nat
  BY FS_Subset, FS_CardinalityType
<1>3. ASSUME NEW T \in SUBSET S, T # {}, Keeps(c, T \ {Choose(T)}, i[T \ {Choose(T)}])
      PROVE  Keeps(c, T, i[T])
  <2>1. i[T] = Op(c, i[T \ {Choose(T)}], Choose(T))
    BY <1>1, <1>3
  <2>2. Keeps(c, T, Op(c, i[T \ {Choose(T)}], Choose(T)))
    BY <1>3
  <2> QED BY <2>1, <2>2
<1>4. 0 \in Good
  <2>1. \A T \in Small(0) : T = {}
    BY <1>2, FS_EmptySet
  <2>2. i[{}] = base
    BY <1>1
  <2> QED BY <2>1, <2>2
<1>5. ASSUME NEW n \in Nat, n \in Good PROVE n + 1 \in Good
  <2> SUFFICES ASSUME NEW T \in Small(n + 1) PROVE Keeps(c, T, i[T])
    OBVIOUS
  <2>1. CASE T = {}
    <3>1. i[T] = base
      BY <1>1, <2>1
    <3> QED BY <2>1, <3>1
  <2>2. CASE T # {}
    <3>1. T \ {Choose(T)} \in Small(n)
      BY <1>2, <2>2, FS_RemoveElement
    <3>2. Keeps(c, T \ {Choose(T)}, i[T \ {Choose(T)}])
      <4> HIDE DEF Small
      <4> QED BY <1>5, <3>1
    <3> QED BY <1>3, <2>2, <3>2
  <2> QED BY <2>1, <2>2
<1>6. Cardinality(S) \in Good
  <2>1. Nat \subseteq Good
    <3> HIDE DEF Good
    <3> QED BY <1>4, <1>5, NumbersInduction
  <2> HIDE DEF Good
  <2> QED BY <2>1, FS_CardinalityType
<1>7. Keeps(c, S, i[S])
  BY <1>2, <1>6
<1> QED BY <1>7, FoldedIsIter DEF i

(* The same over the places of a sequence.                                 *)
LEMMA FoldOverPlaces ==
  ASSUME NEW c, NEW base, NEW n \in Nat,
         \A T \in SUBSET (1..n) : T # {} => Choose(T) \in T,
         Keeps(c, {}, base),
         \A T \in SUBSET (1..n) : \A a :
           T # {} /\ Keeps(c, T \ {Choose(T)}, a) => Keeps(c, T, Op(c, a, Choose(T)))
  PROVE  Keeps(c, 1..n, Folded(c, base, 1..n))
<1>1. IsFiniteSet(1..n)
  BY FS_Interval
<1> QED BY <1>1, FoldKeeps

(* Two folds that do the same with the elements of T are the same on T.    *)
LEMMA FoldsAgree ==
  ASSUME NEW c, NEW d, NEW base, NEW S, IsFiniteSet(S), NEW R, IsFiniteSet(R),
         \A T \in SUBSET S : T # {} => Choose(T) \in T,
         \A T \in SUBSET R : T # {} => Choose(T) \in T,
         R \subseteq S,
         \A T \in SUBSET R : T # {} => \A a : Op(c, a, Choose(T)) = Op(d, a, Choose(T))
  PROVE  Iter(d, base, S)[R] = Iter(c, base, R)[R]
<1> DEFINE h == Iter(c, base, R)
           g == Iter(d, base, S)
           Small(n) == {T \in SUBSET R : Cardinality(T) <= n}
           Good == {n \in Nat : \A T \in Small(n) : g[T] = h[T]}
<1>1. \A T \in SUBSET R : h[T] = IF T = {} THEN base ELSE Op(c, h[T \ {Choose(T)}], Choose(T))
  <2>1. \A T \in SUBSET R : Equation(c, base, h, T)
    BY IterExists
  <2> HIDE DEF h
  <2> QED BY <2>1 DEF Equation
<1>2. \A T \in SUBSET R : g[T] = IF T = {} THEN base ELSE Op(d, g[T \ {Choose(T)}], Choose(T))
  <2>1. \A T \in SUBSET S : Equation(d, base, g, T)
    BY IterExists
  <2> HIDE DEF g
  <2> QED BY <2>1 DEF Equation
<1> HIDE DEF g, h
<1>3. \A T \in SUBSET R : IsFiniteSet(T) /\ Cardinality(T) \in Nat
  BY FS_Subset, FS_CardinalityType
<1>4. 0 \in Good
  <2>1. \A T \in Small(0) : T = {}
    BY <1>3, FS_EmptySet
  <2>2. g[{}] = base /\ h[{}] = base
    BY <1>1, <1>2
  <2> QED BY <2>1, <2>2
<1>5. ASSUME NEW n \in Nat, n \in Good PROVE n + 1 \in Good
  <2> SUFFICES ASSUME NEW T \in Small(n + 1) PROVE g[T] = h[T]
    OBVIOUS
  <2>1. CASE T = {}
    BY <1>1, <1>2, <2>1
  <2>2. CASE T # {}
    <3> DEFINE U == T \ {Choose(T)}
    <3>1. U \in Small(n) /\ T \in SUBSET R
      <4>1. T \in SUBSET R /\ Cardinality(T) <= n + 1 /\ Choose(T) \in T
        BY <2>2
      <4>2. IsFiniteSet(T) /\ Cardinality(T) \in Nat
        BY <1>3, <4>1
      <4>3. Cardinality(U) = Cardinality(T) - 1
        BY <4>1, <4>2, FS_RemoveElement
      <4> QED BY <4>1, <4>2, <4>3
    <3>2. g[U] = h[U]
      <4> HIDE DEF Small, U
      <4> QED BY <1>5, <3>1
    <3>3. g[T] = Op(d, g[U], Choose(T)) /\ h[T] = Op(c, h[U], Choose(T))
      BY <1>1, <1>2, <2>2, <3>1
    <3>4. Op(c, h[U], Choose(T)) = Op(d, h[U], Choose(T))
      BY <2>2, <3>1
    <3> HIDE DEF U
    <3> QED BY <3>2, <3>3, <3>4
  <2> QED BY <2>1, <2>2
<1>6. Cardinality(R) \in Good
  <2>1. Nat \subseteq Good
    <3> HIDE DEF Good
    <3> QED BY <1>4, <1>5, NumbersInduction
  <2> HIDE DEF Good
  <2> QED BY <2>1, FS_CardinalityType
<1>7. g[R] = h[R]
  BY <1>3, <1>6
<1> QED BY <1>7 DEF g, h

(* A fold is the fold without the last element, and then this one.         *)
LEMMA FoldSplits ==
  ASSUME NEW c, NEW d, NEW base, NEW S, IsFiniteSet(S), S # {},
         \A T \in SUBSET S : T # {} => Choose(T) \in T,
         \A T \in SUBSET (S \ {Choose(S)}) :
           T # {} => \A a : Op(c, a, Choose(T)) = Op(d, a, Choose(T))
  PROVE  Folded(d, base, S) = Op(d, Folded(c, base, S \ {Choose(S)}), Choose(S))
<1> DEFINE R == S \ {Choose(S)}
<1>1. R \subseteq S /\ IsFiniteSet(R)
  BY FS_Subset
<1>2. \A T \in SUBSET R : T # {} => Choose(T) \in T
  BY <1>1
<1>3. Iter(d, base, S)[R] = Iter(c, base, R)[R]
  <2>1. \A T \in SUBSET R :
          T # {} => \A a : Op(c, a, Choose(T)) = Op(d, a, Choose(T))
    OBVIOUS
  <2> HIDE DEF R
  <2> QED BY <1>1, <1>2, <2>1, FoldsAgree
<1>4. Iter(d, base, S)[S] = Op(d, Iter(d, base, S)[R], Choose(S))
  <2> DEFINE g == Iter(d, base, S)
  <2>1. \A T \in SUBSET S : Equation(d, base, g, T)
    BY IterExists
  <2> HIDE DEF g
  <2> QED BY <2>1 DEF Equation, g
<1> HIDE DEF R
<1>5. Folded(d, base, S) = Iter(d, base, S)[S] /\ Folded(c, base, R) = Iter(c, base, R)[R]
  BY FoldedIsIter
<1> QED BY <1>3, <1>4, <1>5 DEF R

LEMMA EmptyFold ==
  ASSUME NEW c, NEW base PROVE Folded(c, base, {}) = base
<1>1. \A T \in SUBSET {} : Equation(c, base, Iter(c, base, {}), T)
  BY IterExists, FS_EmptySet
<1> QED BY <1>1, FoldedIsIter DEF Equation
=============================================================================
