--------------------------- MODULE LruCacheProofs ---------------------------
(***************************************************************************)
(* The safety of LruCache, for every set of goroutines, keys and entries,  *)
(* every TTL and size, and any number of calls.  First the list: after     *)
(* insertFront and unlinkEntry it is again a correctly linked one, of one  *)
(* entry more or less; and every correctly linked list is a sequence,      *)
(* which these operations change as they should and which Forward and      *)
(* Backward read off the pointers.  Then what holds of the cache although  *)
(* closures may panic: the types, where a goroutine stands at each         *)
(* location, and that waitingForComputation counts exactly the goroutines  *)
(* that still need an entry (TypeInv, CountInv).  Last what needs closures *)
(* that do not panic (MainInv): list, map and memory counter stay in step, *)
(* Keys finds nothing wrong, eviction follows the order of use, and the    *)
(* cache implements RecencyOrder and SingleFlight.                         *)
(***************************************************************************)
EXTENDS LruCacheProps, FiniteSetTheorems, TLAPS

(* There are no cycles: the entries can be numbered in the order of next.  *)
Acyclic(l, S) ==
  \E r \in [Entry -> Int] :
    \A e \in S : l.next[e] # Nil => r[e] < r[l.next[e]]

(* The pointers of l are those of a list of exactly the entries S. *)
Listed(l, S) == l \in List /\ S \subseteq Entry /\ WellLinked(l, S) /\ Acyclic(l, S)

(* The list of a new cache is correctly linked. *)
LEMMA EmptyListed == Listed(EmptyList, {})
<1>1. EmptyList \in List
  BY DEF EmptyList, List, Pointer
<1>2. WellLinked(EmptyList, {})
  BY DEF EmptyList, WellLinked, Ends, Links
<1>3. Acyclic(EmptyList, {})
  <2>1. [e \in Entry |-> 0] \in [Entry -> Int]
    OBVIOUS
  <2> QED BY <2>1 DEF Acyclic
<1> QED BY <1>1, <1>2, <1>3 DEF Listed

(* insertFront yields a list of the right type. *)
LEMMA InsertFrontType ==
  ASSUME NEW l \in List, NEW e \in Entry
  PROVE  InsertFront(l, e) \in List
BY DEF InsertFront, List, Pointer

(* unlinkEntry yields a list of the right type, whether or not e is in it. *)
LEMMA UnlinkEntryType ==
  ASSUME NEW l \in List, NEW e \in Entry
  PROVE  UnlinkEntry(l, e) \in List
BY DEF UnlinkEntry, List, Pointer

(* A correctly linked list with a new entry in front is correctly linked. *)
LEMMA InsertFrontListed ==
  ASSUME NEW l, NEW S, NEW e \in Entry, Listed(l, S), e \notin S
  PROVE  Listed(InsertFront(l, e), S \cup {e})
<1> DEFINE m == InsertFront(l, e)
<1>1. l \in List /\ S \subseteq Entry /\ WellLinked(l, S) /\ Nil \notin Entry
  BY NilAssumption DEF Listed
<1>2. m \in List
  BY <1>1, InsertFrontType
<1>3. Ends(m, S \cup {e})
  BY <1>1 DEF InsertFront, WellLinked, Ends, Links, List, Pointer
<1>4. Links(m, S \cup {e})
  BY <1>1 DEF InsertFront, WellLinked, Ends, Links, List, Pointer
<1>5. Acyclic(m, S \cup {e})
  <2>1. PICK r \in [Entry -> Int] :
          \A x \in S : l.next[x] # Nil => r[x] < r[l.next[x]]
    BY DEF Listed, Acyclic
  <2> DEFINE q == [r EXCEPT ![e] = IF l.head = Nil THEN 0 ELSE r[l.head] - 1]
  <2>2. q \in [Entry -> Int]
    BY <1>1 DEF List, Pointer
  <2>3. ASSUME NEW x \in S \cup {e}, m.next[x] # Nil
        PROVE  q[x] < q[m.next[x]]
    <3>1. CASE x = e
      BY <1>1, <3>1, <2>3 DEF InsertFront, WellLinked, Ends, List, Pointer
    <3>2. CASE x # e
      <4>1. x \in S /\ m.next[x] = l.next[x] /\ l.next[x] \in S
        BY <1>1, <3>2, <2>3 DEF InsertFront, WellLinked, Links, List, Pointer
      <4> QED BY <1>1, <2>1, <4>1, <3>2, <2>3
    <3> QED BY <3>1, <3>2
  <2> QED BY <2>2, <2>3 DEF Acyclic
<1> QED BY <1>1, <1>2, <1>3, <1>4, <1>5 DEF Listed, WellLinked

(* No entry follows itself. *)
LEMMA NoSelfLink ==
  ASSUME NEW l, NEW S, NEW e \in S, Listed(l, S)
  PROVE  l.next[e] # e /\ l.prev[e] # e
<1>1. l \in List /\ S \subseteq Entry /\ WellLinked(l, S) /\ Nil \notin Entry
  BY NilAssumption DEF Listed
<1>2. PICK r \in [Entry -> Int] :
        \A x \in S : l.next[x] # Nil => r[x] < r[l.next[x]]
  BY DEF Listed, Acyclic
<1>3. l.next[e] # e
  BY <1>1, <1>2
<1> QED BY <1>1, <1>3 DEF WellLinked, Links

(* Taking an entry out leaves a correctly linked list of the others. *)
LEMMA UnlinkEntryListed ==
  ASSUME NEW l, NEW S, NEW e \in S, Listed(l, S)
  PROVE  Listed(UnlinkEntry(l, e), S \ {e})
<1> DEFINE m == UnlinkEntry(l, e)
<1>1. l \in List /\ S \subseteq Entry /\ WellLinked(l, S) /\ Nil \notin Entry
  BY NilAssumption DEF Listed
<1>2. m \in List
  BY <1>1, UnlinkEntryType
<1>3. PICK r \in [Entry -> Int] :
        \A x \in S : l.next[x] # Nil => r[x] < r[l.next[x]]
  BY DEF Listed, Acyclic
<1>4. l.next[e] # e /\ l.prev[e] # e
  BY NoSelfLink
<1>5. Ends(m, S \ {e})
  BY <1>1, <1>4 DEF UnlinkEntry, WellLinked, Ends, Links, List, Pointer
<1>6. Links(m, S \ {e})
  BY <1>1, <1>4 DEF UnlinkEntry, WellLinked, Ends, Links, List, Pointer
<1>7. ASSUME NEW x \in S \ {e}, m.next[x] # Nil
      PROVE  r[x] < r[m.next[x]]
  BY <1>1, <1>3, <1>7 DEF UnlinkEntry, WellLinked, Links, List, Pointer
<1> QED BY <1>1, <1>2, <1>3, <1>5, <1>6, <1>7 DEF Listed, WellLinked, Acyclic

(* A hit keeps the list correctly linked and its set of entries. *)
LEMMA MoveToFrontListed ==
  ASSUME NEW l, NEW S, NEW e \in S, Listed(l, S)
  PROVE  Listed(MoveToFront(l, e), S)
<1>1. CASE e = l.head
  BY <1>1 DEF MoveToFront
<1>2. CASE e # l.head
  <2>1. Listed(UnlinkEntry(l, e), S \ {e}) /\ e \in Entry
    BY UnlinkEntryListed DEF Listed
  <2>2. Listed(InsertFront(UnlinkEntry(l, e), e), (S \ {e}) \cup {e})
    BY <2>1, InsertFrontListed
  <2>3. (S \ {e}) \cup {e} = S
    OBVIOUS
  <2> QED BY <1>2, <2>2, <2>3 DEF MoveToFront
<1> QED BY <1>1, <1>2
-----------------------------------------------------------------------------
(* Induction, from the well-foundedness of < and of the strict subset      *)
(* relation: a set that a smallest number or subset outside of it would    *)
(* contradict has them all.                                                *)

(* A set with 0 and every successor of its elements has all numbers.       *)
LEMMA NatSetInduction ==
  ASSUME NEW T, 0 \in T, \A n \in Nat : n \in T => n + 1 \in T
  PROVE  Nat \subseteq T
<1> SUFFICES ASSUME Nat \ T # {} PROVE FALSE
  OBVIOUS
<1> DEFINE R == {ss \in Nat \X Nat : ss[1] < ss[2]}
<1>1. IsWellFoundedOn(R, Nat)
  BY NatLessThanWellFounded DEF OpToRel
<1>2. PICK x \in Nat \ T : \A y \in Nat \ T : ~(<<y, x>> \in R)
  <2> HIDE DEF R
  <2> QED BY <1>1, WFMin
<1>3. x # 0 /\ x - 1 \in Nat /\ <<x - 1, x>> \in R
  BY <1>2
<1>4. x - 1 \in T
  BY <1>2, <1>3
<1> QED BY <1>2, <1>3, <1>4

(* A set with {}, and with every non-empty subset of S that it has with    *)
(* any one element left out, has S itself.                                 *)
LEMMA FiniteSetInduction ==
  ASSUME NEW S, IsFiniteSet(S), NEW T, {} \in T,
         \A U \in SUBSET S : U # {} /\ (\A x \in U : U \ {x} \in T) => U \in T
  PROVE  S \in T
<1> SUFFICES ASSUME S \notin T PROVE FALSE
  OBVIOUS
<1> DEFINE B == (SUBSET S) \ T
<1>1. IsWellFoundedOn(StrictSubsetOrdering(S), SUBSET S)
  <2>1. IsWellFoundedOn(StrictSubsetOrdering(S), FiniteSubsetsOf(S))
    BY FS_StrictSubsetOrderingWellFounded
  <2>2. FiniteSubsetsOf(S) = SUBSET S
    BY FS_FiniteSubsetsOfFinite
  <2> QED BY <2>1, <2>2
<1>2. PICK U \in B : \A V \in B : ~(<<V, U>> \in StrictSubsetOrdering(S))
  <2>1. B # {} /\ B \subseteq SUBSET S
    OBVIOUS
  <2> HIDE DEF B
  <2> QED BY <1>1, <2>1, WFMin
<1>3. ASSUME NEW x \in U PROVE U \ {x} \in T
  <2>1. <<U \ {x}, U>> \in StrictSubsetOrdering(S)
    BY <1>2 DEF StrictSubsetOrdering
  <2> QED BY <1>2, <2>1
<1> QED BY <1>2, <1>3
-----------------------------------------------------------------------------
(* The list as a sequence.                                                 *)

(* s are the entries of l from the head to the tail.                       *)
IsOrder(l, s) ==
  /\ s \in Seq(Entry)
  /\ \A i, j \in 1..Len(s) : s[i] = s[j] => i = j
  /\ l.head = IF Len(s) = 0 THEN Nil ELSE s[1]
  /\ l.tail = IF Len(s) = 0 THEN Nil ELSE s[Len(s)]
  /\ \A i \in 1..Len(s) : l.next[s[i]] = IF i = Len(s) THEN Nil ELSE s[i + 1]
  /\ \A i \in 1..Len(s) : l.prev[s[i]] = IF i = 1 THEN Nil ELSE s[i - 1]

(* Following a pointer along a sequence that fits into Entry yields it.    *)
LEMMA ChainIs ==
  ASSUME NEW n \in Nat, n <= Cardinality(Entry),
         NEW s \in [1..n -> Entry], NEW link, NEW start,
         start = IF n = 0 THEN Nil ELSE s[1],
         \A i \in 1..n : link[s[i]] = IF i = n THEN Nil ELSE s[i+1]
  PROVE  Chain(start, link) = s
<1> USE NilAssumption, EntryAssumption
<1> DEFINE N == Cardinality(Entry)
           want == [i \in 1..N |-> IF i <= n THEN s[i] ELSE Nil]
           Def(g) == [i \in 1..N |-> IF i = 1 THEN start
                                     ELSE IF g[i-1] = Nil THEN Nil ELSE link[g[i-1]]]
<1>0. N \in Nat
  BY FS_CardinalityType
<1>1. want = Def(want)
  <2> SUFFICES ASSUME NEW i \in 1..N
               PROVE  want[i] = IF i = 1 THEN start
                                ELSE IF want[i-1] = Nil THEN Nil ELSE link[want[i-1]]
    OBVIOUS
  <2>1. CASE i = 1
    BY <1>0, <2>1
  <2>2. CASE i # 1
    <3>1. i - 1 \in 1..N
      BY <1>0, <2>2
    <3>2. CASE i - 1 <= n
      BY <1>0, <2>2, <3>1, <3>2
    <3>3. CASE ~(i - 1 <= n)
      BY <1>0, <2>2, <3>1, <3>3
    <3> QED BY <3>2, <3>3
  <2> QED BY <2>1, <2>2
<1>2. ASSUME NEW g, g = Def(g) PROVE g = want
  <2> DEFINE T == {i \in Nat : i + 1 \in 1..N => g[i+1] = want[i+1]}
  <2>1. 0 \in T
    BY <1>0, <1>1, <1>2
  <2>2. ASSUME NEW i \in Nat, i \in T PROVE i + 1 \in T
    <3> SUFFICES ASSUME i + 2 \in 1..N PROVE g[i+2] = want[i+2]
      OBVIOUS
    <3>1. i + 1 \in 1..N /\ g[i+1] = want[i+1] /\ i + 2 # 1 /\ (i + 2) - 1 = i + 1
      BY <1>0, <2>2
    <3>2. g[i+2] = IF g[i+1] = Nil THEN Nil ELSE link[g[i+1]]
      BY <1>2, <3>1
    <3>3. want[i+2] = IF want[i+1] = Nil THEN Nil ELSE link[want[i+1]]
      <4> HIDE DEF want
      <4> QED BY <1>1, <3>1
    <3> QED BY <3>1, <3>2, <3>3
  <2>3. Nat \subseteq T
    <3> HIDE DEF T
    <3> QED BY <2>1, <2>2, NatSetInduction
  <2>4. ASSUME NEW i \in 1..N PROVE g[i] = want[i]
    <3>1. i - 1 \in Nat /\ (i - 1) + 1 = i
      BY <1>0
    <3>2. i - 1 \in T
      <4> HIDE DEF T
      <4> QED BY <2>3, <3>1
    <3> QED BY <3>1, <3>2
  <2>5. g = [i \in 1..N |-> g[i]]
    BY <1>2
  <2> QED BY <2>4, <2>5
<1>3. (CHOOSE g : g = Def(g)) = want
  <2> HIDE DEF want, Def
  <2> QED BY <1>1, <1>2
<1>4. Cardinality({i \in 1..N : want[i] # Nil}) = n
  <2>1. {i \in 1..N : want[i] # Nil} = 1..n
    BY <1>0
  <2>2. Cardinality(1..n) = n
    BY FS_Interval
  <2> HIDE DEF want
  <2> QED BY <2>1, <2>2
<1>5. Chain(start, link) = [i \in 1..n |-> want[i]]
  <2> DEFINE walk == CHOOSE g : g = Def(g)
  <2>1. Chain(start, link) =
          [i \in 1..Cardinality({i \in 1..N : walk[i] # Nil}) |-> walk[i]]
    BY DEF Chain
  <2> HIDE DEF want, Def
  <2> QED BY <2>1, <1>3, <1>4
<1>6. [i \in 1..n |-> want[i]] = s
  BY <1>0
<1> QED BY <1>5, <1>6

(* No entry is twice in the order, so there are as many as it is long.     *)
LEMMA OrderFits ==
  ASSUME NEW l, NEW s, IsOrder(l, s)
  PROVE  /\ Len(s) \in Nat /\ Len(s) <= Cardinality(Entry)
         /\ ToSet(s) \subseteq Entry /\ Cardinality(ToSet(s)) = Len(s)
         /\ s \in [1..Len(s) -> Entry]
<1>1. Len(s) \in Nat /\ s \in [1..Len(s) -> Entry] /\ DOMAIN s = 1..Len(s)
  BY DEF IsOrder
<1>2. ToSet(s) \subseteq Entry /\ s \in [1..Len(s) -> ToSet(s)]
  BY <1>1 DEF ToSet
<1>3. s \in Bijection(1..Len(s), ToSet(s))
  BY <1>1, <1>2 DEF IsOrder, Bijection, Injection, Surjection, IsInjective, ToSet
<1>4. Cardinality(ToSet(s)) = Len(s)
  BY <1>1, <1>3, FS_CountingElements DEF ExistsBijection
<1>5. Cardinality(ToSet(s)) <= Cardinality(Entry)
  BY <1>2, EntryAssumption, FS_Subset
<1> QED BY <1>1, <1>2, <1>4, <1>5

(* Forward and Backward read the order off the pointers.                   *)
LEMMA OrderRead ==
  ASSUME NEW l, NEW s, IsOrder(l, s)
  PROVE  Forward(l) = s /\ Backward(l) = Reverse(s)
<1>1. Len(s) \in Nat /\ Len(s) <= Cardinality(Entry) /\ s \in [1..Len(s) -> Entry]
  BY OrderFits
<1>2. Forward(l) = s
  <2>1. /\ l.head = IF Len(s) = 0 THEN Nil ELSE s[1]
        /\ \A i \in 1..Len(s) : l.next[s[i]] = IF i = Len(s) THEN Nil ELSE s[i + 1]
    BY DEF IsOrder
  <2> QED BY <1>1, <2>1, ChainIs DEF Forward
<1> DEFINE r == Reverse(s)
<1>3. r = [i \in 1..Len(s) |-> s[(Len(s) - i) + 1]]
  BY DEF Reverse
<1>4. r \in [1..Len(s) -> Entry]
  BY <1>1, <1>3
<1>5. l.tail = IF Len(s) = 0 THEN Nil ELSE r[1]
  <2>1. Len(s) # 0 => r[1] = s[Len(s)]
    <3> Len(s) \in Nat
      BY <1>1
    <3>1. Len(s) # 0 => 1 \in 1..Len(s) /\ (Len(s) - 1) + 1 = Len(s)
      OBVIOUS
    <3> HIDE DEF r
    <3> QED BY <1>3, <3>1
  <2>2. l.tail = IF Len(s) = 0 THEN Nil ELSE s[Len(s)]
    BY DEF IsOrder
  <2> HIDE DEF r
  <2> QED BY <2>1, <2>2
<1>6. ASSUME NEW i \in 1..Len(s)
      PROVE  l.prev[r[i]] = IF i = Len(s) THEN Nil ELSE r[i + 1]
  <2> DEFINE j == (Len(s) - i) + 1
  <2>1. j \in 1..Len(s) /\ r[i] = s[j] /\ (j = 1 <=> i = Len(s))
        /\ (i # Len(s) => r[i + 1] = s[j - 1])
    <3>1. \A k \in 1..Len(s) : r[k] = s[(Len(s) - k) + 1]
      BY <1>3
    <3> Len(s) \in Nat
      BY <1>1
    <3>2. j \in 1..Len(s) /\ (j = 1 <=> i = Len(s))
      OBVIOUS
    <3>3. i # Len(s) => i + 1 \in 1..Len(s) /\ (Len(s) - (i + 1)) + 1 = j - 1
      OBVIOUS
    <3> HIDE DEF r
    <3> QED BY <3>1, <3>2, <3>3
  <2>2. l.prev[s[j]] = IF j = 1 THEN Nil ELSE s[j - 1]
    <3> HIDE DEF j
    <3> QED BY <2>1 DEF IsOrder
  <2> HIDE DEF j, r
  <2> QED BY <2>1, <2>2
<1>7. Backward(l) = r
  <2> HIDE DEF r
  <2> QED BY <1>1, <1>4, <1>5, <1>6, ChainIs DEF Backward
<1> QED BY <1>2, <1>7

(* A sequence with one more element in front.                              *)
LEMMA InFront ==
  ASSUME NEW s \in Seq(Entry), NEW e \in Entry
  PROVE  LET q == <<e>> \o s
         IN  /\ q \in Seq(Entry) /\ Len(q) = Len(s) + 1 /\ q[1] = e
             /\ \A i \in 1..Len(s) : q[i + 1] = s[i]
             /\ ToSet(q) = ToSet(s) \cup {e}
<1> DEFINE q == <<e>> \o s
<1>1. q \in Seq(Entry) /\ Len(q) = Len(s) + 1 /\ q[1] = e /\ Len(s) \in Nat
      /\ DOMAIN q = 1..Len(q) /\ DOMAIN s = 1..Len(s)
  OBVIOUS
<1>2. \A i \in 1..Len(s) : q[i + 1] = s[i]
  OBVIOUS
<1> HIDE DEF q
<1>3. ASSUME NEW i \in DOMAIN q PROVE q[i] \in ToSet(s) \cup {e}
  <2>1. CASE i = 1
    BY <1>1, <2>1
  <2>2. CASE i # 1
    <3>1. i - 1 \in 1..Len(s) /\ (i - 1) + 1 = i
      BY <1>1, <2>2
    <3> QED BY <1>1, <1>2, <3>1 DEF ToSet
  <2> QED BY <2>1, <2>2
<1>4. ASSUME NEW i \in DOMAIN s PROVE s[i] \in ToSet(q)
  <2>1. i + 1 \in DOMAIN q
    BY <1>1
  <2> QED BY <1>1, <1>2, <2>1 DEF ToSet
<1>5. e \in ToSet(q)
  <2>1. 1 \in DOMAIN q
    BY <1>1
  <2> QED BY <1>1, <2>1 DEF ToSet
<1>6. ToSet(q) = ToSet(s) \cup {e}
  BY <1>3, <1>4, <1>5 DEF ToSet
<1> QED BY <1>1, <1>2, <1>6 DEF q

(* A sequence without the element at one place.                            *)
LEMMA WithoutPlace ==
  ASSUME NEW s \in Seq(Entry), NEW k \in 1..Len(s)
  PROVE  LET q == RemoveAt(s, k)
         IN  /\ q \in Seq(Entry) /\ Len(q) = Len(s) - 1
             /\ \A i \in 1..(Len(s) - 1) : q[i] = IF i < k THEN s[i] ELSE s[i + 1]
             /\ (\A i, j \in 1..Len(s) : s[i] = s[j] => i = j)
                => ToSet(q) = ToSet(s) \ {s[k]}
<1> DEFINE q == RemoveAt(s, k)
           a == SubSeq(s, 1, k - 1)
           b == SubSeq(s, k + 1, Len(s))
<1>1. q = a \o b
  BY DEF RemoveAt
<1>2. a \in Seq(Entry) /\ Len(a) = k - 1 /\ \A i \in 1..(k - 1) : a[i] = s[i]
  OBVIOUS
<1>3. b \in Seq(Entry) /\ Len(b) = Len(s) - k
      /\ \A i \in 1..(Len(s) - k) : b[i] = s[i + k]
  OBVIOUS
<1> HIDE DEF a, b, q
<1>4. q \in Seq(Entry) /\ Len(q) = Len(s) - 1 /\ Len(s) \in Nat
      /\ DOMAIN q = 1..(Len(s) - 1) /\ DOMAIN s = 1..Len(s)
  BY <1>1, <1>2, <1>3
<1>5. ASSUME NEW i \in 1..(Len(s) - 1)
      PROVE  q[i] = IF i < k THEN s[i] ELSE s[i + 1]
  <2>1. q[i] = IF i <= Len(a) THEN a[i] ELSE b[i - Len(a)]
    BY <1>1, <1>2, <1>3
  <2>2. CASE i < k
    BY <1>2, <2>1, <2>2
  <2>3. CASE ~(i < k)
    <3>1. i - (k - 1) \in 1..(Len(s) - k) /\ (i - (k - 1)) + k = i + 1 /\ ~(i <= k - 1)
      BY <2>3
    <3> QED BY <1>2, <1>3, <2>1, <2>3, <3>1
  <2> QED BY <2>2, <2>3
<1>6. ASSUME \A i, j \in 1..Len(s) : s[i] = s[j] => i = j
      PROVE  ToSet(q) = ToSet(s) \ {s[k]}
  <2>1. ASSUME NEW i \in DOMAIN q PROVE q[i] \in ToSet(s) \ {s[k]}
    <3>1. CASE i < k
      BY <1>4, <1>5, <1>6, <3>1 DEF ToSet
    <3>2. CASE ~(i < k)
      <4>1. i + 1 \in 1..Len(s) /\ i + 1 # k
        BY <1>4, <3>2
      <4> QED BY <1>4, <1>5, <1>6, <3>2, <4>1 DEF ToSet
    <3> QED BY <3>1, <3>2
  <2>2. ASSUME NEW i \in DOMAIN s, i # k PROVE s[i] \in ToSet(q)
    <3>1. CASE i < k
      BY <1>4, <1>5, <3>1 DEF ToSet
    <3>2. CASE ~(i < k)
      <4>1. i - 1 \in 1..(Len(s) - 1) /\ ~(i - 1 < k) /\ (i - 1) + 1 = i
        BY <1>4, <2>2, <3>2
      <4> QED BY <1>4, <1>5, <4>1 DEF ToSet
    <3> QED BY <3>1, <3>2
  <2> QED BY <2>1, <2>2 DEF ToSet
<1> QED BY <1>4, <1>5, <1>6 DEF q

(* insertFront puts an entry in front of the order.                        *)
LEMMA InsertFrontOrder ==
  ASSUME NEW l \in List, NEW s, IsOrder(l, s), NEW e \in Entry, e \notin ToSet(s)
  PROVE  IsOrder(InsertFront(l, e), <<e>> \o s)
<1> DEFINE q == <<e>> \o s
           m == InsertFront(l, e)
           n == Len(s)
<1>1. /\ n \in Nat /\ q \in Seq(Entry) /\ Len(q) = n + 1 /\ q[1] = e
      /\ \A i \in 1..n : q[i + 1] = s[i]
      /\ \A i \in 1..n : s[i] \in Entry \ {e}
  BY InFront DEF IsOrder, ToSet
<1>2. \A i \in 2..(n + 1) : i - 1 \in 1..n /\ q[i] = s[i - 1]
  BY <1>1
<1>3. /\ m.head = e
      /\ m.tail = IF l.tail = Nil THEN e ELSE l.tail
      /\ m.next[e] = l.head
      /\ \A x \in Entry \ {e} : m.next[x] = l.next[x]
      /\ \A x \in Entry : m.prev[x] = IF x = l.head THEN e
                                      ELSE IF x = e THEN Nil ELSE l.prev[x]
  BY DEF InsertFront, List
<1> HIDE DEF q, m
<1>4. \A i, j \in 1..(n + 1) : q[i] = q[j] => i = j
  <2> SUFFICES ASSUME NEW i \in 1..(n + 1), NEW j \in 1..(n + 1), q[i] = q[j]
               PROVE  i = j
    OBVIOUS
  <2>1. CASE i = 1 \/ j = 1
    <3>1. \A k \in 1..(n + 1) : k # 1 => k - 1 \in 1..n /\ q[k] = s[k - 1]
      BY <1>1, <1>2
    <3>2. \A k \in 1..(n + 1) : k # 1 => q[k] # q[1]
      BY ONLY <1>1, <3>1
    <3> QED BY <2>1, <3>2
  <2>2. CASE i # 1 /\ j # 1
    <3>1. i \in 2..(n + 1) /\ j \in 2..(n + 1)
      BY <1>1, <2>2
    <3>2. s[i - 1] = s[j - 1] /\ i - 1 \in 1..n /\ j - 1 \in 1..n
      BY <1>2, <3>1
    <3>3. i - 1 = j - 1
      BY <3>2 DEF IsOrder
    <3> QED BY <1>1, <3>3
  <2> QED BY <2>1, <2>2
<1>5. m.tail = q[n + 1]
  <2>1. CASE n = 0
    BY <1>1, <1>3, <2>1 DEF IsOrder
  <2>2. CASE n # 0
    <3>1. n \in 1..n /\ s[n] \in Entry /\ l.tail = s[n] /\ q[n + 1] = s[n]
      BY <1>1, <2>2 DEF IsOrder
    <3> QED BY <1>3, <3>1, NilAssumption
  <2> QED BY <2>1, <2>2
<1>6. ASSUME NEW i \in 1..(n + 1)
      PROVE  m.next[q[i]] = IF i = n + 1 THEN Nil ELSE q[i + 1]
  <2>1. CASE i = 1
    <3>1. m.next[q[i]] = l.head
      BY <1>1, <1>3, <2>1
    <3>2. n # 0 => 1 \in 1..n /\ q[1 + 1] = s[1]
      BY <1>1
    <3> QED BY <1>1, <2>1, <3>1, <3>2 DEF IsOrder
  <2>2. CASE i # 1
    <3>1. i - 1 \in 1..n /\ q[i] = s[i - 1] /\ (i - 1) + 1 = i
          /\ (i # n + 1 => i \in 1..n)
      BY <1>1, <1>2, <2>2
    <3>2. m.next[q[i]] = l.next[s[i - 1]]
      BY <1>1, <1>3, <3>1
    <3>3. l.next[s[i - 1]] = IF i - 1 = n THEN Nil ELSE s[(i - 1) + 1]
      BY <3>1 DEF IsOrder
    <3> QED BY <1>1, <3>1, <3>2, <3>3
  <2> QED BY <2>1, <2>2
<1>7. ASSUME NEW i \in 1..(n + 1)
      PROVE  m.prev[q[i]] = IF i = 1 THEN Nil ELSE q[i - 1]
  <2>1. CASE i = 1
    <3>1. e # l.head
      BY <1>1, NilAssumption DEF IsOrder
    <3> QED BY <1>1, <1>3, <2>1, <3>1
  <2>2. CASE i # 1
    <3>1. i - 1 \in 1..n /\ q[i] = s[i - 1] /\ s[i - 1] \in Entry \ {e} /\ n # 0
          /\ (i - 1 # 1 => q[i - 1] = s[(i - 1) - 1])
          /\ (i - 1 = 1 => q[i - 1] = e)
      BY <1>1, <1>2, <2>2
    <3>2. s[i - 1] = l.head <=> i - 1 = 1
      BY <1>1, <3>1 DEF IsOrder
    <3>3. l.prev[s[i - 1]] = IF i - 1 = 1 THEN Nil ELSE s[(i - 1) - 1]
      BY <3>1 DEF IsOrder
    <3> QED BY <1>3, <2>2, <3>1, <3>2, <3>3
  <2> QED BY <2>1, <2>2
<1>8. m.head = q[1]
  BY <1>1, <1>3
<1>9. IsOrder(m, q)
  BY <1>1, <1>4, <1>5, <1>6, <1>7, <1>8 DEF IsOrder
<1> QED BY <1>9 DEF m, q

(* unlinkEntry takes an entry out of the order.                            *)
LEMMA UnlinkEntryOrder ==
  ASSUME NEW l \in List, NEW s, IsOrder(l, s), NEW k \in 1..Len(s)
  PROVE  IsOrder(UnlinkEntry(l, s[k]), RemoveAt(s, k))
<1> DEFINE q == RemoveAt(s, k)
           m == UnlinkEntry(l, s[k])
           n == Len(s)
           up(i) == IF i < k THEN i ELSE i + 1
           before == IF k = 1 THEN Nil ELSE s[k - 1]
           after == IF k = n THEN Nil ELSE s[k + 1]
<1>1. /\ n \in Nat \ {0} /\ n = Len(s) /\ s[k] \in Entry
      /\ q \in Seq(Entry) /\ Len(q) = n - 1
      /\ \A i \in 1..(n - 1) : q[i] = s[up(i)]
      /\ \A i \in 1..n : s[i] \in Entry
  <2>1. n \in Nat \ {0} /\ s \in Seq(Entry)
    BY DEF IsOrder
  <2>2. /\ q \in Seq(Entry) /\ Len(q) = n - 1
        /\ \A i \in 1..(n - 1) : q[i] = IF i < k THEN s[i] ELSE s[i + 1]
    BY <2>1, WithoutPlace
  <2> HIDE DEF q
  <2> QED BY <2>1, <2>2
<1>2. l.prev[s[k]] = before /\ l.next[s[k]] = after
  BY <1>1 DEF IsOrder
<1>3. /\ m.head = IF s[k] = l.head THEN after ELSE l.head
      /\ m.tail = IF s[k] = l.tail THEN before ELSE l.tail
      /\ \A x \in Entry : m.next[x] = IF x = before THEN after ELSE l.next[x]
      /\ \A x \in Entry : m.prev[x] = IF x = after THEN before ELSE l.prev[x]
  BY <1>2 DEF UnlinkEntry
<1>4. \A i \in 1..(n - 1) : up(i) \in 1..n /\ up(i) # k
  BY <1>1
<1>5. \A i, j \in 1..n : s[i] = s[j] => i = j
  BY <1>1 DEF IsOrder
<1>6. ASSUME NEW i \in 1..n
      PROVE  (s[i] = before <=> i = k - 1) /\ (s[i] = after <=> i = k + 1)
  <2>1. CASE k = 1
    BY <1>1, <1>5, <2>1, NilAssumption
  <2>2. CASE k # 1
    <3>1. k - 1 \in 1..n
      BY <1>1, <2>2
    <3> QED BY <1>1, <1>5, <2>2, <3>1, NilAssumption
  <2> QED BY <2>1, <2>2
<1>7. ASSUME NEW i \in 1..n
      PROVE  /\ l.next[s[i]] = IF i = n THEN Nil ELSE s[i + 1]
             /\ l.prev[s[i]] = IF i = 1 THEN Nil ELSE s[i - 1]
  BY <1>1 DEF IsOrder
<1> HIDE DEF q, m, n
<1>8. \A i, j \in 1..(n - 1) : q[i] = q[j] => i = j
  <2> SUFFICES ASSUME NEW i \in 1..(n - 1), NEW j \in 1..(n - 1), q[i] = q[j] PROVE i = j
    OBVIOUS
  <2>1. up(i) = up(j)
    BY <1>1, <1>4, <1>5
  <2> QED BY <1>1, <2>1
<1>9. m.head = IF n = 1 THEN Nil ELSE q[1]
  <2>1. l.head = s[1] /\ 1 \in 1..n
    BY <1>1 DEF IsOrder
  <2>2. CASE k = 1
    BY <1>1, <1>3, <2>1, <2>2
  <2>3. CASE k # 1
    <3>1. s[k] # s[1] /\ n # 1 /\ up(1) = 1 /\ 1 \in 1..(n - 1)
      BY <1>1, <1>5, <2>1, <2>3
    <3> QED BY <1>1, <1>3, <2>1, <3>1
  <2> QED BY <2>2, <2>3
<1>10. m.tail = IF n = 1 THEN Nil ELSE q[n - 1]
  <2>1. l.tail = s[n] /\ n \in 1..n
    BY <1>1 DEF IsOrder
  <2>2. CASE k = n
    BY <1>1, <1>3, <2>1, <2>2
  <2>3. CASE k # n
    <3>1. s[k] # s[n] /\ n # 1 /\ up(n - 1) = n /\ n - 1 \in 1..(n - 1)
      BY <1>1, <1>5, <2>1, <2>3
    <3> QED BY <1>1, <1>3, <2>1, <3>1
  <2> QED BY <2>2, <2>3
<1>11. ASSUME NEW i \in 1..(n - 1)
       PROVE  m.next[q[i]] = IF i = n - 1 THEN Nil ELSE q[i + 1]
  <2>1. up(i) \in 1..n /\ q[i] = s[up(i)]
        /\ (i # n - 1 => q[i + 1] = s[up(i + 1)])
    BY <1>1, <1>4
  <2>2. ASSUME NEW j \in 1..n
        PROVE  m.next[s[j]] = IF j = k - 1 THEN after
                              ELSE IF j = n THEN Nil ELSE s[j + 1]
    <3>1. s[j] \in Entry
      BY <1>1
    <3> HIDE DEF before, after
    <3> QED BY <1>3, <1>6, <1>7, <3>1
  <2> QED BY <1>1, <2>1, <2>2
<1>12. ASSUME NEW i \in 1..(n - 1)
       PROVE  m.prev[q[i]] = IF i = 1 THEN Nil ELSE q[i - 1]
  <2>1. up(i) \in 1..n /\ q[i] = s[up(i)]
        /\ (i # 1 => q[i - 1] = s[up(i - 1)])
    BY <1>1, <1>4
  <2>2. ASSUME NEW j \in 1..n
        PROVE  m.prev[s[j]] = IF j = k + 1 THEN before
                              ELSE IF j = 1 THEN Nil ELSE s[j - 1]
    <3>1. s[j] \in Entry
      BY <1>1
    <3> HIDE DEF before, after
    <3> QED BY <1>3, <1>6, <1>7, <3>1
  <2> QED BY <1>1, <2>1, <2>2
<1>13. IsOrder(m, q)
  BY <1>1, <1>8, <1>9, <1>10, <1>11, <1>12 DEF IsOrder
<1> QED BY <1>13 DEF m, q

(* A finite set has an element on which r is largest.                      *)
LEMMA LargestExists ==
  ASSUME NEW S, IsFiniteSet(S), S # {}, NEW r, \A x \in S : r[x] \in Int
  PROVE  \E m \in S : \A x \in S : r[x] <= r[m]
<1> DEFINE T == {U \in SUBSET S : U = {} \/ \E m \in U : \A x \in U : r[x] <= r[m]}
<1>1. {} \in T
  OBVIOUS
<1>2. ASSUME NEW U \in SUBSET S, U # {}, \A x \in U : U \ {x} \in T PROVE U \in T
  <2>0. PICK y \in U : U \ {y} \in T
    BY <1>2
  <2>1. CASE U = {y}
    BY <2>1
  <2>2. CASE U # {y}
    <3>1. PICK m \in U \ {y} : \A x \in U \ {y} : r[x] <= r[m]
      BY <2>0, <2>2
    <3>2. CASE r[y] <= r[m]
      BY <3>1, <3>2
    <3>3. CASE ~(r[y] <= r[m])
      BY <3>1, <3>3
    <3> QED BY <3>2, <3>3
  <2> QED BY <2>1, <2>2
<1>3. S \in T
  <2>1. \A U \in SUBSET S : U # {} /\ (\A x \in U : U \ {x} \in T) => U \in T
    BY <1>2
  <2> HIDE DEF T
  <2> QED BY <1>1, <2>1, FiniteSetInduction
<1> QED BY <1>3

(* A list of some entries has a first one: not every entry has another in  *)
(* front of it.                                                            *)
LEMMA HeadExists ==
  ASSUME NEW l, NEW S, Listed(l, S), S # {}
  PROVE  l.head \in S
<1>1. l \in List /\ S \subseteq Entry /\ WellLinked(l, S) /\ Nil \notin Entry
  BY NilAssumption DEF Listed
<1>2. PICK r \in [Entry -> Int] :
        \A x \in S : l.next[x] # Nil => r[x] < r[l.next[x]]
  BY DEF Listed, Acyclic
<1>3. IsFiniteSet(S) /\ \A x \in S : r[x] \in Int
  BY <1>1, EntryAssumption, FS_Subset
<1>4. PICK m \in S : \A x \in S : r[x] <= r[m]
  BY <1>3, LargestExists
<1>5. l.next[m] = Nil
  BY <1>1, <1>2, <1>3, <1>4 DEF WellLinked, Links
<1> QED BY <1>1, <1>5 DEF WellLinked, Ends, Links

(* Taking the first entry out and putting it in front again changes        *)
(* nothing: moveToFront is right to return early.                          *)
LEMMA HeadAgain ==
  ASSUME NEW l, NEW S, Listed(l, S), l.head \in S
  PROVE  InsertFront(UnlinkEntry(l, l.head), l.head) = l
<1> DEFINE h == l.head
           u == UnlinkEntry(l, h)
           m == InsertFront(u, h)
<1>1. l \in List /\ S \subseteq Entry /\ WellLinked(l, S) /\ Nil \notin Entry
  BY NilAssumption DEF Listed
<1>2. l.prev[h] = Nil /\ l.next[h] # h /\ h # Nil /\ h \in Entry
  BY <1>1, NoSelfLink DEF WellLinked, Ends
<1>3. l = [head |-> l.head, tail |-> l.tail, next |-> l.next, prev |-> l.prev]
      /\ l.next \in [Entry -> Pointer] /\ l.prev \in [Entry -> Pointer]
  BY <1>1 DEF List
<1>4. u.next = l.next
  BY <1>1, <1>2, <1>3 DEF UnlinkEntry
<1>5. /\ u.head = l.next[h]
      /\ u.tail = IF h = l.tail THEN Nil ELSE l.tail
      /\ \A x \in Entry : u.prev[x] = IF x = l.next[h] THEN Nil ELSE l.prev[x]
  <2>1. /\ u.head = IF h = l.head THEN l.next[h] ELSE l.head
        /\ u.tail = IF h = l.tail THEN l.prev[h] ELSE l.tail
        /\ u.prev = [x \in Entry |-> IF x = l.next[h] THEN l.prev[h] ELSE l.prev[x]]
    BY DEF UnlinkEntry
  <2> HIDE DEF u
  <2> QED BY <1>2, <2>1
<1>6. m.next = l.next
  BY <1>2, <1>3, <1>4, <1>5 DEF InsertFront
<1>7. l.tail \in S
  BY <1>1, <1>2 DEF WellLinked, Ends
<1>8. m.tail = l.tail /\ m.head = l.head
  <2>1. m.head = h /\ m.tail = IF u.tail = Nil THEN h ELSE u.tail
    BY DEF InsertFront
  <2> HIDE DEF u, m
  <2> QED BY <1>1, <1>5, <1>7, <2>1
<1>9. m.prev = l.prev
  <2>1. m.prev = [x \in Entry |-> IF x = u.head THEN h
                                  ELSE IF x = h THEN Nil ELSE u.prev[x]]
    BY DEF InsertFront
  <2>2. l.next[h] # Nil => l.prev[l.next[h]] = h
    BY <1>1 DEF WellLinked, Links
  <2>3. ASSUME NEW x \in Entry
        PROVE  (IF x = u.head THEN h ELSE IF x = h THEN Nil ELSE u.prev[x]) = l.prev[x]
    <3> HIDE DEF u
    <3> QED BY <1>1, <1>2, <1>5, <2>2
  <2> HIDE DEF u, m
  <2> QED BY <1>3, <2>1, <2>3
<1>10. m = [head |-> m.head, tail |-> m.tail, next |-> m.next, prev |-> m.prev]
  BY DEF InsertFront
<1> HIDE DEF m
<1>11. m = l
  BY <1>3, <1>6, <1>8, <1>9, <1>10
<1> QED BY <1>11 DEF m

(* Every correctly linked list is a sequence of its entries.               *)
LEMMA OrderExists ==
  ASSUME NEW l, NEW S, Listed(l, S)
  PROVE  \E s : IsOrder(l, s) /\ ToSet(s) = S
<1> DEFINE Has(k, U) == \E s : IsOrder(k, s) /\ ToSet(s) = U
           T == {U \in SUBSET S : \A k \in List : Listed(k, U) => Has(k, U)}
<1>1. IsFiniteSet(S) /\ S \subseteq Entry /\ l \in List
  BY EntryAssumption, FS_Subset DEF Listed
<1>2. {} \in T
  <2> SUFFICES ASSUME NEW k \in List, Listed(k, {}) PROVE Has(k, {})
    OBVIOUS
  <2>1. k.head = Nil /\ k.tail = Nil
    BY DEF Listed, WellLinked, Ends
  <2>2. << >> \in Seq(Entry) /\ Len(<< >>) = 0 /\ ToSet(<< >>) = {}
    BY DEF ToSet
  <2>3. IsOrder(k, << >>)
    BY <2>1, <2>2 DEF IsOrder
  <2> QED BY <2>2, <2>3
<1>3. ASSUME NEW U \in SUBSET S, U # {}, \A x \in U : U \ {x} \in T PROVE U \in T
  <2> SUFFICES ASSUME NEW k \in List, Listed(k, U) PROVE Has(k, U)
    OBVIOUS
  <2> DEFINE h == k.head
             u == UnlinkEntry(k, h)
  <2>1. h \in U /\ h \in Entry /\ Listed(u, U \ {h}) /\ u \in List
        /\ k = InsertFront(u, h)
    BY <1>1, <1>3, HeadExists, HeadAgain, UnlinkEntryListed DEF Listed
  <2>2. PICK s : IsOrder(u, s) /\ ToSet(s) = U \ {h}
    BY <1>3, <2>1
  <2> HIDE DEF u, h
  <2>3. IsOrder(k, <<h>> \o s)
    BY <2>1, <2>2, InsertFrontOrder
  <2>4. ToSet(<<h>> \o s) = (U \ {h}) \cup {h}
    BY <2>1, <2>2, InFront DEF IsOrder
  <2>5. (U \ {h}) \cup {h} = U
    BY <2>1
  <2> QED BY <2>3, <2>4, <2>5
<1>4. S \in T
  <2>1. \A U \in SUBSET S : U # {} /\ (\A x \in U : U \ {x} \in T) => U \in T
    BY <1>3
  <2> HIDE DEF T
  <2> QED BY <1>1, <1>2, <2>1, FiniteSetInduction
<1> QED BY <1>1, <1>4

(* What Forward and Backward yield for a correctly linked list.            *)
LEMMA ListedForward ==
  ASSUME NEW l, NEW S, Listed(l, S)
  PROVE  /\ IsOrder(l, Forward(l)) /\ ToSet(Forward(l)) = S
         /\ Len(Forward(l)) = Cardinality(S)
         /\ Backward(l) = Reverse(Forward(l))
<1>1. PICK s : IsOrder(l, s) /\ ToSet(s) = S
  BY OrderExists
<1> QED BY <1>1, OrderFits, OrderRead

(* The entries at the places of a list, and the place of each entry.       *)
LEMMA ListedPlaces ==
  ASSUME NEW l, NEW S, Listed(l, S)
  PROVE  LET s == Forward(l)
         IN  /\ s \in Seq(Entry) /\ DOMAIN s = 1..Len(s) /\ Len(s) \in Nat
             /\ \A i \in 1..Len(s) : s[i] \in S
             /\ \A i, j \in 1..Len(s) : s[i] = s[j] => i = j
             /\ \A e \in S : \E i \in 1..Len(s) : s[i] = e
<1> DEFINE s == Forward(l)
<1>1. s \in Seq(Entry) /\ ToSet(s) = S /\ \A i, j \in 1..Len(s) : s[i] = s[j] => i = j
  BY ListedForward DEF IsOrder
<1> HIDE DEF s
<1>2. DOMAIN s = 1..Len(s) /\ Len(s) \in Nat
  BY <1>1
<1>3. (\A i \in 1..Len(s) : s[i] \in S) /\ \A e \in S : \E i \in 1..Len(s) : s[i] = e
  BY <1>1, <1>2 DEF ToSet
<1> QED BY <1>1, <1>2, <1>3 DEF s

(* A new entry is in front of the order.                                   *)
LEMMA ForwardInsert ==
  ASSUME NEW l, NEW S, Listed(l, S), NEW e \in Entry \ S
  PROVE  Forward(InsertFront(l, e)) = <<e>> \o Forward(l)
<1>1. IsOrder(l, Forward(l)) /\ ToSet(Forward(l)) = S /\ l \in List
  BY ListedForward DEF Listed
<1>2. IsOrder(InsertFront(l, e), <<e>> \o Forward(l))
  BY <1>1, InsertFrontOrder
<1> QED BY <1>2, OrderRead

(* An entry taken out is missing from the order.                           *)
LEMMA ForwardUnlink ==
  ASSUME NEW l, NEW S, Listed(l, S), NEW k \in 1..Len(Forward(l))
  PROVE  Forward(UnlinkEntry(l, Forward(l)[k])) = RemoveAt(Forward(l), k)
<1>1. IsOrder(l, Forward(l)) /\ l \in List
  BY ListedForward DEF Listed
<1>2. IsOrder(UnlinkEntry(l, Forward(l)[k]), RemoveAt(Forward(l), k))
  BY <1>1, UnlinkEntryOrder
<1> QED BY <1>2, OrderRead

(* An entry that is used is in front of the order without it.              *)
LEMMA ForwardUse ==
  ASSUME NEW l, NEW S, Listed(l, S), NEW k \in 1..Len(Forward(l)), NEW m,
         LET e == Forward(l)[k]
         IN  m = MoveToFront(l, e) \/ m = InsertFront(UnlinkEntry(l, e), e)
  PROVE  Forward(m) = <<Forward(l)[k]>> \o RemoveAt(Forward(l), k)
<1> DEFINE e == Forward(l)[k]
           u == UnlinkEntry(l, e)
<1>1. e \in S
  BY ListedPlaces
<1>2. Listed(u, S \ {e}) /\ e \in Entry
  BY <1>1, UnlinkEntryListed DEF Listed
<1>3. Forward(InsertFront(u, e)) = <<e>> \o Forward(u)
  <2> HIDE DEF u, e
  <2> QED BY <1>2, ForwardInsert
<1>4. Forward(u) = RemoveAt(Forward(l), k)
  BY ForwardUnlink
<1>5. m = InsertFront(u, e)
  <2>1. CASE m = MoveToFront(l, e) /\ e = l.head
    BY <1>1, <2>1, HeadAgain DEF MoveToFront
  <2>2. CASE m = MoveToFront(l, e) /\ e # l.head
    BY <2>2 DEF MoveToFront
  <2> QED BY <2>1, <2>2
<1> QED BY <1>3, <1>4, <1>5
-----------------------------------------------------------------------------

(* The types that need no counting.                                        *)
Typed ==
  /\ mutex \in Thread \cup {NoThread}
  /\ entries \in [Key -> Pointer]
  /\ usedmemory \in Int
  /\ list \in List
  /\ ekey \in [Entry -> Key \cup {NoKey}]
  /\ value \in [Entry -> Key \cup {NoValue}]
  /\ expiration \in [Entry -> Int]
  /\ size \in [Entry -> Nat]
  /\ waitingForComputation \in [Entry -> Int]
  /\ pc \in [Thread -> Location]
  /\ call \in [Thread -> [op : Op, key : Key] \cup {NoCall}]
  /\ now \in [Thread -> Nat]
  /\ at \in [Thread -> Pointer]
  /\ ret \in [Thread -> Key \cup {NoValue}]
  /\ scan \in [todo : SUBSET Key, size : Nat]
  /\ failure \in Failure
  /\ clock \in Nat
  /\ calls \in [Thread -> Nat]

(* What the locals of a goroutine hold at each location.                   *)
LocalsOK ==
  \A t \in Thread :
    /\ pc[t] # "idle" => call[t] \in [op : Op, key : Key]
    /\ pc[t] \in {"waiting", "woken", "computing", "returning"} => at[t] \in Entry
    /\ pc[t] = "scanning" => call[t].op = "keys"

(* The mutex is kept exactly in the loops of Get and Keys, and the keys    *)
(* that Keys has still to visit are in the map.                            *)
Exclusion ==
  /\ \A t \in Thread : pc[t] \in {"evicting", "scanning"} <=> mutex = t
  /\ \A t \in Thread, k \in Key :
       pc[t] = "scanning" /\ k \in scan.todo => entries[k] # Nil

TypeInv == Typed /\ LocalsOK /\ Exclusion

USE NilAssumption, KeyAssumption, ThreadAssumption, NumberAssumption

(* The entry that Get or Put creates has not been in use before.           *)
LEMMA NewEntryFree ==
  ASSUME Unallocated # {}
  PROVE  NewEntry \in Entry /\ ekey[NewEntry] = NoKey
BY DEF NewEntry, Unallocated

(* An empty cache, and goroutines that have not called anything.           *)
LEMMA InitTyped == Init => TypeInv
<1> SUFFICES ASSUME Init PROVE TypeInv
  OBVIOUS
<1>1. EmptyList \in List
  BY EmptyListed DEF Listed
<1>2. Typed
  BY <1>1 DEF Init, Typed, Pointer, Location, NoCall, NoScan, Failure
<1>3. LocalsOK
  BY DEF Init, LocalsOK
<1>4. Exclusion
  BY DEF Init, Exclusion
<1> QED BY <1>2, <1>3, <1>4 DEF TypeInv

(* A goroutine that is in a critical section of its own. *)
Enters(t) ==
  /\ pc[t] \in {"locking", "woken", "computing"}
  /\ mutex = NoThread
  /\ UNCHANGED <<mutex, scan, failure, boundVars>>

(* Whoever takes the mutex finds it free of loops. *)
LEMMA NobodyLoops ==
  ASSUME TypeInv, mutex = NoThread
  PROVE  \A t \in Thread : pc[t] \notin {"evicting", "scanning"}
BY DEF TypeInv, Exclusion

(* evictEntry keeps the types of the cache. *)
LEMMA EvictedTyped ==
  ASSUME TypeInv, NEW e \in Entry, Evicted(e), NEW k,
         entries' = [entries EXCEPT ![k] = Nil]
  PROVE  entries' \in [Key -> Pointer] /\ usedmemory' \in Int /\ list' \in List
<1>1. entries' \in [Key -> Pointer]
  BY DEF TypeInv, Typed, Pointer
<1>2. usedmemory' \in Int
  BY DEF TypeInv, Typed, Evicted
<1>3. list' \in List
  BY UnlinkEntryType DEF TypeInv, Typed, Evicted
<1> QED BY <1>1, <1>2, <1>3

(* The helpers that end a critical section keep the types. *)
LEMMA WaitForTyped ==
  ASSUME TypeInv, NEW t \in Thread, Enters(t), NEW e \in Entry,
         NEW wait \in [Entry -> Int], WaitFor(t, e, wait)
  PROVE  TypeInv'
<1>1. Typed'
  BY DEF TypeInv, Typed, Enters, WaitFor, Location, Pointer, cacheVars, boundVars
<1>2. LocalsOK'
  BY DEF TypeInv, Typed, LocalsOK, Enters, WaitFor
<1>3. Exclusion'
  BY NobodyLoops DEF TypeInv, Typed, Exclusion, Enters, WaitFor, cacheVars
<1> QED BY <1>1, <1>2, <1>3 DEF TypeInv

(* Get finds no entry and starts its computation.                          *)
LEMMA MissTyped ==
  ASSUME TypeInv, NEW t \in Thread, Enters(t), NEW wait \in [Entry -> Int],
         NEW ents \in [Key -> Pointer], Miss(t, ents, wait),
         list' \in List, usedmemory' \in Int
  PROVE  TypeInv'
<1>1. CASE StartComputation(t, ents, wait)
  <2>1. NewEntry \in Entry
    BY <1>1, NewEntryFree DEF StartComputation
  <2>2. KeyOf(t) \in Key
    BY DEF TypeInv, LocalsOK, Enters, KeyOf
  <2>3. Typed'
    BY <1>1, <2>1, <2>2
    DEF TypeInv, Typed, Enters, StartComputation, Location, Pointer, boundVars
  <2>4. LocalsOK'
    BY <1>1, <2>1 DEF TypeInv, Typed, LocalsOK, Enters, StartComputation
  <2>5. Exclusion'
    BY <1>1, NobodyLoops DEF TypeInv, Typed, Exclusion, Enters, StartComputation
  <2> QED BY <2>3, <2>4, <2>5 DEF TypeInv
<1>2. CASE Return(t, NoValue) /\ entries' = ents /\ waitingForComputation' = wait
           /\ UNCHANGED <<ekey, value, expiration, size>>
  <2>1. Typed'
    BY <1>2 DEF TypeInv, Typed, Enters, Return, Location, Pointer, boundVars
  <2>2. LocalsOK'
    BY <1>2 DEF TypeInv, Typed, LocalsOK, Enters, Return
  <2>3. Exclusion'
    BY <1>2, NobodyLoops DEF TypeInv, Typed, Exclusion, Enters, Return
  <2> QED BY <2>1, <2>2, <2>3 DEF TypeInv
<1> QED BY <1>1, <1>2 DEF Miss

(* Get finds a computed entry: a hit, or one that has expired.             *)
LEMMA GetComputedTyped ==
  ASSUME TypeInv, NEW t \in Thread, Enters(t), NEW e \in Entry,
         NEW wait \in [Entry -> Int], GetComputed(t, e, wait)
  PROVE  TypeInv'
<1>1. CASE GetFresh(t, e, wait)
  <2>1. list' \in List
    BY <1>1, InsertFrontType, UnlinkEntryType
    DEF TypeInv, Typed, GetFresh, MoveToFront
  <2>2. Typed'
    BY <1>1, <2>1 DEF TypeInv, Typed, Enters, GetFresh, UnlockThenRead,
                      Location, Pointer, boundVars
  <2>3. LocalsOK'
    BY <1>1 DEF TypeInv, Typed, LocalsOK, Enters, GetFresh, UnlockThenRead
  <2>4. Exclusion'
    BY <1>1, NobodyLoops
    DEF TypeInv, Typed, Exclusion, Enters, GetFresh, UnlockThenRead
  <2> QED BY <2>2, <2>3, <2>4 DEF TypeInv
<1>2. CASE GetStale(t, e, wait)
  <2>1. Typed'
    BY <1>2 DEF TypeInv, Typed, Enters, GetStale, UnlockThenRead,
                Location, Pointer, cacheVars, boundVars
  <2>2. LocalsOK'
    BY <1>2 DEF TypeInv, Typed, LocalsOK, Enters, GetStale, UnlockThenRead
  <2>3. Exclusion'
    BY <1>2, NobodyLoops
    DEF TypeInv, Typed, Exclusion, Enters, GetStale, UnlockThenRead, cacheVars
  <2> QED BY <2>1, <2>2, <2>3 DEF TypeInv
<1>3. CASE GetExpired(t, e, wait)
  <2>1. list' \in List /\ usedmemory' \in Int
    BY <1>3, UnlinkEntryType DEF TypeInv, Typed, GetExpired, Evicted
  <2>2. [entries EXCEPT ![ekey[e]] = Nil] \in [Key -> Pointer]
    BY DEF TypeInv, Typed, Pointer
  <2> QED BY <1>3, <2>1, <2>2, MissTyped DEF GetExpired
<1> QED BY <1>1, <1>2, <1>3 DEF GetComputed

(* Put overwrites a computed entry.                                        *)
LEMMA PutExistingTyped ==
  ASSUME TypeInv, NEW t \in Thread, Enters(t), NEW e \in Entry,
         NEW wait \in [Entry -> Int], NEW s \in Size, NEW d \in Ttl,
         PutExisting(t, e, s, d, wait)
  PROVE  TypeInv'
<1>1. list' \in List
  BY InsertFrontType, UnlinkEntryType DEF TypeInv, Typed, PutExisting
<1>2. KeyOf(t) \in Key
  BY DEF TypeInv, LocalsOK, Enters, KeyOf
<1>3. Typed'
  BY <1>1, <1>2
  DEF TypeInv, Typed, Enters, PutExisting, Return, Location, Pointer, boundVars
<1>4. LocalsOK'
  BY DEF TypeInv, Typed, LocalsOK, Enters, PutExisting, Return
<1>5. Exclusion'
  BY NobodyLoops DEF TypeInv, Typed, Exclusion, Enters, PutExisting, Return
<1> QED BY <1>3, <1>4, <1>5 DEF TypeInv

(* Put makes a new entry.                                                  *)
LEMMA PutNewTyped ==
  ASSUME TypeInv, NEW t \in Thread, Enters(t), NEW s \in Size, NEW d \in Ttl,
         PutNew(t, s, d)
  PROVE  TypeInv'
<1>1. NewEntry \in Entry
  BY NewEntryFree DEF PutNew
<1>2. list' \in List
  BY <1>1, InsertFrontType DEF TypeInv, Typed, PutNew
<1>3. KeyOf(t) \in Key
  BY DEF TypeInv, LocalsOK, Enters, KeyOf
<1>4. Typed'
  BY <1>1, <1>2, <1>3
  DEF TypeInv, Typed, Enters, PutNew, Return, Location, Pointer, boundVars
<1>5. LocalsOK'
  BY DEF TypeInv, Typed, LocalsOK, Enters, PutNew, Return
<1>6. Exclusion'
  BY NobodyLoops DEF TypeInv, Typed, Exclusion, Enters, PutNew, Return
<1> QED BY <1>4, <1>5, <1>6 DEF TypeInv

(* The three ways into Enters. *)
LEMMA CriticalSectionEnters ==
  ASSUME TypeInv, NEW t \in Thread,
         NEW loc \in {"locking", "woken", "computing"}, InCriticalSection(t, loc)
  PROVE  Enters(t) /\ pc[t] = loc
BY DEF InCriticalSection, Enters

(* The clock moves, and nothing else.                                      *)
LEMMA TickTyped == ASSUME TypeInv, Tick PROVE TypeInv'
BY DEF TypeInv, Typed, LocalsOK, Exclusion, Tick, cacheVars, entryVars, threadVars

(* A goroutine calls an operation and waits for the mutex.                 *)
LEMMA InvokeTyped ==
  ASSUME TypeInv, NEW t \in Thread, Invoke(t) PROVE TypeInv'
<1>1. PICK op \in Op, k \in Key :
        call' = [call EXCEPT ![t] = [op |-> op, key |-> k]]
  BY DEF Invoke
<1>2. Typed'
  BY <1>1 DEF TypeInv, Typed, Invoke, Location, cacheVars, entryVars
<1>3. LocalsOK'
  BY <1>1 DEF TypeInv, Typed, LocalsOK, Invoke
<1>4. Exclusion'
  BY DEF TypeInv, Typed, Exclusion, Invoke, cacheVars
<1> QED BY <1>2, <1>3, <1>4 DEF TypeInv

(* The critical section of Get up to its first unlock.                     *)
LEMMA GetTyped ==
  ASSUME TypeInv, NEW t \in Thread, Get(t) PROVE TypeInv'
<1> DEFINE e == entries[KeyOf(t)]
<1>1. Enters(t)
  BY CriticalSectionEnters DEF Get
<1>2. e \in Pointer /\ waitingForComputation \in [Entry -> Int]
  BY <1>1 DEF TypeInv, Typed, LocalsOK, Enters, KeyOf
<1>3. CASE e # Nil /\ WaitFor(t, e, waitingForComputation)
  BY <1>1, <1>2, <1>3, WaitForTyped DEF Pointer
<1>4. CASE e # Nil /\ GetComputed(t, e, waitingForComputation)
  BY <1>1, <1>2, <1>4, GetComputedTyped DEF Pointer
<1>5. CASE Miss(t, entries, waitingForComputation) /\ UNCHANGED <<usedmemory, list>>
  BY <1>1, <1>5, MissTyped DEF TypeInv, Typed
<1> QED BY <1>3, <1>4, <1>5 DEF Get

(* The critical section of Put.                                            *)
LEMMA PutTyped ==
  ASSUME TypeInv, NEW t \in Thread, Put(t) PROVE TypeInv'
<1> DEFINE e == entries[KeyOf(t)]
<1>1. Enters(t)
  BY CriticalSectionEnters DEF Put
<1>2. e \in Pointer /\ waitingForComputation \in [Entry -> Int]
  BY <1>1 DEF TypeInv, Typed, LocalsOK, Enters, KeyOf
<1>3. CASE e # Nil /\ WaitFor(t, e, waitingForComputation)
  BY <1>1, <1>2, <1>3, WaitForTyped DEF Pointer
<1>4. CASE e # Nil /\ \E s \in Size, d \in Ttl :
             PutExisting(t, e, s, d, waitingForComputation)
  BY <1>1, <1>2, <1>4, PutExistingTyped DEF Pointer
<1>5. CASE \E s \in Size, d \in Ttl : PutNew(t, s, d)
  BY <1>1, <1>5, PutNewTyped
<1> QED BY <1>3, <1>4, <1>5 DEF Put

(* A goroutine returns from cond.Wait and looks at its entry again.        *)
LEMMA WakeTyped ==
  ASSUME TypeInv, NEW t \in Thread, Wake(t) PROVE TypeInv'
<1> DEFINE e == at[t]
           w == CountDown(e)
<1>1. Enters(t) /\ e \in Entry
  BY CriticalSectionEnters DEF Wake, TypeInv, LocalsOK, InCriticalSection
<1>2. w \in [Entry -> Int]
  BY <1>1 DEF TypeInv, Typed, CountDown
<1>3. CASE WaitFor(t, e, w)
  BY <1>1, <1>2, <1>3, WaitForTyped
<1>4. CASE GetComputed(t, e, w)
  BY <1>1, <1>2, <1>4, GetComputedTyped
<1>5. CASE \E s \in Size, d \in Ttl : PutExisting(t, e, s, d, w)
  BY <1>1, <1>2, <1>5, PutExistingTyped
<1> QED BY <1>3, <1>4, <1>5 DEF Wake

(* Get reads the value after it has released the mutex.                    *)
LEMMA ReadValueTyped ==
  ASSUME TypeInv, NEW t \in Thread, ReadValue(t) PROVE TypeInv'
<1>1. value[at[t]] \in Key \cup {NoValue}
  BY DEF TypeInv, Typed, LocalsOK, ReadValue
<1>2. Typed'
  BY <1>1 DEF TypeInv, Typed, ReadValue, Return, Location, Pointer,
              cacheVars, entryVars, boundVars
<1>3. LocalsOK'
  BY DEF TypeInv, Typed, LocalsOK, ReadValue, Return
<1>4. Exclusion'
  BY DEF TypeInv, Typed, Exclusion, ReadValue, Return, cacheVars
<1> QED BY <1>2, <1>3, <1>4 DEF TypeInv

(* The critical section of Del.                                            *)
LEMMA DelTyped ==
  ASSUME TypeInv, NEW t \in Thread, Del(t) PROVE TypeInv'
<1> DEFINE e == entries[KeyOf(t)]
<1>1. Enters(t)
  BY CriticalSectionEnters DEF Del
<1>2. e \in Pointer
  BY <1>1 DEF TypeInv, Typed, LocalsOK, Enters, KeyOf
<1>3. entries' \in [Key -> Pointer] /\ usedmemory' \in Int /\ list' \in List
  <2>1. CASE e # Nil /\ NotNeeded(e, waitingForComputation)
    <3>1. Evicted(e) /\ entries' = [entries EXCEPT ![ekey[e]] = Nil]
      BY <2>1 DEF Del
    <3>2. e \in Entry
      BY <1>2, <2>1 DEF Pointer
    <3> QED BY <3>1, <3>2, EvictedTyped
  <2>2. CASE UNCHANGED cacheVars
    BY <2>2 DEF TypeInv, Typed, cacheVars
  <2> QED BY <2>1, <2>2 DEF Del
<1>4. Typed'
  BY <1>1, <1>3 DEF TypeInv, Typed, Enters, Del, Return, Location, Pointer,
                    entryVars, boundVars
<1>5. LocalsOK'
  BY DEF TypeInv, Typed, LocalsOK, Del, Return
<1>6. Exclusion'
  BY <1>1, NobodyLoops DEF TypeInv, Typed, Exclusion, Enters, Del, Return
<1> QED BY <1>4, <1>5, <1>6 DEF TypeInv

(* The closure has returned: its value is stored, waiters are woken.       *)
LEMMA ComputeReturnsTyped ==
  ASSUME TypeInv, NEW t \in Thread, ComputeReturns(t) PROVE TypeInv'
<1> DEFINE e == at[t]
<1>1. e \in Entry /\ KeyOf(t) \in Key
  BY DEF TypeInv, LocalsOK, ComputeReturns, KeyOf
<1>2. list' \in List /\ FirstCandidate(list') \in Pointer
  BY <1>1, InsertFrontType DEF TypeInv, Typed, ComputeReturns, FirstCandidate, List
<1>3. PICK s \in Size, d \in Ttl :
        /\ expiration' = [expiration EXCEPT ![e] = now[t] + d]
        /\ size' = [size EXCEPT ![e] = s]
        /\ usedmemory' = usedmemory + s
  BY DEF ComputeReturns
<1>4. pc' \in [Thread -> Location]
  BY DEF TypeInv, Typed, ComputeReturns, Location
<1>5. Typed'
  BY <1>1, <1>2, <1>3, <1>4
  DEF TypeInv, Typed, ComputeReturns, CountDown, boundVars
<1>6. LocalsOK'
  BY DEF TypeInv, Typed, LocalsOK, ComputeReturns, Awoken
<1>7. Exclusion'
  BY NobodyLoops DEF TypeInv, Typed, Exclusion, ComputeReturns, Awoken
<1> QED BY <1>5, <1>6, <1>7 DEF TypeInv

(* The closure has panicked: the deferred function runs.                   *)
LEMMA ComputePanicsTyped ==
  ASSUME TypeInv, NEW t \in Thread, ComputePanics(t) PROVE TypeInv'
<1>1. Enters(t) /\ at[t] \in Entry /\ KeyOf(t) \in Key
  BY CriticalSectionEnters
  DEF ComputePanics, InCriticalSection, TypeInv, LocalsOK, KeyOf
<1>2. Typed'
  BY <1>1 DEF TypeInv, Typed, Enters, ComputePanics, CountDown, Return,
              Location, Pointer, boundVars
<1>3. LocalsOK'
  BY DEF TypeInv, Typed, LocalsOK, ComputePanics, Return
<1>4. Exclusion'
  BY <1>1, NobodyLoops DEF TypeInv, Typed, Exclusion, Enters, ComputePanics, Return
<1> QED BY <1>2, <1>3, <1>4 DEF TypeInv

(* One round of the eviction loop.                                         *)
LEMMA EvictNextTyped ==
  ASSUME TypeInv, NEW t \in Thread, EvictNext(t) PROVE TypeInv'
<1> DEFINE e == at[t]
<1>1. e \in Entry /\ pc[t] = "evicting" /\ mutex = t
  BY DEF TypeInv, Typed, Exclusion, EvictNext, Pointer
<1>2. NextCandidate(e) \in Pointer
  BY <1>1 DEF TypeInv, Typed, NextCandidate, List
<1>3. entries' \in [Key -> Pointer] /\ usedmemory' \in Int /\ list' \in List
  <2>1. CASE Evictable(t, e)
    <3>1. Evicted(e) /\ entries' = [entries EXCEPT ![ekey[e]] = Nil]
      BY <2>1 DEF EvictNext
    <3> QED BY <1>1, <3>1, EvictedTyped
  <2>2. CASE UNCHANGED cacheVars
    BY <2>2 DEF TypeInv, Typed, cacheVars
  <2> QED BY <2>1, <2>2 DEF EvictNext
<1>4. Typed'
  BY <1>2, <1>3 DEF TypeInv, Typed, EvictNext, entryVars, boundVars
<1>5. LocalsOK'
  BY <1>1 DEF TypeInv, Typed, LocalsOK, EvictNext
<1>6. Exclusion'
  BY <1>1 DEF TypeInv, Typed, Exclusion, EvictNext
<1> QED BY <1>4, <1>5, <1>6 DEF TypeInv

(* The eviction loop ends and Get returns.                                 *)
LEMMA EvictDoneTyped ==
  ASSUME TypeInv, NEW t \in Thread, EvictDone(t) PROVE TypeInv'
<1>1. Typed'
  BY DEF TypeInv, Typed, EvictDone, Return, Location, Pointer,
         cacheVars, entryVars, boundVars
<1>2. LocalsOK'
  BY DEF TypeInv, Typed, LocalsOK, EvictDone, Return
<1>3. Exclusion'
  BY DEF TypeInv, Typed, Exclusion, EvictDone, Return, cacheVars
<1> QED BY <1>1, <1>2, <1>3 DEF TypeInv

(* Keys takes the mutex.                                                   *)
LEMMA KeysBeginTyped ==
  ASSUME TypeInv, NEW t \in Thread, KeysBegin(t) PROVE TypeInv'
<1>1. Typed'
  BY DEF TypeInv, Typed, KeysBegin, Location, cacheVars, entryVars, boundVars
<1>2. LocalsOK'
  BY DEF TypeInv, Typed, LocalsOK, KeysBegin
<1>3. Exclusion'
  BY NobodyLoops DEF TypeInv, Typed, Exclusion, KeysBegin, cacheVars
<1> QED BY <1>1, <1>2, <1>3 DEF TypeInv

(* Keys finds its list corrupted.                                          *)
LEMMA KeysPanicsTyped ==
  ASSUME TypeInv, NEW t \in Thread, pc[t] = "scanning",
         NEW what \in Failure, KeysPanics(t, what), UNCHANGED <<entryVars, boundVars>>
  PROVE  TypeInv'
<1>1. Typed'
  BY DEF TypeInv, Typed, KeysPanics, Return, Location, Pointer, NoScan,
         cacheVars, entryVars, boundVars
<1>2. LocalsOK'
  BY DEF TypeInv, Typed, LocalsOK, KeysPanics, Return
<1>3. Exclusion'
  BY DEF TypeInv, Typed, Exclusion, KeysPanics, Return, cacheVars
<1> QED BY <1>1, <1>2, <1>3 DEF TypeInv

(* Keys visits one entry, and removes it if it has expired.                *)
LEMMA KeysVisitTyped ==
  ASSUME TypeInv, NEW t \in Thread, NEW k \in Key, KeysVisit(t, k) PROVE TypeInv'
<1> DEFINE e == entries[k]
           rest == scan.todo \ {k}
<1>1. e \in Entry /\ pc[t] = "scanning" /\ mutex = t
      /\ UNCHANGED <<entryVars, boundVars>>
  BY DEF TypeInv, Typed, Exclusion, KeysVisit, Pointer
<1>2. CASE KeysPanics(t, "key mismatch") \/ KeysPanics(t, "list corrupted")
  BY <1>1, <1>2, KeysPanicsTyped DEF Failure
<1>3. CASE /\ Evicted(e)
           /\ entries' = [entries EXCEPT ![k] = Nil]
           /\ scan' = [scan EXCEPT !.todo = rest]
           /\ UNCHANGED <<mutex, failure, threadVars>>
  <2>1. list' \in List /\ usedmemory' \in Int
    BY <1>1, <1>3, EvictedTyped
  <2>2. Typed'
    BY <1>1, <1>3, <2>1
    DEF TypeInv, Typed, Pointer, threadVars, entryVars, boundVars
  <2>3. LocalsOK'
    BY <1>3 DEF TypeInv, LocalsOK, threadVars
  <2>4. Exclusion'
    BY <1>1, <1>3 DEF TypeInv, Typed, Exclusion, threadVars
  <2> QED BY <2>2, <2>3, <2>4 DEF TypeInv
<1>4. CASE /\ scan' = [todo |-> rest, size |-> scan.size + size[e]]
           /\ UNCHANGED <<mutex, failure, threadVars, cacheVars>>
  <2>1. Typed'
    BY <1>1, <1>4 DEF TypeInv, Typed, threadVars, cacheVars, entryVars, boundVars
  <2>2. LocalsOK'
    BY <1>4 DEF TypeInv, LocalsOK, threadVars
  <2>3. Exclusion'
    BY <1>1, <1>4 DEF TypeInv, Typed, Exclusion, threadVars, cacheVars
  <2> QED BY <2>1, <2>2, <2>3 DEF TypeInv
<1> QED BY <1>2, <1>3, <1>4 DEF KeysVisit

(* Keys has visited all entries and releases the mutex.                    *)
LEMMA KeysEndTyped ==
  ASSUME TypeInv, NEW t \in Thread, KeysEnd(t) PROVE TypeInv'
<1>1. CASE \E what \in Failure : KeysPanics(t, what)
  BY <1>1, KeysPanicsTyped DEF KeysEnd
<1>2. CASE /\ mutex' = NoThread
           /\ scan' = NoScan
           /\ Return(t, NoValue)
           /\ UNCHANGED <<failure, cacheVars>>
  <2>1. Typed'
    BY <1>2 DEF TypeInv, Typed, KeysEnd, Return, Location, Pointer, NoScan,
                cacheVars, entryVars, boundVars
  <2>2. LocalsOK'
    BY <1>2 DEF TypeInv, Typed, LocalsOK, Return
  <2>3. Exclusion'
    BY <1>2 DEF TypeInv, Typed, Exclusion, KeysEnd, Return, cacheVars
  <2> QED BY <2>1, <2>2, <2>3 DEF TypeInv
<1> QED BY <1>1, <1>2 DEF KeysEnd, Failure

(* Every step keeps the types. *)
LEMMA NextTyped == ASSUME TypeInv, [Next]_vars PROVE TypeInv'
<1>1. CASE UNCHANGED vars
  BY <1>1 DEF TypeInv, Typed, LocalsOK, Exclusion, vars, cacheVars, entryVars,
              threadVars, boundVars
<1>2. CASE Tick
  BY <1>2, TickTyped
<1>3. ASSUME NEW t \in Thread, Step(t) PROVE TypeInv'
  <2>1. CASE Locked(t)
    BY <2>1, GetTyped, PutTyped, DelTyped, WakeTyped, KeysBeginTyped DEF Locked
  <2>2. CASE Compute(t)
    BY <2>2, ComputeReturnsTyped, ComputePanicsTyped DEF Compute
  <2>3. CASE Loop(t)
    BY <2>3, ReadValueTyped, EvictNextTyped, EvictDoneTyped, KeysEndTyped,
       KeysVisitTyped DEF Loop
  <2> QED BY <1>3, <2>1, <2>2, <2>3, InvokeTyped DEF Step
<1> QED BY <1>1, <1>2, <1>3 DEF Next, Finished

(* Every variable has its type at all times, whether closures panic or not. *)
THEOREM TypesHold == Spec => []TypeInv
<1>1. TypeInv /\ [Next]_vars => TypeInv'
  BY NextTyped
<1> QED BY InitTyped, <1>1, PTL DEF Spec
-----------------------------------------------------------------------------
Needing == {"waiting", "woken", "computing"}

Needers(e) == {t \in Thread : Computes(t, e) \/ WaitsFor(t, e)}

(* The map holds entries under their own keys, and a goroutine that needs  *)
(* or returns an entry has one of its own key.                             *)
KeysMatch ==
  /\ \A k \in Key : entries[k] # Nil => ekey[entries[k]] = k
  /\ \A t \in Thread :
       pc[t] \in Needing \cup {"returning"} => ekey[at[t]] = KeyOf(t)

CountInv == TypeInv /\ KeysMatch /\ WaitersCounted

(* wait counts the needers of every entry except t.                        *)
CountsOthers(t, wait) ==
  /\ wait \in [Entry -> Int]
  /\ \A e \in Entry : wait[e] = Cardinality(Needers(e) \ {t})

(* As there are finitely many goroutines.                                  *)
LEMMA NeedersFinite ==
  \A e : IsFiniteSet(Needers(e)) /\ \A t : IsFiniteSet(Needers(e) \ {t})
BY FS_Subset DEF Needers

(* Who needs an entry, from its program counter and its locals.            *)
LEMMA NeedersMembers ==
  \A e, t : t \in Needers(e) <=> t \in Thread /\ pc[t] \in Needing /\ at[t] = e
BY DEF Needers, Computes, WaitsFor, Needing

(* A counter at zero means that nobody else needs the entry.               *)
LEMMA NobodyNeeds ==
  ASSUME NEW t, NEW wait, CountsOthers(t, wait), NEW e \in Entry, NotNeeded(e, wait)
  PROVE  Needers(e) \ {t} = {}
BY NeedersFinite, FS_EmptySet DEF CountsOthers, NotNeeded

(* A goroutine that has no entry is in no count.                           *)
LEMMA CountsWithout ==
  ASSUME CountInv, NEW t \in Thread, pc[t] \notin Needing
  PROVE  CountsOthers(t, waitingForComputation)
<1>1. \A e \in Entry : Needers(e) \ {t} = Needers(e)
  BY NeedersMembers
<1> QED BY <1>1 DEF CountInv, TypeInv, Typed, WaitersCounted, CountsOthers, Needers

(* waitingForComputation -= 1 takes t out of the count.                    *)
LEMMA CountDownCounts ==
  ASSUME CountInv, NEW t \in Thread, pc[t] \in Needing
  PROVE  CountsOthers(t, CountDown(at[t]))
<1>1. at[t] \in Entry
  BY DEF CountInv, TypeInv, LocalsOK, Needing
<1>2. CountDown(at[t]) \in [Entry -> Int]
  BY <1>1 DEF CountInv, TypeInv, Typed, CountDown
<1>3. ASSUME NEW e \in Entry
      PROVE  CountDown(at[t])[e] = Cardinality(Needers(e) \ {t})
  <2>1. waitingForComputation[e] = Cardinality(Needers(e))
    BY DEF CountInv, WaitersCounted, Needers
  <2>2. CASE e = at[t]
    <3>1. t \in Needers(e)
      BY <2>2, NeedersMembers
    <3>2. CountDown(at[t])[e] = waitingForComputation[e] - 1
      BY <1>1, <2>2 DEF CountDown, CountInv, TypeInv, Typed
    <3>3. Cardinality(Needers(e) \ {t}) = Cardinality(Needers(e)) - 1
      BY <3>1, NeedersFinite, FS_RemoveElement
    <3> QED BY <2>1, <3>2, <3>3
  <2>3. CASE e # at[t]
    <3>1. Needers(e) \ {t} = Needers(e)
      BY <2>3, NeedersMembers
    <3>2. CountDown(at[t])[e] = waitingForComputation[e]
      BY <1>1, <2>3 DEF CountDown, CountInv, TypeInv, Typed
    <3> QED BY <2>1, <3>1, <3>2
  <2> QED BY <2>2, <2>3
<1> QED BY <1>2, <1>3 DEF CountsOthers

(* The others keep what they need while t moves.                           *)
OthersStay(t) ==
  \A u \in Thread \ {t} :
    /\ pc'[u] \in Needing <=> pc[u] \in Needing
    /\ pc[u] \in Needing => at'[u] = at[u]

(* t ends without an entry, and is not counted.                            *)
LEMMA LeaveCounted ==
  ASSUME NEW t \in Thread, NEW wait, CountsOthers(t, wait), OthersStay(t),
         pc'[t] \notin Needing, waitingForComputation' = wait
  PROVE  WaitersCounted'
<1> SUFFICES ASSUME NEW e \in Entry
             PROVE  wait[e] = Cardinality(Needers(e)')
  BY DEF WaitersCounted, Needers
<1>1. Needers(e)' = Needers(e) \ {t}
  BY DEF Needers, Computes, WaitsFor, OthersStay, Needing
<1> QED BY <1>1 DEF CountsOthers

(* t ends with the entry x, and is counted there.                          *)
LEMMA StayCounted ==
  ASSUME NEW t \in Thread, NEW wait, CountsOthers(t, wait), OthersStay(t),
         NEW x \in Entry, pc'[t] \in Needing, at'[t] = x,
         waitingForComputation' = [wait EXCEPT ![x] = @ + 1]
  PROVE  WaitersCounted'
<1> SUFFICES ASSUME NEW e \in Entry
             PROVE  waitingForComputation'[e] = Cardinality(Needers(e)')
  BY DEF WaitersCounted, Needers
<1>1. CASE e = x
  <2>1. Needers(e)' = (Needers(e) \ {t}) \cup {t}
    BY <1>1 DEF Needers, Computes, WaitsFor, OthersStay, Needing
  <2>2. Cardinality(Needers(e)') = Cardinality(Needers(e) \ {t}) + 1
    BY <2>1, NeedersFinite, FS_AddElement
  <2> QED BY <1>1, <2>2 DEF CountsOthers
<1>2. CASE e # x
  <2>1. Needers(e)' = Needers(e) \ {t}
    BY <1>2 DEF Needers, Computes, WaitsFor, OthersStay, Needing
  <2> QED BY <1>2, <2>1 DEF CountsOthers
<1> QED BY <1>1, <1>2

(* Part of the map is forgotten, nothing is added.                         *)
Shrinks(ents) ==
  /\ ents \in [Key -> Pointer]
  /\ \A k \in Key : ents[k] = Nil \/ ents[k] = entries[k]

(* What a goroutine returns with.                                          *)
LEMMA ReturnSteps ==
  ASSUME TypeInv, NEW t \in Thread, NEW v, Return(t, v)
  PROVE  /\ pc'[t] = "idle"
         /\ OthersStay(t)
         /\ \A u \in Thread \ {t} : /\ pc'[u] = pc[u] /\ call'[u] = call[u]
                                    /\ at'[u] = at[u] /\ now'[u] = now[u]
                                    /\ ret'[u] = ret[u]
BY DEF TypeInv, Typed, Return, OthersStay

(* The entry is being computed: the goroutine goes to sleep.               *)
LEMMA WaitForCounted ==
  ASSUME CountInv, NEW t \in Thread, Enters(t), NEW e \in Entry, ekey[e] = KeyOf(t),
         NEW wait, CountsOthers(t, wait), WaitFor(t, e, wait)
  PROVE  KeysMatch' /\ WaitersCounted'
<1>1. /\ pc'[t] = "waiting" /\ at'[t] = e
      /\ \A u \in Thread \ {t} : pc'[u] = pc[u] /\ at'[u] = at[u]
  BY DEF CountInv, TypeInv, Typed, WaitFor
<1>2. OthersStay(t) /\ pc'[t] \in Needing
  BY <1>1 DEF OthersStay, Needing
<1>3. WaitersCounted'
  BY <1>1, <1>2, StayCounted DEF WaitFor
<1>4. KeysMatch'
  BY <1>1 DEF CountInv, KeysMatch, WaitFor, KeyOf, cacheVars, Needing
<1> QED BY <1>3, <1>4

(* The goroutine releases the mutex, its value still to be read.           *)
LEMMA UnlockThenReadCounted ==
  ASSUME CountInv, NEW t \in Thread, Enters(t), NEW e \in Entry, ekey[e] = KeyOf(t),
         NEW wait, CountsOthers(t, wait), UnlockThenRead(t, e),
         waitingForComputation' = wait, UNCHANGED <<entries, ekey>>
  PROVE  KeysMatch' /\ WaitersCounted'
<1>1. /\ pc'[t] = "returning" /\ at'[t] = e
      /\ \A u \in Thread \ {t} : pc'[u] = pc[u] /\ at'[u] = at[u]
  BY DEF CountInv, TypeInv, Typed, UnlockThenRead
<1>2. OthersStay(t) /\ pc'[t] \notin Needing
  BY <1>1 DEF OthersStay, Needing
<1>3. WaitersCounted'
  BY <1>1, <1>2, LeaveCounted
<1>4. KeysMatch'
  BY <1>1 DEF CountInv, KeysMatch, UnlockThenRead, KeyOf, Needing
<1> QED BY <1>3, <1>4

(* An operation releases the mutex and returns.                            *)
LEMMA ReturnCounted ==
  ASSUME CountInv, NEW t \in Thread, NEW v, Return(t, v),
         NEW wait, CountsOthers(t, wait), waitingForComputation' = wait,
         Shrinks(entries'), UNCHANGED ekey
  PROVE  KeysMatch' /\ WaitersCounted'
<1>1. WaitersCounted'
  <2>1. pc'[t] \notin Needing
    BY ReturnSteps DEF CountInv, Needing
  <2> QED BY <2>1, ReturnSteps, LeaveCounted DEF CountInv
<1>2. KeysMatch'
  BY ReturnSteps DEF CountInv, KeysMatch, Shrinks, KeyOf, Needing
<1> QED BY <1>1, <1>2

(* A new entry is nobody's, and is in no place of the map.                 *)
LEMMA NewEntryUnused ==
  ASSUME CountInv, Unallocated # {}
  PROVE  /\ NewEntry \in Entry /\ ekey[NewEntry] = NoKey
         /\ \A k \in Key : entries[k] # NewEntry
         /\ Needers(NewEntry) = {}
<1>1. NewEntry \in Entry /\ ekey[NewEntry] = NoKey
  BY NewEntryFree
<1>2. \A k \in Key : entries[k] # NewEntry
  BY <1>1 DEF CountInv, KeysMatch
<1>3. \A t \in Thread : pc[t] \in Needing => KeyOf(t) \in Key
  BY DEF CountInv, TypeInv, LocalsOK, Needing, KeyOf
<1>4. Needers(NewEntry) = {}
  BY <1>1, <1>3, NeedersMembers DEF CountInv, KeysMatch, Needers
<1> QED BY <1>1, <1>2, <1>4

(* A new entry enters the map and its computation begins.                  *)
LEMMA StartComputationCounted ==
  ASSUME CountInv, NEW t \in Thread, Enters(t), NEW ents, Shrinks(ents),
         NEW wait, CountsOthers(t, wait), StartComputation(t, ents, wait)
  PROVE  KeysMatch' /\ WaitersCounted'
<1> DEFINE n == NewEntry
<1>1. n \in Entry /\ ekey[n] = NoKey /\ Needers(n) = {}
      /\ \A k \in Key : entries[k] # n
  BY NewEntryUnused DEF StartComputation
<1>2. KeyOf(t) \in Key
  BY DEF CountInv, TypeInv, LocalsOK, Enters, KeyOf
<1>3. /\ pc'[t] = "computing" /\ at'[t] = n
      /\ \A u \in Thread \ {t} : pc'[u] = pc[u] /\ at'[u] = at[u]
  BY DEF CountInv, TypeInv, Typed, StartComputation
<1>4. OthersStay(t) /\ pc'[t] \in Needing
  BY <1>3 DEF OthersStay, Needing
<1>5. waitingForComputation' = [wait EXCEPT ![n] = @ + 1]
  <2>1. Needers(n) \ {t} = {}
    BY <1>1
  <2>2. wait[n] = 0
    BY <1>1, <2>1, FS_EmptySet DEF CountsOthers
  <2> QED BY <2>2 DEF StartComputation
<1>6. WaitersCounted'
  BY <1>1, <1>3, <1>4, <1>5, StayCounted
<1>7. KeysMatch'
  <2>1. ekey'[n] = KeyOf(t) /\ \A e \in Entry \ {n} : ekey'[e] = ekey[e]
    BY <1>1 DEF CountInv, TypeInv, Typed, StartComputation
  <2>2. \A u \in Thread : KeyOf(u)' = KeyOf(u)
    BY DEF StartComputation, KeyOf
  <2>3. ASSUME NEW u \in Thread, pc'[u] \in Needing \cup {"returning"}
        PROVE  ekey'[at'[u]] = KeyOf(u)'
    <3>1. CASE u = t
      BY <1>3, <2>1, <2>2, <3>1
    <3>2. CASE u # t
      <4>1. pc[u] \in Needing \cup {"returning"} /\ at'[u] = at[u]
        BY <1>3, <2>3, <3>2
      <4>2. ekey[at[u]] = KeyOf(u) /\ KeyOf(u) \in Key /\ at[u] \in Entry
        BY <4>1 DEF CountInv, KeysMatch, TypeInv, LocalsOK, Needing, KeyOf
      <4> QED BY <1>1, <2>1, <2>2, <4>1, <4>2
    <3> QED BY <3>1, <3>2
  <2>4. ASSUME NEW k \in Key, entries'[k] # Nil
        PROVE  ekey'[entries'[k]] = k
    <3>1. CASE k = KeyOf(t)
      BY <1>1, <1>2, <2>1, <3>1 DEF StartComputation, Shrinks
    <3>2. CASE k # KeyOf(t)
      <4>1. entries'[k] = entries[k] /\ entries[k] \in Entry
        BY <2>4, <3>2 DEF StartComputation, Shrinks, Pointer, CountInv, TypeInv, Typed
      <4> QED BY <1>1, <2>1, <4>1, <2>4 DEF CountInv, KeysMatch
    <3> QED BY <3>1, <3>2
  <2> QED BY <2>3, <2>4 DEF KeysMatch, Needing
<1> QED BY <1>6, <1>7

(* Get finds no entry and starts its computation.                          *)
LEMMA MissCounted ==
  ASSUME CountInv, NEW t \in Thread, Enters(t), NEW ents, Shrinks(ents),
         NEW wait, CountsOthers(t, wait), Miss(t, ents, wait)
  PROVE  KeysMatch' /\ WaitersCounted'
BY StartComputationCounted, ReturnCounted DEF Miss

(* Get finds a computed entry: a hit, or one that has expired.             *)
LEMMA GetComputedCounted ==
  ASSUME CountInv, NEW t \in Thread, Enters(t), NEW e \in Entry, ekey[e] = KeyOf(t),
         NEW wait, CountsOthers(t, wait), GetComputed(t, e, wait)
  PROVE  KeysMatch' /\ WaitersCounted'
<1>1. CASE GetFresh(t, e, wait)
  BY <1>1, UnlockThenReadCounted DEF GetFresh
<1>2. CASE GetStale(t, e, wait)
  BY <1>2, UnlockThenReadCounted DEF GetStale, cacheVars
<1>3. CASE GetExpired(t, e, wait)
  <2>1. Shrinks([entries EXCEPT ![ekey[e]] = Nil])
    BY DEF Shrinks, CountInv, TypeInv, Typed, Pointer
  <2> QED BY <1>3, <2>1, MissCounted DEF GetExpired
<1> QED BY <1>1, <1>2, <1>3 DEF GetComputed

(* Put overwrites a computed entry.                                        *)
LEMMA PutExistingCounted ==
  ASSUME CountInv, NEW t \in Thread, NEW e \in Entry, NEW s \in Size, NEW d \in Ttl,
         NEW wait, CountsOthers(t, wait), PutExisting(t, e, s, d, wait)
  PROVE  KeysMatch' /\ WaitersCounted'
<1>1. Shrinks(entries') /\ UNCHANGED ekey
  BY DEF PutExisting, Shrinks, CountInv, TypeInv, Typed
<1> QED BY <1>1, ReturnCounted DEF PutExisting

(* Put makes a new entry.                                                  *)
LEMMA PutNewCounted ==
  ASSUME CountInv, NEW t \in Thread, Enters(t), NEW s \in Size, NEW d \in Ttl,
         CountsOthers(t, waitingForComputation), PutNew(t, s, d)
  PROVE  KeysMatch' /\ WaitersCounted'
<1> DEFINE n == NewEntry
<1>1. n \in Entry /\ ekey[n] = NoKey /\ \A k \in Key : entries[k] # n
  BY NewEntryUnused DEF PutNew
<1>2. KeyOf(t) \in Key
  BY DEF CountInv, TypeInv, LocalsOK, Enters, KeyOf
<1>3. WaitersCounted'
  <2>1. pc'[t] \notin Needing
    BY ReturnSteps DEF CountInv, Needing, PutNew
  <2> QED BY <2>1, ReturnSteps, LeaveCounted DEF CountInv, PutNew
<1>4. ekey'[n] = KeyOf(t) /\ \A e \in Entry \ {n} : ekey'[e] = ekey[e]
  BY <1>1 DEF CountInv, TypeInv, Typed, PutNew
<1>5. ASSUME NEW u \in Thread, pc'[u] \in Needing \cup {"returning"}
      PROVE  ekey'[at'[u]] = KeyOf(u)'
  <2>1. u # t /\ pc[u] \in Needing \cup {"returning"} /\ at'[u] = at[u]
        /\ KeyOf(u)' = KeyOf(u)
    BY <1>5, ReturnSteps DEF CountInv, PutNew, Needing, KeyOf
  <2>2. ekey[at[u]] = KeyOf(u) /\ KeyOf(u) \in Key /\ at[u] \in Entry
    BY <2>1 DEF CountInv, KeysMatch, TypeInv, LocalsOK, Needing, KeyOf
  <2> QED BY <1>1, <1>4, <2>1, <2>2
<1>6. ASSUME NEW k \in Key, entries'[k] # Nil
      PROVE  ekey'[entries'[k]] = k
  <2>1. CASE k = KeyOf(t)
    BY <1>2, <1>4, <2>1 DEF PutNew, CountInv, TypeInv, Typed
  <2>2. CASE k # KeyOf(t)
    <3>1. entries'[k] = entries[k] /\ entries[k] \in Entry
      BY <1>6, <2>2 DEF PutNew, Pointer, CountInv, TypeInv, Typed
    <3> QED BY <1>1, <1>4, <3>1, <1>6 DEF CountInv, KeysMatch
  <2> QED BY <2>1, <2>2
<1>7. KeysMatch'
  BY <1>5, <1>6 DEF KeysMatch, Needing
<1> QED BY <1>3, <1>7

(* A step that touches neither counters nor keys nor who needs what.       *)
LEMMA QuietCounted ==
  ASSUME CountInv, NEW t \in Thread, pc[t] \notin Needing,
         pc'[t] \notin Needing \cup {"returning"},
         Shrinks(entries'), UNCHANGED <<ekey, waitingForComputation>>,
         \A u \in Thread \ {t} : /\ pc'[u] = pc[u] /\ at'[u] = at[u]
                                 /\ call'[u] = call[u]
  PROVE  KeysMatch' /\ WaitersCounted'
<1>1. OthersStay(t)
  BY DEF OthersStay
<1>2. WaitersCounted'
  BY <1>1, CountsWithout, LeaveCounted DEF CountInv
<1>3. KeysMatch'
  BY DEF CountInv, KeysMatch, Shrinks, KeyOf, Needing
<1> QED BY <1>2, <1>3

(* Deleting a key, or none, adds nothing to the map.                       *)
LEMMA CacheShrinks ==
  ASSUME CountInv, NEW k,
         \/ entries' = [entries EXCEPT ![k] = Nil]
         \/ entries' = entries
  PROVE  Shrinks(entries')
BY DEF CountInv, TypeInv, Typed, Shrinks, Pointer

(* A goroutine calls an operation and waits for the mutex.                 *)
LEMMA InvokeCounted ==
  ASSUME CountInv, NEW t \in Thread, Invoke(t) PROVE KeysMatch' /\ WaitersCounted'
<1>1. pc'[t] = "locking" /\ at' = at
      /\ \A u \in Thread \ {t} : pc'[u] = pc[u] /\ call'[u] = call[u]
  BY DEF CountInv, TypeInv, Typed, Invoke
<1>2. Shrinks(entries') /\ UNCHANGED <<ekey, waitingForComputation>>
  BY CacheShrinks DEF Invoke, cacheVars, entryVars
<1> QED BY <1>1, <1>2, QuietCounted DEF Invoke, Needing

(* Get and Put find the entry of their key, if there is one.               *)
LEMMA FoundEntry ==
  ASSUME CountInv, NEW t \in Thread, Enters(t), entries[KeyOf(t)] # Nil
  PROVE  /\ entries[KeyOf(t)] \in Entry
         /\ ekey[entries[KeyOf(t)]] = KeyOf(t)
BY DEF CountInv, KeysMatch, TypeInv, Typed, LocalsOK, Enters, KeyOf, Pointer

(* The critical section of Get up to its first unlock.                     *)
LEMMA GetCounted ==
  ASSUME CountInv, NEW t \in Thread, Get(t) PROVE KeysMatch' /\ WaitersCounted'
<1> DEFINE e == entries[KeyOf(t)]
           w == waitingForComputation
<1>1. Enters(t) /\ pc[t] = "locking"
  BY CriticalSectionEnters DEF CountInv, Get
<1>2. CountsOthers(t, w)
  BY <1>1, CountsWithout DEF Needing
<1>3. CASE e # Nil /\ WaitFor(t, e, w)
  BY <1>1, <1>2, <1>3, FoundEntry, WaitForCounted
<1>4. CASE e # Nil /\ GetComputed(t, e, w)
  BY <1>1, <1>2, <1>4, FoundEntry, GetComputedCounted
<1>5. CASE Miss(t, entries, w)
  <2>1. Shrinks(entries)
    BY DEF Shrinks, CountInv, TypeInv, Typed
  <2> QED BY <1>1, <1>2, <1>5, <2>1, MissCounted
<1> QED BY <1>3, <1>4, <1>5 DEF Get

(* The critical section of Put.                                            *)
LEMMA PutCounted ==
  ASSUME CountInv, NEW t \in Thread, Put(t) PROVE KeysMatch' /\ WaitersCounted'
<1> DEFINE e == entries[KeyOf(t)]
           w == waitingForComputation
<1>1. Enters(t) /\ pc[t] = "locking"
  BY CriticalSectionEnters DEF CountInv, Put
<1>2. CountsOthers(t, w)
  BY <1>1, CountsWithout DEF Needing
<1>3. CASE e # Nil /\ WaitFor(t, e, w)
  BY <1>1, <1>2, <1>3, FoundEntry, WaitForCounted
<1>4. CASE e # Nil /\ \E s \in Size, d \in Ttl : PutExisting(t, e, s, d, w)
  BY <1>1, <1>2, <1>4, FoundEntry, PutExistingCounted
<1>5. CASE \E s \in Size, d \in Ttl : PutNew(t, s, d)
  BY <1>1, <1>2, <1>5, PutNewCounted
<1> QED BY <1>3, <1>4, <1>5 DEF Put

(* A goroutine that wakes is no longer counted, and has its own entry.     *)
LEMMA WokenEntry ==
  ASSUME CountInv, NEW t \in Thread, pc[t] \in Needing
  PROVE  at[t] \in Entry /\ ekey[at[t]] = KeyOf(t)
BY DEF CountInv, KeysMatch, TypeInv, LocalsOK, Needing

(* A goroutine returns from cond.Wait and looks at its entry again.        *)
LEMMA WakeCounted ==
  ASSUME CountInv, NEW t \in Thread, Wake(t) PROVE KeysMatch' /\ WaitersCounted'
<1> DEFINE e == at[t]
           w == CountDown(e)
<1>1. Enters(t) /\ pc[t] = "woken"
  BY CriticalSectionEnters DEF CountInv, Wake
<1>2. CountsOthers(t, w) /\ e \in Entry /\ ekey[e] = KeyOf(t)
  BY <1>1, CountDownCounts, WokenEntry DEF Needing
<1>3. CASE WaitFor(t, e, w)
  BY <1>1, <1>2, <1>3, WaitForCounted
<1>4. CASE GetComputed(t, e, w)
  BY <1>1, <1>2, <1>4, GetComputedCounted
<1>5. CASE \E s \in Size, d \in Ttl : PutExisting(t, e, s, d, w)
  BY <1>1, <1>2, <1>5, PutExistingCounted
<1> QED BY <1>3, <1>4, <1>5 DEF Wake

(* The critical section of Del.                                            *)
LEMMA DelCounted ==
  ASSUME CountInv, NEW t \in Thread, Del(t) PROVE KeysMatch' /\ WaitersCounted'
<1>1. Shrinks(entries') /\ UNCHANGED <<ekey, waitingForComputation>>
  BY CacheShrinks DEF Del, cacheVars, entryVars
<1>2. pc[t] \notin Needing
  BY DEF Del, InCriticalSection, Needing
<1> QED BY <1>1, <1>2, ReturnCounted, CountsWithout DEF Del

(* Get reads the value after it has released the mutex.                    *)
LEMMA ReadValueCounted ==
  ASSUME CountInv, NEW t \in Thread, ReadValue(t) PROVE KeysMatch' /\ WaitersCounted'
<1>1. Shrinks(entries') /\ UNCHANGED <<ekey, waitingForComputation>>
  BY CacheShrinks DEF ReadValue, cacheVars, entryVars
<1>2. pc[t] \notin Needing
  BY DEF ReadValue, Needing
<1> QED BY <1>1, <1>2, ReturnCounted, CountsWithout DEF ReadValue

(* The closure has returned: its value is stored, waiters are woken.       *)
LEMMA ComputeReturnsCounted ==
  ASSUME CountInv, NEW t \in Thread, ComputeReturns(t)
  PROVE  KeysMatch' /\ WaitersCounted'
<1>1. pc[t] \in Needing
  BY DEF ComputeReturns, Needing
<1>2. CountsOthers(t, CountDown(at[t]))
  BY <1>1, CountDownCounts
<1>3. /\ pc'[t] = "evicting"
      /\ \A u \in Thread \ {t} :
           /\ pc'[u] = pc[u] \/ (pc[u] = "waiting" /\ pc'[u] = "woken")
           /\ at'[u] = at[u]
  BY DEF CountInv, TypeInv, Typed, ComputeReturns, Awoken
<1>4. OthersStay(t) /\ pc'[t] \notin Needing
  BY <1>3 DEF OthersStay, Needing
<1>5. WaitersCounted'
  BY <1>2, <1>4, LeaveCounted DEF ComputeReturns
<1>6. KeysMatch'
  BY <1>3 DEF CountInv, KeysMatch, ComputeReturns, KeyOf, Needing
<1> QED BY <1>5, <1>6

(* The closure has panicked: the deferred function runs.                   *)
LEMMA ComputePanicsCounted ==
  ASSUME CountInv, NEW t \in Thread, ComputePanics(t)
  PROVE  KeysMatch' /\ WaitersCounted'
<1>1. CountsOthers(t, CountDown(at[t]))
  BY CountDownCounts DEF ComputePanics, InCriticalSection, Needing
<1>2. Shrinks(entries') /\ UNCHANGED ekey
  BY CacheShrinks DEF ComputePanics
<1> QED BY <1>1, <1>2, ReturnCounted DEF ComputePanics

(* The loops that run with the mutex held.                                 *)
LEMMA LoopCounted ==
  ASSUME CountInv, NEW t \in Thread,
         \/ EvictNext(t) \/ EvictDone(t) \/ KeysBegin(t) \/ KeysEnd(t)
         \/ \E k \in Key : KeysVisit(t, k)
  PROVE  KeysMatch' /\ WaitersCounted'
<1>1. UNCHANGED <<ekey, waitingForComputation>> /\ pc[t] \notin Needing
  BY DEF EvictNext, EvictDone, KeysBegin, KeysEnd, KeysVisit, entryVars, Needing
<1>2. Shrinks(entries')
  BY CacheShrinks
  DEF EvictNext, EvictDone, KeysBegin, KeysEnd, KeysVisit, KeysPanics, cacheVars
<1>3. /\ pc'[t] \in {"idle", "evicting", "scanning"}
      /\ \A u \in Thread \ {t} : /\ pc'[u] = pc[u] /\ at'[u] = at[u]
                                 /\ call'[u] = call[u]
  <2>1. CASE \E v : Return(t, v)
    BY <2>1, ReturnSteps DEF CountInv
  <2>2. CASE EvictNext(t)
    BY <2>2 DEF EvictNext, CountInv, TypeInv, Typed
  <2>3. CASE KeysBegin(t)
    BY <2>3 DEF KeysBegin, CountInv, TypeInv, Typed
  <2>4. ASSUME NEW k \in Key, KeysVisit(t, k), UNCHANGED threadVars PROVE <1>3
    BY <2>4 DEF KeysVisit, threadVars
  <2> QED BY <2>1, <2>2, <2>3, <2>4 DEF EvictDone, KeysEnd, KeysVisit, KeysPanics
<1> QED BY <1>1, <1>2, <1>3, QuietCounted DEF Needing

(* Every step counts the waiters.                                          *)
LEMMA NextCounted == ASSUME CountInv, [Next]_vars PROVE CountInv'
<1>1. TypeInv'
  BY NextTyped DEF CountInv
<1>2. CASE UNCHANGED vars \/ Tick
  BY <1>1, <1>2 DEF CountInv, KeysMatch, WaitersCounted, Computes, WaitsFor, KeyOf,
                    vars, Tick, cacheVars, entryVars, threadVars
<1>3. ASSUME NEW t \in Thread, Step(t) PROVE KeysMatch' /\ WaitersCounted'
  <2>1. CASE Locked(t)
    BY <2>1, GetCounted, PutCounted, DelCounted, WakeCounted, LoopCounted DEF Locked
  <2>2. CASE Compute(t)
    BY <2>2, ComputeReturnsCounted, ComputePanicsCounted DEF Compute
  <2>3. CASE Loop(t)
    BY <2>3, ReadValueCounted, LoopCounted DEF Loop
  <2> QED BY <1>3, <2>1, <2>2, <2>3, InvokeCounted DEF Step
<1> QED BY <1>1, <1>2, <1>3 DEF CountInv, Next, Finished

(* In an empty cache nobody waits and all counters are zero.               *)
LEMMA InitCounted == Init => CountInv
<1> SUFFICES ASSUME Init PROVE CountInv
  OBVIOUS
<1>1. \A e : Needers(e) = {}
  BY DEF Init, Needers, Computes, WaitsFor
<1>2. WaitersCounted
  BY <1>1, FS_EmptySet DEF WaitersCounted, Needers, Init
<1>3. KeysMatch
  BY DEF Init, KeysMatch, Needing
<1> QED BY <1>2, <1>3, InitTyped DEF CountInv

(* Types, keys and waiting counters are right in every reachable state,    *)
(* whatever the closures do.                                               *)
THEOREM CountInvHolds == Spec => []CountInv
<1>1. CountInv /\ [Next]_vars => CountInv'
  BY NextCounted
<1> QED BY InitCounted, <1>1, PTL DEF Spec

(* waitingForComputation is exact, whether closures panic or not.          *)
THEOREM WaitersAreCounted == Spec => []WaitersCounted
<1>1. CountInv => WaitersCounted
  BY DEF CountInv
<1> QED BY <1>1, CountInvHolds, PTL

(* Every variable of the cache and of its callers keeps its type.          *)
THEOREM TypesAreCorrect == Spec => []TypeOK
<1>1. CountInv => TypeOK
  <2> SUFFICES ASSUME CountInv PROVE TypeOK
    OBVIOUS
  <2>1. \A e \in Entry : waitingForComputation[e] \in Nat
    BY NeedersFinite, FS_CardinalityType DEF CountInv, WaitersCounted, Needers
  <2>2. waitingForComputation \in [Entry -> Nat]
    BY <2>1 DEF CountInv, TypeInv, Typed
  <2> QED BY <2>2 DEF CountInv, TypeInv, Typed, TypeOK
<1> QED BY <1>1, CountInvHolds, PTL

-----------------------------------------------------------------------------
(* From here on closures do not panic.                                     *)

(* An entry without expiration is one that exactly one goroutine computes. *)
Unfinished ==
  /\ \A t, u \in Thread :
       pc[t] = "computing" /\ pc[u] = "computing" /\ at[t] = at[u] => t = u
  /\ \A t \in Thread : pc[t] \in {"waiting", "computing"} => IsZero(at[t])
  /\ \A t \in Thread : pc[t] = "returning" => ~IsZero(at[t])
  /\ \A k \in Key : entries[k] # Nil /\ IsZero(entries[k])
       => \E t \in Thread : Computes(t, entries[k])
  /\ \A e \in Entry : ekey[e] = NoKey => IsZero(e)

(* The clock never yields a time that an entry turns into the zero time.   *)
Times == clock \in Nat /\ clock >= Epoch /\ \A t \in Thread : now[t] >= Epoch

(* A computed entry holds a value of its key.                              *)
Values ==
  /\ \A e \in Entry : ~IsZero(e) => value[e] = ekey[e]
  /\ \A t \in Thread : pc[t] = "evicting" => ret[t] = KeyOf(t)

(* The list is the computed part of the map.                               *)
ListsStored ==
  /\ Listed(list, Linked)
  /\ \A t \in Thread : pc[t] = "evicting" => at[t] \in Linked \cup {Nil}
  /\ \A e \in Entry : IsZero(e) => list.next[e] = Nil /\ list.prev[e] = Nil

MainInv ==
  CountInv /\ NeededEntriesStay /\ Unfinished /\ Times /\ Values /\ ListsStored
-----------------------------------------------------------------------------
(* The locals of the other goroutines do not change.                       *)
OthersSame(t) ==
  \A u \in Thread \ {t} :
    /\ pc'[u] = pc[u] /\ at'[u] = at[u] /\ call'[u] = call[u]
    /\ now'[u] = now[u] /\ ret'[u] = ret[u]

(* t moves alone: nobody else is in a loop.                                *)
Alone(t) == \A u \in Thread \ {t} : pc[u] # "evicting"

(* Who can have the mutex is the only one who can be in a loop.            *)
LEMMA MovesAlone ==
  ASSUME TypeInv, NEW t \in Thread, mutex \in {t, NoThread}
  PROVE  Alone(t)
BY DEF TypeInv, Exclusion, Alone

(* A step that leaves the entries as they are.                             *)
LEMMA QuietMain ==
  ASSUME MainInv, CountInv', NEW t \in Thread, OthersSame(t),
         pc[t] # "computing", pc'[t] \notin Needing \cup {"evicting"},
         pc'[t] = "returning" => ~IsZero(at'[t]),
         now'[t] >= Epoch, clock' = clock,
         UNCHANGED <<entries, list, ekey, value, expiration>>
  PROVE  MainInv'
<1>1. NeededEntriesStay'
  BY DEF MainInv, NeededEntriesStay, OthersSame, Needing, KeyOf
<1>2. Unfinished'
  BY DEF MainInv, Unfinished, OthersSame, Needing, IsZero, Computes
<1>3. Times'
  BY DEF MainInv, Times, OthersSame
<1>4. Values'
  BY DEF MainInv, Values, OthersSame, IsZero, KeyOf
<1>5. Linked' = Linked
  BY DEF Linked, IsZero
<1>6. ListsStored'
  BY <1>5 DEF MainInv, ListsStored, OthersSame, IsZero
<1> QED BY <1>1, <1>2, <1>3, <1>4, <1>6 DEF MainInv

(* The map after e has left it.                                            *)
Without(e) == [entries EXCEPT ![ekey[e]] = Nil]

(* Who else needs an entry finds it in the map without e.                  *)
LEMMA WithoutEntry ==
  ASSUME MainInv, NEW t \in Thread, NEW e \in Linked, Needers(e) \ {t} = {}
  PROVE  /\ e \in Entry /\ ekey[e] \in Key /\ entries[ekey[e]] = e
         /\ \A k \in Key : Without(e)[k] = IF k = ekey[e] THEN Nil ELSE entries[k]
         /\ \A k \in Key : entries[k] = e => k = ekey[e]
         /\ \A u \in Thread \ {t} : pc[u] \in Needing =>
              /\ at[u] # e
              /\ Without(e)[KeyOf(u)] = at[u]
         /\ {x \in Entry : ~IsZero(x) /\ \E k \in Key : Without(e)[k] = x} = Linked \ {e}
<1>1. e \in Entry /\ ekey[e] \in Key /\ entries[ekey[e]] = e
  BY DEF MainInv, CountInv, KeysMatch, Linked
<1>2. \A k \in Key : entries[k] = e => k = ekey[e]
  BY <1>1 DEF MainInv, CountInv, KeysMatch
<1>3. \A k \in Key : Without(e)[k] = IF k = ekey[e] THEN Nil ELSE entries[k]
  BY DEF MainInv, CountInv, TypeInv, Typed, Without
<1>4. ASSUME NEW u \in Thread \ {t}, pc[u] \in Needing
      PROVE  at[u] # e /\ Without(e)[KeyOf(u)] = at[u]
  <2>1. at[u] # e
    BY <1>4, NeedersMembers
  <2>2. KeyOf(u) \in Key /\ entries[KeyOf(u)] = at[u]
    BY <1>4 DEF MainInv, CountInv, TypeInv, LocalsOK, NeededEntriesStay, Needing, KeyOf
  <2> QED BY <1>1, <1>3, <2>1, <2>2
<1>5. {x \in Entry : ~IsZero(x) /\ \E k \in Key : Without(e)[k] = x} = Linked \ {e}
  BY <1>1, <1>2, <1>3 DEF Linked
<1> QED BY <1>1, <1>2, <1>3, <1>4, <1>5

(* A removed entry leaves the pointers of unfinished entries alone.        *)
LEMMA UnlinkKeepsUnfinished ==
  ASSUME MainInv, NEW e \in Linked, NEW x \in Entry, IsZero(x)
  PROVE  /\ UnlinkEntry(list, e).next[x] = Nil
         /\ UnlinkEntry(list, e).prev[x] = Nil
BY DEF MainInv, ListsStored, Listed, WellLinked, Links, UnlinkEntry, Linked, IsZero, List

(* Inserting one entry leaves the pointers of others outside the list.     *)
LEMMA InsertKeepsUnfinished ==
  ASSUME NEW l, NEW S, Listed(l, S), NEW e \in Entry, NEW x \in Entry \ (S \cup {e}),
         l.next[x] = Nil, l.prev[x] = Nil
  PROVE  /\ InsertFront(l, e).next[x] = Nil
         /\ InsertFront(l, e).prev[x] = Nil
BY DEF Listed, WellLinked, Ends, InsertFront, List

(* An entry is removed: Del, expiry, eviction.                             *)
LEMMA RemoveMain ==
  ASSUME MainInv, CountInv', NEW t \in Thread, OthersSame(t), Alone(t),
         NEW e \in Linked, Needers(e) \ {t} = {}, Evicted(e),
         entries' = Without(e),
         pc[t] # "computing", pc'[t] \notin Needing \cup {"returning"},
         pc'[t] = "evicting" => /\ at'[t] \in (Linked \ {e}) \cup {Nil}
                                /\ ret'[t] = KeyOf(t)'
                                /\ pc[t] = "evicting",
         now'[t] >= Epoch, clock' = clock,
         UNCHANGED <<ekey, value, expiration>>
  PROVE  MainInv'
<1>1. /\ e \in Entry /\ ekey[e] \in Key /\ entries[ekey[e]] = e
      /\ \A k \in Key : entries'[k] = IF k = ekey[e] THEN Nil ELSE entries[k]
      /\ \A u \in Thread \ {t} : pc[u] \in Needing =>
           at[u] # e /\ entries'[KeyOf(u)] = at[u]
      /\ {x \in Entry : ~IsZero(x) /\ \E k \in Key : entries'[k] = x} = Linked \ {e}
  BY WithoutEntry
<1>7. Linked' = Linked \ {e}
  BY <1>1 DEF Linked, IsZero
<1>2. NeededEntriesStay'
  BY <1>1 DEF NeededEntriesStay, OthersSame, Needing, KeyOf
<1>3. Unfinished'
  BY <1>1 DEF MainInv, Unfinished, OthersSame, Needing, IsZero, Computes
<1>4. Times'
  BY DEF MainInv, Times, OthersSame
<1>5. Values'
  BY DEF MainInv, Values, OthersSame, Alone, IsZero, KeyOf
<1>6. ListsStored'
  <2>1. Listed(list', Linked')
    BY <1>7, UnlinkEntryListed DEF MainInv, ListsStored, Evicted
  <2>2. \A u \in Thread : pc'[u] = "evicting" => at'[u] \in Linked' \cup {Nil}
    BY <1>7 DEF OthersSame, Alone
  <2>3. \A x \in Entry : IsZero(x)' => list'.next[x] = Nil /\ list'.prev[x] = Nil
    BY UnlinkKeepsUnfinished DEF IsZero, Evicted
  <2> QED BY <2>1, <2>2, <2>3 DEF ListsStored
<1> QED BY <1>2, <1>3, <1>4, <1>5, <1>6 DEF MainInv

(* e is the computed entry that t has found or waited for.                 *)
LEMMA FoundIsLinked ==
  ASSUME MainInv, NEW t \in Thread, Enters(t), NEW e \in Entry,
         entries[KeyOf(t)] = e, ~IsZero(e)
  PROVE  KeyOf(t) \in Key /\ e \in Linked /\ ekey[e] = KeyOf(t)
BY DEF MainInv, CountInv, TypeInv, LocalsOK, KeysMatch, Enters, KeyOf, Linked

(* An entry that is used moves to the front.                               *)
LEMMA UseListed ==
  ASSUME MainInv, NEW e \in Linked, NEW l,
         l = MoveToFront(list, e) \/ l = InsertFront(UnlinkEntry(list, e), e)
  PROVE  /\ Listed(l, Linked)
         /\ \A x \in Entry : IsZero(x) => l.next[x] = Nil /\ l.prev[x] = Nil
<1>1. Listed(list, Linked) /\ e \in Entry
  BY DEF MainInv, ListsStored, Linked
<1>2. Listed(UnlinkEntry(list, e), Linked \ {e})
  BY <1>1, UnlinkEntryListed
<1> DEFINE m == InsertFront(UnlinkEntry(list, e), e)
<1>3. Listed(m, Linked)
  <2>1. Listed(m, (Linked \ {e}) \cup {e})
    BY <1>1, <1>2, InsertFrontListed
  <2>2. (Linked \ {e}) \cup {e} = Linked
    OBVIOUS
  <2> QED BY <2>1, <2>2
<1>4. ASSUME NEW x \in Entry, IsZero(x)
      PROVE  m.next[x] = Nil /\ m.prev[x] = Nil
  <2>1. x \notin Linked
    BY <1>4 DEF Linked
  <2> QED BY <1>1, <1>2, <1>4, <2>1, UnlinkKeepsUnfinished, InsertKeepsUnfinished
<1>5. CASE l = m
  BY <1>3, <1>4, <1>5
<1>6. CASE l = list
  BY <1>1, <1>6 DEF MainInv, ListsStored
<1> QED BY <1>5, <1>6 DEF MoveToFront

(* The entry is being computed: the goroutine goes to sleep.               *)
LEMMA WaitForMain ==
  ASSUME MainInv, CountInv', NEW t \in Thread, Enters(t), pc[t] # "computing",
         NEW e \in Entry, entries[KeyOf(t)] = e, IsZero(e),
         NEW wait, WaitFor(t, e, wait)
  PROVE  MainInv'
<1>1. pc'[t] = "waiting" /\ at'[t] = e /\ OthersSame(t)
  BY DEF MainInv, CountInv, TypeInv, Typed, WaitFor, OthersSame
<1>2. NeededEntriesStay'
  BY <1>1 DEF MainInv, NeededEntriesStay, OthersSame, WaitFor, KeyOf, cacheVars
<1>3. Unfinished'
  BY <1>1 DEF MainInv, Unfinished, OthersSame, WaitFor, IsZero, Computes, cacheVars
<1>4. Times'
  BY DEF MainInv, Times, WaitFor, Enters, boundVars
<1>5. Values'
  BY <1>1 DEF MainInv, Values, OthersSame, WaitFor, IsZero, KeyOf
<1>6. Linked' = Linked
  BY DEF WaitFor, Linked, IsZero, cacheVars
<1>7. ListsStored'
  BY <1>1, <1>6 DEF MainInv, ListsStored, OthersSame, WaitFor, IsZero, cacheVars
<1> QED BY <1>2, <1>3, <1>4, <1>5, <1>7 DEF MainInv

(* Get finds a computed entry that has not expired.                        *)
LEMMA FreshMain ==
  ASSUME MainInv, CountInv', NEW t \in Thread, Enters(t), pc[t] # "computing",
         NEW e \in Entry, entries[KeyOf(t)] = e, ~IsZero(e),
         NEW wait, GetFresh(t, e, wait)
  PROVE  MainInv'
<1>1. pc'[t] = "returning" /\ at'[t] = e /\ OthersSame(t)
  BY DEF MainInv, CountInv, TypeInv, Typed, GetFresh, UnlockThenRead, OthersSame
<1>2. NeededEntriesStay'
  BY <1>1 DEF MainInv, NeededEntriesStay, OthersSame, GetFresh, UnlockThenRead, KeyOf
<1>3. Unfinished'
  BY <1>1 DEF MainInv, Unfinished, OthersSame, GetFresh, IsZero, Computes
<1>4. Times'
  BY <1>1 DEF MainInv, Times, GetFresh, UnlockThenRead, Enters, boundVars
<1>5. Values'
  BY <1>1 DEF MainInv, Values, OthersSame, GetFresh, IsZero, KeyOf
<1>6. Linked' = Linked
  BY DEF GetFresh, Linked, IsZero
<1>7. ListsStored'
  <2>1. e \in Linked
    BY FoundIsLinked
  <2>2. /\ Listed(list', Linked)
        /\ \A x \in Entry : IsZero(x) => list'.next[x] = Nil /\ list'.prev[x] = Nil
    BY <2>1, UseListed DEF GetFresh
  <2> QED BY <1>1, <1>6, <2>2 DEF MainInv, ListsStored, OthersSame, GetFresh, IsZero
<1> QED BY <1>2, <1>3, <1>4, <1>5, <1>7 DEF MainInv

(* A waiter finds that its entry has expired since.                        *)
LEMMA StaleMain ==
  ASSUME MainInv, CountInv', NEW t \in Thread, Enters(t), pc[t] # "computing",
         NEW e \in Entry, ~IsZero(e), NEW wait, GetStale(t, e, wait)
  PROVE  MainInv'
<1>1. pc'[t] = "returning" /\ at'[t] = e /\ OthersSame(t) /\ now'[t] >= Epoch
  BY DEF MainInv, CountInv, TypeInv, Typed, GetStale, UnlockThenRead, OthersSame, Times
<1> QED BY <1>1, QuietMain DEF GetStale, Enters, Needing, cacheVars, boundVars

(* A time that an entry gets is not the zero time.                         *)
LEMMA NeverZero ==
  ASSUME MainInv, NEW t \in Thread, NEW d \in Ttl
  PROVE  now[t] + d # 0
BY DEF MainInv, CountInv, TypeInv, Typed, Times

(* Put overwrites a computed entry.                                        *)
LEMMA PutExistingMain ==
  ASSUME MainInv, CountInv', NEW t \in Thread, Enters(t), pc[t] # "computing",
         NEW e \in Entry, entries[KeyOf(t)] = e, ~IsZero(e),
         NEW s \in Size, NEW d \in Ttl, NEW wait, PutExisting(t, e, s, d, wait)
  PROVE  MainInv'
<1>1. pc'[t] = "idle" /\ OthersSame(t) /\ now'[t] = Epoch
  BY ReturnSteps DEF MainInv, CountInv, TypeInv, Typed, PutExisting, OthersSame, Return
<1>2. /\ \A x \in Entry : IsZero(x)' <=> IsZero(x)
      /\ value'[e] = ekey[e] /\ \A x \in Entry \ {e} : value'[x] = value[x]
  BY NeverZero, FoundIsLinked
  DEF MainInv, CountInv, TypeInv, Typed, PutExisting, IsZero
<1>3. NeededEntriesStay'
  BY <1>1 DEF MainInv, NeededEntriesStay, OthersSame, PutExisting, KeyOf
<1>4. Unfinished'
  <2>1. \A u \in Thread : pc[u] \in Needing \cup {"returning"} => at[u] \in Entry
    BY DEF MainInv, CountInv, TypeInv, LocalsOK, Needing
  <2>2. \A k \in Key : entries[k] # Nil => entries[k] \in Entry
    BY DEF MainInv, CountInv, TypeInv, Typed, Pointer
  <2> QED BY <1>1, <1>2, <2>1, <2>2
          DEF MainInv, Unfinished, OthersSame, PutExisting, Computes, Needing
<1>5. Times'
  BY <1>1 DEF MainInv, Times, OthersSame, Enters, boundVars
<1>6. Values'
  BY <1>1, <1>2 DEF MainInv, Values, OthersSame, PutExisting, KeyOf
<1>7. Linked' = Linked
  BY <1>2 DEF PutExisting, Linked
<1>8. ListsStored'
  <2>1. e \in Linked
    BY FoundIsLinked
  <2>2. /\ Listed(list', Linked)
        /\ \A x \in Entry : IsZero(x) => list'.next[x] = Nil /\ list'.prev[x] = Nil
    BY <2>1, UseListed DEF PutExisting
  <2> QED BY <1>1, <1>2, <1>7, <2>2 DEF MainInv, ListsStored, OthersSame
<1> QED BY <1>3, <1>4, <1>5, <1>6, <1>8 DEF MainInv

(* Put of a new key.                                                       *)
LEMMA PutNewMain ==
  ASSUME MainInv, CountInv', NEW t \in Thread, Enters(t), pc[t] = "locking",
         entries[KeyOf(t)] = Nil, NEW s \in Size, NEW d \in Ttl, PutNew(t, s, d)
  PROVE  MainInv'
<1> DEFINE n == NewEntry
<1>1. n \in Entry /\ ekey[n] = NoKey /\ (\A k \in Key : entries[k] # n)
      /\ Needers(n) = {} /\ IsZero(n) /\ n \notin Linked
  BY NewEntryUnused DEF MainInv, PutNew, Unfinished, Linked
<1>2. pc'[t] = "idle" /\ OthersSame(t) /\ now'[t] = Epoch /\ KeyOf(t) \in Key
  BY ReturnSteps DEF MainInv, CountInv, TypeInv, Typed, LocalsOK, PutNew,
                     OthersSame, Return, KeyOf
<1>3. /\ entries'[KeyOf(t)] = n
      /\ \A k \in Key \ {KeyOf(t)} : entries'[k] = entries[k]
      /\ expiration'[n] = now[t] + d /\ value'[n] = KeyOf(t) /\ ekey'[n] = KeyOf(t)
      /\ \A x \in Entry \ {n} : /\ expiration'[x] = expiration[x]
                                /\ value'[x] = value[x] /\ ekey'[x] = ekey[x]
  BY <1>1, <1>2 DEF MainInv, CountInv, TypeInv, Typed, PutNew
<1>4. expiration'[n] # 0 /\ \A x \in Entry \ {n} : IsZero(x)' <=> IsZero(x)
  BY <1>3, NeverZero DEF IsZero
<1>5. \A u \in Thread \ {t} : pc[u] \in Needing \cup {"returning"} =>
        at[u] \in Entry \ {n} /\ KeyOf(u) \in Key
  <2>1. \A u \in Thread \ {t} : pc[u] \in Needing \cup {"returning"} =>
          /\ at[u] \in Entry /\ KeyOf(u) \in Key /\ ekey[at[u]] = KeyOf(u)
    BY DEF MainInv, CountInv, TypeInv, LocalsOK, KeysMatch, Needing, KeyOf
  <2> QED BY <1>1, <2>1
<1>6. NeededEntriesStay'
  BY <1>1, <1>2, <1>3, <1>5 DEF MainInv, NeededEntriesStay, OthersSame, Needing, KeyOf
<1>7. Unfinished'
  <2>1. \A k \in Key : entries[k] # Nil => entries[k] \in Entry \ {n}
    BY <1>1 DEF MainInv, CountInv, TypeInv, Typed, Pointer
  <2>2. ASSUME NEW k \in Key, entries'[k] # Nil, IsZero(entries[k])'
        PROVE  \E u \in Thread : Computes(u, entries[k])'
    <3>1. k # KeyOf(t) /\ entries'[k] = entries[k] /\ IsZero(entries[k])
      BY <1>3, <1>4, <2>1, <2>2 DEF IsZero
    <3>2. PICK u \in Thread : Computes(u, entries[k])
      BY <2>2, <3>1 DEF MainInv, Unfinished
    <3>3. u # t
      BY <3>2 DEF Computes
    <3> QED BY <1>2, <3>1, <3>2, <3>3 DEF OthersSame, Computes
  <2>3. \A u \in Thread : pc'[u] \in {"waiting", "computing"} => IsZero(at[u])'
    BY <1>2, <1>4, <1>5 DEF MainInv, Unfinished, OthersSame, Needing
  <2>4. \A u \in Thread : pc'[u] = "returning" => ~IsZero(at[u])'
    BY <1>2, <1>4, <1>5 DEF MainInv, Unfinished, OthersSame
  <2>5. \A e \in Entry : ekey'[e] = NoKey => IsZero(e)'
    BY <1>2, <1>3, <1>4 DEF MainInv, Unfinished
  <2> QED BY <1>2, <2>2, <2>3, <2>4, <2>5 DEF MainInv, Unfinished, OthersSame, IsZero
<1>8. Times'
  BY <1>2 DEF MainInv, Times, OthersSame, Enters, boundVars
<1>9. Values'
  BY <1>2, <1>3, <1>4 DEF MainInv, Values, OthersSame, KeyOf
<1>10. Linked' = Linked \cup {n}
  <2>1. ASSUME NEW x \in Entry PROVE x \in Linked' <=> x \in Linked \cup {n}
    <3>1. CASE x = n
      BY <1>2, <1>3, <1>4, <3>1 DEF Linked, IsZero
    <3>2. CASE x # n
      BY <1>3, <1>4, <3>2 DEF Linked, IsZero
    <3> QED BY <3>1, <3>2
  <2> QED BY <1>1, <2>1 DEF Linked
<1>11. ListsStored'
  <2>1. Listed(list', Linked')
    BY <1>1, <1>10, InsertFrontListed DEF MainInv, ListsStored, PutNew
  <2>2. Alone(t)
    BY MovesAlone DEF MainInv, CountInv, Enters
  <2>3. ASSUME NEW x \in Entry, IsZero(x)'
        PROVE  list'.next[x] = Nil /\ list'.prev[x] = Nil
    <3>1. x # n /\ IsZero(x) /\ x \notin Linked
      BY <1>4, <2>3 DEF Linked, IsZero
    <3> QED BY <1>1, <3>1, InsertKeepsUnfinished DEF MainInv, ListsStored, PutNew
  <2> QED BY <1>2, <2>1, <2>2, <2>3 DEF ListsStored, OthersSame, Alone
<1> QED BY <1>6, <1>7, <1>8, <1>9, <1>11 DEF MainInv

(* t starts to compute, with the map ents and the list it has left.        *)
LEMMA StartMain ==
  ASSUME MainInv, CountInv', NEW t \in Thread, Enters(t), pc[t] # "computing",
         NEW ents \in [Key -> Pointer], NEW wait, StartComputation(t, ents, wait),
         ents[KeyOf(t)] = Nil,
         \A k \in Key : ents[k] = Nil \/ ents[k] = entries[k],
         \A u \in Thread \ {t} : pc[u] \in Needing => ents[KeyOf(u)] = at[u],
         NEW S, S = {x \in Entry : ~IsZero(x) /\ \E k \in Key : ents[k] = x},
         Listed(list', S),
         \A x \in Entry : IsZero(x) => list'.next[x] = Nil /\ list'.prev[x] = Nil
  PROVE  MainInv'
<1> DEFINE n == NewEntry
<1>1. n \in Entry /\ ekey[n] = NoKey /\ (\A k \in Key : entries[k] # n)
      /\ Needers(n) = {} /\ IsZero(n)
  BY NewEntryUnused DEF MainInv, StartComputation, Unfinished
<1>2. pc'[t] = "computing" /\ at'[t] = n /\ OthersSame(t) /\ now' = now
  BY DEF MainInv, CountInv, TypeInv, Typed, StartComputation, OthersSame
<1>3. KeyOf(t) \in Key /\ entries'[KeyOf(t)] = n
      /\ \A k \in Key \ {KeyOf(t)} : entries'[k] = ents[k]
  BY DEF MainInv, CountInv, TypeInv, LocalsOK, StartComputation, Enters, KeyOf
<1>4. \A u \in Thread \ {t} : pc[u] \in Needing =>
        at[u] \in Entry \ {n} /\ KeyOf(u) \in Key
  BY <1>1, NeedersMembers DEF MainInv, CountInv, TypeInv, LocalsOK, Needing, KeyOf
<1>5. Alone(t)
  BY MovesAlone DEF MainInv, CountInv, Enters
<1>6. NeededEntriesStay'
  BY <1>2, <1>3, <1>4
  DEF NeededEntriesStay, StartComputation, OthersSame, Needing, KeyOf
<1>7. Unfinished'
  <2>1. ASSUME NEW k \in Key, entries'[k] # Nil, IsZero(entries[k])'
        PROVE  \E u \in Thread : Computes(u, entries[k])'
    <3>1. CASE k = KeyOf(t)
      BY <1>2, <1>3, <3>1 DEF Computes
    <3>2. CASE k # KeyOf(t)
      <4>1. entries'[k] = entries[k] /\ IsZero(entries[k]) /\ entries[k] # Nil
        BY <1>3, <2>1, <3>2 DEF IsZero, StartComputation
      <4>2. PICK u \in Thread : Computes(u, entries[k])
        BY <4>1 DEF MainInv, Unfinished
      <4> QED BY <1>2, <4>1, <4>2 DEF OthersSame, Computes
    <3> QED BY <3>1, <3>2
  <2>2. \A u \in Thread : pc'[u] \in {"waiting", "computing"} => IsZero(at'[u])
    BY <1>1, <1>2 DEF MainInv, Unfinished, OthersSame
  <2>3. \A u, v \in Thread :
          pc'[u] = "computing" /\ pc'[v] = "computing" /\ at'[u] = at'[v] => u = v
    BY <1>2, <1>4 DEF MainInv, Unfinished, OthersSame, Needing
  <2>4. \A e \in Entry : ekey'[e] = NoKey => IsZero(e)
    BY <1>1, <1>3 DEF MainInv, Unfinished, StartComputation, CountInv, TypeInv, Typed
  <2> QED BY <1>2, <2>1, <2>2, <2>3, <2>4
          DEF MainInv, Unfinished, OthersSame, IsZero, StartComputation
<1>8. Times'
  BY <1>2 DEF MainInv, Times, Enters, boundVars
<1>9. Values'
  BY <1>1, <1>2, <1>5
  DEF MainInv, Values, OthersSame, Alone, IsZero, StartComputation, KeyOf,
      CountInv, TypeInv, Typed
<1>10. Linked' = S
  <2>1. ASSUME NEW x \in Entry PROVE x \in Linked' <=> x \in S
    <3>1. CASE x = n
      BY <1>1, <3>1 DEF Linked, IsZero, StartComputation
    <3>2. CASE x # n
      BY <1>3, <3>2 DEF Linked, IsZero, StartComputation
    <3> QED BY <3>1, <3>2
  <2> QED BY <2>1 DEF Linked
<1>11. ListsStored'
  BY <1>2, <1>5, <1>10 DEF ListsStored, OthersSame, Alone, IsZero, StartComputation
<1> QED BY <1>6, <1>7, <1>8, <1>9, <1>11 DEF MainInv

(* Whoever waits for the entry that t has computed is woken: the counter   *)
(* says that somebody waits.                                               *)
LEMMA WaitersAwake ==
  ASSUME MainInv, NEW t \in Thread, ComputeReturns(t), NEW u \in Thread,
         pc[u] = "waiting", at[u] = at[t]
  PROVE  pc'[u] = "woken"
<1> DEFINE e == at[t]
<1>1. e \in Entry /\ CountsOthers(t, CountDown(e)) /\ waitingForComputation' = CountDown(e)
  BY CountDownCounts
  DEF MainInv, CountInv, TypeInv, LocalsOK, ComputeReturns, Needing
<1>2. u \in Needers(e) \ {t}
  BY NeedersMembers DEF ComputeReturns, Needing
<1>3. IsFiniteSet(Needers(e) \ {t})
  BY NeedersFinite
<1>4. Cardinality(Needers(e) \ {t}) \in Nat /\ Cardinality(Needers(e) \ {t}) # 0
  BY <1>2, <1>3, FS_CardinalityType, FS_EmptySet
<1>5. waitingForComputation'[e] > 0
  BY <1>1, <1>4 DEF CountsOthers
<1> QED BY <1>5 DEF ComputeReturns, Awoken

(* The closure has returned: its value is stored, waiters are woken.       *)
LEMMA ComputeReturnsMain ==
  ASSUME MainInv, CountInv', NEW t \in Thread, ComputeReturns(t)
  PROVE  MainInv'
<1> DEFINE e == at[t]
<1>1. /\ e \in Entry /\ KeyOf(t) \in Key /\ entries[KeyOf(t)] = e
      /\ ekey[e] = KeyOf(t) /\ IsZero(e) /\ e \notin Linked
  BY DEF MainInv, CountInv, TypeInv, LocalsOK, KeysMatch, NeededEntriesStay,
         Unfinished, ComputeReturns, Needing, KeyOf, Linked
<1>2. /\ pc'[t] = "evicting" /\ at'[t] = list'.tail /\ ret'[t] = KeyOf(t)
      /\ \A u \in Thread \ {t} : /\ at'[u] = at[u] /\ ret'[u] = ret[u]
                                 /\ pc'[u] = pc[u] \/ (pc[u] = "waiting" /\ pc'[u] = "woken")
      /\ call' = call /\ now' = now /\ entries' = entries /\ ekey' = ekey
  <2>1. /\ at'[t] = list'.tail /\ ret'[t] = KeyOf(t)
        /\ \A u \in Thread \ {t} : at'[u] = at[u] /\ ret'[u] = ret[u]
    BY DEF MainInv, CountInv, TypeInv, Typed, ComputeReturns, FirstCandidate
  <2>2. /\ pc'[t] = "evicting"
        /\ \A u \in Thread \ {t} :
             pc'[u] = pc[u] \/ (pc[u] = "waiting" /\ pc'[u] = "woken")
    <3>1. \A w : Awoken(w) \in SUBSET {u \in Thread : pc[u] = "waiting"}
      BY DEF Awoken
    <3>2. PICK woken \in SUBSET {u \in Thread : pc[u] = "waiting"} :
            pc' = [x \in Thread |-> IF x = t THEN "evicting"
                                    ELSE IF x \in woken THEN "woken" ELSE pc[x]]
      BY <3>1 DEF ComputeReturns
    <3> QED BY <3>2
  <2> QED BY <2>1, <2>2 DEF ComputeReturns
<1>3. /\ expiration'[e] # 0 /\ value'[e] = KeyOf(t)
      /\ \A x \in Entry \ {e} : expiration'[x] = expiration[x] /\ value'[x] = value[x]
  <2>1. PICK d \in Ttl : expiration' = [expiration EXCEPT ![e] = now[t] + d]
    BY DEF ComputeReturns
  <2> QED BY <1>1, <2>1, NeverZero DEF MainInv, CountInv, TypeInv, Typed, ComputeReturns
<1>4. \A u \in Thread : pc[u] \in Needing \cup {"returning"} => at[u] \in Entry
  BY DEF MainInv, CountInv, TypeInv, LocalsOK, Needing
<1>5. Alone(t)
  BY MovesAlone DEF MainInv, CountInv, ComputeReturns
<1>6. NeededEntriesStay'
  BY <1>2 DEF MainInv, NeededEntriesStay, Needing, KeyOf
<1>7. Unfinished'
  <2>1. \A u, v \in Thread :
          pc'[u] = "computing" /\ pc'[v] = "computing" /\ at'[u] = at'[v] => u = v
    BY <1>2 DEF MainInv, Unfinished
  <2>2. ASSUME NEW u \in Thread, pc'[u] \in {"waiting", "computing"}
        PROVE  expiration'[at'[u]] = 0
    <3>1. u # t /\ pc[u] = pc'[u] /\ at'[u] = at[u] /\ at[u] \in Entry
      BY <1>2, <1>4, <2>2 DEF Needing
    <3>2. at[u] # e
      <4>1. CASE pc[u] = "waiting"
        BY <3>1, <4>1, WaitersAwake
      <4>2. CASE pc[u] = "computing"
        BY <3>1, <4>2 DEF MainInv, Unfinished, ComputeReturns
      <4> QED BY <2>2, <3>1, <4>1, <4>2
    <3>3. expiration[at[u]] = 0
      BY <2>2, <3>1 DEF MainInv, Unfinished, IsZero
    <3> QED BY <1>3, <3>1, <3>2, <3>3
  <2>3. ASSUME NEW u \in Thread, pc'[u] = "returning"
        PROVE  expiration'[at'[u]] # 0
    BY <1>2, <1>3, <1>4, <2>3 DEF MainInv, Unfinished, IsZero
  <2>4. ASSUME NEW k \in Key, entries[k] # Nil, expiration'[entries[k]] = 0
        PROVE  \E u \in Thread : Computes(u, entries[k])'
    <3>1. entries[k] \in Entry \ {e} /\ IsZero(entries[k])
      BY <1>3, <2>4 DEF MainInv, CountInv, TypeInv, Typed, Pointer, IsZero
    <3>2. PICK u \in Thread : Computes(u, entries[k])
      BY <2>4, <3>1 DEF MainInv, Unfinished
    <3> QED BY <1>2, <3>1, <3>2 DEF Computes
  <2>5. \A x \in Entry : ekey'[x] = NoKey => expiration'[x] = 0
    BY <1>1, <1>2, <1>3 DEF MainInv, Unfinished, IsZero
  <2> QED BY <1>2, <2>1, <2>2, <2>3, <2>4, <2>5 DEF Unfinished, IsZero
<1>8. Times'
  BY <1>2 DEF MainInv, Times, ComputeReturns, boundVars
<1>9. Values'
  BY <1>1, <1>2, <1>3, <1>5 DEF MainInv, Values, IsZero, KeyOf, Alone
<1>10. Linked' = Linked \cup {e}
  <2>1. ASSUME NEW x \in Entry PROVE x \in Linked' <=> x \in Linked \cup {e}
    BY <1>1, <1>2, <1>3 DEF Linked, IsZero
  <2> QED BY <1>1, <2>1 DEF Linked
<1>11. ListsStored'
  <2>1. Listed(list', Linked')
    BY <1>1, <1>10, InsertFrontListed DEF MainInv, ListsStored, ComputeReturns
  <2>2. list'.tail \in Linked' \cup {Nil}
    BY <2>1 DEF Listed, WellLinked, Ends
  <2>3. ASSUME NEW x \in Entry, expiration'[x] = 0
        PROVE  list'.next[x] = Nil /\ list'.prev[x] = Nil
    <3>1. x # e /\ IsZero(x) /\ x \notin Linked
      BY <1>3, <2>3 DEF Linked, IsZero
    <3> QED BY <1>1, <3>1, InsertKeepsUnfinished
            DEF MainInv, ListsStored, ComputeReturns
  <2> QED BY <1>2, <1>5, <2>1, <2>2, <2>3 DEF ListsStored, IsZero, Alone
<1> QED BY <1>6, <1>7, <1>8, <1>9, <1>11 DEF MainInv

(* Get and Wake from the point at which the entry is computed.             *)
LEMMA GetComputedMain ==
  ASSUME MainInv, CountInv', NEW t \in Thread, Enters(t), pc[t] # "computing",
         NEW e \in Entry, entries[KeyOf(t)] = e, ~IsZero(e),
         NEW wait, CountsOthers(t, wait), GetComputed(t, e, wait)
  PROVE  MainInv'
<1>1. CASE GetFresh(t, e, wait)
  BY <1>1, FreshMain
<1>2. CASE GetStale(t, e, wait)
  BY <1>2, StaleMain
<1>3. CASE GetExpired(t, e, wait)
  <2>1. e \in Linked /\ ekey[e] = KeyOf(t) /\ KeyOf(t) \in Key
    BY FoundIsLinked
  <2>2. Needers(e) \ {t} = {} /\ Evicted(e) /\ Miss(t, Without(e), wait)
    BY <1>3, NobodyNeeds DEF GetExpired, Without
  <2>3. Without(e) \in [Key -> Pointer] /\ Without(e)[KeyOf(t)] = Nil
        /\ \A k \in Key : Without(e)[k] = Nil \/ Without(e)[k] = entries[k]
    BY <2>1 DEF Without, MainInv, CountInv, TypeInv, Typed, Pointer
  <2>4. CASE StartComputation(t, Without(e), wait)
    <3>1. Listed(list', Linked \ {e})
      BY <2>1, <2>2, UnlinkEntryListed DEF MainInv, ListsStored, Evicted
    <3>2. \A x \in Entry : IsZero(x) => list'.next[x] = Nil /\ list'.prev[x] = Nil
      BY <2>1, <2>2, UnlinkKeepsUnfinished DEF Evicted
    <3>3. /\ \A u \in Thread \ {t} : pc[u] \in Needing => Without(e)[KeyOf(u)] = at[u]
          /\ {x \in Entry : ~IsZero(x) /\ \E k \in Key : Without(e)[k] = x} = Linked \ {e}
      BY <2>1, <2>2, WithoutEntry
    <3> QED BY <2>3, <2>4, <3>1, <3>2, <3>3, StartMain
  <2>5. CASE /\ Return(t, NoValue)
             /\ entries' = Without(e)
             /\ UNCHANGED <<ekey, value, expiration>>
    <3>1. pc'[t] = "idle" /\ OthersSame(t) /\ now'[t] = Epoch
      BY <2>5, ReturnSteps DEF MainInv, CountInv, TypeInv, Typed, OthersSame, Return
    <3>2. Alone(t)
      BY MovesAlone DEF MainInv, CountInv, Enters
    <3> QED BY <2>1, <2>2, <2>5, <3>1, <3>2, RemoveMain
            DEF Enters, boundVars, Needing
  <2> QED BY <2>2, <2>4, <2>5 DEF Miss
<1> QED BY <1>1, <1>2, <1>3 DEF GetComputed

-----------------------------------------------------------------------------
(* One lemma per action.                                                   *)

(* A goroutine calls an operation and waits for the mutex.                 *)
LEMMA InvokeMain ==
  ASSUME MainInv, CountInv', NEW t \in Thread, Invoke(t) PROVE MainInv'
<1>1. pc[t] = "idle" /\ pc'[t] = "locking" /\ OthersSame(t) /\ now'[t] >= Epoch
  BY DEF MainInv, CountInv, TypeInv, Typed, Times, Invoke, OthersSame
<1> QED BY <1>1, QuietMain DEF Invoke, Needing, cacheVars, entryVars

(* A call returns and leaves the entries as they are.                      *)
LEMMA ReturnMain ==
  ASSUME MainInv, CountInv', NEW t \in Thread, pc[t] # "computing",
         NEW v, Return(t, v), clock' = clock,
         UNCHANGED <<entries, list, ekey, value, expiration>>
  PROVE  MainInv'
<1>1. pc'[t] = "idle" /\ OthersSame(t) /\ now'[t] = Epoch
  BY ReturnSteps DEF MainInv, CountInv, TypeInv, Typed, OthersSame, Return
<1> QED BY <1>1, QuietMain DEF Needing

(* The critical section of Get up to its first unlock.                     *)
LEMMA GetMain ==
  ASSUME MainInv, CountInv', NEW t \in Thread, Get(t) PROVE MainInv'
<1> DEFINE e == entries[KeyOf(t)]
           w == waitingForComputation
<1>1. Enters(t) /\ pc[t] = "locking"
  BY CriticalSectionEnters DEF MainInv, CountInv, Get
<1>2. CountsOthers(t, w)
  BY <1>1, CountsWithout DEF MainInv, Needing
<1>3. e # Nil => e \in Entry
  BY <1>1, FoundEntry DEF MainInv
<1>4. CASE e # Nil /\ IsZero(e) /\ WaitFor(t, e, w)
  BY <1>1, <1>3, <1>4, WaitForMain
<1>5. CASE e # Nil /\ ~IsZero(e) /\ GetComputed(t, e, w)
  BY <1>1, <1>2, <1>3, <1>5, GetComputedMain
<1>6. CASE e = Nil /\ Miss(t, entries, w) /\ UNCHANGED <<usedmemory, list>>
  <2>1. CASE StartComputation(t, entries, w)
    <3>1. entries \in [Key -> Pointer] /\ Listed(list', Linked)
          /\ \A x \in Entry : IsZero(x) => list'.next[x] = Nil /\ list'.prev[x] = Nil
      BY <1>6 DEF MainInv, CountInv, TypeInv, Typed, ListsStored
    <3>2. \A u \in Thread \ {t} : pc[u] \in Needing => entries[KeyOf(u)] = at[u]
      BY DEF MainInv, NeededEntriesStay, Needing
    <3>3. Linked = {x \in Entry : ~IsZero(x) /\ \E k \in Key : entries[k] = x}
      BY DEF Linked
    <3> QED BY <1>1, <1>6, <2>1, <3>1, <3>2, <3>3, StartMain
  <2>2. CASE Return(t, NoValue) /\ entries' = entries
             /\ UNCHANGED <<ekey, value, expiration>>
    BY <1>1, <1>6, <2>2, ReturnMain DEF Enters, boundVars
  <2> QED BY <1>6, <2>1, <2>2 DEF Miss
<1> QED BY <1>4, <1>5, <1>6 DEF Get

(* The critical section of Put.                                            *)
LEMMA PutMain ==
  ASSUME MainInv, CountInv', NEW t \in Thread, Put(t) PROVE MainInv'
<1> DEFINE e == entries[KeyOf(t)]
           w == waitingForComputation
<1>1. Enters(t) /\ pc[t] = "locking"
  BY CriticalSectionEnters DEF MainInv, CountInv, Put
<1>2. e # Nil => e \in Entry
  BY <1>1, FoundEntry DEF MainInv
<1>3. CASE e # Nil /\ IsZero(e) /\ WaitFor(t, e, w)
  BY <1>1, <1>2, <1>3, WaitForMain
<1>4. CASE /\ e # Nil /\ ~IsZero(e)
           /\ \E s \in Size, d \in Ttl : PutExisting(t, e, s, d, w)
  BY <1>1, <1>2, <1>4, PutExistingMain
<1>5. CASE e = Nil /\ \E s \in Size, d \in Ttl : PutNew(t, s, d)
  BY <1>1, <1>5, PutNewMain
<1> QED BY <1>3, <1>4, <1>5 DEF Put

(* A goroutine returns from cond.Wait and looks at its entry again.        *)
LEMMA WakeMain ==
  ASSUME MainInv, CountInv', NEW t \in Thread, Wake(t) PROVE MainInv'
<1> DEFINE e == at[t]
           w == CountDown(e)
<1>1. Enters(t) /\ pc[t] = "woken"
  BY CriticalSectionEnters DEF MainInv, CountInv, Wake
<1>2. CountsOthers(t, w) /\ e \in Entry /\ entries[KeyOf(t)] = e
  BY <1>1, CountDownCounts, WokenEntry DEF MainInv, NeededEntriesStay, Needing
<1>3. CASE IsZero(e) /\ WaitFor(t, e, w)
  BY <1>1, <1>2, <1>3, WaitForMain
<1>4. CASE ~IsZero(e) /\ GetComputed(t, e, w)
  BY <1>1, <1>2, <1>4, GetComputedMain
<1>5. CASE ~IsZero(e) /\ \E s \in Size, d \in Ttl : PutExisting(t, e, s, d, w)
  BY <1>1, <1>2, <1>5, PutExistingMain
<1> QED BY <1>3, <1>4, <1>5 DEF Wake, WaitsAgain

(* Get reads the value after it has released the mutex.                    *)
LEMMA ReadValueMain ==
  ASSUME MainInv, CountInv', NEW t \in Thread, ReadValue(t) PROVE MainInv'
BY ReturnMain DEF ReadValue, cacheVars, entryVars, boundVars

(* An entry that nobody needs is computed: its computing goroutine would   *)
(* need it.                                                                *)
LEMMA UnneededIsLinked ==
  ASSUME MainInv, NEW t \in Thread, pc[t] \notin Needing, NEW k \in Key,
         entries[k] # Nil, NotNeeded(entries[k], waitingForComputation)
  PROVE  /\ entries[k] \in Linked /\ ekey[entries[k]] = k
         /\ Needers(entries[k]) \ {t} = {}
<1> DEFINE e == entries[k]
<1>1. e \in Entry /\ ekey[e] = k
  BY DEF MainInv, CountInv, TypeInv, Typed, KeysMatch, Pointer
<1>2. CountsOthers(t, waitingForComputation)
  BY CountsWithout DEF MainInv
<1>3. Needers(e) \ {t} = {}
  BY <1>1, <1>2, NobodyNeeds
<1>4. ~IsZero(e)
  <2> SUFFICES ASSUME IsZero(e) PROVE FALSE
    OBVIOUS
  <2>1. PICK u \in Thread : Computes(u, e)
    BY DEF MainInv, Unfinished
  <2>2. u \in Needers(e) /\ u # t
    BY <2>1 DEF Needers, Computes, Needing
  <2> QED BY <1>3, <2>2
<1> QED BY <1>1, <1>3, <1>4 DEF Linked

(* The critical section of Del.                                            *)
LEMMA DelMain ==
  ASSUME MainInv, CountInv', NEW t \in Thread, Del(t) PROVE MainInv'
<1> DEFINE e == entries[KeyOf(t)]
<1>1. Enters(t) /\ pc[t] = "locking" /\ KeyOf(t) \in Key
  BY CriticalSectionEnters DEF MainInv, CountInv, TypeInv, LocalsOK, Del, Enters, KeyOf
<1>2. pc'[t] = "idle" /\ OthersSame(t) /\ now'[t] = Epoch /\ clock' = clock
  BY ReturnSteps DEF MainInv, CountInv, TypeInv, Typed, Del, OthersSame, Return,
                     InCriticalSection, boundVars
<1>3. CASE e # Nil /\ NotNeeded(e, waitingForComputation)
  <2>1. e \in Linked /\ Needers(e) \ {t} = {}
    BY <1>1, <1>3, UnneededIsLinked DEF Needing
  <2>2. Evicted(e) /\ entries' = Without(e)
    BY <1>3 DEF Del, Without
  <2>3. Alone(t)
    BY <1>1, MovesAlone DEF MainInv, CountInv, Enters
  <2> QED BY <1>1, <1>2, <2>1, <2>2, <2>3, RemoveMain DEF Del, Needing, entryVars
<1>4. CASE UNCHANGED cacheVars
  BY <1>1, <1>2, <1>4, ReturnMain DEF Del, cacheVars, entryVars
<1> QED BY <1>3, <1>4 DEF Del

(* One round of the eviction loop.                                         *)
LEMMA EvictNextMain ==
  ASSUME MainInv, CountInv', NEW t \in Thread, EvictNext(t) PROVE MainInv'
<1> DEFINE e == at[t]
<1>1. e \in Linked /\ pc[t] = "evicting" /\ mutex = t /\ pc'[t] = "evicting"
  BY DEF MainInv, ListsStored, CountInv, TypeInv, Exclusion, EvictNext
<1>2. OthersSame(t) /\ Alone(t) /\ ret'[t] = KeyOf(t)' /\ now'[t] >= Epoch
      /\ at'[t] = list.prev[e] /\ clock' = clock
  BY <1>1, MovesAlone
  DEF MainInv, CountInv, TypeInv, Typed, Values, Times, EvictNext, OthersSame,
      KeyOf, NextCandidate, boundVars
<1>3. list.prev[e] \in (Linked \ {e}) \cup {Nil}
  BY <1>1, NoSelfLink DEF MainInv, ListsStored, Listed, WellLinked, Links
<1>4. CASE Evictable(t, e)
  <2>1. PICK k \in Key : entries[k] = e /\ entries[k] # Nil
    BY <1>1 DEF Linked
  <2>2. Needers(e) \ {t} = {}
    BY <1>1, <1>4, <2>1, UnneededIsLinked DEF Evictable, Needing
  <2>3. Evicted(e) /\ entries' = Without(e)
    BY <1>4 DEF EvictNext, Without
  <2> QED BY <1>1, <1>2, <1>3, <2>2, <2>3, RemoveMain DEF EvictNext, Needing, entryVars
<1>5. CASE UNCHANGED cacheVars
  <2>1. Linked' = Linked
    BY <1>5 DEF EvictNext, Linked, IsZero, cacheVars, entryVars
  <2>2. ListsStored'
    BY <1>2, <1>3, <1>5, <2>1
    DEF MainInv, ListsStored, OthersSame, EvictNext, IsZero, cacheVars, entryVars
  <2>3. NeededEntriesStay' /\ Unfinished' /\ Times' /\ Values'
    BY <1>5 DEF MainInv, NeededEntriesStay, Unfinished, Times, Values, EvictNext,
            KeyOf, IsZero, Computes, cacheVars, entryVars, boundVars,
            CountInv, TypeInv, Typed
  <2> QED BY <2>2, <2>3 DEF MainInv
<1> QED BY <1>4, <1>5 DEF EvictNext

(* The eviction loop ends and Get returns.                                 *)
LEMMA EvictDoneMain ==
  ASSUME MainInv, CountInv', NEW t \in Thread, EvictDone(t) PROVE MainInv'
BY ReturnMain DEF EvictDone, cacheVars, entryVars, boundVars

(* Keys takes the mutex.                                                   *)
LEMMA KeysBeginMain ==
  ASSUME MainInv, CountInv', NEW t \in Thread, KeysBegin(t) PROVE MainInv'
<1>1. pc[t] = "locking" /\ pc'[t] = "scanning" /\ OthersSame(t) /\ now'[t] >= Epoch
  BY DEF MainInv, CountInv, TypeInv, Typed, Times, KeysBegin, OthersSame
<1> QED BY <1>1, QuietMain DEF KeysBegin, Needing, cacheVars, entryVars, boundVars

(* Keys visits one entry, and removes it if it has expired.                *)
LEMMA KeysVisitMain ==
  ASSUME MainInv, CountInv', NEW t \in Thread, NEW k \in Key, KeysVisit(t, k)
  PROVE  MainInv'
<1> DEFINE e == entries[k]
<1>1. pc[t] = "scanning" /\ mutex = t /\ e # Nil
  BY DEF MainInv, CountInv, TypeInv, Exclusion, KeysVisit
<1>2. CASE \E what \in Failure : KeysPanics(t, what)
  BY <1>1, <1>2, ReturnMain DEF KeysVisit, KeysPanics, cacheVars, entryVars, boundVars
<1>3. CASE /\ NotNeeded(e, waitingForComputation)
           /\ Evicted(e)
           /\ entries' = [entries EXCEPT ![k] = Nil]
           /\ UNCHANGED threadVars
  <2>1. e \in Linked /\ ekey[e] = k /\ Needers(e) \ {t} = {}
    BY <1>1, <1>3, UnneededIsLinked DEF Needing
  <2>2. Alone(t) /\ OthersSame(t) /\ now'[t] >= Epoch /\ pc'[t] = "scanning"
    BY <1>1, <1>3, MovesAlone
    DEF MainInv, CountInv, Times, OthersSame, threadVars
  <2> QED BY <1>1, <1>3, <2>1, <2>2, RemoveMain
          DEF KeysVisit, Without, Needing, entryVars, boundVars
<1>4. CASE UNCHANGED <<threadVars, cacheVars>>
  <2>1. OthersSame(t) /\ now'[t] >= Epoch /\ pc'[t] = "scanning"
    BY <1>1, <1>4 DEF MainInv, Times, OthersSame, threadVars
  <2> QED BY <1>1, <1>4, <2>1, QuietMain
          DEF KeysVisit, Needing, cacheVars, entryVars, boundVars
<1> QED BY <1>2, <1>3, <1>4 DEF KeysVisit, Failure

(* Keys has visited all entries and releases the mutex.                    *)
LEMMA KeysEndMain ==
  ASSUME MainInv, CountInv', NEW t \in Thread, KeysEnd(t) PROVE MainInv'
BY ReturnMain DEF KeysEnd, KeysPanics, cacheVars, entryVars, boundVars
-----------------------------------------------------------------------------
(* Every step of every goroutine keeps the invariant, unless it panics.    *)
LEMMA NextMain ==
  ASSUME CanPanic = FALSE, MainInv, [Next]_vars PROVE MainInv'
<1>1. CountInv'
  BY NextCounted DEF MainInv
<1>2. CASE UNCHANGED vars \/ Tick
  <2>1. UNCHANGED <<mutex, cacheVars, entryVars, threadVars>>
        /\ clock' \in Nat /\ clock' >= clock
    BY <1>2 DEF MainInv, Times, vars, Tick, boundVars
  <2>2. Linked' = Linked
    BY <2>1 DEF Linked, IsZero, cacheVars, entryVars
  <2>3. NeededEntriesStay' /\ Unfinished' /\ Values' /\ ListsStored'
    BY <2>1, <2>2
    DEF MainInv, NeededEntriesStay, Unfinished, Values, ListsStored, KeyOf, IsZero,
        Computes, cacheVars, entryVars, threadVars
  <2>4. Times'
    BY <2>1 DEF MainInv, Times, threadVars
  <2> QED BY <1>1, <2>3, <2>4 DEF MainInv
<1>3. ASSUME NEW t \in Thread, Step(t) PROVE MainInv'
  <2>1. CASE Locked(t)
    BY <1>1, <2>1, GetMain, PutMain, DelMain, WakeMain, KeysBeginMain DEF Locked
  <2>2. CASE Compute(t)
    BY <1>1, <2>2, ComputeReturnsMain DEF Compute, ComputePanics
  <2>3. CASE Loop(t)
    BY <1>1, <2>3, ReadValueMain, EvictNextMain, EvictDoneMain, KeysEndMain,
       KeysVisitMain DEF Loop
  <2> QED BY <1>1, <1>3, <2>1, <2>2, <2>3, InvokeMain DEF Step
<1> QED BY <1>2, <1>3 DEF Next, Finished

(* The invariant holds in the empty cache.                                 *)
LEMMA InitMain == Init => MainInv
<1> SUFFICES ASSUME Init PROVE MainInv
  OBVIOUS
<1>1. NeededEntriesStay /\ Unfinished /\ Times /\ Values
  BY DEF Init, NeededEntriesStay, Unfinished, Times, Values, IsZero
<1>2. Linked = {}
  BY DEF Init, Linked, IsZero
<1>3. ListsStored
  BY <1>2, EmptyListed DEF Init, ListsStored, EmptyList
<1> QED BY <1>1, <1>3, InitCounted DEF MainInv

(* If closures do not panic, map, list, times and values fit together in   *)
(* every reachable state.                                                  *)
THEOREM MainInvHolds == ASSUME CanPanic = FALSE PROVE Spec => []MainInv
<1>1. MainInv /\ [Next]_vars => MainInv'
  BY NextMain
<1> QED BY InitMain, <1>1, PTL DEF Spec

-----------------------------------------------------------------------------
(* Only one goroutine computes a key at a time (the comment on Get).       *)
THEOREM OneComputationPerKey ==
  ASSUME CanPanic = FALSE PROVE Spec => []SingleComputation
<1>1. MainInv => SingleComputation
  BY DEF MainInv, NeededEntriesStay, Unfinished, SingleComputation
<1> QED BY <1>1, MainInvHolds, PTL

(* Whoever waits for, or computes, an entry finds it still in the map.     *)
THEOREM NeededEntriesAreKept ==
  ASSUME CanPanic = FALSE PROVE Spec => []NeededEntriesStay
<1>1. MainInv => NeededEntriesStay
  BY DEF MainInv
<1> QED BY <1>1, MainInvHolds, PTL

(* Whoever sleeps in cond.Wait sleeps for an entry that a goroutine        *)
(* computes, which will broadcast.                                         *)
THEOREM NoWakeupIsLost ==
  ASSUME CanPanic = FALSE PROVE Spec => []NoLostWakeup
<1>1. MainInv => NoLostWakeup
  <2> SUFFICES ASSUME MainInv, NEW t \in Thread, pc[t] = "waiting"
               PROVE  \E u \in Thread : Computes(u, at[t])
    BY DEF NoLostWakeup
  <2>1. KeyOf(t) \in Key /\ at[t] \in Entry /\ entries[KeyOf(t)] = at[t]
    BY DEF MainInv, CountInv, TypeInv, LocalsOK, NeededEntriesStay, KeyOf
  <2>2. IsZero(at[t])
    BY DEF MainInv, Unfinished
  <2> QED BY <2>1, <2>2 DEF MainInv, Unfinished
<1> QED BY <1>1, MainInvHolds, PTL

(* Counting, the map and the wakeups together serve everyone who waits.    *)
THEOREM EveryWaiterIsServed ==
  ASSUME CanPanic = FALSE PROVE Spec => []WaitersAreServed
<1>1. WaitersCounted /\ NeededEntriesStay /\ NoLostWakeup => WaitersAreServed
  BY DEF WaitersAreServed
<1> QED BY <1>1, WaitersAreCounted, NeededEntriesAreKept, NoWakeupIsLost, PTL

(* A Get with a closure returns a value made for its own key.              *)
THEOREM GetReturnsItsValue ==
  ASSUME CanPanic = FALSE PROVE Spec => GetReturnsValue
<1> DEFINE OwnValue ==
      \A t \in Thread :
        call[t].op = "get" /\ pc[t] # "idle" /\ pc'[t] = "idle" => ret'[t] = KeyOf(t)
<1>1. MainInv /\ [Next]_vars => [OwnValue]_vars
  <2> SUFFICES ASSUME MainInv, Next, NEW t \in Thread,
                      call[t].op = "get", pc[t] # "idle", pc'[t] = "idle"
               PROVE  ret'[t] = KeyOf(t)
    OBVIOUS
  <2>1. PICK u \in Thread : Step(u)
    BY DEF Next, Tick, Finished, threadVars, vars
  <2>2. CASE ReadValue(t)
    BY <2>2 DEF ReadValue, Return, MainInv, CountInv, TypeInv, Typed, LocalsOK,
                KeysMatch, Unfinished, Values
  <2>3. CASE EvictDone(t)
    BY <2>3 DEF EvictDone, Return, MainInv, CountInv, TypeInv, Typed, Values
  <2>4. CASE Invoke(u) \/ KeysBegin(u) \/ EvictNext(u)
    BY <2>4 DEF Invoke, KeysBegin, EvictNext, MainInv, CountInv, TypeInv, Typed
  <2>5. CASE ComputeReturns(u)
    BY <2>5 DEF ComputeReturns
  <2>6. CASE Get(u) \/ Put(u) \/ Wake(u)
    <3>1. pc'[t] # "idle" \/ (u = t /\ call[t].op \in {"lookup", "put"})
      BY <2>6 DEF Get, Put, Wake, WaitFor, GetComputed, GetFresh, GetStale, GetExpired,
                  UnlockThenRead, Miss, StartComputation, PutExisting, PutNew, Return,
                  MainInv, CountInv, TypeInv, Typed
    <3> QED BY <3>1
  <2>7. CASE Del(u)
    BY <2>7 DEF Del, Return, MainInv, CountInv, TypeInv, Typed
  <2>8. CASE KeysEnd(u) \/ \E k \in Key : KeysVisit(u, k)
    BY <2>8 DEF KeysEnd, KeysVisit, KeysPanics, Return, threadVars,
                MainInv, CountInv, TypeInv, Typed, LocalsOK
  <2>9. CASE u # t /\ (ReadValue(u) \/ EvictDone(u))
    BY <2>9 DEF ReadValue, EvictDone, Return, MainInv, CountInv, TypeInv, Typed
  <2> QED BY <2>1, <2>2, <2>3, <2>4, <2>5, <2>6, <2>7, <2>8, <2>9
          DEF Step, Locked, Compute, Loop, ComputePanics
<1> QED BY <1>1, MainInvHolds, PTL DEF Spec, GetReturnsValue
-----------------------------------------------------------------------------

USE EntryAssumption
-----------------------------------------------------------------------------
(* Sums over finite sets.                                                  *)

Total(f, T) == FoldFunctionOnSet(LAMBDA x, y : x + y, 0, f, T)

(* What the fold of the community modules computes, equation by equation.  *)
Choice(T) == CHOOSE x \in T : TRUE

IterDef(f, S, h) ==
  [T \in SUBSET S |-> IF T = {} THEN 0 ELSE f[Choice(T)] + h[T \ {Choice(T)}]]

Iter(f, S) == CHOOSE h : h = IterDef(f, S, h)

(* The sum is the value of that recursive function.                        *)
LEMMA TotalIsIter ==
  ASSUME NEW f, NEW S PROVE Total(f, S) = Iter(f, S)[S]
BY Zenon DEF Total, Iter, IterDef, Choice, FoldFunctionOnSet, MapThenFoldSet

(* The recursive definition has a solution, by induction on the size.      *)
LEMMA IterExists ==
  ASSUME NEW S, IsFiniteSet(S), NEW f PROVE Iter(f, S) = IterDef(f, S, Iter(f, S))
<1> DEFINE Small(n) == {T \in SUBSET S : Cardinality(T) <= n}
           Solves(h, n) == \A T \in Small(n) :
              h[T] = IF T = {} THEN 0 ELSE f[Choice(T)] + h[T \ {Choice(T)}]
           Good == {n \in Nat : \E h : Solves(h, n)}
<1>1. \A T \in SUBSET S : IsFiniteSet(T) /\ Cardinality(T) \in Nat /\ Cardinality(T) <= Cardinality(S)
  BY FS_Subset, FS_CardinalityType
<1>2. \A T \in SUBSET S : T # {} => Choice(T) \in T /\ T \ {Choice(T)} \in SUBSET S
                           /\ Cardinality(T \ {Choice(T)}) = Cardinality(T) - 1
  <2> SUFFICES ASSUME NEW T \in SUBSET S, T # {}
               PROVE Choice(T) \in T /\ T \ {Choice(T)} \in SUBSET S
                           /\ Cardinality(T \ {Choice(T)}) = Cardinality(T) - 1
    OBVIOUS
  <2>1. Choice(T) \in T
    BY DEF Choice
  <2> QED BY <1>1, <2>1, FS_RemoveElement
<1>3. 0 \in Good
  <2>1. \A T \in Small(0) : T = {}
    BY <1>1, FS_EmptySet
  <2>2. Solves([T \in SUBSET S |-> 0], 0)
    BY <2>1
  <2> QED BY <2>2
<1>4. ASSUME NEW n \in Nat, n \in Good PROVE n + 1 \in Good
  <2>1. PICK h : Solves(h, n)
    BY <1>4
  <2> DEFINE g == [T \in SUBSET S |-> IF Cardinality(T) <= n THEN h[T]
                     ELSE f[Choice(T)] + h[T \ {Choice(T)}]]
  <2>2. ASSUME NEW T \in Small(n+1)
        PROVE g[T] = IF T = {} THEN 0 ELSE f[Choice(T)] + g[T \ {Choice(T)}]
    <3>1. CASE T = {}
      <4>1. T \in Small(n)
        BY <3>1, FS_EmptySet
      <4> QED BY <2>1, <3>1, <4>1
    <3>2. CASE T # {}
      <4>1. T \ {Choice(T)} \in Small(n) /\ T \in SUBSET S
        BY <1>1, <1>2, <3>2
      <4>2. g[T \ {Choice(T)}] = h[T \ {Choice(T)}]
        BY <4>1
      <4>3. CASE T \in Small(n)
        <5>1. g[T] = h[T]
          BY <4>3
        <5> HIDE DEF g
        <5> QED BY <2>1, <3>2, <4>2, <4>3, <5>1
      <4>4. CASE T \notin Small(n)
        <5>1. g[T] = f[Choice(T)] + h[T \ {Choice(T)}]
          BY <4>1, <4>4
        <5> HIDE DEF g
        <5> QED BY <3>2, <4>2, <5>1
      <4> QED BY <4>3, <4>4
    <3> QED BY <3>1, <3>2
  <2>3. Solves(g, n + 1)
    <3> HIDE DEF g
    <3> QED BY <2>2
  <2>4. \E h0 : Solves(h0, n + 1)
    <3> HIDE DEF g, Solves
    <3> QED BY <2>3
  <2> HIDE DEF Solves
  <2> QED BY <2>4
<1>5. Cardinality(S) \in Good
  <2>1. Nat \subseteq Good
    <3> HIDE DEF Good
    <3> QED BY <1>3, <1>4, NatSetInduction
  <2> HIDE DEF Good
  <2> QED BY <2>1, FS_CardinalityType
<1>6. PICK h : Solves(h, Cardinality(S))
  BY <1>5
<1> DEFINE r == [T \in SUBSET S |-> h[T]]
<1>7. r = IterDef(f, S, r)
  <2>1. \A T \in SUBSET S : h[T] = IF T = {} THEN 0 ELSE f[Choice(T)] + h[T \ {Choice(T)}]
    BY <1>1, <1>6
  <2>2. \A T \in SUBSET S : r[T] = IF T = {} THEN 0 ELSE f[Choice(T)] + r[T \ {Choice(T)}]
    BY <2>1, <1>2
  <2> QED BY <2>2 DEF IterDef
<1> QED
  <2> HIDE DEF r
  <2> QED BY <1>7, Zenon DEF Iter

(* The sum over a set depends on the values on this set only.              *)
LEMMA IterSame ==
  ASSUME NEW S, IsFiniteSet(S), NEW T \in SUBSET S, NEW f, NEW g,
         \A x \in T : f[x] = g[x]
  PROVE  Iter(f, S)[T] = Iter(g, T)[T]
<1> DEFINE Same == {U \in SUBSET T : Iter(f, S)[U] = Iter(g, T)[U]}
<1>1. IsFiniteSet(T)
  BY FS_Subset
<1>2. Iter(f, S) = IterDef(f, S, Iter(f, S)) /\ Iter(g, T) = IterDef(g, T, Iter(g, T))
  BY <1>1, IterExists
<1>3. ASSUME NEW U \in SUBSET T
      PROVE  /\ Iter(f, S)[U] = IF U = {} THEN 0
                                ELSE f[Choice(U)] + Iter(f, S)[U \ {Choice(U)}]
             /\ Iter(g, T)[U] = IF U = {} THEN 0
                                ELSE g[Choice(U)] + Iter(g, T)[U \ {Choice(U)}]
  <2> DEFINE a == Iter(f, S)
             b == Iter(g, T)
  <2>1. a = IterDef(f, S, a) /\ b = IterDef(g, T, b)
    BY <1>2
  <2> HIDE DEF a, b
  <2>2. U \in SUBSET S
    OBVIOUS
  <2>3. /\ IterDef(f, S, a)[U] = IF U = {} THEN 0 ELSE f[Choice(U)] + a[U \ {Choice(U)}]
        /\ IterDef(g, T, b)[U] = IF U = {} THEN 0 ELSE g[Choice(U)] + b[U \ {Choice(U)}]
    BY <2>2 DEF IterDef
  <2>4. /\ a[U] = IF U = {} THEN 0 ELSE f[Choice(U)] + a[U \ {Choice(U)}]
        /\ b[U] = IF U = {} THEN 0 ELSE g[Choice(U)] + b[U \ {Choice(U)}]
    BY <2>1, <2>3
  <2> QED BY <2>4 DEF a, b
<1>4. {} \in Same
  BY <1>3
<1>5. ASSUME NEW U \in SUBSET T, U # {}, \A x \in U : U \ {x} \in Same PROVE U \in Same
  <2>1. Choice(U) \in U
    BY <1>5 DEF Choice
  <2>2. U \ {Choice(U)} \in Same /\ f[Choice(U)] = g[Choice(U)]
    BY <1>5, <2>1
  <2> QED BY <1>3, <1>5, <2>2
<1>6. T \in Same
  <2> HIDE DEF Same
  <2> QED BY <1>1, <1>4, <1>5, FiniteSetInduction
<1> QED BY <1>6

(* Functions that agree on a set have the same sum over it.                *)
LEMMA TotalSame ==
  ASSUME NEW T, IsFiniteSet(T), NEW f, NEW g, \A x \in T : f[x] = g[x]
  PROVE  Total(f, T) = Total(g, T)
<1>1. T \in SUBSET T
  OBVIOUS
<1>2. Iter(f, T)[T] = Iter(g, T)[T]
  BY <1>1, IterSame
<1>3. Total(f, T) = Iter(f, T)[T] /\ Total(g, T) = Iter(g, T)[T]
  BY TotalIsIter
<1> QED BY <1>2, <1>3

(* A sum of integers is an integer: any element's and that of the others.  *)
LEMMA TotalSplit ==
  ASSUME NEW S, IsFiniteSet(S), NEW f, \A x \in S : f[x] \in Int
  PROVE  /\ Total(f, {}) = 0
         /\ Total(f, S) \in Int
         /\ \A k \in S : Total(f, S) = f[k] + Total(f, S \ {k})
<1> DEFINE Good == {U \in SUBSET S :
                      /\ Total(f, U) \in Int
                      /\ \A k \in U : /\ Total(f, U \ {k}) \in Int
                                       /\ Total(f, U) = f[k] + Total(f, U \ {k})}
<1>1. ASSUME NEW U \in SUBSET S
      PROVE  Total(f, U) = IF U = {} THEN 0 ELSE f[Choice(U)] + Total(f, U \ {Choice(U)})
  <2>1. IsFiniteSet(U)
    BY FS_Subset
  <2>2. Total(f, U) = Iter(f, U)[U]
    BY TotalIsIter
  <2>3. Iter(f, U) = IterDef(f, U, Iter(f, U))
    BY <2>1, IterExists
  <2>4. Iter(f, U)[U] = IF U = {} THEN 0 ELSE f[Choice(U)] + Iter(f, U)[U \ {Choice(U)}]
    <3> DEFINE a == Iter(f, U)
    <3>1. a = IterDef(f, U, a)
      BY <2>3
    <3> HIDE DEF a
    <3>2. IterDef(f, U, a)[U] = IF U = {} THEN 0 ELSE f[Choice(U)] + a[U \ {Choice(U)}]
      BY DEF IterDef
    <3>3. a[U] = IF U = {} THEN 0 ELSE f[Choice(U)] + a[U \ {Choice(U)}]
      BY <3>1, <3>2
    <3> QED BY <3>3 DEF a
  <2>5. Iter(f, U)[U \ {Choice(U)}] = Total(f, U \ {Choice(U)})
    <3>1. U \ {Choice(U)} \in SUBSET U
      OBVIOUS
    <3> QED BY <2>1, <3>1, IterSame, TotalIsIter
  <2> QED BY <2>2, <2>4, <2>5
<1>2. {} \in Good /\ Total(f, {}) = 0
  <2>1. {} \in SUBSET S
    OBVIOUS
  <2>2. Total(f, {}) = 0
    BY ONLY <1>1, <2>1
  <2> QED BY ONLY <2>1, <2>2
<1>3. ASSUME NEW U \in SUBSET S, U # {}, \A x \in U : U \ {x} \in Good PROVE U \in Good
  <2> DEFINE c == Choice(U)
  <2>1. c \in U
    BY <1>3 DEF Choice
  <2>2. Total(f, U) = f[c] + Total(f, U \ {c}) /\ f[c] \in Int
    BY <1>1, <1>3, <2>1
  <2> HIDE DEF c
  <2>3. Total(f, U \ {c}) \in Int
    BY <1>3, <2>1
  <2>4. ASSUME NEW k \in U, k # c PROVE Total(f, U) = f[k] + Total(f, U \ {k})
    <3>1. Total(f, U \ {c}) = f[k] + Total(f, (U \ {c}) \ {k})
      BY <1>3, <2>1, <2>4
    <3>2. Total(f, U \ {k}) = f[c] + Total(f, (U \ {k}) \ {c}) /\ Total(f, U \ {k}) \in Int
      BY <1>3, <2>1, <2>4
    <3>3. (U \ {c}) \ {k} = (U \ {k}) \ {c} /\ f[k] \in Int
      OBVIOUS
    <3>4. Total(f, (U \ {k}) \ {c}) \in Int
      BY <1>3, <2>1, <2>4
    <3> DEFINE a == Total(f, (U \ {k}) \ {c})
               b == f[k]
               d == f[c]
    <3>5. Total(f, U) = d + (b + a) /\ Total(f, U \ {k}) = d + a
          /\ a \in Int /\ b \in Int /\ d \in Int
      BY <2>2, <3>1, <3>2, <3>3, <3>4
    <3> HIDE DEF a, b, d
    <3>6. Total(f, U) = b + Total(f, U \ {k})
      BY <3>5
    <3> QED BY <3>6 DEF b
  <2>5. \A k \in U : Total(f, U) = f[k] + Total(f, U \ {k})
    BY <2>2, <2>4
  <2>6. Total(f, U) \in Int
    BY <2>2, <2>3
  <2>7. \A k \in U : Total(f, U \ {k}) \in Int
    BY <1>3
  <2> QED BY <2>5, <2>6, <2>7
<1>4. S \in Good
  <2> HIDE DEF Good
  <2> QED BY <1>2, <1>3, FiniteSetInduction
<1> QED BY <1>2, <1>4

-----------------------------------------------------------------------------
(* What a step does to map, list, sizes and computations.  Every step of   *)
(* every action has one of six effects.                                    *)

ComputingSame ==
  \A u \in Thread, x \in Entry : Computes(u, x)' <=> Computes(u, x)

(* No entry goes back to being computed. *)
NoneZeroed == \A x \in Entry : IsZero(x)' => IsZero(x)

(* An entry that has not been in use. *)
Unused(n) ==
  n \in Entry /\ IsZero(n) /\ Needers(n) = {} /\ \A k \in Key : entries[k] # n

Keeps == UNCHANGED <<entries, list, usedmemory, size>> /\ ComputingSame

(* e leaves the cache. *)
Removes(e) ==
  Evicted(e) /\ entries' = Without(e) /\ UNCHANGED size /\ ComputingSame

(* e is used and has the size s from now on. *)
Uses(e, s) ==
  /\ list' = MoveToFront(list, e) \/ list' = InsertFront(UnlinkEntry(list, e), e)
  /\ usedmemory' = usedmemory - size[e] + s
  /\ size' = [size EXCEPT ![e] = s]
  /\ UNCHANGED entries /\ ComputingSame

(* t begins to compute n for its key, whose entry has expired if any. *)
Starts(t, n) ==
  /\ KeyOf(t) \in Key /\ pc[t] # "computing" /\ Unused(n)
  /\ entries' = [entries EXCEPT ![KeyOf(t)] = n]
  /\ \/ entries[KeyOf(t)] = Nil /\ UNCHANGED <<list, usedmemory>>
     \/ entries[KeyOf(t)] \in Linked /\ Evicted(entries[KeyOf(t)])
  /\ UNCHANGED size
  /\ \A u \in Thread, x \in Entry :
       Computes(u, x)' <=> IF u = t THEN x = n ELSE Computes(u, x)

(* t stores what it has computed, of size s. *)
Publishes(t, e, s) ==
  /\ KeyOf(t) \in Key /\ Computes(t, e) /\ entries[KeyOf(t)] = e
  /\ e \in Entry \ Linked /\ IsZero(e) /\ ~IsZero(e)'
  /\ list' = InsertFront(list, e)
  /\ usedmemory' = usedmemory + s
  /\ size' = [size EXCEPT ![e] = s]
  /\ UNCHANGED entries
  /\ \A u \in Thread, x \in Entry : Computes(u, x)' <=> u # t /\ Computes(u, x)

(* Put of a key that is not there. *)
Creates(t, n) ==
  /\ KeyOf(t) \in Key /\ entries[KeyOf(t)] = Nil /\ Unused(n)
  /\ entries' = [entries EXCEPT ![KeyOf(t)] = n]
  /\ list' = InsertFront(list, n)
  /\ UNCHANGED <<usedmemory, size>> /\ ComputingSame

Effect ==
  /\ NoneZeroed
  /\ \/ Keeps
     \/ \E e \in Linked : Removes(e) \/ \E s \in Nat : Uses(e, s)
     \/ \E t \in Thread, e \in Entry :
          Starts(t, e) \/ Creates(t, e) \/ \E s \in Nat : Publishes(t, e, s)

(* The computations do not change when t moves alone and computes neither  *)
(* before nor after its step.                                              *)
LEMMA NotComputing ==
  ASSUME NEW t \in Thread, OthersSame(t), pc[t] # "computing", pc'[t] # "computing"
  PROVE  ComputingSame
BY DEF OthersSame, ComputingSame, Computes

(* A call returns and leaves the entries as they are.                      *)
LEMMA ReturnEffect ==
  ASSUME MainInv, NEW t \in Thread, pc[t] # "computing", NEW v, Return(t, v),
         UNCHANGED <<entries, list, usedmemory, size, expiration>>
  PROVE  Effect
<1>1. pc'[t] = "idle" /\ OthersSame(t)
  BY ReturnSteps DEF MainInv, CountInv, OthersSame
<1> QED BY <1>1, NotComputing DEF Effect, Keeps, NoneZeroed, IsZero

(* A step that leaves the entries as they are.                             *)
LEMMA QuietEffect ==
  ASSUME NEW t \in Thread, OthersSame(t), pc[t] # "computing", pc'[t] # "computing",
         UNCHANGED <<entries, list, usedmemory, size, expiration>>
  PROVE  Effect
BY NotComputing DEF Effect, Keeps, NoneZeroed, IsZero

(* An entry is removed.                                                    *)
LEMMA RemoveEffect ==
  ASSUME NEW t \in Thread, OthersSame(t), pc[t] # "computing", pc'[t] # "computing",
         NEW e \in Linked, Evicted(e), entries' = Without(e),
         UNCHANGED <<size, expiration>>
  PROVE  Effect
<1>1. Removes(e) /\ NoneZeroed
  BY NotComputing DEF Removes, NoneZeroed, IsZero
<1> QED BY <1>1 DEF Effect

(* The entry is being computed: the goroutine goes to sleep.               *)
LEMMA WaitForEffect ==
  ASSUME MainInv, NEW t \in Thread, pc[t] # "computing",
         NEW e, NEW wait, WaitFor(t, e, wait)
  PROVE  Effect
<1>1. pc'[t] = "waiting" /\ OthersSame(t)
  BY DEF MainInv, CountInv, TypeInv, Typed, WaitFor, OthersSame
<1> QED BY <1>1, QuietEffect DEF WaitFor, cacheVars

(* Get finds a computed entry that has not expired.                        *)
LEMMA FreshEffect ==
  ASSUME MainInv, NEW t \in Thread, pc[t] # "computing",
         NEW e \in Linked, NEW wait, GetFresh(t, e, wait)
  PROVE  Effect
<1>1. pc'[t] = "returning" /\ OthersSame(t)
  BY DEF MainInv, CountInv, TypeInv, Typed, GetFresh, UnlockThenRead, OthersSame
<1>2. e \in Entry /\ size \in [Entry -> Nat] /\ usedmemory \in Int
  BY DEF MainInv, CountInv, TypeInv, Typed, Linked
<1>3. size' = [size EXCEPT ![e] = size[e]] /\ usedmemory' = usedmemory - size[e] + size[e]
  BY <1>2 DEF GetFresh
<1>4. Uses(e, size[e]) /\ size[e] \in Nat
  BY <1>1, <1>2, <1>3, NotComputing DEF Uses, GetFresh
<1>5. NoneZeroed
  BY DEF NoneZeroed, IsZero, GetFresh
<1> QED BY <1>4, <1>5 DEF Effect

(* A waiter finds that its entry has expired since.                        *)
LEMMA StaleEffect ==
  ASSUME MainInv, NEW t \in Thread, pc[t] # "computing",
         NEW e, NEW wait, GetStale(t, e, wait)
  PROVE  Effect
<1>1. pc'[t] = "returning" /\ OthersSame(t)
  BY DEF MainInv, CountInv, TypeInv, Typed, GetStale, UnlockThenRead, OthersSame
<1> QED BY <1>1, QuietEffect DEF GetStale, cacheVars

(* t starts to compute, with the map ents it has left.                     *)
LEMMA StartEffect ==
  ASSUME MainInv, NEW t \in Thread, Enters(t), pc[t] # "computing",
         NEW ents, NEW wait, StartComputation(t, ents, wait),
         [ents EXCEPT ![KeyOf(t)] = NewEntry] = [entries EXCEPT ![KeyOf(t)] = NewEntry],
         \/ entries[KeyOf(t)] = Nil /\ UNCHANGED <<list, usedmemory>>
         \/ entries[KeyOf(t)] \in Linked /\ Evicted(entries[KeyOf(t)])
  PROVE  Effect
<1> DEFINE n == NewEntry
<1>1. Unused(n)
  BY NewEntryUnused DEF MainInv, StartComputation, Unfinished, Unused
<1>2. pc'[t] = "computing" /\ at'[t] = n /\ OthersSame(t)
  BY DEF MainInv, CountInv, TypeInv, Typed, StartComputation, OthersSame
<1>3. KeyOf(t) \in Key
  BY DEF MainInv, CountInv, TypeInv, LocalsOK, Enters, KeyOf
<1>4. \A u \in Thread, x \in Entry :
        Computes(u, x)' <=> IF u = t THEN x = n ELSE Computes(u, x)
  BY <1>2 DEF Computes, OthersSame
<1>5. NoneZeroed
  BY DEF NoneZeroed, IsZero, StartComputation
<1>6. entries' = [entries EXCEPT ![KeyOf(t)] = n] /\ UNCHANGED size
  BY DEF StartComputation
<1> HIDE DEF n
<1>7. Starts(t, n) /\ n \in Entry
  BY <1>1, <1>3, <1>4, <1>6 DEF Starts, Unused
<1> QED BY <1>5, <1>7 DEF Effect

(* Get and Wake from the point at which the entry is computed.             *)
LEMMA GetComputedEffect ==
  ASSUME MainInv, NEW t \in Thread, Enters(t), pc[t] # "computing",
         NEW e \in Entry, entries[KeyOf(t)] = e, ~IsZero(e),
         NEW wait, GetComputed(t, e, wait)
  PROVE  Effect
<1>1. e \in Linked /\ ekey[e] = KeyOf(t) /\ KeyOf(t) \in Key
  BY FoundIsLinked
<1>2. CASE GetFresh(t, e, wait)
  BY <1>1, <1>2, FreshEffect
<1>3. CASE GetStale(t, e, wait)
  BY <1>3, StaleEffect
<1>4. CASE GetExpired(t, e, wait)
  <2>1. Evicted(e) /\ Miss(t, Without(e), wait)
    BY <1>4 DEF GetExpired, Without
  <2>2. CASE StartComputation(t, Without(e), wait)
    <3>1. [Without(e) EXCEPT ![KeyOf(t)] = NewEntry] = [entries EXCEPT ![KeyOf(t)] = NewEntry]
      BY <1>1 DEF Without, MainInv, CountInv, TypeInv, Typed
    <3> QED BY <1>1, <2>1, <2>2, <3>1, StartEffect
  <2>3. CASE /\ Return(t, NoValue)
             /\ entries' = Without(e)
             /\ UNCHANGED <<ekey, value, expiration, size>>
    <3>1. pc'[t] = "idle" /\ OthersSame(t)
      BY <2>3, ReturnSteps DEF MainInv, CountInv, OthersSame
    <3> QED BY <1>1, <2>1, <2>3, <3>1, RemoveEffect
  <2> QED BY <2>1, <2>2, <2>3 DEF Miss
<1> QED BY <1>2, <1>3, <1>4 DEF GetComputed

(* Put overwrites a computed entry.                                        *)
LEMMA PutExistingEffect ==
  ASSUME MainInv, NEW t \in Thread, Enters(t), pc[t] # "computing",
         NEW e \in Linked, NEW s \in Size, NEW d \in Ttl, NEW wait,
         PutExisting(t, e, s, d, wait)
  PROVE  Effect
<1>1. pc'[t] = "idle" /\ OthersSame(t)
  BY ReturnSteps DEF MainInv, CountInv, OthersSame, PutExisting
<1>2. Uses(e, s) /\ s \in Nat
  BY <1>1, NotComputing DEF Uses, PutExisting
<1>3. NoneZeroed
  BY NeverZero DEF NoneZeroed, IsZero, PutExisting, MainInv, CountInv, TypeInv, Typed
<1> QED BY <1>2, <1>3 DEF Effect

(* Put of a new key.                                                       *)
LEMMA PutNewEffect ==
  ASSUME MainInv, NEW t \in Thread, Enters(t), pc[t] = "locking",
         entries[KeyOf(t)] = Nil, NEW s \in Size, NEW d \in Ttl, PutNew(t, s, d)
  PROVE  Effect
<1> DEFINE n == NewEntry
<1>1. Unused(n)
  BY NewEntryUnused DEF MainInv, PutNew, Unfinished, Unused
<1>2. pc'[t] = "idle" /\ OthersSame(t)
  BY ReturnSteps DEF MainInv, CountInv, OthersSame, PutNew
<1>3. KeyOf(t) \in Key
  BY DEF MainInv, CountInv, TypeInv, LocalsOK, Enters, KeyOf
<1>4. NoneZeroed
  BY <1>1, NeverZero DEF NoneZeroed, IsZero, PutNew, MainInv, CountInv, TypeInv, Typed
<1>5. /\ entries' = [entries EXCEPT ![KeyOf(t)] = n]
      /\ list' = InsertFront(list, n) /\ UNCHANGED <<usedmemory, size>>
  BY DEF PutNew
<1> HIDE DEF n
<1>6. Creates(t, n) /\ n \in Entry
  BY <1>1, <1>2, <1>3, <1>5, NotComputing DEF Creates, Unused
<1> QED BY <1>4, <1>6 DEF Effect

(* The closure has returned: its value is stored, waiters are woken.       *)
LEMMA ComputeReturnsEffect ==
  ASSUME MainInv, NEW t \in Thread, ComputeReturns(t)
  PROVE  Effect
<1>1. PICK e \in Entry : /\ e = at[t] /\ KeyOf(t) \in Key /\ entries[KeyOf(t)] = e
                          /\ IsZero(e) /\ e \notin Linked /\ Computes(t, e)
  BY DEF MainInv, CountInv, TypeInv, LocalsOK, NeededEntriesStay,
         Unfinished, ComputeReturns, Needing, KeyOf, Linked, Computes
<1>2. /\ pc'[t] = "evicting"
      /\ \A u \in Thread \ {t} :
           at'[u] = at[u] /\ (pc'[u] = "computing" <=> pc[u] = "computing")
  <2>1. \A u \in Thread \ {t} : at'[u] = at[u]
    BY DEF MainInv, CountInv, TypeInv, Typed, ComputeReturns
  <2>2. \A w : Awoken(w) \in SUBSET {u \in Thread : pc[u] = "waiting"}
    BY DEF Awoken
  <2>3. PICK woken \in SUBSET {u \in Thread : pc[u] = "waiting"} :
          pc' = [x \in Thread |-> IF x = t THEN "evicting"
                                  ELSE IF x \in woken THEN "woken" ELSE pc[x]]
    BY <2>2 DEF ComputeReturns
  <2>4. /\ pc'[t] = "evicting"
        /\ \A u \in Thread \ {t} : pc'[u] = "computing" <=> pc[u] = "computing"
    BY <2>3
  <2> QED BY <2>1, <2>4
<1>3. PICK s \in Size, d \in Ttl :
        /\ expiration' = [expiration EXCEPT ![e] = now[t] + d]
        /\ size' = [size EXCEPT ![e] = s]
        /\ usedmemory' = usedmemory + s
  BY <1>1 DEF ComputeReturns
<1>4. NoneZeroed /\ ~IsZero(e)'
  <2>1. expiration'[e] # 0 /\ \A x \in Entry \ {e} : expiration'[x] = expiration[x]
    BY <1>1, <1>3, NeverZero DEF MainInv, CountInv, TypeInv, Typed
  <2> QED BY <1>1, <2>1 DEF NoneZeroed, IsZero
<1>5. list' = InsertFront(list, e) /\ UNCHANGED entries
  BY <1>1 DEF ComputeReturns
<1>6. \A u \in Thread, x \in Entry : Computes(u, x)' <=> u # t /\ Computes(u, x)
  BY <1>1, <1>2 DEF Computes
<1>7. Publishes(t, e, s) /\ s \in Nat
  BY <1>1, <1>3, <1>4, <1>5, <1>6 DEF Publishes
<1> QED BY <1>1, <1>4, <1>7 DEF Effect

(* The critical section of Get up to its first unlock.                     *)
LEMMA GetEffect ==
  ASSUME MainInv, NEW t \in Thread, Get(t) PROVE Effect
<1> DEFINE e == entries[KeyOf(t)]
           w == waitingForComputation
<1>1. Enters(t) /\ pc[t] = "locking"
  BY CriticalSectionEnters DEF MainInv, CountInv, Get
<1>2. e # Nil => e \in Entry
  BY <1>1, FoundEntry DEF MainInv
<1>3. CASE WaitFor(t, e, w)
  BY <1>1, <1>3, WaitForEffect
<1>4. CASE e # Nil /\ ~IsZero(e) /\ GetComputed(t, e, w)
  BY <1>1, <1>2, <1>4, GetComputedEffect
<1>5. CASE e = Nil /\ Miss(t, entries, w) /\ UNCHANGED <<usedmemory, list>>
  <2>1. CASE StartComputation(t, entries, w)
    BY <1>1, <1>5, <2>1, StartEffect
  <2>2. CASE Return(t, NoValue) /\ entries' = entries
             /\ UNCHANGED <<ekey, value, expiration, size>>
    BY <1>1, <1>5, <2>2, ReturnEffect
  <2> QED BY <1>5, <2>1, <2>2 DEF Miss
<1> QED BY <1>3, <1>4, <1>5 DEF Get

(* The critical section of Put.                                            *)
LEMMA PutEffect ==
  ASSUME MainInv, NEW t \in Thread, Put(t) PROVE Effect
<1> DEFINE e == entries[KeyOf(t)]
           w == waitingForComputation
<1>1. Enters(t) /\ pc[t] = "locking"
  BY CriticalSectionEnters DEF MainInv, CountInv, Put
<1>2. e # Nil => e \in Entry
  BY <1>1, FoundEntry DEF MainInv
<1>3. CASE WaitFor(t, e, w)
  BY <1>1, <1>3, WaitForEffect
<1>4. CASE /\ e # Nil /\ ~IsZero(e)
           /\ \E s \in Size, d \in Ttl : PutExisting(t, e, s, d, w)
  <2>1. e \in Linked
    BY <1>1, <1>2, <1>4, FoundIsLinked
  <2> QED BY <1>1, <1>4, <2>1, PutExistingEffect
<1>5. CASE e = Nil /\ \E s \in Size, d \in Ttl : PutNew(t, s, d)
  BY <1>1, <1>5, PutNewEffect
<1> QED BY <1>3, <1>4, <1>5 DEF Put

(* A goroutine returns from cond.Wait and looks at its entry again.        *)
LEMMA WakeEffect ==
  ASSUME MainInv, NEW t \in Thread, Wake(t) PROVE Effect
<1> DEFINE e == at[t]
           w == CountDown(e)
<1>1. Enters(t) /\ pc[t] = "woken"
  BY CriticalSectionEnters DEF MainInv, CountInv, Wake
<1>2. e \in Entry /\ entries[KeyOf(t)] = e
  BY <1>1, WokenEntry DEF MainInv, NeededEntriesStay, Needing
<1>3. CASE WaitFor(t, e, w)
  BY <1>1, <1>3, WaitForEffect
<1>4. CASE ~IsZero(e) /\ GetComputed(t, e, w)
  BY <1>1, <1>2, <1>4, GetComputedEffect
<1>5. CASE ~IsZero(e) /\ \E s \in Size, d \in Ttl : PutExisting(t, e, s, d, w)
  <2>1. e \in Linked
    BY <1>1, <1>2, <1>5, FoundIsLinked
  <2> QED BY <1>1, <1>5, <2>1, PutExistingEffect
<1> QED BY <1>3, <1>4, <1>5 DEF Wake, WaitsAgain

(* The critical section of Del.                                            *)
LEMMA DelEffect ==
  ASSUME MainInv, NEW t \in Thread, Del(t) PROVE Effect
<1> DEFINE e == entries[KeyOf(t)]
<1>1. Enters(t) /\ pc[t] = "locking" /\ KeyOf(t) \in Key
  BY CriticalSectionEnters DEF MainInv, CountInv, TypeInv, LocalsOK, Del, Enters, KeyOf
<1>2. pc'[t] = "idle" /\ OthersSame(t)
  BY ReturnSteps DEF MainInv, CountInv, OthersSame, Del
<1>3. CASE /\ e # Nil /\ NotNeeded(e, waitingForComputation)
           /\ Evicted(e) /\ entries' = [entries EXCEPT ![ekey[e]] = Nil]
  <2>1. e \in Linked
    BY <1>1, <1>3, UnneededIsLinked DEF Needing
  <2> QED BY <1>1, <1>2, <1>3, <2>1, RemoveEffect DEF Del, Without, entryVars
<1>4. CASE UNCHANGED cacheVars
  BY <1>1, <1>2, <1>4, QuietEffect DEF Del, cacheVars, entryVars
<1> QED BY <1>3, <1>4 DEF Del

(* One round of the eviction loop.                                         *)
LEMMA EvictNextEffect ==
  ASSUME MainInv, NEW t \in Thread, EvictNext(t) PROVE Effect
<1> DEFINE e == at[t]
<1>1. e \in Linked /\ pc[t] = "evicting" /\ pc'[t] = "evicting"
  BY DEF MainInv, ListsStored, EvictNext
<1>2. OthersSame(t)
  BY <1>1 DEF MainInv, CountInv, TypeInv, Typed, EvictNext, OthersSame
<1>3. CASE Evicted(e) /\ entries' = [entries EXCEPT ![ekey[e]] = Nil]
  BY <1>1, <1>2, <1>3, RemoveEffect DEF EvictNext, Without, entryVars
<1>4. CASE UNCHANGED cacheVars
  BY <1>1, <1>2, <1>4, QuietEffect DEF EvictNext, cacheVars, entryVars
<1> QED BY <1>3, <1>4 DEF EvictNext

(* Keys visits one entry, and removes it if it has expired.                *)
LEMMA KeysVisitEffect ==
  ASSUME MainInv, NEW t \in Thread, NEW k \in Key, KeysVisit(t, k)
  PROVE  Effect
<1> DEFINE e == entries[k]
<1>1. pc[t] = "scanning" /\ e # Nil
  BY DEF MainInv, CountInv, TypeInv, Exclusion, KeysVisit
<1>2. CASE \E what \in Failure : KeysPanics(t, what)
  BY <1>1, <1>2, ReturnEffect DEF KeysVisit, KeysPanics, cacheVars, entryVars
<1>3. CASE /\ NotNeeded(e, waitingForComputation)
           /\ Evicted(e)
           /\ entries' = [entries EXCEPT ![k] = Nil]
           /\ UNCHANGED threadVars
  <2>1. e \in Linked /\ ekey[e] = k
    BY <1>1, <1>3, UnneededIsLinked DEF Needing
  <2>2. OthersSame(t) /\ pc'[t] = "scanning"
    BY <1>1, <1>3 DEF OthersSame, threadVars
  <2> QED BY <1>1, <1>3, <2>1, <2>2, RemoveEffect DEF KeysVisit, Without, entryVars
<1>4. CASE UNCHANGED <<threadVars, cacheVars>>
  <2>1. OthersSame(t) /\ pc'[t] = "scanning"
    BY <1>1, <1>4 DEF OthersSame, threadVars
  <2> QED BY <1>1, <1>4, <2>1, QuietEffect DEF KeysVisit, cacheVars, entryVars
<1> QED BY <1>2, <1>3, <1>4 DEF KeysVisit, Failure

(* The steps that leave the entries as they are.                           *)
LEMMA OtherEffects ==
  ASSUME MainInv, NEW t \in Thread,
         \/ Invoke(t) \/ ReadValue(t) \/ EvictDone(t) \/ KeysBegin(t) \/ KeysEnd(t)
  PROVE  Effect
<1>1. CASE Invoke(t)
  <2>1. OthersSame(t) /\ pc[t] = "idle" /\ pc'[t] = "locking"
    BY <1>1 DEF MainInv, CountInv, TypeInv, Typed, Invoke, OthersSame
  <2> QED BY <1>1, <2>1, QuietEffect DEF Invoke, cacheVars, entryVars
<1>2. CASE KeysBegin(t)
  <2>1. OthersSame(t) /\ pc[t] = "locking" /\ pc'[t] = "scanning"
    BY <1>2 DEF MainInv, CountInv, TypeInv, Typed, KeysBegin, OthersSame
  <2> QED BY <1>2, <2>1, QuietEffect DEF KeysBegin, cacheVars, entryVars
<1>3. CASE ReadValue(t)
  BY <1>3, ReturnEffect DEF ReadValue, cacheVars, entryVars
<1>4. CASE EvictDone(t)
  BY <1>4, ReturnEffect DEF EvictDone, cacheVars, entryVars
<1>5. CASE KeysEnd(t)
  <2>1. \E v : Return(t, v)
    BY <1>5 DEF KeysEnd, KeysPanics
  <2> QED BY <1>5, <2>1, ReturnEffect DEF KeysEnd, KeysPanics, cacheVars, entryVars
<1> QED BY <1>1, <1>2, <1>3, <1>4, <1>5

(* Every step has one of the effects, unless closures panic.               *)
LEMMA NextEffect ==
  ASSUME CanPanic = FALSE, MainInv, [Next]_vars PROVE Effect
<1>1. CASE UNCHANGED vars \/ Tick
  BY <1>1 DEF Effect, Keeps, NoneZeroed, ComputingSame, Computes, IsZero, vars, Tick,
              cacheVars, entryVars, threadVars
<1>2. ASSUME NEW t \in Thread, Step(t) PROVE Effect
  <2>1. CASE Locked(t)
    BY <2>1, GetEffect, PutEffect, DelEffect, WakeEffect, OtherEffects DEF Locked
  <2>2. CASE Compute(t)
    BY <2>2, ComputeReturnsEffect DEF Compute, ComputePanics
  <2>3. CASE Loop(t)
    BY <2>3, EvictNextEffect, KeysVisitEffect, OtherEffects DEF Loop
  <2> QED BY <1>2, <2>1, <2>2, <2>3, OtherEffects DEF Step
<1> QED BY <1>1, <1>2 DEF Next, Finished

-----------------------------------------------------------------------------
(* The order of use.                                                       *)

(* What an effect does to the order of use.                                *)
LEMMA EffectOnOrder ==
  ASSUME MainInv, Effect
  PROVE  LET s == Forward(list)
             r == Forward(list')
         IN  \/ r = s
             \/ \E i \in 1..Len(s) : \/ r = <<s[i]>> \o RemoveAt(s, i)
                                     \/ r = RemoveAt(s, i)
             \/ \E e \in Entry : e \notin ToSet(s) /\ r = <<e>> \o s
<1> DEFINE s == Forward(list)
           r == Forward(list')
           Hits == \E i \in 1..Len(s) : r = <<s[i]>> \o RemoveAt(s, i)
           Drops == \E i \in 1..Len(s) : r = RemoveAt(s, i)
           Stores == \E e \in Entry : e \notin ToSet(s) /\ r = <<e>> \o s
<1>1. Listed(list, Linked) /\ ToSet(s) = Linked
  BY ListedForward DEF MainInv, ListsStored
<1>2. \A e \in Linked : \E i \in 1..Len(s) : s[i] = e
  BY <1>1, ListedPlaces
<1>3. ASSUME NEW e \in Linked, Evicted(e) PROVE Drops
  BY <1>1, <1>2, <1>3, ForwardUnlink DEF Evicted
<1>4. ASSUME NEW e \in Linked, NEW z, Uses(e, z) PROVE Hits
  <2>1. PICK i \in 1..Len(s) : s[i] = e
    BY <1>2
  <2>2. r = <<s[i]>> \o RemoveAt(s, i)
    BY <1>1, <1>4, <2>1, ForwardUse DEF Uses
  <2> QED BY <2>2
<1>5. ASSUME NEW e \in Entry \ Linked, list' = InsertFront(list, e) PROVE Stores
  BY <1>1, <1>5, ForwardInsert
<1>6. \A n : Unused(n) => n \in Entry \ Linked
  BY DEF Unused, Linked
<1> HIDE DEF Hits, Drops, Stores
<1>7. r = s \/ Hits \/ Drops \/ Stores
  <2> HIDE DEF r, s
  <2>1. CASE Keeps
    BY <2>1 DEF Keeps, r, s
  <2>2. ASSUME NEW t \in Thread, NEW e \in Entry, Starts(t, e) PROVE r = s \/ Drops
    BY <1>3, <2>2 DEF Starts, r, s
  <2>3. ASSUME NEW t \in Thread, NEW e \in Entry, NEW z, Creates(t, e) \/ Publishes(t, e, z)
        PROVE Stores
    BY <1>5, <1>6, <2>3 DEF Creates, Publishes
  <2> QED BY <1>3, <1>4, <2>1, <2>2, <2>3 DEF Effect, Removes
<1> QED BY <1>7 DEF Hits, Drops, Stores

(* The linked list implements the order of use: every step moves at most   *)
(* one entry, to the front or out of the list, or puts a new one in front. *)
THEOREM ListKeepsRecency ==
  ASSUME CanPanic = FALSE PROVE Spec => ImplementsRecencyOrder
<1>1. Init => Recency!Init
  <2> SUFFICES ASSUME Init PROVE Forward(list) = << >>
    BY DEF Recency!Init
  <2>1. Len(Forward(list)) = Cardinality({}) /\ Forward(list) \in Seq(Entry)
    BY EmptyListed, ListedForward DEF Init, IsOrder
  <2> QED BY <2>1, FS_EmptySet
<1>2. MainInv /\ [Next]_vars => [Recency!Next]_(Forward(list))
  <2> SUFFICES ASSUME MainInv, [Next]_vars PROVE [Recency!Next]_(Forward(list))
    OBVIOUS
  <2> DEFINE s == Forward(list)
  <2>1. Effect
    BY NextEffect
  <2>2. DOMAIN s = 1..Len(s)
    BY ListedPlaces DEF MainInv, ListsStored
  <2>3. Forward(list)' = Forward(list')
    BY DEF Forward, Chain
  <2> DEFINE r == Forward(list')
  <2>4. \/ r = s
        \/ \E i \in 1..Len(s) : \/ r = <<s[i]>> \o RemoveAt(s, i)
                                \/ r = RemoveAt(s, i)
        \/ \E e \in Entry : e \notin ToSet(s) /\ r = <<e>> \o s
    BY <2>1, EffectOnOrder
  <2>5. CASE r = s
    BY <2>3, <2>5
  <2>6. ASSUME NEW i \in 1..Len(s),
               r = <<s[i]>> \o RemoveAt(s, i) \/ r = RemoveAt(s, i)
        PROVE  Recency!Next
    <3>1. Recency!Hit(i) \/ Recency!Drop(i)
      BY <2>3, <2>6
      DEF Recency!Hit, Recency!Drop, Recency!RemoveAt, RemoveAt
    <3> QED BY <2>2, <3>1 DEF Recency!Next
  <2>7. ASSUME NEW e \in Entry, e \notin ToSet(s) /\ r = <<e>> \o s
        PROVE  Recency!Next
    <3>1. Recency!Store(e)
      BY <2>3, <2>7 DEF Recency!Store, Recency!ToSet, ToSet
    <3> QED BY <3>1 DEF Recency!Next
  <2> HIDE DEF s, r
  <2> QED BY <2>4, <2>5, <2>6, <2>7
<1> QED BY <1>1, <1>2, MainInvHolds, PTL DEF Spec, ImplementsRecencyOrder, Recency!Spec

-----------------------------------------------------------------------------
(* Memory.                                                                 *)

(* The keys in the map and the sizes of their entries.                     *)
Held == {k \in Key : Present(k)}
Sizes == [k \in Key |-> size[entries[k]]]

(* An entry that is being computed counts nothing. *)
Unsized == \A e \in Entry : IsZero(e) => size[e] = 0

(* A sum changes with one of its summands, or by one summand more or less. *)
LEMMA TotalChange ==
  ASSUME NEW S, NEW R, NEW k, IsFiniteSet(S), IsFiniteSet(R), S \ {k} = R \ {k},
         NEW f, NEW g, \A x \in S : f[x] \in Int, \A x \in R : g[x] \in Int,
         \A x \in S \ {k} : f[x] = g[x]
  PROVE  Total(g, R) = Total(f, S) - (IF k \in S THEN f[k] ELSE 0)
                                   + (IF k \in R THEN g[k] ELSE 0)
<1>1. IsFiniteSet(S \ {k})
  BY FS_Subset
<1>2. Total(f, S \ {k}) = Total(g, R \ {k}) /\ Total(f, S \ {k}) \in Int
  <2>1. Total(f, S \ {k}) = Total(g, S \ {k})
    BY <1>1, TotalSame
  <2>2. Total(f, S \ {k}) \in Int
    BY <1>1, TotalSplit
  <2> QED BY <2>1, <2>2
<1>3. Total(f, S) = (IF k \in S THEN f[k] ELSE 0) + Total(f, S \ {k})
  <2>1. CASE k \in S
    <3>1. Total(f, S) = f[k] + Total(f, S \ {k})
      BY <2>1, TotalSplit
    <3> QED BY <2>1, <3>1
  <2>2. CASE k \notin S
    <3>1. S \ {k} = S
      BY <2>2
    <3> DEFINE c == Total(f, S \ {k})
    <3>2. Total(f, S) = c /\ c \in Int
      BY <1>2, <3>1
    <3> HIDE DEF c
    <3>3. Total(f, S) = 0 + c
      BY <3>2
    <3> QED BY <2>2, <3>3 DEF c
  <2> QED BY <2>1, <2>2
<1>4. Total(g, R) = (IF k \in R THEN g[k] ELSE 0) + Total(g, R \ {k})
  <2>1. CASE k \in R
    <3>1. Total(g, R) = g[k] + Total(g, R \ {k})
      BY <2>1, TotalSplit
    <3> QED BY <2>1, <3>1
  <2>2. CASE k \notin R
    <3>1. R \ {k} = R
      BY <2>2
    <3> DEFINE c == Total(g, R \ {k})
    <3>2. Total(g, R) = c /\ c \in Int
      BY <1>2, <3>1
    <3> HIDE DEF c
    <3>3. Total(g, R) = 0 + c
      BY <3>2
    <3> QED BY <2>2, <3>3 DEF c
  <2> QED BY <2>1, <2>2
<1> DEFINE a == IF k \in S THEN f[k] ELSE 0
           b == IF k \in R THEN g[k] ELSE 0
           c == Total(f, S \ {k})
<1>5. a \in Int /\ b \in Int /\ c \in Int
  BY <1>2
<1>6. Total(f, S) = a + c /\ Total(g, R) = b + c
  BY <1>2, <1>3, <1>4
<1> HIDE DEF a, b, c
<1>7. Total(g, R) = Total(f, S) - a + b
  BY <1>5, <1>6
<1> QED BY <1>7 DEF a, b

(* There are no more keys in the map than entries.                         *)
HeldIsFinite ==
  /\ \A k \in Held : Sizes[k] = size[entries[k]] /\ Sizes[k] \in Int
  /\ IsFiniteSet(Held)

LEMMA HeldFinite == CountInv => HeldIsFinite
<1> SUFFICES ASSUME CountInv PROVE HeldIsFinite
  OBVIOUS
<1>1. \A k \in Held : entries[k] \in Entry /\ ekey[entries[k]] = k
  BY DEF CountInv, TypeInv, Typed, KeysMatch, Held, Present, Pointer
<1> DEFINE f == [k \in Held |-> entries[k]]
<1>2. f \in Injection(Held, Entry)
  BY <1>1 DEF Injection, IsInjective
<1>3. IsFiniteSet(Held)
  BY <1>2, EntryAssumption, FS_Injection DEF ExistsInjection
<1>4. \A k \in Held : Sizes[k] = size[entries[k]] /\ Sizes[k] \in Int
  BY <1>1 DEF CountInv, TypeInv, Typed, Sizes, Held
<1> QED BY <1>3, <1>4 DEF HeldIsFinite

(* The sum in terms of Total, with its arguments named.                    *)
MemoryTotal == \E f, S : f = Sizes /\ S = Held /\ usedmemory = Total(f, S)

LEMMA MemoryIsTotal == UsedMemoryExact <=> MemoryTotal
BY DEF UsedMemoryExact, MemoryTotal, Total, Sizes, Held

(* The sum and the counter change alike at one key k.                      *)
LEMMA SumFollows ==
  ASSUME CountInv, CountInv', UsedMemoryExact, NEW k \in Key,
         \A j \in Key \ {k} : /\ Present(j)' <=> Present(j)
                              /\ Present(j) => size'[entries'[j]] = size[entries[j]],
         NEW a, a = IF Present(k) THEN size[entries[k]] ELSE 0,
         NEW b, b = IF Present(k)' THEN size'[entries'[k]] ELSE 0,
         usedmemory' = usedmemory - a + b
  PROVE  UsedMemoryExact'
<1>1. HeldIsFinite /\ HeldIsFinite'
  <2>1. CountInv' => HeldIsFinite'
    BY HeldFinite, PTL
  <2> QED BY <2>1, HeldFinite
<1> DEFINE S == Held
           R == Held'
           f == Sizes
           g == Sizes'
<1>2. IsFiniteSet(S) /\ \A j \in S : f[j] = size[entries[j]] /\ f[j] \in Int
  BY <1>1 DEF HeldIsFinite
<1>3. IsFiniteSet(R) /\ \A j \in R : g[j] = size'[entries'[j]] /\ g[j] \in Int
  BY <1>1 DEF HeldIsFinite
<1>4. S \ {k} = R \ {k} /\ (k \in S <=> Present(k)) /\ (k \in R <=> Present(k)')
  BY DEF Held
<1>5. \A j \in S \ {k} : f[j] = g[j]
  BY <1>2, <1>3, <1>4 DEF Held
<1>6. usedmemory = Total(f, S)
  BY DEF UsedMemoryExact, Total, Sizes, Held
<1>7. UsedMemoryExact' <=> usedmemory' = Total(g, R)
  <2>1. UsedMemoryExact' <=> MemoryTotal'
    BY MemoryIsTotal, PTL
  <2>2. MemoryTotal' <=> usedmemory' = Total(g, R)
    BY DEF MemoryTotal
  <2> QED BY <2>1, <2>2
<1> HIDE DEF S, R, f, g
<1>8. Total(g, R) = Total(f, S) - (IF k \in S THEN f[k] ELSE 0)
                                + (IF k \in R THEN g[k] ELSE 0)
  BY <1>2, <1>3, <1>4, <1>5, TotalChange
<1>9. a = (IF k \in S THEN f[k] ELSE 0) /\ b = (IF k \in R THEN g[k] ELSE 0)
  BY <1>2, <1>3, <1>4
<1> QED BY <1>6, <1>7, <1>8, <1>9

(* Where an entry of the map is, and that only its key leads to it.        *)
LEMMA Places ==
  ASSUME CountInv
  PROVE  /\ \A k \in Key : Present(k) => entries[k] \in Entry /\ ekey[entries[k]] = k
         /\ \A j, k \in Key : Present(k) /\ entries[j] = entries[k] => j = k
         /\ \A e \in Linked : /\ e \in Entry /\ ekey[e] \in Key /\ ~IsZero(e)
                              /\ entries[ekey[e]] = e /\ Present(ekey[e])
         /\ entries \in [Key -> Pointer] /\ size \in [Entry -> Nat] /\ usedmemory \in Int
BY DEF CountInv, TypeInv, Typed, KeysMatch, Present, Pointer, Linked

(* Each effect changes the counter by what it changes in the map.          *)
LEMMA EffectOnMemory ==
  ASSUME CountInv, CountInv', Effect, UsedMemoryExact, Unsized
  PROVE  UsedMemoryExact' /\ Unsized'
<1> USE DEF Present
<1>1. CASE Keeps
  <2>1. Unsized'
    BY <1>1 DEF Effect, NoneZeroed, Unsized, Keeps
  <2>2. UsedMemoryExact'
    <3>1. Sizes' = Sizes /\ Held' = Held /\ usedmemory' = usedmemory
      BY <1>1 DEF Keeps, Sizes, Held
    <3>2. UsedMemoryExact' <=> MemoryTotal'
      BY MemoryIsTotal, PTL
    <3> QED BY <3>1, <3>2, MemoryIsTotal DEF MemoryTotal
  <2> QED BY <2>1, <2>2
<1>2. ASSUME NEW e \in Linked, Removes(e) PROVE UsedMemoryExact' /\ Unsized'
  <2>1. Unsized'
    BY <1>2 DEF Effect, NoneZeroed, Unsized, Removes
  <2> DEFINE k == ekey[e]
  <2>2. k \in Key /\ entries[k] = e /\ e \in Entry /\ e # Nil /\ size[e] \in Int
    BY Places
  <2>3. \A j \in Key : entries'[j] = IF j = k THEN Nil ELSE entries[j]
    BY <1>2, Places DEF Removes, Without
  <2>4. size' = size /\ usedmemory' = usedmemory - size[e] + 0
    BY <1>2, <2>2, Places DEF Removes, Evicted
  <2> HIDE DEF k
  <2>5. UsedMemoryExact'
    BY <2>2, <2>3, <2>4, SumFollows
  <2> QED BY <2>1, <2>5
<1>3. ASSUME NEW e \in Linked, NEW s \in Nat, Uses(e, s)
      PROVE  UsedMemoryExact' /\ Unsized'
  <2> DEFINE k == ekey[e]
  <2>1. k \in Key /\ entries[k] = e /\ e \in Entry /\ e # Nil /\ ~IsZero(e)
        /\ \A j \in Key \ {k} : entries[j] # e
    BY Places
  <2>2. size'[e] = s /\ \A x \in Entry \ {e} : size'[x] = size[x]
    BY <1>3, <2>1, Places DEF Uses
  <2>3. entries' = entries /\ usedmemory' = usedmemory - size[e] + s
    BY <1>3 DEF Uses
  <2> HIDE DEF k
  <2>4. \A j \in Key \ {k} : Present(j) => size'[entries'[j]] = size[entries[j]]
    BY <2>1, <2>2, <2>3, Places
  <2>5. UsedMemoryExact'
    BY <2>1, <2>2, <2>3, <2>4, SumFollows
  <2>6. Unsized'
    BY <2>1, <2>2 DEF Effect, NoneZeroed, Unsized
  <2> QED BY <2>5, <2>6
<1>4. ASSUME NEW t \in Thread, NEW n \in Entry, Starts(t, n)
      PROVE  UsedMemoryExact' /\ Unsized'
  <2>1. Unsized'
    BY <1>4 DEF Effect, NoneZeroed, Unsized, Starts
  <2>2. PICK k \in Key : k = KeyOf(t)
    BY <1>4 DEF Starts
  <2>3. entries'[k] = n /\ \A j \in Key \ {k} : entries'[j] = entries[j]
    BY <1>4, <2>2, Places DEF Starts
  <2>4. size' = size /\ size[n] = 0 /\ n # Nil
    BY <1>4 DEF Starts, Unused, Unsized
  <2>5. CASE entries[k] = Nil /\ UNCHANGED usedmemory
    <3>1. usedmemory' = usedmemory - 0 + 0
      BY <2>5, Places
    <3> QED BY <2>1, <2>3, <2>4, <2>5, <3>1, SumFollows
  <2>6. CASE entries[k] \in Linked /\ Evicted(entries[k])
    <3>1. usedmemory' = usedmemory - size[entries[k]] + 0 /\ entries[k] # Nil
      BY <2>6, Places DEF Evicted
    <3> QED BY <2>1, <2>3, <2>4, <3>1, SumFollows
  <2> QED BY <1>4, <2>2, <2>5, <2>6 DEF Starts
<1>5. ASSUME NEW t \in Thread, NEW e \in Entry, NEW s \in Nat, Publishes(t, e, s)
      PROVE  UsedMemoryExact' /\ Unsized'
  <2>1. PICK k \in Key : k = KeyOf(t)
    BY <1>5 DEF Publishes
  <2>2. entries[k] = e /\ e # Nil /\ size[e] = 0 /\ ~IsZero(e)'
        /\ \A j \in Key \ {k} : entries[j] # e
    BY <1>5, <2>1, Places DEF Publishes, Unsized
  <2>3. size'[e] = s /\ \A x \in Entry \ {e} : size'[x] = size[x]
    BY <1>5, Places DEF Publishes
  <2>4. entries' = entries /\ usedmemory' = usedmemory - 0 + s
    BY <1>5, Places DEF Publishes
  <2>5. \A j \in Key \ {k} : Present(j) => size'[entries'[j]] = size[entries[j]]
    BY <2>2, <2>3, <2>4, Places
  <2>6. UsedMemoryExact'
    BY <2>2, <2>3, <2>4, <2>5, SumFollows
  <2>7. Unsized'
    BY <2>2, <2>3 DEF Effect, NoneZeroed, Unsized
  <2> QED BY <2>6, <2>7
<1>6. ASSUME NEW t \in Thread, NEW n \in Entry, Creates(t, n)
      PROVE  UsedMemoryExact' /\ Unsized'
  <2>1. Unsized'
    BY <1>6 DEF Effect, NoneZeroed, Unsized, Creates
  <2>2. PICK k \in Key : k = KeyOf(t)
    BY <1>6 DEF Creates
  <2>3. entries[k] = Nil /\ entries'[k] = n
        /\ \A j \in Key \ {k} : entries'[j] = entries[j]
    BY <1>6, <2>2, Places DEF Creates
  <2>4. size' = size /\ size[n] = 0 /\ n # Nil /\ usedmemory' = usedmemory - 0 + 0
    BY <1>6, Places DEF Creates, Unused, Unsized
  <2> QED BY <2>1, <2>3, <2>4, SumFollows
<1> QED BY <1>1, <1>2, <1>3, <1>4, <1>5, <1>6 DEF Effect

-----------------------------------------------------------------------------
(* Keys.                                                                   *)

(* What Keys has added up and what it has still to visit make the counter. *)
ScanRight ==
  \A t \in Thread :
    pc[t] = "scanning" => usedmemory = scan.size + Total(Sizes, scan.todo)

AgreeInv == MainInv /\ UsedMemoryExact /\ Unsized /\ ScanRight /\ KeysNeverFails

(* No entry of the map has a neighbour that does not point back.           *)
LEMMA NotCorrupted ==
  ASSUME MainInv, NEW k \in Key, Present(k)
  PROVE  ekey[entries[k]] = k /\ ~Corrupted(entries[k])
<1> DEFINE e == entries[k]
<1>1. e \in Entry /\ ekey[e] = k
  BY Places DEF MainInv
<1>2. CASE IsZero(e)
  BY <1>1, <1>2 DEF MainInv, ListsStored, Corrupted
<1>3. CASE ~IsZero(e)
  <2>1. e \in Linked
    BY <1>1, <1>3 DEF Linked
  <2> QED BY <1>1, <2>1 DEF MainInv, ListsStored, Listed, WellLinked, Links, Corrupted
<1> QED BY <1>1, <1>2, <1>3

(* The two ends of the list are in order.                                  *)
LEMMA EndsNotCorrupted ==
  ASSUME MainInv PROVE ~EndsCorrupted
BY DEF MainInv, ListsStored, Listed, WellLinked, Ends, EndsCorrupted

(* Who scans keeps the mutex, so that nobody else changes what it scans.   *)
LEMMA ScanSteps ==
  ASSUME MainInv, CountInv', Next, NEW t \in Thread, pc'[t] = "scanning"
  PROVE  \/ KeysBegin(t)
         \/ \E k \in Key : KeysVisit(t, k)
         \/ /\ UNCHANGED <<scan, entries, size, usedmemory, failure>>
            /\ pc[t] = "scanning"
<1>1. mutex' = t /\ t # NoThread
  BY DEF CountInv, TypeInv, Exclusion
<1>2. CASE Tick \/ Finished
  BY <1>2 DEF Tick, Finished, vars, cacheVars, entryVars, threadVars
<1>3. ASSUME NEW u \in Thread, Step(u)
      PROVE  \/ KeysBegin(t)
             \/ \E k \in Key : KeysVisit(t, k)
             \/ /\ UNCHANGED <<scan, entries, size, usedmemory, failure>>
                /\ pc[t] = "scanning"
  <2>1. CASE Get(u) \/ Put(u) \/ Del(u) \/ Wake(u) \/ ComputePanics(u)
    BY <1>1, <2>1 DEF Get, Put, Del, Wake, ComputePanics, InCriticalSection
  <2>2. CASE EvictDone(u)
    BY <1>1, <2>2 DEF EvictDone
  <2>3. CASE KeysEnd(u)
    BY <1>1, <2>3 DEF KeysEnd, KeysPanics
  <2>4. CASE ComputeReturns(u)
    <3>1. u = t
      BY <1>1, <2>4 DEF ComputeReturns
    <3> QED BY <2>4, <3>1 DEF ComputeReturns
  <2>5. CASE EvictNext(u)
    <3>1. mutex = u /\ mutex' = mutex /\ pc' = pc /\ pc[u] = "evicting"
      BY <2>5 DEF MainInv, CountInv, TypeInv, Exclusion, EvictNext
    <3> QED BY <1>1, <3>1
  <2>6. CASE KeysBegin(u)
    BY <1>1, <2>6 DEF KeysBegin
  <2>7. CASE \E k \in Key : KeysVisit(u, k)
    <3>1. mutex = u /\ (mutex' = mutex \/ mutex' = NoThread)
      BY <2>7 DEF MainInv, CountInv, TypeInv, Exclusion, KeysVisit, KeysPanics
    <3> QED BY <1>1, <2>7, <3>1
  <2>8. CASE Invoke(u) \/ ReadValue(u)
    <3>1. pc[t] = "scanning"
      BY <2>8 DEF Invoke, ReadValue, Return, MainInv, CountInv, TypeInv, Typed
    <3> QED BY <2>8, <3>1 DEF Invoke, ReadValue, cacheVars, entryVars
  <2> QED BY <1>3, <2>1, <2>2, <2>3, <2>4, <2>5, <2>6, <2>7, <2>8
          DEF Step, Locked, Compute, Loop
<1> QED BY <1>2, <1>3 DEF Next

(* What Keys does with one entry: its panics are out of reach.             *)
LEMMA VisitSteps ==
  ASSUME MainInv, ScanRight, NEW t \in Thread, NEW k \in Key, KeysVisit(t, k)
  PROVE  /\ UNCHANGED failure
         /\ usedmemory' = scan'.size + Total(Sizes', scan'.todo)
<1> DEFINE e == entries[k]
           rest == scan.todo \ {k}
<1>1. pc[t] = "scanning" /\ k \in scan.todo /\ Present(k)
      /\ scan.todo \subseteq Held /\ scan.size \in Int
  <2>1. pc[t] = "scanning" /\ k \in scan.todo
    BY DEF KeysVisit
  <2>2. scan.todo \subseteq Key /\ scan.size \in Int
    BY DEF MainInv, CountInv, TypeInv, Typed
  <2>3. \A j \in Key : j \in scan.todo => entries[j] # Nil
    BY <2>1 DEF MainInv, CountInv, TypeInv, Exclusion
  <2> QED BY <2>1, <2>2, <2>3 DEF Held, Present
<1>2. ekey[e] = k /\ e \in Entry /\ ~Corrupted(e)
  BY <1>1, NotCorrupted, Places DEF MainInv
<1>3. IsFiniteSet(scan.todo) /\ IsFiniteSet(rest)
      /\ \A j \in scan.todo : Sizes[j] = size[entries[j]] /\ Sizes[j] \in Int
  <2>1. HeldIsFinite
    BY HeldFinite DEF MainInv
  <2> QED BY <1>1, <2>1, FS_Subset DEF HeldIsFinite
<1>4. usedmemory = scan.size + Total(Sizes, scan.todo)
  BY <1>1 DEF ScanRight
<1>5. Total(Sizes, scan.todo) = size[e] + Total(Sizes, rest)
      /\ Total(Sizes, rest) \in Int /\ size[e] \in Int
  <2>1. Total(Sizes, scan.todo) = Sizes[k] + Total(Sizes, rest) /\ Sizes[k] = size[e]
    BY <1>1, <1>3, TotalSplit
  <2>2. Total(Sizes, rest) \in Int
    BY <1>3, TotalSplit
  <2> QED BY <1>1, <1>3, <2>1, <2>2
<1>6. CASE /\ NotNeeded(e, waitingForComputation) /\ Evicted(e)
           /\ entries' = [entries EXCEPT ![k] = Nil]
           /\ scan' = [scan EXCEPT !.todo = rest]
           /\ UNCHANGED failure
  <2>1. usedmemory' = usedmemory - size[e] /\ size' = size
    BY <1>6 DEF Evicted, KeysVisit, entryVars
  <2>2. \A j \in rest : Sizes'[j] = Sizes[j]
    BY <1>1, <1>6, <2>1, Places DEF Sizes, Held, MainInv
  <2>3. Total(Sizes', rest) = Total(Sizes, rest)
    BY <1>3, <2>2, TotalSame
  <2>4. scan'.size = scan.size /\ scan'.todo = rest
    BY <1>6 DEF MainInv, CountInv, TypeInv, Typed
  <2> HIDE DEF e, rest
  <2>5. usedmemory' = scan.size + Total(Sizes, rest)
    BY <1>1, <1>4, <1>5, <2>1
  <2> QED BY <1>6, <2>3, <2>4, <2>5
<1>7. CASE /\ scan' = [todo |-> rest, size |-> scan.size + size[e]]
           /\ UNCHANGED <<failure, cacheVars>>
  <2>1. usedmemory' = usedmemory /\ Sizes' = Sizes
    BY <1>7 DEF cacheVars, Sizes, KeysVisit, entryVars
  <2>2. scan'.size = scan.size + size[e] /\ scan'.todo = rest
    BY <1>7
  <2>3. Total(Sizes', rest) = Total(Sizes, rest)
    BY <2>1
  <2> HIDE DEF e, rest
  <2>4. usedmemory' = (scan.size + size[e]) + Total(Sizes, rest)
    BY <1>1, <1>4, <1>5, <2>1
  <2> QED BY <1>7, <2>2, <2>3, <2>4
<1> QED BY <1>2, <1>6, <1>7 DEF KeysVisit

(* What Keys has added up stays right with every step.                     *)
LEMMA ScanFollows ==
  ASSUME CanPanic = FALSE, MainInv, CountInv', ScanRight, UsedMemoryExact, [Next]_vars
  PROVE  ScanRight'
<1> SUFFICES ASSUME NEW t \in Thread, pc'[t] = "scanning"
             PROVE  usedmemory' = scan'.size + Total(Sizes', scan'.todo)
  <2>1. Total(Sizes, scan.todo)' = Total(Sizes', scan'.todo)
    OBVIOUS
  <2> QED BY <2>1 DEF ScanRight
<1>1. CASE UNCHANGED vars
  BY <1>1 DEF vars, cacheVars, entryVars, threadVars, ScanRight, Sizes
<1>2. CASE Next
  <2>1. CASE KeysBegin(t)
    <3>1. scan'.size = 0 /\ scan'.todo = Held /\ Sizes' = Sizes /\ usedmemory' = usedmemory
      BY <2>1 DEF KeysBegin, Held, Present, Sizes, cacheVars, entryVars
    <3>2. usedmemory = Total(Sizes, Held) /\ usedmemory \in Int
      BY MemoryIsTotal DEF MemoryTotal, MainInv, CountInv, TypeInv, Typed
    <3> QED BY <3>1, <3>2
  <2>2. CASE \E k \in Key : KeysVisit(t, k)
    BY <2>2, VisitSteps
  <2>3. CASE UNCHANGED <<scan, entries, size, usedmemory>> /\ pc[t] = "scanning"
    BY <2>3 DEF ScanRight, Sizes
  <2> QED BY <1>2, <2>1, <2>2, <2>3, ScanSteps
<1> QED BY <1>1, <1>2

(* No step is a panic of Keys.                                             *)
LEMMA NothingFails ==
  ASSUME MainInv, ScanRight, [Next]_vars PROVE UNCHANGED failure
<1>1. ASSUME NEW t \in Thread, KeysEnd(t) PROVE UNCHANGED failure
  <2>1. pc[t] = "scanning" /\ scan.todo = {}
    BY <1>1 DEF KeysEnd
  <2>2. Total(Sizes, {}) = 0
    BY TotalSplit, FS_EmptySet
  <2>3. usedmemory = scan.size
    <3>1. scan.size \in Nat
      BY DEF MainInv, CountInv, TypeInv, Typed
    <3>2. usedmemory = scan.size + Total(Sizes, {})
      BY <2>1 DEF ScanRight
    <3> QED BY <3>1, <3>2, <2>2
  <2> QED BY <1>1, <2>3, EndsNotCorrupted DEF KeysEnd
<1>2. ASSUME NEW t \in Thread, NEW k \in Key, KeysVisit(t, k) PROVE UNCHANGED failure
  BY <1>2, VisitSteps
<1>3. ASSUME NEW t \in Thread, Get(t) \/ Put(t) \/ Del(t) \/ Wake(t) \/ ComputePanics(t)
      PROVE  UNCHANGED failure
  BY <1>3 DEF Get, Put, Del, Wake, ComputePanics, InCriticalSection
<1>4. ASSUME NEW t \in Thread,
             \/ Invoke(t) \/ KeysBegin(t) \/ ComputeReturns(t)
             \/ ReadValue(t) \/ EvictNext(t) \/ EvictDone(t)
      PROVE  UNCHANGED failure
  BY <1>4 DEF Invoke, KeysBegin, ComputeReturns, ReadValue, EvictNext, EvictDone
<1>5. CASE Tick \/ UNCHANGED vars
  BY <1>5 DEF Tick, vars
<1> QED BY <1>1, <1>2, <1>3, <1>4, <1>5
        DEF Next, Finished, Step, Locked, Compute, Loop

(* The invariant of map, list, counter and Keys.                           *)
LEMMA AgreeInvHolds == ASSUME CanPanic = FALSE PROVE Spec => []AgreeInv
<1>1. Init => AgreeInv
  <2> SUFFICES ASSUME Init PROVE AgreeInv
    OBVIOUS
  <2>1. Held = {}
    BY DEF Init, Held, Present
  <2>2. UsedMemoryExact
    <3>1. Total(Sizes, {}) = 0
      BY TotalSplit, FS_EmptySet
    <3> QED BY <2>1, <3>1, MemoryIsTotal DEF Init, MemoryTotal
  <2>3. Unsized /\ ScanRight /\ KeysNeverFails
    BY DEF Init, Unsized, ScanRight, KeysNeverFails
  <2> QED BY <2>2, <2>3, InitMain DEF AgreeInv
<1>2. AgreeInv /\ [Next]_vars => AgreeInv'
  <2> SUFFICES ASSUME AgreeInv, [Next]_vars PROVE AgreeInv'
    OBVIOUS
  <2>1. MainInv' /\ CountInv'
    BY NextMain DEF AgreeInv, MainInv
  <2>2. UsedMemoryExact' /\ Unsized'
    BY <2>1, NextEffect, EffectOnMemory DEF AgreeInv, MainInv
  <2>3. ScanRight'
    BY <2>1, ScanFollows DEF AgreeInv
  <2>4. KeysNeverFails'
    BY NothingFails DEF AgreeInv, KeysNeverFails
  <2> QED BY <2>1, <2>2, <2>3, <2>4 DEF AgreeInv
<1> QED BY <1>1, <1>2, PTL DEF Spec

(* List and map hold the same entries in both directions, usedmemory is    *)
(* the sum of their sizes, and none of the checks of Keys fails: between   *)
(* operations, and in the middle of eviction loops and of Keys.            *)
THEOREM StructuresAlwaysAgree ==
  ASSUME CanPanic = FALSE PROVE Spec => []StructuresAgree
<1>1. AgreeInv => StructuresAgree
  <2> SUFFICES ASSUME AgreeInv PROVE StructuresAgree
    OBVIOUS
  <2>1. ListMirrorsMap
    BY ListedForward DEF AgreeInv, MainInv, ListsStored, ListMirrorsMap
  <2> QED BY <2>1 DEF AgreeInv, StructuresAgree
<1> QED BY <1>1, AgreeInvHolds, PTL

-----------------------------------------------------------------------------
(* Eviction.                                                               *)

(* What lies behind the candidate of an eviction loop, nearer to the end   *)
(* of the list, may not be dropped: everything when no candidate is left.  *)
LoopRight ==
  \A t \in Thread, s \in {Forward(list)} :
    pc[t] = "evicting" =>
      \A j \in 1..Len(s) :
        (\A i \in 1..Len(s) : s[i] = at[t] => i < j) => ~Evictable(t, s[j])

LoopInv == MainInv /\ LoopRight

(* Who evicts keeps the mutex, so that nobody else touches the entries.    *)
LEMMA LoopSteps ==
  ASSUME MainInv, Next, NEW t \in Thread, pc[t] = "evicting"
  PROVE  \/ EvictNext(t)
         \/ EvictDone(t)
         \/ /\ UNCHANGED <<list, size, expiration, waitingForComputation>>
            /\ pc'[t] = "evicting" /\ at'[t] = at[t] /\ now'[t] = now[t]
<1>1. mutex = t /\ t # NoThread
  BY DEF MainInv, CountInv, TypeInv, Exclusion
<1>2. CASE Tick \/ Finished
  BY <1>2 DEF Tick, Finished, vars, cacheVars, entryVars, threadVars
<1>3. ASSUME NEW u \in Thread, Step(u)
      PROVE  \/ EvictNext(t)
             \/ EvictDone(t)
             \/ /\ UNCHANGED <<list, size, expiration, waitingForComputation>>
                /\ pc'[t] = "evicting" /\ at'[t] = at[t] /\ now'[t] = now[t]
  <2>1. CASE Get(u) \/ Put(u) \/ Del(u) \/ Wake(u) \/ ComputePanics(u)
    BY <1>1, <2>1 DEF Get, Put, Del, Wake, ComputePanics, InCriticalSection
  <2>2. CASE KeysBegin(u) \/ ComputeReturns(u)
    BY <1>1, <2>2 DEF KeysBegin, ComputeReturns
  <2>3. CASE EvictNext(u) \/ EvictDone(u)
    <3>1. u = t
      BY <1>1, <2>3 DEF MainInv, CountInv, TypeInv, Exclusion, EvictNext, EvictDone
    <3> QED BY <2>3, <3>1
  <2>4. CASE KeysEnd(u) \/ \E k \in Key : KeysVisit(u, k)
    <3>1. mutex = u /\ pc[u] = "scanning"
      BY <2>4 DEF MainInv, CountInv, TypeInv, Exclusion, KeysEnd, KeysVisit
    <3> QED BY <1>1, <3>1
  <2>5. CASE Invoke(u)
    <3>1. u # t
      BY <2>5 DEF Invoke
    <3>2. pc'[t] = pc[t] /\ now'[t] = now[t] /\ at' = at
      BY <2>5, <3>1 DEF Invoke, MainInv, CountInv, TypeInv, Typed
    <3> QED BY <2>5, <3>2 DEF Invoke, cacheVars, entryVars
  <2>6. CASE ReadValue(u)
    <3>1. u # t
      BY <2>6 DEF ReadValue
    <3>2. pc'[t] = pc[t] /\ now'[t] = now[t] /\ at'[t] = at[t]
      BY <2>6, <3>1, ReturnSteps DEF ReadValue, MainInv, CountInv
    <3> QED BY <2>6, <3>2 DEF ReadValue, cacheVars, entryVars
  <2> QED BY <1>3, <2>1, <2>2, <2>3, <2>4, <2>5, <2>6 DEF Step, Locked, Compute, Loop
<1> QED BY <1>2, <1>3 DEF Next

(* An eviction loop begins only after a computation.                       *)
LEMMA LoopBegins ==
  ASSUME MainInv, CountInv', Next, NEW t \in Thread,
         pc[t] # "evicting", pc'[t] = "evicting"
  PROVE  ComputeReturns(t)
<1>1. mutex' = t /\ t # NoThread
  BY DEF CountInv, TypeInv, Exclusion
<1>2. CASE Tick \/ Finished
  BY <1>2 DEF Tick, Finished, vars, threadVars
<1>3. ASSUME NEW u \in Thread, Step(u) PROVE ComputeReturns(t)
  <2>1. CASE Get(u) \/ Put(u) \/ Del(u) \/ Wake(u) \/ ComputePanics(u)
    BY <1>1, <2>1 DEF Get, Put, Del, Wake, ComputePanics, InCriticalSection
  <2>2. CASE EvictDone(u) \/ KeysEnd(u)
    BY <1>1, <2>2 DEF EvictDone, KeysEnd, KeysPanics
  <2>3. CASE ComputeReturns(u)
    <3>1. u = t
      BY <1>1, <2>3 DEF ComputeReturns
    <3> QED BY <2>3, <3>1
  <2>4. CASE EvictNext(u)
    BY <2>4 DEF EvictNext
  <2>5. CASE KeysBegin(u)
    <3>1. u = t /\ pc'[t] = "scanning"
      BY <1>1, <2>5 DEF KeysBegin, MainInv, CountInv, TypeInv, Typed
    <3> QED BY <3>1
  <2>6. ASSUME NEW k \in Key, KeysVisit(u, k) PROVE FALSE
    <3>1. mutex' = NoThread \/ pc' = pc
      BY <2>6 DEF KeysVisit, KeysPanics, threadVars
    <3> QED BY <1>1, <3>1
  <2>7. CASE Invoke(u) \/ ReadValue(u)
    <3>1. pc'[t] \in {pc[t], "locking", "idle"}
      BY <2>7 DEF Invoke, ReadValue, Return, MainInv, CountInv, TypeInv, Typed
    <3> QED BY <3>1
  <2> QED BY <1>3, <2>1, <2>2, <2>3, <2>4, <2>5, <2>6, <2>7
          DEF Step, Locked, Compute, Loop
<1> QED BY <1>2, <1>3 DEF Next

(* One round of the loop: the candidate stands at some place k of the list *)
(* and is dropped if it may be; the next candidate is the one before it.   *)
LEMMA LoopRound ==
  ASSUME MainInv, NEW t \in Thread, EvictNext(t)
  PROVE  LET s == Forward(list)
             r == Forward(list')
         IN  \E k \in 1..Len(s) :
               /\ s[k] = at[t]
               /\ at'[t] = IF k = 1 THEN Nil ELSE s[k - 1]
               /\ \/ Evictable(t, s[k]) /\ r = RemoveAt(s, k)
                  \/ ~Evictable(t, s[k]) /\ list' = list
<1> DEFINE s == Forward(list)
<1>1. Listed(list, Linked) /\ at[t] \in Linked /\ pc[t] = "evicting"
  BY DEF MainInv, ListsStored, EvictNext
<1>2. PICK k \in 1..Len(s) : s[k] = at[t]
  BY <1>1, ListedPlaces
<1>3. list.prev[s[k]] = IF k = 1 THEN Nil ELSE s[k - 1]
  BY <1>1, ListedForward DEF IsOrder
<1>4. at'[t] = list.prev[at[t]]
  BY DEF EvictNext, NextCandidate, MainInv, CountInv, TypeInv, Typed
<1>5. \/ Evictable(t, at[t]) /\ list' = UnlinkEntry(list, at[t])
      \/ ~Evictable(t, at[t]) /\ list' = list
  BY DEF EvictNext, Evicted, cacheVars
<1>6. Forward(UnlinkEntry(list, s[k])) = RemoveAt(s, k)
  BY <1>1, ForwardUnlink
<1> HIDE DEF s
<1>7. \/ Evictable(t, s[k]) /\ Forward(list') = RemoveAt(s, k)
      \/ ~Evictable(t, s[k]) /\ list' = list
  BY <1>2, <1>5, <1>6
<1> QED BY <1>2, <1>3, <1>4, <1>7 DEF s

(* Behind the next candidate there is still nothing that may be dropped.   *)
LEMMA LoopFollows ==
  ASSUME LoopInv, MainInv', [Next]_vars PROVE LoopRight'
<1> DEFINE Behind(t, s, c) ==
             \A j \in 1..Len(s) :
               (\A i \in 1..Len(s) : s[i] = c => i < j) => ~Evictable(t, s[j])
<1>1. \A t \in Thread : pc[t] = "evicting" => Behind(t, Forward(list), at[t])
  BY DEF LoopInv, LoopRight
<1>r. Forward(list)' = Forward(list')
  BY DEF Forward, Chain
<1> SUFFICES ASSUME NEW t \in Thread, pc'[t] = "evicting",
                    NEW r, r = Forward(list'), NEW j \in 1..Len(r),
                    \A i \in 1..Len(r) : r[i] = at'[t] => i < j
             PROVE  ~Evictable(t, r[j])'
  BY <1>r DEF LoopRight
<1>s. PICK s : s = Forward(list)
  OBVIOUS
<1>2. CASE /\ UNCHANGED <<list, size, expiration, waitingForComputation>>
           /\ pc[t] = "evicting" /\ at'[t] = at[t] /\ now'[t] = now[t]
  <2>1. ~Evictable(t, s[j])
    BY <1>1, <1>2, <1>s
  <2>2. Evictable(t, r[j])' <=> Evictable(t, s[j])
    <3>1. r = s
      BY <1>2, <1>s
    <3> QED BY <1>2, <3>1 DEF Evictable, Expired, NotNeeded
  <2> QED BY <2>1, <2>2
<1>3. CASE pc[t] = "evicting" /\ EvictNext(t)
  <2>1. PICK k \in 1..Len(s) :
          /\ s[k] = at[t]
          /\ at'[t] = IF k = 1 THEN Nil ELSE s[k - 1]
          /\ \/ Evictable(t, s[k]) /\ r = RemoveAt(s, k)
             \/ ~Evictable(t, s[k]) /\ list' = list
    BY <1>3, <1>s, LoopRound DEF LoopInv
  <2>2. s \in Seq(Entry) /\ Len(s) \in Nat /\ \A i, m \in 1..Len(s) : s[i] = s[m] => i = m
    BY <1>s, ListedPlaces DEF LoopInv, MainInv, ListsStored
  <2>3. \A m \in 1..Len(s) : m > k => ~Evictable(t, s[m])
    <3> SUFFICES ASSUME NEW m \in 1..Len(s), m > k PROVE ~Evictable(t, s[m])
      OBVIOUS
    <3>1. \A i \in 1..Len(s) : s[i] = at[t] => i < m
      BY <2>1, <2>2
    <3>2. Behind(t, s, at[t])
      BY <1>1, <1>3, <1>s
    <3> QED BY <3>1, <3>2
  <2>4. CASE Evictable(t, s[k]) /\ r = RemoveAt(s, k)
    <3>1. Len(r) = Len(s) - 1 /\ \A i \in 1..(Len(s) - 1) : r[i] = IF i < k THEN s[i] ELSE s[i + 1]
      <4>1. s \in Seq(Entry) /\ k \in 1..Len(s) /\ r = RemoveAt(s, k)
        BY <2>2, <2>4
      <4> QED BY ONLY <4>1, WithoutPlace
    <3>2. j >= k /\ j \in 1..(Len(s) - 1)
      <4>1. CASE k = 1
        BY <2>2, <3>1, <4>1
      <4>2. CASE k # 1
        <5>1. k - 1 \in 1..Len(r) /\ r[k - 1] = s[k - 1] /\ at'[t] = s[k - 1]
          BY <2>1, <2>2, <3>1, <4>2
        <5>2. k - 1 < j
          BY <5>1
        <5> QED BY <2>2, <3>1, <5>2
      <4> QED BY <4>1, <4>2
    <3>3. r[j] = s[j + 1] /\ j + 1 \in 1..Len(s) /\ j + 1 > k
      BY <2>2, <3>1, <3>2
    <3>4. ~Evictable(t, s[j + 1])
      BY <2>3, <3>3
    <3>5. Evictable(t, r[j])' <=> Evictable(t, r[j])
      BY <1>3 DEF EvictNext, entryVars, Evictable, Expired, NotNeeded
    <3> QED BY <3>3, <3>4, <3>5
  <2>5. CASE ~Evictable(t, s[k]) /\ list' = list
    <3>1. r = s
      BY <2>5, <1>s
    <3>2. j >= k /\ j \in 1..Len(s)
      <4>1. CASE k = 1
        BY <2>2, <3>1, <4>1
      <4>2. CASE k # 1
        <5>1. k - 1 \in 1..Len(r) /\ r[k - 1] = at'[t]
          BY <2>1, <2>2, <3>1, <4>2
        <5>2. k - 1 < j
          BY <5>1
        <5> QED BY <2>2, <3>1, <5>2
      <4> QED BY <4>1, <4>2
    <3>3. ~Evictable(t, s[j])
      <4>1. CASE j = k
        BY <2>5, <4>1
      <4>2. CASE j # k
        BY <2>2, <2>3, <3>2, <4>2
      <4> QED BY <4>1, <4>2
    <3>4. Evictable(t, s[j])' <=> Evictable(t, s[j])
      BY <1>3, <2>5 DEF EvictNext, entryVars, Evictable, Expired, NotNeeded
    <3> QED BY <3>1, <3>3, <3>4
  <2> QED BY <2>1, <2>4, <2>5
<1>4. CASE pc[t] # "evicting" /\ ComputeReturns(t)
  <2>1. at'[t] = list'.tail
    BY <1>4 DEF ComputeReturns, FirstCandidate, LoopInv, MainInv, CountInv, TypeInv, Typed
  <2>2. Len(r) \in Nat /\ list'.tail = IF Len(r) = 0 THEN Nil ELSE r[Len(r)]
    <3>1. Listed(list', Linked')
      BY DEF MainInv, ListsStored
    <3> QED BY <3>1, ListedForward, ListedPlaces DEF IsOrder
  <2>3. Len(r) \in 1..Len(r) /\ r[Len(r)] = at'[t]
    BY <2>1, <2>2
  <2>4. Len(r) < j
    BY <2>3
  <2> QED BY <2>2, <2>4
<1>5. CASE EvictDone(t)
  <2>1. pc'[t] = "idle"
    BY <1>5, ReturnSteps DEF EvictDone, LoopInv, MainInv, CountInv
  <2> QED BY <2>1
<1>6. CASE UNCHANGED vars
  BY <1>2, <1>6 DEF vars, cacheVars, entryVars, threadVars
<1> HIDE DEF Behind
<1>7. CASE Next /\ pc[t] = "evicting"
  BY <1>2, <1>3, <1>5, <1>7, LoopSteps DEF LoopInv
<1>8. CASE Next /\ pc[t] # "evicting"
  BY <1>4, <1>8, LoopBegins DEF LoopInv, MainInv
<1> QED BY <1>6, <1>7, <1>8

(* The invariant of the eviction loop.                                     *)
LEMMA LoopInvHolds == ASSUME CanPanic = FALSE PROVE Spec => []LoopInv
<1>1. Init => LoopInv
  BY InitMain DEF LoopInv, LoopRight, Init
<1>2. LoopInv /\ [Next]_vars => LoopInv'
  BY NextMain, LoopFollows DEF LoopInv
<1> QED BY <1>1, <1>2, PTL DEF Spec

(* Eviction drops what was used longest ago, and when a computing Get      *)
(* returns, the memory limit holds or nothing is left that may be dropped. *)
THEOREM EvictionAlwaysRight ==
  ASSUME CanPanic = FALSE PROVE Spec => EvictionIsRight
<1>1. ASSUME LoopInv, Next, NEW t \in Thread, pc[t] = "evicting", list' # list,
             NEW i \in 1..Cardinality(Entry), NEW j \in 1..Cardinality(Entry),
             i < j, j <= Len(Forward(list)),
             Forward(list)[i] \notin ToSet(Forward(list'))
      PROVE  ~Evictable(t, Forward(list)[j])
  <2> DEFINE s == Forward(list)
             r == Forward(list')
  <2>1. EvictNext(t)
    BY <1>1, LoopSteps DEF LoopInv, EvictDone, cacheVars
  <2>2. PICK k \in 1..Len(s) : /\ s[k] = at[t]
                               /\ r = RemoveAt(s, k) \/ list' = list
    BY <1>1, <2>1, LoopRound DEF LoopInv
  <2>3. s \in Seq(Entry) /\ Len(s) \in Nat /\ \A a, b \in 1..Len(s) : s[a] = s[b] => a = b
    BY <1>1, ListedPlaces DEF LoopInv, MainInv, ListsStored
  <2>4. ToSet(r) = ToSet(s) \ {s[k]}
    <3>1. r = RemoveAt(s, k)
      BY <1>1, <2>2
    <3>2. \A a, b \in 1..Len(s) : s[a] = s[b] => a = b
      BY <2>3
    <3>3. s \in Seq(Entry) /\ k \in 1..Len(s)
      BY <2>3
    <3> HIDE DEF s, r
    <3> QED BY ONLY <3>1, <3>2, <3>3, WithoutPlace
  <2>5. i \in 1..Len(s) /\ j \in 1..Len(s) /\ s[i] \in ToSet(s)
    BY <1>1, <2>3, EntryAssumption, FS_CardinalityType DEF ToSet
  <2>6. s[i] = s[k]
    BY <1>1, <2>4, <2>5
  <2>7. \A m \in 1..Len(s) : s[m] = at[t] => m < j
    <3> HIDE DEF s
    <3> QED BY <1>1, <2>2, <2>3, <2>5, <2>6
  <2> QED BY <1>1, <2>5, <2>7 DEF LoopInv, LoopRight
<1>2. ASSUME LoopInv, Next, NEW t \in Thread, pc[t] = "evicting", pc'[t] = "idle"
      PROVE  \/ usedmemory <= MaxMemory
             \/ \A e \in ToSet(Forward(list)) : ~Evictable(t, e)
  <2>1. EvictDone(t)
    BY <1>2, LoopSteps DEF LoopInv, EvictNext
  <2>2. CASE at[t] = Nil
    <3>1. \A i \in 1..Len(Forward(list)) : Forward(list)[i] \in Entry
      BY ListedPlaces, <1>2 DEF LoopInv, MainInv, ListsStored, Linked
    <3>2. \A j \in 1..Len(Forward(list)) : ~Evictable(t, Forward(list)[j])
      BY <1>2, <2>2, <3>1 DEF LoopInv, LoopRight
    <3>3. DOMAIN Forward(list) = 1..Len(Forward(list))
      BY <1>2, ListedPlaces DEF LoopInv, MainInv, ListsStored
    <3> QED BY <3>2, <3>3 DEF ToSet
  <2> QED BY <2>1, <2>2 DEF EvictDone
<1>3. LoopInv /\ [Next]_vars =>
        [\A t \in Thread, i, j \in 1..Cardinality(Entry) :
           LET order == Forward(list)
           IN  /\ pc[t] = "evicting"
               /\ i < j /\ j <= Len(order)
               /\ list' # list
               /\ order[i] \notin ToSet(Forward(list)')
               => ~Evictable(t, order[j])]_vars
  <2>1. Forward(list)' = Forward(list')
    BY DEF Forward, Chain
  <2> QED BY <1>1, <2>1
<1>4. LoopInv /\ [Next]_vars =>
        [\A t \in Thread :
           pc[t] = "evicting" /\ pc'[t] = "idle"
             => \/ usedmemory <= MaxMemory
                \/ \A e \in ToSet(Forward(list)) : ~Evictable(t, e)]_vars
  BY <1>2
<1> QED BY <1>3, <1>4, LoopInvHolds, PTL
        DEF Spec, EvictionIsRight, EvictsOldestFirst, MemoryRespected

-----------------------------------------------------------------------------
(* Single flight.                                                          *)

(* What Slot says of a key whose entry is x: that t computes it, or that   *)
(* it is stored.                                                           *)
SlotIs ==
  /\ Slot = [k \in Key |-> Slot[k]]
  /\ \A k \in Key : ~Present(k) => Slot[k] = "absent"
  /\ \A k \in Key, x \in Entry, t \in Thread :
       entries[k] = x /\ Computes(t, x) => Slot[k] = t
  /\ \A k \in Key, x \in Entry :
       entries[k] = x /\ (\A t \in Thread : ~Computes(t, x)) => Slot[k] = "stored"

LEMMA SlotRead == MainInv => SlotIs
<1> SUFFICES ASSUME MainInv PROVE SlotIs
  OBVIOUS
<1>1. Slot = [k \in Key |-> Slot[k]]
  BY DEF Slot
<1>2. \A k \in Key : ~Present(k) => Slot[k] = "absent"
  BY DEF Slot
<1>3. ASSUME NEW k \in Key, NEW x \in Entry, entries[k] = x
      PROVE  Slot[k] = IF \E t \in Thread : Computes(t, x)
                       THEN CHOOSE t \in Thread : Computes(t, x) ELSE "stored"
  BY <1>3 DEF Slot, Present
<1>4. ASSUME NEW k \in Key, NEW x \in Entry, NEW t \in Thread,
             entries[k] = x, Computes(t, x)
      PROVE  Slot[k] = t
  <2>1. \A u \in Thread : Computes(u, x) => u = t
    BY <1>4 DEF MainInv, Unfinished, Computes
  <2> DEFINE c == CHOOSE u \in Thread : Computes(u, x)
  <2>2. Slot[k] = c
    BY <1>3, <1>4
  <2>3. c \in Thread /\ Computes(c, x)
    BY <1>4
  <2> HIDE DEF c
  <2> QED BY <2>1, <2>2, <2>3
<1> QED BY <1>1, <1>2, <1>3, <1>4 DEF SlotIs

(* Nobody computes a stored entry, or one that has not been in use.        *)
LEMMA NobodyComputes ==
  ASSUME MainInv, NEW x, x \in Linked \/ Unused(x)
  PROVE  \A t \in Thread : ~Computes(t, x)
BY DEF MainInv, Unfinished, Computes, Linked, Unused, Needers

(* Each effect is a step of the abstract specification or changes nothing. *)
LEMMA EffectOnSlots ==
  ASSUME MainInv, SlotIs, SlotIs', Effect, {"absent", "stored"} \cap Thread = {}
  PROVE  [Flight!Next]_Slot
<1> DEFINE Same(j) == Slot'[j] = Slot[j]
<1>1. ASSUME NEW j \in Key, entries'[j] = entries[j],
             \A t \in Thread, x \in Entry : entries[j] = x => (Computes(t, x)' <=> Computes(t, x))
      PROVE  Same(j)
  <2>1. CASE entries[j] = Nil
    BY <1>1, <2>1 DEF SlotIs, Present
  <2>2. ASSUME NEW x \in Entry, entries[j] = x PROVE Same(j)
    <3>1. ASSUME NEW t \in Thread, Computes(t, x) PROVE Same(j)
      <4>1. Slot[j] = t
        BY <2>2, <3>1 DEF SlotIs
      <4>2. Computes(t, x)' /\ entries'[j] = x
        BY <1>1, <2>2, <3>1
      <4>3. Slot'[j] = t
        BY <4>2 DEF SlotIs
      <4> QED BY <4>1, <4>3
    <3>2. CASE \A t \in Thread : ~Computes(t, x)
      <4>1. Slot[j] = "stored"
        BY <2>2, <3>2 DEF SlotIs
      <4>2. entries'[j] = x /\ \A t \in Thread : ~Computes(t, x)'
        BY <1>1, <2>2, <3>2
      <4>3. Slot'[j] = "stored"
        BY <4>2 DEF SlotIs
      <4> QED BY <4>1, <4>3
    <3> QED BY <3>1, <3>2
  <2>3. entries[j] \in Entry \cup {Nil}
    BY Places DEF MainInv, Pointer
  <2> HIDE DEF Same
  <2> QED BY <2>1, <2>2, <2>3
<1>2. ASSUME NEW k \in Key, \A j \in Key \ {k} : Same(j)
      PROVE  Slot' = [Slot EXCEPT ![k] = Slot'[k]]
  <2>1. Slot = [j \in Key |-> Slot[j]] /\ Slot' = [j \in Key |-> Slot'[j]]
    BY DEF SlotIs
  <2> DEFINE a == Slot
             b == Slot'
  <2>2. a = [j \in Key |-> a[j]] /\ b = [j \in Key |-> b[j]] /\ \A j \in Key \ {k} : b[j] = a[j]
    BY <1>2, <2>1
  <2> HIDE DEF a, b
  <2>3. b = [a EXCEPT ![k] = b[k]]
    BY <2>2
  <2> QED BY <2>3 DEF a, b
<1>3. CASE Keeps \/ \E e \in Linked, s \in Nat : Uses(e, s)
  <2>1. \A j \in Key : Same(j)
    BY <1>1, <1>3 DEF Keeps, Uses, ComputingSame
  <2>2. Slot' = Slot
    BY <2>1 DEF SlotIs
  <2> QED BY <2>2
<1>4. ASSUME NEW e \in Linked, Removes(e) PROVE Flight!Next
  <2>1. PICK k \in Key : k = ekey[e] /\ entries[k] = e /\ e \in Entry
    BY Places DEF MainInv
  <2>2. entries'[k] = Nil /\ \A j \in Key \ {k} : entries'[j] = entries[j]
    BY <1>4, <2>1, Places DEF Removes, Without, MainInv
  <2>3. \A j \in Key \ {k} : Same(j)
    BY <1>1, <1>4, <2>2 DEF Removes, ComputingSame
  <2>4. Slot[k] = "stored"
    BY <2>1, NobodyComputes DEF SlotIs
  <2>5. Slot'[k] = "absent"
    BY <2>2 DEF SlotIs, Present
  <2>6. Flight!Remove(k)
    BY <1>2, <2>3, <2>4, <2>5 DEF Flight!Remove
  <2> QED BY <2>6 DEF Flight!Next
<1>5. ASSUME NEW t \in Thread, NEW n \in Entry, Starts(t, n) PROVE Flight!Next
  <2>1. PICK k \in Key : k = KeyOf(t)
    BY <1>5 DEF Starts
  <2>2. entries'[k] = n /\ \A j \in Key \ {k} : entries'[j] = entries[j]
    BY <1>5, <2>1, Places DEF Starts, MainInv
  <2>3. ASSUME NEW j \in Key \ {k} PROVE Same(j)
    <3>1. entries[j] # n
      BY <1>5 DEF Starts, Unused
    <3>2. \A u \in Thread, x \in Entry : entries[j] = x => (Computes(u, x)' <=> Computes(u, x))
      BY <1>5, <3>1 DEF Starts, Computes
    <3> QED BY <1>1, <2>2, <3>2
  <2>4. Slot[k] \in {"absent", "stored"}
    <3>1. CASE entries[k] = Nil
      BY <3>1 DEF SlotIs, Present
    <3>2. CASE entries[k] \in Linked
      BY <3>2, NobodyComputes DEF SlotIs, Linked
    <3> QED BY <1>5, <2>1, <3>1, <3>2 DEF Starts
  <2>5. ASSUME NEW j \in Key PROVE Slot[j] # t
    <3>1. CASE entries[j] = Nil
      BY <3>1 DEF SlotIs, Present
    <3>2. ASSUME NEW x \in Entry, entries[j] = x PROVE Slot[j] # t
      <4>1. ~Computes(t, x)
        BY <1>5 DEF Starts, Computes
      <4>2. CASE \E u \in Thread : Computes(u, x)
        BY <3>2, <4>1, <4>2 DEF SlotIs
      <4>3. CASE \A u \in Thread : ~Computes(u, x)
        BY <3>2, <4>3 DEF SlotIs
      <4> QED BY <4>2, <4>3
    <3>3. entries[j] \in Entry \cup {Nil}
      BY Places DEF MainInv, Pointer
    <3> QED BY <3>1, <3>2, <3>3
  <2>6. Slot'[k] = t
    <3>1. Computes(t, n)'
      BY <1>5 DEF Starts
    <3> QED BY <2>2, <3>1 DEF SlotIs
  <2>7. Flight!Start(t, k)
    BY <1>2, <2>3, <2>4, <2>5, <2>6 DEF Flight!Start
  <2> QED BY <2>7 DEF Flight!Next
<1>6. ASSUME NEW t \in Thread, NEW e \in Entry, NEW s \in Nat, Publishes(t, e, s)
      PROVE  Flight!Next
  <2>1. PICK k \in Key : k = KeyOf(t) /\ entries[k] = e
    BY <1>6 DEF Publishes
  <2>2. \A j \in Key \ {k} : entries'[j] = entries[j] /\ entries[j] # e
    BY <1>6, <2>1, Places DEF Publishes, MainInv, Present
  <2>3. ASSUME NEW j \in Key \ {k} PROVE Same(j)
    <3>1. \A u \in Thread, x \in Entry : entries[j] = x => (Computes(u, x)' <=> Computes(u, x))
      BY <1>6, <2>2 DEF Publishes, Computes
    <3> QED BY <1>1, <2>2, <3>1
  <2>4. Slot[k] = t
    BY <1>6, <2>1 DEF SlotIs, Publishes
  <2>5. Slot'[k] = "stored"
    <3>1. \A u \in Thread : Computes(u, e) => u = t
      BY <1>6 DEF Publishes, MainInv, Unfinished, Computes
    <3>2. \A u \in Thread : ~Computes(u, e)'
      BY <1>6, <3>1 DEF Publishes
    <3>3. entries'[k] = e
      BY <1>6, <2>1 DEF Publishes
    <3> QED BY <3>2, <3>3 DEF SlotIs
  <2>6. Flight!Deliver(t, k)
    BY <1>2, <2>3, <2>4, <2>5 DEF Flight!Deliver
  <2> QED BY <2>6 DEF Flight!Next
<1>7. ASSUME NEW t \in Thread, NEW n \in Entry, Creates(t, n) PROVE Flight!Next
  <2>1. PICK k \in Key : k = KeyOf(t) /\ entries[k] = Nil
    BY <1>7 DEF Creates
  <2>2. entries'[k] = n /\ \A j \in Key \ {k} : entries'[j] = entries[j]
    BY <1>7, <2>1, Places DEF Creates, MainInv
  <2>3. \A j \in Key \ {k} : Same(j)
    BY <1>1, <1>7, <2>2 DEF Creates, ComputingSame
  <2>4. Slot[k] = "absent"
    BY <2>1 DEF SlotIs, Present
  <2>5. Slot'[k] = "stored"
    <3>1. \A u \in Thread : ~Computes(u, n)'
      BY <1>7, NobodyComputes DEF Creates, ComputingSame
    <3> QED BY <2>2, <3>1 DEF SlotIs
  <2>6. Flight!Store(k)
    BY <1>2, <2>3, <2>4, <2>5 DEF Flight!Store
  <2> QED BY <2>6 DEF Flight!Next
<1> QED BY <1>3, <1>4, <1>5, <1>6, <1>7 DEF Effect

(* Every key is absent, stored, or computed by one goroutine whose value   *)
(* alone is stored, and nobody else touches the key before: what the       *)
(* comments on Cache and Get promise.                                      *)
THEOREM CacheKeepsSingleFlight ==
  ASSUME CanPanic = FALSE, {"absent", "stored"} \cap Thread = {}
  PROVE  Spec => ImplementsSingleFlight
<1>1. Init => Flight!Init
  BY DEF Init, Flight!Init, Slot, Present
<1>2. MainInv /\ MainInv' /\ [Next]_vars => [Flight!Next]_Slot
  <2>1. MainInv' => SlotIs'
    BY SlotRead, PTL
  <2> QED BY <2>1, SlotRead, NextEffect, EffectOnSlots
<1> QED BY <1>1, <1>2, MainInvHolds, PTL DEF Spec, ImplementsSingleFlight, Flight!Spec
=============================================================================
