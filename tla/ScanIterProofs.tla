--------------------------- MODULE ScanIterProofs ---------------------------
(***************************************************************************)
(* A walk of a single-symbol iterator is in key order, complete and, when  *)
(* it blocks, a snapshot: for any keys, chunk size and number of commits,  *)
(* when nothing releases the lock of a blocking iterator (SharedHandle =   *)
(* FALSE) and no commit comes between a seek and the first record after it *)
(* (SeekRaces = FALSE).                                                    *)
(***************************************************************************)
EXTENDS ScanIter, FiniteSetTheorems, WellFoundedInduction, TLAPS, SequenceTheorems

\* A nonempty set of naturals has a least element.
LEMMA LeastElement ==
  ASSUME NEW S \in SUBSET Nat, S # {}
  PROVE  \E x \in S : \A y \in S : x <= y
<1>1. \E x \in S : \A y \in S : ~(<<y, x>> \in OpToRel(<, Nat))
  BY NatLessThanWellFounded, WFMin
<1>2. PICK x \in S : \A y \in S : ~(<<y, x>> \in OpToRel(<, Nat))
  BY <1>1
<1>3. \A y \in S : ~(y < x)
  BY <1>2 DEF OpToRel
<1> QED BY <1>3

\* A nonempty finite set of naturals has a greatest element: the one with the
\* fewest elements above it.
LEMMA GreatestElement ==
  ASSUME NEW S \in SUBSET Nat, S # {}, IsFiniteSet(S)
  PROVE  \E x \in S : \A y \in S : y <= x
<1> DEFINE Above(x) == {y \in S : x < y}
           Counts == {Cardinality(Above(x)) : x \in S}
<1>1. \A x \in S : IsFiniteSet(Above(x)) /\ Cardinality(Above(x)) \in Nat
  BY FS_Subset, FS_CardinalityType
<1>2. PICK n \in Counts : \A m \in Counts : n <= m
  <2>1. Counts # {} /\ Counts \in SUBSET Nat
    BY <1>1
  <2> HIDE DEF Counts
  <2> QED BY <2>1, LeastElement
<1>3. PICK x \in S : n = Cardinality(Above(x))
  OBVIOUS
<1>4. ASSUME NEW z \in S, x < z PROVE FALSE
  <2> DEFINE A == Above(z)
             B == Above(x)
  <2>1. A \cup {z} \in SUBSET B /\ z \notin A
    <3>1. x \in Nat /\ z \in Nat
      OBVIOUS
    <3>2. \A y \in A : y \in S /\ x < y
      BY <1>4, <3>1
    <3>3. z \notin A /\ z \in B
      BY <1>4, <3>1
    <3>4. \A y \in A : y \in B
      BY <3>2
    <3> HIDE DEF A, B
    <3> QED BY <3>3, <3>4
  <2>2. /\ IsFiniteSet(A) /\ Cardinality(A) \in Nat
        /\ IsFiniteSet(B) /\ Cardinality(B) = n /\ n \in Nat
    BY <1>1, <1>3
  <2>3. n <= Cardinality(A)
    BY <1>2
  <2> HIDE DEF A, B
  <2>4. Cardinality(A \cup {z}) = Cardinality(A) + 1
    BY <2>1, <2>2, FS_AddElement
  <2>5. Cardinality(A \cup {z}) <= n
    BY <2>1, <2>2, FS_Subset
  <2> QED BY <2>2, <2>3, <2>4, <2>5
<1>5. \A y \in S : y <= x
  BY <1>4
<1> QED BY <1>5

\* The keys of s come in the order the iterator i walks.
Ordered(i, s) == \A a, b \in DOMAIN s : a < b => Beyond(i, s[b], s[a])

\* The place of iterator i is the one iter_resume_key finds again after a
\* commit, except between a seek and the first record after it, and it is
\* used only while no commit has followed.
Placed(i) ==
  /\ i.pos = i.seen
  /\ ~i.nonblocking => shared /\ i.seen = txn
  /\ i.sought /\ ~i.started /\ ~i.exhausted => i.seen = txn
  /\ ~i.sought => origin = RangeStart(i)
  /\ i.at = IF i.buf # <<>> THEN Step(i, Last(i.buf))
            ELSE IF i.started THEN Step(i, i.last) ELSE origin
  /\ i.at = origin \/ Beyond(i, i.at, origin)

\* What has been handed out, the buffer and the place follow each other.
Sorted(i) ==
  /\ Ordered(i, emitted) /\ Ordered(i, i.buf)
  /\ \A k \in ToSet(emitted), j \in ToSet(i.buf) : Beyond(i, j, k)
  /\ \A k \in ToSet(emitted) \cup ToSet(i.buf) :
       Beyond(i, i.at, k) /\ (k = origin \/ Beyond(i, k, origin)) /\ InRange(i, k)

\* A key that has been there all along was handed out, or is in the buffer, or
\* is still to come.
Complete(i) ==
  /\ kept \subseteq Ahead(i, origin, store)
  /\ i.status = "OK" =>
       kept \subseteq ToSet(emitted) \cup ToSet(i.buf)
                      \cup (IF i.exhausted THEN {} ELSE Onward(i, i.at, Keys))
  /\ ended => i.exhausted /\ i.buf = <<>>

\* Nothing changes under a blocking iterator.
Stable(i) ==
  ~i.nonblocking => /\ ToSet(emitted) \cup ToSet(i.buf) \subseteq store
                    /\ kept = Ahead(i, origin, store)

Walk(i) == Placed(i) /\ Sorted(i) /\ Complete(i) /\ Stable(i)

IInv == TypeOK /\ (it.open => Walk(it))

Excluded == SeekRaces = FALSE /\ SharedHandle = FALSE

------------------------------------------------------------------------------
(* Keys, times and places.                                                 *)

\* A key lies between the first and the last key of its time.
LEMMA WithinItsTime ==
  ASSUME NEW k \in Nat
  PROVE  TimeOf(k) \in Nat /\ StartOf(TimeOf(k)) <= k /\ k <= EndOf(TimeOf(k))
<1> DEFINE q == k \div SeqSpan
<1>1. SeqSpan \in Nat /\ SeqSpan > 0
  BY BoundsAssumption
<1>2. q \in Nat /\ q * SeqSpan <= k /\ k < (q + 1) * SeqSpan
  BY <1>1
<1> HIDE DEF q
<1>3. (q + 1) * SeqSpan = q * SeqSpan + SeqSpan /\ q * SeqSpan \in Nat
  BY <1>1, <1>2
<1> QED BY <1>1, <1>2, <1>3 DEF TimeOf, StartOf, EndOf, q

\* Later keys have later times, or the same.
LEMMA TimesInOrder ==
  ASSUME NEW j \in Nat, NEW k \in Nat, j <= k PROVE TimeOf(j) <= TimeOf(k)
<1> DEFINE p == j \div SeqSpan
           q == k \div SeqSpan
<1>1. SeqSpan \in Nat /\ SeqSpan > 0
  BY BoundsAssumption
<1>2. p \in Nat /\ p * SeqSpan <= j
  BY <1>1
<1>3. q \in Nat /\ k < (q + 1) * SeqSpan
  BY <1>1
<1> HIDE DEF p, q
<1>4. p * SeqSpan < (q + 1) * SeqSpan
  BY <1>1, <1>2, <1>3
<1>5. p > q => p * SeqSpan >= (q + 1) * SeqSpan
  BY <1>1, <1>2, <1>3
<1>6. p * SeqSpan \in Nat /\ (q + 1) * SeqSpan \in Nat
  BY <1>1, <1>2, <1>3
<1> QED BY <1>2, <1>3, <1>4, <1>5, <1>6 DEF TimeOf, p, q

\* The last keys of times are in the order of the times.
LEMMA EndsInOrder ==
  ASSUME NEW t \in Nat, NEW u \in Nat, t <= u
  PROVE  EndOf(t) \in Nat /\ StartOf(t) \in Nat /\ StartOf(t) <= EndOf(t) /\ EndOf(t) <= EndOf(u)
<1>1. SeqSpan \in Nat /\ SeqSpan > 0
  BY BoundsAssumption
<1>2. t * SeqSpan \in Nat /\ u * SeqSpan \in Nat /\ t * SeqSpan <= u * SeqSpan
  BY <1>1
<1> QED BY <1>1, <1>2 DEF EndOf, StartOf

\* Every key, every step from one and every start of a range is a place.
LEMMA PlacesAre ==
  /\ Places \subseteq Int /\ 0 \in Places
  /\ \A k \in Keys : k \in Places /\ k - 1 \in Places /\ k + 1 \in Places
  /\ \A t \in Times : t \in Nat /\ StartOf(t) \in Places /\ EndOf(t) \in Places
<1> DEFINE IsTop(t) == \A u \in Times : u <= t
           top == CHOOSE t \in Times : IsTop(t)
<1>1. \A k \in Keys : k \in Nat /\ TimeOf(k) \in Nat /\ k <= EndOf(TimeOf(k))
  BY KeysAssumption, WithinItsTime
<1>2. \A t \in Times : t \in Nat
  BY <1>1 DEF Times
<1>3. \E t \in Times : IsTop(t)
  <2>1. PICK g \in Keys : \A k \in Keys : k <= g
    BY KeysAssumption, GreatestElement
  <2>2. \A k \in Keys : TimeOf(k) <= TimeOf(g)
    BY <1>1, <2>1, TimesInOrder
  <2> QED BY <2>2 DEF Times
<1>4. top \in Times /\ IsTop(top)
  BY <1>3
<1>5. Places = -1 .. EndOf(top) + 1
  BY DEF Places
<1> HIDE DEF top
<1>6. \A t \in Times : /\ EndOf(t) \in Nat /\ StartOf(t) \in Nat
                       /\ StartOf(t) <= EndOf(t) /\ EndOf(t) <= EndOf(top)
  BY <1>2, <1>4, EndsInOrder
<1>7. EndOf(top) \in Nat
  BY <1>4, <1>6
<1>8. \A k \in Keys : k <= EndOf(top)
  <2> TAKE k \in Keys
  <2>1. TimeOf(k) \in Times
    BY DEF Times
  <2>2. EndOf(TimeOf(k)) <= EndOf(top) /\ EndOf(TimeOf(k)) \in Nat
    BY <1>6, <2>1
  <2> QED BY <1>1, <1>7, <2>2
<1> QED BY <1>1, <1>2, <1>5, <1>6, <1>7, <1>8

------------------------------------------------------------------------------
(* Ordering the keys of a chunk.                                           *)

\* Of two keys, one comes after the other, whichever way the walk goes.
LEMMA BeyondOrder ==
  ASSUME NEW i, NEW j \in Int, NEW k \in Int
  PROVE  /\ ~Beyond(i, k, k)
         /\ j # k => Beyond(i, j, k) \/ Beyond(i, k, j)
         /\ ~(Beyond(i, j, k) /\ Beyond(i, k, j))
         /\ \A l \in Int : Beyond(i, l, k) /\ Beyond(i, k, j) => Beyond(i, l, j)
BY DEF Beyond

\* The next place after a key is the first one that comes after it.
LEMMA StepIsNext ==
  ASSUME NEW i, NEW k \in Int
  PROVE  /\ Step(i, k) \in Int /\ Beyond(i, Step(i, k), k)
         /\ \A l \in Int : (l = Step(i, k) \/ Beyond(i, l, Step(i, k))) <=> Beyond(i, l, k)
BY DEF Beyond, Step

\* InOrder lists a set of keys, each once, in the order of the walk.
LEMMA InOrderLists ==
  ASSUME NEW i, NEW S \in SUBSET Keys
  PROVE  /\ InOrder(i, S) \in Seq(S) /\ Len(InOrder(i, S)) = Cardinality(S)
         /\ Ordered(i, InOrder(i, S)) /\ ToSet(InOrder(i, S)) = S
         /\ Cardinality(S) \in Nat
<1> DEFINE before(k) == {j \in S : Beyond(i, k, j)}
           n == Cardinality(S)
           rank == [k \in S |-> Cardinality(before(k))]
           s == InOrder(i, S)
<1>1. IsFiniteSet(S) /\ n \in Nat /\ S \subseteq Int
  <2>1. IsFiniteSet(S)
    BY KeysAssumption, FS_Subset
  <2> QED BY <2>1, KeysAssumption, FS_CardinalityType
<1>2. \A k \in S : IsFiniteSet(before(k)) /\ rank[k] \in 0 .. n - 1
  <2> TAKE k \in S
  <2>1. IsFiniteSet(S \ {k}) /\ Cardinality(S \ {k}) = n - 1
    BY <1>1, FS_RemoveElement
  <2>2. before(k) \subseteq S \ {k}
    BY <1>1, BeyondOrder
  <2>3. /\ IsFiniteSet(before(k)) /\ Cardinality(before(k)) \in Nat
        /\ Cardinality(before(k)) <= Cardinality(S \ {k})
    BY <2>1, <2>2, FS_Subset, FS_CardinalityType
  <2> QED BY <1>1, <2>1, <2>3
<1>3. ASSUME NEW j \in S, NEW k \in S, Beyond(i, k, j) PROVE rank[j] < rank[k]
  <2>1. before(j) \subseteq before(k) /\ j \in before(k) /\ j \notin before(j)
    BY <1>1, <1>3, BeyondOrder
  <2>2. Cardinality(before(j)) <= Cardinality(before(k)) /\ Cardinality(before(j)) # Cardinality(before(k))
    BY <1>2, <2>1, FS_Subset
  <2> QED BY <1>1, <1>2, <2>2
<1>4. ASSUME NEW j \in S, NEW k \in S, rank[j] = rank[k] PROVE j = k
  <2> HIDE DEF rank
  <2>1. ~Beyond(i, j, k) /\ ~Beyond(i, k, j)
    <3>1. rank[j] \in Int /\ rank[k] \in Int /\ ~(rank[j] < rank[k]) /\ ~(rank[k] < rank[j])
      <4>1. rank[j] \in 0 .. n - 1 /\ rank[k] \in 0 .. n - 1
        BY <1>2
      <4> HIDE DEF n
      <4> QED BY <1>4, <4>1
    <3> QED BY <1>3, <3>1
  <2> QED BY <1>1, <2>1, BeyondOrder
<1>5. \A m \in 1 .. n : \E k \in S : rank[k] = m - 1
  <2>1. rank \in Injection(S, 0 .. n - 1)
    BY <1>2, <1>4 DEF Injection, IsInjective
  <2>2. IsFiniteSet(0 .. n - 1) /\ Cardinality(0 .. n - 1) = n
    <3> HIDE DEF n
    <3>1. 0 \in Int /\ n - 1 \in Int
      BY <1>1
    <3>2. /\ IsFiniteSet(0 .. n - 1)
          /\ Cardinality(0 .. n - 1) = IF 0 > n - 1 THEN 0 ELSE n - 1 - 0 + 1
      BY <3>1, FS_Interval
    <3>3. (IF 0 > n - 1 THEN 0 ELSE n - 1 - 0 + 1) = n
      BY <1>1
    <3> QED BY <3>2, <3>3
  <2>3. rank \in Surjection(S, 0 .. n - 1)
    BY <2>1, <2>2, FS_Injection
  <2> HIDE DEF rank
  <2>4. \A v \in 0 .. n - 1 : \E k \in S : rank[k] = v
    BY <2>3 DEF Surjection
  <2> QED BY <1>1, <2>4
<1>6. s = [m \in 1 .. n |-> CHOOSE k \in S : Cardinality(before(k)) = m - 1]
  BY DEF InOrder
<1>7. \A m \in 1 .. n : s[m] \in S /\ rank[s[m]] = m - 1
  <2> TAKE m \in 1 .. n
  <2>1. \E k \in S : Cardinality(before(k)) = m - 1
    BY <1>5
  <2>2. s[m] = CHOOSE k \in S : Cardinality(before(k)) = m - 1
    BY <1>6
  <2> HIDE DEF s
  <2>3. s[m] \in S /\ Cardinality(before(s[m])) = m - 1
    BY <2>1, <2>2
  <2> QED BY <2>3
<1> HIDE DEF rank, s
<1>8. s \in Seq(S) /\ Len(s) = n /\ DOMAIN s = 1 .. n
  <2>1. DOMAIN s = 1 .. n /\ s \in [1 .. n -> S]
    <3> DEFINE e(m) == CHOOSE k \in S : Cardinality(before(k)) = m - 1
    <3>1. s = [m \in 1 .. n |-> e(m)]
      BY <1>6
    <3> HIDE DEF e
    <3> QED BY <1>7, <3>1
  <2> HIDE DEF n
  <2>2. s \in Seq(S)
    BY <1>1, <2>1, SeqDef
  <2> QED BY <1>1, <2>1, <2>2, LenProperties
<1>9. Ordered(i, s)
  <2> SUFFICES ASSUME NEW a \in 1 .. n, NEW b \in 1 .. n, a < b PROVE Beyond(i, s[b], s[a])
    BY <1>8 DEF Ordered
  <2>1. rank[s[a]] < rank[s[b]]
    BY <1>1, <1>7
  <2>2. s[a] # s[b] /\ ~Beyond(i, s[a], s[b])
    BY <1>2, <1>3, <1>7, <2>1
  <2> QED BY <1>1, <1>7, <2>2, BeyondOrder
<1>10. ToSet(s) = S
  <2>1. ASSUME NEW k \in S PROVE k \in ToSet(s)
    <3>1. rank[k] + 1 \in 1 .. n /\ (rank[k] + 1) - 1 = rank[k]
      <4>1. rank[k] \in 0 .. n - 1
        BY <1>2
      <4> HIDE DEF n
      <4> QED BY <1>1, <4>1
    <3>2. rank[s[rank[k] + 1]] = rank[k] /\ s[rank[k] + 1] \in S
      BY <1>7, <3>1
    <3> QED BY <1>4, <1>8, <3>1, <3>2 DEF ToSet
  <2> QED BY <1>7, <1>8, <2>1 DEF ToSet
<1> QED BY <1>1, <1>8, <1>9, <1>10 DEF s

------------------------------------------------------------------------------
(* Sequences of keys.                                                      *)

\* A sequence of keys with a bound on its length.
LEMMA BoundedIs ==
  ASSUME NEW n \in Nat
  PROVE  \A c : c \in BoundedSeq(Keys, n) <=> c \in Seq(Keys) /\ Len(c) <= n
<1> SUFFICES ASSUME NEW c PROVE c \in BoundedSeq(Keys, n) <=> c \in Seq(Keys) /\ Len(c) <= n
  OBVIOUS
<1>1. ASSUME c \in BoundedSeq(Keys, n) PROVE c \in Seq(Keys) /\ Len(c) <= n
  <2>1. PICK m \in 0 .. n : c \in [1 .. m -> Keys]
    BY <1>1 DEF BoundedSeq, SeqOf
  <2>2. c \in Seq(Keys)
    BY <2>1, SeqDef
  <2>3. m \in Nat /\ DOMAIN c = 1 .. m
    BY <2>1
  <2> QED BY <2>1, <2>2, <2>3
<1>2. ASSUME c \in Seq(Keys), Len(c) <= n PROVE c \in BoundedSeq(Keys, n)
  <2>1. c \in [1 .. Len(c) -> Keys] /\ Len(c) \in 0 .. n
    BY <1>2, LenProperties
  <2> QED BY <2>1 DEF BoundedSeq, SeqOf
<1> QED BY <1>1, <1>2

\* The last key of a sequence in order comes after the others.
LEMMA LastIsFurthest ==
  ASSUME NEW i, NEW c \in Seq(Keys), c # <<>>, Ordered(i, c)
  PROVE  /\ Last(c) \in ToSet(c) /\ ToSet(c) \subseteq Keys
         /\ \A k \in ToSet(c) : k = Last(c) \/ Beyond(i, Last(c), k)
<1> DEFINE n == Len(c)
<1>1. n \in Nat /\ n # 0 /\ DOMAIN c = 1 .. n /\ \A a \in 1 .. n : c[a] \in Keys
  BY EmptySeq, LenProperties
<1>2. Last(c) = c[n]
  BY DEF Last
<1> HIDE DEF n
<1>3. ASSUME NEW k \in ToSet(c) PROVE k = c[n] \/ Beyond(i, c[n], k)
  <2>1. PICK a \in 1 .. n : k = c[a]
    BY <1>1 DEF ToSet
  <2>2. a = n \/ a < n
    BY <1>1
  <2> QED BY <1>1, <2>1, <2>2 DEF Ordered
<1> QED BY <1>1, <1>2, <1>3 DEF ToSet

\* The first n of a sequence in order, and the rest, which come after them.
LEMMA FirstKeys ==
  ASSUME NEW i, NEW s \in Seq(Keys), Ordered(i, s), NEW n \in 1 .. Len(s),
         NEW c, c = SubSeq(s, 1, n)
  PROVE  /\ c \in Seq(Keys) /\ Len(c) = n /\ c # <<>> /\ Last(c) = s[n] /\ Ordered(i, c)
         /\ ToSet(c) \subseteq ToSet(s) /\ s[n] \in Keys
         /\ \A k \in ToSet(s) : k \in ToSet(c) \/ Beyond(i, k, s[n])
<1> DEFINE m == Len(s)
<1>1. m \in Nat /\ DOMAIN s = 1 .. m /\ n \in 1 .. m /\ \A a \in 1 .. m : s[a] \in Keys
  BY LenProperties
<1> HIDE DEF m
<1>2. c \in Seq(Keys) /\ Len(c) = n /\ \A a \in 1 .. n : c[a] = s[a]
  <2>1. \A a \in 1 .. n : s[a] \in Keys
    BY <1>1
  <2>2. /\ SubSeq(s, 1, n) \in Seq(Keys) /\ Len(SubSeq(s, 1, n)) = IF 1 <= n THEN n - 1 + 1 ELSE 0
        /\ \A a \in 1 .. n - 1 + 1 : SubSeq(s, 1, n)[a] = s[1 + a - 1]
    BY <2>1, SubSeqProperties
  <2> QED BY <1>1, <2>2
<1>3. DOMAIN c = 1 .. n /\ c # <<>> /\ Last(c) = s[n]
  <2>1. DOMAIN c = 1 .. n
    BY <1>2, LenProperties
  <2>2. c # <<>>
    BY <1>1, <1>2, EmptySeq
  <2>3. Last(c) = c[n]
    BY <1>2 DEF Last
  <2> QED BY <1>1, <1>2, <2>1, <2>2, <2>3
<1>4. Ordered(i, c)
  <2> SUFFICES ASSUME NEW a \in 1 .. n, NEW b \in 1 .. n, a < b PROVE Beyond(i, c[b], c[a])
    BY <1>3 DEF Ordered
  <2>1. a \in DOMAIN s /\ b \in DOMAIN s
    BY <1>1
  <2> QED BY <1>2, <2>1 DEF Ordered
<1>5. ToSet(c) \subseteq ToSet(s)
  <2> SUFFICES ASSUME NEW a \in 1 .. n PROVE c[a] \in ToSet(s)
    BY <1>3 DEF ToSet
  <2>1. a \in DOMAIN s
    BY <1>1
  <2> QED BY <1>2, <2>1 DEF ToSet
<1>6. ASSUME NEW k \in ToSet(s) PROVE k \in ToSet(c) \/ Beyond(i, k, s[n])
  <2>1. PICK a \in 1 .. m : k = s[a]
    BY <1>1 DEF ToSet
  <2>2. CASE a <= n
    <3>1. a \in DOMAIN c /\ c[a] = k
      BY <1>2, <1>3, <2>1, <2>2
    <3> QED BY <3>1 DEF ToSet
  <2>3. CASE a > n
    BY <1>1, <2>1, <2>3 DEF Ordered
  <2> QED BY <1>1, <2>2, <2>3
<1> QED BY <1>1, <1>2, <1>3, <1>4, <1>5, <1>6

\* A buffer is its first key and those that come after it.
LEMMA FirstAndRest ==
  ASSUME NEW i, NEW c \in Seq(Keys), c # <<>>, Ordered(i, c)
  PROVE  /\ Head(c) \in Keys /\ Tail(c) \in Seq(Keys) /\ Len(Tail(c)) = Len(c) - 1
         /\ ToSet(c) = {Head(c)} \cup ToSet(Tail(c)) /\ Ordered(i, Tail(c))
         /\ \A k \in ToSet(Tail(c)) : Beyond(i, k, Head(c))
         /\ Last(c) = IF Tail(c) = <<>> THEN Head(c) ELSE Last(Tail(c))
<1> DEFINE n == Len(c)
           d == Tail(c)
<1>1. n \in Nat /\ n # 0 /\ DOMAIN c = 1 .. n
  BY EmptySeq, LenProperties
<1>2. /\ Head(c) \in Keys /\ d \in Seq(Keys) /\ Len(d) = n - 1
      /\ \A a \in 1 .. Len(d) : d[a] = c[a + 1]
  BY HeadTailProperties
<1>3. Head(c) = c[1]
  OBVIOUS
<1>4. Last(c) = c[n] /\ Last(d) = d[Len(d)]
  BY DEF Last
<1>5. d = <<>> <=> Len(d) = 0
  BY <1>2, EmptySeq
<1>6. DOMAIN d = 1 .. Len(d)
  BY <1>2, LenProperties
<1> HIDE DEF n, d
<1>7. DOMAIN d = 1 .. n - 1 /\ (d = <<>> <=> n = 1) /\ \A a \in 1 .. n - 1 : d[a] = c[a + 1]
  BY <1>1, <1>2, <1>5, <1>6
<1>8. Last(c) = IF d = <<>> THEN Head(c) ELSE Last(d)
  BY <1>1, <1>2, <1>3, <1>4, <1>7
<1>9. Ordered(i, d)
  <2> SUFFICES ASSUME NEW a \in 1 .. n - 1, NEW b \in 1 .. n - 1, a < b PROVE Beyond(i, d[b], d[a])
    BY <1>7 DEF Ordered
  <2>1. a + 1 \in 1 .. n /\ b + 1 \in 1 .. n /\ a + 1 < b + 1
    BY <1>1
  <2> QED BY <1>1, <1>7, <2>1 DEF Ordered
<1>10. \A k \in ToSet(d) : Beyond(i, k, Head(c)) /\ k \in ToSet(c)
  <2> TAKE k \in ToSet(d)
  <2>1. PICK a \in 1 .. n - 1 : k = d[a]
    BY <1>7 DEF ToSet
  <2>2. a + 1 \in 1 .. n /\ 1 \in 1 .. n /\ 1 < a + 1
    BY <1>1
  <2> QED BY <1>1, <1>3, <1>7, <2>1, <2>2 DEF Ordered, ToSet
<1>11. \A k \in ToSet(c) : k = Head(c) \/ k \in ToSet(d)
  <2> TAKE k \in ToSet(c)
  <2>1. PICK a \in 1 .. n : k = c[a]
    BY <1>1 DEF ToSet
  <2>2. CASE a = 1
    BY <1>3, <2>1, <2>2
  <2>3. CASE a # 1
    <3>1. a - 1 \in 1 .. n - 1 /\ (a - 1) + 1 = a
      BY <1>1, <2>3
    <3> QED BY <1>7, <2>1, <3>1 DEF ToSet
  <2> QED BY <2>2, <2>3
<1>12. Head(c) \in ToSet(c)
  BY <1>1, <1>3 DEF ToSet
<1> QED BY <1>2, <1>8, <1>9, <1>10, <1>11, <1>12 DEF d, n

\* One more key handed out.
LEMMA OneMore ==
  ASSUME NEW i, NEW s \in Seq(Keys), NEW e \in Keys,
         Ordered(i, s), \A k \in ToSet(s) : Beyond(i, e, k)
  PROVE  /\ Append(s, e) \in Seq(Keys) /\ Ordered(i, Append(s, e))
         /\ ToSet(Append(s, e)) = ToSet(s) \cup {e}
<1> DEFINE n == Len(s)
           t == Append(s, e)
<1>1. n \in Nat /\ DOMAIN s = 1 .. n
  BY LenProperties
<1>2. t \in Seq(Keys) /\ Len(t) = n + 1 /\ t[n + 1] = e /\ \A a \in 1 .. n : t[a] = s[a]
  BY AppendProperties
<1>3. DOMAIN t = 1 .. n + 1
  BY <1>2, LenProperties
<1> HIDE DEF n, t
<1>4. Ordered(i, t)
  <2> SUFFICES ASSUME NEW a \in 1 .. n + 1, NEW b \in 1 .. n + 1, a < b PROVE Beyond(i, t[b], t[a])
    BY <1>3 DEF Ordered
  <2>1. a \in 1 .. n /\ s[a] \in ToSet(s)
    BY <1>1 DEF ToSet
  <2>2. CASE b = n + 1
    BY <1>2, <2>1, <2>2
  <2>3. CASE b # n + 1
    <3>1. b \in 1 .. n
      BY <1>1, <2>3
    <3> QED BY <1>1, <1>2, <2>1, <3>1 DEF Ordered
  <2> QED BY <2>2, <2>3
<1>5. ToSet(t) = ToSet(s) \cup {e}
  <2>1. ASSUME NEW k \in ToSet(t) PROVE k \in ToSet(s) \/ k = e
    <3>1. PICK a \in 1 .. n + 1 : k = t[a]
      BY <1>3 DEF ToSet
    <3>2. a = n + 1 \/ a \in 1 .. n
      BY <1>1
    <3> QED BY <1>1, <1>2, <3>1, <3>2 DEF ToSet
  <2>2. ASSUME NEW k \in ToSet(s) PROVE k \in ToSet(t)
    <3>1. PICK a \in 1 .. n : k = s[a]
      BY <1>1 DEF ToSet
    <3>2. a \in 1 .. n + 1
      BY <1>1
    <3> QED BY <1>2, <1>3, <3>1, <3>2 DEF ToSet
  <2>3. e \in ToSet(t)
    <3>1. n + 1 \in 1 .. n + 1
      BY <1>1
    <3> QED BY <1>2, <1>3, <3>1 DEF ToSet
  <2> QED BY <2>1, <2>2, <2>3
<1> QED BY <1>2, <1>4, <1>5 DEF t

\* Nothing has been handed out yet, or nothing is in the buffer.
LEMMA NoKeys == ASSUME NEW i PROVE Ordered(i, <<>>) /\ ToSet(<<>>) = {} /\ <<>> \in Seq(Keys)
BY EmptySeq DEF Ordered, ToSet

\* An empty buffer.
LEMMA NoBuffer == <<>> \in BoundedSeq(Keys, Chunk)
<1>1. <<>> \in Seq(Keys) /\ Len(<<>>) = 0
  BY EmptySeq
<1>2. Chunk \in Nat /\ 0 <= Chunk
  BY BoundsAssumption
<1> QED BY <1>1, <1>2, BoundedIs

------------------------------------------------------------------------------
(* Chunks.                                                                 *)

\* A chunk that iterator i finds at its place, and whether it is the last.
ChunkOf(i, c, end) ==
  /\ c \in Seq(Keys) /\ Len(c) <= Chunk /\ end \in BOOLEAN /\ Ordered(i, c)
  /\ ToSet(c) \subseteq Ahead(i, i.at, store)
  /\ c = <<>> => end
  /\ Ahead(i, i.at, store)
       \subseteq ToSet(c) \cup (IF end THEN {} ELSE Onward(i, Step(i, Last(c)), Keys))

\* What an iterator finds while its place is good.
LEMMA FillsAreChunks ==
  ASSUME NEW i, i.pos = txn, store \in SUBSET Keys, NEW f \in Fills(i)
  PROVE  \E c, end : ChunkOf(i, c, end) /\ f = Filled(i, c, end)
<1> DEFINE found == Ahead(i, i.at, store)
           seq == InOrder(i, found)
           rest(n) == Onward(i, Step(i, seq[n]), store)
<1>1. \/ Len(seq) < Chunk /\ f = Filled(i, seq, TRUE)
      \/ \E n \in ChunkEnds(Len(seq)) : f = Filled(i, SubSeq(seq, 1, n), rest(n) = {})
  <2>1. Findable(i) = {found}
    BY DEF Findable
  <2>2. Fills(i) = (IF Len(seq) < Chunk THEN {Filled(i, seq, TRUE)} ELSE {})
                     \cup {Filled(i, SubSeq(seq, 1, n), rest(n) = {}) : n \in ChunkEnds(Len(seq))}
    BY <2>1 DEF Fills
  <2> HIDE DEF seq, rest
  <2> QED BY <2>2
<1>2. found \in SUBSET Keys /\ found \in SUBSET store /\ store \in SUBSET Int
  <2>1. found \subseteq store
    BY DEF Ahead, Onward
  <2> HIDE DEF found
  <2>2. store \subseteq Int /\ found \subseteq Keys
    BY <2>1, KeysAssumption
  <2> QED BY <2>1, <2>2
<1>3. seq \in Seq(found) /\ Len(seq) \in Nat /\ Ordered(i, seq) /\ ToSet(seq) = found
  BY <1>2, InOrderLists
<1>4. seq \in Seq(Keys) /\ Chunk \in Nat
  BY <1>2, <1>3, BoundsAssumption, SeqMonotonic
<1> HIDE DEF found, seq
<1>5. CASE Len(seq) < Chunk /\ f = Filled(i, seq, TRUE)
  <2>1. ChunkOf(i, seq, TRUE)
    BY <1>2, <1>3, <1>4, <1>5 DEF ChunkOf, found
  <2> QED BY <1>5, <2>1
<1>6. CASE \E n \in ChunkEnds(Len(seq)) : f = Filled(i, SubSeq(seq, 1, n), rest(n) = {})
  <2>1. PICK n \in 1 .. Len(seq) : n <= Chunk /\ f = Filled(i, SubSeq(seq, 1, n), rest(n) = {})
    BY <1>6 DEF ChunkEnds
  <2> DEFINE c == SubSeq(seq, 1, n)
             end == (rest(n) = {})
  <2>2. /\ c \in Seq(Keys) /\ Len(c) = n /\ c # <<>> /\ Last(c) = seq[n] /\ Ordered(i, c)
        /\ ToSet(c) \subseteq ToSet(seq) /\ seq[n] \in Keys
        /\ \A k \in ToSet(seq) : k \in ToSet(c) \/ Beyond(i, k, seq[n])
    BY <1>3, <1>4, FirstKeys
  <2> HIDE DEF c
  <2>3. \A k \in found : k \in ToSet(c) \/ k \in rest(n)
    <3> TAKE k \in found
    <3>1. k \in Int /\ seq[n] \in Int /\ k \in store
      <4>1. k \in Keys /\ k \in store /\ Keys \subseteq Int
        BY <1>2, KeysAssumption
      <4> QED BY <2>2, <4>1
    <3>2. k \in ToSet(c) \/ Beyond(i, k, seq[n])
      BY <1>3, <2>2
    <3> QED BY <3>1, <3>2, StepIsNext DEF Onward
  <2>4. rest(n) \subseteq Onward(i, Step(i, Last(c)), Keys)
    BY <1>2, <2>2 DEF Onward
  <2> HIDE DEF rest
  <2>5. ChunkOf(i, c, end)
    BY <1>2, <1>3, <2>1, <2>2, <2>3, <2>4 DEF ChunkOf, found
  <2> QED BY <2>1, <2>5 DEF c
<1> QED BY <1>1, <1>5, <1>6

\* What of an iterator a chunk leaves alone.
SameWay(g, i) ==
  /\ g.open = i.open /\ g.nonblocking = i.nonblocking /\ g.reverse = i.reverse
  /\ g.lo = i.lo /\ g.hi = i.hi /\ g.started = i.started /\ g.last = i.last
  /\ g.sought = i.sought

\* An iterator that goes the same way has the same order and the same range.
LEMMA SameOrder ==
  ASSUME NEW g, NEW i, SameWay(g, i)
  PROVE  /\ \A j, k : Beyond(g, j, k) <=> Beyond(i, j, k)
         /\ \A k : InRange(g, k) <=> InRange(i, k)
         /\ \A k : Step(g, k) = Step(i, k)
         /\ \A p, S : Onward(g, p, S) = Onward(i, p, S)
         /\ \A p, S : Ahead(g, p, S) = Ahead(i, p, S)
         /\ \A s : Ordered(g, s) <=> Ordered(i, s)
         /\ RangeStart(g) = RangeStart(i)
<1>1. g.reverse = i.reverse /\ g.lo = i.lo /\ g.hi = i.hi
  BY DEF SameWay
<1>2. \A j, k : Beyond(g, j, k) <=> Beyond(i, j, k)
  BY <1>1 DEF Beyond
<1>3. \A k : InRange(g, k) <=> InRange(i, k)
  BY <1>1 DEF InRange
<1>4. \A k : Step(g, k) = Step(i, k)
  BY <1>1 DEF Step
<1>5. \A p, S : Onward(g, p, S) = Onward(i, p, S)
  BY <1>2 DEF Onward
<1>6. \A p, S : Ahead(g, p, S) = Ahead(i, p, S)
  BY <1>3, <1>5 DEF Ahead
<1>7. \A s : Ordered(g, s) <=> Ordered(i, s)
  BY <1>2 DEF Ordered
<1>8. RangeStart(g) = RangeStart(i)
  BY <1>1 DEF RangeStart
<1> QED BY <1>2, <1>3, <1>4, <1>5, <1>6, <1>7, <1>8

\* An iterator with an empty buffer takes a chunk, or fails.
LEMMA ChunkKeepsWalk ==
  ASSUME NEW i \in Iterators, Walk(i), i.buf = <<>>, ~i.exhausted, i.pos = txn,
         store \in SUBSET Keys, origin \in Int, i.at \in Int, emitted \in Seq(Keys),
         NEW c \in Seq(Keys), Ordered(i, c), ToSet(c) \subseteq Ahead(i, i.at, store),
         NEW g \in Iterators, SameWay(g, i), g.pos = i.pos, g.seen = i.seen, g.buf = c,
         g.at = IF c = <<>> THEN i.at ELSE Step(i, Last(c)),
         c = <<>> => g.exhausted,
         g.status = "OK" => i.status = "OK" /\ ChunkOf(i, c, g.exhausted)
  PROVE  Walk(g)
<1>0. /\ \A j, k : Beyond(g, j, k) <=> Beyond(i, j, k)
      /\ \A k : InRange(g, k) <=> InRange(i, k)
      /\ \A k : Step(g, k) = Step(i, k)
      /\ \A p, S : Onward(g, p, S) = Onward(i, p, S)
      /\ \A p, S : Ahead(g, p, S) = Ahead(i, p, S)
      /\ \A s : Ordered(g, s) <=> Ordered(i, s)
      /\ RangeStart(g) = RangeStart(i)
  BY SameOrder
<1>1. Placed(i) /\ Sorted(i) /\ Complete(i) /\ Stable(i)
  BY DEF Walk
<1>2. ToSet(i.buf) = {}
  BY NoKeys
<1>3. ToSet(emitted) \subseteq Keys /\ Keys \subseteq Int /\ ToSet(c) \subseteq Keys
  <2>1. \A n \in DOMAIN emitted : emitted[n] \in Keys
    BY LenProperties
  <2> QED BY <2>1, KeysAssumption DEF ToSet, Ahead, Onward
\* The chunk starts at the place, which is past all that has been handed out.
<1>4. \A k \in ToSet(c) : /\ k = i.at \/ Beyond(i, k, i.at)
                          /\ InRange(i, k) /\ k \in store
  BY DEF Ahead, Onward
<1>5. \A k \in ToSet(emitted) : /\ Beyond(i, i.at, k) /\ InRange(i, k)
                                /\ k = origin \/ Beyond(i, k, origin)
  BY <1>1 DEF Sorted
<1>6. i.at = origin \/ Beyond(i, i.at, origin)
  BY <1>1 DEF Placed
<1>7. \A k \in ToSet(c) : k = origin \/ Beyond(i, k, origin)
  <2> TAKE k \in ToSet(c)
  <2>1. k \in Int /\ (k = i.at \/ Beyond(i, k, i.at))
    BY <1>3, <1>4
  <2> QED BY <1>6, <2>1, BeyondOrder
<1>8. \A k \in ToSet(emitted), j \in ToSet(c) : Beyond(i, j, k)
  <2> TAKE k \in ToSet(emitted), j \in ToSet(c)
  <2>1. k \in Int /\ j \in Int /\ Beyond(i, i.at, k) /\ (j = i.at \/ Beyond(i, j, i.at))
    BY <1>3, <1>4, <1>5
  <2> QED BY <2>1, BeyondOrder
\* The new place is past the chunk.
<1>9. \A k \in ToSet(c) : Beyond(i, g.at, k)
  <2> SUFFICES ASSUME NEW k \in ToSet(c) PROVE Beyond(i, g.at, k)
    OBVIOUS
  <2>1. c # <<>>
    BY NoKeys
  <2>2. Last(c) \in ToSet(c) /\ (k = Last(c) \/ Beyond(i, Last(c), k))
    BY <2>1, LastIsFurthest
  <2>3. Last(c) \in Int /\ k \in Int /\ g.at = Step(i, Last(c))
    BY <1>3, <2>1, <2>2
  <2>4. g.at \in Int /\ Beyond(i, g.at, Last(c))
    BY <2>3, StepIsNext
  <2> QED BY <2>2, <2>3, <2>4, BeyondOrder
<1>10. g.at \in Int /\ (g.at = i.at \/ Beyond(i, g.at, i.at))
  <2>1. CASE c = <<>>
    BY <2>1
  <2>2. CASE c # <<>>
    <3>1. Last(c) \in ToSet(c) /\ Last(c) \in Int
      BY <1>3, <2>2, LastIsFurthest
    <3>2. g.at \in Int /\ Beyond(i, g.at, Last(c))
      BY <2>2, <3>1, StepIsNext
    <3> QED BY <1>4, <3>1, <3>2, BeyondOrder
  <2> QED BY <2>1, <2>2
<1>11. Placed(g)
  <2>1. g.at = origin \/ Beyond(g, g.at, origin)
    BY <1>0, <1>6, <1>10, BeyondOrder
  <2>2. g.at = IF c # <<>> THEN Step(g, Last(c)) ELSE IF g.started THEN Step(g, g.last) ELSE origin
    BY <1>0, <1>1 DEF Placed, SameWay
  <2>3. /\ g.pos = g.seen /\ (~g.nonblocking => shared /\ g.seen = txn)
        /\ (g.sought /\ ~g.started /\ ~g.exhausted => g.seen = txn)
        /\ (~g.sought => origin = RangeStart(g))
    BY <1>0, <1>1 DEF Placed, SameWay
  <2> QED BY <2>1, <2>2, <2>3 DEF Placed
<1>12. Sorted(g)
  <2>1. \A k \in ToSet(emitted) : Beyond(i, g.at, k)
    <3> TAKE k \in ToSet(emitted)
    <3>1. k \in Int /\ Beyond(i, i.at, k)
      BY <1>3, <1>5
    <3> QED BY <1>10, <3>1, BeyondOrder
  <2> QED BY <1>0, <1>1, <1>4, <1>5, <1>7, <1>8, <1>9, <2>1 DEF Sorted
<1>13. Complete(g)
  <2>1. kept \subseteq Ahead(g, origin, store)
    BY <1>0, <1>1 DEF Complete
  <2>2. ~ended
    BY <1>1 DEF Complete
  <2>3. ASSUME g.status = "OK"
        PROVE  kept \subseteq ToSet(emitted) \cup ToSet(c)
                               \cup (IF g.exhausted THEN {} ELSE Onward(g, g.at, Keys))
    <3>1. kept \subseteq ToSet(emitted) \cup Onward(i, i.at, Keys)
      BY <1>1, <1>2, <2>3 DEF Complete
    <3>2. kept \subseteq ToSet(emitted) \cup Ahead(i, i.at, store)
      BY <1>0, <2>1, <3>1 DEF Ahead, Onward
    <3>3. Ahead(i, i.at, store)
            \subseteq ToSet(c) \cup (IF g.exhausted THEN {} ELSE Onward(i, Step(i, Last(c)), Keys))
      BY <2>3 DEF ChunkOf
    <3>4. ~g.exhausted => g.at = Step(i, Last(c)) /\ Onward(g, g.at, Keys) = Onward(i, g.at, Keys)
      BY <1>0
    <3> QED BY <3>2, <3>3, <3>4
  <2> QED BY <2>1, <2>2, <2>3 DEF Complete
<1>14. Stable(g)
  BY <1>0, <1>1, <1>4 DEF Stable, SameWay
<1> QED BY <1>11, <1>12, <1>13, <1>14 DEF Walk

\* A chunk, taken from the place of an iterator.
LEMMA FilledIs ==
  ASSUME NEW i \in Iterators, NEW c \in Seq(Keys), Len(c) <= Chunk, Ordered(i, c),
         NEW end \in BOOLEAN, NEW f, f = Filled(i, c, end)
  PROVE  /\ f \in Iterators /\ SameWay(f, i) /\ f.pos = i.pos /\ f.seen = i.seen
         /\ f.buf = c /\ f.at = (IF c = <<>> THEN i.at ELSE Step(i, Last(c)))
         /\ f.exhausted = end /\ f.status = i.status
<1> DEFINE place == IF c = <<>> THEN i.at ELSE Step(i, Last(c))
<1>1. c \in BoundedSeq(Keys, Chunk)
  BY BoundedIs, BoundsAssumption
<1>2. place \in Places
  <2>1. i.at \in Places
    BY DEF Iterators
  <2>2. c # <<>> => Last(c) \in Keys
    BY LastIsFurthest
  <2> QED BY <2>1, <2>2, PlacesAre DEF Step
<1>3. f = [i EXCEPT !.buf = c, !.at = place, !.exhausted = end]
  BY DEF Filled
<1> HIDE DEF place
<1>4. f \in Iterators
  BY <1>1, <1>2, <1>3 DEF Iterators
<1>5. /\ f.pos = i.pos /\ f.seen = i.seen /\ f.buf = c /\ f.at = place /\ f.exhausted = end
      /\ f.status = i.status
  BY <1>3 DEF Iterators
<1>6. SameWay(f, i)
  BY <1>3 DEF Iterators, SameWay
<1> QED BY <1>4, <1>5, <1>6 DEF place

\* A chunk the iterator could not read to its end.
LEMMA FailedIs ==
  ASSUME NEW i \in Iterators, NEW f, f = [i EXCEPT !.exhausted = TRUE, !.status = "ERROR"]
  PROVE  /\ f \in Iterators /\ SameWay(f, i) /\ f.pos = i.pos /\ f.seen = i.seen
         /\ f.buf = i.buf /\ f.at = i.at /\ f.exhausted = TRUE /\ f.status = "ERROR"
BY DEF Iterators, SameWay

\* What iter_fill leaves behind, or a failure in it, is a walk again, and the
\* buffer is empty only at the end of it.
LEMMA FillsKeepWalk ==
  ASSUME TypeOK, NEW i \in Iterators, Walk(i), i.buf = <<>>, ~i.exhausted, i.pos = txn,
         NEW f \in Fills(i) \cup Failures(i)
  PROVE  f \in Iterators /\ Walk(f) /\ (f.buf = <<>> => f.exhausted)
<1>1. /\ store \in SUBSET Keys /\ origin \in Int /\ i.at \in Int /\ emitted \in Seq(Keys)
  BY PlacesAre DEF TypeOK, Iterators
<1>2. ASSUME NEW g \in Fills(i)
      PROVE  /\ g \in Iterators /\ Walk(g) /\ (g.buf = <<>> => g.exhausted)
             /\ \A e : e = [g EXCEPT !.exhausted = TRUE, !.status = "ERROR"]
                         => e \in Iterators /\ Walk(e) /\ e.exhausted
  <2>1. PICK c, end : ChunkOf(i, c, end) /\ g = Filled(i, c, end)
    BY <1>1, FillsAreChunks
  <2>2. /\ c \in Seq(Keys) /\ Len(c) <= Chunk /\ end \in BOOLEAN /\ Ordered(i, c)
        /\ ToSet(c) \subseteq Ahead(i, i.at, store) /\ (c = <<>> => end)
    BY <2>1 DEF ChunkOf
  <2>3. /\ g \in Iterators /\ SameWay(g, i) /\ g.pos = i.pos /\ g.seen = i.seen
        /\ g.buf = c /\ g.at = (IF c = <<>> THEN i.at ELSE Step(i, Last(c)))
        /\ g.exhausted = end /\ g.status = i.status
    BY <2>1, <2>2, FilledIs
  <2>4. Walk(g)
    BY <1>1, <2>1, <2>2, <2>3, ChunkKeepsWalk
  <2>5. ASSUME NEW e, e = [g EXCEPT !.exhausted = TRUE, !.status = "ERROR"]
        PROVE  e \in Iterators /\ Walk(e) /\ e.exhausted
    <3>1. /\ e \in Iterators /\ SameWay(e, g) /\ e.pos = g.pos /\ e.seen = g.seen
          /\ e.buf = g.buf /\ e.at = g.at /\ e.exhausted = TRUE /\ e.status = "ERROR"
      <4>1. g \in Iterators
        BY <2>3
      <4> QED BY <4>1, <2>5, FailedIs
    <3>2. /\ SameWay(e, i) /\ e.pos = i.pos /\ e.seen = i.seen /\ e.buf = c
          /\ e.at = (IF c = <<>> THEN i.at ELSE Step(i, Last(c))) /\ e.status # "OK"
      BY <2>3, <3>1 DEF SameWay
    <3>3. Walk(e)
      BY <1>1, <2>2, <3>1, <3>2, ChunkKeepsWalk
    <3> QED BY <3>1, <3>3
  <2> QED BY <2>2, <2>3, <2>4, <2>5
<1>3. CASE f \in Fills(i)
  BY <1>2, <1>3
<1>4. CASE f \in {[g EXCEPT !.exhausted = TRUE, !.status = "ERROR"] : g \in Fills(i)}
  BY <1>2, <1>4
<1>5. CASE f = [i EXCEPT !.exhausted = TRUE, !.status = "ERROR"]
  <2>1. /\ f \in Iterators /\ SameWay(f, i) /\ f.pos = i.pos /\ f.seen = i.seen
        /\ f.buf = i.buf /\ f.at = i.at /\ f.exhausted = TRUE /\ f.status = "ERROR"
    BY <1>5, FailedIs
  <2> DEFINE c == <<>>
  <2>2. c \in Seq(Keys) /\ Ordered(i, c) /\ ToSet(c) \subseteq Ahead(i, i.at, store)
    BY NoKeys
  <2>3. f.buf = c /\ f.at = (IF c = <<>> THEN i.at ELSE Step(i, Last(c))) /\ f.status # "OK"
    BY <2>1
  <2> HIDE DEF c
  <2>4. Walk(f)
    BY <1>1, <2>1, <2>2, <2>3, ChunkKeepsWalk
  <2> QED BY <2>1, <2>4
<1> QED BY <1>3, <1>4, <1>5 DEF Failures

\* A non-blocking iterator that finds its place anew finds the one it had.
LEMMA FindsItsPlace ==
  ASSUME TypeOK, NEW i \in Iterators, Walk(i), i.buf = <<>>, ~i.exhausted,
         i.nonblocking, i.seen # txn,
         NEW j, j = Position([i EXCEPT !.seen = txn], ResumeKey(i))
  PROVE  j \in Iterators /\ Walk(j) /\ j.buf = <<>> /\ ~j.exhausted /\ j.pos = txn
<1>1. Placed(i) /\ Sorted(i) /\ Complete(i) /\ Stable(i)
  BY DEF Walk
<1>2. ResumeKey(i) = i.at
  BY <1>1 DEF Placed, ResumeKey
<1>3. i.at \in Places /\ txn \in Nat
  BY DEF TypeOK, Iterators
<1>4. j = [[i EXCEPT !.seen = txn] EXCEPT !.at = i.at, !.pos = txn]
  BY <1>2 DEF Position
<1>5. j \in Iterators
  BY <1>3, <1>4 DEF Iterators
<1>6. /\ j.at = i.at /\ j.pos = txn /\ j.seen = txn /\ j.buf = i.buf
      /\ j.exhausted = i.exhausted /\ j.status = i.status
  BY <1>3, <1>4 DEF Iterators
<1>7. SameWay(j, i)
  BY <1>3, <1>4 DEF Iterators, SameWay
<1>8. /\ \A k, l : Beyond(j, k, l) <=> Beyond(i, k, l)
      /\ \A k : InRange(j, k) <=> InRange(i, k)
      /\ \A k : Step(j, k) = Step(i, k)
      /\ \A p, S : Onward(j, p, S) = Onward(i, p, S)
      /\ \A p, S : Ahead(j, p, S) = Ahead(i, p, S)
      /\ \A s : Ordered(j, s) <=> Ordered(i, s)
      /\ RangeStart(j) = RangeStart(i)
  BY <1>7, SameOrder
<1>9. Placed(j)
  BY <1>1, <1>6, <1>7, <1>8 DEF Placed, SameWay
<1>10. Sorted(j)
  BY <1>1, <1>6, <1>8 DEF Sorted
<1>11. Complete(j)
  BY <1>1, <1>6, <1>8 DEF Complete
<1>12. Stable(j)
  BY <1>7 DEF Stable, SameWay
<1> QED BY <1>5, <1>6, <1>9, <1>10, <1>11, <1>12 DEF Walk

\* iter_refill.
LEMMA RefillsKeepWalk ==
  ASSUME TypeOK, NEW i \in Iterators, Walk(i), i.buf = <<>>, NEW f \in Refills(i)
  PROVE  f \in Iterators /\ Walk(f) /\ (f.buf = <<>> => f.exhausted)
<1>1. CASE i.exhausted
  BY <1>1 DEF Refills
<1>2. CASE ~i.exhausted /\ i.nonblocking /\ i.seen # txn
  <2> DEFINE j == Position([i EXCEPT !.seen = txn], ResumeKey(i))
  <2>1. f \in Fills(j) \cup Failures(j)
    BY <1>2 DEF Refills
  <2>2. j \in Iterators /\ Walk(j) /\ j.buf = <<>> /\ ~j.exhausted /\ j.pos = txn
    BY <1>2, FindsItsPlace
  <2> HIDE DEF j
  <2> QED BY <2>1, <2>2, FillsKeepWalk
<1>3. CASE ~i.exhausted /\ ~(i.nonblocking /\ i.seen # txn)
  <2>1. f \in Fills(i) \cup Failures(i)
    BY <1>3 DEF Refills
  <2>2. i.pos = txn
    BY <1>3 DEF Walk, Placed
  <2> QED BY <1>3, <2>1, <2>2, FillsKeepWalk
<1> QED BY <1>1, <1>2, <1>3

------------------------------------------------------------------------------
(* One step of the system.                                                 *)

\* The initial states.
LEMMA InitIInv == Init => IInv
<1> SUFFICES ASSUME Init PROVE IInv
  OBVIOUS
<1>1. it.open = FALSE
  BY DEF Init, Closed
<1>2. TypeOK
  <2>1. 0 \in 0 .. MaxTxn
    BY BoundsAssumption
  <2>2. store \subseteq Keys /\ kept \subseteq Keys /\ origin \in Places /\ emitted \in Seq(Keys)
    BY NoKeys, PlacesAre DEF Init
  <2> QED BY <2>1, <2>2 DEF Init, TypeOK
<1> QED BY <1>1, <1>2 DEF IInv

\* spike_db_iter_next hands out the first key of the buffer.
LEMMA HandsOutFirst ==
  ASSUME TypeOK, NEW i \in Iterators, Walk(i), i.buf # <<>>,
         NEW g, g = [i EXCEPT !.buf = Tail(@), !.last = Head(i.buf), !.started = TRUE],
         it' = g, emitted' = Append(emitted, Head(i.buf)),
         UNCHANGED <<store, txn, shared, origin, kept, ended>>
  PROVE  g \in Iterators /\ Walk(it)' /\ emitted' \in Seq(Keys)
<1> DEFINE e == Head(i.buf)
           d == Tail(i.buf)
<1>1. Placed(i) /\ Sorted(i) /\ Complete(i) /\ Stable(i)
  BY DEF Walk
<1>2. i.buf \in Seq(Keys) /\ Len(i.buf) <= Chunk /\ Chunk \in Nat /\ emitted \in Seq(Keys)
  <2>1. i.buf \in BoundedSeq(Keys, Chunk)
    BY DEF Iterators
  <2> QED BY <2>1, BoundedIs, BoundsAssumption DEF TypeOK
<1>3. /\ e \in Keys /\ d \in Seq(Keys) /\ Len(d) = Len(i.buf) - 1
      /\ ToSet(i.buf) = {e} \cup ToSet(d) /\ Ordered(i, d)
      /\ \A k \in ToSet(d) : Beyond(i, k, e)
      /\ Last(i.buf) = IF d = <<>> THEN e ELSE Last(d)
  BY <1>1, <1>2, FirstAndRest DEF Sorted
<1>4. \A k \in ToSet(emitted) : Beyond(i, e, k)
  BY <1>1, <1>3 DEF Sorted
<1>5. /\ emitted' \in Seq(Keys) /\ Ordered(i, emitted')
      /\ ToSet(emitted') = ToSet(emitted) \cup {e}
  BY <1>1, <1>2, <1>3, <1>4, OneMore DEF Sorted
<1> HIDE DEF e, d
<1>6. g = [i EXCEPT !.buf = d, !.last = e, !.started = TRUE]
  BY DEF e, d
<1>7. d \in BoundedSeq(Keys, Chunk)
  <2>1. Len(i.buf) \in Nat /\ Len(d) <= Chunk
    BY <1>2, <1>3, LenProperties
  <2> QED BY <1>2, <1>3, <2>1, BoundedIs
<1>8. g \in Iterators
  BY <1>3, <1>6, <1>7, PlacesAre DEF Iterators
<1>9. /\ g.open = i.open /\ g.nonblocking = i.nonblocking /\ g.reverse = i.reverse
      /\ g.lo = i.lo /\ g.hi = i.hi /\ g.sought = i.sought /\ g.at = i.at /\ g.pos = i.pos
      /\ g.seen = i.seen /\ g.exhausted = i.exhausted /\ g.status = i.status
      /\ g.buf = d /\ g.last = e /\ g.started = TRUE
  BY <1>6 DEF Iterators
<1>10. /\ \A k, l : Beyond(g, k, l) <=> Beyond(i, k, l)
       /\ \A k : InRange(g, k) <=> InRange(i, k)
       /\ \A k : Step(g, k) = Step(i, k)
       /\ \A p, S : Onward(g, p, S) = Onward(i, p, S)
       /\ \A p, S : Ahead(g, p, S) = Ahead(i, p, S)
       /\ \A s : Ordered(g, s) <=> Ordered(i, s)
       /\ RangeStart(g) = RangeStart(i)
  <2>1. g.reverse = i.reverse /\ g.lo = i.lo /\ g.hi = i.hi
    BY <1>9
  <2>2. \A k, l : Beyond(g, k, l) <=> Beyond(i, k, l)
    BY <2>1 DEF Beyond
  <2>3. \A k : InRange(g, k) <=> InRange(i, k)
    BY <2>1 DEF InRange
  <2>4. \A p, S : Onward(g, p, S) = Onward(i, p, S)
    BY <2>2 DEF Onward
  <2>5. \A p, S : Ahead(g, p, S) = Ahead(i, p, S)
    BY <2>3, <2>4 DEF Ahead
  <2>6. \A s : Ordered(g, s) <=> Ordered(i, s)
    BY <2>2 DEF Ordered
  <2> QED BY <2>1, <2>2, <2>3, <2>4, <2>5, <2>6 DEF Step, RangeStart
<1>11. Placed(it)'
  <2>1. i.at = IF d = <<>> THEN Step(i, e) ELSE Step(i, Last(d))
    BY <1>1, <1>3 DEF Placed
  <2>2. g.at = IF g.buf # <<>> THEN Step(g, Last(g.buf)) ELSE IF g.started THEN Step(g, g.last) ELSE origin
    BY <1>9, <1>10, <2>1
  <2> QED BY <1>1, <1>9, <1>10, <2>2 DEF Placed
<1>12. Sorted(it)'
  <2>1. \A k \in ToSet(emitted'), j \in ToSet(d) : Beyond(i, j, k)
    BY <1>1, <1>3, <1>5 DEF Sorted
  <2>2. ToSet(emitted') \cup ToSet(d) = ToSet(emitted) \cup ToSet(i.buf)
    BY <1>3, <1>5
  <2>3. \A k \in ToSet(emitted') \cup ToSet(d) :
           Beyond(i, i.at, k) /\ (k = origin \/ Beyond(i, k, origin)) /\ InRange(i, k)
    BY <1>1, <2>2 DEF Sorted
  <2> QED BY <1>3, <1>5, <1>9, <1>10, <2>1, <2>3 DEF Sorted
<1>13. Complete(it)'
  <2>1. ToSet(emitted') \cup ToSet(d) = ToSet(emitted) \cup ToSet(i.buf)
    BY <1>3, <1>5
  <2>2. ~ended
    BY <1>1 DEF Complete
  <2>3. kept \subseteq Ahead(g, origin, store)
    BY <1>1, <1>10 DEF Complete
  <2>4. g.status = "OK" =>
          kept \subseteq ToSet(emitted') \cup ToSet(d)
                         \cup (IF g.exhausted THEN {} ELSE Onward(g, g.at, Keys))
    <3>1. g.status = "OK" =>
            kept \subseteq (ToSet(emitted) \cup ToSet(i.buf))
                           \cup (IF i.exhausted THEN {} ELSE Onward(i, i.at, Keys))
      BY <1>1, <1>9 DEF Complete
    <3> QED BY <1>9, <1>10, <2>1, <3>1
  <2> DEFINE rest == IF g.exhausted THEN {} ELSE Onward(g, g.at, Keys)
  <2>5. /\ kept' \subseteq Ahead(g, origin', store')
        /\ g.status = "OK" => kept' \subseteq ToSet(emitted') \cup ToSet(g.buf) \cup rest
        /\ ~ended'
    BY <1>9, <2>2, <2>3, <2>4
  <2> QED BY <2>5 DEF Complete
<1>14. Stable(it)'
  <2>1. ToSet(emitted') \cup ToSet(d) = ToSet(emitted) \cup ToSet(i.buf)
    BY <1>3, <1>5
  <2> QED BY <1>1, <1>9, <1>10, <2>1 DEF Stable
<1> QED BY <1>5, <1>8, <1>11, <1>12, <1>13, <1>14 DEF Walk

\* spike_db_scan_ex and spike_db_iter_seek.
LEMMA WalkStarts ==
  ASSUME TypeOK, NEW i \in Iterators, NEW p \in Places, StartWalk(i, p),
         i.at = p, i.pos = txn, i.seen = txn, i.buf = <<>>, ~i.started,
         ~i.nonblocking => shared', ~i.sought => p = RangeStart(i),
         shared' \in BOOLEAN, UNCHANGED <<store, txn>>
  PROVE  IInv'
<1>1. PICK g : /\ it' = g
               /\ \/ g = [i EXCEPT !.exhausted = Ahead(i, p, store) = {}] /\ i.status = g.status
                  \/ g = [i EXCEPT !.exhausted = TRUE, !.status = "ERROR"]
  BY DEF StartWalk, Iterators
<1>2. g \in Iterators
  <2>1. \A b \in BOOLEAN : [i EXCEPT !.exhausted = b] \in Iterators
    BY DEF Iterators
  <2>2. [i EXCEPT !.exhausted = TRUE, !.status = "ERROR"] \in Iterators
    BY DEF Iterators
  <2>3. (Ahead(i, p, store) = {}) \in BOOLEAN
    OBVIOUS
  <2> QED BY <1>1, <2>1, <2>2, <2>3
<1>3. /\ g.at = p /\ g.pos = txn /\ g.seen = txn /\ g.buf = <<>>
      /\ g.status = "OK" => (g.exhausted <=> Ahead(i, p, store) = {})
  BY <1>1 DEF Iterators
<1>4. SameWay(g, i)
  BY <1>1 DEF Iterators, SameWay
<1>5. /\ \A k : Step(g, k) = Step(i, k)
      /\ \A P, S : Onward(g, P, S) = Onward(i, P, S)
      /\ \A P, S : Ahead(g, P, S) = Ahead(i, P, S)
      /\ RangeStart(g) = RangeStart(i)
  BY <1>4, SameOrder
<1>6. Ordered(g, <<>>) /\ ToSet(<<>>) = {} /\ <<>> \in Seq(Keys)
  BY NoKeys
<1>7. origin' = p /\ kept' = Ahead(i, p, store) /\ emitted' = <<>> /\ ended' = FALSE
  BY DEF StartWalk
<1>8. Ahead(i, p, store) \subseteq store /\ store \subseteq Keys
  BY DEF Ahead, Onward, TypeOK
<1>9. TypeOK'
  BY <1>1, <1>2, <1>6, <1>7, <1>8 DEF TypeOK
<1>10. Placed(it)'
  BY <1>1, <1>3, <1>4, <1>5, <1>7 DEF Placed, SameWay
<1>11. Sorted(it)'
  BY <1>1, <1>3, <1>6, <1>7 DEF Sorted
<1>12. Complete(it)'
  <2>1. Ahead(i, p, store) \subseteq Onward(g, p, Keys)
    BY <1>5, <1>8 DEF Ahead, Onward
  <2>2. g.status = "OK" => kept' \subseteq IF g.exhausted THEN {} ELSE Onward(g, g.at, Keys)
    BY <1>3, <1>7, <2>1
  <2>3. kept' \subseteq Ahead(g, origin', store')
    BY <1>5, <1>7
  <2> QED BY <1>1, <1>3, <1>6, <1>7, <2>2, <2>3 DEF Complete
<1>13. Stable(it)'
  BY <1>1, <1>3, <1>5, <1>6, <1>7 DEF Stable
<1> QED BY <1>9, <1>10, <1>11, <1>12, <1>13 DEF IInv, Walk

\* Every step keeps the invariant.
LEMMA NextIInv == ASSUME Excluded PROVE IInv /\ [Next]_vars => IInv'
<1> SUFFICES ASSUME IInv, [Next]_vars PROVE IInv'
  OBVIOUS
<1>1. TypeOK /\ (it.open => it \in Iterators /\ Walk(it)) /\ (~it.open => it = Closed)
  <2>1. ~Closed.open
    BY DEF Closed
  <2>2. it = Closed \/ it \in Iterators
    BY DEF IInv, TypeOK
  <2>3. it \in Iterators => it.open
    BY DEF Iterators
  <2> QED BY <2>1, <2>2, <2>3 DEF IInv
<1>2. ASSUME NEW nonblocking \in BOOLEAN, NEW reverse \in BOOLEAN, NEW lo \in Times, NEW hi \in Times,
             Scan(nonblocking, reverse, lo, hi)
      PROVE  IInv'
  <2> DEFINE n == NewIterator(nonblocking, reverse, lo, hi)
             p == RangeStart(n)
             i == Position(n, p)
  <2>1. p \in Places
    <3>1. p = IF reverse THEN EndOf(hi) ELSE StartOf(lo)
      BY DEF RangeStart, NewIterator
    <3> HIDE DEF p
    <3> QED BY <3>1, PlacesAre
  <2>2. txn \in Nat /\ 0 \in Places
    BY <1>1, BoundsAssumption, PlacesAre DEF TypeOK
  <2>3. n \in Iterators
    BY <2>2, NoBuffer DEF NewIterator, Iterators
  <2>4. /\ n.pos = txn /\ n.seen = txn /\ n.buf = <<>> /\ n.started = FALSE
        /\ n.nonblocking = nonblocking
    BY DEF NewIterator
  <2>5. StartWalk(i, p) /\ shared' = ~nonblocking /\ UNCHANGED <<store, txn>>
    BY <1>2 DEF Scan, Holds
  <2> HIDE DEF n
  <2>6. i = [n EXCEPT !.at = p, !.pos = txn]
    BY DEF Position
  <2>7. p = RangeStart(n)
    OBVIOUS
  <2> HIDE DEF i, p
  <2>8. i \in Iterators
    BY <2>1, <2>2, <2>3, <2>6 DEF Iterators
  <2>9. /\ i.at = p /\ i.pos = txn /\ i.seen = txn /\ i.buf = <<>> /\ ~i.started
        /\ (~i.nonblocking => shared') /\ shared' \in BOOLEAN
    BY <2>3, <2>4, <2>5, <2>6 DEF Iterators
  <2>10. p = RangeStart(i)
    BY <2>3, <2>6, <2>7 DEF Iterators, RangeStart
  <2> QED BY <1>1, <2>1, <2>5, <2>8, <2>9, <2>10, WalkStarts
<1>3. ASSUME NextRecord PROVE IInv'
  <2>1. it \in Iterators /\ Walk(it)
    BY <1>1, <1>3 DEF NextRecord
  <2>2. PICK i \in IF it.buf = <<>> THEN Refills(it) ELSE {it} :
           IF i.buf = <<>>
           THEN it' = i /\ ended' = TRUE /\ UNCHANGED emitted
           ELSE /\ it' = [i EXCEPT !.buf = Tail(@), !.last = Head(i.buf), !.started = TRUE]
                /\ emitted' = Append(emitted, Head(i.buf))
                /\ UNCHANGED ended
    BY <1>3 DEF NextRecord
  <2>3. i \in Iterators /\ Walk(i) /\ (i.buf = <<>> => i.exhausted)
    <3>1. CASE it.buf = <<>>
      BY <1>1, <2>1, <2>2, <3>1, RefillsKeepWalk
    <3>2. CASE it.buf # <<>>
      BY <2>1, <2>2, <3>2
    <3> QED BY <3>1, <3>2
  <2>4. UNCHANGED <<store, txn, shared, origin, kept>>
    BY <1>3 DEF NextRecord
  <2>5. CASE i.buf = <<>>
    <3>1. it' = i /\ ended' = TRUE /\ emitted' = emitted
      BY <2>2, <2>5
    <3>2. TypeOK'
      BY <1>1, <2>3, <2>4, <3>1 DEF TypeOK
    <3>3. Placed(it)' /\ Sorted(it)' /\ Stable(it)'
      BY <2>3, <2>4, <3>1 DEF Walk, Placed, Sorted, Stable
    <3>4. Complete(it)'
      BY <2>3, <2>4, <2>5, <3>1 DEF Walk, Complete
    <3> QED BY <3>2, <3>3, <3>4 DEF IInv, Walk
  <2>6. CASE i.buf # <<>>
    <3> DEFINE g == [i EXCEPT !.buf = Tail(@), !.last = Head(i.buf), !.started = TRUE]
    <3>1. it' = g /\ emitted' = Append(emitted, Head(i.buf)) /\ ended' = ended
      BY <2>2, <2>6
    <3>2. g \in Iterators /\ Walk(it)' /\ emitted' \in Seq(Keys)
      BY <1>1, <2>3, <2>4, <2>6, <3>1, HandsOutFirst
    <3> HIDE DEF g
    <3>3. TypeOK'
      BY <1>1, <2>4, <3>1, <3>2 DEF TypeOK
    <3> QED BY <3>2, <3>3 DEF IInv
  <2> QED BY <2>5, <2>6
<1>4. ASSUME NEW p \in Keys, Seek(p) PROVE IInv'
  <2> DEFINE m == [it EXCEPT !.seen = IF it.nonblocking THEN txn ELSE @, !.sought = TRUE]
             i == Position(Flushed(m), p)
  <2>1. it \in Iterators /\ Placed(it)
    BY <1>1, <1>4 DEF Seek, Walk
  <2>2. (IF it.nonblocking THEN txn ELSE it.seen) = txn /\ (~it.nonblocking => shared)
    BY <2>1 DEF Placed
  <2>3. m = [it EXCEPT !.seen = txn, !.sought = TRUE]
    BY <2>2
  <2> HIDE DEF m
  <2>4. txn \in Nat /\ <<>> \in BoundedSeq(Keys, Chunk) /\ p \in Places
    <3>1. txn \in Nat /\ p \in Places
      BY <1>1, BoundsAssumption, PlacesAre DEF TypeOK
    <3> QED BY <3>1, NoBuffer
  <2>5. m \in Iterators /\ m.nonblocking = it.nonblocking /\ m.seen = txn /\ m.sought = TRUE
    BY <2>1, <2>3, <2>4 DEF Iterators
  <2>6. i = [[m EXCEPT !.buf = <<>>, !.started = FALSE, !.status = "OK"] EXCEPT !.at = p, !.pos = txn]
    BY DEF Flushed, Position
  <2>7. StartWalk(i, p) /\ UNCHANGED <<store, txn, shared>>
    BY <1>4 DEF Seek, m
  <2> HIDE DEF i
  <2>8. i \in Iterators
    BY <2>4, <2>5, <2>6 DEF Iterators
  <2>9. /\ i.at = p /\ i.pos = txn /\ i.seen = txn /\ i.buf = <<>> /\ ~i.started
        /\ i.nonblocking = it.nonblocking /\ i.sought
    BY <2>5, <2>6 DEF Iterators
  <2>10. shared' = shared /\ shared \in BOOLEAN
    BY <1>1, <2>7 DEF TypeOK
  <2> QED BY <1>1, <2>2, <2>4, <2>7, <2>8, <2>9, <2>10, WalkStarts
<1>5. ASSUME Close PROVE IInv'
  <2>1. it' = Closed /\ ~Closed.open
    BY <1>5 DEF Close, Closed
  <2>2. TypeOK'
    BY <1>1, <1>5, NoKeys, PlacesAre DEF Close, TypeOK
  <2> QED BY <2>1, <2>2 DEF IInv
<1>6. ASSUME NEW S \in SUBSET Keys, Commit(S) PROVE IInv'
  <2>1. /\ ~shared /\ txn < MaxTxn /\ SeekSettled /\ store' = S /\ txn' = txn + 1
        /\ kept' = kept \cap S /\ UNCHANGED <<shared, it, origin, emitted, ended>>
    BY <1>6 DEF Commit, Excluded
  <2>2. TypeOK'
    <3>1. txn + 1 \in 0 .. MaxTxn
      BY <1>1, <2>1, BoundsAssumption DEF TypeOK
    <3> QED BY <1>1, <2>1, <3>1 DEF TypeOK
  <2>3. ASSUME it.open PROVE Walk(it)'
    <3>1. Placed(it) /\ Sorted(it) /\ Complete(it) /\ Stable(it)
      BY <1>1, <2>3 DEF Walk
    <3>2. it.nonblocking /\ (it.sought => it.started \/ it.exhausted)
      BY <2>1, <2>3, <3>1 DEF Placed, SeekSettled
    <3>3. Placed(it)'
      BY <2>1, <3>1, <3>2 DEF Placed
    <3>4. Sorted(it)'
      BY <2>1, <3>1 DEF Sorted
    <3>5. Complete(it)'
      <4>1. kept \cap S \subseteq Ahead(it, origin, S)
        BY <3>1 DEF Complete, Ahead, Onward
      <4>2. it.status = "OK" =>
              kept \subseteq ToSet(emitted) \cup ToSet(it.buf)
                             \cup (IF it.exhausted THEN {} ELSE Onward(it, it.at, Keys))
        BY <3>1 DEF Complete
      <4>3. ended => it.exhausted /\ it.buf = <<>>
        BY <3>1 DEF Complete
      <4> QED BY <2>1, <4>1, <4>2, <4>3 DEF Complete
    <3>6. Stable(it)'
      BY <2>1, <3>2 DEF Stable
    <3> QED BY <3>3, <3>4, <3>5, <3>6 DEF Walk
  <2> QED BY <2>1, <2>2, <2>3 DEF IInv
<1>7. ASSUME OtherCall PROVE IInv'
  <2>1. it.open /\ it.nonblocking /\ shared' = FALSE
        /\ UNCHANGED <<store, txn, it, origin, kept, emitted, ended>>
    BY <1>7 DEF OtherCall, Excluded
  <2>2. TypeOK'
    BY <1>1, <2>1 DEF TypeOK
  <2>3. Walk(it)'
    BY <1>1, <2>1 DEF Walk, Placed, Sorted, Complete, Stable
  <2> QED BY <2>2, <2>3 DEF IInv
<1>8. ASSUME UNCHANGED vars PROVE IInv'
  <2>1. TypeOK'
    BY <1>1, <1>8 DEF vars, TypeOK
  <2>2. it.open => Walk(it)'
    BY <1>1, <1>8 DEF vars, Walk, Placed, Sorted, Complete, Stable
  <2> QED BY <1>8, <2>1, <2>2 DEF vars, IInv
<1> QED BY <1>2, <1>3, <1>4, <1>5, <1>6, <1>7, <1>8 DEF Next

------------------------------------------------------------------------------
(* The theorems.                                                           *)

\* The invariant holds in every state.
LEMMA IInvAlways == ASSUME Excluded PROVE Spec => []IInv
<1>1. Init => IInv
  BY InitIInv
<1>2. IInv /\ [Next]_vars => IInv'
  BY NextIInv
<1> QED BY <1>1, <1>2, PTL DEF Spec

\* An iterator, its buffer and its walk have the shape the code gives them: the
\* chunk never outgrows the buffer.
THEOREM ScanIterTypeOK == ASSUME Excluded PROVE Spec => []TypeOK
<1>1. IInv => TypeOK
  BY DEF IInv
<1> QED BY <1>1, IInvAlways, PTL

\* spike_db_iter_next hands out keys in the order of the walk, none twice, across
\* chunk borders, seeks and the commits of other handles.
THEOREM WalkInOrderAlways == ASSUME Excluded PROVE Spec => []WalkInOrder
<1>1. IInv => WalkInOrder
  BY DEF IInv, Walk, Sorted, Ordered, WalkInOrder
<1> QED BY <1>1, IInvAlways, PTL

\* A walk that ends with SPIKEDB_OK has delivered every key that was there all
\* along, whatever was committed between two chunks.
THEOREM NothingSkippedAlways == ASSUME Excluded PROVE Spec => []NothingSkipped
<1>1. IInv => NothingSkipped
  <2> SUFFICES ASSUME IInv, it.open, ended, it.status = "OK" PROVE kept \subseteq ToSet(emitted)
    BY DEF NothingSkipped
  <2>1. Complete(it)
    BY DEF IInv, Walk
  <2>2. it.exhausted /\ ToSet(it.buf) = {}
    BY <2>1, NoKeys DEF Complete
  <2> QED BY <2>1, <2>2 DEF Complete
<1> QED BY <1>1, IInvAlways, PTL

\* A walk keeps to the side of the key it started from, and inside its range.
THEOREM StaysAheadAlways == ASSUME Excluded PROVE Spec => []StaysAhead
<1>1. IInv => StaysAhead
  BY DEF IInv, Walk, Sorted, StaysAhead
<1> QED BY <1>1, IInvAlways, PTL

\* A blocking iterator hands out what the file holds, and nothing changes under it.
THEOREM StableViewAlways == ASSUME Excluded PROVE Spec => []StableView
<1>1. IInv => StableView
  BY DEF IInv, Walk, Stable, StableView
<1> QED BY <1>1, IInvAlways, PTL

=============================================================================
