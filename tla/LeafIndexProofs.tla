--------------------------- MODULE LeafIndexProofs ---------------------------
(***************************************************************************)
(* One symbol, for every set of keys, leaves and payloads: index and chain *)
(* stay in step through every transaction, and on top of that structure    *)
(* the symbol is the map of TickStore: its neighbour lookups, its root     *)
(* counters, its bulk reads and spike_db_verify tell what that map holds.  *)
(***************************************************************************)
EXTENDS LeafReads, FiniteSetTheorems, WellFoundedInduction, TLAPS, SequenceTheorems

------------------------------------------------------------------------------
(* Sets of naturals, counting and iteration.                                *)

\* A nonempty set of naturals has a least element.
LEMMA LeastElement ==
  ASSUME NEW S \in SUBSET Nat, S # {}
  PROVE  \E x \in S : \A y \in S : x <= y
<1>1. \E x \in S : \A y \in S : ~(<<y, x>> \in OpToRel(<, Nat))
  BY NatLessThanWellFounded, WFMin
<1>2. PICK x \in S : \A y \in S : ~(<<y, x>> \in OpToRel(<, Nat))
  BY <1>1
<1>3. \A y \in S : ~(y < x)
  BY <1>2 DEF OpToRel
<1> QED BY <1>3

\* A nonempty finite set of naturals has a greatest element: the one with the
\* fewest elements above it.
LEMMA GreatestElement ==
  ASSUME NEW S \in SUBSET Nat, S # {}, IsFiniteSet(S)
  PROVE  \E x \in S : \A y \in S : y <= x
<1> DEFINE Above(x) == {y \in S : x < y}
           Counts == {Cardinality(Above(x)) : x \in S}
<1>1. \A x \in S : IsFiniteSet(Above(x)) /\ Cardinality(Above(x)) \in Nat
  BY FS_Subset, FS_CardinalityType
<1>2. PICK n \in Counts : \A m \in Counts : n <= m
  <2>1. Counts # {} /\ Counts \in SUBSET Nat
    BY <1>1
  <2> HIDE DEF Counts
  <2> QED BY <2>1, LeastElement
<1>3. PICK x \in S : n = Cardinality(Above(x))
  OBVIOUS
<1>4. ASSUME NEW z \in S, x < z PROVE FALSE
  <2> DEFINE A == Above(z)
             B == Above(x)
  <2>1. A \cup {z} \in SUBSET B /\ z \notin A
    <3>1. x \in Nat /\ z \in Nat
      OBVIOUS
    <3>2. \A y \in A : y \in S /\ x < y
      BY <1>4, <3>1
    <3>3. z \notin A /\ z \in B
      BY <1>4, <3>1
    <3>4. \A y \in A : y \in B
      BY <3>2
    <3> HIDE DEF A, B
    <3> QED BY <3>3, <3>4
  <2>2. /\ IsFiniteSet(A) /\ Cardinality(A) \in Nat
        /\ IsFiniteSet(B) /\ Cardinality(B) = n /\ n \in Nat
    BY <1>1, <1>3
  <2>3. n <= Cardinality(A)
    BY <1>2
  <2> HIDE DEF A, B
  <2>4. Cardinality(A \cup {z}) = Cardinality(A) + 1
    BY <2>1, <2>2, FS_AddElement
  <2>5. Cardinality(A \cup {z}) <= n
    BY <2>1, <2>2, FS_Subset
  <2> QED BY <2>2, <2>3, <2>4, <2>5
<1>5. \A y \in S : y <= x
  BY <1>4
<1> QED BY <1>5

\* What holds at 0 and goes on from each number to the next holds up to n.
LEMMA CountingUp ==
  ASSUME NEW n \in Nat, NEW P \in [0 .. n -> BOOLEAN], P[0],
         \A m \in 1 .. n : P[m - 1] => P[m]
  PROVE  \A m \in 0 .. n : P[m]
<1> DEFINE Bad == {m \in 0 .. n : ~P[m]}
<1>1. SUFFICES ASSUME Bad # {} PROVE FALSE
  OBVIOUS
<1>2. PICK m \in Bad : \A l \in Bad : m <= l
  <2>1. Bad \in SUBSET Nat
    OBVIOUS
  <2> HIDE DEF Bad
  <2> QED BY <1>1, <2>1, LeastElement
<1>3. m \in 1 .. n /\ m - 1 \in 0 .. n /\ ~P[m]
  OBVIOUS
<1>4. P[m - 1]
  BY <1>2, <1>3
<1> QED BY <1>3, <1>4

\* The first n applications of F to a, one on top of the other.
Iterated(V, a, F, n, e) ==
  /\ e \in [0 .. n -> V]
  /\ \A m \in 0 .. n : e[m] = IF m = 0 THEN a ELSE F[e[m - 1]]

\* A function on V can be applied n times over.
LEMMA Iterates ==
  ASSUME NEW V, NEW a \in V, NEW F \in [V -> V], NEW n \in Nat
  PROVE  \E e : Iterated(V, a, F, n, e)
<1> DEFINE Upto(m, e) == \A l \in 0 .. m : e[l] = IF l = 0 THEN a ELSE F[e[l - 1]]
           P == [m \in 0 .. n |-> \E e \in [0 .. m -> V] : Upto(m, e)]
<1>1. P[0]
  <2> DEFINE e == [l \in 0 .. 0 |-> a]
  <2>1. e \in [0 .. 0 -> V] /\ Upto(0, e)
    OBVIOUS
  <2>2. \E d \in [0 .. 0 -> V] : Upto(0, d)
    BY <2>1
  <2> HIDE DEF Upto
  <2> QED BY <2>2
<1>2. ASSUME NEW m \in 1 .. n, P[m - 1] PROVE P[m]
  <2>1. PICK d \in [0 .. m - 1 -> V] : Upto(m - 1, d)
    <3> HIDE DEF Upto
    <3> QED BY <1>2
  <2> DEFINE e == [l \in 0 .. m |-> IF l = m THEN F[d[m - 1]] ELSE d[l]]
  <2>2. e \in [0 .. m -> V]
    OBVIOUS
  <2>3. \A l \in 0 .. m : e[l] = IF l = 0 THEN a ELSE F[e[l - 1]]
    <3> TAKE l \in 0 .. m
    <3>1. CASE l = m
      <4>1. l # 0 /\ l - 1 # m /\ l - 1 \in 0 .. m
        BY <3>1
      <4>2. e[l - 1] = d[m - 1] /\ e[l] = F[d[m - 1]]
        BY <3>1, <4>1
      <4> HIDE DEF e
      <4> QED BY <4>1, <4>2
    <3>2. CASE l # m
      <4>1. l \in 0 .. m - 1 /\ e[l] = d[l]
        BY <3>2
      <4>2. l # 0 => l - 1 \in 0 .. m /\ e[l - 1] = d[l - 1]
        BY <4>1
      <4>3. d[l] = IF l = 0 THEN a ELSE F[d[l - 1]]
        BY <2>1, <4>1
      <4> HIDE DEF e
      <4> QED BY <4>1, <4>2, <4>3
    <3> QED BY <3>1, <3>2
  <2>4. \E x \in [0 .. m -> V] : Upto(m, x)
    <3> HIDE DEF e
    <3> QED BY <2>2, <2>3
  <2> HIDE DEF Upto
  <2> QED BY <2>4
<1>3. \A m \in 0 .. n : P[m]
  <2>1. P \in [0 .. n -> BOOLEAN]
    <3> HIDE DEF Upto
    <3> QED OBVIOUS
  <2> HIDE DEF P
  <2> QED BY <1>1, <1>2, <2>1, CountingUp
<1>4. \E e \in [0 .. n -> V] : Upto(n, e)
  <2> HIDE DEF Upto
  <2> QED BY <1>3
<1> QED BY <1>4 DEF Iterated

------------------------------------------------------------------------------
(* Order of the leaves.                                                    *)

\* The leaves of a sound symbol have natural node keys and nonempty sets of
\* keys above them.
LEMMA NodeTypes ==
  ASSUME NEW s \in Symbols, IndexMatches(s), NEW l \in s.live
  PROVE  /\ l \in Leaves
         /\ s.node[l] \in Keys /\ s.node[l] \in Nat
         /\ s.node[l] \in KeysIn(s.recs[l])
         /\ KeysIn(s.recs[l]) \subseteq Keys
         /\ \A k \in KeysIn(s.recs[l]) : s.node[l] <= k
BY KeysAssumption DEF IndexMatches, Symbols, KeysIn

\* Among the leaves of a nonempty set one has the least node key.
LEMMA LowestLeaf ==
  ASSUME NEW s \in Symbols, IndexMatches(s),
         NEW L \in SUBSET s.live, L # {}
  PROVE  \E l \in L : \A m \in L : s.node[l] <= s.node[m]
<1> DEFINE N == {n \in Nat : \E l \in L : n = s.node[l]}
<1>1. \A l \in L : s.node[l] \in N
  BY NodeTypes
<1>2. PICK n \in N : \A i \in N : n <= i
  BY <1>1, LeastElement
<1> QED BY <1>1, <1>2

\* And one has the greatest.
LEMMA HighestLeaf ==
  ASSUME NEW s \in Symbols, IndexMatches(s),
         NEW L \in SUBSET s.live, L # {}
  PROVE  \E l \in L : \A m \in L : s.node[m] <= s.node[l]
<1> DEFINE N == {n \in Keys : \E l \in L : n = s.node[l]}
<1>1. \A l \in L : s.node[l] \in N
  BY NodeTypes
<1>2. N \in SUBSET Nat /\ IsFiniteSet(N) /\ N # {}
  BY <1>1, KeysAssumption, FS_Subset
<1>3. PICK n \in N : \A i \in N : i <= n
  BY <1>2, GreatestElement
<1> QED BY <1>1, <1>3

\* The root's first_leaf is the lowest leaf.
LEMMA FirstIsLowest ==
  ASSUME NEW s \in Symbols, StructureOK(s)
  PROVE  /\ s.live = {} <=> s.first = NoLeaf
         /\ s.live # {} => /\ s.first \in s.live
                           /\ \A m \in s.live : s.node[s.first] <= s.node[m]
<1>1. CASE s.live = {}
  BY <1>1, LeavesAssumption DEF StructureOK, ChainInOrder, Symbols
<1>2. CASE s.live # {}
  <2>1. PICK l \in s.live : \A m \in s.live : s.node[l] <= s.node[m]
    BY <1>2, LowestLeaf DEF StructureOK
  <2>2. s.first = l
    BY <2>1 DEF StructureOK, ChainInOrder
  <2> QED BY <1>2, <2>1, <2>2, LeavesAssumption DEF Symbols
<1> QED BY <1>1, <1>2

\* The root's last_leaf is the highest leaf.
LEMMA LastIsHighest ==
  ASSUME NEW s \in Symbols, StructureOK(s)
  PROVE  /\ s.live = {} <=> s.last = NoLeaf
         /\ s.live # {} => /\ s.last \in s.live
                           /\ \A m \in s.live : s.node[m] <= s.node[s.last]
<1>1. CASE s.live = {}
  BY <1>1, LeavesAssumption DEF StructureOK, ChainInOrder, Symbols
<1>2. CASE s.live # {}
  <2>1. PICK l \in s.live : \A m \in s.live : s.node[m] <= s.node[l]
    BY <1>2, HighestLeaf DEF StructureOK
  <2>2. s.last = l
    BY <2>1 DEF StructureOK, ChainInOrder
  <2> QED BY <1>2, <2>1, <2>2, LeavesAssumption DEF Symbols
<1> QED BY <1>1, <1>2

\* next_leaf of a leaf with leaves above it is the lowest of those.
LEMMA NextIsAbove ==
  ASSUME NEW s \in Symbols, StructureOK(s), NEW l \in s.live, NEW h \in s.live,
         s.node[l] < s.node[h]
  PROVE  /\ s.next[l] \in s.live
         /\ Follows(s, l, s.next[l])
         /\ s.node[s.next[l]] <= s.node[h]
<1> DEFINE Above == {m \in s.live : s.node[l] < s.node[m]}
<1>1. PICK n \in Above : \A m \in Above : s.node[n] <= s.node[m]
  BY LowestLeaf DEF StructureOK
<1>2. Follows(s, l, n)
  BY <1>1, NodeTypes DEF Follows, StructureOK
<1>3. s.next[l] = n
  BY <1>2 DEF StructureOK, ChainInOrder
<1> QED BY <1>1, <1>2, <1>3

\* prev_leaf of a leaf with leaves below it is the highest of those.
LEMMA PrevIsBelow ==
  ASSUME NEW s \in Symbols, StructureOK(s), NEW l \in s.live, NEW h \in s.live,
         s.node[h] < s.node[l]
  PROVE  /\ s.prev[l] \in s.live
         /\ Follows(s, s.prev[l], l)
         /\ s.node[h] <= s.node[s.prev[l]]
<1> DEFINE Below == {m \in s.live : s.node[m] < s.node[l]}
<1>1. PICK n \in Below : \A m \in Below : s.node[m] <= s.node[n]
  BY HighestLeaf DEF StructureOK
<1>2. Follows(s, n, l)
  BY <1>1, NodeTypes DEF Follows, StructureOK
<1>3. s.prev[l] = n
  BY <1>2 DEF StructureOK, ChainInOrder
<1> QED BY <1>1, <1>2, <1>3

------------------------------------------------------------------------------
(* Where a descent lands.                                                  *)

\* In a symbol with leaves a descent ends at the highest leaf whose node key
\* is not above the target, or at the first leaf when there is none.
LEMMA DescendLands ==
  ASSUME NEW s \in Symbols, StructureOK(s), NEW k \in Nat, s.live # {}
  PROVE  /\ Descend(s, k) \in s.live
         /\ \A m \in s.live : s.node[m] <= k => s.node[m] <= s.node[Descend(s, k)]
         /\ \/ s.node[Descend(s, k)] <= k
            \/ \A m \in s.live : k < s.node[m]
<1> DEFINE Below == {l \in s.live : s.node[l] # NoKey /\ s.node[l] <= k}
<1>1. \A m \in s.live : s.node[m] \in Nat /\ s.node[m] # NoKey
  BY NodeTypes DEF StructureOK, NoKey
<1>2. CASE Below = {}
  <2>1. Descend(s, k) = s.first
    BY <1>2 DEF Descend
  <2>2. \A m \in s.live : k < s.node[m]
    BY <1>1, <1>2
  <2> QED BY <2>1, <2>2, <1>1, FirstIsLowest
<1>3. CASE Below # {}
  <2>1. \E l \in Below : \A m \in Below : s.node[m] <= s.node[l]
    BY <1>3, HighestLeaf DEF StructureOK
  <2>2. Descend(s, k) = CHOOSE l \in Below : \A m \in Below : s.node[m] <= s.node[l]
    BY <1>3 DEF Descend
  <2>3. /\ Descend(s, k) \in Below
        /\ \A m \in Below : s.node[m] <= s.node[Descend(s, k)]
    BY <2>1, <2>2
  <2> QED BY <1>1, <2>3
<1> QED BY <1>2, <1>3

\* Without leaves it finds no leaf.
LEMMA DescendNowhere ==
  ASSUME NEW s \in Symbols, StructureOK(s), NEW k \in Nat, s.live = {}
  PROVE  Descend(s, k) = NoLeaf
BY FirstIsLowest DEF Descend

\* A descent to the key of a record ends in the leaf that holds it.
LEMMA DescendFinds ==
  ASSUME NEW s \in Symbols, StructureOK(s), NEW l \in s.live, NEW k \in KeysIn(s.recs[l])
  PROVE  Descend(s, k) = l
<1> DEFINE d == Descend(s, k)
<1>1. k \in Nat /\ s.node[l] <= k
  BY NodeTypes, KeysAssumption DEF StructureOK, KeysIn
<1>2. d \in s.live /\ s.node[l] <= s.node[d] /\ s.node[d] <= k
  BY <1>1, DescendLands, NodeTypes DEF StructureOK
<1>3. s.node[l] \in Nat /\ s.node[d] \in Nat
  BY <1>2, NodeTypes DEF StructureOK
<1>4. ~(s.node[l] < s.node[d])
  BY <1>1, <1>2, <1>3 DEF StructureOK, LeavesApart
<1> QED BY <1>2, <1>3, <1>4 DEF StructureOK, NodesDiffer

\* In a sound symbol every record is found.
LEMMA GetIsExact ==
  ASSUME NEW s \in Symbols, StructureOK(s), NEW k \in Keys
  PROVE  Get(s, k) = Contents(s)[k]
<1>1. k \in Nat
  BY KeysAssumption
<1>2. CASE Holders(s, k) = {}
  <2>1. ~Holds(s, Descend(s, k), k)
    BY <1>1, <1>2, DescendLands, DescendNowhere DEF Holds, Holders
  <2> QED BY <1>2, <2>1 DEF Get, Contents
<1>3. CASE Holders(s, k) # {}
  <2> DEFINE l == CHOOSE x \in Holders(s, k) : TRUE
  <2>1. l \in s.live /\ k \in KeysIn(s.recs[l])
    BY <1>3 DEF Holders
  <2>2. Descend(s, k) = l
    BY <2>1, DescendFinds
  <2>3. l # NoLeaf
    BY <2>1, LeavesAssumption DEF Symbols
  <2>4. Contents(s)[k] = s.recs[l][k]
    BY <1>3 DEF Contents
  <2>5. Get(s, k) = s.recs[l][k]
    BY <2>1, <2>2, <2>3 DEF Get, Holds
  <2> QED BY <2>4, <2>5
<1> QED BY <1>2, <1>3

------------------------------------------------------------------------------
(* Types of what the operations compute.                                   *)

\* The times of keys, and the keys at which times start, are naturals.
LEMMA TimesAreNat ==
  /\ \A k \in Keys : TimeOf(k) \in Nat
  /\ Times \subseteq Nat
  /\ \A t \in Times : StartOf(t) \in Nat
BY KeysAssumption, SpanAssumption DEF TimeOf, Times, StartOf

\* A set of keys has a least and, being finite, a greatest one.
LEMMA KeySetEnds ==
  ASSUME NEW S \in SUBSET Keys, S # {}
  PROVE  /\ Min(S) \in S /\ \A k \in S : Min(S) <= k
         /\ Max(S) \in S /\ \A k \in S : k <= Max(S)
<1>1. IsFiniteSet(S) /\ S \in SUBSET Nat
  BY KeysAssumption, FS_Subset
<1>2. \E x \in S : \A y \in S : x <= y
  BY <1>1, LeastElement
<1>3. \E x \in S : \A y \in S : y <= x
  BY <1>1, GreatestElement
<1>4. Min(S) \in S /\ \A k \in S : Min(S) <= k
  BY <1>2 DEF Min
<1>5. Max(S) \in S /\ \A k \in S : k <= Max(S)
  <2>1. \E x \in S : \A y \in S : x >= y
    BY <1>1, <1>3
  <2>2. Max(S) \in S /\ \A k \in S : Max(S) >= k
    BY <2>1 DEF Max
  <2> QED BY <1>1, <2>2
<1> QED BY <1>4, <1>5

\* A record of n bytes.
LEMMA RecordBytes ==
  ASSUME NEW k, NEW n \in Nat
  PROVE  IsFiniteSet({k} \X (1 .. n)) /\ Cardinality({k} \X (1 .. n)) = n
<1>1. IsFiniteSet({k}) /\ Cardinality({k}) = 1
  BY FS_Singleton
<1>2. IsFiniteSet(1 .. n) /\ Cardinality(1 .. n) = n
  BY FS_Interval
<1>3. /\ IsFiniteSet({k} \X (1 .. n))
      /\ Cardinality({k} \X (1 .. n)) = Cardinality({k}) * Cardinality(1 .. n)
  BY <1>1, <1>2, FS_Product
<1> QED BY <1>1, <1>2, <1>3

\* The bytes of a leaf are finitely many, those of its records.
LEMMA BytesAre ==
  ASSUME NEW m \in Maps
  PROVE  /\ IsFiniteSet(Bytes(m)) /\ Cardinality(Bytes(m)) \in Nat
         /\ \A b : b \in Bytes(m) <=>
              \E k \in KeysIn(m) : \E i \in 1 .. SlotSize + Size[m[k]] : b = <<k, i>>
<1> DEFINE K == KeysIn(m)
           Of(k) == {k} \X (1 .. SlotSize + Size[m[k]])
           F == [k \in K |-> Of(k)]
           T == {Of(k) : k \in K}
<1>1. IsFiniteSet(K)
  BY KeysAssumption, FS_Subset DEF KeysIn
<1>2. F \in Surjection(K, T)
  BY DEF Surjection
<1>3. IsFiniteSet(T)
  BY <1>1, <1>2, FS_Surjection
<1>4. \A k \in K : IsFiniteSet(Of(k))
  <2> TAKE k \in K
  <2>1. SlotSize + Size[m[k]] \in Nat
    BY ValsAssumption, LayoutAssumption DEF Maps, KeysIn
  <2> QED BY <2>1, RecordBytes
<1>5. IsFiniteSet(UNION T)
  BY <1>3, <1>4, FS_UNION
<1>6. Bytes(m) = UNION T
  BY DEF Bytes
<1>7. Cardinality(Bytes(m)) \in Nat
  BY <1>5, <1>6, FS_CardinalityType
<1>8. \A b : b \in Bytes(m) <=>
        \E k \in K : \E i \in 1 .. SlotSize + Size[m[k]] : b = <<k, i>>
  BY DEF Bytes
<1> QED BY <1>5, <1>6, <1>7, <1>8

\* The records of a leaf compact to a natural number of bytes.
LEMMA CompactedIsNat ==
  ASSUME NEW m \in Maps
  PROVE  Compacted(m) \in Nat
BY BytesAre DEF Compacted

\* The two times of a leaf header are naturals (leaf_refresh_bounds).
LEMMA HeaderTypes ==
  ASSUME NEW m \in Maps
  PROVE  HeaderMin(m) \in Nat /\ HeaderMax(m) \in Nat
<1>1. KeysIn(m) \in SUBSET Keys
  BY DEF KeysIn
<1>2. KeysIn(m) # {} => Min(KeysIn(m)) \in Keys /\ Max(KeysIn(m)) \in Keys
  BY <1>1, KeySetEnds
<1> QED BY <1>2, TimesAreNat, LayoutAssumption DEF HeaderMin, HeaderMax

\* Leaving out records of a leaf gives the records of a leaf.
LEMMA OnlyTypes ==
  ASSUME NEW m \in Maps, NEW S \in SUBSET Keys
  PROVE  Only(m, S) \in Maps /\ KeysIn(Only(m, S)) = KeysIn(m) \cap S
BY DEF Only, Maps, KeysIn

\* So do no records at all.
LEMMA NoRecordsTypes ==
  NoRecords \in Maps /\ KeysIn(NoRecords) = {}
BY DEF NoRecords, Maps, KeysIn

\* Putting a record into a leaf adds its key and no other.
LEMMA WithRecordTypes ==
  ASSUME NEW m \in Maps, NEW k \in Keys, NEW v \in Vals
  PROVE  /\ [m EXCEPT ![k] = v] \in Maps
         /\ KeysIn([m EXCEPT ![k] = v]) = KeysIn(m) \cup {k}
BY ValsAssumption DEF Maps, KeysIn

\* A new leaf with one record holds that key alone.
LEMMA LoneRecordTypes ==
  ASSUME NEW k \in Keys, NEW v \in Vals
  PROVE  /\ [NoRecords EXCEPT ![k] = v] \in Maps
         /\ KeysIn([NoRecords EXCEPT ![k] = v]) = {k}
<1>1. NoRecords \in Maps /\ KeysIn(NoRecords) = {}
  BY NoRecordsTypes
<1>2. KeysIn([NoRecords EXCEPT ![k] = v]) = KeysIn(NoRecords) \cup {k}
  BY <1>1, WithRecordTypes
<1> QED BY <1>1, <1>2, WithRecordTypes

\* leaf_upsert leaves a natural number of bytes in use.
LEMMA UsedAfterIsNat ==
  ASSUME NEW m \in Maps, NEW u \in Nat, NEW k \in Keys, NEW v \in Vals
  PROVE  UsedAfter(m, u, k, v) \in Nat
BY ValsAssumption, LayoutAssumption DEF UsedAfter

\* The index and the chain of t are those of s.
SameIndex(s, t) ==
  /\ t.live = s.live /\ t.node = s.node
  /\ t.next = s.next /\ t.prev = s.prev
  /\ t.first = s.first /\ t.last = s.last

\* The counters change and nothing else.
LEMMA CountedTypes ==
  ASSUME NEW s \in Symbols, NEW k \in Keys
  PROVE  /\ Counted(s, k) \in Symbols
         /\ SameIndex(s, Counted(s, k))
         /\ Counted(s, k).recs = s.recs
<1>1. TimeOf(k) \in Nat
  BY TimesAreNat
<1> DEFINE lowest == IF TimeOf(k) < s.minTime THEN TimeOf(k) ELSE s.minTime
           highest == IF TimeOf(k) > s.maxTime THEN TimeOf(k) ELSE s.maxTime
<1>2. Counted(s, k) = [s EXCEPT !.count = s.count + 1, !.minTime = lowest,
                                !.maxTime = highest]
  BY DEF Counted
<1>3. s.count + 1 \in Nat /\ lowest \in Nat /\ highest \in Nat
  BY <1>1 DEF Symbols
<1> HIDE DEF lowest, highest
<1> QED BY <1>2, <1>3 DEF Symbols, SameIndex

------------------------------------------------------------------------------
(* symbol_insert keeps the structure.                                      *)

\* Order of chain and nodes is a matter of index and chain alone.
LEMMA ChainOfSameIndex ==
  ASSUME NEW s, NEW t, SameIndex(s, t), ChainInOrder(s), NodesDiffer(s)
  PROVE  ChainInOrder(t) /\ NodesDiffer(t)
BY DEF SameIndex, ChainInOrder, NodesDiffer, Follows

\* A record put into a leaf whose range its key lies in.
LEMMA PutInLeafSound ==
  ASSUME NEW s \in Symbols, StructureOK(s), NEW l \in s.live,
         NEW k \in Keys, NEW v \in Vals,
         s.node[l] <= k,
         \A m \in s.live : s.node[l] < s.node[m] => k < s.node[m]
  PROVE  LET t == PutInLeaf(s, l, k, v)
         IN  t \in Symbols /\ StructureOK(t) /\ t.live = s.live
<1> DEFINE t == PutInLeaf(s, l, k, v)
           records == [s.recs[l] EXCEPT ![k] = v]
           bytes == UsedAfter(s.recs[l], s.used[l], k, v)
           filled == [s EXCEPT !.recs[l] = records, !.used[l] = bytes]
<1>1. l \in Leaves /\ s.recs[l] \in Maps /\ s.used[l] \in Nat
  BY DEF Symbols
<1>2. records \in Maps /\ KeysIn(records) = KeysIn(s.recs[l]) \cup {k}
  BY <1>1, WithRecordTypes
<1>3. bytes \in Nat
  BY <1>1, UsedAfterIsNat
<1>4. /\ filled \in Symbols
      /\ SameIndex(s, filled)
      /\ filled.recs = [s.recs EXCEPT ![l] = records]
  <2> HIDE DEF records, bytes
  <2> QED BY <1>1, <1>2, <1>3 DEF Symbols, SameIndex
<1>5. t = filled \/ t = Counted(filled, k)
  BY DEF PutInLeaf
<1>6. /\ t \in Symbols
      /\ SameIndex(s, t)
      /\ t.recs = [s.recs EXCEPT ![l] = records]
  <2> HIDE DEF filled, t
  <2>1. CASE t = filled
    BY <2>1, <1>4
  <2>2. CASE t = Counted(filled, k)
    BY <2>2, <1>4, CountedTypes DEF SameIndex
  <2> QED BY <1>5, <2>1, <2>2
<1> HIDE DEF t, filled, bytes, records
<1>7. ChainInOrder(t) /\ NodesDiffer(t)
  BY <1>6, ChainOfSameIndex DEF StructureOK
<1>8. s.recs \in [Leaves -> Maps] /\ s.live \subseteq Leaves
  BY DEF Symbols
<1>9. \A m \in Leaves : KeysIn(t.recs[m]) = IF m = l THEN KeysIn(s.recs[l]) \cup {k}
                                            ELSE KeysIn(s.recs[m])
  BY <1>2, <1>6, <1>8
<1>10. IndexMatches(t)
  <2> SUFFICES ASSUME NEW m \in Leaves
               PROVE  IF m \in t.live
                      THEN /\ t.node[m] \in KeysIn(t.recs[m])
                           /\ \A j \in KeysIn(t.recs[m]) : t.node[m] <= j
                      ELSE t.node[m] = NoKey /\ KeysIn(t.recs[m]) = {}
    BY DEF IndexMatches
  <2>1. t.live = s.live /\ t.node = s.node
    BY <1>6 DEF SameIndex
  <2> QED BY <2>1, <1>9 DEF StructureOK, IndexMatches
<1>11. LeavesApart(t)
  <2> SUFFICES ASSUME NEW a \in t.live, NEW b \in t.live, t.node[a] < t.node[b],
                      NEW j \in KeysIn(t.recs[a])
               PROVE  j < t.node[b]
    BY DEF LeavesApart
  <2>1. t.live = s.live /\ t.node = s.node
    BY <1>6 DEF SameIndex
  <2> QED BY <2>1, <1>8, <1>9 DEF StructureOK, LeavesApart
<1> QED BY <1>6, <1>7, <1>10, <1>11 DEF StructureOK, SameIndex, t

\* t is s with leaf p linked in right above leaf l under node key b.
LinkedAbove(s, t, l, p, b) ==
  /\ t.live = s.live \cup {p}
  /\ t.next = [s.next EXCEPT ![l] = p, ![p] = s.next[l]]
  /\ t.prev = [x \in Leaves |-> IF x = p THEN l
                                ELSE IF x = s.next[l] THEN p ELSE s.prev[x]]
  /\ t.node = [s.node EXCEPT ![p] = b]
  /\ t.first = s.first
  /\ t.last = IF s.last = l THEN p ELSE s.last

\* A leaf linked in between its neighbours leaves the chain in order.
LEMMA LinkedAboveSound ==
  ASSUME NEW s \in Symbols, StructureOK(s), NEW t,
         NEW l \in s.live, NEW p \in Leaves \ s.live, NEW b \in Keys,
         LinkedAbove(s, t, l, p, b),
         s.node[l] < b,
         \A m \in s.live : s.node[l] < s.node[m] => b < s.node[m]
  PROVE  ChainInOrder(t) /\ NodesDiffer(t)
<1>1. /\ s.live \subseteq Leaves /\ p # NoLeaf /\ NoLeaf \notin s.live /\ b \in Nat
      /\ s.next \in [Leaves -> Leaves \cup {NoLeaf}]
      /\ s.prev \in [Leaves -> Leaves \cup {NoLeaf}]
      /\ s.node \in [Leaves -> Keys \cup {NoKey}]
      /\ p \notin s.live /\ p \in Leaves
  BY LeavesAssumption, KeysAssumption DEF Symbols
<1>2. \A m \in s.live : s.node[m] \in Nat
  BY NodeTypes DEF StructureOK
<1>3. \A m \in s.live : m # l => s.node[m] < s.node[l] \/ b < s.node[m]
  BY <1>2 DEF StructureOK, NodesDiffer
<1>4. /\ \A m \in s.live : t.node[m] = s.node[m]
      /\ t.node[p] = b
      /\ t.live = s.live \cup {p}
  BY <1>1 DEF LinkedAbove
<1>5. NodesDiffer(t)
  BY <1>1, <1>2, <1>3, <1>4 DEF NodesDiffer, StructureOK
<1>6. \A m \in t.live : Follows(t, l, m) <=> m = p
  BY <1>1, <1>2, <1>3, <1>4 DEF Follows
<1>7. \A m \in t.live : Follows(t, m, p) <=> m = l
  BY <1>1, <1>2, <1>3, <1>4 DEF Follows
<1>8. \A m \in s.live : Follows(t, p, m) <=> Follows(s, l, m)
  BY <1>1, <1>2, <1>3, <1>4 DEF Follows
<1>9. \A a, m \in s.live : a # l => (Follows(t, a, m) <=> Follows(s, a, m))
  BY <1>1, <1>2, <1>3, <1>4 DEF Follows
<1>10. /\ t.next[l] = p /\ t.next[p] = s.next[l] /\ t.prev[p] = l
       /\ \A m \in s.live : m # l => t.next[m] = s.next[m]
       /\ \A m \in s.live : t.prev[m] = IF m = s.next[l] THEN p ELSE s.prev[m]
  BY <1>1 DEF LinkedAbove
<1>11. \A a, m \in s.live : /\ s.next[a] = m <=> Follows(s, a, m)
                            /\ s.prev[m] = a <=> Follows(s, a, m)
  BY DEF StructureOK, ChainInOrder
<1>12. \A a, m \in t.live : t.next[a] = m <=> Follows(t, a, m)
  <2> SUFFICES ASSUME NEW a \in t.live, NEW m \in t.live
               PROVE  t.next[a] = m <=> Follows(t, a, m)
    OBVIOUS
  <2>1. CASE a = l
    BY <2>1, <1>6, <1>10
  <2>2. CASE a = p /\ m = p
    BY <2>2, <1>1, <1>2, <1>4, <1>7, <1>10, NextIsAbove DEF StructureOK, ChainInOrder
  <2>3. CASE a = p /\ m # p
    BY <2>3, <1>4, <1>8, <1>10, <1>11
  <2>4. CASE a # l /\ a # p /\ m = p
    BY <2>4, <1>1, <1>4, <1>7, <1>10 DEF StructureOK, ChainInOrder
  <2>5. CASE a # l /\ a # p /\ m # p
    BY <2>5, <1>4, <1>9, <1>10, <1>11
  <2> QED BY <2>1, <2>2, <2>3, <2>4, <2>5
<1>13. \A a, m \in t.live : t.prev[m] = a <=> Follows(t, a, m)
  <2> SUFFICES ASSUME NEW a \in t.live, NEW m \in t.live
               PROVE  t.prev[m] = a <=> Follows(t, a, m)
    OBVIOUS
  <2>1. CASE m = p
    BY <2>1, <1>7, <1>10
  <2>2. CASE m # p /\ a = p
    BY <2>2, <1>1, <1>4, <1>8, <1>10, <1>11 DEF StructureOK, ChainInOrder
  <2>3. CASE m # p /\ a = l
    BY <2>3, <1>1, <1>4, <1>6, <1>10, <1>11
  <2>4. CASE m # p /\ a # p /\ a # l
    BY <2>4, <1>1, <1>4, <1>9, <1>10, <1>11
  <2> QED BY <2>1, <2>2, <2>3, <2>4
<1>14. \A m \in t.live : t.next[m] \in t.live \cup {NoLeaf}
                         /\ t.prev[m] \in t.live \cup {NoLeaf}
  BY <1>4, <1>10 DEF StructureOK, ChainInOrder
<1>15. \A m \in t.live : t.first = m <=> \A x \in t.live : t.node[m] <= t.node[x]
  <2>1. s.first \in s.live /\ \A m \in s.live : s.node[s.first] <= s.node[m]
    BY FirstIsLowest
  <2> QED BY <2>1, <1>1, <1>2, <1>3, <1>4, <1>5 DEF LinkedAbove, NodesDiffer
<1>16. \A m \in t.live : t.last = m <=> \A x \in t.live : t.node[x] <= t.node[m]
  <2>1. s.last \in s.live /\ \A m \in s.live : s.node[m] <= s.node[s.last]
    BY LastIsHighest
  <2>2. CASE s.last = l
    <3>1. \A x \in t.live : t.node[x] <= t.node[p]
      BY <2>1, <2>2, <1>1, <1>2, <1>3, <1>4
    <3> QED BY <2>2, <3>1, <1>1, <1>2, <1>4, <1>5 DEF LinkedAbove, NodesDiffer
  <2>3. CASE s.last # l
    <3>1. s.node[l] < s.node[s.last]
      BY <2>1, <2>3, <1>2 DEF StructureOK, NodesDiffer
    <3>2. \A x \in t.live : t.node[x] <= t.node[s.last]
      BY <2>1, <3>1, <1>1, <1>2, <1>4
    <3> QED BY <2>1, <2>3, <3>2, <1>1, <1>2, <1>4, <1>5 DEF LinkedAbove, NodesDiffer
  <2> QED BY <2>2, <2>3
<1>17. t.first \in t.live \cup {NoLeaf} /\ t.last \in t.live \cup {NoLeaf}
  BY <1>4 DEF LinkedAbove, StructureOK, ChainInOrder
<1> QED BY <1>5, <1>12, <1>13, <1>14, <1>15, <1>16, <1>17 DEF ChainInOrder

\* The first leaf of a symbol that has none.
LEMMA FirstLeafSound ==
  ASSUME NEW s \in Symbols, StructureOK(s), s.first = NoLeaf,
         NEW p \in Leaves \ s.live, NEW k \in Keys, NEW v \in Vals
  PROVE  LET t == FirstLeaf(s, p, k, v) IN t \in Symbols /\ StructureOK(t)
<1> DEFINE t == FirstLeaf(s, p, k, v)
           records == [NoRecords EXCEPT ![k] = v]
           bytes == UsedAfter(NoRecords, 0, k, v)
<1>1. s.live = {}
  BY FirstIsLowest
<1>2. records \in Maps /\ KeysIn(records) = {k} /\ bytes \in Nat
  BY NoRecordsTypes, LoneRecordTypes, UsedAfterIsNat
<1>3. t = [live |-> s.live \cup {p}, recs |-> [s.recs EXCEPT ![p] = records],
           used |-> [s.used EXCEPT ![p] = bytes],
           next |-> [s.next EXCEPT ![p] = NoLeaf], prev |-> [s.prev EXCEPT ![p] = NoLeaf],
           node |-> [s.node EXCEPT ![p] = k], first |-> p, last |-> p,
           leaves |-> 1, count |-> 1, minTime |-> TimeOf(k), maxTime |-> TimeOf(k)]
  BY DEF FirstLeaf
<1>4. TimeOf(k) \in Nat /\ k \in Nat /\ NoLeaf \notin Leaves
  BY TimesAreNat, KeysAssumption, LeavesAssumption
<1> HIDE DEF records, bytes, t
<1>5. t \in Symbols
  BY <1>2, <1>3, <1>4 DEF Symbols
<1>6. /\ t.live = {p} /\ t.first = p /\ t.last = p
      /\ t.node[p] = k /\ t.next[p] = NoLeaf /\ t.prev[p] = NoLeaf
      /\ KeysIn(t.recs[p]) = {k}
  BY <1>1, <1>2, <1>3 DEF Symbols
<1>7. \A m \in Leaves : m # p => t.recs[m] = s.recs[m] /\ t.node[m] = s.node[m]
  BY <1>3 DEF Symbols
<1>8. IndexMatches(t)
  BY <1>1, <1>4, <1>6, <1>7 DEF IndexMatches, StructureOK
<1>9. LeavesApart(t) /\ NodesDiffer(t) /\ ChainInOrder(t)
  BY <1>4, <1>6 DEF LeavesApart, NodesDiffer, ChainInOrder, Follows
<1> QED BY <1>5, <1>8, <1>9 DEF StructureOK, t

\* A new tail leaf behind the last one.
LEMMA NewTailSound ==
  ASSUME NEW s \in Symbols, StructureOK(s), NEW l \in s.live, s.next[l] = NoLeaf,
         NEW p \in Leaves \ s.live, NEW k \in Keys, NEW v \in Vals,
         \A j \in KeysIn(s.recs[l]) : j < k
  PROVE  LET t == NewTail(s, l, p, k, v) IN t \in Symbols /\ StructureOK(t)
<1> DEFINE t == NewTail(s, l, p, k, v)
           records == [NoRecords EXCEPT ![k] = v]
           bytes == UsedAfter(NoRecords, 0, k, v)
           linked == [s EXCEPT !.live = s.live \cup {p},
                               !.recs[p] = records,
                               !.used[p] = bytes,
                               !.prev[p] = l,
                               !.next = [s.next EXCEPT ![l] = p, ![p] = NoLeaf],
                               !.node[p] = k,
                               !.last = p,
                               !.leaves = s.leaves + 1]
<1>1. /\ l \in Leaves /\ p \in Leaves /\ p \notin s.live /\ k \in Nat
      /\ s.recs \in [Leaves -> Maps]
      /\ NoLeaf \notin s.live /\ NoLeaf \notin Leaves
  BY LeavesAssumption, KeysAssumption DEF Symbols
<1>2. records \in Maps /\ KeysIn(records) = {k} /\ bytes \in Nat
  BY NoRecordsTypes, LoneRecordTypes, UsedAfterIsNat
<1>3. t = Counted(linked, k)
  BY DEF NewTail
<1> HIDE DEF records, bytes
<1>4. linked \in Symbols
  <2>1. /\ [s.recs EXCEPT ![p] = records] \in [Leaves -> Maps]
        /\ [s.used EXCEPT ![p] = bytes] \in [Leaves -> Nat]
        /\ [s.prev EXCEPT ![p] = l] \in [Leaves -> Leaves \cup {NoLeaf}]
        /\ [s.next EXCEPT ![l] = p, ![p] = NoLeaf] \in [Leaves -> Leaves \cup {NoLeaf}]
        /\ [s.node EXCEPT ![p] = k] \in [Leaves -> Keys \cup {NoKey}]
        /\ s.live \cup {p} \in SUBSET Leaves /\ s.leaves + 1 \in Nat
    BY <1>1, <1>2 DEF Symbols
  <2> QED BY <2>1, <1>1 DEF Symbols
<1>5. \A m \in s.live : s.node[m] \in Nat /\ s.node[m] <= s.node[l]
  <2>1. \A m \in s.live : s.node[m] \in Nat
    BY NodeTypes DEF StructureOK
  <2>2. \A m \in s.live : ~(s.node[l] < s.node[m])
    BY <1>1, NextIsAbove
  <2> QED BY <2>1, <2>2
<1>6. s.node[l] < k
  BY NodeTypes DEF StructureOK
<1>7. s.last = l
  BY <1>5 DEF StructureOK, ChainInOrder
<1>8. LinkedAbove(s, linked, l, p, k)
  BY <1>1, <1>7 DEF LinkedAbove, Symbols
<1>9. linked.recs = [s.recs EXCEPT ![p] = records]
  BY DEF Symbols
<1> HIDE DEF linked, t
<1>10. /\ t \in Symbols
       /\ SameIndex(linked, t)
       /\ t.recs = [s.recs EXCEPT ![p] = records]
  BY <1>3, <1>4, <1>9, CountedTypes
<1>11. ChainInOrder(t) /\ NodesDiffer(t)
  BY <1>5, <1>6, <1>8, <1>10, LinkedAboveSound, ChainOfSameIndex
<1>12. \A m \in Leaves : KeysIn(t.recs[m]) = IF m = p THEN {k} ELSE KeysIn(s.recs[m])
  BY <1>1, <1>2, <1>10
<1>13. /\ t.live = s.live \cup {p}
       /\ \A m \in Leaves : t.node[m] = IF m = p THEN k ELSE s.node[m]
  BY <1>8, <1>10 DEF SameIndex, LinkedAbove, Symbols
<1>14. IndexMatches(t)
  BY <1>1, <1>12, <1>13 DEF IndexMatches, StructureOK
<1>15. LeavesApart(t)
  <2> SUFFICES ASSUME NEW a \in t.live, NEW b \in t.live, t.node[a] < t.node[b],
                      NEW j \in KeysIn(t.recs[a])
               PROVE  j < t.node[b]
    BY DEF LeavesApart
  <2>1. s.live \subseteq Leaves
    BY DEF Symbols
  <2>2. CASE a = p
    BY <2>1, <2>2, <1>1, <1>5, <1>6, <1>13
  <2>3. CASE a # p /\ b # p
    BY <2>1, <2>3, <1>12, <1>13 DEF StructureOK, LeavesApart
  <2>4. CASE a # p /\ b = p
    <3>1. j \in KeysIn(s.recs[a]) /\ a \in s.live /\ t.node[b] = k
      BY <2>1, <2>4, <1>1, <1>12, <1>13
    <3>2. CASE a = l
      BY <3>1, <3>2
    <3>3. CASE a # l
      <4>1. s.node[a] < s.node[l]
        BY <3>1, <3>3, <1>5 DEF StructureOK, NodesDiffer
      <4>2. j < s.node[l] /\ j \in Nat
        BY <3>1, <4>1, NodeTypes, KeysAssumption DEF StructureOK, LeavesApart
      <4> QED BY <3>1, <4>2, <1>1, <1>5, <1>6
    <3> QED BY <3>2, <3>3
  <2> QED BY <2>2, <2>3, <2>4
<1> QED BY <1>10, <1>11, <1>14, <1>15 DEF StructureOK, t

\* leaf_split cuts the records of a leaf into a lower and an upper half, and
\* the upper half of a leaf with records is never empty.
LEMMA HalvesApart ==
  ASSUME NEW m \in Maps, KeysIn(m) # {}
  PROVE  /\ Upper(m) # {}
         /\ Upper(m) \subseteq KeysIn(m) /\ Lower(m) \subseteq KeysIn(m)
         /\ Upper(m) \cup Lower(m) = KeysIn(m)
         /\ \A a \in Lower(m), b \in Upper(m) : a < b
<1> DEFINE K == KeysIn(m)
           Rank(k) == Cardinality({j \in K : j < k})
<1>1. K \in SUBSET Keys /\ K \in SUBSET Nat /\ IsFiniteSet(K)
  BY KeysAssumption, FS_Subset DEF KeysIn
<1>2. Cardinality(K) \in Nat /\ Cardinality(K) # 0
  BY <1>1, FS_CardinalityType, FS_EmptySet
<1>3. \A k \in K : IsFiniteSet({j \in K : j < k}) /\ Rank(k) \in Nat
  BY <1>1, FS_Subset, FS_CardinalityType
<1>4. Upper(m) = {k \in K : Rank(k) >= Cardinality(K) \div 2}
  BY DEF Upper
<1>5. Upper(m) # {}
  <2>1. Max(K) \in K /\ \A k \in K : k <= Max(K)
    BY <1>1, KeySetEnds
  <2>2. {j \in K : j < Max(K)} = K \ {Max(K)}
    BY <2>1, <1>1
  <2>3. Rank(Max(K)) = Cardinality(K \ {Max(K)})
    BY <2>2
  <2>4. Cardinality(K \ {Max(K)}) = Cardinality(K) - 1
    <3>1. IsFiniteSet(K) /\ Max(K) \in K
      BY <1>1, <2>1
    <3> HIDE DEF K
    <3> QED BY <3>1, FS_RemoveElement
  <2>5. Cardinality(K) - 1 >= Cardinality(K) \div 2
    BY <1>2
  <2> QED BY <2>1, <2>3, <2>4, <2>5, <1>4
<1>6. Lower(m) = K \ Upper(m) /\ Upper(m) \subseteq K
  BY <1>4 DEF Lower
<1>7. ASSUME NEW a \in Lower(m), NEW b \in Upper(m) PROVE a < b
  <2>1. a \in K /\ b \in K /\ a # b /\ a \in Nat /\ b \in Nat
    BY <1>1, <1>6, <1>7
  <2>2. SUFFICES ASSUME b < a PROVE FALSE
    BY <2>1
  <2>3. {j \in K : j < b} \subseteq {j \in K : j < a}
    BY <2>1, <2>2, <1>1
  <2>4. Rank(b) <= Rank(a)
    BY <2>1, <2>3, <1>3, FS_Subset
  <2>5. Rank(a) \in Nat /\ Rank(b) \in Nat /\ Cardinality(K) \div 2 \in Nat
    BY <2>1, <1>2, <1>3
  <2> HIDE DEF Rank, K
  <2>6. Rank(a) >= Cardinality(K) \div 2
    BY <2>4, <2>5, <1>4, <1>7
  <2> QED BY <2>1, <2>6, <1>4, <1>6, <1>7
<1> QED BY <1>5, <1>6, <1>7

\* leaf_split of a leaf whose lower half is not empty.
LEMMA SplitSound ==
  ASSUME NEW s \in Symbols, StructureOK(s), NEW l \in s.live,
         NEW p \in Leaves \ s.live, Lower(s.recs[l]) # {}
  PROVE  LET t == Split(s, l, p)
         IN  /\ t \in Symbols /\ StructureOK(t)
             /\ t.live = s.live \cup {p}
             /\ t.node[l] = s.node[l]
             /\ t.node[p] = Min(Upper(s.recs[l]))
             /\ \A m \in s.live : t.node[m] = s.node[m]
<1> DEFINE t == Split(s, l, p)
           low == Only(s.recs[l], Lower(s.recs[l]))
           high == Only(s.recs[l], Upper(s.recs[l]))
           b == Min(Upper(s.recs[l]))
           nexts == [s.next EXCEPT ![l] = p, ![p] = s.next[l]]
           prevs == [x \in Leaves |-> IF x = p THEN l
                                      ELSE IF x = s.next[l] THEN p ELSE s.prev[x]]
           end == IF s.last = l THEN p ELSE s.last
           recs == [s.recs EXCEPT ![l] = low, ![p] = high]
           used == [s.used EXCEPT ![l] = Compacted(low), ![p] = Compacted(high)]
<1>1. /\ l \in Leaves /\ p \in Leaves /\ p \notin s.live /\ p # l
      /\ s.live \subseteq Leaves
      /\ s.recs \in [Leaves -> Maps] /\ s.recs[l] \in Maps
      /\ NoLeaf \notin s.live /\ NoLeaf \notin Leaves
  BY LeavesAssumption DEF Symbols
<1>2. /\ Lower(s.recs[l]) \subseteq KeysIn(s.recs[l])
      /\ Upper(s.recs[l]) \subseteq KeysIn(s.recs[l])
      /\ Upper(s.recs[l]) # {}
      /\ Upper(s.recs[l]) \cup Lower(s.recs[l]) = KeysIn(s.recs[l])
      /\ \A i \in Lower(s.recs[l]), j \in Upper(s.recs[l]) : i < j
  BY <1>1, HalvesApart DEF Lower
<1>3. KeysIn(s.recs[l]) \in SUBSET Keys /\ Keys \subseteq Nat
  BY KeysAssumption DEF KeysIn
<1>4. b \in Upper(s.recs[l]) /\ \A j \in Upper(s.recs[l]) : b <= j
  BY <1>2, <1>3, KeySetEnds
<1>5. b \in KeysIn(s.recs[l]) /\ b \in Nat
  BY <1>2, <1>3, <1>4
<1>6. /\ low \in Maps /\ KeysIn(low) = Lower(s.recs[l])
      /\ high \in Maps /\ KeysIn(high) = Upper(s.recs[l])
  <2> DEFINE m == s.recs[l]
  <2>1. /\ m \in Maps /\ Lower(m) \in SUBSET Keys /\ Upper(m) \in SUBSET Keys
        /\ KeysIn(m) \cap Lower(m) = Lower(m) /\ KeysIn(m) \cap Upper(m) = Upper(m)
    BY <1>1, <1>2, <1>3
  <2>2. \A S \in SUBSET Keys : Only(m, S) \in Maps /\ KeysIn(Only(m, S)) = KeysIn(m) \cap S
    BY <2>1, OnlyTypes
  <2>3. low = Only(m, Lower(m)) /\ high = Only(m, Upper(m))
    OBVIOUS
  <2>4. low \in Maps /\ KeysIn(low) = Lower(m)
    BY <2>1, <2>2, <2>3
  <2>5. high \in Maps /\ KeysIn(high) = Upper(m)
    BY <2>1, <2>2, <2>3
  <2> QED BY <2>4, <2>5
<1>7. Compacted(low) \in Nat /\ Compacted(high) \in Nat
  BY <1>6, CompactedIsNat
<1>8. /\ recs \in [Leaves -> Maps] /\ used \in [Leaves -> Nat]
      /\ nexts \in [Leaves -> Leaves \cup {NoLeaf}]
      /\ prevs \in [Leaves -> Leaves \cup {NoLeaf}]
      /\ [s.node EXCEPT ![p] = b] \in [Leaves -> Keys \cup {NoKey}]
      /\ s.live \cup {p} \in SUBSET Leaves /\ s.leaves + 1 \in Nat
      /\ end \in Leaves \cup {NoLeaf}
  <2>1. b \in Keys
    BY <1>2, <1>3, <1>4
  <2> HIDE DEF low, high, b
  <2> QED BY <2>1, <1>1, <1>6, <1>7 DEF Symbols
<1>9. t = [s EXCEPT !.live = s.live \cup {p}, !.recs = recs, !.used = used,
                    !.next = nexts, !.prev = prevs,
                    !.node = [s.node EXCEPT ![p] = b],
                    !.last = end, !.leaves = s.leaves + 1]
  BY DEF Split, Symbols
<1> HIDE DEF t, recs, used, nexts, prevs, end, b, low, high
<1>10. t \in Symbols
  BY <1>8, <1>9 DEF Symbols
<1>11. /\ t.live = s.live \cup {p} /\ t.recs = recs /\ t.next = nexts /\ t.prev = prevs
       /\ t.node = [s.node EXCEPT ![p] = b] /\ t.first = s.first /\ t.last = end
  BY <1>9 DEF Symbols
<1>12. LinkedAbove(s, t, l, p, b)
  BY <1>11 DEF LinkedAbove, nexts, prevs, end
<1>13. /\ \A m \in Leaves : t.node[m] = IF m = p THEN b ELSE s.node[m]
       /\ \A m \in Leaves : KeysIn(t.recs[m]) = IF m = p THEN Upper(s.recs[l])
                                                ELSE IF m = l THEN Lower(s.recs[l])
                                                ELSE KeysIn(s.recs[m])
  BY <1>1, <1>6, <1>11 DEF Symbols, recs
<1>14. \A j \in KeysIn(s.recs[l]) : s.node[l] <= j /\ j \in Nat
  BY <1>3, NodeTypes DEF StructureOK
<1>15. s.node[l] \in Lower(s.recs[l]) /\ s.node[l] < b
  <2>1. PICK a \in Lower(s.recs[l]) : TRUE
    OBVIOUS
  <2>2. s.node[l] <= a /\ a < b /\ s.node[l] \in KeysIn(s.recs[l])
    BY <2>1, <1>2, <1>4, <1>14, NodeTypes DEF StructureOK
  <2> QED BY <2>1, <2>2, <1>2, <1>3, <1>4, <1>14
<1>16. \A m \in s.live : s.node[m] \in Nat
  BY NodeTypes DEF StructureOK
<1>17. \A m \in s.live : s.node[l] < s.node[m] =>
         \A j \in KeysIn(s.recs[l]) : j < s.node[m]
  BY DEF StructureOK, LeavesApart
<1>18. ChainInOrder(t) /\ NodesDiffer(t)
  BY <1>1, <1>2, <1>3, <1>4, <1>12, <1>15, <1>17, LinkedAboveSound
<1>19. IndexMatches(t)
  BY <1>1, <1>2, <1>4, <1>11, <1>13, <1>14, <1>15 DEF IndexMatches, StructureOK
<1>20. LeavesApart(t)
  <2> SUFFICES ASSUME NEW x \in t.live, NEW y \in t.live, t.node[x] < t.node[y],
                      NEW j \in KeysIn(t.recs[x])
               PROVE  j < t.node[y]
    BY DEF LeavesApart
  <2>1. CASE x = p
    <3>1. y # p /\ y \in s.live /\ t.node[y] = s.node[y] /\ j \in Upper(s.recs[l])
      BY <2>1, <1>1, <1>11, <1>13, <1>5
    <3>2. s.node[l] < s.node[y]
      BY <2>1, <3>1, <1>1, <1>13, <1>15, <1>16, <1>5
    <3> QED BY <3>1, <3>2, <1>2, <1>17
  <2>2. CASE x = l
    <3>1. j \in Lower(s.recs[l])
      BY <2>2, <1>1, <1>13
    <3>2. CASE y = p
      BY <3>1, <3>2, <1>1, <1>2, <1>4, <1>13
    <3>3. CASE y # p
      BY <2>2, <3>1, <3>3, <1>1, <1>2, <1>11, <1>13, <1>17
    <3> QED BY <3>2, <3>3
  <2>3. CASE x # p /\ x # l /\ y # p
    BY <2>3, <1>1, <1>11, <1>13 DEF StructureOK, LeavesApart
  <2>4. CASE x # p /\ x # l /\ y = p
    <3>1. x \in s.live /\ s.node[x] < b /\ t.node[y] = b /\ j \in KeysIn(s.recs[x])
      BY <2>4, <1>1, <1>11, <1>13
    <3>2. ~(s.node[l] < s.node[x])
      BY <3>1, <1>16, <1>17, <1>5
    <3>3. s.node[x] < s.node[l]
      BY <2>4, <3>1, <3>2, <1>16 DEF StructureOK, NodesDiffer
    <3>4. j < s.node[l] /\ j \in Nat
      BY <3>1, <3>3, NodeTypes, <1>3 DEF StructureOK, LeavesApart
    <3> QED BY <3>1, <3>4, <1>15, <1>16, <1>5
  <2> QED BY <2>1, <2>2, <2>3, <2>4
<1>21. t.node[l] = s.node[l] /\ t.node[p] = b /\ \A m \in s.live : t.node[m] = s.node[m]
  BY <1>1, <1>13
<1> QED BY <1>10, <1>11, <1>18, <1>19, <1>20, <1>21 DEF StructureOK, t, b

\* The leaf symbol_insert picks lies below the leaves the key lies below.
LEMMA TargetLands ==
  ASSUME NEW s \in Symbols, StructureOK(s), s.first # NoLeaf,
         NEW k \in Keys, NEW v \in Vals, NEW overwrite \in BOOLEAN
  PROVE  LET l == Target(s, k, v, overwrite)
         IN  /\ l \in s.live
             /\ \A m \in s.live : s.node[l] < s.node[m] => k < s.node[m]
<1> DEFINE l == Target(s, k, v, overwrite)
<1>1. s.live # {}
  BY FirstIsLowest
<1>2. \A m \in s.live : s.node[m] \in Nat
  BY NodeTypes DEF StructureOK
<1>3. k \in Nat
  BY KeysAssumption
<1>4. CASE TailTakes(s, k, v, overwrite)
  BY <1>1, <1>2, <1>4, LastIsHighest DEF Target
<1>5. CASE ~TailTakes(s, k, v, overwrite)
  <2>1. l = Descend(s, k)
    BY <1>5 DEF Target
  <2>2. /\ l \in s.live
        /\ \A m \in s.live : s.node[m] <= k => s.node[m] <= s.node[l]
    BY <2>1, <1>1, <1>3, DescendLands
  <2> QED BY <2>2, <1>2, <1>3
<1> QED BY <1>4, <1>5

\* Every write but the ones AllWrites = FALSE leaves out keeps the structure.
LEMMA WriteSound ==
  ASSUME NEW s \in Symbols, StructureOK(s),
         NEW k \in Keys, NEW v \in Vals, NEW overwrite \in BOOLEAN,
         WriteStatus(s, k, v, overwrite) = "OK",
         ~Mishandled(s, k, v, overwrite),
         NEW t \in AfterWrite(s, k, v, overwrite)
  PROVE  t \in Symbols /\ StructureOK(t)
<1> DEFINE l == Target(s, k, v, overwrite)
           way == Way(s, k, v, overwrite)
           m == s.recs[l]
<1>1. k \in Nat
  BY KeysAssumption
<1>2. CASE s.first = NoLeaf
  <2>1. way = "first" \/ way = "refuse"
    BY <1>2 DEF Way
  <2>2. way = "first"
    BY <1>2, <2>1 DEF WriteStatus, Way
  <2>3. PICK p \in Leaves \ s.live : t = FirstLeaf(s, p, k, v)
    BY <2>2 DEF AfterWrite
  <2> QED BY <1>2, <2>3, FirstLeafSound
<1>3. CASE s.first # NoLeaf
  <2>1. /\ l \in s.live
        /\ \A x \in s.live : s.node[l] < s.node[x] => k < s.node[x]
    BY <1>3, TargetLands
  <2>2. /\ m \in Maps /\ KeysIn(m) \subseteq Keys /\ KeysIn(m) # {}
        /\ \A j \in KeysIn(m) : j \in Nat /\ s.node[l] <= j
        /\ s.node[l] \in Nat
    BY <2>1, NodeTypes, KeysAssumption DEF Symbols, StructureOK
  <2>3. CASE way = "tail"
    <3>1. NeedsTail(s, l, k, v)
      BY <1>3, <2>3 DEF Way
    <3>2. PICK p \in Leaves \ s.live : t = NewTail(s, l, p, k, v)
      BY <2>3 DEF AfterWrite
    <3> QED BY <2>1, <3>1, <3>2, NewTailSound DEF NeedsTail
  <2>4. CASE way = "leaf"
    <3>1. ~BecomesFirst(k, m)
      BY <2>4 DEF Mishandled
    <3>2. s.node[l] <= k
      BY <2>2, <3>1, <1>1 DEF BecomesFirst
    <3>3. t = PutInLeaf(s, l, k, v)
      BY <2>4 DEF AfterWrite
    <3> QED BY <2>1, <3>2, <3>3, PutInLeafSound
  <2>5. CASE way = "split"
    <3>1. ~BecomesFirst(k, Half(m, k))
      BY <2>5 DEF Mishandled
    <3>2. /\ Upper(m) \subseteq KeysIn(m) /\ Lower(m) \subseteq KeysIn(m)
          /\ Upper(m) # {}
          /\ \A a \in Lower(m), b \in Upper(m) : a < b
      BY <2>2, HalvesApart
    <3>3. KeysIn(Half(m, k)) = IF ToUpper(m, k) THEN Upper(m) ELSE Lower(m)
      <4>1. KeysIn(Only(m, Upper(m))) = Upper(m) /\ KeysIn(Only(m, Lower(m))) = Lower(m)
        <5>1. Upper(m) \in SUBSET Keys /\ Lower(m) \in SUBSET Keys
          BY <2>2, <3>2
        <5>2. /\ KeysIn(Only(m, Upper(m))) = KeysIn(m) \cap Upper(m)
              /\ KeysIn(Only(m, Lower(m))) = KeysIn(m) \cap Lower(m)
          BY <2>2, <5>1, OnlyTypes
        <5> QED BY <3>2, <5>2
      <4> QED BY <4>1 DEF Half
    <3>4. PICK j \in KeysIn(Half(m, k)) : j <= k
      BY <2>2, <3>1, <3>2, <3>3, <1>1 DEF BecomesFirst
    <3>5. Lower(m) # {}
      BY <3>3, <3>4 DEF ToUpper
    <3>6. PICK p \in Leaves \ s.live :
            t = PutInLeaf(Split(s, l, p), IF ToUpper(m, k) THEN p ELSE l, k, v)
      BY <2>5 DEF AfterWrite
    <3> DEFINE u == Split(s, l, p)
    <3>7. /\ u \in Symbols /\ StructureOK(u)
          /\ u.live = s.live \cup {p}
          /\ u.node[l] = s.node[l]
          /\ u.node[p] = Min(Upper(m))
          /\ \A x \in s.live : u.node[x] = s.node[x]
      <4>1. l \in s.live /\ p \in Leaves \ s.live /\ Lower(s.recs[l]) # {}
        BY <2>1, <3>5
      <4> HIDE DEF l
      <4> QED BY <4>1, SplitSound
    <3>8. Min(Upper(m)) \in Upper(m) /\ \A b \in Upper(m) : Min(Upper(m)) <= b
      BY <2>2, <3>2, KeySetEnds
    <3> HIDE DEF u, l, m
    <3>9. CASE ToUpper(m, k)
      <4>1. u.node[p] <= k
        BY <3>3, <3>4, <3>7, <3>8, <3>9, <2>2, <3>2, <1>1
      <4>2. u.node[l] <= u.node[p] /\ u.node[p] \in Nat /\ u.node[l] \in Nat
        BY <2>2, <3>2, <3>7, <3>8
      <4>3. \A x \in u.live : u.node[x] \in Nat
        BY <3>7, NodeTypes DEF StructureOK
      <4>4. \A x \in u.live : u.node[p] < u.node[x] => k < u.node[x]
        BY <2>1, <3>7, <4>2, <4>3
      <4>5. p \in u.live
        BY <3>7
      <4> QED BY <3>6, <3>7, <3>9, <4>1, <4>4, <4>5, PutInLeafSound DEF u
    <3>10. CASE ~ToUpper(m, k)
      <4>1. u.node[l] <= k
        BY <3>3, <3>4, <3>7, <3>10, <2>2, <3>2, <1>1
      <4>2. PICK a \in Lower(m) : k <= a
        BY <3>5, <3>10, <2>2, <3>2, <1>1 DEF ToUpper
      <4>3. k < u.node[p]
        BY <4>2, <3>2, <3>7, <3>8, <2>2, <1>1
      <4>4. \A x \in u.live : u.node[l] < u.node[x] => k < u.node[x]
        BY <2>1, <3>7, <4>3
      <4>5. l \in u.live
        BY <2>1, <3>7
      <4> QED BY <3>6, <3>7, <3>10, <4>1, <4>4, <4>5, PutInLeafSound DEF u
    <3> QED BY <3>9, <3>10
  <2>6. way # "refuse"
    <3>1. SUFFICES ASSUME way = "refuse" PROVE FALSE
      OBVIOUS
    <3>2. WriteStatus(s, k, v, overwrite) = IF NeedsTail(s, l, k, v) THEN Fresh(k, v)
                                            ELSE Outcome(m, s.used[l], k, v, overwrite)
      BY <1>3, <3>1 DEF WriteStatus
    <3>3. CASE TailTakes(s, k, v, overwrite)
      <4>1. Outcome(m, s.used[l], k, v, overwrite) = "OK"
        BY <3>3 DEF TailTakes, Target
      <4> QED BY <1>3, <3>1, <3>3, <4>1 DEF Way
    <3>4. CASE ~TailTakes(s, k, v, overwrite)
      BY <1>3, <3>1, <3>2, <3>4 DEF Way
    <3> QED BY <3>3, <3>4
  <2>7. way \in {"tail", "leaf", "split", "refuse", "first"}
    BY DEF Way
  <2>8. way # "first"
    BY <1>3 DEF Way
  <2> QED BY <2>3, <2>4, <2>5, <2>6, <2>7, <2>8
<1> QED BY <1>2, <1>3

------------------------------------------------------------------------------
(* symbol_delete keeps the structure.                                      *)

\* The counters change and nothing else, and both end leaves exist when one
\* of them is read.
LEMMA UncountedTypes ==
  ASSUME NEW s \in Symbols, StructureOK(s)
  PROVE  /\ Uncounted(s) \in Symbols
         /\ SameIndex(s, Uncounted(s))
         /\ Uncounted(s).recs = s.recs
<1> DEFINE count == IF s.count > 0 THEN s.count - 1 ELSE 0
           lowest == IF s.first = NoLeaf THEN TopTime ELSE HeaderMin(s.recs[s.first])
           highest == IF s.first = NoLeaf THEN 0 ELSE HeaderMax(s.recs[s.last])
<1>1. s.first # NoLeaf => s.first \in Leaves /\ s.last \in Leaves
  BY FirstIsLowest, LastIsHighest DEF Symbols
<1>2. s.first # NoLeaf => s.recs[s.first] \in Maps /\ s.recs[s.last] \in Maps
  BY <1>1 DEF Symbols
<1>3. lowest \in Nat /\ highest \in Nat
  BY <1>2, HeaderTypes, LayoutAssumption
<1>4. count \in Nat
  BY DEF Symbols
<1>5. Uncounted(s) = [s EXCEPT !.count = count, !.minTime = lowest, !.maxTime = highest]
  BY DEF Uncounted
<1> HIDE DEF count, lowest, highest
<1> QED BY <1>3, <1>4, <1>5 DEF Symbols, SameIndex

\* Counting a deleted record keeps the structure.
LEMMA UncountedSound ==
  ASSUME NEW s \in Symbols, StructureOK(s)
  PROVE  Uncounted(s) \in Symbols /\ StructureOK(Uncounted(s))
BY UncountedTypes, ChainOfSameIndex
   DEF StructureOK, SameIndex, IndexMatches, LeavesApart

\* New node keys in the old order leave the order of the leaves as it was.
LEMMA RekeyedSound ==
  ASSUME NEW s \in Symbols, StructureOK(s), NEW t,
         t.live = s.live, t.next = s.next, t.prev = s.prev,
         t.first = s.first, t.last = s.last,
         \A a \in s.live : t.node[a] \in Nat,
         \A a, b \in s.live : s.node[a] < s.node[b] => t.node[a] < t.node[b]
  PROVE  ChainInOrder(t) /\ NodesDiffer(t)
<1>1. \A a \in s.live : s.node[a] \in Nat
  BY NodeTypes DEF StructureOK
<1>2. \A a, b \in s.live : a = b \/ s.node[a] < s.node[b] \/ s.node[b] < s.node[a]
  BY <1>1 DEF StructureOK, NodesDiffer
<1>3. \A a, b \in s.live : s.node[a] < s.node[b] <=> t.node[a] < t.node[b]
  BY <1>1, <1>2
<1>4. \A a, b \in s.live : s.node[a] <= s.node[b] <=> t.node[a] <= t.node[b]
  BY <1>1, <1>2, <1>3
<1>5. \A a, b \in s.live : Follows(t, a, b) <=> Follows(s, a, b)
  BY <1>3 DEF Follows
<1>6. NodesDiffer(t)
  BY <1>1, <1>2, <1>3 DEF NodesDiffer
<1> QED BY <1>4, <1>5, <1>6 DEF ChainInOrder, StructureOK

\* A record goes, others stay in its leaf.
LEMMA EraseSound ==
  ASSUME NEW s \in Symbols, StructureOK(s), NEW l \in s.live,
         NEW k \in KeysIn(s.recs[l]), KeysIn(s.recs[l]) # {k}
  PROVE  LET t == Erase(s, l, k) IN t \in Symbols /\ StructureOK(t)
<1> DEFINE t == Erase(s, l, k)
           K == KeysIn(s.recs[l])
           rest == Only(s.recs[l], K \ {k})
           b == IF BecomesFirst(k, rest) THEN Min(KeysIn(rest)) ELSE s.node[l]
<1>1. /\ l \in Leaves /\ s.recs[l] \in Maps /\ s.recs \in [Leaves -> Maps]
      /\ K \in SUBSET Keys /\ s.live \subseteq Leaves
      /\ \A j \in K : j \in Nat
  BY KeysAssumption DEF Symbols, KeysIn
<1>2. rest \in Maps /\ KeysIn(rest) = K \ {k}
  BY <1>1, OnlyTypes
<1>3. KeysIn(rest) # {} /\ KeysIn(rest) \in SUBSET Keys
  BY <1>1, <1>2
<1>4. Min(KeysIn(rest)) \in KeysIn(rest) /\ \A j \in KeysIn(rest) : Min(KeysIn(rest)) <= j
  BY <1>3, KeySetEnds
<1>5. s.node[l] \in K /\ \A j \in K : s.node[l] <= j
  BY NodeTypes DEF StructureOK
<1>6. b \in KeysIn(rest) /\ \A j \in KeysIn(rest) : b <= j
  <2>1. CASE BecomesFirst(k, rest)
    BY <2>1, <1>4
  <2>2. CASE ~BecomesFirst(k, rest)
    <3>1. PICK j \in KeysIn(rest) : ~(k < j)
      BY <2>2 DEF BecomesFirst
    <3>2. s.node[l] # k
      BY <3>1, <1>1, <1>2, <1>5
    <3> QED BY <2>2, <3>2, <1>2, <1>5
  <2> QED BY <2>1, <2>2
<1>7. Compacted(rest) \in Nat
  BY <1>2, CompactedIsNat
<1>8. t = [s EXCEPT !.recs[l] = rest, !.used[l] = Compacted(rest), !.node[l] = b]
  BY DEF Erase
<1>9. b \in Keys /\ b \in Nat /\ b \in K /\ s.node[l] <= b
  BY <1>1, <1>2, <1>5, <1>6
<1> HIDE DEF rest, b, t
<1>10. t \in Symbols
  <2>1. /\ [s.recs EXCEPT ![l] = rest] \in [Leaves -> Maps]
        /\ [s.used EXCEPT ![l] = Compacted(rest)] \in [Leaves -> Nat]
        /\ [s.node EXCEPT ![l] = b] \in [Leaves -> Keys \cup {NoKey}]
    BY <1>2, <1>7, <1>9 DEF Symbols
  <2> QED BY <2>1, <1>8 DEF Symbols
<1>11. /\ t.live = s.live /\ t.next = s.next /\ t.prev = s.prev
       /\ t.first = s.first /\ t.last = s.last
       /\ \A m \in Leaves : t.node[m] = IF m = l THEN b ELSE s.node[m]
       /\ \A m \in Leaves : t.recs[m] = IF m = l THEN rest ELSE s.recs[m]
  BY <1>8 DEF Symbols
<1>12. \A m \in s.live : s.node[m] \in Nat
  BY NodeTypes DEF StructureOK
<1>13. \A m \in s.live : s.node[l] < s.node[m] => b < s.node[m]
  BY <1>9 DEF StructureOK, LeavesApart
<1>14. ChainInOrder(t) /\ NodesDiffer(t)
  <2>1. \A m \in s.live : t.node[m] \in Nat
    BY <1>1, <1>9, <1>11, <1>12
  <2>2. \A m, n \in s.live : s.node[m] < s.node[n] => t.node[m] < t.node[n]
    BY <1>1, <1>9, <1>11, <1>12, <1>13
  <2> QED BY <2>1, <2>2, <1>11, RekeyedSound
<1>15. IndexMatches(t)
  BY <1>1, <1>6, <1>11 DEF IndexMatches, StructureOK
<1>16. LeavesApart(t)
  <2> SUFFICES ASSUME NEW x \in t.live, NEW y \in t.live, t.node[x] < t.node[y],
                      NEW j \in KeysIn(t.recs[x])
               PROVE  j < t.node[y]
    BY DEF LeavesApart
  <2>1. x \in s.live /\ y \in s.live /\ j \in KeysIn(s.recs[x]) /\ j \in Nat
    BY <1>1, <1>2, <1>11, KeysAssumption DEF KeysIn
  <2>2. s.node[x] < s.node[y]
    <3>1. CASE x = y
      BY <3>1, <2>1, <1>1, <1>9, <1>11, <1>12
    <3>2. CASE x # y
      BY <3>2, <2>1, <1>1, <1>9, <1>11, <1>12, <1>13 DEF StructureOK, NodesDiffer
    <3> QED BY <3>1, <3>2
  <2>3. j < s.node[y]
    BY <2>1, <2>2 DEF StructureOK, LeavesApart
  <2> QED BY <2>1, <2>3, <1>1, <1>9, <1>11, <1>12
<1> QED BY <1>10, <1>14, <1>15, <1>16 DEF StructureOK, t

\* The last record of a leaf goes, and the leaf with it.
LEMMA UnlinkSound ==
  ASSUME NEW s \in Symbols, StructureOK(s), NEW l \in s.live
  PROVE  LET t == Unlink(s, l) IN t \in Symbols /\ StructureOK(t)
<1> DEFINE t == Unlink(s, l)
           nexts == [x \in Leaves |-> IF x = l THEN NoLeaf
                                      ELSE IF x = s.prev[l] THEN s.next[l] ELSE s.next[x]]
           prevs == [x \in Leaves |-> IF x = l THEN NoLeaf
                                      ELSE IF x = s.next[l] THEN s.prev[l] ELSE s.prev[x]]
           front == IF s.first = l THEN s.next[l] ELSE s.first
           end == IF s.last = l THEN s.prev[l] ELSE s.last
           leaves == IF s.leaves > 0 THEN s.leaves - 1 ELSE 0
<1>1. /\ l \in Leaves /\ s.live \subseteq Leaves /\ NoLeaf \notin Leaves
      /\ \A m \in s.live : s.node[m] \in Nat
  BY NodeTypes, LeavesAssumption DEF Symbols, StructureOK
<1>2. /\ nexts \in [Leaves -> Leaves \cup {NoLeaf}]
      /\ prevs \in [Leaves -> Leaves \cup {NoLeaf}]
      /\ [s.recs EXCEPT ![l] = NoRecords] \in [Leaves -> Maps]
      /\ [s.used EXCEPT ![l] = 0] \in [Leaves -> Nat]
      /\ [s.node EXCEPT ![l] = NoKey] \in [Leaves -> Keys \cup {NoKey}]
      /\ front \in Leaves \cup {NoLeaf} /\ end \in Leaves \cup {NoLeaf}
      /\ s.live \ {l} \in SUBSET Leaves /\ leaves \in Nat
  BY <1>1, NoRecordsTypes DEF Symbols
<1>3. t = [s EXCEPT !.live = s.live \ {l},
                    !.recs = [s.recs EXCEPT ![l] = NoRecords],
                    !.used = [s.used EXCEPT ![l] = 0],
                    !.node = [s.node EXCEPT ![l] = NoKey],
                    !.next = nexts, !.prev = prevs, !.first = front, !.last = end,
                    !.leaves = leaves]
  BY DEF Unlink, Symbols
<1> HIDE DEF t, nexts, prevs, front, end, leaves
<1>4. t \in Symbols
  BY <1>2, <1>3 DEF Symbols
<1>5. /\ t.live = s.live \ {l} /\ t.next = nexts /\ t.prev = prevs
      /\ t.first = front /\ t.last = end
      /\ \A m \in Leaves : t.node[m] = IF m = l THEN NoKey ELSE s.node[m]
      /\ \A m \in Leaves : t.recs[m] = IF m = l THEN NoRecords ELSE s.recs[m]
  BY <1>3 DEF Symbols
<1>6. IndexMatches(t)
  BY <1>1, <1>5, NoRecordsTypes DEF IndexMatches, StructureOK
<1>7. LeavesApart(t) /\ NodesDiffer(t)
  BY <1>1, <1>5 DEF LeavesApart, NodesDiffer, StructureOK
<1>8. \A a, b \in s.live : /\ s.next[a] = b <=> Follows(s, a, b)
                           /\ s.prev[b] = a <=> Follows(s, a, b)
  BY DEF StructureOK, ChainInOrder
<1>9. \A a, b \in t.live : Follows(t, a, b) <=>
         Follows(s, a, b) \/ (Follows(s, a, l) /\ Follows(s, l, b))
  <2> SUFFICES ASSUME NEW a \in t.live, NEW b \in t.live
               PROVE  Follows(t, a, b) <=>
                        Follows(s, a, b) \/ (Follows(s, a, l) /\ Follows(s, l, b))
    OBVIOUS
  <2>1. /\ a \in s.live /\ b \in s.live /\ a # l /\ b # l
        /\ \A m \in t.live : t.node[m] = s.node[m]
        /\ s.node[a] \in Nat /\ s.node[b] \in Nat /\ s.node[l] \in Nat
    BY <1>1, <1>5
  <2>2. \A x \in s.live : x = l \/ x \in t.live
    BY <1>5
  <2>3. ASSUME Follows(t, a, b)
        PROVE  Follows(s, a, b) \/ (Follows(s, a, l) /\ Follows(s, l, b))
    <3>1. s.node[a] < s.node[b]
      BY <2>1, <2>3 DEF Follows
    <3>2. \A x \in s.live : s.node[a] < s.node[x] /\ s.node[x] < s.node[b] => x = l
      BY <2>1, <2>2, <2>3 DEF Follows
    <3>3. CASE s.node[a] < s.node[l] /\ s.node[l] < s.node[b]
      BY <3>1, <3>2, <3>3, <2>1, <1>1 DEF Follows
    <3>4. CASE ~(s.node[a] < s.node[l] /\ s.node[l] < s.node[b])
      BY <3>1, <3>2, <3>4 DEF Follows
    <3> QED BY <3>3, <3>4
  <2>4. ASSUME Follows(s, a, b) PROVE Follows(t, a, b)
    BY <2>1, <2>4, <1>5 DEF Follows
  <2>5. ASSUME Follows(s, a, l), Follows(s, l, b) PROVE Follows(t, a, b)
    <3>1. \A x \in t.live : x \in s.live /\ x # l /\ s.node[x] \in Nat
                            /\ s.node[x] # s.node[l]
      BY <1>1, <1>5 DEF StructureOK, NodesDiffer
    <3> QED BY <2>1, <2>5, <3>1 DEF Follows
  <2> QED BY <2>3, <2>4, <2>5
<1>10. \A a, b \in t.live : /\ t.next[a] = b <=> Follows(t, a, b)
                            /\ t.prev[b] = a <=> Follows(t, a, b)
  <2> SUFFICES ASSUME NEW a \in t.live, NEW b \in t.live
               PROVE  /\ t.next[a] = b <=> Follows(t, a, b)
                      /\ t.prev[b] = a <=> Follows(t, a, b)
    OBVIOUS
  <2>1. /\ a \in s.live /\ b \in s.live /\ a # l /\ b # l
        /\ a \in Leaves /\ b \in Leaves
    BY <1>1, <1>5
  <2>2. t.next[a] = IF Follows(s, a, l) THEN s.next[l] ELSE s.next[a]
    BY <2>1, <1>5, <1>8 DEF nexts
  <2>3. t.prev[b] = IF Follows(s, l, b) THEN s.prev[l] ELSE s.prev[b]
    BY <2>1, <1>5, <1>8 DEF prevs
  <2>4. Follows(s, a, b) => ~Follows(s, a, l) /\ ~Follows(s, l, b)
    BY <2>1, <1>8
  <2> QED BY <2>1, <2>2, <2>3, <2>4, <1>8, <1>9
<1>11. \A m \in t.live : /\ t.next[m] \in t.live \cup {NoLeaf}
                         /\ t.prev[m] \in t.live \cup {NoLeaf}
  <2> SUFFICES ASSUME NEW m \in t.live
               PROVE  /\ t.next[m] \in t.live \cup {NoLeaf}
                      /\ t.prev[m] \in t.live \cup {NoLeaf}
    OBVIOUS
  <2>1. m \in s.live /\ m # l /\ m \in Leaves
    BY <1>1, <1>5
  <2>2. ~Follows(s, l, l)
    BY <1>1 DEF Follows
  <2>3. s.next[l] \in (s.live \ {l}) \cup {NoLeaf} /\ s.prev[l] \in (s.live \ {l}) \cup {NoLeaf}
    BY <2>2, <1>8 DEF StructureOK, ChainInOrder
  <2>4. s.next[m] \in s.live \cup {NoLeaf} /\ s.prev[m] \in s.live \cup {NoLeaf}
    BY <2>1 DEF StructureOK, ChainInOrder
  <2>5. s.next[m] = l => m = s.prev[l]
    BY <2>1, <1>8
  <2>6. s.prev[m] = l => m = s.next[l]
    BY <2>1, <1>8
  <2> QED BY <2>1, <2>3, <2>4, <2>5, <2>6, <1>5 DEF nexts, prevs
<1>12. /\ front \in t.live \cup {NoLeaf}
       /\ \A m \in t.live : front = m <=> \A x \in t.live : t.node[m] <= t.node[x]
  <2>1. s.first \in s.live /\ \A m \in s.live : s.node[s.first] <= s.node[m]
    BY FirstIsLowest
  <2>2. \A m \in t.live : m \in s.live /\ m # l /\ t.node[m] = s.node[m]
    BY <1>1, <1>5
  <2>3. CASE s.first = l
    <3>1. \A m \in t.live : s.node[l] < s.node[m]
      BY <2>1, <2>2, <2>3, <1>1 DEF StructureOK, NodesDiffer
    <3>2. \A m \in t.live : /\ s.next[l] \in s.live /\ s.node[s.next[l]] <= s.node[m]
                            /\ s.node[l] < s.node[s.next[l]]
      BY <2>2, <3>1, NextIsAbove DEF Follows
    <3>3. \A m \in t.live : s.next[l] \in t.live
      BY <3>2, <1>1, <1>5
    <3>4. front = s.next[l]
      BY <2>3 DEF front
    <3>5. front \in t.live \cup {NoLeaf}
      BY <3>4, <1>1, <1>5, <1>8, <2>1 DEF StructureOK, ChainInOrder, Follows
    <3> QED BY <2>2, <3>2, <3>3, <3>4, <3>5, <1>1, <1>7 DEF NodesDiffer
  <2>4. CASE s.first # l
    <3>1. front = s.first /\ front \in t.live
      BY <2>1, <2>4, <1>5 DEF front
    <3> QED BY <2>1, <2>2, <3>1, <1>1, <1>7 DEF NodesDiffer
  <2> QED BY <2>3, <2>4
<1>13. /\ end \in t.live \cup {NoLeaf}
       /\ \A m \in t.live : end = m <=> \A x \in t.live : t.node[x] <= t.node[m]
  <2>1. s.last \in s.live /\ \A m \in s.live : s.node[m] <= s.node[s.last]
    BY LastIsHighest
  <2>2. \A m \in t.live : m \in s.live /\ m # l /\ t.node[m] = s.node[m]
    BY <1>1, <1>5
  <2>3. CASE s.last = l
    <3>1. \A m \in t.live : s.node[m] < s.node[l]
      BY <2>1, <2>2, <2>3, <1>1 DEF StructureOK, NodesDiffer
    <3>2. \A m \in t.live : /\ s.prev[l] \in s.live /\ s.node[m] <= s.node[s.prev[l]]
                            /\ s.node[s.prev[l]] < s.node[l]
      BY <2>2, <3>1, PrevIsBelow DEF Follows
    <3>3. \A m \in t.live : s.prev[l] \in t.live
      BY <3>2, <1>1, <1>5
    <3>4. end = s.prev[l]
      BY <2>3 DEF end
    <3>5. end \in t.live \cup {NoLeaf}
      BY <3>4, <1>1, <1>5, <1>8, <2>1 DEF StructureOK, ChainInOrder, Follows
    <3> QED BY <2>2, <3>2, <3>3, <3>4, <3>5, <1>1, <1>7 DEF NodesDiffer
  <2>4. CASE s.last # l
    <3>1. end = s.last /\ end \in t.live
      BY <2>1, <2>4, <1>5 DEF end
    <3> QED BY <2>1, <2>2, <3>1, <1>1, <1>7 DEF NodesDiffer
  <2> QED BY <2>3, <2>4
<1>14. ChainInOrder(t)
  BY <1>5, <1>10, <1>11, <1>12, <1>13 DEF ChainInOrder
<1> QED BY <1>4, <1>6, <1>7, <1>14 DEF StructureOK, t

\* symbol_delete keeps the structure, whether the key is there or not.
LEMMA DeleteSound ==
  ASSUME NEW s \in Symbols, StructureOK(s), NEW k \in Keys
  PROVE  AfterDelete(s, k) \in Symbols /\ StructureOK(AfterDelete(s, k))
<1> DEFINE l == Descend(s, k)
<1>1. k \in Nat
  BY KeysAssumption
<1>2. CASE ~Holds(s, l, k)
  BY <1>2 DEF AfterDelete
<1>3. CASE Holds(s, l, k)
  <2>1. l \in s.live /\ k \in KeysIn(s.recs[l])
    BY <1>1, <1>3, DescendLands, DescendNowhere DEF Holds
  <2>2. CASE KeysIn(s.recs[l]) = {k}
    <3>1. AfterDelete(s, k) = Uncounted(Unlink(s, l))
      BY <1>3, <2>2 DEF AfterDelete
    <3> QED BY <2>1, <3>1, UnlinkSound, UncountedSound
  <2>3. CASE KeysIn(s.recs[l]) # {k}
    <3>1. AfterDelete(s, k) = Uncounted(Erase(s, l, k))
      BY <1>3, <2>3 DEF AfterDelete
    <3> QED BY <2>1, <2>3, <3>1, EraseSound, UncountedSound
  <2> QED BY <2>2, <2>3
<1> QED BY <1>2, <1>3

------------------------------------------------------------------------------
(* spike_db_truncate_before and spike_db_symbol_drop.                      *)

\* A key is at or after the first key of a time exactly when its own time is.
LEMMA TimeOrder ==
  ASSUME NEW k \in Nat, NEW cutoff \in Nat
  PROVE  TimeOf(k) >= cutoff <=> k >= StartOf(cutoff)
<1>1. /\ SeqSpan \in Nat /\ SeqSpan > 0
  BY SpanAssumption
<1> DEFINE q == k \div SeqSpan
<1>2. q \in Nat /\ q * SeqSpan <= k /\ k < (q + 1) * SeqSpan
  BY <1>1
<1> HIDE DEF q
<1>3. q >= cutoff => q * SeqSpan >= cutoff * SeqSpan
  BY <1>1, <1>2
<1>4. q < cutoff => (q + 1) * SeqSpan <= cutoff * SeqSpan
  BY <1>1, <1>2
<1>5. q * SeqSpan \in Nat /\ (q + 1) * SeqSpan \in Nat /\ cutoff * SeqSpan \in Nat
  BY <1>1, <1>2
<1>6. q >= cutoff <=> k >= cutoff * SeqSpan
  BY <1>2, <1>3, <1>4, <1>5
<1> QED BY <1>6 DEF TimeOf, StartOf, q

\* A walk along next from a leaf visits the leaves from that one upwards.
LEMMA WalkIsUpward ==
  ASSUME NEW s \in Symbols, StructureOK(s), NEW l \in s.live
  PROVE  Walk(s.next, l) = {m \in s.live : s.node[l] <= s.node[m]}
<1> DEFINE Up == {m \in s.live : s.node[l] <= s.node[m]}
           Closed(S) == l \in S /\ \A x \in S : s.next[x] # NoLeaf => s.next[x] \in S
<1>1. /\ NoLeaf \notin s.live /\ s.live \subseteq Leaves
      /\ \A m \in s.live : s.node[m] \in Nat
  BY NodeTypes, LeavesAssumption DEF Symbols, StructureOK
<1>2. Walk(s.next, l) = {m \in Leaves : \A S \in SUBSET Leaves : Closed(S) => m \in S}
  BY <1>1 DEF Walk
<1>3. Up \in SUBSET Leaves /\ Closed(Up)
  <2>1. l \in Up
    BY <1>1
  <2>2. ASSUME NEW x \in Up, s.next[x] # NoLeaf PROVE s.next[x] \in Up
    <3>1. s.next[x] \in s.live
      BY <2>2 DEF StructureOK, ChainInOrder
    <3>2. Follows(s, x, s.next[x])
      BY <3>1 DEF StructureOK, ChainInOrder
    <3> QED BY <3>1, <3>2, <1>1 DEF Follows
  <2> QED BY <2>1, <2>2, <1>1
<1>4. ASSUME NEW S \in SUBSET Leaves, Closed(S) PROVE Up \subseteq S
  <2> DEFINE Missed == Up \ S
  <2>1. SUFFICES ASSUME Missed # {} PROVE FALSE
    OBVIOUS
  <2>2. PICK m \in Missed : \A n \in Missed : s.node[m] <= s.node[n]
    <3>1. Missed \in SUBSET s.live
      OBVIOUS
    <3> QED BY <2>1, <3>1, LowestLeaf DEF StructureOK
  <2>3. m \in s.live /\ m # l /\ s.node[l] < s.node[m]
    BY <1>1, <1>4 DEF StructureOK, NodesDiffer
  <2>4. /\ s.prev[m] \in s.live /\ Follows(s, s.prev[m], m)
        /\ s.node[l] <= s.node[s.prev[m]]
    BY <2>3, PrevIsBelow
  <2>5. s.prev[m] \in S
    BY <2>2, <2>3, <2>4, <1>1 DEF Follows
  <2>6. s.next[s.prev[m]] = m
    BY <2>3, <2>4 DEF StructureOK, ChainInOrder
  <2> QED BY <2>3, <2>5, <2>6, <1>1, <1>4
<1> QED BY <1>1, <1>2, <1>3, <1>4

\* The chain holds all leaves of the symbol.
LEMMA ChainIsLive ==
  ASSUME NEW s \in Symbols, StructureOK(s)
  PROVE  Chain(s) = s.live
<1>1. CASE s.live = {}
  BY <1>1, FirstIsLowest DEF Chain, Walk
<1>2. CASE s.live # {}
  <2>1. s.first \in s.live /\ \A m \in s.live : s.node[s.first] <= s.node[m]
    BY <1>2, FirstIsLowest
  <2>2. Chain(s) = {m \in s.live : s.node[s.first] <= s.node[m]}
    BY <2>1, WalkIsUpward DEF Chain
  <2> QED BY <2>1, <2>2
<1> QED BY <1>1, <1>2

\* A symbol without records is sound.
LEMMA NewSymbolSound ==
  NewSymbol \in Symbols /\ StructureOK(NewSymbol)
<1>1. NoRecords \in Maps /\ KeysIn(NoRecords) = {} /\ TopTime \in Nat
  BY NoRecordsTypes, LayoutAssumption
<1>2. NewSymbol \in Symbols
  BY <1>1 DEF NewSymbol, Symbols
<1>3. StructureOK(NewSymbol)
  BY <1>1 DEF NewSymbol, StructureOK, IndexMatches, LeavesApart, NodesDiffer,
              ChainInOrder
<1> QED BY <1>2, <1>3

\* symbol_drop frees every leaf of the symbol.
LEMMA DropSound ==
  ASSUME NEW s \in Symbols, StructureOK(s)
  PROVE  [NewSymbol EXCEPT !.live = s.live \ Chain(s)] = NewSymbol
<1>1. s.live \ Chain(s) = {}
  BY ChainIsLive
<1> QED BY <1>1 DEF NewSymbol

\* A leaf is stale when all its keys are below the cutoff.
LEMMA StaleMeansBelow ==
  ASSUME NEW m \in Maps, NEW cutoff \in Nat
  PROVE  Stale(m, cutoff) <=> \A k \in KeysIn(m) : k < StartOf(cutoff)
<1>1. KeysIn(m) \in SUBSET Keys /\ StartOf(cutoff) \in Nat /\ Keys \subseteq Nat
  BY KeysAssumption, SpanAssumption DEF KeysIn, StartOf
<1>2. CASE KeysIn(m) = {}
  BY <1>2 DEF Stale
<1>3. CASE KeysIn(m) # {}
  <2> DEFINE top == Max(KeysIn(m))
  <2>1. top \in KeysIn(m) /\ \A k \in KeysIn(m) : k <= top
    BY <1>1, <1>3, KeySetEnds
  <2>2. HeaderMax(m) = TimeOf(top)
    BY <1>3 DEF HeaderMax
  <2>3. top \in Nat /\ TimeOf(top) \in Nat
    BY <2>1, <1>1, TimesAreNat
  <2> HIDE DEF top
  <2>4. TimeOf(top) >= cutoff <=> top >= StartOf(cutoff)
    BY <2>3, TimeOrder
  <2>5. Stale(m, cutoff) <=> top < StartOf(cutoff)
    BY <1>1, <1>3, <2>2, <2>3, <2>4 DEF Stale
  <2> QED BY <1>1, <2>1, <2>3, <2>5
<1> QED BY <1>2, <1>3

\* The leaves truncate_before keeps are those from one leaf upwards, the
\* lowest with a record at or after the cutoff.
LEMMA KeptIsUpward ==
  ASSUME NEW s \in Symbols, StructureOK(s), NEW cutoff \in Nat,
         NEW kept, kept = Chain(s) \ FreedBelow(s, cutoff), kept # {}
  PROVE  /\ \E head \in kept : kept = Walk(s.next, head)
         /\ \A head \in kept : kept = Walk(s.next, head) =>
              /\ kept = {m \in s.live : s.node[head] <= s.node[m]}
              /\ \E k \in KeysIn(s.recs[head]) : k >= StartOf(cutoff)
<1> DEFINE Old(l) == Stale(s.recs[l], cutoff)
<1>1. /\ Chain(s) = s.live /\ s.live \subseteq Leaves /\ s.recs \in [Leaves -> Maps]
      /\ \A m \in s.live : s.node[m] \in Nat
  BY ChainIsLive, NodeTypes DEF Symbols, StructureOK
<1>2. \A l \in s.live : l \in FreedBelow(s, cutoff) <=>
        \A m \in s.live : s.node[m] <= s.node[l] => Old(m)
  BY <1>1, WalkIsUpward DEF FreedBelow
<1>3. kept \in SUBSET s.live
  BY <1>1
<1>4. PICK h \in kept : \A m \in kept : s.node[h] <= s.node[m]
  BY <1>3, LowestLeaf DEF StructureOK
<1>5. ~Old(h)
  <2>1. PICK m \in s.live : s.node[m] <= s.node[h] /\ ~Old(m)
    BY <1>1, <1>2, <1>3
  <2>2. m \in kept
    BY <2>1, <1>1, <1>2
  <2>3. s.node[m] = s.node[h]
    BY <2>1, <2>2, <1>1, <1>3, <1>4
  <2>4. m = h
    BY <2>1, <2>3, <1>3 DEF StructureOK, NodesDiffer
  <2> QED BY <2>1, <2>4
<1>6. kept = {m \in s.live : s.node[h] <= s.node[m]}
  <2>1. ASSUME NEW m \in s.live, s.node[h] <= s.node[m] PROVE m \in kept
    BY <2>1, <1>1, <1>2, <1>3, <1>5
  <2> QED BY <2>1, <1>3, <1>4
<1>7. kept = Walk(s.next, h)
  BY <1>3, <1>6, WalkIsUpward
<1>8. ASSUME NEW head \in kept, kept = Walk(s.next, head)
      PROVE  kept = {m \in s.live : s.node[head] <= s.node[m]} /\ head = h
  <2>1. kept = {m \in s.live : s.node[head] <= s.node[m]}
    BY <1>3, <1>8, WalkIsUpward
  <2>2. s.node[head] = s.node[h]
    BY <2>1, <1>1, <1>3, <1>4, <1>8
  <2> QED BY <2>1, <2>2, <1>3 DEF StructureOK, NodesDiffer
<1>9. \E k \in KeysIn(s.recs[h]) : k >= StartOf(cutoff)
  <2>1. s.recs[h] \in Maps
    BY <1>1, <1>3
  <2>2. PICK k \in KeysIn(s.recs[h]) : ~(k < StartOf(cutoff))
    BY <2>1, <1>5, StaleMeansBelow
  <2>3. k \in Nat
    BY KeysAssumption DEF KeysIn
  <2>4. StartOf(cutoff) \in Nat
    BY SpanAssumption DEF StartOf
  <2> QED BY <2>2, <2>3, <2>4
<1> QED BY <1>7, <1>8, <1>9

\* truncate_before counts a natural number of records.
LEMMA CountInIsNat ==
  ASSUME NEW s \in Symbols, NEW S \in SUBSET Leaves
  PROVE  CountIn(s, S) \in Nat
<1>1. IsFiniteSet(S) /\ IsFiniteSet(S \X Keys)
  BY LeavesAssumption, KeysAssumption, FS_Subset, FS_Product
<1>2. IsFiniteSet({r \in S \X Keys : r[2] \in KeysIn(s.recs[r[1]])})
  BY <1>1, FS_Subset
<1> QED BY <1>2, FS_CardinalityType DEF CountIn

\* A symbol cut down to its leaves from `head` upwards keeps their order.
LEMMA SuffixSound ==
  ASSUME NEW s \in Symbols, StructureOK(s), NEW head \in s.live,
         NEW t \in Symbols,
         t.live = {m \in s.live : s.node[head] <= s.node[m]},
         \A m \in t.live : t.next[m] = s.next[m],
         \A m \in t.live : t.prev[m] = IF m = head THEN NoLeaf ELSE s.prev[m],
         t.first = head, t.last = s.last,
         \A m \in t.live : t.node[m] \in Nat,
         \A a, b \in t.live : s.node[a] < s.node[b] => t.node[a] < t.node[b]
  PROVE  ChainInOrder(t) /\ NodesDiffer(t)
<1>1. /\ \A a \in s.live : s.node[a] \in Nat
      /\ t.live \subseteq s.live /\ head \in t.live /\ NoLeaf \notin s.live
  <2>1. \A a \in s.live : s.node[a] \in Nat
    BY NodeTypes DEF StructureOK
  <2> QED BY <2>1, LeavesAssumption DEF Symbols
<1>2. \A a, b \in t.live : a = b \/ s.node[a] < s.node[b] \/ s.node[b] < s.node[a]
  BY <1>1 DEF StructureOK, NodesDiffer
<1>3. \A a, b \in t.live : s.node[a] < s.node[b] <=> t.node[a] < t.node[b]
  BY <1>1, <1>2
<1>4. \A a, b \in t.live : s.node[a] <= s.node[b] <=> t.node[a] <= t.node[b]
  BY <1>1, <1>2, <1>3
<1>5. \A a, b \in t.live : Follows(t, a, b) <=> Follows(s, a, b)
  <2> SUFFICES ASSUME NEW a \in t.live, NEW b \in t.live
               PROVE  Follows(t, a, b) <=> Follows(s, a, b)
    OBVIOUS
  <2>1. \A x \in s.live : s.node[a] < s.node[x] => x \in t.live
    BY <1>1
  <2> QED BY <2>1, <1>1, <1>3 DEF Follows
<1>6. NodesDiffer(t)
  BY <1>1, <1>2, <1>3 DEF NodesDiffer
<1>7. \A a, b \in s.live : /\ s.next[a] = b <=> Follows(s, a, b)
                           /\ s.prev[b] = a <=> Follows(s, a, b)
  BY DEF StructureOK, ChainInOrder
<1>8. \A a, b \in t.live : t.next[a] = b <=> Follows(t, a, b)
  BY <1>1, <1>5, <1>7
<1>9. \A a, b \in t.live : t.prev[b] = a <=> Follows(t, a, b)
  <2> SUFFICES ASSUME NEW a \in t.live, NEW b \in t.live
               PROVE  t.prev[b] = a <=> Follows(t, a, b)
    OBVIOUS
  <2>1. CASE b = head
    BY <2>1, <1>1, <1>5 DEF Follows
  <2>2. CASE b # head
    BY <2>2, <1>1, <1>5, <1>7
  <2> QED BY <2>1, <2>2
<1>10. \A m \in t.live : t.next[m] \in t.live \cup {NoLeaf}
  <2> SUFFICES ASSUME NEW m \in t.live, s.next[m] # NoLeaf PROVE s.next[m] \in t.live
    OBVIOUS
  <2>1. s.next[m] \in s.live
    BY <1>1 DEF StructureOK, ChainInOrder
  <2>2. Follows(s, m, s.next[m])
    BY <2>1, <1>1, <1>7
  <2> QED BY <2>1, <2>2, <1>1 DEF Follows
<1>11. \A m \in t.live : t.prev[m] \in t.live \cup {NoLeaf}
  <2> SUFFICES ASSUME NEW m \in t.live, m # head PROVE s.prev[m] \in t.live
    OBVIOUS
  <2>1. s.node[head] < s.node[m]
    BY <1>1, <1>2
  <2>2. s.prev[m] \in s.live /\ s.node[head] <= s.node[s.prev[m]]
    BY <2>1, <1>1, PrevIsBelow
  <2> QED BY <2>2
<1>12. \A m \in t.live : t.first = m <=> \A x \in t.live : t.node[m] <= t.node[x]
  BY <1>1, <1>2, <1>4, <1>6 DEF NodesDiffer
<1>13. s.last \in t.live /\ \A m \in t.live : s.node[m] <= s.node[s.last]
  BY <1>1, LastIsHighest
<1>14. \A m \in t.live : t.last = m <=> \A x \in t.live : t.node[x] <= t.node[m]
  BY <1>1, <1>2, <1>4, <1>6, <1>13 DEF NodesDiffer
<1> QED BY <1>1, <1>6, <1>8, <1>9, <1>10, <1>11, <1>12, <1>13, <1>14 DEF ChainInOrder

\* spike_db_truncate_before keeps the structure.
LEMMA TruncateSound ==
  ASSUME NEW s \in Symbols, StructureOK(s), NEW cutoff \in Times
  PROVE  AfterTruncate(s, cutoff) \in Symbols /\ StructureOK(AfterTruncate(s, cutoff))
<1> DEFINE t == AfterTruncate(s, cutoff)
           freed == FreedBelow(s, cutoff)
           kept == Chain(s) \ freed
           head == IF kept = {} THEN NoLeaf ELSE CHOOSE l \in kept : kept = Walk(s.next, l)
           last == IF head = NoLeaf THEN NoLeaf ELSE CHOOSE l \in kept : s.next[l] = NoLeaf
           recs == [l \in Leaves |-> IF l \in freed THEN NoRecords
                                     ELSE IF l = head THEN TrimBelow(s.recs[l], cutoff)
                                     ELSE s.recs[l]]
           removed == CountIn(s, Chain(s)) - CountIn([s EXCEPT !.recs = recs], Chain(s))
           used == [l \in Leaves |-> IF l \in freed THEN 0
                                     ELSE IF recs[l] # s.recs[l] THEN Compacted(recs[l])
                                     ELSE s.used[l]]
           nexts == [l \in Leaves |-> IF l \in freed THEN NoLeaf ELSE s.next[l]]
           prevs == [l \in Leaves |-> IF l \in freed \/ l = head THEN NoLeaf ELSE s.prev[l]]
           nodes == [l \in Leaves |-> IF s.node[l] # NoKey /\ ~Stale(recs[l], cutoff)
                                      THEN Min(KeysIn(recs[l])) ELSE NoKey]
           count == IF s.count > removed THEN s.count - removed ELSE 0
           lowest == IF head = NoLeaf THEN TopTime
                     ELSE Min({HeaderMin(recs[l]) : l \in kept})
           highest == IF head = NoLeaf THEN 0 ELSE s.maxTime
<1>1. t = [live |-> s.live \ freed, recs |-> recs, used |-> used, next |-> nexts,
           prev |-> prevs, node |-> nodes, first |-> head, last |-> last,
           leaves |-> Cardinality(kept), count |-> count,
           minTime |-> lowest, maxTime |-> highest]
  BY DEF AfterTruncate
<1>2. /\ Chain(s) = s.live /\ s.live \subseteq Leaves /\ s.recs \in [Leaves -> Maps]
      /\ \A m \in s.live : s.node[m] \in Nat
      /\ NoLeaf \notin Leaves /\ cutoff \in Nat /\ StartOf(cutoff) \in Nat
      /\ Keys \subseteq Nat
  BY ChainIsLive, NodeTypes, LeavesAssumption, KeysAssumption, TimesAreNat
     DEF Symbols, StructureOK
<1>3. kept = s.live \ freed /\ freed \subseteq s.live
  BY <1>2 DEF FreedBelow
<1>4. CASE kept = {}
  <2>1. head = NoLeaf /\ last = NoLeaf
    BY <1>4
  <2>2. s.live = freed
    BY <1>3, <1>4
  <2>3. \A l \in Leaves : l \notin freed => s.node[l] = NoKey /\ KeysIn(s.recs[l]) = {}
    BY <2>2 DEF StructureOK, IndexMatches
  <2>4. \A l \in Leaves : recs[l] \in Maps /\ KeysIn(recs[l]) = {}
    <3> SUFFICES ASSUME NEW l \in Leaves PROVE recs[l] \in Maps /\ KeysIn(recs[l]) = {}
      OBVIOUS
    <3>1. l # head
      BY <2>1, <1>2
    <3> QED BY <3>1, <2>3, <1>2, NoRecordsTypes
  <2>5. \A l \in Leaves : nodes[l] = NoKey
    BY <2>4 DEF Stale
  <2>6. recs \in [Leaves -> Maps]
    BY <2>4
  <2>7. used \in [Leaves -> Nat]
    <3>1. \A l \in Leaves : Compacted(recs[l]) \in Nat
      BY <2>4, CompactedIsNat
    <3> HIDE DEF recs
    <3> QED BY <3>1 DEF Symbols
  <2>8. /\ nexts \in [Leaves -> Leaves \cup {NoLeaf}]
        /\ prevs \in [Leaves -> Leaves \cup {NoLeaf}]
        /\ nodes \in [Leaves -> Keys \cup {NoKey}]
    <3>1. nodes \in [Leaves -> Keys \cup {NoKey}]
      <4> HIDE DEF recs
      <4> QED BY <2>5
    <3> QED BY <3>1 DEF Symbols
  <2>9. count \in Nat /\ Cardinality(kept) = 0
    <3>1. removed \in Int
      <4>1. [s EXCEPT !.recs = recs] \in Symbols
        BY <2>6 DEF Symbols
      <4> HIDE DEF recs
      <4> QED BY <4>1, <1>2, CountInIsNat
    <3>2. Cardinality(kept) = 0
      BY <1>4, FS_EmptySet
    <3> HIDE DEF removed
    <3> QED BY <3>1, <3>2 DEF Symbols
  <2>10. lowest = TopTime /\ highest = 0 /\ TopTime \in Nat
    BY <2>1, LayoutAssumption
  <2> HIDE DEF recs, used, nexts, prevs, nodes, count, lowest, highest, head, last, freed,
               kept, t
  <2>11. t \in Symbols
    BY <1>1, <2>1, <2>2, <2>6, <2>7, <2>8, <2>9, <2>10 DEF Symbols
  <2>12. t.live = {} /\ t.node = nodes /\ t.recs = recs /\ t.first = NoLeaf
         /\ t.last = NoLeaf
    BY <1>1, <2>1, <2>2
  <2> QED BY <2>4, <2>5, <2>11, <2>12
          DEF StructureOK, IndexMatches, LeavesApart, NodesDiffer, ChainInOrder, t
<1>5. CASE kept # {}
  <2>1. /\ head \in kept
        /\ kept = {m \in s.live : s.node[head] <= s.node[m]}
        /\ \E k \in KeysIn(s.recs[head]) : k >= StartOf(cutoff)
    <3>1. head = CHOOSE l \in kept : kept = Walk(s.next, l)
      BY <1>5
    <3>2. kept = Chain(s) \ FreedBelow(s, cutoff)
      OBVIOUS
    <3> HIDE DEF kept
    <3>3. /\ \E h \in kept : kept = Walk(s.next, h)
          /\ \A h \in kept : kept = Walk(s.next, h) =>
               /\ kept = {m \in s.live : s.node[h] <= s.node[m]}
               /\ \E k \in KeysIn(s.recs[h]) : k >= StartOf(cutoff)
      <4>1. cutoff \in Nat
        BY <1>2
      <4> HIDE DEF freed, head, last, recs, t
      <4> QED BY <4>1, <3>2, <1>5, KeptIsUpward
    <3>4. head \in kept /\ kept = Walk(s.next, head)
      BY <3>1, <3>3
    <3> HIDE DEF head
    <3> QED BY <3>3, <3>4
  <2>2. head \in s.live /\ head # NoLeaf /\ head \in Leaves /\ head \notin freed
    BY <2>1, <1>2, <1>3
  <2> DEFINE trim == TrimBelow(s.recs[head], cutoff)
  <2>3. trim \in Maps /\ KeysIn(trim) = {k \in KeysIn(s.recs[head]) : k >= StartOf(cutoff)}
    <3> DEFINE m == s.recs[head]
               young == {k \in KeysIn(m) : k >= StartOf(cutoff)}
    <3>1. m \in Maps
      BY <1>2, <2>2
    <3>2. young \in SUBSET Keys /\ KeysIn(m) \cap young = young
      BY DEF KeysIn
    <3>3. trim = Only(m, young)
      BY DEF TrimBelow
    <3> HIDE DEF m, young, trim
    <3>4. trim \in Maps /\ KeysIn(trim) = young
      BY <3>1, <3>2, <3>3, OnlyTypes
    <3> QED BY <3>4 DEF young, m
  <2>4. KeysIn(trim) # {}
    BY <2>1, <2>3
  <2>5. \A l \in Leaves : recs[l] = IF l \in freed THEN NoRecords
                                    ELSE IF l = head THEN trim ELSE s.recs[l]
    OBVIOUS
  <2> HIDE DEF trim, head, kept, freed, recs
  <2>6. recs \in [Leaves -> Maps]
    BY <1>2, <2>3, NoRecordsTypes DEF recs, trim
  \* what the leaves hold that remain
  <2>7. ASSUME NEW l \in kept
        PROVE  /\ KeysIn(recs[l]) # {} /\ KeysIn(recs[l]) \in SUBSET Keys
               /\ KeysIn(recs[l]) \subseteq KeysIn(s.recs[l])
               /\ \E k \in KeysIn(recs[l]) : k >= StartOf(cutoff)
    <3>1. l \in s.live /\ l \in Leaves /\ l \notin freed
      BY <1>2, <1>3, <2>7
    <3>2. CASE l = head
      BY <3>2, <2>1, <2>3, <2>4, <2>5, <2>2 DEF KeysIn
    <3>3. CASE l # head
      <4>1. recs[l] = s.recs[l]
        BY <3>1, <3>3, <2>5
      <4>2. s.node[head] < s.node[l]
        BY <3>1, <3>3, <2>1, <2>2, <2>7, <1>2 DEF StructureOK, NodesDiffer
      <4>3. PICK k \in KeysIn(s.recs[head]) : k >= StartOf(cutoff)
        BY <2>1
      <4>4. k < s.node[l] /\ s.node[l] \in KeysIn(s.recs[l]) /\ k \in Nat
        BY <3>1, <4>2, <2>2, <1>2, NodeTypes DEF StructureOK, LeavesApart, KeysIn
      <4>5. s.node[l] >= StartOf(cutoff)
        BY <4>3, <4>4, <1>2, <3>1
      <4> QED BY <4>1, <4>4, <4>5 DEF KeysIn
    <3> QED BY <3>2, <3>3
  <2>8. \A l \in kept : ~Stale(recs[l], cutoff)
    <3> TAKE l \in kept
    <3>1. recs[l] \in Maps
      BY <2>6, <1>2, <1>3
    <3>2. PICK k \in KeysIn(recs[l]) : k >= StartOf(cutoff)
      BY <2>7
    <3>3. k \in Nat
      BY <2>7, <1>2
    <3> QED BY <3>1, <3>2, <3>3, <1>2, StaleMeansBelow
  <2>9. \A l \in kept : /\ nodes[l] = Min(KeysIn(recs[l]))
                        /\ nodes[l] \in KeysIn(recs[l])
                        /\ \A k \in KeysIn(recs[l]) : nodes[l] <= k
                        /\ nodes[l] \in Keys /\ nodes[l] \in Nat
    <3> TAKE l \in kept
    <3>1. l \in Leaves /\ s.node[l] # NoKey
      BY <1>2, <1>3 DEF NoKey
    <3>2. nodes[l] = Min(KeysIn(recs[l]))
      BY <3>1, <2>8
    <3>3. /\ Min(KeysIn(recs[l])) \in KeysIn(recs[l])
          /\ \A k \in KeysIn(recs[l]) : Min(KeysIn(recs[l])) <= k
      BY <2>7, KeySetEnds
    <3> QED BY <3>2, <3>3, <2>7, <1>2
  <2>10. \A l \in Leaves : l \notin kept => nodes[l] = NoKey /\ KeysIn(recs[l]) = {}
    <3> SUFFICES ASSUME NEW l \in Leaves, l \notin kept
                 PROVE  nodes[l] = NoKey /\ KeysIn(recs[l]) = {}
      OBVIOUS
    <3>1. CASE l \in freed
      <4>1. KeysIn(recs[l]) = {}
        BY <3>1, <2>5, NoRecordsTypes
      <4> QED BY <4>1 DEF Stale
    <3>2. CASE l \notin freed
      <4>1. l \notin s.live /\ l # head
        BY <3>2, <1>3, <2>1
      <4> QED BY <4>1, <3>2, <2>5 DEF StructureOK, IndexMatches
    <3> QED BY <3>1, <3>2
  <2>11. nodes \in [Leaves -> Keys \cup {NoKey}]
    BY <2>9, <2>10
  <2>12. used \in [Leaves -> Nat]
    <3>1. \A l \in Leaves : Compacted(recs[l]) \in Nat
      BY <2>6, CompactedIsNat
    <3> QED BY <3>1 DEF Symbols
  <2>13. /\ nexts \in [Leaves -> Leaves \cup {NoLeaf}]
         /\ prevs \in [Leaves -> Leaves \cup {NoLeaf}]
    BY DEF Symbols
  <2>14. last = s.last
    <3>1. s.last \in s.live /\ \A m \in s.live : s.node[m] <= s.node[s.last]
      BY <2>2, LastIsHighest
    <3>2. s.last \in kept
      BY <3>1, <2>1, <2>2
    <3>3. s.next[s.last] = NoLeaf
      <4>1. \A m \in s.live : ~Follows(s, s.last, m)
        BY <3>1, <1>2 DEF Follows
      <4> QED BY <4>1, <3>1 DEF StructureOK, ChainInOrder
    <3>4. \A l \in kept : s.next[l] = NoLeaf => l = s.last
      <4> SUFFICES ASSUME NEW l \in kept, l # s.last PROVE s.next[l] \in s.live
        BY <1>2
      <4>1. l \in s.live /\ s.node[l] < s.node[s.last]
        BY <3>1, <1>2, <1>3 DEF StructureOK, NodesDiffer
      <4> QED BY <4>1, <3>1, NextIsAbove
    <3> QED BY <3>2, <3>3, <3>4, <2>2
  <2>15. count \in Nat
    <3>1. [s EXCEPT !.recs = recs] \in Symbols
      BY <2>6 DEF Symbols
    <3>2. removed \in Int
      BY <3>1, <1>2, CountInIsNat
    <3> HIDE DEF removed
    <3> QED BY <3>2 DEF Symbols
  <2>16. Cardinality(kept) \in Nat
    BY <1>2, <1>3, LeavesAssumption, FS_Subset, FS_CardinalityType
  <2>17. lowest \in Nat
    <3> DEFINE H == {HeaderMin(recs[l]) : l \in kept}
    <3>1. \A l \in kept : HeaderMin(recs[l]) \in Nat
      BY <2>6, <1>2, <1>3, HeaderTypes
    <3>2. H \in SUBSET Nat /\ H # {}
      BY <3>1, <2>1
    <3>3. \E x \in H : \A y \in H : x <= y
      BY <3>2, LeastElement
    <3>4. Min(H) \in H
      BY <3>3 DEF Min
    <3>5. lowest = Min(H)
      BY <2>2
    <3> QED BY <3>2, <3>4, <3>5
  <2>18. highest \in Nat
    BY DEF Symbols
  <2> HIDE DEF used, nexts, prevs, nodes, count, lowest, highest, last, t
  <2>19. t \in Symbols
    <3>1. s.live \ freed \in SUBSET Leaves /\ s.last \in Leaves \cup {NoLeaf}
      BY DEF Symbols
    <3> QED BY <1>1, <3>1, <2>2, <2>6, <2>11, <2>12, <2>13, <2>14, <2>15, <2>16, <2>17,
               <2>18 DEF Symbols
  <2>20. /\ t.live = kept /\ t.node = nodes /\ t.recs = recs /\ t.next = nexts
         /\ t.prev = prevs /\ t.first = head /\ t.last = s.last
    BY <1>1, <1>3, <2>14
  <2>21. IndexMatches(t)
    BY <2>9, <2>10, <2>20 DEF IndexMatches
  <2>22. \A a, b \in kept : s.node[a] < s.node[b] =>
           \A j \in KeysIn(recs[a]) : j < s.node[b] /\ s.node[b] <= nodes[b]
                                      /\ j \in Nat /\ nodes[b] \in Nat
    <3> SUFFICES ASSUME NEW a \in kept, NEW b \in kept, s.node[a] < s.node[b],
                        NEW j \in KeysIn(recs[a])
                 PROVE  j < s.node[b] /\ s.node[b] <= nodes[b]
                        /\ j \in Nat /\ nodes[b] \in Nat
      OBVIOUS
    <3>1. a \in s.live /\ b \in s.live /\ j \in KeysIn(s.recs[a])
      BY <1>3, <2>7
    <3>2. j < s.node[b]
      BY <3>1 DEF StructureOK, LeavesApart
    <3>3. nodes[b] \in KeysIn(s.recs[b]) /\ nodes[b] \in Nat
      BY <2>7, <2>9
    <3>4. s.node[b] <= nodes[b]
      BY <3>1, <3>3, NodeTypes DEF StructureOK
    <3> QED BY <3>1, <3>2, <3>3, <3>4, <1>2 DEF KeysIn
  <2>23. \A a, b \in kept : s.node[a] < s.node[b] => nodes[a] < nodes[b]
    BY <2>9, <2>22, <1>2, <1>3
  <2>24. ChainInOrder(t) /\ NodesDiffer(t)
    <3>1. \A m \in kept : m \in Leaves /\ m \notin freed
      BY <1>2, <1>3
    <3>2. \A m \in kept : nexts[m] = s.next[m]
      BY <3>1 DEF nexts
    <3>3. \A m \in kept : prevs[m] = IF m = head THEN NoLeaf ELSE s.prev[m]
      BY <3>1 DEF prevs
    <3> QED BY <2>1, <2>2, <2>9, <2>19, <2>20, <2>23, <3>2, <3>3, SuffixSound
  <2>25. LeavesApart(t)
    <3> SUFFICES ASSUME NEW a \in kept, NEW b \in kept, nodes[a] < nodes[b],
                        NEW j \in KeysIn(recs[a])
                 PROVE  j < nodes[b]
      BY <2>20 DEF LeavesApart
    <3>1. s.node[a] < s.node[b]
      <4>1. a \in s.live /\ b \in s.live /\ s.node[a] \in Nat /\ s.node[b] \in Nat
            /\ nodes[a] \in Nat /\ nodes[b] \in Nat
        BY <1>2, <1>3, <2>9
      <4>2. s.node[a] # s.node[b]
        BY <4>1 DEF StructureOK, NodesDiffer
      <4>3. ~(s.node[b] < s.node[a])
        BY <4>1, <2>23
      <4> QED BY <4>1, <4>2, <4>3
    <3> QED BY <3>1, <2>22, <1>2, <1>3
  <2> QED BY <2>19, <2>21, <2>24, <2>25 DEF StructureOK, t
<1> QED BY <1>4, <1>5

------------------------------------------------------------------------------
(* The specification.                                                      *)

Inv == TypeOK /\ StructureSound

\* The invariant holds of a new file.
LEMMA InitInv == Init => Inv
BY NewSymbolSound DEF Init, Inv, TypeOK, StructureSound

\* Every step of a writer that makes none of the writes AllWrites = FALSE
\* leaves out keeps the invariant.
LEMMA NextInv ==
  ASSUME AllWrites = FALSE, Inv, [Next]_vars
  PROVE  Inv'
<1>1. /\ sym \in Symbols /\ disk \in Symbols /\ StructureOK(sym) /\ StructureOK(disk)
      /\ \/ txn = Idle
         \/ txn \in [op : {"batch"}, from : Keys, entries : Nat]
         \/ txn \in [op : {"range"}, lo : Times, hi : Times]
  BY DEF Inv, TypeOK, StructureSound
<1>2. ASSUME NEW k \in Keys, CanTakeEntry(k)
      PROVE  NextEntry(k) \in [op : {"batch"}, from : Keys, entries : Nat]
  BY <1>1, <1>2 DEF CanTakeEntry, NextEntry, EntriesSoFar, Idle
<1>3. ASSUME NEW k \in Keys, NEW v \in Vals, NEW overwrite \in PutFlags,
             BatchPut(k, v, overwrite)
      PROVE  Inv'
  <2>1. overwrite \in BOOLEAN
    BY WritesAssumption
  <2>2. sym' \in Symbols /\ StructureOK(sym')
    BY <1>1, <1>3, <2>1, WriteSound DEF BatchPut
  <2>3. txn' \in [op : {"batch"}, from : Keys, entries : Nat] /\ disk' = disk
    BY <1>2, <1>3 DEF BatchPut
  <2> QED BY <1>1, <2>2, <2>3 DEF Inv, TypeOK, StructureSound
<1>4. ASSUME NEW k \in Keys, NEW v \in Vals, NEW overwrite \in PutFlags,
             BatchRefused(k, v, overwrite)
      PROVE  Inv'
  BY <1>1, <1>4 DEF BatchRefused, Inv, TypeOK, StructureSound
<1>5. ASSUME NEW k \in Keys, BatchDelete(k) PROVE Inv'
  <2>1. sym' \in Symbols /\ StructureOK(sym')
    BY <1>1, <1>5, DeleteSound DEF BatchDelete
  <2>2. txn' \in [op : {"batch"}, from : Keys, entries : Nat] /\ disk' = disk
    BY <1>2, <1>5 DEF BatchDelete
  <2> QED BY <1>1, <2>1, <2>2 DEF Inv, TypeOK, StructureSound
<1>6. ASSUME NEW lo \in Times, NEW hi \in Times, BeginRange(lo, hi) PROVE Inv'
  BY <1>1, <1>6 DEF BeginRange, Inv, TypeOK, StructureSound
<1>7. ASSUME RangeStep PROVE Inv'
  <2>1. Lowest \in Keys
    BY <1>7 DEF RangeStep, Holds, KeysIn
  <2>2. sym' = AfterDelete(sym, Lowest) /\ disk' = disk /\ txn' = txn
    BY <1>7 DEF RangeStep
  <2>3. sym' \in Symbols /\ StructureOK(sym')
    BY <1>1, <2>1, <2>2, DeleteSound
  <2> QED BY <1>1, <2>2, <2>3 DEF Inv, TypeOK, StructureSound
<1>8. ASSUME Commit PROVE Inv'
  BY <1>1, <1>8 DEF Commit, Inv, TypeOK, StructureSound
<1>9. ASSUME Fail PROVE Inv'
  BY <1>1, <1>9 DEF Fail, Inv, TypeOK, StructureSound
<1>10. ASSUME NEW cutoff \in Times, TruncateBefore(cutoff) PROVE Inv'
  <2>1. sym' \in Symbols /\ StructureOK(sym')
    BY <1>1, <1>10, TruncateSound DEF TruncateBefore
  <2> QED BY <1>1, <1>10, <2>1 DEF TruncateBefore, Inv, TypeOK, StructureSound
<1>11. ASSUME SymbolDrop PROVE Inv'
  <2>1. sym' = NewSymbol /\ disk' = sym' /\ txn' = txn
    BY <1>1, <1>11, DropSound DEF SymbolDrop
  <2> QED BY <1>1, <2>1, NewSymbolSound DEF Inv, TypeOK, StructureSound
<1>12. ASSUME UNCHANGED vars PROVE Inv'
  BY <1>1, <1>12 DEF vars, Inv, TypeOK, StructureSound
<1> QED BY <1>3, <1>4, <1>5, <1>6, <1>7, <1>8, <1>9, <1>10, <1>11, <1>12 DEF Next

\* The invariant holds in every state.
LEMMA InvAlways ==
  ASSUME AllWrites = FALSE
  PROVE  Spec => []Inv
BY InitInv, NextInv, PTL DEF Spec

\* Through every transaction the fields of the symbol stay in their domains.
THEOREM TypeAlwaysOK ==
  ASSUME AllWrites = FALSE
  PROVE  Spec => []TypeOK
<1>1. Inv => TypeOK
  BY DEF Inv
<1> QED BY <1>1, InvAlways, PTL

\* Through every transaction index and chain of the symbol match its leaves:
\* inserts, splits, deletes, truncation and rollback leave no leaf out of
\* order, unreachable or under a wrong index key.
THEOREM StructureAlwaysSound ==
  ASSUME AllWrites = FALSE
  PROVE  Spec => []StructureSound
<1>1. Inv => StructureSound
  BY DEF Inv
<1> QED BY <1>1, InvAlways, PTL

\* In every state a point lookup finds each record the leaves hold.
THEOREM GetAlwaysExact ==
  ASSUME AllWrites = FALSE
  PROVE  Spec => []GetFindsEveryRecord
<1>1. Inv => GetFindsEveryRecord
  BY GetIsExact DEF Inv, TypeOK, StructureSound, GetFindsEveryRecord
<1> QED BY <1>1, InvAlways, PTL

------------------------------------------------------------------------------
(* The map the leaves of a symbol hold.                                    *)

\* No key lies in two leaves.
LEMMA OneHolder ==
  ASSUME NEW s \in Symbols, StructureOK(s), NEW l \in s.live, NEW m \in s.live,
         NEW k \in KeysIn(s.recs[l]), k \in KeysIn(s.recs[m])
  PROVE  l = m
BY DescendFinds

\* Contents is a map; it holds the records of the leaves and no others.
LEMMA ContentsHolds ==
  ASSUME NEW s \in Symbols, StructureOK(s)
  PROVE  /\ Contents(s) \in Maps
         /\ KeysOf(s) = KeysIn(Contents(s))
         /\ \A l \in s.live : \A k \in KeysIn(s.recs[l]) :
              k \in KeysOf(s) /\ Contents(s)[k] = s.recs[l][k]
         /\ \A k \in KeysOf(s) : \E l \in s.live : k \in KeysIn(s.recs[l])
<1>1. s.live \subseteq Leaves /\ s.recs \in [Leaves -> Maps]
  BY DEF Symbols
<1>2. ASSUME NEW l \in s.live, NEW k \in KeysIn(s.recs[l])
      PROVE  k \in KeysOf(s) /\ Contents(s)[k] = s.recs[l][k]
  <2> DEFINE h == CHOOSE x \in Holders(s, k) : TRUE
  <2>1. k \in Keys /\ l \in Holders(s, k)
    BY DEF KeysIn, Holders
  <2>2. h \in Holders(s, k)
    BY <2>1
  <2>3. h = l
    BY <2>2, <1>2, OneHolder DEF Holders
  <2>4. Contents(s)[k] = s.recs[h][k]
    BY <2>1 DEF Contents
  <2> QED BY <2>1, <2>3, <2>4 DEF KeysOf
<1>3. ASSUME NEW k \in KeysOf(s) PROVE \E l \in s.live : k \in KeysIn(s.recs[l])
  BY DEF KeysOf, Holders
<1>4. ASSUME NEW k \in Keys, k \notin KeysOf(s) PROVE Contents(s)[k] = Absent
  BY <1>4 DEF KeysOf, Contents
<1>5. ASSUME NEW k \in KeysOf(s) PROVE k \in Keys /\ Contents(s)[k] \in Vals
  <2>1. PICK l \in s.live : k \in KeysIn(s.recs[l])
    BY <1>3
  <2>2. Contents(s)[k] = s.recs[l][k] /\ k \in Keys /\ s.recs[l][k] # Absent
    BY <2>1, <1>2 DEF KeysIn
  <2>3. s.recs[l] \in [Keys -> Vals \cup {Absent}]
    BY <1>1 DEF Maps
  <2> QED BY <2>2, <2>3
<1>6. Contents(s) = [k \in Keys |-> Contents(s)[k]]
  BY DEF Contents
<1>7. Contents(s) \in Maps
  BY <1>4, <1>5, <1>6 DEF Maps
<1>8. KeysOf(s) = KeysIn(Contents(s))
  BY <1>4, <1>5, ValsAssumption DEF KeysIn
<1> QED BY <1>2, <1>3, <1>7, <1>8

\* A map that agrees with every leaf and holds nothing else is Contents.
LEMMA ContentsIs ==
  ASSUME NEW s \in Symbols, StructureOK(s), NEW f \in Maps,
         \A l \in s.live : \A k \in KeysIn(s.recs[l]) : f[k] = s.recs[l][k],
         \A k \in KeysIn(f) : \E l \in s.live : k \in KeysIn(s.recs[l])
  PROVE  Contents(s) = f
<1>1. ASSUME NEW k \in Keys PROVE Contents(s)[k] = f[k]
  <2>1. CASE k \in KeysOf(s)
    <3>1. PICK l \in s.live : k \in KeysIn(s.recs[l])
      BY <2>1, ContentsHolds
    <3> QED BY <3>1, ContentsHolds
  <2>2. CASE k \notin KeysOf(s)
    <3>1. k \notin KeysIn(f) /\ k \notin KeysIn(Contents(s))
      BY <2>2, ContentsHolds
    <3> QED BY <3>1 DEF KeysIn
  <2> QED BY <2>1, <2>2
<1>2. Contents(s) \in Maps
  BY ContentsHolds
<1> QED BY <1>1, <1>2 DEF Maps

\* A new symbol holds nothing.
LEMMA NewSymbolEmpty ==
  Contents(NewSymbol) = NoRecords /\ KeysOf(NewSymbol) = {}
<1>1. NewSymbol.live = {}
  BY DEF NewSymbol
<1> QED BY <1>1 DEF Contents, KeysOf, Holders, NoRecords

------------------------------------------------------------------------------
(* What the writes do to it.                                               *)

\* The fields of symbol_insert's operations that make up the map.
LEMMA PutInLeafFields ==
  ASSUME NEW s \in Symbols, NEW l \in Leaves, NEW k \in Keys, NEW v \in Vals
  PROVE  LET t == PutInLeaf(s, l, k, v)
         IN  /\ t.live = s.live /\ t.leaves = s.leaves
             /\ t.recs = [s.recs EXCEPT ![l] = [s.recs[l] EXCEPT ![k] = v]]
             /\ IF k \in KeysIn(s.recs[l])
                THEN t.count = s.count /\ t.minTime = s.minTime /\ t.maxTime = s.maxTime
                ELSE /\ t.count = s.count + 1
                     /\ t.minTime = IF TimeOf(k) < s.minTime THEN TimeOf(k) ELSE s.minTime
                     /\ t.maxTime = IF TimeOf(k) > s.maxTime THEN TimeOf(k) ELSE s.maxTime
BY DEF PutInLeaf, Counted, Symbols

\* Likewise of a new tail leaf.
LEMMA NewTailFields ==
  ASSUME NEW s \in Symbols, NEW l \in Leaves, NEW p \in Leaves,
         NEW k \in Keys, NEW v \in Vals
  PROVE  LET t == NewTail(s, l, p, k, v)
         IN  /\ t.live = s.live \cup {p} /\ t.leaves = s.leaves + 1
             /\ t.recs = [s.recs EXCEPT ![p] = [NoRecords EXCEPT ![k] = v]]
             /\ t.count = s.count + 1
             /\ t.minTime = IF TimeOf(k) < s.minTime THEN TimeOf(k) ELSE s.minTime
             /\ t.maxTime = IF TimeOf(k) > s.maxTime THEN TimeOf(k) ELSE s.maxTime
BY DEF NewTail, Counted, Symbols

\* Likewise of the first leaf.
LEMMA FirstLeafFields ==
  ASSUME NEW s \in Symbols, NEW p \in Leaves, NEW k \in Keys, NEW v \in Vals
  PROVE  LET t == FirstLeaf(s, p, k, v)
         IN  /\ t.live = s.live \cup {p} /\ t.leaves = 1
             /\ t.recs = [s.recs EXCEPT ![p] = [NoRecords EXCEPT ![k] = v]]
             /\ t.count = 1 /\ t.minTime = TimeOf(k) /\ t.maxTime = TimeOf(k)
BY DEF FirstLeaf, Symbols

\* Likewise of leaf_split.
LEMMA SplitFields ==
  ASSUME NEW s \in Symbols, NEW l \in Leaves, NEW p \in Leaves
  PROVE  LET t == Split(s, l, p)
         IN  /\ t.live = s.live \cup {p} /\ t.leaves = s.leaves + 1
             /\ t.recs = [s.recs EXCEPT ![l] = Only(s.recs[l], Lower(s.recs[l])),
                                        ![p] = Only(s.recs[l], Upper(s.recs[l]))]
             /\ t.count = s.count /\ t.minTime = s.minTime /\ t.maxTime = s.maxTime
BY DEF Split, Symbols

\* The bytes the leaves have used after symbol_insert's operations.
LEMMA PutInLeafUsed ==
  ASSUME NEW s \in Symbols, NEW l \in Leaves, NEW k \in Keys, NEW v \in Vals
  PROVE  PutInLeaf(s, l, k, v).used
           = [s.used EXCEPT ![l] = UsedAfter(s.recs[l], s.used[l], k, v)]
BY DEF PutInLeaf, Counted, Symbols

\* Likewise of a new tail leaf and of the first leaf.
LEMMA NewLeafUsed ==
  ASSUME NEW s \in Symbols, NEW p \in Leaves, NEW k \in Keys, NEW v \in Vals
  PROVE  LET used == [s.used EXCEPT ![p] = UsedAfter(NoRecords, 0, k, v)]
         IN  /\ FirstLeaf(s, p, k, v).used = used
             /\ \A l \in Leaves : NewTail(s, l, p, k, v).used = used
<1>1. FirstLeaf(s, p, k, v).used = [s.used EXCEPT ![p] = UsedAfter(NoRecords, 0, k, v)]
  BY DEF FirstLeaf
<1>2. ASSUME NEW l \in Leaves
      PROVE  NewTail(s, l, p, k, v).used = [s.used EXCEPT ![p] = UsedAfter(NoRecords, 0, k, v)]
  BY DEF NewTail, Counted, Symbols
<1> QED BY <1>1, <1>2

\* Likewise of leaf_split.
LEMMA SplitUsed ==
  ASSUME NEW s \in Symbols, NEW l \in Leaves, NEW p \in Leaves
  PROVE  Split(s, l, p).used
           = [s.used EXCEPT ![l] = Compacted(Only(s.recs[l], Lower(s.recs[l]))),
                            ![p] = Compacted(Only(s.recs[l], Upper(s.recs[l])))]
BY DEF Split, Symbols

\* A record that goes into a leaf goes into the map.
LEMMA PutInLeafMaps ==
  ASSUME NEW s \in Symbols, StructureOK(s), NEW l \in s.live, NEW k \in Keys,
         NEW v \in Vals, NEW t \in Symbols, StructureOK(t),
         t.live = s.live,
         t.recs = [s.recs EXCEPT ![l] = [s.recs[l] EXCEPT ![k] = v]]
  PROVE  /\ Contents(t) = [Contents(s) EXCEPT ![k] = v]
         /\ k \in KeysIn(s.recs[l]) <=> k \in KeysOf(s)
         /\ KeysOf(t) = KeysOf(s) \cup {k}
<1> DEFINE f == [Contents(s) EXCEPT ![k] = v]
<1>1. /\ l \in Leaves /\ s.live \subseteq Leaves
      /\ s.recs \in [Leaves -> Maps] /\ s.recs[l] \in Maps
  BY DEF Symbols
<1>2. Contents(s) \in Maps /\ f \in Maps /\ KeysIn(f) = KeysOf(s) \cup {k}
  <2> DEFINE m == Contents(s)
  <2>1. m \in Maps /\ KeysOf(s) = KeysIn(m)
    BY ContentsHolds
  <2> HIDE DEF m
  <2>2. /\ [m EXCEPT ![k] = v] \in Maps
        /\ KeysIn([m EXCEPT ![k] = v]) = KeysIn(m) \cup {k}
    BY <2>1, WithRecordTypes
  <2> QED BY <2>1, <2>2 DEF m
<1>3. /\ KeysIn(t.recs[l]) = KeysIn(s.recs[l]) \cup {k}
      /\ t.recs[l][k] = v
      /\ \A j \in KeysIn(s.recs[l]) : j # k => t.recs[l][j] = s.recs[l][j]
      /\ \A m \in s.live : m # l => t.recs[m] = s.recs[m]
  BY <1>1, WithRecordTypes DEF Maps, KeysIn
<1>4. \A m \in s.live : k \in KeysIn(s.recs[m]) => m = l
  <2> SUFFICES ASSUME NEW m \in s.live, k \in KeysIn(s.recs[m]), m # l PROVE FALSE
    OBVIOUS
  <2>1. k \in KeysIn(t.recs[m]) /\ k \in KeysIn(t.recs[l])
    BY <1>3
  <2> QED BY <2>1, OneHolder
<1>5. f[k] = v /\ \A j \in Keys : j # k => f[j] = Contents(s)[j]
  BY <1>2 DEF Maps
<1>6. ASSUME NEW m \in t.live, NEW j \in KeysIn(t.recs[m])
      PROVE  f[j] = t.recs[m][j]
  <2>1. CASE j = k
    <3>1. m = l
      BY <2>1, <1>3, OneHolder
    <3> QED BY <2>1, <3>1, <1>3, <1>5
  <2>2. CASE j # k
    <3>1. j \in KeysIn(s.recs[m]) /\ t.recs[m][j] = s.recs[m][j] /\ j \in Keys
      BY <2>2, <1>3 DEF KeysIn
    <3>2. Contents(s)[j] = s.recs[m][j]
      BY <3>1, ContentsHolds
    <3> QED BY <2>2, <3>1, <3>2, <1>5
  <2> QED BY <2>1, <2>2
<1>7. ASSUME NEW j \in KeysIn(f) PROVE \E m \in t.live : j \in KeysIn(t.recs[m])
  <2>1. CASE j = k
    BY <2>1, <1>3
  <2>2. CASE j # k
    <3>1. PICK m \in s.live : j \in KeysIn(s.recs[m])
      BY <2>2, <1>2, ContentsHolds
    <3> QED BY <3>1, <1>3
  <2> QED BY <2>1, <2>2
<1>8. Contents(t) = f
  <2> HIDE DEF f
  <2> QED BY <1>2, <1>6, <1>7, ContentsIs
<1>9. k \in KeysIn(s.recs[l]) <=> k \in KeysOf(s)
  BY <1>4, ContentsHolds
<1>10. KeysOf(t) = KeysIn(Contents(t))
  BY ContentsHolds
<1> QED BY <1>2, <1>8, <1>9, <1>10

\* A leaf made for one new record adds it to the map.
LEMMA NewLeafMaps ==
  ASSUME NEW s \in Symbols, StructureOK(s), NEW p \in Leaves \ s.live, NEW k \in Keys,
         NEW v \in Vals, NEW t \in Symbols, StructureOK(t),
         t.live = s.live \cup {p},
         t.recs = [s.recs EXCEPT ![p] = [NoRecords EXCEPT ![k] = v]]
  PROVE  /\ Contents(t) = [Contents(s) EXCEPT ![k] = v]
         /\ k \notin KeysOf(s)
         /\ KeysOf(t) = KeysOf(s) \cup {k}
<1> DEFINE f == [Contents(s) EXCEPT ![k] = v]
<1>1. s.live \subseteq Leaves /\ s.recs \in [Leaves -> Maps]
  BY DEF Symbols
<1>2. Contents(s) \in Maps /\ f \in Maps /\ KeysIn(f) = KeysOf(s) \cup {k}
  <2> DEFINE m == Contents(s)
  <2>1. m \in Maps /\ KeysOf(s) = KeysIn(m)
    BY ContentsHolds
  <2> HIDE DEF m
  <2>2. /\ [m EXCEPT ![k] = v] \in Maps
        /\ KeysIn([m EXCEPT ![k] = v]) = KeysIn(m) \cup {k}
    BY <2>1, WithRecordTypes
  <2> QED BY <2>1, <2>2 DEF m
<1>3. /\ KeysIn(t.recs[p]) = {k}
      /\ t.recs[p][k] = v
      /\ \A m \in s.live : m # p /\ t.recs[m] = s.recs[m]
  BY <1>1, LoneRecordTypes DEF NoRecords
<1>4. \A m \in s.live : k \notin KeysIn(s.recs[m])
  <2> SUFFICES ASSUME NEW m \in s.live, k \in KeysIn(s.recs[m]) PROVE FALSE
    OBVIOUS
  <2>1. k \in KeysIn(t.recs[m]) /\ k \in KeysIn(t.recs[p]) /\ m # p
    BY <1>3
  <2> QED BY <2>1, OneHolder
<1>5. f[k] = v /\ \A j \in Keys : j # k => f[j] = Contents(s)[j]
  BY <1>2 DEF Maps
<1>6. ASSUME NEW m \in t.live, NEW j \in KeysIn(t.recs[m])
      PROVE  f[j] = t.recs[m][j]
  <2>1. CASE m = p
    BY <2>1, <1>3, <1>5
  <2>2. CASE m # p
    <3>1. m \in s.live /\ j \in KeysIn(s.recs[m]) /\ t.recs[m][j] = s.recs[m][j]
      BY <2>2, <1>3
    <3>2. j # k /\ j \in Keys
      BY <3>1, <1>4 DEF KeysIn
    <3>3. Contents(s)[j] = s.recs[m][j]
      BY <3>1, ContentsHolds
    <3> QED BY <3>1, <3>2, <3>3, <1>5
  <2> QED BY <2>1, <2>2
<1>7. ASSUME NEW j \in KeysIn(f) PROVE \E m \in t.live : j \in KeysIn(t.recs[m])
  <2>1. CASE j = k
    BY <2>1, <1>3
  <2>2. CASE j # k
    <3>1. PICK m \in s.live : j \in KeysIn(s.recs[m])
      BY <2>2, <1>2, ContentsHolds
    <3> QED BY <3>1, <1>3
  <2> QED BY <2>1, <2>2
<1>8. Contents(t) = f
  <2> HIDE DEF f
  <2> QED BY <1>2, <1>6, <1>7, ContentsIs
<1>9. k \notin KeysOf(s)
  BY <1>4, ContentsHolds
<1>10. KeysOf(t) = KeysIn(Contents(t))
  BY ContentsHolds
<1> QED BY <1>2, <1>8, <1>9, <1>10

\* A split moves records and leaves the map as it was.
LEMMA SplitMaps ==
  ASSUME NEW s \in Symbols, StructureOK(s), NEW l \in s.live,
         NEW p \in Leaves \ s.live, NEW t \in Symbols, StructureOK(t),
         t.live = s.live \cup {p},
         t.recs = [s.recs EXCEPT ![l] = Only(s.recs[l], Lower(s.recs[l])),
                                 ![p] = Only(s.recs[l], Upper(s.recs[l]))]
  PROVE  Contents(t) = Contents(s) /\ KeysOf(t) = KeysOf(s)
<1> DEFINE K == KeysIn(s.recs[l])
           lower == Lower(s.recs[l])
           upper == Upper(s.recs[l])
<1>1. /\ s.live \subseteq Leaves /\ s.recs \in [Leaves -> Maps] /\ l \in Leaves
      /\ s.recs[l] \in Maps /\ K \in SUBSET Keys /\ K # {} /\ p # l
  BY NodeTypes DEF Symbols, StructureOK
<1>2. lower \subseteq K /\ upper \subseteq K /\ lower \cup upper = K
  BY <1>1, HalvesApart
<1>3. /\ KeysIn(Only(s.recs[l], lower)) = lower
      /\ KeysIn(Only(s.recs[l], upper)) = upper
      /\ \A j \in lower : Only(s.recs[l], lower)[j] = s.recs[l][j]
      /\ \A j \in upper : Only(s.recs[l], upper)[j] = s.recs[l][j]
  <2>1. lower \in SUBSET Keys /\ upper \in SUBSET Keys
    BY <1>1, <1>2
  <2>2. /\ KeysIn(Only(s.recs[l], lower)) = K \cap lower
        /\ KeysIn(Only(s.recs[l], upper)) = K \cap upper
    BY <2>1, <1>1, OnlyTypes
  <2> HIDE DEF lower, upper
  <2> QED BY <2>1, <2>2, <1>2 DEF Only
<1> HIDE DEF lower, upper
<1>4. /\ t.recs[l] = Only(s.recs[l], lower) /\ t.recs[p] = Only(s.recs[l], upper)
      /\ \A m \in s.live : m # l => t.recs[m] = s.recs[m]
  BY <1>1 DEF lower, upper
<1>5. ASSUME NEW m \in t.live, NEW j \in KeysIn(t.recs[m])
      PROVE  Contents(s)[j] = t.recs[m][j]
  <2>1. CASE m = l \/ m = p
    <3>1. j \in K /\ t.recs[m][j] = s.recs[l][j]
      BY <2>1, <1>2, <1>3, <1>4
    <3> QED BY <3>1, ContentsHolds
  <2>2. CASE m # l /\ m # p
    BY <2>2, <1>4, ContentsHolds
  <2> QED BY <2>1, <2>2
<1>6. ASSUME NEW j \in KeysIn(Contents(s))
      PROVE  \E m \in t.live : j \in KeysIn(t.recs[m])
  <2>1. PICK m \in s.live : j \in KeysIn(s.recs[m])
    BY ContentsHolds
  <2>2. CASE m = l
    BY <2>1, <2>2, <1>2, <1>3, <1>4
  <2>3. CASE m # l
    BY <2>1, <2>3, <1>4
  <2> QED BY <2>2, <2>3
<1>7. Contents(t) = Contents(s)
  <2>1. Contents(s) \in Maps
    BY ContentsHolds
  <2> QED BY <2>1, <1>5, <1>6, ContentsIs
<1>8. KeysOf(t) = KeysIn(Contents(t)) /\ KeysOf(s) = KeysIn(Contents(s))
  BY ContentsHolds
<1> QED BY <1>7, <1>8

\* The four ways a write the code carries out changes a symbol.
LEMMA WriteWays ==
  ASSUME NEW s \in Symbols, StructureOK(s),
         NEW k \in Keys, NEW v \in Vals, NEW overwrite \in BOOLEAN,
         WriteStatus(s, k, v, overwrite) = "OK",
         ~Mishandled(s, k, v, overwrite),
         NEW t \in AfterWrite(s, k, v, overwrite)
  PROVE  \/ /\ s.live = {} /\ Fresh(k, v) = "OK"
            /\ \E p \in Leaves \ s.live : t = FirstLeaf(s, p, k, v)
         \/ /\ Fresh(k, v) = "OK"
            /\ \E l \in s.live, p \in Leaves \ s.live : t = NewTail(s, l, p, k, v)
         \/ \E l \in s.live : /\ Outcome(s.recs[l], s.used[l], k, v, overwrite) = "OK"
                              /\ t = PutInLeaf(s, l, k, v)
         \/ \E l \in s.live, p \in Leaves \ s.live : \E q \in {l, p} :
              /\ Lower(s.recs[l]) # {}
              /\ LET u == Split(s, l, p)
                 IN  /\ Outcome(u.recs[q], u.used[q], k, v, overwrite) = "OK"
                     /\ t = PutInLeaf(u, q, k, v)
<1> DEFINE l == Target(s, k, v, overwrite)
           way == Way(s, k, v, overwrite)
           m == s.recs[l]
<1>1. way # "refuse"
  <2> SUFFICES ASSUME way = "refuse" PROVE FALSE
    OBVIOUS
  <2>1. CASE s.first = NoLeaf
    BY <2>1 DEF WriteStatus, Way
  <2>2. CASE s.first # NoLeaf
    <3>1. WriteStatus(s, k, v, overwrite) = IF NeedsTail(s, l, k, v) THEN Fresh(k, v)
                                            ELSE Outcome(m, s.used[l], k, v, overwrite)
      BY <2>2 DEF WriteStatus
    <3>2. CASE TailTakes(s, k, v, overwrite)
      <4>1. Outcome(m, s.used[l], k, v, overwrite) = "OK"
        BY <3>2 DEF TailTakes, Target
      <4> QED BY <2>2, <3>2, <4>1 DEF Way
    <3>3. CASE ~TailTakes(s, k, v, overwrite)
      BY <2>2, <3>1, <3>3 DEF Way
    <3> QED BY <3>2, <3>3
  <2> QED BY <2>1, <2>2
<1>2. CASE s.first = NoLeaf
  <2>1. way = "first" /\ s.live = {} /\ Fresh(k, v) = "OK"
    BY <1>1, <1>2, FirstIsLowest DEF Way
  <2>2. PICK p \in Leaves \ s.live : t = FirstLeaf(s, p, k, v)
    BY <2>1 DEF AfterWrite
  <2> QED BY <2>1, <2>2
<1>3. CASE s.first # NoLeaf
  <2>1. l \in s.live
    BY <1>3, TargetLands
  <2>2. CASE way = "tail"
    <3>1. PICK p \in Leaves \ s.live : t = NewTail(s, l, p, k, v)
      BY <2>2 DEF AfterWrite
    <3>2. Fresh(k, v) = "OK"
      BY <2>2 DEF Way
    <3> QED BY <2>1, <3>1, <3>2
  <2>3. CASE way = "leaf"
    <3>1. t = PutInLeaf(s, l, k, v)
      BY <2>3 DEF AfterWrite
    <3>2. Outcome(m, s.used[l], k, v, overwrite) = "OK"
      BY <2>3 DEF Way
    <3> QED BY <2>1, <3>1, <3>2
  <2>4. CASE way = "split"
    <3>1. PICK p \in Leaves \ s.live :
            t = PutInLeaf(Split(s, l, p), IF ToUpper(m, k) THEN p ELSE l, k, v)
      BY <2>4 DEF AfterWrite
    <3>2. ~BecomesFirst(k, Half(m, k))
      BY <2>4 DEF Mishandled
    <3>3. Lower(m) # {}
      <4>1. SUFFICES ASSUME Lower(m) = {} PROVE KeysIn(Half(m, k)) = {}
        BY <3>2 DEF BecomesFirst
      <4>2. Half(m, k) = Only(m, {})
        BY <4>1 DEF Half, ToUpper
      <4>3. m \in Maps
        BY <2>1 DEF Symbols
      <4>4. KeysIn(Only(m, {})) = KeysIn(m) \cap {}
        BY <4>3, OnlyTypes
      <4> QED BY <4>2, <4>4
    <3> DEFINE u == Split(s, l, p)
               q == IF ToUpper(m, k) THEN p ELSE l
    <3>4. l \in Leaves /\ p \in Leaves /\ p # l
      BY <2>1 DEF Symbols
    <3>5. u.recs[q] = Half(m, k) /\ u.used[q] = Compacted(Half(m, k))
      <4>1. u.recs = [s.recs EXCEPT ![l] = Only(m, Lower(m)), ![p] = Only(m, Upper(m))]
        BY <3>4, SplitFields
      <4>2. u.used = [s.used EXCEPT ![l] = Compacted(Only(m, Lower(m))),
                                    ![p] = Compacted(Only(m, Upper(m)))]
        BY <3>4, SplitUsed
      <4>3. s.recs \in [Leaves -> Maps] /\ s.used \in [Leaves -> Nat]
        BY DEF Symbols
      <4> HIDE DEF u, l, m
      <4> QED BY <3>4, <4>1, <4>2, <4>3 DEF Half
    <3>6. Outcome(u.recs[q], u.used[q], k, v, overwrite) = "OK"
      BY <2>4, <3>5 DEF Way
    <3>7. q \in {l, p} /\ t = PutInLeaf(u, q, k, v)
      BY <3>1
    <3> HIDE DEF u, q
    <3>8. \E z \in {l, p} : /\ Outcome(u.recs[z], u.used[z], k, v, overwrite) = "OK"
                            /\ t = PutInLeaf(u, z, k, v)
      BY <3>6, <3>7
    <3> QED BY <2>1, <3>3, <3>8 DEF u
  <2>5. way \in {"tail", "leaf", "split", "refuse", "first"} /\ way # "first"
    BY <1>3 DEF Way
  <2> QED BY <1>1, <2>2, <2>3, <2>4, <2>5
<1> QED BY <1>2, <1>3

\* What a write leaves of leaf_count and of the other counters: one record
\* more, or an overwrite.
CountsRecord(s, t, k) ==
  /\ k \notin KeysOf(s)
  /\ t.count = s.count + 1
  /\ t.minTime = IF TimeOf(k) < s.minTime THEN TimeOf(k) ELSE s.minTime
  /\ t.maxTime = IF TimeOf(k) > s.maxTime THEN TimeOf(k) ELSE s.maxTime
CountsNothing(s, t, k) ==
  /\ k \in KeysOf(s)
  /\ t.count = s.count /\ t.minTime = s.minTime /\ t.maxTime = s.maxTime
FirstRecord(s, t, k) ==
  /\ s.live = {} /\ t.count = 1 /\ t.minTime = TimeOf(k) /\ t.maxTime = TimeOf(k)

\* A write sets its key in the map and nothing else, and its counters follow.
LEMMA WriteMaps ==
  ASSUME NEW s \in Symbols, StructureOK(s),
         NEW k \in Keys, NEW v \in Vals, NEW overwrite \in BOOLEAN,
         WriteStatus(s, k, v, overwrite) = "OK",
         ~Mishandled(s, k, v, overwrite),
         NEW t \in AfterWrite(s, k, v, overwrite)
  PROVE  /\ Contents(t) = [Contents(s) EXCEPT ![k] = v]
         /\ KeysOf(t) = KeysOf(s) \cup {k}
         /\ \/ t.live = s.live /\ t.leaves = s.leaves
            \/ \E p \in Leaves \ s.live : /\ t.live = s.live \cup {p}
                                          /\ t.leaves = IF s.live = {} THEN 1
                                                        ELSE s.leaves + 1
         /\ FirstRecord(s, t, k) \/ CountsRecord(s, t, k) \/ CountsNothing(s, t, k)
<1>1. t \in Symbols /\ StructureOK(t) /\ s.live \subseteq Leaves
  BY WriteSound DEF Symbols
<1>2. ASSUME s.live = {}, NEW p \in Leaves \ s.live, t = FirstLeaf(s, p, k, v)
      PROVE  /\ Contents(t) = [Contents(s) EXCEPT ![k] = v]
             /\ KeysOf(t) = KeysOf(s) \cup {k}
             /\ t.live = s.live \cup {p} /\ t.leaves = 1
             /\ FirstRecord(s, t, k)
  <2>1. /\ t.live = s.live \cup {p} /\ t.leaves = 1
        /\ t.recs = [s.recs EXCEPT ![p] = [NoRecords EXCEPT ![k] = v]]
        /\ t.count = 1 /\ t.minTime = TimeOf(k) /\ t.maxTime = TimeOf(k)
    BY <1>2, FirstLeafFields
  <2> QED BY <1>1, <1>2, <2>1, NewLeafMaps DEF FirstRecord
<1>3. ASSUME NEW l \in s.live, NEW p \in Leaves \ s.live, t = NewTail(s, l, p, k, v)
      PROVE  /\ Contents(t) = [Contents(s) EXCEPT ![k] = v]
             /\ KeysOf(t) = KeysOf(s) \cup {k}
             /\ t.live = s.live \cup {p} /\ t.leaves = s.leaves + 1
             /\ CountsRecord(s, t, k)
  <2>1. /\ t.live = s.live \cup {p} /\ t.leaves = s.leaves + 1
        /\ t.recs = [s.recs EXCEPT ![p] = [NoRecords EXCEPT ![k] = v]]
        /\ t.count = s.count + 1
        /\ t.minTime = IF TimeOf(k) < s.minTime THEN TimeOf(k) ELSE s.minTime
        /\ t.maxTime = IF TimeOf(k) > s.maxTime THEN TimeOf(k) ELSE s.maxTime
    BY <1>1, <1>3, NewTailFields
  <2>2. /\ Contents(t) = [Contents(s) EXCEPT ![k] = v]
        /\ KeysOf(t) = KeysOf(s) \cup {k} /\ k \notin KeysOf(s)
    BY <1>1, <2>1, NewLeafMaps
  <2> QED BY <2>1, <2>2 DEF CountsRecord
<1>4. ASSUME NEW u \in Symbols, StructureOK(u), NEW l \in u.live, t = PutInLeaf(u, l, k, v)
      PROVE  /\ Contents(t) = [Contents(u) EXCEPT ![k] = v]
             /\ KeysOf(t) = KeysOf(u) \cup {k}
             /\ t.live = u.live /\ t.leaves = u.leaves
             /\ CountsRecord(u, t, k) \/ CountsNothing(u, t, k)
  <2>1. l \in Leaves
    BY DEF Symbols
  <2>2. /\ t.live = u.live /\ t.leaves = u.leaves
        /\ t.recs = [u.recs EXCEPT ![l] = [u.recs[l] EXCEPT ![k] = v]]
        /\ IF k \in KeysIn(u.recs[l])
           THEN t.count = u.count /\ t.minTime = u.minTime /\ t.maxTime = u.maxTime
           ELSE /\ t.count = u.count + 1
                /\ t.minTime = IF TimeOf(k) < u.minTime THEN TimeOf(k) ELSE u.minTime
                /\ t.maxTime = IF TimeOf(k) > u.maxTime THEN TimeOf(k) ELSE u.maxTime
    BY <1>4, <2>1, PutInLeafFields
  <2>3. /\ Contents(t) = [Contents(u) EXCEPT ![k] = v]
        /\ k \in KeysIn(u.recs[l]) <=> k \in KeysOf(u)
        /\ KeysOf(t) = KeysOf(u) \cup {k}
    <3>1. /\ t.live = u.live
          /\ t.recs = [u.recs EXCEPT ![l] = [u.recs[l] EXCEPT ![k] = v]]
          /\ u \in Symbols /\ StructureOK(u) /\ l \in u.live
      BY <1>4, <2>2
    <3> QED BY <1>1, <3>1, PutInLeafMaps
  <2> QED BY <2>2, <2>3 DEF CountsRecord, CountsNothing
<1>5. ASSUME NEW l \in s.live, NEW p \in Leaves \ s.live, NEW q \in {l, p},
             Lower(s.recs[l]) # {}, t = PutInLeaf(Split(s, l, p), q, k, v)
      PROVE  /\ Contents(t) = [Contents(s) EXCEPT ![k] = v]
             /\ KeysOf(t) = KeysOf(s) \cup {k}
             /\ t.live = s.live \cup {p} /\ t.leaves = s.leaves + 1
             /\ CountsRecord(s, t, k) \/ CountsNothing(s, t, k)
  <2> DEFINE u == Split(s, l, p)
  <2>0. /\ l \in s.live /\ p \in Leaves \ s.live /\ Lower(s.recs[l]) # {}
        /\ l \in Leaves /\ p \in Leaves
    BY <1>1, <1>5
  <2>1. u \in Symbols /\ StructureOK(u) /\ u.live = s.live \cup {p}
    BY <2>0, SplitSound
  <2>2. /\ u.leaves = s.leaves + 1
        /\ u.recs = [s.recs EXCEPT ![l] = Only(s.recs[l], Lower(s.recs[l])),
                                   ![p] = Only(s.recs[l], Upper(s.recs[l]))]
        /\ u.count = s.count /\ u.minTime = s.minTime /\ u.maxTime = s.maxTime
    BY <2>0, SplitFields
  <2> HIDE DEF u
  <2>3. Contents(u) = Contents(s) /\ KeysOf(u) = KeysOf(s)
    BY <2>1, <2>2, SplitMaps
  <2>4. q \in u.live /\ t = PutInLeaf(u, q, k, v)
    BY <1>5, <2>1 DEF u
  <2>5. /\ Contents(t) = [Contents(u) EXCEPT ![k] = v]
        /\ KeysOf(t) = KeysOf(u) \cup {k}
        /\ t.live = u.live /\ t.leaves = u.leaves
        /\ CountsRecord(u, t, k) \/ CountsNothing(u, t, k)
    BY <2>1, <2>4, <1>4
  <2> QED BY <2>1, <2>2, <2>3, <2>5 DEF CountsRecord, CountsNothing
<1>6. CASE s.live = {} /\ \E p \in Leaves \ s.live : t = FirstLeaf(s, p, k, v)
  BY <1>2, <1>6
<1>7. CASE \E l \in s.live, p \in Leaves \ s.live : t = NewTail(s, l, p, k, v)
  BY <1>3, <1>7
<1>8. CASE \E l \in s.live : t = PutInLeaf(s, l, k, v)
  BY <1>4, <1>8
<1>9. CASE \E l \in s.live, p \in Leaves \ s.live : \E q \in {l, p} :
             Lower(s.recs[l]) # {} /\ t = PutInLeaf(Split(s, l, p), q, k, v)
  BY <1>5, <1>9
<1>10. \/ s.live = {} /\ \E p \in Leaves \ s.live : t = FirstLeaf(s, p, k, v)
       \/ \E l \in s.live, p \in Leaves \ s.live : t = NewTail(s, l, p, k, v)
       \/ \E l \in s.live : t = PutInLeaf(s, l, k, v)
       \/ \E l \in s.live, p \in Leaves \ s.live : \E q \in {l, p} :
            Lower(s.recs[l]) # {} /\ t = PutInLeaf(Split(s, l, p), q, k, v)
  BY WriteWays
<1> QED BY <1>6, <1>7, <1>8, <1>9, <1>10

------------------------------------------------------------------------------
(* What deletes and truncation do to it.                                   *)

\* A symbol whose leaves keep the records with keys in S and lose all others
\* is the map cut down to S.
LEMMA RestrictMaps ==
  ASSUME NEW s \in Symbols, StructureOK(s), NEW t \in Symbols, StructureOK(t),
         NEW S \in SUBSET Keys, t.live \subseteq s.live,
         \A m \in t.live : \A j \in KeysIn(t.recs[m]) :
           j \in KeysIn(s.recs[m]) /\ j \in S /\ t.recs[m][j] = s.recs[m][j],
         \A m \in s.live : \A j \in KeysIn(s.recs[m]) :
           j \in S => m \in t.live /\ j \in KeysIn(t.recs[m])
  PROVE  /\ Contents(t) = Only(Contents(s), S)
         /\ KeysOf(t) = KeysOf(s) \cap S
<1> DEFINE f == Only(Contents(s), S)
<1>1. f \in Maps /\ KeysIn(f) = KeysOf(s) \cap S
  <2>1. Contents(s) \in Maps /\ KeysOf(s) = KeysIn(Contents(s))
    BY ContentsHolds
  <2> QED BY <2>1, OnlyTypes
<1>2. ASSUME NEW m \in t.live, NEW j \in KeysIn(t.recs[m])
      PROVE  f[j] = t.recs[m][j]
  <2>1. m \in s.live /\ j \in KeysIn(s.recs[m]) /\ j \in S /\ t.recs[m][j] = s.recs[m][j]
    OBVIOUS
  <2>2. Contents(s)[j] = s.recs[m][j]
    BY <2>1, ContentsHolds
  <2> QED BY <2>1, <2>2 DEF Only
<1>3. ASSUME NEW j \in KeysIn(f) PROVE \E m \in t.live : j \in KeysIn(t.recs[m])
  <2>1. PICK m \in s.live : j \in KeysIn(s.recs[m])
    BY <1>1, ContentsHolds
  <2> QED BY <2>1, <1>1
<1> HIDE DEF f
<1>4. Contents(t) = f
  BY <1>1, <1>2, <1>3, ContentsIs
<1>5. KeysOf(t) = KeysIn(Contents(t))
  BY ContentsHolds
<1> QED BY <1>1, <1>4, <1>5 DEF f

\* A key of a set that bounds the set is the end of it.
LEMMA KeySetEndIs ==
  ASSUME NEW S \in SUBSET Keys, NEW k \in S
  PROVE  /\ (\A j \in S : k <= j) => Min(S) = k
         /\ (\A j \in S : j <= k) => Max(S) = k
<1> DEFINE low == Min(S)
           high == Max(S)
<1>1. /\ low \in S /\ \A j \in S : low <= j
      /\ high \in S /\ \A j \in S : j <= high
  BY KeySetEnds
<1>2. S \subseteq Nat
  BY KeysAssumption
<1> HIDE DEF low, high
<1>3. /\ (\A j \in S : k <= j) => low = k
      /\ (\A j \in S : j <= k) => high = k
  BY <1>1, <1>2
<1> QED BY <1>3 DEF low, high

\* The ends of the chain hold the ends of the map.
LEMMA EndsOfMap ==
  ASSUME NEW s \in Symbols, StructureOK(s)
  PROVE  /\ s.live = {} <=> KeysOf(s) = {}
         /\ s.live = {} <=> s.first = NoLeaf
         /\ s.live # {} => /\ HeaderMin(s.recs[s.first]) = TimeOf(Min(KeysOf(s)))
                           /\ HeaderMax(s.recs[s.last]) = TimeOf(Max(KeysOf(s)))
<1>1. KeysOf(s) \in SUBSET Keys /\ Keys \subseteq Nat
  BY KeysAssumption DEF KeysOf
<1>2. s.live = {} <=> KeysOf(s) = {}
  <2>1. s.live = {} => KeysOf(s) = {}
    BY ContentsHolds
  <2>2. ASSUME NEW l \in s.live PROVE KeysOf(s) # {}
    BY ContentsHolds, NodeTypes DEF StructureOK
  <2> QED BY <2>1, <2>2
<1>3. s.live = {} <=> s.first = NoLeaf
  BY FirstIsLowest
<1>4. ASSUME s.live # {} PROVE HeaderMin(s.recs[s.first]) = TimeOf(Min(KeysOf(s)))
  <2> DEFINE l == s.first
             K == KeysIn(s.recs[l])
  <2>1. l \in s.live /\ \A m \in s.live : s.node[l] <= s.node[m]
    BY <1>4, FirstIsLowest
  <2>2. /\ K # {} /\ K \in SUBSET Keys /\ s.node[l] \in K /\ s.node[l] \in Nat
        /\ \A k \in K : s.node[l] <= k
    BY <2>1, NodeTypes DEF StructureOK
  <2>3. \A k \in KeysOf(s) : s.node[l] <= k
    <3> TAKE k \in KeysOf(s)
    <3>1. PICK m \in s.live : k \in KeysIn(s.recs[m])
      BY ContentsHolds
    <3>2. s.node[m] \in Nat /\ s.node[m] <= k /\ k \in Nat
      BY <3>1, <1>1, NodeTypes DEF StructureOK
    <3> QED BY <3>2, <2>1, <2>2
  <2>4. s.node[l] \in KeysOf(s)
    BY <2>1, <2>2, ContentsHolds
  <2>5. Min(K) = s.node[l]
    BY <2>2, KeySetEndIs
  <2>6. Min(KeysOf(s)) = s.node[l]
    BY <2>3, <2>4, <1>1, KeySetEndIs
  <2> QED BY <2>2, <2>5, <2>6 DEF HeaderMin
<1>5. ASSUME s.live # {} PROVE HeaderMax(s.recs[s.last]) = TimeOf(Max(KeysOf(s)))
  <2> DEFINE l == s.last
             K == KeysIn(s.recs[l])
  <2>1. l \in s.live /\ \A m \in s.live : s.node[m] <= s.node[l]
    BY <1>5, LastIsHighest
  <2>2. K # {} /\ K \in SUBSET Keys /\ s.node[l] \in K
    BY <2>1, NodeTypes DEF StructureOK
  <2>3. Max(K) \in K /\ \A k \in K : k <= Max(K)
    BY <2>2, KeySetEnds
  <2>4. \A k \in KeysOf(s) : k <= Max(K)
    <3> TAKE k \in KeysOf(s)
    <3>1. PICK m \in s.live : k \in KeysIn(s.recs[m])
      BY ContentsHolds
    <3>2. CASE m = l
      BY <3>1, <3>2, <2>3
    <3>3. CASE m # l
      <4>1. s.node[m] \in Nat /\ s.node[l] \in Nat
        BY <2>1, NodeTypes DEF StructureOK
      <4>2. s.node[m] < s.node[l]
        BY <3>3, <4>1, <2>1 DEF StructureOK, NodesDiffer
      <4>3. k < s.node[l]
        BY <3>1, <4>2, <2>1 DEF StructureOK, LeavesApart
      <4>4. s.node[l] <= Max(K) /\ Max(K) \in Nat /\ k \in Nat
        BY <2>2, <2>3, <1>1
      <4> QED BY <4>1, <4>3, <4>4
    <3> QED BY <3>2, <3>3
  <2>5. Max(K) \in KeysOf(s)
    BY <2>1, <2>3, ContentsHolds
  <2>6. Max(KeysOf(s)) = Max(K)
    BY <2>4, <2>5, <1>1, KeySetEndIs
  <2> QED BY <2>2, <2>6 DEF HeaderMax
<1> QED BY <1>2, <1>3, <1>4, <1>5

\* The fields of symbol_delete's operations that make up the map.
LEMMA EraseFields ==
  ASSUME NEW s \in Symbols, NEW l \in Leaves, NEW k \in Keys
  PROVE  LET t == Erase(s, l, k)
         IN  /\ t.live = s.live /\ t.leaves = s.leaves /\ t.count = s.count
             /\ t.recs = [s.recs EXCEPT ![l] = Only(s.recs[l], KeysIn(s.recs[l]) \ {k})]
BY DEF Erase, Symbols

\* Likewise of leaf_unlink.
LEMMA UnlinkFields ==
  ASSUME NEW s \in Symbols, NEW l \in Leaves
  PROVE  LET t == Unlink(s, l)
         IN  /\ t.live = s.live \ {l} /\ t.count = s.count
             /\ t.leaves = IF s.leaves > 0 THEN s.leaves - 1 ELSE 0
             /\ t.recs = [s.recs EXCEPT ![l] = NoRecords]
BY DEF Unlink, Symbols

\* Likewise of the counters after a delete.
LEMMA UncountedFields ==
  ASSUME NEW s \in Symbols
  PROVE  LET t == Uncounted(s)
         IN  /\ t.live = s.live /\ t.recs = s.recs /\ t.leaves = s.leaves
             /\ t.first = s.first /\ t.last = s.last
             /\ t.count = IF s.count > 0 THEN s.count - 1 ELSE 0
             /\ t.minTime = IF t.first = NoLeaf THEN TopTime ELSE HeaderMin(t.recs[t.first])
             /\ t.maxTime = IF t.first = NoLeaf THEN 0 ELSE HeaderMax(t.recs[t.last])
BY DEF Uncounted, Symbols

\* The bytes the leaves have used after a delete.
LEMMA DeleteUsed ==
  ASSUME NEW s \in Symbols
  PROVE  /\ Uncounted(s).used = s.used
         /\ \A l \in Leaves : Unlink(s, l).used = [s.used EXCEPT ![l] = 0]
         /\ \A l \in Leaves, k \in Keys :
              Erase(s, l, k).used = [s.used EXCEPT ![l] =
                Compacted(Only(s.recs[l], KeysIn(s.recs[l]) \ {k}))]
<1>1. Uncounted(s).used = s.used
  BY DEF Uncounted, Symbols
<1>2. ASSUME NEW l \in Leaves PROVE Unlink(s, l).used = [s.used EXCEPT ![l] = 0]
  BY DEF Unlink, Symbols
<1>3. ASSUME NEW l \in Leaves, NEW k \in Keys
      PROVE  Erase(s, l, k).used = [s.used EXCEPT ![l] =
               Compacted(Only(s.recs[l], KeysIn(s.recs[l]) \ {k}))]
  BY DEF Erase, Symbols
<1> QED BY <1>1, <1>2, <1>3

\* leaf_count after some leaves are gone.
LeavesFollow(s, t) ==
  \/ t.live = s.live /\ t.leaves = s.leaves
  \/ \E l \in s.live : /\ t.live = s.live \ {l}
                       /\ t.leaves = IF s.leaves > 0 THEN s.leaves - 1 ELSE 0

\* The other counters after a record is gone.
CountsDelete(s, t) ==
  /\ t.count = IF s.count > 0 THEN s.count - 1 ELSE 0
  /\ t.minTime = IF t.first = NoLeaf THEN TopTime ELSE HeaderMin(t.recs[t.first])
  /\ t.maxTime = IF t.first = NoLeaf THEN 0 ELSE HeaderMax(t.recs[t.last])

\* A delete of a key that is there takes it out of the map and nothing else.
LEMMA DeleteMaps ==
  ASSUME NEW s \in Symbols, StructureOK(s), NEW k \in KeysOf(s)
  PROVE  LET t == AfterDelete(s, k)
         IN  /\ Contents(t) = [Contents(s) EXCEPT ![k] = Absent]
             /\ KeysOf(t) = KeysOf(s) \ {k}
             /\ LeavesFollow(s, t) /\ CountsDelete(s, t)
<1> DEFINE t == AfterDelete(s, k)
           l == Descend(s, k)
           others == Keys \ {k}
<1>1. k \in Keys /\ s.live \subseteq Leaves /\ s.recs \in [Leaves -> Maps]
      /\ NoLeaf \notin Leaves
  BY LeavesAssumption DEF KeysOf, Symbols
<1>2. PICK h \in s.live : k \in KeysIn(s.recs[h])
  BY ContentsHolds
<1>3. l = h
  BY <1>2, DescendFinds
<1> HIDE DEF l
<1>4. /\ l \in s.live /\ l \in Leaves /\ k \in KeysIn(s.recs[l])
      /\ Holds(s, l, k) /\ s.recs[l] \in Maps
  BY <1>1, <1>2, <1>3 DEF Holds
<1>5. \A m \in s.live : m # l => k \notin KeysIn(s.recs[m])
  BY <1>4, OneHolder
<1>6. t \in Symbols /\ StructureOK(t)
  BY <1>1, DeleteSound
<1>7. /\ Contents(t) = Only(Contents(s), others)
      /\ KeysOf(t) = KeysOf(s) \cap others
      /\ LeavesFollow(s, t) /\ CountsDelete(s, t)
  <2>1. CASE KeysIn(s.recs[l]) = {k}
    <3> DEFINE u == Unlink(s, l)
    <3>1. t = Uncounted(u)
      BY <1>4, <2>1 DEF AfterDelete, l
    <3>2. u \in Symbols
      BY <1>4, UnlinkSound
    <3>3. /\ u.live = s.live \ {l} /\ u.count = s.count
          /\ u.leaves = IF s.leaves > 0 THEN s.leaves - 1 ELSE 0
          /\ u.recs = [s.recs EXCEPT ![l] = NoRecords]
      BY <1>4, UnlinkFields
    <3> HIDE DEF u, t
    <3>4. /\ t.live = u.live /\ t.recs = u.recs /\ t.leaves = u.leaves
          /\ t.count = IF u.count > 0 THEN u.count - 1 ELSE 0
          /\ t.minTime = IF t.first = NoLeaf THEN TopTime ELSE HeaderMin(t.recs[t.first])
          /\ t.maxTime = IF t.first = NoLeaf THEN 0 ELSE HeaderMax(t.recs[t.last])
      BY <3>1, <3>2, UncountedFields
    <3>5. t.live = s.live \ {l} /\ \A m \in t.live : t.recs[m] = s.recs[m]
      BY <3>3, <3>4, <1>1, <1>4
    <3>6. \A m \in t.live : \A j \in KeysIn(t.recs[m]) :
            j \in KeysIn(s.recs[m]) /\ j \in others /\ t.recs[m][j] = s.recs[m][j]
      BY <3>5, <1>5 DEF KeysIn
    <3>7. \A m \in s.live : \A j \in KeysIn(s.recs[m]) :
            j \in others => m \in t.live /\ j \in KeysIn(t.recs[m])
      BY <3>5, <2>1
    <3>8. Contents(t) = Only(Contents(s), others) /\ KeysOf(t) = KeysOf(s) \cap others
      <4>1. others \in SUBSET Keys /\ t.live \subseteq s.live
        BY <3>5
      <4> HIDE DEF others
      <4> QED BY <4>1, <1>6, <3>6, <3>7, RestrictMaps
    <3>9. LeavesFollow(s, t)
      BY <3>3, <3>4, <1>4 DEF LeavesFollow
    <3> QED BY <3>3, <3>4, <3>8, <3>9 DEF CountsDelete
  <2>2. CASE KeysIn(s.recs[l]) # {k}
    <3> DEFINE u == Erase(s, l, k)
               rest == Only(s.recs[l], KeysIn(s.recs[l]) \ {k})
    <3>1. t = Uncounted(u)
      BY <1>4, <2>2 DEF AfterDelete, l
    <3>2. u \in Symbols
      BY <1>4, <2>2, EraseSound
    <3>3. /\ u.live = s.live /\ u.leaves = s.leaves /\ u.count = s.count
          /\ u.recs = [s.recs EXCEPT ![l] = rest]
      <4>1. l \in Leaves /\ k \in Keys
        BY <1>1, <1>4
      <4>2. LET e == Erase(s, l, k)
            IN  /\ e.live = s.live /\ e.leaves = s.leaves /\ e.count = s.count
                /\ e.recs = [s.recs EXCEPT ![l] = Only(s.recs[l], KeysIn(s.recs[l]) \ {k})]
        <5> HIDE DEF u, rest, t
        <5> QED BY <4>1, EraseFields, Zenon
      <4> QED BY <4>2
    <3>4. /\ KeysIn(rest) = KeysIn(s.recs[l]) \ {k}
          /\ \A j \in KeysIn(rest) : rest[j] = s.recs[l][j]
      BY ValsAssumption DEF Only, KeysIn
    <3> HIDE DEF u, t, rest
    <3>5. /\ t.live = u.live /\ t.recs = u.recs /\ t.leaves = u.leaves
          /\ t.count = IF u.count > 0 THEN u.count - 1 ELSE 0
          /\ t.minTime = IF t.first = NoLeaf THEN TopTime ELSE HeaderMin(t.recs[t.first])
          /\ t.maxTime = IF t.first = NoLeaf THEN 0 ELSE HeaderMax(t.recs[t.last])
      BY <3>1, <3>2, UncountedFields
    <3>6. /\ t.live = s.live /\ t.recs[l] = rest
          /\ \A m \in s.live : m # l => t.recs[m] = s.recs[m]
      BY <3>3, <3>5, <1>1, <1>4
    <3>7. \A m \in t.live : \A j \in KeysIn(t.recs[m]) :
            j \in KeysIn(s.recs[m]) /\ j \in others /\ t.recs[m][j] = s.recs[m][j]
      BY <3>4, <3>6, <1>5 DEF KeysIn
    <3>8. \A m \in s.live : \A j \in KeysIn(s.recs[m]) :
            j \in others => m \in t.live /\ j \in KeysIn(t.recs[m])
      BY <3>4, <3>6
    <3>9. Contents(t) = Only(Contents(s), others) /\ KeysOf(t) = KeysOf(s) \cap others
      <4>1. others \in SUBSET Keys /\ t.live \subseteq s.live
        BY <3>6
      <4> HIDE DEF others
      <4> QED BY <4>1, <1>6, <3>7, <3>8, RestrictMaps
    <3>10. LeavesFollow(s, t)
      BY <3>3, <3>5, <1>4 DEF LeavesFollow
    <3> QED BY <3>3, <3>5, <3>9, <3>10 DEF CountsDelete
  <2> QED BY <2>1, <2>2
<1>8. Only(Contents(s), others) = [Contents(s) EXCEPT ![k] = Absent]
  <2>1. Contents(s) \in Maps
    BY ContentsHolds
  <2> QED BY <2>1 DEF Only, Maps
<1>9. KeysOf(s) \cap others = KeysOf(s) \ {k}
  BY DEF KeysOf
<1> QED BY <1>7, <1>8, <1>9

\* A delete of a key that is not there changes nothing.
LEMMA DeleteNothing ==
  ASSUME NEW s \in Symbols, StructureOK(s), NEW k \in Keys, k \notin KeysOf(s)
  PROVE  /\ AfterDelete(s, k) = s
         /\ Contents(s) = [Contents(s) EXCEPT ![k] = Absent]
<1>1. k \in Nat
  BY KeysAssumption
<1>2. ~Holds(s, Descend(s, k), k)
  <2> SUFFICES ASSUME Holds(s, Descend(s, k), k) PROVE FALSE
    OBVIOUS
  <2>1. Descend(s, k) \in s.live
    BY <1>1, DescendLands, DescendNowhere DEF Holds
  <2> QED BY <2>1, ContentsHolds DEF Holds
<1>3. Contents(s) \in Maps /\ Contents(s)[k] = Absent
  BY ContentsHolds DEF KeysIn
<1> QED BY <1>2, <1>3 DEF AfterDelete, Maps

\* Where no key lies in two leaves, truncate_before counts the keys.
LEMMA CountInIs ==
  ASSUME NEW s \in Symbols, NEW L \in SUBSET Leaves,
         \A l, m \in L : \A k \in KeysIn(s.recs[l]) : k \in KeysIn(s.recs[m]) => l = m
  PROVE  CountIn(s, L) = Cardinality({k \in Keys : \E l \in L : k \in KeysIn(s.recs[l])})
<1> DEFINE P == {r \in L \X Keys : r[2] \in KeysIn(s.recs[r[1]])}
           K == {k \in Keys : \E l \in L : k \in KeysIn(s.recs[l])}
           f == [r \in P |-> r[2]]
<1>1. IsFiniteSet(P)
  <2>1. IsFiniteSet(L \X Keys)
    BY LeavesAssumption, KeysAssumption, FS_Subset, FS_Product
  <2> QED BY <2>1, FS_Subset
<1>2. f \in [P -> K]
  OBVIOUS
<1>3. ASSUME NEW k \in K PROVE \E r \in P : f[r] = k
  <2>1. PICK l \in L : k \in KeysIn(s.recs[l])
    OBVIOUS
  <2>2. <<l, k>> \in P /\ f[<<l, k>>] = k
    BY <2>1
  <2> QED BY <2>2
<1>4. ASSUME NEW a \in P, NEW b \in P, f[a] = f[b] PROVE a = b
  <2>1. a[2] = b[2] /\ a[1] = b[1]
    BY <1>4
  <2> QED BY <2>1
<1>5. f \in Bijection(P, K)
  BY <1>2, <1>3, <1>4 DEF Bijection, Injection, Surjection, IsInjective
<1>6. ExistsBijection(P, K)
  BY <1>5 DEF ExistsBijection
<1>7. Cardinality(K) = Cardinality(P)
  <2> HIDE DEF P, K
  <2> QED BY <1>1, <1>6, FS_Bijection
<1> QED BY <1>7 DEF CountIn

\* The fields of truncate_before's result that make up the map.
LEMMA TruncateFields ==
  ASSUME NEW s \in Symbols, StructureOK(s), NEW cutoff \in Times
  PROVE  LET t == AfterTruncate(s, cutoff)
             removed == CountIn(s, s.live) - CountIn([s EXCEPT !.recs = t.recs], s.live)
         IN  /\ t.live = s.live \ FreedBelow(s, cutoff)
             /\ t.leaves = Cardinality(t.live)
             /\ t.first = IF t.live = {} THEN NoLeaf
                          ELSE CHOOSE l \in t.live : t.live = Walk(s.next, l)
             /\ t.recs = [l \in Leaves |->
                            IF l \in FreedBelow(s, cutoff) THEN NoRecords
                            ELSE IF l = t.first THEN TrimBelow(s.recs[l], cutoff)
                            ELSE s.recs[l]]
             /\ t.count = IF s.count > removed THEN s.count - removed ELSE 0
             /\ t.minTime = IF t.first = NoLeaf THEN TopTime
                            ELSE Min({HeaderMin(t.recs[l]) : l \in t.live})
             /\ t.maxTime = IF t.first = NoLeaf THEN 0 ELSE s.maxTime
<1>1. Chain(s) = s.live /\ FreedBelow(s, cutoff) \subseteq s.live
  BY ChainIsLive DEF FreedBelow
<1> DEFINE freed == FreedBelow(s, cutoff)
           kept == s.live \ freed
           head == IF kept = {} THEN NoLeaf ELSE CHOOSE l \in kept : kept = Walk(s.next, l)
           recs == [l \in Leaves |-> IF l \in freed THEN NoRecords
                                     ELSE IF l = head THEN TrimBelow(s.recs[l], cutoff)
                                     ELSE s.recs[l]]
           removed == CountIn(s, s.live) - CountIn([s EXCEPT !.recs = recs], s.live)
<1>2. LET t == AfterTruncate(s, cutoff)
      IN  /\ t.live = kept /\ t.leaves = Cardinality(kept) /\ t.first = head
          /\ t.recs = recs
          /\ t.count = IF s.count > removed THEN s.count - removed ELSE 0
          /\ t.minTime = IF head = NoLeaf THEN TopTime
                         ELSE Min({HeaderMin(recs[l]) : l \in kept})
          /\ t.maxTime = IF head = NoLeaf THEN 0 ELSE s.maxTime
  BY <1>1 DEF AfterTruncate
<1> QED BY <1>2

\* truncate_before takes the records below the cutoff out of the map and no
\* others.
LEMMA TruncateMaps ==
  ASSUME NEW s \in Symbols, StructureOK(s), NEW cutoff \in Times
  PROVE  LET t == AfterTruncate(s, cutoff)
             young == {k \in Keys : k >= StartOf(cutoff)}
         IN  /\ Contents(t) = Only(Contents(s), young)
             /\ KeysOf(t) = KeysOf(s) \cap young
             /\ CountIn([s EXCEPT !.recs = t.recs], s.live) = Cardinality(KeysOf(t))
<1> DEFINE t == AfterTruncate(s, cutoff)
           young == {k \in Keys : k >= StartOf(cutoff)}
           freed == FreedBelow(s, cutoff)
<1>1. /\ s.live \subseteq Leaves /\ s.recs \in [Leaves -> Maps] /\ NoLeaf \notin Leaves
      /\ cutoff \in Nat /\ StartOf(cutoff) \in Nat /\ Keys \subseteq Nat
  BY LeavesAssumption, KeysAssumption, TimesAreNat DEF Symbols
<1>2. t \in Symbols /\ StructureOK(t)
  BY TruncateSound
<1>3. /\ t.live = s.live \ freed
      /\ t.first = IF t.live = {} THEN NoLeaf
                   ELSE CHOOSE l \in t.live : t.live = Walk(s.next, l)
      /\ t.recs = [l \in Leaves |-> IF l \in freed THEN NoRecords
                                    ELSE IF l = t.first THEN TrimBelow(s.recs[l], cutoff)
                                    ELSE s.recs[l]]
  BY TruncateFields
<1>4. freed \subseteq s.live /\ \A l \in freed : Stale(s.recs[l], cutoff)
  <2>1. \A l \in s.live : l \in Walk(s.next, l)
    <3> TAKE l \in s.live
    <3>1. s.node[l] \in Nat
      BY NodeTypes DEF StructureOK
    <3> QED BY <3>1, WalkIsUpward
  <2> QED BY <2>1, ChainIsLive DEF FreedBelow
<1>5. \A l \in freed : \A k \in KeysIn(s.recs[l]) : k \notin young
  <2> TAKE l \in freed
  <2>1. s.recs[l] \in Maps /\ Stale(s.recs[l], cutoff)
    BY <1>1, <1>4
  <2>2. \A k \in KeysIn(s.recs[l]) : k < StartOf(cutoff) /\ k \in Nat
    BY <2>1, <1>1, StaleMeansBelow DEF KeysIn
  <2> QED BY <2>2, <1>1
<1> HIDE DEF t, freed
<1>6. ASSUME NEW l \in t.live, l # t.first
      PROVE  \A k \in KeysIn(s.recs[l]) : k \in young
  <2> DEFINE head == t.first
  <2>1. t.live = Chain(s) \ FreedBelow(s, cutoff) /\ t.live # {}
    BY <1>3, <1>6, ChainIsLive DEF freed
  <2>2. /\ \E h \in t.live : t.live = Walk(s.next, h)
        /\ \A h \in t.live : t.live = Walk(s.next, h) =>
             /\ t.live = {m \in s.live : s.node[h] <= s.node[m]}
             /\ \E k \in KeysIn(s.recs[h]) : k >= StartOf(cutoff)
    BY <2>1, <1>1, KeptIsUpward
  <2>3. head \in t.live /\ t.live = Walk(s.next, head)
    BY <2>1, <2>2, <1>3
  <2>4. /\ t.live = {m \in s.live : s.node[head] <= s.node[m]}
        /\ \E k \in KeysIn(s.recs[head]) : k >= StartOf(cutoff)
    BY <2>2, <2>3
  <2> HIDE DEF head
  <2>5. head \in s.live /\ l \in s.live /\ l # head /\ s.node[head] <= s.node[l]
    BY <1>6, <2>3, <2>4 DEF head
  <2>6. s.node[head] < s.node[l]
    BY <2>5, NodeTypes DEF StructureOK, NodesDiffer
  <2>7. PICK j \in KeysIn(s.recs[head]) : j >= StartOf(cutoff)
    BY <2>4
  <2>8. j < s.node[l] /\ j \in Nat /\ s.node[l] \in Nat
    BY <2>5, <2>6, <1>1, NodeTypes DEF StructureOK, LeavesApart, KeysIn
  <2>9. \A k \in KeysIn(s.recs[l]) : s.node[l] <= k /\ k \in Keys /\ k \in Nat
    BY <2>5, <1>1, NodeTypes DEF StructureOK
  <2> QED BY <2>7, <2>8, <2>9, <1>1
<1>7. ASSUME NEW l \in t.live
      PROVE  /\ KeysIn(t.recs[l]) = KeysIn(s.recs[l]) \cap young
             /\ \A k \in KeysIn(t.recs[l]) : t.recs[l][k] = s.recs[l][k]
  <2>1. l \in s.live /\ l \notin freed /\ l \in Leaves
    BY <1>1, <1>3
  <2>2. CASE l = t.first
    <3>1. t.recs[l] = TrimBelow(s.recs[l], cutoff)
      BY <2>1, <2>2, <1>3
    <3> QED BY <3>1, ValsAssumption DEF TrimBelow, Only, KeysIn
  <2>3. CASE l # t.first
    <3>1. t.recs[l] = s.recs[l]
      BY <2>1, <2>3, <1>3
    <3> QED BY <3>1, <2>3, <1>6
  <2> QED BY <2>2, <2>3
<1>8. /\ Contents(t) = Only(Contents(s), young)
      /\ KeysOf(t) = KeysOf(s) \cap young
  <2>1. young \in SUBSET Keys /\ t.live \subseteq s.live
    BY <1>3
  <2>2. \A m \in t.live : \A j \in KeysIn(t.recs[m]) :
          j \in KeysIn(s.recs[m]) /\ j \in young /\ t.recs[m][j] = s.recs[m][j]
    BY <1>7
  <2>3. \A m \in s.live : \A j \in KeysIn(s.recs[m]) :
          j \in young => m \in t.live /\ j \in KeysIn(t.recs[m])
    BY <1>3, <1>5, <1>7
  <2> HIDE DEF young
  <2> QED BY <1>2, <2>1, <2>2, <2>3, RestrictMaps
<1>9. CountIn([s EXCEPT !.recs = t.recs], s.live) = Cardinality(KeysOf(t))
  <2> DEFINE u == [s EXCEPT !.recs = t.recs]
  <2>1. u \in Symbols /\ u.recs = t.recs
    BY <1>2 DEF Symbols
  <2> HIDE DEF u
  <2>2. \A l \in s.live : l \notin t.live => KeysIn(u.recs[l]) = {}
    BY <2>1, <1>1, <1>3, NoRecordsTypes
  <2>3. \A l, m \in s.live : \A k \in KeysIn(u.recs[l]) : k \in KeysIn(u.recs[m]) => l = m
    BY <2>1, <2>2, <1>2, OneHolder
  <2>4. {k \in Keys : \E l \in s.live : k \in KeysIn(u.recs[l])} = KeysOf(t)
    BY <2>1, <2>2, <1>3 DEF KeysOf, Holders
  <2>5. s.live \in SUBSET Leaves
    BY <1>1
  <2> QED BY <2>1, <2>3, <2>4, <2>5, CountInIs DEF u
<1> QED BY <1>8, <1>9 DEF t

\* Before the truncation it counts every record.
LEMMA CountInLive ==
  ASSUME NEW s \in Symbols, StructureOK(s)
  PROVE  CountIn(s, s.live) = Cardinality(KeysOf(s))
<1>1. s.live \in SUBSET Leaves
  BY DEF Symbols
<1>2. \A l, m \in s.live : \A k \in KeysIn(s.recs[l]) : k \in KeysIn(s.recs[m]) => l = m
  BY OneHolder
<1>3. {k \in Keys : \E l \in s.live : k \in KeysIn(s.recs[l])} = KeysOf(s)
  BY DEF KeysOf, Holders
<1> QED BY <1>1, <1>2, <1>3, CountInIs

------------------------------------------------------------------------------
(* The counters of the root page.                                          *)

\* leaf_count, record_count, min_time and max_time tell what the leaves hold.
CountersOK(s) ==
  /\ s.leaves = Cardinality(s.live)
  /\ s.count = Cardinality(KeysOf(s))
  /\ s.minTime = IF KeysOf(s) = {} THEN TopTime ELSE TimeOf(Min(KeysOf(s)))
  /\ s.maxTime = IF KeysOf(s) = {} THEN 0 ELSE TimeOf(Max(KeysOf(s)))

\* The leaves and the keys of a symbol are finite sets.
LEMMA FiniteParts ==
  ASSUME NEW s \in Symbols
  PROVE  /\ IsFiniteSet(s.live) /\ Cardinality(s.live) \in Nat
         /\ IsFiniteSet(KeysOf(s)) /\ Cardinality(KeysOf(s)) \in Nat
         /\ KeysOf(s) \in SUBSET Keys
<1>1. s.live \in SUBSET Leaves /\ KeysOf(s) \in SUBSET Keys
  BY DEF Symbols, KeysOf
<1> QED BY <1>1, LeavesAssumption, KeysAssumption, FS_Subset, FS_CardinalityType

\* Later keys have later times, or the same.
LEMMA TimeMonotone ==
  ASSUME NEW j \in Keys, NEW k \in Keys, j <= k
  PROVE  TimeOf(j) <= TimeOf(k)
<1>1. j \in Nat /\ k \in Nat /\ TimeOf(j) \in Nat /\ TimeOf(k) \in Nat /\ SeqSpan \in Nat
  BY KeysAssumption, TimesAreNat, SpanAssumption
<1>2. j >= StartOf(TimeOf(j))
  BY <1>1, TimeOrder
<1>3. StartOf(TimeOf(j)) \in Nat
  BY <1>1 DEF StartOf
<1>4. k >= StartOf(TimeOf(j))
  BY <1>1, <1>2, <1>3
<1> QED BY <1>1, <1>4, TimeOrder

\* The least and the greatest time of a set of keys with one more key.
LEMMA TimesWithKey ==
  ASSUME NEW S \in SUBSET Keys, NEW k \in Keys,
         NEW low \in Nat, low = IF S = {} THEN TopTime ELSE TimeOf(Min(S)),
         NEW high \in Nat, high = IF S = {} THEN 0 ELSE TimeOf(Max(S))
  PROVE  /\ TimeOf(Min(S \cup {k})) = IF TimeOf(k) < low THEN TimeOf(k) ELSE low
         /\ TimeOf(Max(S \cup {k})) = IF TimeOf(k) > high THEN TimeOf(k) ELSE high
<1> DEFINE T == S \cup {k}
<1>1. /\ T \in SUBSET Keys /\ k \in T /\ T # {} /\ Keys \subseteq Nat
      /\ TimeOf(k) \in Nat /\ TimeOf(k) <= TopTime /\ TopTime \in Nat
  BY KeysAssumption, TimesAreNat, LayoutAssumption DEF Times, TimeOf
<1>2. CASE S = {}
  <2>1. Min(T) = k /\ Max(T) = k
    BY <1>1, <1>2, KeySetEndIs
  <2> QED BY <2>1, <1>1, <1>2
<1>3. CASE S # {}
  <2> DEFINE a == Min(S)
             b == Max(S)
  <2>1. /\ a \in S /\ \A j \in S : a <= j
        /\ b \in S /\ \A j \in S : j <= b
    BY <1>3, KeySetEnds
  <2>2. low = TimeOf(a) /\ high = TimeOf(b)
    BY <1>3
  <2> HIDE DEF a, b
  <2>3. TimeOf(Min(T)) = IF TimeOf(k) < low THEN TimeOf(k) ELSE low
    <3>1. CASE k <= a
      <4>1. Min(T) = k
        BY <3>1, <2>1, <1>1, KeySetEndIs
      <4>2. TimeOf(k) <= TimeOf(a)
        BY <3>1, <2>1, TimeMonotone
      <4> QED BY <4>1, <4>2, <2>2, <1>1
    <3>2. CASE ~(k <= a)
      <4>1. a <= k
        BY <3>2, <2>1, <1>1
      <4>2. Min(T) = a
        BY <4>1, <2>1, <1>1, KeySetEndIs
      <4>3. TimeOf(a) <= TimeOf(k)
        BY <4>1, <2>1, TimeMonotone
      <4> QED BY <4>2, <4>3, <2>2, <1>1
    <3> QED BY <3>1, <3>2
  <2>4. TimeOf(Max(T)) = IF TimeOf(k) > high THEN TimeOf(k) ELSE high
    <3>1. CASE b <= k
      <4>1. Max(T) = k
        <5>1. \A j \in S : j <= k
          BY <3>1, <2>1, <1>1
        <5> QED BY <5>1, <1>1, KeySetEndIs
      <4>2. TimeOf(b) <= TimeOf(k)
        BY <3>1, <2>1, TimeMonotone
      <4> QED BY <4>1, <4>2, <2>2, <1>1
    <3>2. CASE ~(b <= k)
      <4>1. k <= b
        BY <3>2, <2>1, <1>1
      <4>2. Max(T) = b
        BY <4>1, <2>1, <1>1, KeySetEndIs
      <4>3. TimeOf(k) <= TimeOf(b)
        BY <4>1, <2>1, TimeMonotone
      <4> QED BY <4>2, <4>3, <2>2, <1>1
    <3> QED BY <3>1, <3>2
  <2> QED BY <2>3, <2>4
<1> QED BY <1>2, <1>3

\* The counters stay right through every write the code carries out.
LEMMA WriteCounters ==
  ASSUME NEW s \in Symbols, StructureOK(s), CountersOK(s),
         NEW k \in Keys, NEW v \in Vals, NEW overwrite \in BOOLEAN,
         WriteStatus(s, k, v, overwrite) = "OK",
         ~Mishandled(s, k, v, overwrite),
         NEW t \in AfterWrite(s, k, v, overwrite)
  PROVE  CountersOK(t)
<1> DEFINE S == KeysOf(s)
<1>1. /\ KeysOf(t) = S \cup {k}
      /\ \/ t.live = s.live /\ t.leaves = s.leaves
         \/ \E p \in Leaves \ s.live : /\ t.live = s.live \cup {p}
                                       /\ t.leaves = IF s.live = {} THEN 1 ELSE s.leaves + 1
      /\ FirstRecord(s, t, k) \/ CountsRecord(s, t, k) \/ CountsNothing(s, t, k)
  BY WriteMaps
<1>2. /\ IsFiniteSet(s.live) /\ Cardinality(s.live) \in Nat
      /\ IsFiniteSet(S) /\ Cardinality(S) \in Nat /\ S \in SUBSET Keys
  BY FiniteParts
<1>3. s.leaves = Cardinality(s.live) /\ s.count = Cardinality(S)
  BY DEF CountersOK
<1>4. t.leaves = Cardinality(t.live)
  <2>1. s.live = {} => Cardinality(s.live) = 0
    BY FS_EmptySet
  <2>2. ASSUME NEW p \in Leaves \ s.live PROVE Cardinality(s.live \cup {p}) = Cardinality(s.live) + 1
    BY <1>2, FS_AddElement
  <2> QED BY <2>1, <2>2, <1>1, <1>3
<1>5. /\ KeysOf(t) # {}
      /\ k \notin S => Cardinality(S \cup {k}) = Cardinality(S) + 1
      /\ k \in S => S \cup {k} = S
  <2> HIDE DEF S
  <2>1. Cardinality(S \cup {k}) = IF k \in S THEN Cardinality(S) ELSE Cardinality(S) + 1
    BY <1>2, FS_AddElement
  <2> QED BY <1>1, <2>1
<1>6. /\ s.minTime \in Nat /\ s.maxTime \in Nat /\ TimeOf(k) \in Nat
  BY TimesAreNat DEF Symbols
<1>7. /\ s.minTime = IF S = {} THEN TopTime ELSE TimeOf(Min(S))
      /\ s.maxTime = IF S = {} THEN 0 ELSE TimeOf(Max(S))
  BY DEF CountersOK
<1>8. CASE FirstRecord(s, t, k)
  <2>1. S = {} /\ t.count = 1 /\ t.minTime = TimeOf(k) /\ t.maxTime = TimeOf(k)
    BY <1>8, EndsOfMap DEF FirstRecord
  <2>2. Min(S \cup {k}) = k /\ Max(S \cup {k}) = k
    <3>1. S \cup {k} \in SUBSET Keys /\ k \in S \cup {k} /\ k <= k
          /\ \A j \in S \cup {k} : j = k
      BY <2>1, KeysAssumption
    <3> HIDE DEF S
    <3> QED BY <3>1, KeySetEndIs
  <2>3. Cardinality(S) = 0 /\ k \notin S
    BY <2>1, FS_EmptySet
  <2> HIDE DEF S
  <2> QED BY <2>1, <2>2, <2>3, <1>1, <1>4, <1>5 DEF CountersOK
<1>9. CASE CountsRecord(s, t, k)
  <2>1. /\ k \notin S /\ t.count = s.count + 1
        /\ t.minTime = IF TimeOf(k) < s.minTime THEN TimeOf(k) ELSE s.minTime
        /\ t.maxTime = IF TimeOf(k) > s.maxTime THEN TimeOf(k) ELSE s.maxTime
    BY <1>9 DEF CountsRecord
  <2> HIDE DEF S
  <2>2. /\ TimeOf(Min(S \cup {k})) = IF TimeOf(k) < s.minTime THEN TimeOf(k) ELSE s.minTime
        /\ TimeOf(Max(S \cup {k})) = IF TimeOf(k) > s.maxTime THEN TimeOf(k) ELSE s.maxTime
    BY <1>2, <1>6, <1>7, TimesWithKey
  <2> QED BY <2>1, <2>2, <1>1, <1>3, <1>4, <1>5 DEF CountersOK
<1>10. CASE CountsNothing(s, t, k)
  <2>1. k \in S /\ t.count = s.count /\ t.minTime = s.minTime /\ t.maxTime = s.maxTime
    BY <1>10 DEF CountsNothing
  <2> HIDE DEF S
  <2> QED BY <2>1, <1>1, <1>3, <1>4, <1>5, <1>7 DEF CountersOK
<1> QED BY <1>1, <1>8, <1>9, <1>10

\* And through every delete.
LEMMA DeleteCounters ==
  ASSUME NEW s \in Symbols, StructureOK(s), CountersOK(s), NEW k \in Keys
  PROVE  CountersOK(AfterDelete(s, k))
<1> DEFINE t == AfterDelete(s, k)
           S == KeysOf(s)
<1>1. CASE k \notin S
  BY <1>1, DeleteNothing
<1>2. CASE k \in S
  <2>1. /\ KeysOf(t) = S \ {k} /\ LeavesFollow(s, t) /\ CountsDelete(s, t)
        /\ t \in Symbols /\ StructureOK(t)
    BY <1>2, DeleteMaps, DeleteSound
  <2>2. /\ IsFiniteSet(s.live) /\ Cardinality(s.live) \in Nat
        /\ IsFiniteSet(S) /\ Cardinality(S) \in Nat
        /\ s.leaves = Cardinality(s.live) /\ s.count = Cardinality(S)
    BY FiniteParts DEF CountersOK
  <2>3. Cardinality(S) # 0 /\ Cardinality(S \ {k}) = Cardinality(S) - 1
    <3>1. Cardinality(S) = 0 <=> S = {}
      BY <2>2, FS_EmptySet
    <3> QED BY <3>1, <1>2, <2>2, FS_RemoveElement
  <2>4. t.leaves = Cardinality(t.live)
    <3>1. CASE t.live = s.live /\ t.leaves = s.leaves
      BY <3>1, <2>2
    <3>2. CASE \E l \in s.live : /\ t.live = s.live \ {l}
                                 /\ t.leaves = IF s.leaves > 0 THEN s.leaves - 1 ELSE 0
      <4>1. PICK l \in s.live : /\ t.live = s.live \ {l}
                                /\ t.leaves = IF s.leaves > 0 THEN s.leaves - 1 ELSE 0
        BY <3>2
      <4>2. Cardinality(s.live) # 0
        BY <2>2, FS_EmptySet
      <4>3. Cardinality(s.live \ {l}) = Cardinality(s.live) - 1
        BY <2>2, FS_RemoveElement
      <4> HIDE DEF t
      <4> QED BY <4>1, <4>2, <4>3, <2>2
    <3> QED BY <3>1, <3>2, <2>1 DEF LeavesFollow
  <2> HIDE DEF t, S
  <2>5. t.count = Cardinality(KeysOf(t))
    BY <2>1, <2>2, <2>3 DEF CountsDelete
  <2>6. /\ t.minTime = IF KeysOf(t) = {} THEN TopTime ELSE TimeOf(Min(KeysOf(t)))
        /\ t.maxTime = IF KeysOf(t) = {} THEN 0 ELSE TimeOf(Max(KeysOf(t)))
    BY <2>1, EndsOfMap DEF CountsDelete
  <2>7. CountersOK(t)
    BY <2>4, <2>5, <2>6 DEF CountersOK
  <2> QED BY <2>7 DEF t
<1> QED BY <1>1, <1>2

\* A number of a set that bounds it from below is the least.
LEMMA LeastIs ==
  ASSUME NEW H \in SUBSET Nat, NEW n \in H, \A i \in H : n <= i
  PROVE  Min(H) = n
<1> DEFINE low == Min(H)
<1>1. low \in H /\ \A i \in H : low <= i
  BY DEF Min
<1> HIDE DEF low
<1>2. low = n
  BY <1>1
<1> QED BY <1>2 DEF low

\* And through truncate_before.
LEMMA TruncateCounters ==
  ASSUME NEW s \in Symbols, StructureOK(s), CountersOK(s), NEW cutoff \in Times
  PROVE  CountersOK(AfterTruncate(s, cutoff))
<1> DEFINE t == AfterTruncate(s, cutoff)
           S == KeysOf(s)
           T == KeysOf(t)
           young == {k \in Keys : k >= StartOf(cutoff)}
           all == CountIn(s, s.live)
           left == CountIn([s EXCEPT !.recs = t.recs], s.live)
<1>1. t \in Symbols /\ StructureOK(t) /\ T = S \cap young /\ left = Cardinality(T)
      /\ all = Cardinality(S)
  BY TruncateSound, TruncateMaps, CountInLive
<1>2. /\ t.leaves = Cardinality(t.live)
      /\ t.count = IF s.count > all - left THEN s.count - (all - left) ELSE 0
      /\ t.minTime = IF t.first = NoLeaf THEN TopTime
                     ELSE Min({HeaderMin(t.recs[l]) : l \in t.live})
      /\ t.maxTime = IF t.first = NoLeaf THEN 0 ELSE s.maxTime
  BY TruncateFields
<1> HIDE DEF t, T, all, left
<1>3. /\ IsFiniteSet(S) /\ Cardinality(S) \in Nat /\ Cardinality(T) \in Nat
      /\ S \in SUBSET Keys /\ T \in SUBSET Keys /\ T \in SUBSET S
  BY <1>1, FiniteParts DEF T
<1>4. Cardinality(T) <= Cardinality(S)
  <2> HIDE DEF S
  <2> QED BY <1>3, FS_Subset
<1>5. t.count = Cardinality(T)
  <2>1. s.count = Cardinality(S)
    BY DEF CountersOK
  <2> HIDE DEF S
  <2> QED BY <2>1, <1>1, <1>2, <1>3, <1>4
<1>6. /\ t.live = {} <=> T = {}
      /\ t.live = {} <=> t.first = NoLeaf
      /\ t.live # {} => HeaderMin(t.recs[t.first]) = TimeOf(Min(T))
  BY <1>1, EndsOfMap DEF T
<1>7. t.minTime = IF T = {} THEN TopTime ELSE TimeOf(Min(T))
  <2>1. CASE T = {}
    BY <2>1, <1>2, <1>6
  <2>2. CASE T # {}
    <3> DEFINE H == {HeaderMin(t.recs[l]) : l \in t.live}
    <3>1. /\ t.live \subseteq Leaves /\ t.recs \in [Leaves -> Maps]
          /\ t.first \in t.live
      BY <2>2, <1>1, <1>6, FirstIsLowest DEF Symbols
    <3>2. H \in SUBSET Nat
      BY <3>1, HeaderTypes
    <3>3. TimeOf(Min(T)) \in H
      BY <3>1, <2>2, <1>6
    <3>4. \A l \in t.live : TimeOf(Min(T)) <= HeaderMin(t.recs[l])
      <4> TAKE l \in t.live
      <4> DEFINE K == KeysIn(t.recs[l])
      <4>1. K # {} /\ K \in SUBSET Keys /\ K \subseteq T
        BY <1>1, NodeTypes, ContentsHolds DEF StructureOK, T
      <4>2. Min(K) \in K /\ Min(T) \in T /\ \A k \in T : Min(T) <= k
        BY <4>1, <1>3, KeySetEnds
      <4>3. HeaderMin(t.recs[l]) = TimeOf(Min(K))
        BY <4>1 DEF HeaderMin
      <4>4. Min(T) \in Keys /\ Min(K) \in Keys /\ Min(T) <= Min(K)
        BY <4>1, <4>2, <1>3
      <4>5. TimeOf(Min(T)) <= TimeOf(Min(K))
        BY <4>4, TimeMonotone
      <4> QED BY <4>3, <4>5
    <3>5. Min(H) = TimeOf(Min(T))
      <4>1. \A i \in H : TimeOf(Min(T)) <= i
        BY <3>4
      <4> HIDE DEF H
      <4> QED BY <3>2, <3>3, <4>1, LeastIs
    <3> QED BY <2>2, <3>5, <1>2, <1>6
  <2> QED BY <2>1, <2>2
<1>8. t.maxTime = IF T = {} THEN 0 ELSE TimeOf(Max(T))
  <2>1. CASE T = {}
    BY <2>1, <1>2, <1>6
  <2>2. CASE T # {}
    <3> DEFINE top == Max(S)
    <3>1. top \in S /\ \A k \in S : k <= top
      BY <2>2, <1>3, KeySetEnds
    <3>2. s.maxTime = TimeOf(top)
      BY <3>1 DEF CountersOK
    <3> HIDE DEF top, S
    <3>3. PICK k \in T : TRUE
      BY <2>2
    <3>4. k \in Nat /\ top \in Nat /\ StartOf(cutoff) \in Nat
      BY <3>1, <1>3, KeysAssumption, TimesAreNat
    <3>5. top \in T
      BY <3>1, <3>3, <3>4, <1>1, <1>3
    <3>6. Max(T) = top
      BY <3>1, <3>5, <1>3, KeySetEndIs
    <3> QED BY <2>2, <3>2, <3>6, <1>2, <1>6
  <2> QED BY <2>1, <2>2
<1>9. CountersOK(t)
  BY <1>2, <1>5, <1>7, <1>8 DEF CountersOK, T
<1> QED BY <1>9 DEF t

\* A new symbol counts nothing.
LEMMA NewSymbolCounters == CountersOK(NewSymbol)
<1>1. /\ NewSymbol.live = {} /\ NewSymbol.leaves = 0 /\ NewSymbol.count = 0
      /\ NewSymbol.minTime = TopTime /\ NewSymbol.maxTime = 0
  BY DEF NewSymbol
<1>2. KeysOf(NewSymbol) = {} /\ Cardinality({}) = 0
  BY NewSymbolEmpty, FS_EmptySet
<1> QED BY <1>1, <1>2 DEF CountersOK

------------------------------------------------------------------------------
(* Lookups of neighbours.                                                  *)

\* A walk along prev from a leaf visits the leaves from that one downwards.
LEMMA WalkIsDownward ==
  ASSUME NEW s \in Symbols, StructureOK(s), NEW l \in s.live
  PROVE  Walk(s.prev, l) = {m \in s.live : s.node[m] <= s.node[l]}
<1> DEFINE Down == {m \in s.live : s.node[m] <= s.node[l]}
           Closed(S) == l \in S /\ \A x \in S : s.prev[x] # NoLeaf => s.prev[x] \in S
<1>1. /\ NoLeaf \notin s.live /\ s.live \subseteq Leaves
      /\ \A m \in s.live : s.node[m] \in Nat
  BY NodeTypes, LeavesAssumption DEF Symbols, StructureOK
<1>2. Walk(s.prev, l) = {m \in Leaves : \A S \in SUBSET Leaves : Closed(S) => m \in S}
  BY <1>1 DEF Walk
<1>3. Down \in SUBSET Leaves /\ Closed(Down)
  <2>1. l \in Down
    BY <1>1
  <2>2. ASSUME NEW x \in Down, s.prev[x] # NoLeaf PROVE s.prev[x] \in Down
    <3>1. s.prev[x] \in s.live
      BY <2>2 DEF StructureOK, ChainInOrder
    <3>2. Follows(s, s.prev[x], x)
      BY <3>1 DEF StructureOK, ChainInOrder
    <3> QED BY <3>1, <3>2, <1>1 DEF Follows
  <2> QED BY <2>1, <2>2, <1>1
<1>4. ASSUME NEW S \in SUBSET Leaves, Closed(S) PROVE Down \subseteq S
  <2> DEFINE Missed == Down \ S
  <2>1. SUFFICES ASSUME Missed # {} PROVE FALSE
    OBVIOUS
  <2>2. PICK m \in Missed : \A n \in Missed : s.node[n] <= s.node[m]
    <3>1. Missed \in SUBSET s.live
      OBVIOUS
    <3> QED BY <2>1, <3>1, HighestLeaf DEF StructureOK
  <2>3. m \in s.live /\ m # l /\ s.node[m] < s.node[l]
    BY <1>1, <1>4 DEF StructureOK, NodesDiffer
  <2>4. /\ s.next[m] \in s.live /\ Follows(s, m, s.next[m])
        /\ s.node[s.next[m]] <= s.node[l]
    BY <2>3, NextIsAbove
  <2>5. s.next[m] \in S
    BY <2>2, <2>3, <2>4, <1>1 DEF Follows
  <2>6. s.prev[s.next[m]] = m
    BY <2>3, <2>4 DEF StructureOK, ChainInOrder
  <2> QED BY <2>3, <2>5, <2>6, <1>1, <1>4
<1> QED BY <1>1, <1>2, <1>3, <1>4

\* Below every node key a descent ends at the first leaf.
LEMMA DescendFirst ==
  ASSUME NEW s \in Symbols, StructureOK(s), NEW k \in Nat, s.live # {},
         \A m \in s.live : k < s.node[m]
  PROVE  \A m \in s.live : s.node[Descend(s, k)] <= s.node[m]
<1>1. \A m \in s.live : s.node[m] \in Nat
  BY NodeTypes DEF StructureOK
<1>2. {l \in s.live : s.node[l] # NoKey /\ s.node[l] <= k} = {}
  BY <1>1
<1>3. Descend(s, k) = s.first
  BY <1>2 DEF Descend
<1> QED BY <1>3, FirstIsLowest

\* A walk from where the descent to k lands stops in the leaf of the least
\* record at or above k, on whatever leaf it lies.
LEMMA FirstHitIs ==
  ASSUME NEW s \in Symbols, StructureOK(s), NEW k \in Nat
  PROVE  LET above == {j \in KeysOf(s) : j >= k}
             notBelow == {j \in Keys : j >= k}
             h == FirstHit(s, s.next, Descend(s, k), notBelow)
         IN  /\ above = {} => h = NoLeaf
             /\ above # {} => /\ h \in s.live /\ Min(above) \in KeysIn(s.recs[h])
                              /\ Min(KeysIn(s.recs[h]) \cap notBelow) = Min(above)
<1> DEFINE above == {j \in KeysOf(s) : j >= k}
           notBelow == {j \in Keys : j >= k}
           d == Descend(s, k)
           hits == {m \in Walk(s.next, d) : KeysIn(s.recs[m]) \cap notBelow # {}}
           h == FirstHit(s, s.next, d, notBelow)
           Goal == /\ above = {} => h = NoLeaf
                   /\ above # {} => /\ h \in s.live /\ Min(above) \in KeysIn(s.recs[h])
                                    /\ Min(KeysIn(s.recs[h]) \cap notBelow) = Min(above)
<1> SUFFICES Goal
  OBVIOUS
<1>1. KeysOf(s) \in SUBSET Keys /\ Keys \subseteq Nat /\ NoLeaf \notin s.live
  BY KeysAssumption, LeavesAssumption DEF KeysOf, Symbols
<1>3. h = IF hits = {} THEN NoLeaf ELSE CHOOSE x \in hits : hits \subseteq Walk(s.next, x)
  BY DEF FirstHit
<1>4. CASE s.live = {}
  <2>1. d = NoLeaf /\ KeysOf(s) = {}
    BY <1>4, DescendNowhere, EndsOfMap
  <2>2. hits = {} /\ above = {}
    BY <2>1 DEF Walk
  <2> QED BY <2>2, <1>3
<1>5. CASE s.live # {}
  <2>1. /\ d \in s.live
        /\ s.node[d] <= k \/ \A m \in s.live : k < s.node[m] /\ s.node[d] <= s.node[m]
    BY <1>5, DescendLands, DescendFirst
  <2>2. Walk(s.next, d) = {m \in s.live : s.node[d] <= s.node[m]}
    BY <2>1, WalkIsUpward
  <2>3. \A m \in s.live : s.node[m] \in Nat
    BY NodeTypes DEF StructureOK
  <2>4. hits \subseteq s.live
        /\ \A m \in hits : \A j \in KeysIn(s.recs[m]) \cap notBelow : j \in above
    BY <2>2, ContentsHolds
  <2>5. CASE above = {}
    <3>1. hits = {}
      BY <2>4, <2>5
    <3> QED BY <3>1, <2>5, <1>3
  <2>6. CASE above # {}
    <3> DEFINE a == Min(above)
    <3>1. a \in above /\ \A j \in above : a <= j
      <4>1. above \in SUBSET Keys
        BY <1>1
      <4> HIDE DEF above
      <4> QED BY <4>1, <2>6, KeySetEnds
    <3> HIDE DEF a, d
    <3>2. PICK m \in s.live : a \in KeysIn(s.recs[m])
      BY <3>1, ContentsHolds
    <3>3. a \in Nat /\ k <= a /\ a \in notBelow /\ s.node[m] <= a
      BY <3>1, <3>2, <1>1, NodeTypes DEF StructureOK
    <3>4. s.node[d] <= s.node[m]
      <4> SUFFICES ASSUME s.node[m] < s.node[d] PROVE FALSE
        BY <2>1, <2>3, <3>2
      <4>1. a < s.node[d]
        BY <2>1, <3>2 DEF StructureOK, LeavesApart
      <4> QED BY <4>1, <2>1, <2>3, <3>2, <3>3
    <3>5. m \in hits
      BY <2>2, <3>2, <3>3, <3>4
    <3>6. \E x \in hits : hits \subseteq Walk(s.next, x)
      <4>1. hits \in SUBSET s.live /\ hits # {}
        BY <2>4, <3>5
      <4> HIDE DEF hits
      <4>2. PICK x \in hits : \A y \in hits : s.node[x] <= s.node[y]
        BY <4>1, LowestLeaf DEF StructureOK
      <4>3. Walk(s.next, x) = {y \in s.live : s.node[x] <= s.node[y]}
        BY <4>1, WalkIsUpward
      <4> QED BY <4>1, <4>2, <4>3
    <3>7. h \in hits /\ hits \subseteq Walk(s.next, h)
      <4> HIDE DEF hits, h
      <4> QED BY <3>5, <3>6, <1>3
    <3> HIDE DEF h
    <3>8. h \in s.live /\ h # NoLeaf /\ s.node[h] <= s.node[m]
      BY <2>4, <3>5, <3>7, <1>1, WalkIsUpward
    <3> DEFINE R == KeysIn(s.recs[h]) \cap notBelow
    <3>9. R \in SUBSET Keys /\ R # {} /\ R \subseteq above
      BY <2>4, <3>7, <1>1
    <3>10. h = m
      <4> SUFFICES ASSUME h # m PROVE FALSE
        OBVIOUS
      <4>1. s.node[h] < s.node[m]
        BY <3>2, <3>8, <2>3 DEF StructureOK, NodesDiffer
      <4>2. PICK r \in R : TRUE
        BY <3>9
      <4>3. r < s.node[m] /\ a <= r /\ r \in Nat
        BY <4>1, <4>2, <3>1, <3>2, <3>8, <3>9, <1>1 DEF StructureOK, LeavesApart
      <4> QED BY <4>3, <3>3, <3>2, <2>3
    <3>11. Min(R) = a
      <4>1. a \in R /\ \A j \in R : a <= j
        BY <3>1, <3>2, <3>3, <3>9, <3>10
      <4> HIDE DEF R
      <4> QED BY <4>1, <3>9, KeySetEndIs
    <3>12. Min(above) \in KeysIn(s.recs[h]) /\ Min(KeysIn(s.recs[h]) \cap notBelow) = Min(above)
      BY <3>2, <3>10, <3>11 DEF a
    <3> HIDE DEF above, notBelow, R
    <3> QED BY <2>6, <3>8, <3>12
  <2> QED BY <2>5, <2>6
<1> QED BY <1>4, <1>5

\* The search behind a descent finds that record (find_first_ge, and lookup_key
\* with dir > 0).
LEMMA SeekGEIsExact ==
  ASSUME NEW s \in Symbols, StructureOK(s), NEW k \in Nat
  PROVE  LET above == {j \in KeysOf(s) : j >= k}
         IN  SeekGE(s, k) = IF above = {} THEN NoKey ELSE Min(above)
<1> DEFINE above == {j \in KeysOf(s) : j >= k}
           notBelow == {j \in Keys : j >= k}
           h == FirstHit(s, s.next, Descend(s, k), notBelow)
<1>1. /\ above = {} => h = NoLeaf
      /\ above # {} => h \in s.live /\ Min(KeysIn(s.recs[h]) \cap notBelow) = Min(above)
  BY FirstHitIs
<1>2. SeekGE(s, k) = IF h = NoLeaf THEN NoKey ELSE Min(KeysIn(s.recs[h]) \cap notBelow)
  BY DEF SeekGE
<1>3. NoLeaf \notin s.live
  BY LeavesAssumption DEF Symbols
<1> HIDE DEF h, above, notBelow
<1> QED BY <1>1, <1>2, <1>3 DEF above

\* Likewise for the greatest record at or below a key (lookup_key with
\* dir < 0).
LEMMA SeekLEIsExact ==
  ASSUME NEW s \in Symbols, StructureOK(s), NEW k \in Nat
  PROVE  LET below == {j \in KeysOf(s) : j <= k}
         IN  SeekLE(s, k) = IF below = {} THEN NoKey ELSE Max(below)
<1> DEFINE below == {j \in KeysOf(s) : j <= k}
           notAbove == {j \in Keys : j <= k}
           d == Descend(s, k)
           hits == {m \in Walk(s.prev, d) : KeysIn(s.recs[m]) \cap notAbove # {}}
           h == FirstHit(s, s.prev, d, notAbove)
<1>1. KeysOf(s) \in SUBSET Keys /\ Keys \subseteq Nat /\ NoLeaf \notin s.live
  BY KeysAssumption, LeavesAssumption DEF KeysOf, Symbols
<1>2. SeekLE(s, k) = IF h = NoLeaf THEN NoKey ELSE Max(KeysIn(s.recs[h]) \cap notAbove)
  BY DEF SeekLE
<1>3. h = IF hits = {} THEN NoLeaf ELSE CHOOSE x \in hits : hits \subseteq Walk(s.prev, x)
  BY DEF FirstHit
<1>4. CASE s.live = {}
  <2>1. d = NoLeaf /\ KeysOf(s) = {}
    BY <1>4, DescendNowhere, EndsOfMap
  <2>2. hits = {} /\ below = {}
    BY <2>1 DEF Walk
  <2> QED BY <2>2, <1>2, <1>3
<1>5. CASE s.live # {}
  <2>1. /\ d \in s.live
        /\ \A m \in s.live : s.node[m] <= k => s.node[m] <= s.node[d]
    BY <1>5, DescendLands
  <2>2. Walk(s.prev, d) = {m \in s.live : s.node[m] <= s.node[d]}
    BY <2>1, WalkIsDownward
  <2>3. \A m \in s.live : s.node[m] \in Nat
    BY NodeTypes DEF StructureOK
  <2>4. hits \subseteq s.live
        /\ \A m \in hits : \A j \in KeysIn(s.recs[m]) \cap notAbove : j \in below
    BY <2>2, ContentsHolds
  <2>5. CASE below = {}
    <3>1. hits = {}
      BY <2>4, <2>5
    <3> QED BY <3>1, <2>5, <1>2, <1>3
  <2>6. CASE below # {}
    <3> DEFINE b == Max(below)
    <3>1. b \in below /\ \A j \in below : j <= b
      <4>1. below \in SUBSET Keys
        BY <1>1
      <4> HIDE DEF below
      <4> QED BY <4>1, <2>6, KeySetEnds
    <3> HIDE DEF b, d
    <3>2. PICK m \in s.live : b \in KeysIn(s.recs[m])
      BY <3>1, ContentsHolds
    <3>3. b \in Nat /\ b <= k /\ b \in notAbove /\ s.node[m] <= b
      BY <3>1, <3>2, <1>1, NodeTypes DEF StructureOK
    <3>4. s.node[m] <= s.node[d]
      BY <2>1, <2>3, <3>2, <3>3
    <3>5. m \in hits
      BY <2>2, <3>2, <3>3, <3>4
    <3>6. \E x \in hits : hits \subseteq Walk(s.prev, x)
      <4>1. hits \in SUBSET s.live /\ hits # {}
        BY <2>4, <3>5
      <4> HIDE DEF hits
      <4>2. PICK x \in hits : \A y \in hits : s.node[y] <= s.node[x]
        BY <4>1, HighestLeaf DEF StructureOK
      <4>3. Walk(s.prev, x) = {y \in s.live : s.node[y] <= s.node[x]}
        BY <4>1, WalkIsDownward
      <4> QED BY <4>1, <4>2, <4>3
    <3>7. h \in hits /\ hits \subseteq Walk(s.prev, h)
      <4> HIDE DEF hits, h
      <4> QED BY <3>5, <3>6, <1>3
    <3> HIDE DEF h
    <3>8. h \in s.live /\ h # NoLeaf /\ s.node[m] <= s.node[h]
      BY <2>4, <3>5, <3>7, <1>1, WalkIsDownward
    <3> DEFINE R == KeysIn(s.recs[h]) \cap notAbove
    <3>9. R \in SUBSET Keys /\ R # {} /\ R \subseteq below
      BY <2>4, <3>7, <1>1
    <3>10. h = m
      <4> SUFFICES ASSUME h # m PROVE FALSE
        OBVIOUS
      <4>1. s.node[m] < s.node[h]
        BY <3>2, <3>8, <2>3 DEF StructureOK, NodesDiffer
      <4>2. PICK r \in R : TRUE
        BY <3>9
      <4>3. r <= b /\ s.node[h] <= r /\ r \in Nat
        BY <4>2, <3>1, <3>8, <3>9, <1>1, NodeTypes DEF StructureOK
      <4>4. b < s.node[h]
        BY <4>1, <3>2, <3>8 DEF StructureOK, LeavesApart
      <4> QED BY <4>3, <4>4, <3>3, <3>8, <2>3
    <3>11. Max(R) = b
      <4>1. b \in R /\ \A j \in R : j <= b
        BY <3>1, <3>2, <3>3, <3>9, <3>10
      <4> HIDE DEF R
      <4> QED BY <4>1, <3>9, KeySetEndIs
    <3> QED BY <2>6, <3>8, <3>11, <1>2 DEF b
  <2> QED BY <2>5, <2>6
<1> QED BY <1>4, <1>5

------------------------------------------------------------------------------
(* The specification.                                                      *)

\* What delete_range has done so far: it has taken records of its range out,
\* and nothing else.
RangeSoFar ==
  txn.op = "range" =>
    \A k \in Keys : \/ Contents(sym)[k] = Contents(disk)[k]
                    \/ TimeOf(k) \in txn.lo .. txn.hi /\ Contents(sym)[k] = Absent

MapInv ==
  /\ Inv
  /\ CountersOK(sym) /\ CountersOK(disk)
  /\ txn = Idle => sym = disk
  /\ RangeSoFar

\* It holds of a new file.
LEMMA InitMapInv == Init => MapInv
<1> SUFFICES ASSUME Init PROVE MapInv
  OBVIOUS
<1>1. txn = Idle /\ sym = NewSymbol /\ disk = NewSymbol
  BY DEF Init
<1>2. CountersOK(sym) /\ CountersOK(disk)
  BY <1>1, NewSymbolCounters
<1> QED BY <1>1, <1>2, InitInv DEF MapInv, RangeSoFar, Idle

\* delete_range looks at the least record at or above the start of its range.
LEMMA LowestIs ==
  ASSUME Inv, txn \in [op : {"range"}, lo : Times, hi : Times]
  PROVE  LET from == {k \in KeysOf(sym) : k >= StartOf(txn.lo)}
         IN  /\ from = {} => ~MoreInRange
             /\ from # {} => /\ Lowest \in from /\ \A k \in from : Lowest <= k
                             /\ MoreInRange <=> TimeOf(Lowest) <= txn.hi
             /\ \A k \in KeysOf(sym) : TimeOf(k) >= txn.lo <=> k \in from
<1> DEFINE from == {k \in KeysOf(sym) : k >= StartOf(txn.lo)}
<1>1. /\ sym \in Symbols /\ StructureOK(sym) /\ txn.lo \in Nat
      /\ StartOf(txn.lo) \in Nat /\ from \in SUBSET Keys /\ Keys \subseteq Nat
      /\ KeysOf(sym) \subseteq Keys
  BY TimesAreNat, KeysAssumption DEF Inv, TypeOK, StructureSound, KeysOf
<1>2. Lowest = IF from = {} THEN NoKey ELSE Min(from)
  BY <1>1, SeekGEIsExact DEF Lowest
<1>3. from # {} => Min(from) \in from /\ \A k \in from : Min(from) <= k
  BY <1>1, KeySetEnds
<1>4. \A k \in KeysOf(sym) : TimeOf(k) >= txn.lo <=> k \in from
  BY <1>1, TimeOrder
<1>5. \A k \in Keys : k # NoKey
  BY <1>1 DEF NoKey
<1> HIDE DEF from
<1> QED BY <1>1, <1>2, <1>3, <1>4, <1>5 DEF MoreInRange, from

\* Every step keeps the counters exact, delete_range within its range and
\* the open transaction apart from what is committed; and every step is a
\* step of the map or changes nothing of it.
LEMMA NextMapInv ==
  ASSUME AllWrites = FALSE, MapInv, [Next]_vars
  PROVE  MapInv' /\ [Tick!Next]_<<Contents(disk), Contents(sym)>>
<1> DEFINE Goal == MapInv' /\ [Tick!Next]_<<Contents(disk), Contents(sym)>>
<1>1. /\ sym \in Symbols /\ disk \in Symbols /\ StructureOK(sym) /\ StructureOK(disk)
      /\ CountersOK(sym) /\ CountersOK(disk)
      /\ txn = Idle => sym = disk
      /\ Inv /\ RangeSoFar
      /\ \/ txn = Idle
         \/ txn \in [op : {"batch"}, from : Keys, entries : Nat]
         \/ txn \in [op : {"range"}, lo : Times, hi : Times]
  BY DEF MapInv, Inv, TypeOK, StructureSound
<1>2. Inv'
  BY <1>1, NextInv
<1>3. ASSUME NEW k \in Keys, NEW v \in Vals, NEW overwrite \in PutFlags,
             BatchPut(k, v, overwrite)
      PROVE  Goal
  <2>1. /\ overwrite \in BOOLEAN /\ WriteStatus(sym, k, v, overwrite) = "OK"
        /\ ~Mishandled(sym, k, v, overwrite)
        /\ sym' \in AfterWrite(sym, k, v, overwrite) /\ disk' = disk
        /\ txn' = NextEntry(k)
    BY <1>3, WritesAssumption DEF BatchPut
  <2>2. Contents(sym') = [Contents(sym) EXCEPT ![k] = v]
    BY <1>1, <2>1, WriteMaps
  <2>3. CountersOK(sym')
    BY <1>1, <2>1, WriteCounters
  <2>4. txn' # Idle /\ txn'.op = "batch"
    BY <2>1 DEF NextEntry, Idle
  <2>5. MapInv'
    BY <1>1, <1>2, <2>1, <2>3, <2>4 DEF MapInv, RangeSoFar
  <2>6. Tick!Put(k, v)
    BY <2>1, <2>2 DEF Tick!Put
  <2> QED BY <2>5, <2>6 DEF Tick!Next
<1>4. ASSUME sym' = disk, txn' = Idle, disk' = disk PROVE Goal
  <2>1. MapInv'
    BY <1>1, <1>2, <1>4 DEF MapInv, RangeSoFar, Idle
  <2>2. Tick!Rollback
    BY <1>4 DEF Tick!Rollback
  <2> QED BY <2>1, <2>2 DEF Tick!Next
<1>5. ASSUME NEW k \in Keys, sym' = AfterDelete(sym, k), disk' = disk, RangeSoFar',
             txn' = Idle => FALSE
      PROVE  Goal
  <2>1. CountersOK(sym')
    BY <1>1, <1>5, DeleteCounters
  <2>2. Contents(sym') = [Contents(sym) EXCEPT ![k] = Absent]
    BY <1>1, <1>5, DeleteMaps, DeleteNothing
  <2>3. MapInv'
    BY <1>1, <1>2, <1>5, <2>1 DEF MapInv
  <2>4. Tick!Delete(k)
    BY <1>5, <2>2 DEF Tick!Delete
  <2> QED BY <2>3, <2>4 DEF Tick!Next
<1>6. ASSUME NEW k \in Keys, BatchDelete(k) PROVE Goal
  <2>1. sym' = AfterDelete(sym, k) /\ disk' = disk /\ txn' = NextEntry(k)
    BY <1>6 DEF BatchDelete
  <2>2. txn' # Idle /\ txn'.op = "batch"
    BY <2>1 DEF NextEntry, Idle
  <2> QED BY <2>1, <2>2, <1>5 DEF RangeSoFar
<1>7. ASSUME NEW lo \in Times, NEW hi \in Times, BeginRange(lo, hi) PROVE Goal
  <2>1. sym' = sym /\ disk' = disk /\ sym = disk /\ txn' # Idle
    BY <1>1, <1>7 DEF BeginRange, Idle
  <2>2. MapInv'
    BY <1>1, <1>2, <2>1 DEF MapInv, RangeSoFar
  <2> QED BY <2>1, <2>2
<1>8. ASSUME RangeStep PROVE Goal
  <2>1. /\ sym' = AfterDelete(sym, Lowest) /\ disk' = disk /\ txn' = txn
        /\ txn.op = "range" /\ MoreInRange
        /\ Holds(sym, Descend(sym, Lowest), Lowest)
    BY <1>8 DEF RangeStep
  <2>2. txn \in [op : {"range"}, lo : Times, hi : Times] /\ txn' # Idle
    BY <1>1, <2>1 DEF Idle
  <2>3. /\ Lowest \in KeysOf(sym) /\ Lowest \in Keys
        /\ TimeOf(Lowest) >= txn.lo /\ TimeOf(Lowest) <= txn.hi
    BY <1>1, <2>1, <2>2, LowestIs DEF KeysOf
  <2>4. TimeOf(Lowest) \in txn.lo .. txn.hi
    <3>1. TimeOf(Lowest) \in Nat /\ txn.lo \in Nat /\ txn.hi \in Nat
      BY <2>2, <2>3, TimesAreNat
    <3> QED BY <2>3, <3>1
  <2> DEFINE k == Lowest
             before == Contents(sym)
             after == Contents(sym')
  <2>5. after = [before EXCEPT ![k] = Absent] /\ before \in Maps
    BY <1>1, <2>1, <2>3, DeleteMaps, ContentsHolds
  <2> HIDE DEF k, before, after
  <2>6. \A j \in Keys : after[j] = IF j = k THEN Absent ELSE before[j]
    BY <2>5 DEF Maps
  <2>7. RangeSoFar'
    <3>1. \A j \in Keys : \/ before[j] = Contents(disk)[j]
                          \/ TimeOf(j) \in txn.lo .. txn.hi /\ before[j] = Absent
      BY <1>1, <2>1 DEF RangeSoFar, before
    <3>2. \A j \in Keys : \/ after[j] = Contents(disk)[j]
                          \/ TimeOf(j) \in txn.lo .. txn.hi /\ after[j] = Absent
      BY <3>1, <2>4, <2>6 DEF k
    <3> QED BY <3>2, <2>1 DEF RangeSoFar, after
  <2> QED BY <2>1, <2>2, <2>3, <2>7, <1>5
<1>9. ASSUME Commit PROVE Goal
  <2>1. disk' = sym /\ txn' = Idle /\ sym' = sym
    BY <1>9 DEF Commit
  <2>2. MapInv'
    BY <1>1, <1>2, <2>1 DEF MapInv, RangeSoFar, Idle
  <2>3. Tick!Commit
    BY <2>1 DEF Tick!Commit
  <2> QED BY <2>2, <2>3 DEF Tick!Next
<1>10. ASSUME NEW cutoff \in Times, TruncateBefore(cutoff) PROVE Goal
  <2>1. sym' = AfterTruncate(sym, cutoff) /\ disk' = sym' /\ txn' = txn /\ txn = Idle
    BY <1>10 DEF TruncateBefore
  <2>2. CountersOK(sym') /\ CountersOK(disk')
    BY <1>1, <2>1, TruncateCounters
  <2>3. MapInv'
    BY <1>1, <1>2, <2>1, <2>2 DEF MapInv, RangeSoFar, Idle
  <2> DEFINE young == {k \in Keys : k >= StartOf(cutoff)}
  <2>4. Contents(sym') = Only(Contents(sym), young)
    BY <1>1, <2>1, TruncateMaps
  <2>5. \A k \in Keys : k \in young <=> ~(TimeOf(k) < cutoff)
    <3> TAKE k \in Keys
    <3>1. k \in Nat /\ cutoff \in Nat /\ TimeOf(k) \in Nat /\ StartOf(cutoff) \in Nat
      BY KeysAssumption, TimesAreNat
    <3>2. TimeOf(k) >= cutoff <=> k >= StartOf(cutoff)
      BY <3>1, TimeOrder
    <3> QED BY <3>1, <3>2
  <2>6. Contents(sym') = [k \in Keys |-> IF TimeOf(k) < cutoff THEN Absent
                                         ELSE Contents(sym)[k]]
    <3> HIDE DEF young
    <3> QED BY <2>4, <2>5 DEF Only
  <2>7. Tick!Truncate(cutoff)
    BY <2>1, <2>6 DEF Tick!Truncate, Tick!TimeOf, TimeOf
  <2>8. cutoff \in Tick!Times
    BY DEF Tick!Times, Tick!TimeOf, Times, TimeOf
  <2> QED BY <2>3, <2>7, <2>8 DEF Tick!Next
<1>11. ASSUME SymbolDrop PROVE Goal
  <2>1. sym' = NewSymbol /\ disk' = NewSymbol /\ txn' = txn /\ txn = Idle
    BY <1>1, <1>11, DropSound DEF SymbolDrop
  <2>2. MapInv'
    BY <1>2, <2>1, NewSymbolCounters DEF MapInv, RangeSoFar, Idle
  <2>3. Tick!Drop
    BY <2>1, NewSymbolEmpty DEF Tick!Drop, Tick!Empty, NoRecords
  <2> QED BY <2>2, <2>3 DEF Tick!Next
<1>12. ASSUME UNCHANGED vars PROVE Goal
  <2>1. sym' = sym /\ disk' = disk /\ txn' = txn
    BY <1>12 DEF vars
  <2> QED BY <1>1, <1>2, <2>1 DEF MapInv, RangeSoFar
<1>13. ASSUME NEW k \in Keys, NEW v \in Vals, NEW overwrite \in PutFlags,
              BatchRefused(k, v, overwrite)
       PROVE  Goal
  BY <1>13, <1>4 DEF BatchRefused
<1>14. ASSUME Fail PROVE Goal
  BY <1>14, <1>4 DEF Fail
<1> QED BY <1>3, <1>6, <1>7, <1>8, <1>9, <1>10, <1>11, <1>12, <1>13, <1>14 DEF Next

\* So it is in every state.
LEMMA MapInvAlways ==
  ASSUME AllWrites = FALSE
  PROVE  Spec => []MapInv
<1>1. MapInv /\ [Next]_vars => MapInv'
  BY NextMapInv
<1> QED BY <1>1, InitMapInv, PTL DEF Spec

\* A symbol is the map of TickStore: a put changes the record of its key and
\* no other, a delete takes out one record, truncate_before those below the
\* cutoff, a drop all of them; what is committed changes only as a whole, and
\* a rollback brings it back.
THEOREM RefinesTickStore ==
  ASSUME AllWrites = FALSE
  PROVE  Spec => ImplementsTickStore
<1>1. Init => Tick!Init
  <2>1. Contents(NewSymbol) = Tick!Empty
    BY NewSymbolEmpty DEF NoRecords, Tick!Empty
  <2> QED BY <2>1 DEF Init, Tick!Init
<1>2. MapInv /\ [Next]_vars => [Tick!Next]_<<Contents(disk), Contents(sym)>>
  BY NextMapInv
<1>3. Spec => Tick!Spec
  BY <1>1, <1>2, MapInvAlways, PTL DEF Spec, Tick!Spec
<1> QED BY <1>3 DEF ImplementsTickStore

\* The root counters tell what the leaves hold, through inserts, splits,
\* overwrites, deletes, truncation and rollback: leaf_count, record_count and
\* the two times.  UINT64_MAX is no time of a record: spike_db_min_time would
\* take it for an empty symbol.
THEOREM RootCountersAlwaysExact ==
  ASSUME AllWrites = FALSE, TopTime \notin Times
  PROVE  Spec => []RootCountersExact
<1>1. MapInv => RootCountersExact
  <2> SUFFICES ASSUME MapInv PROVE RootCountersExact
    OBVIOUS
  <2> DEFINE S == KeysOf(sym)
  <2>1. sym \in Symbols /\ CountersOK(sym)
    BY DEF MapInv, Inv, TypeOK
  <2>2. S \in SUBSET Keys /\ IsFiniteSet(S) /\ Cardinality(S) \in Nat
    BY <2>1, FiniteParts
  <2>3. S # {} => TimeOf(Min(S)) \in Times /\ TimeOf(Max(S)) \in Times
    BY <2>2, KeySetEnds DEF Times, TimeOf
  <2>4. Cardinality(S) = 0 <=> S = {}
    BY <2>2, FS_EmptySet
  <2>5. /\ sym.leaves = Cardinality(sym.live) /\ sym.count = Cardinality(S)
        /\ sym.minTime = IF S = {} THEN TopTime ELSE TimeOf(Min(S))
        /\ sym.maxTime = IF S = {} THEN 0 ELSE TimeOf(Max(S))
    BY <2>1 DEF CountersOK
  <2> HIDE DEF S
  <2>6. ReadMinTime(sym) = IF S = {} THEN NoKey ELSE TimeOf(Min(S))
    BY <2>3, <2>5 DEF ReadMinTime
  <2>7. ReadMaxTime(sym) = IF S = {} THEN NoKey ELSE TimeOf(Max(S))
    BY <2>4, <2>5 DEF ReadMaxTime
  <2> QED BY <2>5, <2>6, <2>7 DEF RootCountersExact, S
<1> QED BY <1>1, MapInvAlways, PTL

\* As-of and at-or-after lookups find the nearest record, whatever order the
\* records came in and on whatever leaves they lie.
THEOREM NeighboursAlwaysExact ==
  ASSUME AllWrites = FALSE
  PROVE  Spec => []NeighbourLookupsExact
<1>1. Inv => NeighbourLookupsExact
  BY SeekGEIsExact, SeekLEIsExact, KeysAssumption
     DEF Inv, TypeOK, StructureSound, NeighbourLookupsExact
<1> QED BY <1>1, InvAlways, PTL

\* A committed delete_range has removed the records of its range and no
\* other, over however many leaves they lay.
THEOREM DeleteRangeAlwaysExact ==
  ASSUME AllWrites = FALSE
  PROVE  Spec => DeleteRangeExact
<1> DEFINE Exact == Contents(disk') = [k \in Keys |-> IF TimeOf(k) \in txn.lo .. txn.hi
                                                      THEN Absent ELSE Contents(disk)[k]]
<1>1. ASSUME MapInv, Commit, txn.op = "range" PROVE Exact
  <2>1. /\ sym \in Symbols /\ StructureOK(sym) /\ Inv /\ RangeSoFar
        /\ txn \in [op : {"range"}, lo : Times, hi : Times]
    BY <1>1 DEF MapInv, Inv, TypeOK, StructureSound, Idle
  <2>2. disk' = sym /\ ~MoreInRange
    BY <1>1 DEF Commit
  <2>3. Contents(sym) \in Maps /\ KeysOf(sym) = KeysIn(Contents(sym))
    BY <2>1, ContentsHolds
  <2>4. ASSUME NEW k \in KeysOf(sym) PROVE TimeOf(k) \notin txn.lo .. txn.hi
    <3> DEFINE from == {j \in KeysOf(sym) : j >= StartOf(txn.lo)}
    <3> SUFFICES ASSUME TimeOf(k) \in txn.lo .. txn.hi PROVE FALSE
      OBVIOUS
    <3>1. k \in from /\ k \in Keys
      BY <2>1, LowestIs DEF KeysOf
    <3>2. /\ Lowest \in from /\ Lowest <= k /\ Lowest \in Keys
          /\ ~(TimeOf(Lowest) <= txn.hi)
      BY <2>1, <2>2, <3>1, LowestIs DEF KeysOf
    <3>3. TimeOf(Lowest) <= TimeOf(k) /\ TimeOf(Lowest) \in Nat /\ TimeOf(k) \in Nat
          /\ txn.lo \in Nat /\ txn.hi \in Nat
      BY <2>1, <3>1, <3>2, TimeMonotone, TimesAreNat
    <3> QED BY <3>2, <3>3
  <2>5. ASSUME NEW k \in Keys
        PROVE  Contents(sym)[k] = IF TimeOf(k) \in txn.lo .. txn.hi
                                  THEN Absent ELSE Contents(disk)[k]
    <3>1. CASE TimeOf(k) \in txn.lo .. txn.hi
      <4>1. k \notin KeysIn(Contents(sym))
        BY <3>1, <2>3, <2>4
      <4> QED BY <3>1, <4>1 DEF KeysIn
    <3>2. CASE TimeOf(k) \notin txn.lo .. txn.hi
      BY <3>2, <2>1 DEF RangeSoFar
    <3> QED BY <3>1, <3>2
  <2>6. Contents(sym) = [k \in Keys |-> IF TimeOf(k) \in txn.lo .. txn.hi
                                        THEN Absent ELSE Contents(disk)[k]]
    BY <2>3, <2>5 DEF Maps
  <2> QED BY <2>2, <2>6
<1>2. MapInv => (Commit /\ txn.op = "range" => Exact)
  BY <1>1
<1>3. MapInv /\ [Next]_vars => [Commit /\ txn.op = "range" => Exact]_vars
  BY <1>2
<1> QED BY <1>3, MapInvAlways, PTL DEF Spec, DeleteRangeExact

------------------------------------------------------------------------------
(* The bytes of a leaf.                                                    *)

\* What keeps the records m of a leaf and the bytes u it has used within its
\* page.  A fixed-width leaf has no value heap.
PageOK(m, u) ==
  IF RecordSize # 0 THEN u = 0 /\ Cardinality(KeysIn(m)) <= FixedCap
  ELSE Compacted(m) <= u /\ u <= LeafBytes
PagesOK(s) == \A l \in s.live : PageOK(s.recs[l], s.used[l])

\* A leaf has fewer records than bytes, as each takes a slot.
LEMMA PageWithin ==
  ASSUME NEW m \in Maps, NEW u \in Nat, PageOK(m, u)
  PROVE  /\ Cardinality(KeysIn(m)) <= IF RecordSize # 0 THEN FixedCap ELSE LeafBytes
         /\ u <= LeafBytes /\ u >= Compacted(m)
<1>1. CASE RecordSize # 0
  BY <1>1, LayoutAssumption DEF PageOK, Compacted
<1>2. CASE RecordSize = 0
  <2> DEFINE F == [k \in KeysIn(m) |-> <<k, 1>>]
  <2>1. F \in Injection(KeysIn(m), Bytes(m))
    <3>1. ASSUME NEW k \in KeysIn(m) PROVE <<k, 1>> \in Bytes(m)
      <4>1. 1 \in 1 .. SlotSize + Size[m[k]]
        BY ValsAssumption, LayoutAssumption DEF Maps, KeysIn
      <4> QED BY <4>1, BytesAre
    <3> QED BY <3>1 DEF Injection, IsInjective
  <2>2. IsFiniteSet(Bytes(m)) /\ Cardinality(Bytes(m)) \in Nat
    BY BytesAre
  <2>3. IsFiniteSet(KeysIn(m))
    BY KeysAssumption, FS_Subset DEF KeysIn
  <2>4. Cardinality(KeysIn(m)) <= Cardinality(Bytes(m))
    BY <2>1, <2>2, FS_Injection
  <2>5. Cardinality(KeysIn(m)) \in Nat
    BY <2>3, FS_CardinalityType
  <2>6. Compacted(m) = Cardinality(Bytes(m)) /\ Compacted(m) <= u /\ u <= LeafBytes
    BY <1>2 DEF PageOK, Compacted
  <2> QED BY <1>2, <2>2, <2>4, <2>5, <2>6, LayoutAssumption
<1> QED BY <1>1, <1>2

\* Fewer records take fewer bytes (leaf_compact).
LEMMA FewerFit ==
  ASSUME NEW m \in Maps, NEW n \in Maps, NEW u \in Nat, PageOK(m, u),
         \A k \in KeysIn(n) : n[k] = m[k]
  PROVE  PageOK(n, Compacted(n)) /\ Compacted(n) <= Compacted(m) /\ PageOK(n, u)
<1>1. KeysIn(n) \subseteq KeysIn(m) /\ IsFiniteSet(KeysIn(m))
  BY KeysAssumption, FS_Subset DEF KeysIn
<1>2. Cardinality(KeysIn(n)) <= Cardinality(KeysIn(m)) /\ Cardinality(KeysIn(n)) \in Nat
      /\ Cardinality(KeysIn(m)) \in Nat
  BY <1>1, FS_Subset, FS_CardinalityType
<1>3. Cardinality(Bytes(n)) <= Cardinality(Bytes(m))
  <2>1. \A b : b \in Bytes(n) => b \in Bytes(m)
    <3> SUFFICES ASSUME NEW k \in KeysIn(n), NEW i \in 1 .. SlotSize + Size[n[k]]
                 PROVE  <<k, i>> \in Bytes(m)
      BY BytesAre
    <3>1. k \in KeysIn(m) /\ n[k] = m[k]
      BY <1>1
    <3> QED BY <3>1, BytesAre
  <2>2. Bytes(n) \subseteq Bytes(m) /\ IsFiniteSet(Bytes(m))
    BY <2>1, BytesAre
  <2> QED BY <2>2, FS_Subset
<1>4. Cardinality(Bytes(n)) \in Nat /\ Cardinality(Bytes(m)) \in Nat
  BY BytesAre
<1>5. Compacted(n) <= Compacted(m) /\ Compacted(n) \in Nat /\ Compacted(m) \in Nat
  BY <1>3, <1>4 DEF Compacted
<1>6. CASE RecordSize # 0
  BY <1>2, <1>5, <1>6, LayoutAssumption DEF PageOK, Compacted
<1>7. CASE RecordSize = 0
  BY <1>5, <1>7, LayoutAssumption DEF PageOK
<1> QED BY <1>5, <1>6, <1>7

\* A page without records takes nothing.
LEMMA EmptyFits == PageOK(NoRecords, 0)
<1>1. NoRecords \in Maps /\ KeysIn(NoRecords) = {}
  BY NoRecordsTypes
<1>2. Cardinality(KeysIn(NoRecords)) = 0
  BY <1>1, FS_EmptySet
<1>3. Bytes(NoRecords) = {}
  BY <1>1, BytesAre
<1>4. Compacted(NoRecords) = 0
  BY <1>3, FS_EmptySet DEF Compacted
<1> QED BY <1>2, <1>4, LayoutAssumption DEF PageOK

\* leaf_upsert keeps a leaf within its page.
LEMMA UpsertFits ==
  ASSUME NEW m \in Maps, NEW u \in Nat, PageOK(m, u), NEW k \in Keys, NEW v \in Vals,
         NEW overwrite, Outcome(m, u, k, v, overwrite) = "OK"
  PROVE  PageOK([m EXCEPT ![k] = v], UsedAfter(m, u, k, v))
<1> DEFINE n == [m EXCEPT ![k] = v]
<1>1. n \in Maps /\ KeysIn(n) = KeysIn(m) \cup {k} /\ n[k] = v
      /\ \A j \in KeysIn(m) : j # k => n[j] = m[j]
  BY WithRecordTypes DEF Maps, KeysIn
<1>2. IsFiniteSet(KeysIn(m)) /\ Cardinality(KeysIn(m)) \in Nat
  BY KeysAssumption, FS_Subset, FS_CardinalityType DEF KeysIn
<1>3. Size[v] \in Nat /\ SlotSize \in Nat /\ LeafBytes \in Nat /\ FixedCap \in Nat
      /\ (k \in KeysIn(m) => Size[m[k]] \in Nat)
  BY ValsAssumption, LayoutAssumption DEF Maps, KeysIn
<1>4. k \notin KeysIn(m) => HasRoom(m, u, v)
  BY DEF Outcome
<1> HIDE DEF n
<1>5. CASE RecordSize # 0
  <2>1. Cardinality(KeysIn(n)) <= FixedCap
    <3>1. CASE k \in KeysIn(m)
      <4>1. KeysIn(n) = KeysIn(m)
        BY <1>1, <3>1
      <4> QED BY <1>5, <4>1 DEF PageOK
    <3>2. CASE k \notin KeysIn(m)
      <4>1. Cardinality(KeysIn(n)) = Cardinality(KeysIn(m)) + 1
        BY <1>1, <1>2, <3>2, FS_AddElement
      <4>2. Cardinality(KeysIn(m)) < FixedCap
        BY <1>4, <1>5, <3>2 DEF HasRoom
      <4> QED BY <1>2, <1>3, <4>1, <4>2
    <3> QED BY <3>1, <3>2
  <2> QED BY <1>5, <2>1 DEF PageOK, UsedAfter, n
<1>6. CASE RecordSize = 0
  <2>1. Compacted(n) = Cardinality(Bytes(n)) /\ Compacted(m) = Cardinality(Bytes(m))
        /\ Cardinality(Bytes(n)) \in Nat /\ Cardinality(Bytes(m)) \in Nat
        /\ IsFiniteSet(Bytes(n)) /\ IsFiniteSet(Bytes(m))
        /\ Cardinality(Bytes(m)) <= u /\ u <= LeafBytes
    BY <1>1, <1>6, BytesAre DEF Compacted, PageOK
  \* The bytes n has and m has not.
  <2>2. ASSUME NEW first \in Nat, NEW size \in Nat,
               \A i \in 1 .. SlotSize + Size[v] : <<k, i>> \in Bytes(m) \/ i \in first + 1 .. first + size
        PROVE  Cardinality(Bytes(n)) <= u + size
    <3> DEFINE more == {k} \X (first + 1 .. first + size)
               F == [b \in {k} \X (1 .. size) |-> <<k, first + b[2]>>]
    <3>1. IsFiniteSet({k} \X (1 .. size)) /\ Cardinality({k} \X (1 .. size)) = size
      BY RecordBytes
    <3>2. F \in Surjection({k} \X (1 .. size), more)
      <4>1. \A b \in {k} \X (1 .. size) : F[b] \in more
        OBVIOUS
      <4>2. ASSUME NEW c \in more PROVE \E b \in {k} \X (1 .. size) : F[b] = c
        <5>1. c = <<k, c[2]>> /\ c[2] \in first + 1 .. first + size
          OBVIOUS
        <5>2. c[2] - first \in 1 .. size /\ first + (c[2] - first) = c[2]
          BY <5>1
        <5>3. <<k, c[2] - first>> \in {k} \X (1 .. size)
          BY <5>2
        <5>4. F[<<k, c[2] - first>>] = <<k, first + (c[2] - first)>>
          BY <5>3
        <5> QED BY <5>1, <5>2, <5>3, <5>4
      <4> QED BY <4>1, <4>2 DEF Surjection
    <3>3. IsFiniteSet(more) /\ Cardinality(more) <= size
      BY <3>1, <3>2, FS_Surjection
    <3>4. Bytes(n) \subseteq Bytes(m) \cup more
      <4> SUFFICES ASSUME NEW j \in KeysIn(n), NEW i \in 1 .. SlotSize + Size[n[j]],
                          <<j, i>> \notin Bytes(m)
                   PROVE  <<j, i>> \in more
        BY <1>1, BytesAre
      <4>1. j = k
        <5> SUFFICES ASSUME j # k PROVE <<j, i>> \in Bytes(m)
          OBVIOUS
        <5>1. j \in KeysIn(m) /\ n[j] = m[j]
          BY <1>1
        <5> QED BY <5>1, BytesAre
      <4>2. i \in 1 .. SlotSize + Size[v]
        BY <1>1, <4>1
      <4> QED BY <2>2, <4>1, <4>2
    <3> HIDE DEF more
    <3>5. /\ IsFiniteSet(Bytes(m) \cup more)
          /\ Cardinality(Bytes(m) \cup more)
               = Cardinality(Bytes(m)) + Cardinality(more) - Cardinality(Bytes(m) \cap more)
      BY <2>1, <3>3, FS_Union
    <3>6. Cardinality(Bytes(n)) <= Cardinality(Bytes(m) \cup more)
      BY <3>4, <3>5, FS_Subset
    <3>7. Cardinality(Bytes(m) \cap more) \in Nat /\ Cardinality(more) \in Nat
          /\ Cardinality(Bytes(m) \cup more) \in Nat
      BY <2>1, <3>3, <3>5, FS_Intersection, FS_CardinalityType
    <3> QED BY <2>1, <3>3, <3>5, <3>6, <3>7
  <2>3. CASE k \notin KeysIn(m)
    <3>1. Cardinality(Bytes(n)) <= u + (SlotSize + Size[v])
      BY <1>3, <2>2
    <3>2. UsedAfter(m, u, k, v) = u + SlotSize + Size[v]
      BY <1>6, <2>3 DEF UsedAfter
    <3>3. u + SlotSize + Size[v] <= LeafBytes
      BY <1>4, <1>6, <2>3 DEF HasRoom
    <3> QED BY <1>3, <1>6, <2>1, <3>1, <3>2, <3>3 DEF PageOK, n
  <2>4. CASE k \in KeysIn(m) /\ Size[v] <= Size[m[k]]
    <3>1. \A i \in 1 .. SlotSize + Size[v] : <<k, i>> \in Bytes(m)
      <4> TAKE i \in 1 .. SlotSize + Size[v]
      <4>1. i \in 1 .. SlotSize + Size[m[k]]
        BY <1>3, <2>4
      <4> QED BY <2>4, <4>1, BytesAre
    <3>2. Cardinality(Bytes(n)) <= u + 0
      BY <2>2, <3>1
    <3>3. UsedAfter(m, u, k, v) = u
      BY <1>6, <2>4 DEF UsedAfter
    <3> QED BY <1>6, <2>1, <3>2, <3>3 DEF PageOK, n
  <2>5. CASE k \in KeysIn(m) /\ ~(Size[v] <= Size[m[k]])
    <3>1. \A i \in 1 .. SlotSize + Size[v] :
            <<k, i>> \in Bytes(m) \/ i \in SlotSize + 1 .. SlotSize + Size[v]
      <4> TAKE i \in 1 .. SlotSize + Size[v]
      <4>1. CASE i \in 1 .. SlotSize + Size[m[k]]
        BY <2>5, <4>1, BytesAre
      <4>2. CASE i \notin 1 .. SlotSize + Size[m[k]]
        BY <1>3, <2>5, <4>2
      <4> QED BY <4>1, <4>2
    <3>2. Cardinality(Bytes(n)) <= u + Size[v]
      BY <1>3, <2>2, <3>1
    <3>3. UsedAfter(m, u, k, v) = u + Size[v]
      BY <1>6, <2>5 DEF UsedAfter
    <3>4. u + Size[v] <= LeafBytes
      BY <1>6, <2>5 DEF Outcome
    <3> QED BY <1>6, <2>1, <3>2, <3>3, <3>4 DEF PageOK, n
  <2> QED BY <2>3, <2>4, <2>5
<1> QED BY <1>5, <1>6

\* A record goes into a leaf that has room for it.
LEMMA PutFits ==
  ASSUME NEW s \in Symbols, PagesOK(s), NEW l \in s.live, NEW k \in Keys, NEW v \in Vals,
         NEW overwrite, Outcome(s.recs[l], s.used[l], k, v, overwrite) = "OK"
  PROVE  PagesOK(PutInLeaf(s, l, k, v))
<1> DEFINE t == PutInLeaf(s, l, k, v)
           m == [s.recs[l] EXCEPT ![k] = v]
           u == UsedAfter(s.recs[l], s.used[l], k, v)
<1>1. s.live \subseteq Leaves /\ l \in Leaves /\ s.recs[l] \in Maps /\ s.used[l] \in Nat
      /\ s.recs \in [Leaves -> Maps] /\ s.used \in [Leaves -> Nat]
  BY DEF Symbols
<1>2. /\ t.live = s.live /\ t.recs = [s.recs EXCEPT ![l] = m]
      /\ t.used = [s.used EXCEPT ![l] = u]
  BY <1>1, PutInLeafFields, PutInLeafUsed
<1>3. PageOK(s.recs[l], s.used[l])
  BY DEF PagesOK
<1>4. PageOK(m, u)
  BY <1>1, <1>3, UpsertFits
<1> HIDE DEF t, m, u
<1>5. \A x \in s.live : PageOK(t.recs[x], t.used[x])
  BY <1>1, <1>2, <1>4 DEF PagesOK
<1> QED BY <1>2, <1>5 DEF PagesOK, t

\* Nothing is left out of the halves of a leaf but records of the other half.
LEMMA HalfFits ==
  ASSUME NEW m \in Maps, NEW u \in Nat, PageOK(m, u), NEW S \in SUBSET Keys
  PROVE  LET n == Only(m, S) IN n \in Maps /\ Compacted(n) \in Nat /\ PageOK(n, Compacted(n))
<1> DEFINE n == Only(m, S)
<1>1. n \in Maps /\ KeysIn(n) = KeysIn(m) \cap S
  BY OnlyTypes
<1>2. \A k \in KeysIn(n) : n[k] = m[k]
  BY <1>1 DEF Only, KeysIn
<1> HIDE DEF n
<1>3. PageOK(n, Compacted(n)) /\ Compacted(n) \in Nat
  BY <1>1, <1>2, FewerFit, CompactedIsNat
<1> QED BY <1>1, <1>3 DEF n

\* leaf_split leaves two leaves within their pages.
LEMMA SplitFits ==
  ASSUME NEW s \in Symbols, PagesOK(s), NEW l \in s.live, NEW p \in Leaves \ s.live
  PROVE  PagesOK(Split(s, l, p))
<1> DEFINE t == Split(s, l, p)
           lower == Only(s.recs[l], Lower(s.recs[l]))
           upper == Only(s.recs[l], Upper(s.recs[l]))
<1>1. s.live \subseteq Leaves /\ l \in Leaves /\ s.recs[l] \in Maps /\ s.used[l] \in Nat
      /\ s.recs \in [Leaves -> Maps] /\ s.used \in [Leaves -> Nat] /\ l # p
  BY DEF Symbols
<1>2. /\ t.live = s.live \cup {p}
      /\ t.recs = [s.recs EXCEPT ![l] = lower, ![p] = upper]
      /\ t.used = [s.used EXCEPT ![l] = Compacted(lower), ![p] = Compacted(upper)]
  BY <1>1, SplitFields, SplitUsed
<1>4. Lower(s.recs[l]) \in SUBSET Keys /\ Upper(s.recs[l]) \in SUBSET Keys
  BY DEF Lower, Upper, KeysIn
<1>5. PageOK(s.recs[l], s.used[l])
  BY DEF PagesOK
<1>6. PageOK(lower, Compacted(lower)) /\ PageOK(upper, Compacted(upper))
  BY <1>1, <1>4, <1>5, HalfFits
<1> HIDE DEF t, lower, upper
<1>7. \A x \in s.live \cup {p} : PageOK(t.recs[x], t.used[x])
  BY <1>1, <1>2, <1>6 DEF PagesOK
<1> QED BY <1>2, <1>7 DEF PagesOK, t

\* A new leaf with one record that fits an empty one.
LEMMA LoneFits ==
  ASSUME NEW s \in Symbols, PagesOK(s), NEW p \in Leaves \ s.live,
         NEW k \in Keys, NEW v \in Vals, Fresh(k, v) = "OK",
         NEW t, t.live = s.live \cup {p},
         t.recs = [s.recs EXCEPT ![p] = [NoRecords EXCEPT ![k] = v]],
         t.used = [s.used EXCEPT ![p] = UsedAfter(NoRecords, 0, k, v)]
  PROVE  PagesOK(t)
<1>1. s.live \subseteq Leaves /\ s.recs \in [Leaves -> Maps] /\ s.used \in [Leaves -> Nat]
  BY DEF Symbols
<1>2. PageOK([NoRecords EXCEPT ![k] = v], UsedAfter(NoRecords, 0, k, v))
  BY NoRecordsTypes, EmptyFits, UpsertFits DEF Fresh
<1>3. \A x \in s.live \cup {p} : PageOK(t.recs[x], t.used[x])
  BY <1>1, <1>2 DEF PagesOK
<1> QED BY <1>3 DEF PagesOK

\* A write that is not refused keeps every leaf within its page.
LEMMA WriteFits ==
  ASSUME NEW s \in Symbols, StructureOK(s), PagesOK(s),
         NEW k \in Keys, NEW v \in Vals, NEW overwrite \in BOOLEAN,
         WriteStatus(s, k, v, overwrite) = "OK",
         ~Mishandled(s, k, v, overwrite),
         NEW t \in AfterWrite(s, k, v, overwrite)
  PROVE  PagesOK(t)
<1>1. CASE /\ Fresh(k, v) = "OK"
           /\ \E p \in Leaves \ s.live : t = FirstLeaf(s, p, k, v)
  <2>1. PICK p \in Leaves \ s.live : t = FirstLeaf(s, p, k, v)
    BY <1>1
  <2>2. /\ t.live = s.live \cup {p}
        /\ t.recs = [s.recs EXCEPT ![p] = [NoRecords EXCEPT ![k] = v]]
        /\ t.used = [s.used EXCEPT ![p] = UsedAfter(NoRecords, 0, k, v)]
    BY <2>1, FirstLeafFields, NewLeafUsed
  <2> QED BY <1>1, <2>2, LoneFits
<1>2. CASE /\ Fresh(k, v) = "OK"
           /\ \E l \in s.live, p \in Leaves \ s.live : t = NewTail(s, l, p, k, v)
  <2>1. PICK l \in s.live, p \in Leaves \ s.live : t = NewTail(s, l, p, k, v)
    BY <1>2
  <2>2. l \in Leaves
    BY DEF Symbols
  <2>3. /\ t.live = s.live \cup {p}
        /\ t.recs = [s.recs EXCEPT ![p] = [NoRecords EXCEPT ![k] = v]]
        /\ t.used = [s.used EXCEPT ![p] = UsedAfter(NoRecords, 0, k, v)]
    BY <2>1, <2>2, NewTailFields, NewLeafUsed
  <2> QED BY <1>2, <2>3, LoneFits
<1>3. CASE \E l \in s.live : /\ Outcome(s.recs[l], s.used[l], k, v, overwrite) = "OK"
                             /\ t = PutInLeaf(s, l, k, v)
  BY <1>3, PutFits
<1>4. ASSUME NEW l \in s.live, NEW p \in Leaves \ s.live, NEW q \in {l, p},
             Lower(s.recs[l]) # {}, NEW u, u = Split(s, l, p),
             Outcome(u.recs[q], u.used[q], k, v, overwrite) = "OK",
             t = PutInLeaf(u, q, k, v)
      PROVE  PagesOK(t)
  <2>1. u \in Symbols /\ PagesOK(u) /\ u.live = s.live \cup {p}
    BY <1>4, SplitSound, SplitFits
  <2>2. q \in u.live
    BY <2>1
  <2> QED BY <1>4, <2>1, <2>2, PutFits
<1>5. CASE \E l \in s.live, p \in Leaves \ s.live : \E q \in {l, p} :
             /\ Lower(s.recs[l]) # {}
             /\ LET u == Split(s, l, p)
                IN  /\ Outcome(u.recs[q], u.used[q], k, v, overwrite) = "OK"
                    /\ t = PutInLeaf(u, q, k, v)
  BY <1>4, <1>5
<1> QED BY <1>1, <1>2, <1>3, <1>5, WriteWays

\* So does a delete.
LEMMA DeleteFits ==
  ASSUME NEW s \in Symbols, StructureOK(s), PagesOK(s), NEW k \in Keys
  PROVE  PagesOK(AfterDelete(s, k))
<1> DEFINE l == Descend(s, k)
           t == AfterDelete(s, k)
<1>1. s.live \subseteq Leaves /\ s.recs \in [Leaves -> Maps] /\ s.used \in [Leaves -> Nat]
      /\ NoLeaf \notin Leaves
  BY LeavesAssumption DEF Symbols
<1>2. CASE ~Holds(s, l, k)
  BY <1>2 DEF AfterDelete
<1>3. CASE Holds(s, l, k)
  <2>1. k \in Nat
    BY KeysAssumption
  <2>2. l \in s.live /\ l \in Leaves
    BY <1>1, <1>3, <2>1, DescendLands, DescendNowhere DEF Holds
  <2> HIDE DEF l
  <2>3. CASE KeysIn(s.recs[l]) = {k}
    <3> DEFINE u == Unlink(s, l)
    <3>1. t = Uncounted(u) /\ u \in Symbols
      BY <1>3, <2>2, <2>3, UnlinkSound DEF AfterDelete, l
    <3>2. u.live = s.live \ {l} /\ u.recs = [s.recs EXCEPT ![l] = NoRecords]
          /\ u.used = [s.used EXCEPT ![l] = 0]
      BY <2>2, UnlinkFields, DeleteUsed
    <3> HIDE DEF u, t
    <3>3. t.live = s.live \ {l} /\ t.recs = u.recs /\ t.used = u.used
      BY <3>1, <3>2, UncountedFields, DeleteUsed
    <3>4. \A x \in s.live \ {l} : PageOK(t.recs[x], t.used[x])
      BY <1>1, <3>2, <3>3 DEF PagesOK
    <3> QED BY <3>3, <3>4 DEF PagesOK, t
  <2>4. CASE KeysIn(s.recs[l]) # {k}
    <3> DEFINE u == Erase(s, l, k)
               rest == Only(s.recs[l], KeysIn(s.recs[l]) \ {k})
    <3>1. t = Uncounted(u) /\ u \in Symbols
      <4>1. t = Uncounted(u)
        BY <1>3, <2>4 DEF AfterDelete, l
      <4>2. k \in KeysIn(s.recs[l])
        BY <1>3 DEF Holds, l
      <4> QED BY <2>2, <2>4, <4>1, <4>2, EraseSound
    <3>2. u.live = s.live /\ u.recs = [s.recs EXCEPT ![l] = rest]
          /\ u.used = [s.used EXCEPT ![l] = Compacted(rest)]
      <4>1. u.live = s.live /\ u.recs = [s.recs EXCEPT ![l] = rest]
        BY <2>2, EraseFields
      <4>2. u.used = [s.used EXCEPT ![l] = Compacted(rest)]
        BY <2>2, DeleteUsed
      <4> QED BY <4>1, <4>2
    <3>3. PageOK(s.recs[l], s.used[l]) /\ s.recs[l] \in Maps /\ s.used[l] \in Nat
          /\ KeysIn(s.recs[l]) \ {k} \in SUBSET Keys
      BY <1>1, <2>2 DEF PagesOK, KeysIn
    <3>4. PageOK(rest, Compacted(rest))
      BY <3>3, HalfFits
    <3> HIDE DEF u, t, rest
    <3>5. t.live = s.live /\ t.recs = u.recs /\ t.used = u.used
      BY <3>1, <3>2, UncountedFields, DeleteUsed
    <3>6. \A x \in s.live : PageOK(t.recs[x], t.used[x])
      BY <1>1, <3>2, <3>4, <3>5 DEF PagesOK
    <3> QED BY <3>5, <3>6 DEF PagesOK, t
  <2> QED BY <2>3, <2>4
<1> QED BY <1>2, <1>3

\* So does truncate_before, which compacts the leaf it trims.
LEMMA TruncateFits ==
  ASSUME NEW s \in Symbols, StructureOK(s), PagesOK(s), NEW cutoff \in Times
  PROVE  PagesOK(AfterTruncate(s, cutoff))
<1> DEFINE t == AfterTruncate(s, cutoff)
<1>1. s.live \subseteq Leaves /\ s.recs \in [Leaves -> Maps] /\ s.used \in [Leaves -> Nat]
  BY DEF Symbols
<1>2. /\ t.live = s.live \ FreedBelow(s, cutoff)
      /\ t.recs = [l \in Leaves |->
                     IF l \in FreedBelow(s, cutoff) THEN NoRecords
                     ELSE IF l = t.first THEN TrimBelow(s.recs[l], cutoff)
                     ELSE s.recs[l]]
  BY TruncateFields
<1>3. t.used = [l \in Leaves |-> IF l \in FreedBelow(s, cutoff) THEN 0
                                 ELSE IF t.recs[l] # s.recs[l] THEN Compacted(t.recs[l])
                                 ELSE s.used[l]]
  BY DEF AfterTruncate
<1> HIDE DEF t
<1>4. ASSUME NEW l \in s.live \ FreedBelow(s, cutoff) PROVE PageOK(t.recs[l], t.used[l])
  <2>1. PageOK(s.recs[l], s.used[l]) /\ s.recs[l] \in Maps /\ s.used[l] \in Nat /\ l \in Leaves
    BY <1>1 DEF PagesOK
  <2>2. t.used[l] = IF t.recs[l] # s.recs[l] THEN Compacted(t.recs[l]) ELSE s.used[l]
    BY <1>3, <2>1
  <2>3. t.recs[l] = s.recs[l] \/ t.recs[l] = TrimBelow(s.recs[l], cutoff)
    BY <1>2, <2>1
  <2>4. CASE t.recs[l] = s.recs[l]
    BY <2>1, <2>2, <2>4
  <2>5. CASE t.recs[l] # s.recs[l]
    <3> DEFINE S == {k \in KeysIn(s.recs[l]) : k >= StartOf(cutoff)}
    <3>1. S \in SUBSET Keys /\ t.recs[l] = Only(s.recs[l], S)
      BY <2>3, <2>5 DEF TrimBelow, KeysIn
    <3> HIDE DEF S
    <3>2. PageOK(t.recs[l], Compacted(t.recs[l]))
      BY <2>1, <3>1, HalfFits
    <3> QED BY <2>2, <2>5, <3>2
  <2> QED BY <2>4, <2>5
<1> QED BY <1>2, <1>4 DEF PagesOK, t

------------------------------------------------------------------------------
\* Every leaf within its page, inside a transaction and as committed.
PageInv == Inv /\ PagesOK(sym) /\ PagesOK(disk)

\* Every step keeps it.
LEMMA NextPageInv ==
  ASSUME AllWrites = FALSE, PageInv, [Next]_vars
  PROVE  PageInv'
<1>1. /\ sym \in Symbols /\ disk \in Symbols /\ StructureOK(sym) /\ StructureOK(disk)
      /\ PagesOK(sym) /\ PagesOK(disk) /\ Inv
  BY DEF PageInv, Inv, TypeOK, StructureSound
<1>2. Inv'
  BY <1>1, NextInv
<1>3. ASSUME PagesOK(sym'), disk' \in {disk, sym', sym} PROVE PageInv'
  BY <1>1, <1>2, <1>3 DEF PageInv
<1>4. ASSUME NEW k \in Keys, NEW v \in Vals, NEW overwrite \in PutFlags,
             BatchPut(k, v, overwrite)
      PROVE  PageInv'
  <2>1. /\ overwrite \in BOOLEAN /\ WriteStatus(sym, k, v, overwrite) = "OK"
        /\ ~Mishandled(sym, k, v, overwrite)
        /\ sym' \in AfterWrite(sym, k, v, overwrite) /\ disk' = disk
    BY <1>4, WritesAssumption DEF BatchPut
  <2>2. PagesOK(sym')
    BY <1>1, <2>1, WriteFits
  <2> QED BY <1>3, <2>1, <2>2
<1>5. ASSUME NEW k \in Keys, NEW v \in Vals, NEW overwrite \in PutFlags,
             BatchRefused(k, v, overwrite)
      PROVE  PageInv'
  BY <1>1, <1>3, <1>5 DEF BatchRefused
<1>6. ASSUME NEW k \in Keys, BatchDelete(k) PROVE PageInv'
  <2>1. PagesOK(sym') /\ disk' = disk
    BY <1>1, <1>6, DeleteFits DEF BatchDelete
  <2> QED BY <1>3, <2>1
<1>7. ASSUME NEW lo \in Times, NEW hi \in Times, BeginRange(lo, hi) PROVE PageInv'
  BY <1>1, <1>3, <1>7 DEF BeginRange
<1>8. ASSUME RangeStep PROVE PageInv'
  <2>1. Lowest \in Keys
    BY <1>8 DEF RangeStep, Holds, KeysIn
  <2>2. sym' = AfterDelete(sym, Lowest) /\ disk' = disk
    BY <1>8 DEF RangeStep
  <2>3. PagesOK(sym')
    BY <1>1, <2>1, <2>2, DeleteFits
  <2> QED BY <1>3, <2>2, <2>3
<1>9. ASSUME Commit PROVE PageInv'
  BY <1>1, <1>3, <1>9 DEF Commit
<1>10. ASSUME Fail PROVE PageInv'
  BY <1>1, <1>3, <1>10 DEF Fail
<1>11. ASSUME NEW cutoff \in Times, TruncateBefore(cutoff) PROVE PageInv'
  <2>1. PagesOK(sym') /\ disk' = sym'
    BY <1>1, <1>11, TruncateFits DEF TruncateBefore
  <2> QED BY <1>3, <2>1
<1>12. ASSUME SymbolDrop PROVE PageInv'
  <2>1. sym' = NewSymbol /\ disk' = sym'
    BY <1>1, <1>12, DropSound DEF SymbolDrop
  <2>2. PagesOK(sym')
    BY <2>1 DEF PagesOK, NewSymbol
  <2> QED BY <1>3, <2>1, <2>2
<1>13. ASSUME UNCHANGED vars PROVE PageInv'
  BY <1>1, <1>3, <1>13 DEF vars
<1> QED BY <1>4, <1>5, <1>6, <1>7, <1>8, <1>9, <1>10, <1>11, <1>12, <1>13 DEF Next

\* So it is in every state.
LEMMA PageInvAlways ==
  ASSUME AllWrites = FALSE
  PROVE  Spec => []PageInv
<1>1. Init => PageInv
  BY InitInv DEF Init, PageInv, PagesOK, NewSymbol
<1>2. PageInv /\ [Next]_vars => PageInv'
  BY NextPageInv
<1> QED BY <1>1, <1>2, PTL DEF Spec

\* Every leaf keeps within its page and knows at least the bytes its records
\* take (leaf_upsert, leaf_compact, leaf_split), through overwrites that grow,
\* holes and halves.
THEOREM LeavesAlwaysWithinPage ==
  ASSUME AllWrites = FALSE
  PROVE  Spec => []LeafWithinPage
<1>1. PageInv => LeafWithinPage
  <2> SUFFICES ASSUME PageInv, NEW l \in sym.live
               PROVE  /\ Cardinality(KeysIn(sym.recs[l]))
                           <= IF RecordSize # 0 THEN FixedCap ELSE LeafBytes
                      /\ sym.used[l] <= LeafBytes
                      /\ sym.used[l] >= Compacted(sym.recs[l])
    BY DEF LeafWithinPage
  <2>1. sym.recs[l] \in Maps /\ sym.used[l] \in Nat
    BY DEF PageInv, Inv, TypeOK, Symbols
  <2>2. PageOK(sym.recs[l], sym.used[l])
    BY DEF PageInv, PagesOK
  <2> QED BY <2>1, <2>2, PageWithin
<1> QED BY <1>1, PageInvAlways, PTL

------------------------------------------------------------------------------
(* Lists of keys that go up.                                               *)

\* A sequence of keys that goes up, and what it lists.
Rising(q) == \A i, j \in 1 .. Len(q) : i < j => q[i] < q[j]
Entries(q) == {q[i] : i \in 1 .. Len(q)}

\* InOrder lists a set of keys, each once, in key order: the keys below each
\* are an injection into 0 .. n - 1.
LEMMA InOrderLists ==
  ASSUME NEW S \in SUBSET Keys
  PROVE  /\ InOrder(S) \in Seq(Keys) /\ Len(InOrder(S)) = Cardinality(S)
         /\ Rising(InOrder(S)) /\ Entries(InOrder(S)) = S
         /\ IsFiniteSet(S) /\ Cardinality(S) \in Nat
<1> DEFINE below(k) == {j \in S : j < k}
           n == Cardinality(S)
           rank == [k \in S |-> Cardinality(below(k))]
           s == InOrder(S)
<1>1. IsFiniteSet(S) /\ n \in Nat /\ S \subseteq Nat
  BY KeysAssumption, FS_Subset, FS_CardinalityType
<1>2. \A k \in S : IsFiniteSet(below(k)) /\ rank[k] \in 0 .. n - 1
  <2> TAKE k \in S
  <2>1. IsFiniteSet(S \ {k}) /\ Cardinality(S \ {k}) = n - 1
    BY <1>1, FS_RemoveElement
  <2>2. below(k) \subseteq S \ {k}
    BY <1>1
  <2>3. /\ IsFiniteSet(below(k)) /\ Cardinality(below(k)) \in Nat
        /\ Cardinality(below(k)) <= Cardinality(S \ {k})
    BY <2>1, <2>2, FS_Subset, FS_CardinalityType
  <2> QED BY <1>1, <2>1, <2>3
<1>3. ASSUME NEW j \in S, NEW k \in S, j < k PROVE rank[j] < rank[k]
  <2>1. below(j) \subseteq below(k) /\ j \in below(k) /\ j \notin below(j)
    <3>1. j \in Nat /\ k \in Nat /\ ~(j < j)
      BY <1>1
    <3>2. ASSUME NEW i \in S, i < j PROVE i < k
      <4>1. i \in Nat
        BY <1>1
      <4> QED BY <1>3, <3>1, <3>2, <4>1
    <3> QED BY <1>3, <3>1, <3>2
  <2>2. /\ Cardinality(below(j)) <= Cardinality(below(k))
        /\ Cardinality(below(j)) # Cardinality(below(k))
    BY <1>2, <2>1, FS_Subset
  <2> QED BY <1>1, <1>2, <2>2
<1>4. ASSUME NEW j \in S, NEW k \in S, rank[j] <= rank[k] PROVE j <= k
  <2> HIDE DEF rank
  <2>1. rank[j] \in 0 .. n - 1 /\ rank[k] \in 0 .. n - 1
    BY <1>2
  <2> HIDE DEF n
  <2>2. SUFFICES ASSUME k < j PROVE FALSE
    BY <1>1
  <2>3. rank[k] < rank[j]
    BY <1>3, <2>2
  <2> QED BY <1>1, <1>4, <2>1, <2>3
<1>5. \A m \in 1 .. n : \E k \in S : rank[k] = m - 1
  <2>1. rank \in Injection(S, 0 .. n - 1)
    <3>1. rank \in [S -> 0 .. n - 1]
      BY <1>2
    <3> HIDE DEF rank
    <3>2. \A j, k \in S : rank[j] = rank[k] => j = k
      <4> TAKE j, k \in S
      <4> HAVE rank[j] = rank[k]
      <4>1. rank[j] \in 0 .. n - 1 /\ rank[k] \in 0 .. n - 1
        BY <1>2
      <4> HIDE DEF n
      <4>2. rank[j] <= rank[k] /\ rank[k] <= rank[j]
        BY <1>1, <4>1
      <4>3. j <= k /\ k <= j
        BY <1>4, <4>2
      <4> QED BY <1>1, <4>3
    <3> QED BY <3>1, <3>2 DEF Injection, IsInjective
  <2>2. IsFiniteSet(0 .. n - 1) /\ Cardinality(0 .. n - 1) = n
    <3> HIDE DEF n
    <3>1. 0 \in Int /\ n - 1 \in Int
      BY <1>1
    <3>2. /\ IsFiniteSet(0 .. n - 1)
          /\ Cardinality(0 .. n - 1) = IF 0 > n - 1 THEN 0 ELSE n - 1 - 0 + 1
      BY <3>1, FS_Interval
    <3>3. (IF 0 > n - 1 THEN 0 ELSE n - 1 - 0 + 1) = n
      BY <1>1
    <3> QED BY <3>2, <3>3
  <2>3. rank \in Surjection(S, 0 .. n - 1)
    BY <2>1, <2>2, <1>1, FS_Injection
  <2> HIDE DEF rank
  <2>4. \A v \in 0 .. n - 1 : \E k \in S : rank[k] = v
    BY <2>3 DEF Surjection
  <2> QED BY <1>1, <2>4
<1>6. s = [m \in 1 .. n |-> CHOOSE k \in S : Cardinality(below(k)) = m - 1]
  BY DEF InOrder
<1>7. \A m \in 1 .. n : s[m] \in S /\ rank[s[m]] = m - 1
  <2> TAKE m \in 1 .. n
  <2>1. \E k \in S : Cardinality(below(k)) = m - 1
    BY <1>5
  <2>2. s[m] = CHOOSE k \in S : Cardinality(below(k)) = m - 1
    BY <1>6
  <2> HIDE DEF s
  <2>3. s[m] \in S /\ Cardinality(below(s[m])) = m - 1
    BY <2>1, <2>2
  <2> QED BY <2>3
<1> HIDE DEF rank, s
<1>8. s \in Seq(S) /\ s \in Seq(Keys) /\ Len(s) = n /\ DOMAIN s = 1 .. n
  <2>1. DOMAIN s = 1 .. n /\ s \in [1 .. n -> S]
    <3> DEFINE e(m) == CHOOSE k \in S : Cardinality(below(k)) = m - 1
    <3>1. s = [m \in 1 .. n |-> e(m)]
      BY <1>6
    <3> HIDE DEF e
    <3> QED BY <1>7, <3>1
  <2> HIDE DEF n
  <2>2. s \in Seq(S)
    BY <1>1, <2>1, SeqDef
  <2>3. s \in Seq(Keys)
    BY <2>2, SeqMonotonic
  <2> QED BY <1>1, <2>1, <2>2, <2>3, LenProperties
<1>9. Rising(s)
  <2> SUFFICES ASSUME NEW a \in 1 .. n, NEW b \in 1 .. n, a < b PROVE s[a] < s[b]
    BY <1>8 DEF Rising
  <2>1. s[a] \in S /\ s[b] \in S /\ rank[s[a]] = a - 1 /\ rank[s[b]] = b - 1
    BY <1>7
  <2>1a. s[a] \in Nat /\ s[b] \in Nat /\ a \in Nat /\ b \in Nat
    <3>1. s[a] \in Nat /\ s[b] \in Nat
      BY <1>1, <2>1
    <3> HIDE DEF n
    <3>2. a \in Nat /\ b \in Nat
      BY <1>1
    <3> QED BY <3>1, <3>2
  <2> HIDE DEF n
  <2>2. SUFFICES ASSUME s[b] <= s[a] PROVE FALSE
    BY <2>1a
  <2>3. s[b] < s[a] => rank[s[b]] < rank[s[a]]
    BY <1>3, <2>1
  <2>4. s[b] # s[a]
    BY <2>1, <2>1a
  <2>5. rank[s[b]] < rank[s[a]]
    BY <2>1a, <2>2, <2>3, <2>4
  <2> QED BY <2>1, <2>1a, <2>5
<1>10. Entries(s) = S
  <2>1. ASSUME NEW k \in S PROVE k \in Entries(s)
    <3>1. rank[k] \in 0 .. n - 1
      BY <1>2
    <3>2. rank[k] + 1 \in 1 .. n /\ (rank[k] + 1) - 1 = rank[k]
      <4> HIDE DEF n
      <4> QED BY <1>1, <3>1
    <3>3. rank[s[rank[k] + 1]] = rank[k] /\ s[rank[k] + 1] \in S
      BY <1>7, <3>2
    <3>4. s[rank[k] + 1] <= k /\ k <= s[rank[k] + 1]
      <4> HIDE DEF n
      <4> QED BY <1>4, <3>1, <3>3
    <3>5. s[rank[k] + 1] = k
      <4>1. s[rank[k] + 1] \in Nat /\ k \in Nat
        BY <1>1, <3>3
      <4> QED BY <3>4, <4>1
    <3> QED BY <1>8, <3>2, <3>5 DEF Entries
  <2> QED BY <1>7, <1>8, <2>1 DEF Entries
<1> QED BY <1>1, <1>8, <1>9, <1>10 DEF s

\* A sequence that goes up has as many entries as it is long.
LEMMA RisingCount ==
  ASSUME NEW q \in Seq(Keys), Rising(q)
  PROVE  /\ Len(q) \in Nat /\ Cardinality(Entries(q)) = Len(q)
         /\ Entries(q) \in SUBSET Keys /\ Entries(q) \subseteq Nat
<1>1. Len(q) \in Nat /\ \A i \in 1 .. Len(q) : q[i] \in Keys /\ q[i] \in Nat
  BY LenProperties, ElementOfSeq, KeysAssumption
<1>2. Entries(q) \in SUBSET Keys /\ Entries(q) \subseteq Nat
  BY <1>1 DEF Entries
<1> DEFINE f == [i \in 1 .. Len(q) |-> q[i]]
<1>3. f \in Bijection(1 .. Len(q), Entries(q))
  <2>1. f \in [1 .. Len(q) -> Entries(q)] /\ \A k \in Entries(q) : \E i \in 1 .. Len(q) : f[i] = k
    BY DEF Entries
  <2>2. ASSUME NEW i \in 1 .. Len(q), NEW j \in 1 .. Len(q), f[i] = f[j] PROVE i = j
    <3>1. q[i] = q[j] /\ q[i] \in Nat /\ q[j] \in Nat
      BY <1>1, <2>2
    <3>2. ~(i < j) /\ ~(j < i)
      BY <3>1 DEF Rising
    <3> QED BY <1>1, <3>2
  <2> HIDE DEF f
  <2> QED BY <2>1, <2>2 DEF Bijection, Injection, Surjection, IsInjective
<1>4. ExistsBijection(1 .. Len(q), Entries(q))
  BY <1>3 DEF ExistsBijection
<1> QED BY <1>1, <1>2, <1>4, FS_CountingElements

\* One that lists the least keys of another is the front of it.
LEMMA RisingFront ==
  ASSUME NEW p \in Seq(Keys), NEW q \in Seq(Keys), Rising(p), Rising(q),
         Entries(p) \subseteq Entries(q),
         \A j \in Entries(p), k \in Entries(q) : k < j => k \in Entries(p)
  PROVE  Len(p) <= Len(q) /\ p = SubSeq(q, 1, Len(p))
<1>1. /\ Len(p) \in Nat /\ Len(q) \in Nat
      /\ \A i \in 1 .. Len(p) : p[i] \in Nat /\ p[i] \in Entries(p) /\ p[i] \in Keys
      /\ \A i \in 1 .. Len(q) : q[i] \in Nat /\ q[i] \in Entries(q) /\ q[i] \in Keys
  BY LenProperties, ElementOfSeq, KeysAssumption DEF Entries
<1>2. Len(p) <= Len(q)
  <2>1. IsFiniteSet(Entries(q))
    BY RisingCount, KeysAssumption, FS_Subset
  <2>2. Cardinality(Entries(p)) <= Cardinality(Entries(q))
    BY <2>1, FS_Subset
  <2> QED BY <2>2, RisingCount
<1> DEFINE Bad == {i \in 1 .. Len(p) : p[i] # q[i]}
<1>3. Bad = {}
  <2>1. SUFFICES ASSUME Bad # {} PROVE FALSE
    OBVIOUS
  <2>2. PICK i \in Bad : \A j \in Bad : i <= j
    <3>1. Bad \in SUBSET Nat
      OBVIOUS
    <3> HIDE DEF Bad
    <3> QED BY <2>1, <3>1, LeastElement
  <2>3. i \in 1 .. Len(p) /\ i \in 1 .. Len(q) /\ p[i] # q[i]
    BY <1>1, <1>2
  <2>4. \A j \in 1 .. i - 1 : j \in 1 .. Len(p) /\ j \in 1 .. Len(q) /\ p[j] = q[j]
    BY <1>1, <1>2, <2>2, <2>3
  <2>5. CASE p[i] < q[i]
    <3>1. PICK j \in 1 .. Len(q) : q[j] = p[i]
      BY <1>1, <2>3 DEF Entries
    <3>2. ~(i < j) /\ i # j
      BY <3>1, <2>3, <2>5, <1>1 DEF Rising
    <3>3. j \in 1 .. i - 1
      BY <3>1, <3>2, <2>3, <1>1
    <3>4. p[j] = p[i] /\ j < i
      BY <2>4, <3>1, <3>3, <2>3, <1>1
    <3>5. p[j] < p[i]
      BY <2>3, <2>4, <3>3, <3>4 DEF Rising
    <3> QED BY <3>4, <3>5, <1>1, <2>3
  <2>6. CASE q[i] < p[i]
    <3>1. q[i] \in Entries(p)
      BY <1>1, <2>3, <2>6
    <3>2. PICK j \in 1 .. Len(p) : p[j] = q[i]
      BY <3>1 DEF Entries
    <3>3. ~(i < j) /\ i # j
      BY <3>2, <2>3, <2>6, <1>1 DEF Rising
    <3>4. j \in 1 .. i - 1
      BY <3>2, <3>3, <2>3, <1>1
    <3>5. q[j] = q[i] /\ j < i
      BY <2>4, <3>2, <3>4, <2>3, <1>1
    <3>6. q[j] < q[i]
      BY <2>3, <2>4, <3>4, <3>5 DEF Rising
    <3> QED BY <3>5, <3>6, <1>1, <2>3
  <2> QED BY <1>1, <2>3, <2>5, <2>6
<1>4. \A i \in 1 .. Len(p) : p[i] = q[i]
  BY <1>3
<1> DEFINE f == SubSeq(q, 1, Len(p))
<1>5. f \in Seq(Keys) /\ Len(f) = Len(p) /\ \A i \in 1 .. Len(p) : f[i] = q[i]
  <2>1. \A i \in 1 .. Len(p) : q[i] \in Keys
    BY <1>1, <1>2
  <2>2. /\ f \in Seq(Keys) /\ Len(f) = IF 1 <= Len(p) THEN Len(p) - 1 + 1 ELSE 0
        /\ \A i \in 1 .. Len(p) - 1 + 1 : f[i] = q[1 + i - 1]
    BY <1>1, <2>1, SubSeqProperties
  <2> HIDE DEF f
  <2>3. Len(f) = Len(p)
    BY <1>1, <2>2
  <2>4. \A i \in 1 .. Len(p) : i \in 1 .. Len(p) - 1 + 1 /\ 1 + i - 1 = i
    BY <1>1
  <2> QED BY <2>2, <2>3, <2>4
<1> HIDE DEF f
<1>6. \A i \in 1 .. Len(p) : f[i] = p[i]
  BY <1>4, <1>5
<1>7. f = p
  BY <1>5, <1>6, SeqEqual
<1> QED BY <1>2, <1>7 DEF f

\* A sequence that goes up, followed by the first n keys of another one above it.
LEMMA RisingOnward ==
  ASSUME NEW p \in Seq(Keys), NEW q \in Seq(Keys), Rising(p), Rising(q),
         \A j \in Entries(p), k \in Entries(q) : j < k,
         NEW n \in 0 .. Len(q)
  PROVE  LET r == p \o SubSeq(q, 1, n)
         IN  /\ r \in Seq(Keys) /\ Rising(r) /\ Len(r) = Len(p) + n
             /\ Entries(r) = Entries(p) \cup {q[i] : i \in 1 .. n}
<1> DEFINE f == SubSeq(q, 1, n)
           r == p \o f
<1>1. /\ Len(p) \in Nat /\ Len(q) \in Nat /\ n \in Nat /\ n <= Len(q)
      /\ \A i \in 1 .. Len(p) : p[i] \in Nat /\ p[i] \in Entries(p) /\ p[i] \in Keys
      /\ \A i \in 1 .. Len(q) : q[i] \in Nat /\ q[i] \in Entries(q) /\ q[i] \in Keys
  <2>1. /\ Len(p) \in Nat /\ Len(q) \in Nat
        /\ \A i \in 1 .. Len(p) : p[i] \in Nat /\ p[i] \in Entries(p) /\ p[i] \in Keys
        /\ \A i \in 1 .. Len(q) : q[i] \in Nat /\ q[i] \in Entries(q) /\ q[i] \in Keys
    BY LenProperties, ElementOfSeq, KeysAssumption DEF Entries
  <2>2. n \in Nat /\ n <= Len(q)
    BY <2>1
  <2> QED BY <2>1, <2>2
<1>2. f \in Seq(Keys) /\ Len(f) = n /\ \A i \in 1 .. n : f[i] = q[i]
  <2>1. \A i \in 1 .. n : q[i] \in Keys
    BY <1>1
  <2>2. /\ f \in Seq(Keys) /\ Len(f) = IF 1 <= n THEN n - 1 + 1 ELSE 0
        /\ \A i \in 1 .. n - 1 + 1 : f[i] = q[1 + i - 1]
    BY <1>1, <2>1, SubSeqProperties
  <2> HIDE DEF f
  <2>3. Len(f) = n
    BY <1>1, <2>2
  <2>4. \A i \in 1 .. n : i \in 1 .. n - 1 + 1 /\ 1 + i - 1 = i
    BY <1>1
  <2> QED BY <2>2, <2>3, <2>4
<1> HIDE DEF f
<1>3. /\ r \in Seq(Keys) /\ Len(r) = Len(p) + n
      /\ \A i \in 1 .. Len(p) + n : r[i] = IF i <= Len(p) THEN p[i] ELSE f[i - Len(p)]
  BY <1>2, ConcatProperties
<1> HIDE DEF r
<1>4. \A i \in 1 .. Len(p) + n :
        \/ i \in 1 .. Len(p) /\ r[i] = p[i]
        \/ i - Len(p) \in 1 .. n /\ i - Len(p) \in 1 .. Len(q) /\ r[i] = q[i - Len(p)]
  <2> TAKE i \in 1 .. Len(p) + n
  <2>1. CASE i <= Len(p)
    BY <1>1, <1>3, <2>1
  <2>2. CASE ~(i <= Len(p))
    <3>1. i - Len(p) \in 1 .. n /\ i - Len(p) \in 1 .. Len(q)
      BY <1>1, <2>2
    <3>2. r[i] = f[i - Len(p)]
      BY <1>3, <2>2
    <3> QED BY <1>2, <3>1, <3>2
  <2> QED BY <2>1, <2>2
<1>5. Rising(r)
  <2> SUFFICES ASSUME NEW i \in 1 .. Len(p) + n, NEW j \in 1 .. Len(p) + n, i < j
               PROVE  r[i] < r[j]
    BY <1>3 DEF Rising
  <2>1. CASE j \in 1 .. Len(p) /\ r[j] = p[j]
    <3>1. i \in 1 .. Len(p) /\ r[i] = p[i]
      BY <1>1, <1>3, <2>1
    <3> QED BY <2>1, <3>1 DEF Rising
  <2>2. CASE j - Len(p) \in 1 .. n /\ j - Len(p) \in 1 .. Len(q) /\ r[j] = q[j - Len(p)]
    <3>1. CASE i \in 1 .. Len(p) /\ r[i] = p[i]
      BY <1>1, <2>2, <3>1
    <3>2. CASE i - Len(p) \in 1 .. n /\ i - Len(p) \in 1 .. Len(q) /\ r[i] = q[i - Len(p)]
      <4>1. i - Len(p) < j - Len(p)
        BY <1>1
      <4> QED BY <2>2, <3>2, <4>1 DEF Rising
    <3> QED BY <1>4, <3>1, <3>2
  <2> QED BY <1>4, <2>1, <2>2
<1>6. Entries(r) = Entries(p) \cup {q[i] : i \in 1 .. n}
  <2>1. ASSUME NEW k \in Entries(r) PROVE k \in Entries(p) \cup {q[i] : i \in 1 .. n}
    <3>1. PICK i \in 1 .. Len(p) + n : k = r[i]
      BY <1>3 DEF Entries
    <3> QED BY <1>1, <1>4, <3>1
  <2>2. ASSUME NEW i \in 1 .. Len(p) PROVE p[i] \in Entries(r)
    <3>1. i \in 1 .. Len(p) + n /\ i <= Len(p)
      BY <1>1
    <3>2. r[i] = p[i]
      BY <1>3, <3>1
    <3> QED BY <1>3, <3>1, <3>2 DEF Entries
  <2>3. ASSUME NEW i \in 1 .. n PROVE q[i] \in Entries(r)
    <3>1. Len(p) + i \in 1 .. Len(p) + n /\ ~(Len(p) + i <= Len(p)) /\ (Len(p) + i) - Len(p) = i
      BY <1>1
    <3>2. r[Len(p) + i] = f[i]
      BY <1>3, <3>1
    <3>3. f[i] = q[i]
      BY <1>2
    <3> QED BY <1>3, <3>1, <3>2, <3>3 DEF Entries
  <2> QED BY <2>1, <2>2, <2>3 DEF Entries
<1> QED BY <1>3, <1>5, <1>6 DEF r, f

------------------------------------------------------------------------------
(* The walk of verify.                                                     *)

\* The leaves in front of leaf l: all of them when l is the end of the chain.
Below(s, l) == IF l = NoLeaf THEN s.live ELSE {m \in s.live : s.node[m] < s.node[l]}
\* The keys the leaves L hold.
KeysOn(s, L) == {k \in Keys : \E m \in L : k \in KeysIn(s.recs[m])}

\* The leaf behind l has l and what is in front of l in front of it.
LEMMA BelowNext ==
  ASSUME NEW s \in Symbols, StructureOK(s), NEW l \in s.live
  PROVE  /\ s.next[l] \in s.live \cup {NoLeaf}
         /\ Below(s, l) \subseteq s.live /\ l \notin Below(s, l)
         /\ Below(s, s.next[l]) = Below(s, l) \cup {l}
         /\ KeysOn(s, Below(s, s.next[l])) = KeysOn(s, Below(s, l)) \cup KeysIn(s.recs[l])
         /\ \A j \in KeysOn(s, Below(s, l)), k \in KeysIn(s.recs[l]) : j < k
<1>1. /\ l # NoLeaf /\ NoLeaf \notin s.live /\ s.live \subseteq Leaves
      /\ \A m \in s.live : s.node[m] \in Nat /\ s.node[m] \in Keys
  BY NodeTypes, LeavesAssumption DEF Symbols, StructureOK
<1>2. s.next[l] \in s.live \cup {NoLeaf}
  BY DEF StructureOK, ChainInOrder
<1>3. Below(s, l) \subseteq s.live /\ l \notin Below(s, l)
  BY <1>1 DEF Below
<1>4. Below(s, s.next[l]) = Below(s, l) \cup {l}
  <2>1. CASE s.next[l] = NoLeaf
    <3>1. ASSUME NEW m \in s.live PROVE s.node[m] < s.node[l] \/ m = l
      <4>1. ~(s.node[l] < s.node[m])
        <5> SUFFICES ASSUME s.node[l] < s.node[m] PROVE FALSE
          OBVIOUS
        <5> QED BY <1>1, <2>1, NextIsAbove
      <4> QED BY <1>1, <4>1 DEF StructureOK, NodesDiffer
    <3> QED BY <1>1, <2>1, <3>1 DEF Below
  <2>2. CASE s.next[l] \in s.live
    <3>1. Follows(s, l, s.next[l])
      BY <2>2 DEF StructureOK, ChainInOrder
    <3>2. \A m \in s.live : s.node[m] < s.node[s.next[l]] <=> s.node[m] < s.node[l] \/ m = l
      <4> TAKE m \in s.live
      <4>1. s.node[l] < s.node[s.next[l]] /\ ~(s.node[l] < s.node[m] /\ s.node[m] < s.node[s.next[l]])
        BY <3>1 DEF Follows
      <4>2. s.node[m] = s.node[l] => m = l
        BY DEF StructureOK, NodesDiffer
      <4> QED BY <1>1, <2>2, <4>1, <4>2
    <3> QED BY <1>1, <2>2, <3>2 DEF Below
  <2> QED BY <1>2, <2>1, <2>2
<1>5. KeysOn(s, Below(s, s.next[l])) = KeysOn(s, Below(s, l)) \cup KeysIn(s.recs[l])
  BY <1>4 DEF KeysOn, KeysIn
<1>6. ASSUME NEW j \in KeysOn(s, Below(s, l)), NEW k \in KeysIn(s.recs[l]) PROVE j < k
  <2>1. PICK m \in s.live : s.node[m] < s.node[l] /\ j \in KeysIn(s.recs[m])
    BY <1>1 DEF KeysOn, Below
  <2>2. j < s.node[l] /\ s.node[l] <= k
    BY <2>1, NodeTypes DEF StructureOK, LeavesApart
  <2>3. j \in Nat /\ k \in Nat
    BY KeysAssumption DEF KeysOn, KeysIn
  <2> QED BY <1>1, <2>2, <2>3
<1> QED BY <1>2, <1>3, <1>4, <1>5, <1>6

\* The keys from leaf l on are above those in front of it.
LEMMA BelowApart ==
  ASSUME NEW s \in Symbols, StructureOK(s), NEW l \in s.live \cup {NoLeaf}
  PROVE  /\ KeysOn(s, Below(s, l)) \subseteq KeysOf(s)
         /\ l = NoLeaf => KeysOn(s, Below(s, l)) = KeysOf(s)
         /\ \A j \in KeysOn(s, Below(s, l)), k \in KeysOf(s) \ KeysOn(s, Below(s, l)) : j < k
<1>1. /\ NoLeaf \notin s.live /\ s.live \subseteq Leaves
      /\ \A m \in s.live : s.node[m] \in Nat /\ s.node[m] \in Keys
  BY NodeTypes, LeavesAssumption DEF Symbols, StructureOK
<1>2. Below(s, l) \subseteq s.live /\ KeysOf(s) = KeysOn(s, s.live)
  BY DEF Below, KeysOf, Holders, KeysOn
<1>3. ASSUME NEW j \in KeysOn(s, Below(s, l)), NEW k \in KeysOf(s) \ KeysOn(s, Below(s, l))
      PROVE  j < k
  <2>1. l \in s.live /\ l # NoLeaf
    BY <1>1, <1>2, <1>3 DEF Below
  <2>2. PICK m \in s.live : s.node[m] < s.node[l] /\ j \in KeysIn(s.recs[m])
    BY <2>1 DEF KeysOn, Below
  <2>3. PICK n \in s.live : k \in KeysIn(s.recs[n]) /\ ~(s.node[n] < s.node[l])
    BY <1>2, <1>3, <2>1 DEF KeysOn, Below
  <2>4. s.node[m] < s.node[n]
    BY <1>1, <2>1, <2>2, <2>3
  <2>5. j < s.node[n] /\ s.node[n] <= k
    BY <2>2, <2>3, <2>4, NodeTypes DEF StructureOK, LeavesApart
  <2>6. j \in Nat /\ k \in Nat
    BY <1>3, KeysAssumption DEF KeysOn, KeysOf
  <2> QED BY <1>1, <2>3, <2>5, <2>6
<1>4. KeysOn(s, Below(s, l)) \subseteq KeysOf(s)
  BY <1>2 DEF KeysOn
<1> QED BY <1>2, <1>3, <1>4 DEF Below

------------------------------------------------------------------------------
(* The walk of verify_symbol.                                              *)

\* What verify_symbol knows at leaf at.leaf when the leaves in front are in order.
Walked(s, at) ==
  LET seen == Below(s, at.leaf)
      found == KeysOn(s, seen)
  IN /\ at.leaf \in s.live \cup {NoLeaf}
     /\ at.fine
     /\ at.leaves = Cardinality(seen) /\ at.records = Cardinality(found)
     /\ IF seen = {} THEN at.prev = NoLeaf
        ELSE at.prev \in seen /\ \A m \in seen : s.node[m] <= s.node[at.prev]
     /\ IF found = {} THEN at.top = NoKey /\ at.low = TopTime /\ at.high = 0
        ELSE at.top = Max(found) /\ at.low = TimeOf(Min(found)) /\ at.high = TimeOf(Max(found))

\* It begins with no leaf in front.
LEMMA WalkStarts ==
  ASSUME NEW s \in Symbols, StructureOK(s)
  PROVE  Walked(s, WalkStart(s))
<1> DEFINE at == WalkStart(s)
<1>1. at.leaf = s.first /\ at.prev = NoLeaf /\ at.top = NoKey /\ at.leaves = 0
      /\ at.records = 0 /\ at.low = TopTime /\ at.high = 0 /\ at.fine
  BY DEF WalkStart
<1>2. s.first \in s.live \cup {NoLeaf} /\ Below(s, s.first) = {}
  <2>1. /\ NoLeaf \notin s.live /\ \A m \in s.live : s.node[m] \in Nat
    BY NodeTypes, LeavesAssumption DEF Symbols, StructureOK
  <2> QED BY <2>1, FirstIsLowest DEF Below
<1>3. KeysOn(s, {}) = {}
  BY DEF KeysOn
<1> HIDE DEF at
<1>4. Cardinality({}) = 0
  BY FS_EmptySet
<1> QED BY <1>1, <1>2, <1>3, <1>4 DEF Walked, at

\* The least and the greatest key once the keys of the next leaf, all above,
\* are in.
LEMMA EndsOnward ==
  ASSUME NEW K \in SUBSET Keys, NEW H \in SUBSET Keys, H # {},
         \A j \in K, k \in H : j < k
  PROVE  /\ Max(K \cup H) = Max(H)
         /\ Min(K \cup H) = IF K = {} THEN Min(H) ELSE Min(K)
         /\ K # {} => Min(K) < Min(H) /\ Max(K) < Max(H)
<1>1. Max(H) \in H /\ \A k \in H : k <= Max(H)
  BY KeySetEnds
<1>2. Min(H) \in H /\ \A k \in H : Min(H) <= k
  BY KeySetEnds
<1>3. K # {} => Min(K) \in K /\ Max(K) \in K /\ \A j \in K : Min(K) <= j
  BY KeySetEnds
<1>4. \A k \in K \cup H : k \in Nat
  BY KeysAssumption
<1>5. Max(K \cup H) = Max(H)
  <2>1. \A k \in K \cup H : k <= Max(H)
    BY <1>1, <1>4
  <2> QED BY <2>1, <1>1, KeySetEndIs
<1>6. CASE K = {}
  BY <1>5, <1>6
<1>7. CASE K # {}
  <2>1. \A k \in K \cup H : Min(K) <= k
    BY <1>3, <1>4, <1>7
  <2>2. Min(K \cup H) = Min(K)
    BY <2>1, <1>3, <1>7, KeySetEndIs
  <2> QED BY <1>1, <1>2, <1>3, <1>5, <1>7, <2>2
<1> QED BY <1>6, <1>7

\* It goes on from leaf to leaf.
LEMMA WalkGoesOn ==
  ASSUME NEW s \in Symbols, StructureOK(s), PagesOK(s), NEW at, Walked(s, at), at.leaf # NoLeaf
  PROVE  /\ Walked(s, VerifyLeaf(s, at))
         /\ VerifyLeaf(s, at).leaves = at.leaves + 1
<1> DEFINE l == at.leaf
           here == KeysIn(s.recs[l])
           seen == Below(s, l)
           found == KeysOn(s, seen)
           t == VerifyLeaf(s, at)
           more == Below(s, s.next[l])
           all == KeysOn(s, more)
<1>1. l \in s.live /\ s.live \in SUBSET Leaves /\ s.recs[l] \in Maps /\ s.used[l] \in Nat
  BY DEF Walked, Symbols
<1>2. /\ s.next[l] \in s.live \cup {NoLeaf}
      /\ seen \subseteq s.live /\ l \notin seen /\ more = seen \cup {l}
      /\ all = found \cup here
      /\ \A j \in found, k \in here : j < k
  BY <1>1, BelowNext
<1>3. /\ s.node[l] \in Nat /\ s.node[l] \in here /\ here \in SUBSET Keys /\ found \in SUBSET Keys
      /\ \A m \in s.live : s.node[m] \in Nat
  BY <1>1, NodeTypes DEF StructureOK, KeysOn
<1>4. IsFiniteSet(seen) /\ IsFiniteSet(found) /\ IsFiniteSet(here)
      /\ Cardinality(found) \in Nat /\ Cardinality(here) \in Nat
  BY <1>1, <1>2, <1>3, KeysAssumption, LeavesAssumption, FS_Subset, FS_CardinalityType
<1>5. /\ at.fine /\ at.leaves = Cardinality(seen) /\ at.records = Cardinality(found)
      /\ IF seen = {} THEN at.prev = NoLeaf
         ELSE at.prev \in seen /\ \A m \in seen : s.node[m] <= s.node[at.prev]
      /\ IF found = {} THEN at.top = NoKey /\ at.low = TopTime /\ at.high = 0
         ELSE at.top = Max(found) /\ at.low = TimeOf(Min(found)) /\ at.high = TimeOf(Max(found))
  BY DEF Walked
<1>6. /\ t.leaf = s.next[l] /\ t.prev = l /\ t.top = Max(here)
      /\ t.leaves = at.leaves + 1 /\ t.records = at.records + Cardinality(here)
      /\ t.low = IF TimeOf(Min(here)) < at.low THEN TimeOf(Min(here)) ELSE at.low
      /\ t.high = IF TimeOf(Max(here)) > at.high THEN TimeOf(Max(here)) ELSE at.high
      /\ t.fine = (/\ at.fine
                   /\ s.prev[l] = at.prev
                   /\ here # {}
                   /\ IF RecordSize = 0 THEN s.used[l] <= LeafBytes
                      ELSE Cardinality(here) <= FixedCap
                   /\ \A k \in here : at.top < k)
  <2>1. here # {}
    BY <1>3
  <2> QED BY <2>1 DEF VerifyLeaf
<1> HIDE DEF l, here, seen, found, t, more, all
<1>7. t.leaves = Cardinality(more)
  <2>1. Cardinality(seen \cup {l}) = Cardinality(seen) + 1
    BY <1>2, <1>4, FS_AddElement
  <2> QED BY <1>2, <1>5, <1>6, <2>1
<1>8. t.records = Cardinality(all)
  <2>1. found \cap here = {}
    <3> SUFFICES ASSUME NEW k \in found, k \in here PROVE FALSE
      OBVIOUS
    <3>1. k < k /\ k \in Nat
      BY <1>2, <1>3, KeysAssumption
    <3> QED BY <3>1
  <2>2. Cardinality(found \cup here)
          = Cardinality(found) + Cardinality(here) - Cardinality(found \cap here)
    BY <1>4, FS_Union
  <2>3. Cardinality({}) = 0
    BY FS_EmptySet
  <2>4. Cardinality(found \cup here) = Cardinality(found) + Cardinality(here)
    BY <1>4, <2>1, <2>2, <2>3
  <2> QED BY <1>2, <1>5, <1>6, <2>4
<1>9. t.prev \in more /\ \A m \in more : s.node[m] <= s.node[t.prev]
  <2>1. \A m \in seen : s.node[m] < s.node[l]
    BY <1>1, LeavesAssumption DEF seen, Below
  <2> QED BY <1>2, <1>3, <1>6, <2>1
<1>10. t.top = Max(all) /\ t.low = TimeOf(Min(all)) /\ t.high = TimeOf(Max(all))
  <2>1. /\ Max(all) = Max(here)
        /\ Min(all) = IF found = {} THEN Min(here) ELSE Min(found)
        /\ found # {} => Min(found) < Min(here) /\ Max(found) < Max(here)
    BY <1>2, <1>3, EndsOnward
  <2>2. Min(here) \in Keys /\ Max(here) \in Keys
    BY <1>3, KeySetEnds
  <2>3. /\ TimeOf(Min(here)) \in Nat /\ TimeOf(Max(here)) \in Nat /\ TopTime \in Nat
        /\ TimeOf(Min(here)) <= TopTime
    BY <2>2, TimesAreNat, LayoutAssumption DEF Times, TimeOf
  <2>4. CASE found = {}
    BY <1>5, <1>6, <2>1, <2>3, <2>4
  <2>5. CASE found # {}
    <3>1. Min(found) \in Keys /\ Max(found) \in Keys
      BY <1>3, <2>5, KeySetEnds
    <3>2. Min(found) <= Min(here) /\ Max(found) <= Max(here)
      <4>1. /\ Min(found) \in Nat /\ Max(found) \in Nat
            /\ Min(here) \in Nat /\ Max(here) \in Nat
        BY <2>2, <3>1, KeysAssumption
      <4>2. Min(found) < Min(here) /\ Max(found) < Max(here)
        BY <2>1, <2>5
      <4> QED BY <4>1, <4>2
    <3>3. /\ TimeOf(Min(found)) <= TimeOf(Min(here)) /\ TimeOf(Min(found)) \in Nat
          /\ TimeOf(Max(found)) <= TimeOf(Max(here)) /\ TimeOf(Max(found)) \in Nat
      BY <2>2, <3>1, <3>2, TimeMonotone, TimesAreNat
    <3> QED BY <1>5, <1>6, <2>1, <2>3, <2>5, <3>3
  <2> QED BY <2>4, <2>5
<1>11. s.prev[l] = at.prev
  <2>1. CASE seen = {}
    <3>1. s.prev[l] \notin s.live
      <4> SUFFICES ASSUME s.prev[l] \in s.live PROVE FALSE
        OBVIOUS
      <4>1. Follows(s, s.prev[l], l)
        BY <1>1 DEF StructureOK, ChainInOrder
      <4>2. s.prev[l] \in seen
        BY <1>1, <4>1, LeavesAssumption DEF Follows, seen, Below
      <4> QED BY <2>1, <4>2
    <3> QED BY <1>1, <1>5, <2>1, <3>1 DEF StructureOK, ChainInOrder
  <2>2. CASE seen # {}
    <3> DEFINE p == at.prev
    <3>1. p \in s.live /\ s.node[p] < s.node[l] /\ \A m \in seen : s.node[m] <= s.node[p]
      BY <1>1, <1>2, <1>5, <2>2, LeavesAssumption DEF seen, Below
    <3>2. \A m \in s.live : s.node[m] < s.node[l] => m \in seen
      BY <1>1, LeavesAssumption DEF seen, Below
    <3>3. Follows(s, p, l)
      BY <1>3, <3>1, <3>2 DEF Follows
    <3> QED BY <1>1, <3>1, <3>3 DEF StructureOK, ChainInOrder
  <2> QED BY <2>1, <2>2
<1>12. IF RecordSize = 0 THEN s.used[l] <= LeafBytes ELSE Cardinality(here) <= FixedCap
  <2>1. PageOK(s.recs[l], s.used[l])
    BY <1>1 DEF PagesOK
  <2> QED BY <2>1 DEF PageOK, here
<1>13. \A k \in here : at.top < k
  <2>1. CASE found = {}
    BY <1>3, <1>5, <2>1, KeysAssumption DEF NoKey
  <2>2. CASE found # {}
    <3>1. Max(found) \in found
      BY <1>3, <2>2, KeySetEnds
    <3> QED BY <1>2, <1>5, <2>2, <3>1
  <2> QED BY <2>1, <2>2
<1>14. t.fine
  BY <1>3, <1>5, <1>6, <1>11, <1>12, <1>13
<1>15. all # {} /\ more # {}
  BY <1>2, <1>3
<1>16. Walked(s, t)
  BY <1>2, <1>6, <1>7, <1>8, <1>9, <1>10, <1>14, <1>15 DEF Walked, more, all
<1> QED BY <1>6, <1>16 DEF t

\* What the walk may know before a leaf, and a turn of its loop.
Walks == [leaf : Leaves \cup {NoLeaf}, prev : Leaves \cup {NoLeaf}, top : Keys \cup {NoKey},
          leaves : Nat, records : Nat, low : Nat, high : Nat, fine : BOOLEAN]
WalkTurn(s, at) == IF at.leaf = NoLeaf THEN at ELSE VerifyLeaf(s, at)

\* A turn of the walk knows the same things as the turn before.
LEMMA WalkTurnTypes ==
  ASSUME NEW s \in Symbols, NEW at \in Walks
  PROVE  WalkTurn(s, at) \in Walks
<1>1. CASE at.leaf = NoLeaf
  BY <1>1 DEF WalkTurn
<1>2. CASE at.leaf # NoLeaf
  <2> DEFINE l == at.leaf
             here == KeysIn(s.recs[l])
             top == IF here = {} THEN at.top ELSE Max(here)
             records == at.records + Cardinality(here)
             low == IF here # {} /\ TimeOf(Min(here)) < at.low THEN TimeOf(Min(here)) ELSE at.low
             high == IF here # {} /\ TimeOf(Max(here)) > at.high
                     THEN TimeOf(Max(here)) ELSE at.high
             fine == VerifyLeaf(s, at).fine
  <2>1. /\ l \in Leaves /\ at.top \in Keys \cup {NoKey} /\ at.leaves \in Nat
        /\ at.records \in Nat /\ at.low \in Nat /\ at.high \in Nat
    BY <1>2 DEF Walks
  <2>2. s.next[l] \in Leaves \cup {NoLeaf} /\ here \in SUBSET Keys
    BY <2>1 DEF Symbols, KeysIn
  <2>3. Cardinality(here) \in Nat
    BY <2>2, KeysAssumption, FS_Subset, FS_CardinalityType
  <2>4. here # {} => Min(here) \in Keys /\ Max(here) \in Keys
    BY <2>2, KeySetEnds
  <2>5. here # {} => TimeOf(Min(here)) \in Nat /\ TimeOf(Max(here)) \in Nat
    BY <2>4, TimesAreNat
  <2>6. fine \in BOOLEAN
    BY DEF VerifyLeaf
  <2>7. WalkTurn(s, at) = [leaf |-> s.next[l], prev |-> l, top |-> top,
                           leaves |-> at.leaves + 1, records |-> records,
                           low |-> low, high |-> high, fine |-> fine]
    BY <1>2 DEF WalkTurn, VerifyLeaf
  <2>8. /\ top \in Keys \cup {NoKey} /\ records \in Nat /\ low \in Nat /\ high \in Nat
        /\ at.leaves + 1 \in Nat
    BY <2>1, <2>3, <2>4, <2>5
  <2> HIDE DEF l, top, records, low, high, fine
  <2> QED BY <2>1, <2>2, <2>6, <2>7, <2>8 DEF Walks
<1> QED BY <1>1, <1>2

\* The recursion of ChainWalked is one.
LEMMA ChainWalkedIs ==
  ASSUME NEW s \in Symbols
  PROVE  \E w : /\ \A n \in 0 .. Limit(s) :
                     w[n] = IF n = 0 THEN WalkStart(s) ELSE WalkTurn(s, w[n - 1])
                /\ ChainWalked(s) = w[Limit(s)]
<1> DEFINE L == Limit(s)
           Is(e) == e = [n \in 0 .. L |-> IF n = 0 THEN WalkStart(s) ELSE WalkTurn(s, e[n - 1])]
           F == [x \in Walks |-> WalkTurn(s, x)]
           walk[n \in 0 .. L] ==
             IF n = 0 THEN WalkStart(s)
             ELSE LET at == walk[n - 1]
                  IN IF at.leaf = NoLeaf THEN at ELSE VerifyLeaf(s, at)
<1>1. L \in Nat
  BY DEF Limit, Symbols
<1>2. WalkStart(s) \in Walks /\ F \in [Walks -> Walks]
  <2>1. WalkStart(s) \in Walks
    BY LayoutAssumption DEF WalkStart, Walks, Symbols
  <2> QED BY <2>1, WalkTurnTypes
<1> HIDE DEF L
<1>3. PICK e : Iterated(Walks, WalkStart(s), F, L, e)
  <2> HIDE DEF F
  <2> QED BY <1>1, <1>2, Iterates
<1>4. Is(e)
  <2>1. \A m \in 0 .. L : e[m] = IF m = 0 THEN WalkStart(s) ELSE WalkTurn(s, e[m - 1])
    <3> TAKE m \in 0 .. L
    <3>1. m # 0 => m - 1 \in 0 .. L
      BY <1>1
    <3>2. m # 0 => e[m - 1] \in Walks
      BY <1>3, <3>1 DEF Iterated
    <3> QED BY <1>3, <3>2 DEF Iterated
  <2> QED BY <1>3, <2>1 DEF Iterated
<1>5. walk = CHOOSE d : Is(d)
  BY DEF walk, WalkTurn
<1>6. ChainWalked(s) = walk[L]
  BY DEF ChainWalked, L
<1> HIDE DEF walk
<1>7. Is(walk)
  <2> HIDE DEF Is
  <2> QED BY <1>4, <1>5
<1>8. \A n \in 0 .. L : walk[n] = IF n = 0 THEN WalkStart(s) ELSE WalkTurn(s, walk[n - 1])
  <2> DEFINE d == walk
  <2>1. d = [n \in 0 .. L |-> IF n = 0 THEN WalkStart(s) ELSE WalkTurn(s, d[n - 1])]
    BY <1>7
  <2> HIDE DEF d
  <2>2. \A n \in 0 .. L : d[n] = IF n = 0 THEN WalkStart(s) ELSE WalkTurn(s, d[n - 1])
    BY <2>1
  <2> QED BY <2>2 DEF d
<1> QED BY <1>6, <1>8 DEF L

\* verify_symbol accepts a symbol whose structure, pages and counters are in
\* order, within its limit.
LEMMA VerifyIsFair ==
  ASSUME NEW s \in Symbols, StructureOK(s), PagesOK(s), CountersOK(s)
  PROVE  VerifyAccepts(s)
<1>1. PICK w : /\ \A n \in 0 .. Limit(s) :
                    w[n] = IF n = 0 THEN WalkStart(s) ELSE WalkTurn(s, w[n - 1])
               /\ ChainWalked(s) = w[Limit(s)]
  BY ChainWalkedIs
<1> DEFINE L == Limit(s)
           Good(n) == Walked(s, w[n]) /\ (w[n].leaf # NoLeaf => w[n].leaves = n)
           P == [n \in 0 .. L |-> Good(n)]
           end == w[L]
<1>2. /\ L \in Nat /\ L > Cardinality(s.live)
      /\ IsFiniteSet(s.live) /\ Cardinality(s.live) \in Nat
      /\ IsFiniteSet(KeysOf(s)) /\ Cardinality(KeysOf(s)) \in Nat
  BY FiniteParts DEF Limit, CountersOK
<1> HIDE DEF L
<1>3. \A n \in 0 .. L : P[n]
  <2>1. P[0]
    <3>1. w[0] = WalkStart(s) /\ 0 \in 0 .. L
      BY <1>1, <1>2 DEF L
    <3>2. WalkStart(s).leaves = 0
      BY DEF WalkStart
    <3> QED BY <3>1, <3>2, WalkStarts
  <2>2. ASSUME NEW n \in 1 .. L, P[n - 1] PROVE P[n]
    <3>1. n - 1 \in 0 .. L /\ n \in 0 .. L /\ n # 0 /\ n \in Nat
      BY <1>2
    <3>2. Good(n - 1)
      BY <2>2, <3>1
    <3>3. w[n] = WalkTurn(s, w[n - 1])
      BY <1>1, <3>1 DEF L
    <3>4. CASE w[n - 1].leaf = NoLeaf
      BY <3>1, <3>2, <3>3, <3>4 DEF WalkTurn
    <3>5. CASE w[n - 1].leaf # NoLeaf
      <4>1. w[n] = VerifyLeaf(s, w[n - 1])
        BY <3>3, <3>5 DEF WalkTurn
      <4>2. Walked(s, w[n]) /\ w[n].leaves = w[n - 1].leaves + 1
        BY <3>2, <3>5, <4>1, WalkGoesOn
      <4>3. w[n].leaves = n
        BY <3>1, <3>2, <3>5, <4>2
      <4> QED BY <3>1, <4>2, <4>3
    <3> QED BY <3>4, <3>5
  <2>3. P \in [0 .. L -> BOOLEAN]
    BY DEF Walked
  <2> HIDE DEF P
  <2> QED BY <1>2, <2>1, <2>2, <2>3, CountingUp
<1>4. Walked(s, end) /\ (end.leaf # NoLeaf => end.leaves = L)
  <2>1. L \in 0 .. L
    BY <1>2
  <2>2. P[L] = Good(L)
    BY <2>1
  <2> HIDE DEF P
  <2> QED BY <1>3, <2>1, <2>2
<1> HIDE DEF end
<1>5. end.leaf = NoLeaf
  <2> SUFFICES ASSUME end.leaf # NoLeaf PROVE FALSE
    OBVIOUS
  <2>1. Below(s, end.leaf) \subseteq s.live
    BY DEF Below
  <2>2. Cardinality(Below(s, end.leaf)) <= Cardinality(s.live)
    BY <1>2, <2>1, FS_Subset
  <2>3. end.leaves = Cardinality(Below(s, end.leaf)) /\ end.leaves = L
    BY <1>4 DEF Walked
  <2> QED BY <1>2, <2>2, <2>3
<1>6. Below(s, end.leaf) = s.live /\ KeysOn(s, s.live) = KeysOf(s)
  BY <1>5, BelowApart DEF Below
<1>7. /\ end.fine /\ end.leaves = s.leaves /\ end.records = s.count
      /\ IF s.live = {} THEN end.prev = NoLeaf
         ELSE end.prev \in s.live /\ \A m \in s.live : s.node[m] <= s.node[end.prev]
      /\ KeysOf(s) # {} => end.low = TimeOf(Min(KeysOf(s))) /\ end.high = TimeOf(Max(KeysOf(s)))
  BY <1>4, <1>6 DEF Walked, CountersOK
<1>8. end.prev = s.last
  <2>1. CASE s.live = {}
    BY <1>7, <2>1, LastIsHighest
  <2>2. CASE s.live # {}
    BY <1>7, <2>2 DEF StructureOK, ChainInOrder
  <2> QED BY <2>1, <2>2
<1>9. end.records # 0 => s.minTime = end.low /\ s.maxTime = end.high
  <2>1. KeysOf(s) = {} => s.count = 0
    BY FS_EmptySet DEF CountersOK
  <2> QED BY <1>7, <2>1 DEF CountersOK
<1>10. NodesFine(s)
  <2>1. ASSUME NEW l \in s.live
        PROVE  KeysIn(s.recs[l]) # {} /\ s.node[l] = Min(KeysIn(s.recs[l]))
    <3>1. /\ KeysIn(s.recs[l]) \in SUBSET Keys /\ s.node[l] \in KeysIn(s.recs[l])
          /\ \A k \in KeysIn(s.recs[l]) : s.node[l] <= k
      BY NodeTypes DEF StructureOK
    <3> QED BY <3>1, KeySetEndIs
  <2> QED BY <2>1 DEF NodesFine, StructureOK, NodesDiffer
<1> QED BY <1>1, <1>5, <1>7, <1>8, <1>9, <1>10 DEF VerifyAccepts, end, L

\* spike_db_verify raises no false alarm: it accepts every state the writers
\* leave, emptied, trimmed and recreated symbols included.
THEOREM NeverFalseAlarm ==
  ASSUME AllWrites = FALSE
  PROVE  Spec => []NoFalseAlarm
<1>1. MapInv /\ PageInv => NoFalseAlarm
  BY VerifyIsFair DEF MapInv, PageInv, Inv, TypeOK, StructureSound, NoFalseAlarm
<1> QED BY <1>1, MapInvAlways, PageInvAlways, PTL

------------------------------------------------------------------------------
(* Bulk reads.                                                             *)

\* The keys of a time range.
InRange(s, lo, hi) == {k \in KeysOf(s) : TimeOf(k) \in lo .. hi}

\* cursor_seek lands in the leaf of the first record of the range.
LEMMA SeekLeafIs ==
  ASSUME NEW s \in Symbols, StructureOK(s), NEW lo \in Times, NEW hi \in Times
  PROVE  LET l == SeekLeaf(s, lo, hi)
             R == InRange(s, lo, hi)
         IN  /\ l \in s.live \cup {NoLeaf}
             /\ l = NoLeaf => R = {}
             /\ l # NoLeaf => R \cap KeysOn(s, Below(s, l)) = {}
<1> DEFINE k == StartOf(lo)
           above == {j \in KeysOf(s) : j >= k}
           from == {j \in Keys : j >= k}
           h == FirstHit(s, s.next, Descend(s, k), from)
           R == InRange(s, lo, hi)
           l == SeekLeaf(s, lo, hi)
<1>1. /\ KeysOf(s) \in SUBSET Keys /\ Keys \subseteq Nat /\ NoLeaf \notin s.live
      /\ k \in Nat /\ lo \in Nat /\ hi \in Nat
  BY KeysAssumption, LeavesAssumption, TimesAreNat DEF KeysOf, Symbols
<1>2. \A j \in Keys : TimeOf(j) \in Nat /\ (TimeOf(j) >= lo <=> j >= k)
  BY <1>1, TimeOrder, TimesAreNat
<1>3. /\ above = {} => h = NoLeaf
      /\ above # {} => /\ h \in s.live /\ Min(above) \in KeysIn(s.recs[h])
                       /\ Min(KeysIn(s.recs[h]) \cap from) = Min(above)
  BY <1>1, FirstHitIs
<1>4. above # {} => Min(above) \in above /\ \A j \in above : Min(above) <= j
  BY <1>1, KeySetEnds
<1>5. R \subseteq above
  <2> SUFFICES ASSUME NEW j \in R PROVE j \in above
    OBVIOUS
  <2>1. j \in KeysOf(s) /\ j \in Keys /\ TimeOf(j) \in lo .. hi
    BY <1>1 DEF InRange
  <2>2. TimeOf(j) >= lo
    BY <1>1, <1>2, <2>1
  <2>3. j >= k
    BY <1>2, <2>1, <2>2
  <2> QED BY <2>1, <2>3
<1>6. l = IF h # NoLeaf /\ TimeOf(Min(KeysIn(s.recs[h]) \cap from)) <= hi THEN h ELSE NoLeaf
  BY DEF SeekLeaf
<1> DEFINE Goal == /\ l \in s.live \cup {NoLeaf}
                   /\ l = NoLeaf => R = {}
                   /\ l # NoLeaf => R \cap KeysOn(s, Below(s, l)) = {}
<1>6a. SUFFICES Goal
  OBVIOUS
<1> HIDE DEF h, l, k, from, R
<1>7. CASE above = {}
  BY <1>3, <1>5, <1>6, <1>7
<1>8. CASE above # {}
  <2> DEFINE a == Min(above)
  <2>1. h \in s.live /\ h # NoLeaf /\ a \in KeysIn(s.recs[h]) /\ a \in above
    BY <1>1, <1>3, <1>4, <1>8
  <2>2. l = IF TimeOf(a) <= hi THEN h ELSE NoLeaf
    BY <1>3, <1>6, <1>8, <2>1
  <2>3. \A j \in above : a <= j
    BY <1>4, <1>8
  <2> HIDE DEF a
  <2>4. CASE TimeOf(a) <= hi
    <3>1. \A j \in KeysOn(s, Below(s, h)) : j < a
      BY <2>1, BelowNext
    <3>2. \A j \in KeysOn(s, Below(s, h)) : j \notin above
      <4> TAKE j \in KeysOn(s, Below(s, h))
      <4> SUFFICES ASSUME j \in above PROVE FALSE
        OBVIOUS
      <4>1. j < a /\ a <= j /\ j \in Nat /\ a \in Nat
        BY <1>1, <2>1, <2>3, <3>1
      <4> QED BY <4>1
    <3> QED BY <1>1, <1>5, <2>1, <2>2, <2>4, <3>2
  <2>5. CASE ~(TimeOf(a) <= hi)
    <3>1. R = {}
      <4> SUFFICES ASSUME NEW j \in R PROVE FALSE
        OBVIOUS
      <4>1. j \in above /\ a \in Keys /\ j \in Keys
        BY <1>1, <1>5, <2>1
      <4>2. a <= j /\ TimeOf(j) <= hi
        BY <2>3, <4>1, <1>1, <1>2 DEF InRange, R
      <4>3. TimeOf(a) <= TimeOf(j) /\ TimeOf(a) \in Nat /\ TimeOf(j) \in Nat
        BY <4>1, <4>2, TimeMonotone, TimesAreNat
      <4> QED BY <1>1, <2>5, <4>2, <4>3
    <3> QED BY <2>2, <2>5, <3>1
  <2> QED BY <2>4, <2>5
<1> QED BY <1>7, <1>8

\* What read_range has copied when it comes to leaf at.leaf, with n leaves
\* behind it; and what it has when it stops.
Copied(s, R, room, n, at) ==
  /\ at.leaf \in s.live \cup {NoLeaf}
  /\ at.out \in Seq(Keys) /\ Rising(at.out)
  /\ at.leaf # NoLeaf =>
       /\ Entries(at.out) = R \cap KeysOn(s, Below(s, at.leaf))
       /\ Len(at.out) <= room /\ n <= Cardinality(Below(s, at.leaf))
  /\ at.leaf = NoLeaf =>
       /\ Entries(at.out) \subseteq R
       /\ \A j \in Entries(at.out), k \in R : k < j => k \in Entries(at.out)
       /\ Len(at.out) = IF room < Cardinality(R) THEN room ELSE Cardinality(R)
       /\ at.full <=> room < Cardinality(R)

\* What leaf l offers: its keys of the range, which follow what is copied.
LEMMA LeafOffers ==
  ASSUME NEW s \in Symbols, StructureOK(s), NEW lo \in Times, NEW hi \in Times,
         NEW l \in s.live
  PROVE  LET R == InRange(s, lo, hi)
             here == KeysIn(s.recs[l])
             more == KeysOn(s, Below(s, s.next[l]))
         IN  /\ {k \in here : k >= StartOf(lo) /\ TimeOf(k) <= hi} = R \cap here
             /\ (\E k \in here : TimeOf(k) > hi) => R \subseteq more
             /\ s.next[l] = NoLeaf => R \subseteq more
<1> DEFINE R == InRange(s, lo, hi)
           here == KeysIn(s.recs[l])
           more == KeysOn(s, Below(s, s.next[l]))
<1>1. /\ here \in SUBSET Keys /\ here \subseteq KeysOf(s) /\ KeysOf(s) \in SUBSET Keys
      /\ StartOf(lo) \in Nat /\ lo \in Nat /\ hi \in Nat /\ Keys \subseteq Nat
  BY KeysAssumption, TimesAreNat DEF KeysIn, KeysOf, Holders
<1>2. \A k \in Keys : TimeOf(k) \in Nat /\ (TimeOf(k) >= lo <=> k >= StartOf(lo))
  BY <1>1, TimeOrder, TimesAreNat
<1>3. {k \in here : k >= StartOf(lo) /\ TimeOf(k) <= hi} = R \cap here
  <2>1. \A k \in here : (k >= StartOf(lo) /\ TimeOf(k) <= hi) <=> k \in R
    <3> TAKE k \in here
    <3>1. k \in KeysOf(s) /\ TimeOf(k) \in Nat /\ (TimeOf(k) >= lo <=> k >= StartOf(lo))
      BY <1>1, <1>2
    <3>2. TimeOf(k) \in lo .. hi <=> TimeOf(k) >= lo /\ TimeOf(k) <= hi
      BY <1>1, <3>1
    <3> QED BY <3>1, <3>2 DEF InRange
  <2> HIDE DEF here, R
  <2> QED BY <2>1
<1>4. s.next[l] \in s.live \cup {NoLeaf} /\ here \subseteq more
  BY BelowNext
<1>5. ASSUME NEW k \in here, TimeOf(k) > hi PROVE R \subseteq more
  <2> SUFFICES ASSUME NEW j \in R, j \notin more PROVE FALSE
    OBVIOUS
  <2>1. j \in KeysOf(s) /\ j \in Keys /\ k \in Keys /\ TimeOf(j) <= hi
    BY <1>1, <1>2 DEF InRange
  <2>2. k < j
    BY <1>4, <2>1, BelowApart
  <2>3. TimeOf(k) <= TimeOf(j)
    BY <1>1, <2>1, <2>2, TimeMonotone
  <2> QED BY <1>1, <1>2, <1>5, <2>1, <2>3
<1>6. ASSUME s.next[l] = NoLeaf PROVE R \subseteq more
  BY <1>4, <1>6, BelowApart DEF InRange
<1> QED BY <1>3, <1>5, <1>6

\* A turn of the copying loop.
LEMMA CopyGoesOn ==
  ASSUME NEW s \in Symbols, StructureOK(s), NEW lo \in Times, NEW hi \in Times,
         NEW room \in Nat, NEW n \in Nat, NEW at,
         Copied(s, InRange(s, lo, hi), room, n, at), at.leaf # NoLeaf
  PROVE  Copied(s, InRange(s, lo, hi), room, n + 1, CopyLeaf(s, lo, hi, room, at))
<1> DEFINE R == InRange(s, lo, hi)
           l == at.leaf
           here == KeysIn(s.recs[l])
           A == R \cap here
           q == InOrder(A)
           left == room - Len(at.out)
           size == IF Len(q) > left THEN left ELSE Len(q)
           r == at.out \o SubSeq(q, 1, size)
           D == KeysOn(s, Below(s, l))
           more == KeysOn(s, Below(s, s.next[l]))
           t == CopyLeaf(s, lo, hi, room, at)
<1>1. /\ l \in s.live /\ at.out \in Seq(Keys) /\ Rising(at.out)
      /\ Entries(at.out) = R \cap D /\ Len(at.out) <= room
      /\ n <= Cardinality(Below(s, l))
  BY DEF Copied
<1>2. /\ s.next[l] \in s.live \cup {NoLeaf}
      /\ Below(s, l) \subseteq s.live /\ l \notin Below(s, l)
      /\ Below(s, s.next[l]) = Below(s, l) \cup {l}
      /\ more = D \cup here
      /\ \A j \in D, k \in here : j < k
  BY <1>1, BelowNext
<1>3. /\ {k \in here : k >= StartOf(lo) /\ TimeOf(k) <= hi} = A
      /\ (\E k \in here : TimeOf(k) > hi) => R \subseteq more
      /\ s.next[l] = NoLeaf => R \subseteq more
  BY <1>1, LeafOffers
<1>4. /\ R \in SUBSET Keys /\ A \in SUBSET Keys /\ D \in SUBSET Keys /\ more \in SUBSET Keys
      /\ Keys \subseteq Nat
      /\ IsFiniteSet(R) /\ Cardinality(R) \in Nat
      /\ IsFiniteSet(Below(s, l))
      /\ Cardinality(Below(s, l)) \in Nat
  <2>1. R \in SUBSET Keys /\ A \in SUBSET Keys /\ D \in SUBSET Keys /\ more \in SUBSET Keys
    BY DEF InRange, KeysOf, KeysOn
  <2>2. IsFiniteSet(R) /\ Cardinality(R) \in Nat
    BY <2>1, KeysAssumption, FS_Subset, FS_CardinalityType
  <2>3. IsFiniteSet(Below(s, l)) /\ Cardinality(Below(s, l)) \in Nat
    BY <1>2, FiniteParts, FS_Subset, FS_CardinalityType
  <2> QED BY <2>1, <2>2, <2>3, KeysAssumption
<1>5. /\ q \in Seq(Keys) /\ Len(q) = Cardinality(A) /\ Rising(q) /\ Entries(q) = A
      /\ Len(q) \in Nat
  BY <1>4, InOrderLists
<1>6. /\ Len(at.out) \in Nat /\ left \in Nat /\ size \in 0 .. Len(q)
      /\ Len(q) <= left => size = Len(q)
      /\ Len(q) > left => size = left
      /\ room = Len(at.out) + left
  <2>1. Len(at.out) \in Nat
    BY <1>1, RisingCount
  <2> HIDE DEF q
  <2> QED BY <1>1, <1>5, <2>1
<1>7. /\ t.leaf = IF Len(q) > left \/ \E k \in here : TimeOf(k) > hi THEN NoLeaf ELSE s.next[l]
      /\ t.out = r /\ t.full = (Len(q) > left)
  BY <1>3 DEF CopyLeaf, Cut
<1> HIDE DEF R, l, here, A, q, left, D, more, t, size
<1>8. /\ r \in Seq(Keys) /\ Rising(r) /\ Len(r) = Len(at.out) + size
      /\ Entries(r) = (R \cap D) \cup {q[i] : i \in 1 .. size}
  <2>1. \A j \in Entries(at.out), k \in Entries(q) : j < k
    BY <1>1, <1>2, <1>5 DEF A
  <2> QED BY <1>1, <1>5, <1>6, <2>1, RisingOnward
<1> HIDE DEF r
<1>9. /\ Cardinality(Entries(r)) = Len(r) /\ (R \cap D) \cup A = R \cap more
      /\ Cardinality(R \cap more) = Len(at.out) + Len(q)
      /\ Cardinality(R \cap more) <= Cardinality(R)
  <2>1. Cardinality(Entries(r)) = Len(r)
    BY <1>8, RisingCount
  <2>2. (R \cap D) \cup A = R \cap more
    BY <1>2 DEF A
  <2>3. Cardinality(R \cap D) = Len(at.out)
    BY <1>1, RisingCount
  <2>4. (R \cap D) \cap A = {}
    <3> SUFFICES ASSUME NEW k \in D, k \in A PROVE FALSE
      OBVIOUS
    <3>1. k < k /\ k \in Nat
      BY <1>2, <1>4 DEF A
    <3> QED BY <3>1
  <2>5. IsFiniteSet(R \cap D) /\ IsFiniteSet(A)
    BY <1>4, FS_Subset DEF A
  <2>6. Cardinality((R \cap D) \cup A)
          = Cardinality(R \cap D) + Cardinality(A) - Cardinality((R \cap D) \cap A)
    BY <2>5, FS_Union
  <2>7. Cardinality((R \cap D) \cap A) = 0
    BY <2>4, FS_EmptySet
  <2>8. Cardinality(R \cap more) = Len(at.out) + Len(q)
    <3>1. Cardinality((R \cap D) \cup A) = Len(at.out) + Len(q) - 0
      BY <1>5, <2>3, <2>6, <2>7
    <3>2. Len(at.out) + Len(q) - 0 = Len(at.out) + Len(q)
      BY <1>5, <1>6
    <3> QED BY <2>2, <3>1, <3>2
  <2>9. Cardinality(R \cap more) <= Cardinality(R)
    BY <1>4, FS_Subset
  <2> QED BY <2>1, <2>2, <2>8, <2>9
<1>9a. SUFFICES Copied(s, R, room, n + 1, t)
  BY DEF R, t
<1>10. CASE Len(q) <= left
  <2>1. size = Len(q) /\ ~t.full
    <3>1. ~(Len(q) > left)
      BY <1>5, <1>6, <1>10
    <3>2. ~t.full
      BY <1>7, <3>1
    <3> QED BY <1>6, <1>10, <3>2
  <2>2. Entries(r) = R \cap more
    <3>1. {q[i] : i \in 1 .. size} = A
      BY <1>5, <2>1 DEF Entries
    <3> QED BY <1>8, <1>9, <3>1
  <2>3. Len(r) <= room
    BY <1>5, <1>6, <1>8, <1>10, <2>1
  <2>4. CASE R \subseteq more
    <3>1. Entries(r) = R /\ Len(r) = Cardinality(R)
      BY <1>9, <2>2, <2>4
    <3>2. ~(room < Cardinality(R))
      <4>1. Cardinality(R) <= room
        BY <2>3, <3>1
      <4> QED BY <1>4, <4>1
    <3>3. t.leaf = NoLeaf => Copied(s, R, room, n + 1, t)
      BY <1>7, <1>8, <2>1, <3>1, <3>2 DEF Copied
    <3>4. t.leaf # NoLeaf => Copied(s, R, room, n + 1, t)
      <4> SUFFICES ASSUME t.leaf # NoLeaf PROVE Copied(s, R, room, n + 1, t)
        OBVIOUS
      <4>1. t.leaf = s.next[l] /\ t.leaf \in s.live
        BY <1>2, <1>7
      <4>2. n + 1 <= Cardinality(Below(s, t.leaf))
        <5>1. Cardinality(Below(s, l) \cup {l}) = Cardinality(Below(s, l)) + 1
          BY <1>2, <1>4, FS_AddElement
        <5>2. Cardinality(Below(s, t.leaf)) = Cardinality(Below(s, l)) + 1
          BY <1>2, <4>1, <5>1
        <5> QED BY <1>1, <1>4, <5>2
      <4> QED BY <1>7, <1>8, <2>2, <2>3, <4>1, <4>2 DEF Copied, more
    <3> QED BY <3>3, <3>4
  <2>5. CASE ~(R \subseteq more)
    <3>1. t.leaf = s.next[l] /\ t.leaf \in s.live /\ t.leaf # NoLeaf
      BY <1>2, <1>3, <1>5, <1>6, <1>7, <1>10, <2>5
    <3>2. n + 1 <= Cardinality(Below(s, t.leaf))
      <4>1. Cardinality(Below(s, l) \cup {l}) = Cardinality(Below(s, l)) + 1
        BY <1>2, <1>4, FS_AddElement
      <4>2. Cardinality(Below(s, t.leaf)) = Cardinality(Below(s, l)) + 1
        BY <1>2, <3>1, <4>1
      <4> QED BY <1>1, <1>4, <4>2
    <3> QED BY <1>7, <1>8, <2>2, <2>3, <3>1, <3>2 DEF Copied, more
  <2> QED BY <2>4, <2>5
<1>11. CASE Len(q) > left
  <2>1. size = left /\ t.full /\ t.leaf = NoLeaf
    <3>1. t.full /\ t.leaf = NoLeaf
      BY <1>7, <1>11
    <3> QED BY <1>6, <1>11, <3>1
  <2>2. Len(r) = room /\ room < Cardinality(R)
    BY <1>4, <1>5, <1>6, <1>8, <1>9, <1>11, <2>1
  <2>3. Entries(r) \subseteq R
    <3>1. \A i \in 1 .. size : q[i] \in A
      BY <1>5, <1>6 DEF Entries
    <3> QED BY <1>8, <3>1 DEF A
  <2>4. ASSUME NEW j \in Entries(r), NEW k \in R, k < j PROVE k \in Entries(r)
    <3>1. CASE k \in D
      BY <1>8, <3>1
    <3>2. CASE k \in here
      <4>1. k \in A
        BY <3>2 DEF A
      <4>2. PICK b \in 1 .. Len(q) : q[b] = k
        BY <1>5, <4>1 DEF Entries
      <4>3. j \notin D
        <5> SUFFICES ASSUME j \in D PROVE FALSE
          OBVIOUS
        <5>1. j < k /\ j \in Nat /\ k \in Nat
          BY <1>2, <1>4, <3>2
        <5> QED BY <2>4, <5>1
      <4>4. PICK a \in 1 .. size : q[a] = j
        BY <1>8, <4>3
      <4>5. b <= a
        <5>1. a \in 1 .. Len(q) /\ a \in Nat /\ b \in Nat
          BY <1>5, <1>6
        <5> SUFFICES ASSUME a < b PROVE FALSE
          BY <5>1
        <5>2. j < k
          BY <1>5, <4>2, <4>4, <5>1 DEF Rising
        <5>3. j \in Nat /\ k \in Nat
          BY <1>4, <2>3
        <5> QED BY <2>4, <5>2, <5>3
      <4>6. b \in 1 .. size
        BY <1>5, <1>6, <4>5
      <4> QED BY <1>8, <4>2, <4>6
    <3>3. CASE k \notin more
      <4>1. j \in more /\ k \in KeysOf(s)
        <5>1. \A i \in 1 .. size : q[i] \in A
          BY <1>5, <1>6 DEF Entries
        <5>2. j \in D \cup A
          BY <1>8, <5>1
        <5>3. k \in KeysOf(s)
          BY DEF R, InRange
        <5> QED BY <1>2, <5>2, <5>3 DEF A
      <4>2. j < k /\ j \in Nat /\ k \in Nat
        BY <1>2, <1>4, <3>3, <4>1, BelowApart DEF more
      <4> QED BY <2>4, <4>2
    <3> QED BY <1>2, <3>1, <3>2, <3>3
  <2> QED BY <1>7, <1>8, <2>1, <2>2, <2>3, <2>4 DEF Copied
<1> QED BY <1>5, <1>6, <1>10, <1>11

\* What the copying loop may have done, where it starts, and a turn of it.
Copies == [leaf : Leaves \cup {NoLeaf}, out : Seq(Keys), full : BOOLEAN]
CopyTurn(s, lo, hi, room, at) ==
  IF at.leaf = NoLeaf THEN at ELSE CopyLeaf(s, lo, hi, room, at)
CopyStart(s, lo, hi) == [leaf |-> SeekLeaf(s, lo, hi), out |-> <<>>, full |-> FALSE]

\* A turn of the copying loop copies keys.
LEMMA CopyTurnTypes ==
  ASSUME NEW s \in Symbols, NEW lo, NEW hi, NEW room \in Nat, NEW at \in Copies
  PROVE  CopyTurn(s, lo, hi, room, at) \in Copies
<1>1. CASE at.leaf = NoLeaf
  BY <1>1 DEF CopyTurn
<1>2. CASE at.leaf # NoLeaf
  <2> DEFINE l == at.leaf
             here == KeysIn(s.recs[l])
             q == InOrder({k \in here : k >= StartOf(lo) /\ TimeOf(k) <= hi})
             left == room - Len(at.out)
             full == Cut(Len(q), left)
             size == IF full THEN left ELSE Len(q)
             on == full \/ \E k \in here : TimeOf(k) > hi
  <2>1. l \in Leaves /\ at.out \in Seq(Keys) /\ Len(at.out) \in Nat
    BY <1>2, LenProperties DEF Copies
  <2>2. s.next[l] \in Leaves \cup {NoLeaf}
    BY <2>1 DEF Symbols
  <2>3. q \in Seq(Keys) /\ Len(q) \in Nat
    <3>1. {k \in here : k >= StartOf(lo) /\ TimeOf(k) <= hi} \in SUBSET Keys
      BY DEF KeysIn
    <3> QED BY <3>1, InOrderLists, LenProperties
  <2> HIDE DEF q
  <2>4. SubSeq(q, 1, size) \in Seq(Keys)
    <3>1. left \in Int /\ size \in Int
      BY <2>1, <2>3
    <3>2. size <= Len(q)
      BY <2>1, <2>3 DEF Cut
    <3> HIDE DEF size
    <3>3. \A i \in 1 .. size : q[i] \in Keys
      <4> TAKE i \in 1 .. size
      <4>1. i \in 1 .. Len(q)
        BY <2>3, <3>1, <3>2
      <4> QED BY <2>3, <4>1, ElementOfSeq
    <3> QED BY <3>1, <3>3, SubSeqProperties
  <2>5. CopyTurn(s, lo, hi, room, at)
          = [leaf |-> IF on THEN NoLeaf ELSE s.next[l],
             out |-> at.out \o SubSeq(q, 1, size), full |-> full]
    BY <1>2 DEF CopyTurn, CopyLeaf, q
  <2>6. full \in BOOLEAN
    BY DEF Cut
  <2> HIDE DEF l, full, size, on
  <2>7. at.out \o SubSeq(q, 1, size) \in Seq(Keys)
    BY <2>1, <2>4, ConcatProperties
  <2> QED BY <2>2, <2>5, <2>6, <2>7 DEF Copies
<1> QED BY <1>1, <1>2

\* The recursion of ReadRange is one.
LEMMA ReadRangeIs ==
  ASSUME NEW s \in Symbols, NEW lo \in Times, NEW hi \in Times, NEW room \in Nat,
         SeekLeaf(s, lo, hi) \in Leaves \cup {NoLeaf}
  PROVE  \E w : /\ \A n \in 0 .. Cardinality(Leaves) :
                     w[n] = IF n = 0 THEN CopyStart(s, lo, hi)
                            ELSE CopyTurn(s, lo, hi, room, w[n - 1])
                /\ ReadRange(s, lo, hi, room) = w[Cardinality(Leaves)]
<1> DEFINE L == Cardinality(Leaves)
           start == CopyStart(s, lo, hi)
           Turn(x) == CopyTurn(s, lo, hi, room, x)
           Is(e) == e = [n \in 0 .. L |-> IF n = 0 THEN start ELSE Turn(e[n - 1])]
           F == [x \in Copies |-> Turn(x)]
           copy[n \in 0 .. Cardinality(Leaves)] ==
             IF n = 0 THEN [leaf |-> SeekLeaf(s, lo, hi), out |-> <<>>, full |-> FALSE]
             ELSE LET at == copy[n - 1]
                  IN IF at.leaf = NoLeaf THEN at ELSE CopyLeaf(s, lo, hi, room, at)
<1>1. L \in Nat
  BY LeavesAssumption, FS_CardinalityType
<1>2. start \in Copies /\ F \in [Copies -> Copies]
  <2>1. start \in Copies
    <3>1. <<>> \in Seq(Keys)
      BY EmptySeq
    <3> QED BY <3>1 DEF Copies, CopyStart
  <2>2. \A x \in Copies : Turn(x) \in Copies
    BY CopyTurnTypes
  <2> HIDE DEF Turn
  <2> QED BY <2>1, <2>2
<1>5. copy = CHOOSE d : Is(d)
  BY DEF copy, CopyTurn, CopyStart
<1>6. ReadRange(s, lo, hi, room) = copy[L]
  BY DEF ReadRange
<1> HIDE DEF L, Turn, copy
<1>3. PICK e : Iterated(Copies, start, F, L, e)
  <2> HIDE DEF F
  <2> QED BY <1>1, <1>2, Iterates
<1>4. Is(e)
  <2>1. \A m \in 0 .. L : e[m] = IF m = 0 THEN start ELSE Turn(e[m - 1])
    <3> TAKE m \in 0 .. L
    <3>1. m # 0 => m - 1 \in 0 .. L
      BY <1>1
    <3>2. m # 0 => e[m - 1] \in Copies
      BY <1>3, <3>1 DEF Iterated
    <3> QED BY <1>3, <3>2 DEF Iterated
  <2> QED BY <1>3, <2>1 DEF Iterated
<1>7. Is(copy)
  <2> HIDE DEF Is
  <2> QED BY <1>4, <1>5
<1>8. \A n \in 0 .. L : copy[n] = IF n = 0 THEN start ELSE Turn(copy[n - 1])
  <2> DEFINE d == copy
  <2>1. d = [n \in 0 .. L |-> IF n = 0 THEN start ELSE Turn(d[n - 1])]
    BY <1>7
  <2> HIDE DEF d
  <2>2. \A n \in 0 .. L : d[n] = IF n = 0 THEN start ELSE Turn(d[n - 1])
    BY <2>1
  <2> QED BY <2>2 DEF d
<1> QED BY <1>6, <1>8 DEF L, Turn

\* read_range copies the front of its range.
LEMMA ReadRangeExact ==
  ASSUME NEW s \in Symbols, StructureOK(s), NEW lo \in Times, NEW hi \in Times,
         NEW room \in Nat
  PROVE  LET r == ReadRange(s, lo, hi, room)
             all == InOrder(InRange(s, lo, hi))
         IN  /\ r.out = SubSeq(all, 1, IF room < Len(all) THEN room ELSE Len(all))
             /\ r.full <=> room < Len(all)
<1> DEFINE R == InRange(s, lo, hi)
           seek == SeekLeaf(s, lo, hi)
           all == InOrder(R)
           L == Cardinality(Leaves)
           start == CopyStart(s, lo, hi)
<1>1. /\ s.live \subseteq Leaves /\ NoLeaf \notin s.live
      /\ seek \in s.live \cup {NoLeaf}
      /\ seek = NoLeaf => R = {}
      /\ seek # NoLeaf => R \cap KeysOn(s, Below(s, seek)) = {}
  BY SeekLeafIs, LeavesAssumption DEF Symbols
<1>2. /\ R \in SUBSET Keys
      /\ all \in Seq(Keys) /\ Len(all) = Cardinality(R) /\ Rising(all) /\ Entries(all) = R
      /\ IsFiniteSet(R) /\ Cardinality(R) \in Nat
  <2>1. R \in SUBSET Keys
    BY DEF InRange, KeysOf
  <2> QED BY <2>1, InOrderLists
<1>3. PICK w : /\ \A n \in 0 .. L : w[n] = IF n = 0 THEN start ELSE CopyTurn(s, lo, hi, room, w[n - 1])
               /\ ReadRange(s, lo, hi, room) = w[L]
  BY <1>1, ReadRangeIs
<1>4. L \in Nat /\ IsFiniteSet(Leaves) /\ IsFiniteSet(s.live)
  BY <1>1, LeavesAssumption, FS_CardinalityType, FS_Subset
<1> DEFINE Good(n) == Copied(s, R, room, n, w[n])
           P == [n \in 0 .. L |-> Good(n)]
           end == w[L]
<1>5. Copied(s, R, room, 0, start)
  <2>1. /\ <<>> \in Seq(Keys) /\ Rising(<<>>) /\ Entries(<<>>) = {} /\ Len(<<>>) = 0
    BY EmptySeq DEF Rising, Entries
  <2>2. Cardinality({}) = 0
    BY FS_EmptySet
  <2>3. Cardinality(Below(s, seek)) \in Nat
    <3>1. Below(s, seek) \subseteq s.live
      BY DEF Below
    <3> QED BY <1>4, <3>1, FS_Subset, FS_CardinalityType
  <2>4. start.leaf = seek /\ start.out = <<>> /\ start.full = FALSE
    BY DEF CopyStart
  <2> HIDE DEF start, seek, R
  <2>5. CASE seek = NoLeaf
    <3>1. R = {} /\ ~(room < 0) /\ Cardinality(R) = 0
      BY <1>1, <2>2, <2>5
    <3> QED BY <2>1, <2>4, <2>5, <3>1 DEF Copied
  <2>6. CASE seek # NoLeaf
    <3>1. 0 <= room /\ 0 <= Cardinality(Below(s, seek))
      BY <2>3
    <3> QED BY <1>1, <2>1, <2>4, <2>6, <3>1 DEF Copied
  <2> QED BY <2>5, <2>6
<1> HIDE DEF L, start
<1>6. \A n \in 0 .. L : P[n]
  <2>1. P[0]
    BY <1>3, <1>4, <1>5
  <2>2. ASSUME NEW n \in 1 .. L, P[n - 1] PROVE P[n]
    <3>1. n - 1 \in 0 .. L /\ n - 1 \in Nat /\ n \in 0 .. L /\ n # 0 /\ (n - 1) + 1 = n
      BY <1>4
    <3>2. Good(n - 1)
      BY <2>2, <3>1
    <3>3. w[n] = CopyTurn(s, lo, hi, room, w[n - 1])
      BY <1>3, <3>1
    <3>4. CASE w[n - 1].leaf = NoLeaf
      <4>1. w[n] = w[n - 1]
        BY <3>3, <3>4 DEF CopyTurn
      <4>2. Good(n)
        BY <3>2, <3>4, <4>1 DEF Copied
      <4> QED BY <3>1, <4>2
    <3>5. CASE w[n - 1].leaf # NoLeaf
      <4>1. w[n] = CopyLeaf(s, lo, hi, room, w[n - 1])
        BY <3>3, <3>5 DEF CopyTurn
      <4>2. Copied(s, R, room, (n - 1) + 1, w[n])
        BY <3>1, <3>2, <3>5, <4>1, CopyGoesOn
      <4>3. Good(n)
        BY <3>1, <4>2
      <4> QED BY <3>1, <4>3
    <3> QED BY <3>4, <3>5
  <2>3. P \in [0 .. L -> BOOLEAN]
    BY DEF Copied
  <2> HIDE DEF P
  <2> QED BY <1>4, <2>1, <2>2, <2>3, CountingUp
<1>7. Copied(s, R, room, L, end)
  <2>1. L \in 0 .. L
    BY <1>4
  <2>2. P[L] = Good(L)
    BY <2>1
  <2> HIDE DEF P
  <2> QED BY <1>6, <2>1, <2>2
<1>8. ReadRange(s, lo, hi, room) = end
  BY <1>3
<1> HIDE DEF end
<1>9. end.leaf = NoLeaf
  <2> SUFFICES ASSUME end.leaf # NoLeaf PROVE FALSE
    OBVIOUS
  <2>1. end.leaf \in s.live /\ L <= Cardinality(Below(s, end.leaf))
    BY <1>7 DEF Copied
  <2>2. Below(s, end.leaf) \subseteq Leaves /\ end.leaf \notin Below(s, end.leaf) /\ end.leaf \in Leaves
    BY <1>1, <2>1, BelowNext
  <2>3. /\ Cardinality(Below(s, end.leaf)) <= Cardinality(Leaves)
        /\ Cardinality(Below(s, end.leaf)) # Cardinality(Leaves)
        /\ Cardinality(Below(s, end.leaf)) \in Nat
    BY <1>4, <2>2, FS_Subset, FS_CardinalityType
  <2> QED BY <1>4, <2>1, <2>3 DEF L
<1>10. /\ end.out \in Seq(Keys) /\ Rising(end.out) /\ Entries(end.out) \subseteq R
       /\ \A j \in Entries(end.out), k \in R : k < j => k \in Entries(end.out)
       /\ Len(end.out) = IF room < Len(all) THEN room ELSE Len(all)
       /\ end.full <=> room < Len(all)
  BY <1>2, <1>7, <1>9 DEF Copied
<1> HIDE DEF all, R
<1>11. end.out = SubSeq(all, 1, Len(end.out))
  BY <1>2, <1>10, RisingFront
<1> QED BY <1>8, <1>10, <1>11 DEF all, R

\* read_range hands out exactly the records of its range in key order, as many
\* as the buffer takes, wherever leaves end, and answers FULL exactly when the
\* buffer was too small.
THEOREM RangeReadsAlwaysExact ==
  ASSUME AllWrites = FALSE
  PROVE  Spec => []RangeReadsExact
<1>1. Inv => RangeReadsExact
  <2> SUFFICES ASSUME disk \in Symbols, StructureOK(disk), NEW lo \in Times, NEW hi \in Times,
                      NEW room \in 0 .. Cardinality(Keys)
               PROVE  LET all == InOrder({k \in KeysOf(disk) : TimeOf(k) \in lo .. hi})
                          r == ReadRange(disk, lo, hi, room)
                      IN /\ r.out = SubSeq(all, 1, IF room < Len(all) THEN room ELSE Len(all))
                         /\ r.full <=> room < Len(all)
    BY DEF Inv, TypeOK, StructureSound, RangeReadsExact
  <2>1. room \in Nat
    BY KeysAssumption, FS_CardinalityType
  <2> QED BY <2>1, ReadRangeExact DEF InRange
<1> QED BY <1>1, InvAlways, PTL
==============================================================================
