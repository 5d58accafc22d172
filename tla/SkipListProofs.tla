--------------------------- MODULE SkipListProofs ---------------------------
(***************************************************************************)
(* Proofs about SkipList: the towers keep every level sorted and complete, *)
(* a descent finds what a search of all the leaves would find, and the     *)
(* skip list implements LeafMap.                                           *)
(***************************************************************************)
EXTENDS SkipList, FiniteSetTheorems, FunctionTheorems, WellFoundedInduction, TLAPS

\* The nil reference is no node.
LEMMA NilIsNoRef == Nil \notin Refs
BY NamesAssumption DEF Nil, Refs

\* The nodes have references.
LEMMA PlacedRefs ==
  ASSUME NEW n
  PROVE  Placed(n) \in SUBSET Refs /\ Nil \notin Placed(n)
BY NilIsNoRef DEF Placed

\* There are finitely many nodes, so the bound on the turns of a walk is a number.
LEMMA NodesCounted ==
  ASSUME NEW n
  PROVE  IsFiniteSet(Placed(n)) /\ Count(n) \in Nat
<1>1. IsFiniteSet(1 .. PageSlots)
  BY BoundsAssumption, FS_Interval
<1>2. IsFiniteSet(Refs)
  BY <1>1, PagesAssumption, FS_Product DEF Refs
<1> QED BY <1>2, PlacedRefs, FS_Subset, FS_CardinalityType DEF Count

\* A nonempty set of naturals has a least element.
LEMMA LeastElement ==
  ASSUME NEW S \in SUBSET Nat, S # {}
  PROVE  \E x \in S : \A y \in S : x <= y
<1>1. \E x \in S : \A y \in S : ~(<<y, x>> \in OpToRel(<, Nat))
  BY NatLessThanWellFounded, WFMin
<1>2. PICK x \in S : \A y \in S : ~(<<y, x>> \in OpToRel(<, Nat))
  BY <1>1
<1>3. \A y \in S : ~(y < x)
  BY <1>2 DEF OpToRel
<1> QED BY <1>3

\* What holds at 0 and goes on from each number to the next holds up to n.
LEMMA CountingUp ==
  ASSUME NEW n \in Nat, NEW P \in [0 .. n -> BOOLEAN], P[0],
         \A m \in 1 .. n : P[m - 1] => P[m]
  PROVE  \A m \in 0 .. n : P[m]
<1> DEFINE Bad == {m \in 0 .. n : ~P[m]}
<1>1. SUFFICES ASSUME Bad # {} PROVE FALSE
  OBVIOUS
<1>2. PICK m \in Bad : \A l \in Bad : m <= l
  <2>1. Bad \in SUBSET Nat
    OBVIOUS
  <2> HIDE DEF Bad
  <2> QED BY <1>1, <2>1, LeastElement
<1>3. m \in 1 .. n /\ m - 1 \in 0 .. n /\ ~P[m]
  OBVIOUS
<1>4. P[m - 1]
  BY <1>2, <1>3
<1> QED BY <1>3, <1>4

\* The first n applications of F to a, one on top of the other.
Iterated(V, a, F, n, e) ==
  /\ e \in [0 .. n -> V]
  /\ \A m \in 0 .. n : e[m] = IF m = 0 THEN a ELSE F[e[m - 1]]

\* A function on V can be applied n times over.
LEMMA Iterates ==
  ASSUME NEW V, NEW a \in V, NEW F \in [V -> V], NEW n \in Nat
  PROVE  \E e : Iterated(V, a, F, n, e)
<1> DEFINE Upto(m, e) == \A l \in 0 .. m : e[l] = IF l = 0 THEN a ELSE F[e[l - 1]]
           P == [m \in 0 .. n |-> \E e \in [0 .. m -> V] : Upto(m, e)]
<1>1. P[0]
  <2> DEFINE e == [l \in 0 .. 0 |-> a]
  <2>1. e \in [0 .. 0 -> V] /\ Upto(0, e)
    OBVIOUS
  <2>2. \E d \in [0 .. 0 -> V] : Upto(0, d)
    BY <2>1
  <2> HIDE DEF Upto
  <2> QED BY <2>2
<1>2. ASSUME NEW m \in 1 .. n, P[m - 1] PROVE P[m]
  <2>1. PICK d \in [0 .. m - 1 -> V] : Upto(m - 1, d)
    <3> HIDE DEF Upto
    <3> QED BY <1>2
  <2> DEFINE e == [l \in 0 .. m |-> IF l = m THEN F[d[m - 1]] ELSE d[l]]
  <2>2. e \in [0 .. m -> V]
    OBVIOUS
  <2>3. \A l \in 0 .. m : e[l] = IF l = 0 THEN a ELSE F[e[l - 1]]
    <3> TAKE l \in 0 .. m
    <3>1. CASE l = m
      <4>1. l # 0 /\ l - 1 # m /\ l - 1 \in 0 .. m
        BY <3>1
      <4>2. e[l - 1] = d[m - 1] /\ e[l] = F[d[m - 1]]
        BY <3>1, <4>1
      <4> HIDE DEF e
      <4> QED BY <4>1, <4>2
    <3>2. CASE l # m
      <4>1. l \in 0 .. m - 1 /\ e[l] = d[l]
        BY <3>2
      <4>2. l # 0 => l - 1 \in 0 .. m /\ e[l - 1] = d[l - 1]
        BY <4>1
      <4>3. d[l] = IF l = 0 THEN a ELSE F[d[l - 1]]
        BY <2>1, <4>1
      <4> HIDE DEF e
      <4> QED BY <4>1, <4>2, <4>3
    <3> QED BY <3>1, <3>2
  <2>4. \E x \in [0 .. m -> V] : Upto(m, x)
    <3> HIDE DEF e
    <3> QED BY <2>2, <2>3
  <2> HIDE DEF Upto
  <2> QED BY <2>4
<1>3. \A m \in 0 .. n : P[m]
  <2>1. P \in [0 .. n -> BOOLEAN]
    <3> HIDE DEF Upto
    <3> QED OBVIOUS
  <2> HIDE DEF P
  <2> QED BY <1>1, <1>2, <2>1, CountingUp
<1>4. \E e \in [0 .. n -> V] : Upto(n, e)
  <2> HIDE DEF Upto
  <2> QED BY <1>3
<1> QED BY <1>4 DEF Iterated

------------------------------------------------------------------------------
(* One level.                                                              *)

\* Node x is behind r, where Nil is the head.
Ahead(n, r, x) == r = Nil \/ n[r].key < n[x].key

\* f is the one of the nodes T that comes next behind r.
NextIn(n, T, r, f) ==
  /\ f \in T \cup {Nil}
  /\ f # Nil => Ahead(n, r, f)
  /\ \A x \in T : Ahead(n, r, x) => f # Nil /\ n[f].key <= n[x].key

\* The keys of the nodes T tell them apart.
Keyed(n, T) ==
  /\ T \subseteq Refs
  /\ \A x \in T : n[x].key \in Nat
  /\ \A x, y \in T : n[x].key = n[y].key => x = y

\* Level i links the nodes T in the order of their keys.
Row(h, n, T, i) == \A r \in T \cup {Nil} : NextIn(n, T, r, Follow(h, n, r, i))

\* One turn of a walk that stops in front of S.
Turn(h, n, S, i, x) ==
  IF Follow(h, n, x, i) = Nil \/ Follow(h, n, x, i) \in S THEN x ELSE Follow(h, n, x, i)

\* w[m] is where m turns from r on lead to, among the nodes T.
Turns(h, n, T, S, i, r, w) ==
  /\ w \in [0 .. Count(n) -> T \cup {Nil}]
  /\ w[0] = r
  /\ \A m \in 1 .. Count(n) : w[m] = Turn(h, n, S, i, w[m - 1])

\* The pointers of level i lead from the heads and the nodes T to nodes of T.
Closes(h, n, T, i) == \A x \in T \cup {Nil} : Follow(h, n, x, i) \in T \cup {Nil}

LEMMA RowCloses ==
  ASSUME NEW h, NEW n, NEW T, NEW i, Row(h, n, T, i)
  PROVE  Closes(h, n, T, i)
BY DEF Row, NextIn, Closes

\* The nodes of a walk on level i are those that its turns lead to.
LEMMA WalkTurns ==
  ASSUME NEW h, NEW n, NEW T \in SUBSET Refs, NEW S, NEW i, NEW r \in T \cup {Nil},
         Closes(h, n, T, i)
  PROVE  Turns(h, n, T, S, i, r, Walk(h, n, S, i, r))
<1> DEFINE L == Count(n)
           V == T \cup {Nil}
           turn == [x \in Refs \cup {Nil} |->
                     LET f == Follow(h, n, x, i) IN IF f = Nil \/ f \in S THEN x ELSE f]
           Is(e) == e = [m \in 0 .. L |-> IF m = 0 THEN r ELSE turn[e[m - 1]]]
           F == [x \in V |-> turn[x]]
           at[m \in 0 .. Count(n)] == IF m = 0 THEN r ELSE turn[at[m - 1]]
<1>1. L \in Nat
  BY NodesCounted
<1>2. \A x \in V : turn[x] = Turn(h, n, S, i, x) /\ turn[x] \in V
  BY DEF Turn, Closes
<1>3. Walk(h, n, S, i, r) = at
  BY DEF Walk
<1>4. at = CHOOSE d : Is(d)
  BY DEF at
<1> HIDE DEF L, turn, at
<1>5. F \in [V -> V]
  BY <1>2
<1>6. PICK e : Iterated(V, r, F, L, e)
  <2> HIDE DEF F, V
  <2> QED BY <1>1, <1>5, Iterates DEF V
<1>7. Is(e)
  <2>1. \A m \in 0 .. L : e[m] = IF m = 0 THEN r ELSE turn[e[m - 1]]
    <3> TAKE m \in 0 .. L
    <3>1. m # 0 => m - 1 \in 0 .. L
      BY <1>1
    <3>2. m # 0 => e[m - 1] \in V
      BY <1>6, <3>1 DEF Iterated
    <3> QED BY <1>6, <3>2 DEF Iterated
  <2> QED BY <1>6, <2>1 DEF Iterated
<1>8. Is(at)
  <2> HIDE DEF Is
  <2> QED BY <1>4, <1>7
<1> DEFINE w == at
<1>9. w = [m \in 0 .. L |-> IF m = 0 THEN r ELSE turn[w[m - 1]]]
  BY <1>8
<1>20. w = at
  OBVIOUS
<1> HIDE DEF w
<1>10. \A m \in 0 .. L : w[m] = IF m = 0 THEN r ELSE turn[w[m - 1]]
  BY <1>9
<1> DEFINE P == [m \in 0 .. L |-> w[m] \in V]
<1>11. \A m \in 0 .. L : P[m]
  <2>1. P \in [0 .. L -> BOOLEAN]
    OBVIOUS
  <2>2. P[0]
    <3>1. 0 \in 0 .. L
      BY <1>1
    <3>2. w[0] \in V
      BY <1>10, <3>1
    <3> QED BY <3>1, <3>2
  <2>3. ASSUME NEW m \in 1 .. L, P[m - 1] PROVE P[m]
    <3>1. m \in 0 .. L /\ m - 1 \in 0 .. L /\ m # 0
      BY <1>1
    <3>2. w[m - 1] \in V
      BY <2>3, <3>1
    <3> QED BY <1>2, <1>10, <3>1, <3>2
  <2> HIDE DEF P
  <2> QED BY <1>1, <2>1, <2>2, <2>3, CountingUp
<1>12. w \in [0 .. L -> V]
  BY <1>9, <1>11
<1>13. \A m \in 1 .. L : w[m] = Turn(h, n, S, i, w[m - 1])
  <2> TAKE m \in 1 .. L
  <2>1. m \in 0 .. L /\ m - 1 \in 0 .. L /\ m # 0
    BY <1>1
  <2> QED BY <1>2, <1>10, <1>11, <2>1
<1>14. w[0] = r
  BY <1>1, <1>10
<1> QED BY <1>3, <1>12, <1>13, <1>14, <1>20 DEF Turns, L

\* After as many turns as there are nodes, a walk has come to its end: each
\* turn before leaves one node more behind.
LEMMA WalkEnds ==
  ASSUME NEW h, NEW n, NEW T \in SUBSET Placed(n), NEW S, NEW i, NEW r \in T \cup {Nil},
         Row(h, n, T, i), Keyed(n, T), NEW w, Turns(h, n, T, S, i, r, w)
  PROVE  LET p == w[Count(n)]
         IN Follow(h, n, p, i) = Nil \/ Follow(h, n, p, i) \in S
<1> DEFINE L == Count(n)
           Next1(x) == Follow(h, n, x, i)
           Ended(m) == Next1(w[m]) = Nil \/ Next1(w[m]) \in S
           Passed(m) == {x \in T : ~Ahead(n, w[m], x)}
           P == [m \in 0 .. L |-> Ended(m) \/ Cardinality(Passed(m)) >= m]
<1>1. L \in Nat
  BY NodesCounted
<1>2. \A m \in 0 .. L : w[m] \in T \cup {Nil}
  BY DEF Turns
<1>3. \A m \in 0 .. L : IsFiniteSet(Passed(m)) /\ Cardinality(Passed(m)) \in Nat
  BY NodesCounted, FS_Subset, FS_CardinalityType
<1>4. P[0]
  <2>1. 0 \in 0 .. L
    BY <1>1
  <2>2. Cardinality(Passed(0)) >= 0
    BY <1>3, <2>1
  <2> QED BY <2>1, <2>2
<1>5. ASSUME NEW m \in 1 .. L, P[m - 1] PROVE P[m]
  <2>1. m \in 0 .. L /\ m - 1 \in 0 .. L
    BY <1>1
  <2> DEFINE x == w[m - 1]
             f == Next1(x)
  <2>2. w[m] = Turn(h, n, S, i, x)
    BY DEF Turns
  <2>3. CASE f = Nil \/ f \in S
    <3>1. w[m] = x
      BY <2>2, <2>3 DEF Turn
    <3> QED BY <2>1, <2>3, <3>1
  <2>4. CASE ~(f = Nil \/ f \in S)
    <3>1. w[m] = f
      BY <2>2, <2>4 DEF Turn
    <3>2. x \in T \cup {Nil} /\ NextIn(n, T, x, f)
      BY <1>2, <2>1 DEF Row
    <3>3. f \in T /\ Ahead(n, x, f)
      BY <3>2, <2>4 DEF NextIn
    <3>4. f \notin Passed(m - 1) /\ f \in Passed(m)
      BY <3>1, <3>3, NilIsNoRef DEF Ahead, Keyed
    <3>5. Passed(m - 1) \subseteq Passed(m)
      <4>1. SUFFICES ASSUME NEW y \in T, ~Ahead(n, x, y) PROVE ~Ahead(n, f, y)
        BY <3>1
      <4>2. n[x].key \in Nat /\ n[f].key \in Nat /\ n[y].key \in Nat /\ x \in T
        BY <3>2, <3>3, <4>1 DEF Keyed, Ahead
      <4> QED BY <3>3, <4>1, <4>2, PlacedRefs DEF Ahead
    <3>6. Cardinality(Passed(m - 1)) >= m - 1
      <4>1. ~Ended(m - 1)
        BY <2>4
      <4> HIDE DEF Ended, Passed
      <4> QED BY <1>5, <2>1, <4>1
    <3> DEFINE A == Passed(m - 1)
               B == Passed(m)
    <3>7. IsFiniteSet(A) /\ IsFiniteSet(B) /\ Cardinality(A) \in Nat /\ Cardinality(B) \in Nat
      BY <1>3, <2>1
    <3>8. A \cup {f} \in SUBSET B /\ f \notin A
      BY <3>4, <3>5
    <3>9. Cardinality(A) >= m - 1
      BY <3>6
    <3> HIDE DEF A, B, f
    <3>10. Cardinality(A \cup {f}) = Cardinality(A) + 1
      BY <3>7, <3>8, FS_AddElement
    <3>11. Cardinality(A \cup {f}) <= Cardinality(B)
      BY <3>7, <3>8, FS_Subset
    <3>12. Cardinality(B) >= m
      BY <3>7, <3>9, <3>10, <3>11, <2>1
    <3>13. Cardinality(Passed(m)) >= m
      BY <3>12 DEF B
    <3> HIDE DEF Passed
    <3> QED BY <2>1, <3>13
  <2> QED BY <2>3, <2>4
<1>6. P[L]
  <2>1. P \in [0 .. L -> BOOLEAN]
    <3> HIDE DEF Passed, Ended
    <3> QED OBVIOUS
  <2>2. L \in 0 .. L
    BY <1>1
  <2> HIDE DEF P, L
  <2> QED BY <1>1, <1>4, <1>5, <2>1, <2>2, CountingUp
<1>7. Ended(L)
  <2>1. SUFFICES ASSUME ~Ended(L) PROVE FALSE
    OBVIOUS
  <2>2. L \in 0 .. L
    BY <1>1
  <2>3. Cardinality(Passed(L)) >= L
    <3> HIDE DEF Passed, Ended
    <3> QED BY <1>6, <2>1, <2>2
  <2> DEFINE A == Passed(L)
             c == Cardinality(T)
  <2>4. IsFiniteSet(T) /\ c <= L /\ c \in Nat /\ A \in SUBSET T
    BY NodesCounted, FS_Subset, FS_CardinalityType DEF Count
  <2>5. Cardinality(A) >= L /\ Cardinality(A) \in Nat
    BY <1>3, <2>2, <2>3
  <2>6. A = T
    <3> HIDE DEF A
    <3>1. Cardinality(A) <= c
      BY <2>4, FS_Subset
    <3>2. Cardinality(A) = c
      <4> HIDE DEF L, c
      <4> QED BY <1>1, <2>4, <2>5, <3>1
    <3> QED BY <2>4, <3>2, FS_Subset
  <2> DEFINE x == w[L]
             f == Next1(x)
  <2>7. x \in T \cup {Nil} /\ NextIn(n, T, x, f)
    BY <1>2, <2>2 DEF Row
  <2>8. f \in T /\ Ahead(n, x, f)
    BY <2>1, <2>7 DEF NextIn
  <2> QED BY <2>6, <2>8
<1> QED BY <1>7

\* A walk that no node stops visits the whole level.
LEMMA LinkedIsRow ==
  ASSUME NEW h, NEW n, NEW T \in SUBSET Placed(n), NEW i,
         Row(h, n, T, i), Keyed(n, T)
  PROVE  Linked(h, n, i) = T
<1> DEFINE L == Count(n)
           w == Walk(h, n, {}, i, Nil)
           Visited(m, x) == \E l \in 0 .. m : w[l] = x
<1>1. L \in Nat
  BY NodesCounted
<1>2. Turns(h, n, T, {}, i, Nil, w)
  BY PlacedRefs, RowCloses, WalkTurns
<1>3. Linked(h, n, i) = {w[m] : m \in 0 .. L} \ {Nil}
  BY DEF Linked
<1> HIDE DEF w
<1>4. \A m \in 0 .. L : w[m] \in T \cup {Nil}
  BY <1>2 DEF Turns
<1>5. ASSUME NEW x \in T PROVE \E m \in 0 .. L : w[m] = x
  <2> DEFINE P == [m \in 0 .. L |-> Visited(m, x) \/ Ahead(n, w[m], x)]
  <2>1. P[0]
    <3>1. w[0] = Nil /\ 0 \in 0 .. L
      BY <1>1, <1>2 DEF Turns
    <3> QED BY <3>1 DEF Ahead
  <2>2. ASSUME NEW m \in 1 .. L, P[m - 1] PROVE P[m]
    <3>1. m \in 0 .. L /\ m - 1 \in 0 .. L /\ m \in 0 .. m
      BY <1>1
    <3>2. CASE Visited(m - 1, x)
      <4>1. PICK l \in 0 .. m - 1 : w[l] = x
        BY <3>2
      <4>2. l \in 0 .. m
        BY <3>1
      <4> QED BY <3>1, <4>1, <4>2
    <3>3. CASE Ahead(n, w[m - 1], x)
      <4> DEFINE y == w[m - 1]
                 f == Follow(h, n, y, i)
      <4>1. NextIn(n, T, y, f)
        BY <1>4, <3>1 DEF Row
      <4>2. f # Nil /\ n[f].key <= n[x].key /\ f \in T
        BY <3>3, <4>1 DEF NextIn
      <4>3. w[m] = f
        BY <1>2, <4>2 DEF Turns, Turn
      <4>4. n[f].key \in Nat /\ n[x].key \in Nat
        BY <4>2 DEF Keyed
      <4>5. CASE f = x
        <5>1. Visited(m, x)
          BY <3>1, <4>3, <4>5
        <5> QED BY <3>1, <5>1
      <4>6. CASE f # x
        <5>1. n[f].key # n[x].key
          BY <4>2, <4>6 DEF Keyed
        <5>2. Ahead(n, f, x)
          BY <4>2, <4>4, <5>1 DEF Ahead
        <5> QED BY <3>1, <4>3, <5>2
      <4> QED BY <4>5, <4>6
    <3>4. Visited(m - 1, x) \/ Ahead(n, w[m - 1], x)
      BY <2>2, <3>1
    <3> QED BY <3>2, <3>3, <3>4
  <2>3. P[L] /\ L \in 0 .. L
    <3>1. P \in [0 .. L -> BOOLEAN]
      <4> HIDE DEF Visited
      <4> QED OBVIOUS
    <3>2. L \in 0 .. L
      BY <1>1
    <3> HIDE DEF P, L
    <3> QED BY <1>1, <2>1, <2>2, <3>1, <3>2, CountingUp
  <2>4. ~Ahead(n, w[L], x)
    <3> DEFINE f == Follow(h, n, w[L], i)
    <3>1. f = Nil
      BY <1>2, WalkEnds
    <3>2. NextIn(n, T, w[L], f)
      BY <1>4, <2>3 DEF Row
    <3> QED BY <3>1, <3>2 DEF NextIn
  <2> QED BY <2>3, <2>4
<1> QED BY <1>3, <1>4, <1>5, PlacedRefs

\* S is a final part of the nodes T.
Final(n, T, S) == \A x, y \in T : x \in S /\ n[x].key <= n[y].key => y \in S

\* A walk from r on that stops in front of the final part S leads to the node
\* behind which the nodes are those of S that are behind r.
LEMMA WalkStops ==
  ASSUME NEW h, NEW n, NEW T \in SUBSET Placed(n), NEW S, NEW i, NEW r \in T \cup {Nil},
         Row(h, n, T, i), Keyed(n, T), Final(n, T, S)
  PROVE  LET p == Walk(h, n, S, i, r)[Count(n)]
         IN /\ p \in T \cup {Nil}
            /\ \A x \in T : Ahead(n, p, x) <=> Ahead(n, r, x) /\ x \in S
<1> DEFINE L == Count(n)
           w == Walk(h, n, S, i, r)
           Between(m) == \A x \in T : /\ Ahead(n, w[m], x) => Ahead(n, r, x)
                                      /\ Ahead(n, r, x) /\ x \in S => Ahead(n, w[m], x)
           P == [m \in 0 .. L |-> Between(m)]
<1>1. L \in Nat
  BY NodesCounted
<1>2. Turns(h, n, T, S, i, r, w)
  BY PlacedRefs, RowCloses, WalkTurns
<1> HIDE DEF w
<1>3. \A m \in 0 .. L : w[m] \in T \cup {Nil}
  BY <1>2 DEF Turns
<1>4. P[0]
  BY <1>1, <1>2 DEF Turns
<1>5. ASSUME NEW m \in 1 .. L, P[m - 1] PROVE P[m]
  <2>1. m \in 0 .. L /\ m - 1 \in 0 .. L
    BY <1>1
  <2>2. Between(m - 1)
    BY <1>5, <2>1
  <2> DEFINE y == w[m - 1]
             f == Follow(h, n, y, i)
  <2>3. w[m] = Turn(h, n, S, i, y)
    BY <1>2 DEF Turns
  <2>4. CASE f = Nil \/ f \in S
    BY <2>1, <2>2, <2>3, <2>4 DEF Turn
  <2>5. CASE ~(f = Nil \/ f \in S)
    <3>1. w[m] = f
      BY <2>3, <2>5 DEF Turn
    <3>2. NextIn(n, T, y, f) /\ y \in T \cup {Nil}
      BY <1>3, <2>1 DEF Row
    <3>3. f \in T /\ Ahead(n, y, f)
      BY <2>5, <3>2 DEF NextIn
    <3>4. ASSUME NEW x \in T, Ahead(n, f, x) PROVE Ahead(n, r, x)
      <4>1. n[f].key < n[x].key
        BY <3>3, <3>4, PlacedRefs DEF Ahead
      <4>2. n[f].key \in Nat /\ n[x].key \in Nat /\ (y # Nil => n[y].key \in Nat)
        BY <3>2, <3>3 DEF Keyed
      <4>3. Ahead(n, y, x)
        BY <3>3, <4>1, <4>2 DEF Ahead
      <4> QED BY <2>2, <4>3
    <3>5. ASSUME NEW x \in T, Ahead(n, r, x), x \in S PROVE Ahead(n, f, x)
      <4>1. n[f].key \in Nat /\ n[x].key \in Nat
        BY <3>3 DEF Keyed
      <4>2. ~(n[x].key <= n[f].key)
        BY <2>5, <3>3, <3>5 DEF Final
      <4> QED BY <4>1, <4>2 DEF Ahead
    <3> QED BY <2>1, <3>1, <3>4, <3>5
  <2> QED BY <2>4, <2>5
<1>6. Between(L) /\ L \in 0 .. L
  <2>1. P \in [0 .. L -> BOOLEAN]
    OBVIOUS
  <2>2. L \in 0 .. L
    BY <1>1
  <2>3. P[L]
    <3> HIDE DEF P, L
    <3> QED BY <1>1, <1>4, <1>5, <2>1, <2>2, CountingUp
  <2> QED BY <2>2, <2>3
<1>7. ASSUME NEW x \in T, Ahead(n, w[L], x) PROVE x \in S
  <2> DEFINE f == Follow(h, n, w[L], i)
  <2>1. NextIn(n, T, w[L], f)
    BY <1>3, <1>6 DEF Row
  <2>2. f # Nil /\ n[f].key <= n[x].key /\ f \in T
    BY <1>7, <2>1 DEF NextIn
  <2>3. f \in S
    BY <1>2, <2>2, WalkEnds
  <2> QED BY <2>2, <2>3 DEF Final
<1> QED BY <1>3, <1>6, <1>7 DEF w

\* Nodes n2 have the nodes T in the order they have in n.
SameOrder(n, n2, T) ==
  \A x, y \in T : n[x].key < n[y].key <=> n2[x].key < n2[y].key

\* New keys in the same order leave a level sorted, if its links stay.
LEMMA RowRekeyed ==
  ASSUME NEW h, NEW n, NEW h2, NEW n2, NEW T, NEW i,
         Keyed(n, T), Keyed(n2, T), SameOrder(n, n2, T),
         \A r \in T \cup {Nil} : NextIn(n, T, r, Follow(h2, n2, r, i))
  PROVE  Row(h2, n2, T, i)
<1>1. SUFFICES ASSUME NEW r \in T \cup {Nil}, NEW f, f = Follow(h2, n2, r, i)
               PROVE  NextIn(n2, T, r, f)
  BY DEF Row
<1>2. NextIn(n, T, r, f)
  BY <1>1
<1>3. \A x \in T : Ahead(n, r, x) <=> Ahead(n2, r, x)
  BY DEF SameOrder, Ahead
<1>4. ASSUME NEW x \in T, Ahead(n2, r, x) PROVE f # Nil /\ n2[f].key <= n2[x].key
  <2>1. f # Nil /\ f \in T /\ n[f].key <= n[x].key
    BY <1>2, <1>3, <1>4 DEF NextIn
  <2>2. /\ n[f].key \in Nat /\ n[x].key \in Nat
        /\ n2[f].key \in Nat /\ n2[x].key \in Nat
    BY <2>1 DEF Keyed
  <2>3. ~(n[x].key < n[f].key)
    BY <2>1, <2>2
  <2>4. ~(n2[x].key < n2[f].key)
    BY <2>1, <2>3 DEF SameOrder
  <2> QED BY <2>1, <2>2, <2>4
<1> QED BY <1>2, <1>3, <1>4 DEF NextIn

\* The same keys and links make the same level.
LEMMA RowCopied ==
  ASSUME NEW h, NEW n, NEW h2, NEW n2, NEW T, NEW i, Row(h, n, T, i), Keyed(n, T),
         \A x \in T : n2[x].key = n[x].key,
         \A r \in T \cup {Nil} : Follow(h2, n2, r, i) = Follow(h, n, r, i)
  PROVE  Row(h2, n2, T, i)
<1>1. Keyed(n2, T) /\ SameOrder(n, n2, T)
  BY DEF Keyed, SameOrder
<1>2. \A r \in T \cup {Nil} : NextIn(n, T, r, Follow(h2, n2, r, i))
  BY DEF Row
<1> QED BY <1>1, <1>2, RowRekeyed

\* A new node r behind p, where its key belongs.
LEMMA RowSpliced ==
  ASSUME NEW h, NEW n, NEW h2, NEW n2, NEW T, NEW i, Row(h, n, T, i), Keyed(n, T),
         NEW r, r \notin T, r # Nil, Keyed(n2, T \cup {r}),
         NEW p \in T \cup {Nil},
         \A x \in T : Ahead(n, p, x) <=> n2[r].key < n[x].key,
         \A x \in T : n2[x].key = n[x].key,
         \A x \in T \cup {Nil} :
           Follow(h2, n2, x, i) = IF x = p THEN r ELSE Follow(h, n, x, i),
         Follow(h2, n2, r, i) = Follow(h, n, p, i)
  PROVE  Row(h2, n2, T \cup {r}, i)
<1> DEFINE U == T \cup {r}
           k == n2[r].key
           F(x) == Follow(h, n, x, i)
           F2(x) == Follow(h2, n2, x, i)
<1>1. \A x \in T \cup {Nil} : NextIn(n, T, x, F(x))
  BY DEF Row
<1>2. k \in Nat /\ \A x \in T : n[x].key \in Nat /\ n2[x].key = n[x].key /\ n[x].key # k
  BY DEF Keyed
<1>4. p # Nil => n[p].key < k
  <2>1. SUFFICES ASSUME p # Nil PROVE n[p].key < k
    OBVIOUS
  <2>2. p \in T /\ n[p].key \in Nat /\ n[p].key # k
    BY <1>2, <2>1
  <2>3. ~Ahead(n, p, p)
    BY <2>1, <2>2 DEF Ahead
  <2>4. ~(k < n[p].key)
    BY <2>2, <2>3
  <2> HIDE DEF k
  <2> QED BY <1>2, <2>2, <2>4
<1>5. NextIn(n2, U, p, r)
  <2>1. Ahead(n2, p, r)
    BY <1>2, <1>4 DEF Ahead
  <2>2. ASSUME NEW x \in U, Ahead(n2, p, x) PROVE k <= n2[x].key
    <3>1. CASE x = r
      BY <1>2, <3>1
    <3>2. CASE x \in T
      <4>1. Ahead(n, p, x)
        BY <1>2, <2>2, <3>2 DEF Ahead
      <4>2. k < n[x].key /\ n[x].key \in Nat /\ n2[x].key = n[x].key
        BY <1>2, <3>2, <4>1
      <4> HIDE DEF k
      <4> QED BY <1>2, <4>2
    <3> QED BY <3>1, <3>2
  <2> QED BY <2>1, <2>2 DEF NextIn
<1>6. NextIn(n2, U, r, F(p))
  <2>1. NextIn(n, T, p, F(p))
    BY <1>1
  <2>2. ASSUME NEW x \in U, Ahead(n2, r, x) PROVE x \in T /\ Ahead(n, p, x)
    <3>1. k < n2[x].key
      BY <2>2 DEF Ahead
    <3>2. x \in T
      BY <1>2, <3>1
    <3> QED BY <1>2, <3>1, <3>2
  <2>3. F(p) # Nil => Ahead(n2, r, F(p))
    <3>1. SUFFICES ASSUME F(p) # Nil PROVE Ahead(n2, r, F(p))
      OBVIOUS
    <3>2. F(p) \in T /\ Ahead(n, p, F(p))
      BY <2>1, <3>1 DEF NextIn
    <3> QED BY <1>2, <3>2 DEF Ahead
  <2>4. ASSUME NEW x \in U, Ahead(n2, r, x) PROVE F(p) # Nil /\ n2[F(p)].key <= n2[x].key
    <3>1. x \in T /\ F(p) # Nil /\ F(p) \in T /\ n[F(p)].key <= n[x].key
      BY <2>1, <2>2, <2>4 DEF NextIn
    <3> QED BY <1>2, <3>1
  <2> QED BY <2>1, <2>3, <2>4 DEF NextIn
<1>7. ASSUME NEW x \in T \cup {Nil}, x # p PROVE NextIn(n2, U, x, F(x))
  <2>1. NextIn(n, T, x, F(x))
    BY <1>1
  <2>2. ASSUME Ahead(n2, x, r) PROVE F(x) # Nil /\ n2[F(x)].key <= k
    <3>1. p \in T /\ Ahead(n, x, p)
      <4>1. CASE x = Nil
        BY <1>7, <4>1 DEF Ahead
      <4>2. CASE x # Nil
        <5>1. x \in T /\ n[x].key < k /\ n[x].key \in Nat
          BY <1>2, <2>2, <4>2 DEF Ahead
        <5>2. ~Ahead(n, p, x)
          <6>1. ~(k < n[x].key)
            <7> HIDE DEF k
            <7> QED BY <1>2, <5>1
          <6> QED BY <5>1, <6>1
        <5>3. p \in T /\ ~(n[p].key < n[x].key)
          BY <5>2 DEF Ahead
        <5>4. n[p].key # n[x].key /\ n[p].key \in Nat
          BY <1>7, <5>1, <5>3 DEF Keyed
        <5> QED BY <5>1, <5>3, <5>4 DEF Ahead
      <4> QED BY <4>1, <4>2
    <3>2. F(x) # Nil /\ F(x) \in T /\ n[F(x)].key <= n[p].key
      BY <2>1, <3>1 DEF NextIn
    <3>3. n[F(x)].key \in Nat /\ n[p].key \in Nat /\ n[p].key < k /\ n2[F(x)].key = n[F(x)].key
      BY <1>2, <1>4, <3>1, <3>2, NilIsNoRef DEF Keyed
    <3> HIDE DEF k
    <3> QED BY <1>2, <3>2, <3>3
  <2>3. \A y \in T : Ahead(n2, x, y) <=> Ahead(n, x, y)
    BY <1>2 DEF Ahead
  <2>4. F(x) # Nil => Ahead(n2, x, F(x))
    BY <2>1, <2>3 DEF NextIn
  <2>5. ASSUME NEW y \in U, Ahead(n2, x, y) PROVE F(x) # Nil /\ n2[F(x)].key <= n2[y].key
    <3>1. CASE y = r
      BY <2>2, <2>5, <3>1
    <3>2. CASE y \in T
      <4>1. F(x) # Nil /\ F(x) \in T /\ n[F(x)].key <= n[y].key
        BY <2>1, <2>3, <2>5, <3>2 DEF NextIn
      <4> QED BY <1>2, <3>2, <4>1
    <3> QED BY <3>1, <3>2
  <2> QED BY <2>1, <2>4, <2>5 DEF NextIn
<1>8. \A x \in U \cup {Nil} : NextIn(n2, U, x, F2(x))
  <2>1. \A x \in T \cup {Nil} : F2(x) = IF x = p THEN r ELSE F(x)
    OBVIOUS
  <2>2. F2(r) = F(p)
    OBVIOUS
  <2> HIDE DEF F, F2
  <2> QED BY <1>5, <1>6, <1>7, <2>1, <2>2
<1> QED BY <1>8 DEF Row

\* A level without the node r, which the node in front of it passes by.
LEMMA RowUnlinked ==
  ASSUME NEW h, NEW n, NEW h2, NEW n2, NEW T, NEW i, Row(h, n, T, i), Keyed(n, T),
         NEW r \in T, NEW p \in T \cup {Nil},
         \A x \in T : Ahead(n, p, x) <=> n[r].key <= n[x].key,
         \A x \in T \ {r} : n2[x].key = n[x].key,
         \A x \in (T \ {r}) \cup {Nil} :
           Follow(h2, n2, x, i) = IF x = p /\ Follow(h, n, x, i) = r THEN Follow(h, n, r, i)
                                  ELSE Follow(h, n, x, i)
  PROVE  Row(h2, n2, T \ {r}, i)
<1> DEFINE U == T \ {r}
           F(x) == Follow(h, n, x, i)
           F2(x) == Follow(h2, n2, x, i)
<1>1. \A x \in T \cup {Nil} : NextIn(n, T, x, F(x))
  BY DEF Row
<1>2. \A x \in T : n[x].key \in Nat /\ x # Nil
  BY NilIsNoRef DEF Keyed
<1>3. Keyed(n, U) /\ Keyed(n2, U) /\ SameOrder(n, n2, U)
  BY DEF Keyed, SameOrder
<1>5. ASSUME NEW x \in U \cup {Nil}, x = p, F(x) = r PROVE NextIn(n, U, x, F(r))
  <2>1. NextIn(n, T, r, F(r)) /\ NextIn(n, T, x, r)
    BY <1>1, <1>5
  <2>2. F(r) # Nil => F(r) \in U /\ Ahead(n, x, F(r))
    <3>1. SUFFICES ASSUME F(r) # Nil PROVE F(r) \in U /\ Ahead(n, x, F(r))
      OBVIOUS
    <3>2. F(r) \in T /\ n[r].key < n[F(r)].key
      BY <1>2, <2>1, <3>1 DEF NextIn, Ahead
    <3>3. F(r) # r
      BY <1>2, <3>2
    <3>4. n[r].key <= n[F(r)].key
      BY <1>2, <3>2
    <3> QED BY <1>5, <3>2, <3>3, <3>4
  <2>3. F(r) \in U \cup {Nil}
    BY <2>1, <2>2 DEF NextIn
  <2>4. ASSUME NEW y \in U, Ahead(n, x, y) PROVE F(r) # Nil /\ n[F(r)].key <= n[y].key
    <3>1. n[r].key <= n[y].key
      BY <1>5, <2>4
    <3>2. n[r].key # n[y].key
      BY DEF Keyed
    <3>3. Ahead(n, r, y)
      BY <1>2, <3>1, <3>2 DEF Ahead
    <3> QED BY <2>1, <3>3 DEF NextIn
  <2> QED BY <2>2, <2>3, <2>4 DEF NextIn
<1>6. ASSUME NEW x \in U \cup {Nil}, ~(x = p /\ F(x) = r) PROVE NextIn(n, U, x, F(x))
  <2>1. NextIn(n, T, x, F(x))
    BY <1>1
  <2>2. F(x) # r
    <3>1. SUFFICES ASSUME F(x) = r PROVE FALSE
      OBVIOUS
    <3>2. Ahead(n, x, r)
      BY <1>2, <2>1, <3>1 DEF NextIn
    <3>3. x # p
      BY <1>6, <3>1
    <3>4. p \in T /\ Ahead(n, x, p)
      <4>1. CASE x = Nil
        BY <3>3, <4>1 DEF Ahead
      <4>2. CASE x # Nil
        <5>1. x \in T /\ n[x].key < n[r].key /\ n[x].key \in Nat
          BY <1>2, <3>2, <4>2 DEF Ahead
        <5>2. ~(n[r].key <= n[x].key)
          BY <1>2, <5>1
        <5>3. ~Ahead(n, p, x)
          BY <5>1, <5>2
        <5>4. p \in T /\ ~(n[p].key < n[x].key)
          BY <5>3 DEF Ahead
        <5>5. n[p].key # n[x].key /\ n[p].key \in Nat
          BY <1>2, <3>3, <5>1, <5>4 DEF Keyed
        <5> QED BY <5>1, <5>4, <5>5 DEF Ahead
      <4> QED BY <4>1, <4>2
    <3>5. n[r].key <= n[p].key
      BY <2>1, <3>1, <3>4 DEF NextIn
    <3>6. Ahead(n, p, p)
      BY <3>4, <3>5
    <3> QED BY <1>2, <3>4, <3>6 DEF Ahead
  <2> QED BY <2>1, <2>2 DEF NextIn
<1>7. \A x \in U \cup {Nil} : F2(x) = IF x = p /\ F(x) = r THEN F(r) ELSE F(x)
  OBVIOUS
<1>8. \A x \in U \cup {Nil} : NextIn(n, U, x, F2(x))
  <2> HIDE DEF F, F2, U
  <2> QED BY <1>5, <1>6, <1>7
<1> QED BY <1>3, <1>8, RowRekeyed

\* What a level keeps of the nodes T when only those of S stay, and each
\* links to the next of them.
LEMMA RowCut ==
  ASSUME NEW h, NEW n, NEW T \in SUBSET Placed(n), NEW S, NEW i, NEW r \in (T \cap S) \cup {Nil},
         Row(h, n, T, i), Keyed(n, T), Final(n, T, S)
  PROVE  LET p == Walk(h, n, S, i, r)[Count(n)]
         IN NextIn(n, T \cap S, r, Follow(h, n, p, i))
<1> DEFINE p == Walk(h, n, S, i, r)[Count(n)]
           f == Follow(h, n, p, i)
<1>1. r \in T \cup {Nil}
  OBVIOUS
<1>2. p \in T \cup {Nil} /\ \A x \in T : Ahead(n, p, x) <=> Ahead(n, r, x) /\ x \in S
  BY <1>1, WalkStops
<1>3. NextIn(n, T, p, f)
  BY <1>2 DEF Row
<1> HIDE DEF p, f
<1>4. NextIn(n, T \cap S, r, f)
  BY <1>2, <1>3 DEF NextIn
<1> QED BY <1>4 DEF p, f

------------------------------------------------------------------------------
(* The invariant.                                                          *)

\* The nodes that are tall enough for level i.
Tall(n, i) == {r \in Placed(n) : n[r].level > i}

\* A leaf of the chain and its node name each other, and no other node is.
NodesNamed ==
  /\ \A l \in Leaves :
       IF firstKey[l] = NoKey THEN backRef[l] = Nil
       ELSE /\ backRef[l] \in Placed(node)
            /\ node[backRef[l]].leaf = l /\ node[backRef[l]].key = firstKey[l]
  /\ \A r \in Placed(node) : node[r].leaf \in Live /\ backRef[node[r].leaf] = r

KeysDistinct == \A l, m \in Live : firstKey[l] = firstKey[m] => l = m

\* The leaf that the chain begins with has the smallest first key.
FirstSound ==
  IF Live = {} THEN first = NoLeaf ELSE first \in Live /\ \A m \in Live : ~Before(m, first)

\* Every level links the nodes that are tall enough, in the order of their keys.
RowsSound ==
  /\ \A r \in Placed(node) : node[r].level <= top
  /\ \A i \in Levels : Row(head, node, Tall(node, i), i)

\* The slots in use of a node page are its first ones.
SlotsTaken == \A r \in Refs : node[r] # Unused <=> r[2] <= pages[r[1]].used

\* The node pages are those of the chain.
PagesChained ==
  /\ {p \in NodePages : pages[p] # NotTaken} = ChainedPages
  /\ \A p \in NodePages : pages[p] # NotTaken =>
       /\ pages[p].used >= 1
       /\ pages[p].next # NoPage => pages[pages[p].next] # NotTaken

\* The leaves of the chain have a node, which names them.
LeavesNamed == \A l \in Live : backRef[l] \in Placed(node) /\ node[backRef[l]].leaf = l

\* The pointers of every level lead to nodes that are tall enough for it.
LevelsClosed(h, n) == \A i \in Levels : Closes(h, n, Tall(n, i), i)

\* What every write keeps, late records and splits of one record included.
WInv == TypeOK /\ LeavesNamed /\ LevelsClosed(head, node) /\ SlotsTaken /\ PagesChained

\* What the writes keep that AllWrites = FALSE leaves.
IInv == /\ TypeOK /\ NodesNamed /\ KeysDistinct /\ FirstSound /\ RowsSound
        /\ SlotsTaken /\ PagesChained

\* A node is told apart from a slot without one.
LEMMA MarksAreNoNodes == Unused \notin Nodes /\ LeftBehind \notin Nodes /\ Unused # LeftBehind
<1>1. \A x \in Nodes : DOMAIN x = {"key", "leaf", "level", "forward"}
  BY DEF Nodes
<1>2. DOMAIN Unused = {"unused"} /\ DOMAIN LeftBehind = {"leftBehind"}
  BY DEF Unused, LeftBehind
<1>3. {"unused"} # {"key", "leaf", "level", "forward"}
  OBVIOUS
<1>4. {"leftBehind"} # {"key", "leaf", "level", "forward"}
  OBVIOUS
<1>5. {"unused"} # {"leftBehind"}
  OBVIOUS
<1>6. Unused \notin Nodes
  BY <1>1, <1>2, <1>3
<1>7. LeftBehind \notin Nodes
  BY <1>1, <1>2, <1>4
<1>8. Unused # LeftBehind
  BY <1>2, <1>5
<1> QED BY <1>6, <1>7, <1>8

\* Every slot with a node holds a node.
LEMMA PlacedNodes ==
  ASSUME NEW n, n \in [Refs -> Nodes \cup {Unused, LeftBehind}]
  PROVE  Placed(n) = {r \in Refs : n[r] \in Nodes}
BY MarksAreNoNodes DEF Placed

\* The types of a node's fields.
LEMMA NodeFields ==
  ASSUME NEW x \in Nodes
  PROVE  /\ x.key \in Keys /\ x.key \in Nat /\ x.leaf \in Leaves \cup {NoLeaf}
         /\ x.level \in Heights /\ x.forward \in [Levels -> Refs \cup {Nil}]
<1>1. /\ x.key \in Keys /\ x.leaf \in Leaves \cup {NoLeaf}
      /\ x.level \in Heights /\ x.forward \in [Levels -> Refs \cup {Nil}]
  BY DEF Nodes
<1> QED BY <1>1, KeysAssumption

\* The levels and heights.
LEMMA LevelNumbers ==
  /\ MaxLevel \in Nat /\ MaxLevel >= 1 /\ 0 \in Levels
  /\ \A i \in Levels : i \in Nat /\ i < MaxLevel
  /\ \A m \in Heights : m \in Nat /\ m >= 1 /\ m <= MaxLevel /\ m - 1 \in Levels
BY BoundsAssumption DEF Levels, Heights

\* The keys of the nodes tell them apart.
LEMMA NodesKeyed ==
  ASSUME TypeOK, NodesNamed, KeysDistinct, NEW T \in SUBSET Placed(node)
  PROVE  Keyed(node, T) /\ T \in SUBSET Refs
<1>1. T \in SUBSET Refs
  BY DEF Placed
<1>2. \A r \in Placed(node) : node[r] \in Nodes
  BY PlacedNodes DEF TypeOK
<1>3. \A r \in Placed(node) : node[r].key \in Nat
  BY <1>2, NodeFields
<1>4. \A r \in Placed(node) : /\ node[r].leaf \in Live /\ backRef[node[r].leaf] = r
                              /\ node[r].key = firstKey[node[r].leaf]
  BY DEF NodesNamed, Live
<1>5. \A x, y \in T : node[x].key = node[y].key => x = y
  <2> TAKE x, y \in T
  <2> HAVE node[x].key = node[y].key
  <2>1. firstKey[node[x].leaf] = firstKey[node[y].leaf]
    BY <1>4
  <2>2. node[x].leaf = node[y].leaf
    BY <1>4, <2>1 DEF KeysDistinct
  <2> QED BY <1>4, <2>2
<1> QED BY <1>1, <1>3, <1>5 DEF Keyed

\* The node in front of k on level i.
InFront(k, strict, i, p) ==
  /\ p \in Tall(node, i) \cup {Nil}
  /\ \A x \in Tall(node, i) : Ahead(node, p, x) <=> StopsAt(x, k, strict)

\* A walk on level i to k, from Nil or a node in front of k that is on the
\* level, ends at the node in front of k.
LEMMA WalkInFront ==
  ASSUME IInv, NEW k \in Nat, NEW strict \in BOOLEAN, NEW i \in Levels,
         NEW r \in Tall(node, i) \cup {Nil}, r # Nil => ~StopsAt(r, k, strict)
  PROVE  InFront(k, strict, i,
                 LastBefore({n \in Placed(node) : StopsAt(n, k, strict)}, i, r))
<1> DEFINE T == Tall(node, i)
           S == {n \in Placed(node) : StopsAt(n, k, strict)}
           p == LastBefore(S, i, r)
<1>1. T \in SUBSET Placed(node)
  BY DEF Tall
<1>2. Keyed(node, T) /\ T \in SUBSET Refs
  BY <1>1, NodesKeyed DEF IInv
<1>3. Row(head, node, T, i)
  BY DEF IInv, RowsSound
<1>4. \A x \in T : x \in S <=> StopsAt(x, k, strict)
  BY <1>1
<1>5. Final(node, T, S)
  <2>1. SUFFICES ASSUME NEW x \in T, NEW y \in T, StopsAt(x, k, strict), node[x].key <= node[y].key
                 PROVE  StopsAt(y, k, strict)
    BY <1>4 DEF Final
  <2>2. node[x].key \in Nat /\ node[y].key \in Nat
    BY <1>2 DEF Keyed
  <2> QED BY <2>1, <2>2 DEF StopsAt
<1> HIDE DEF S, T
<1>6. p \in T \cup {Nil} /\ \A x \in T : Ahead(node, p, x) <=> Ahead(node, r, x) /\ x \in S
  <2>1. r \in T \cup {Nil}
    BY DEF T
  <2> QED BY <1>1, <1>2, <1>3, <1>5, <2>1, WalkStops DEF LastBefore
<1>7. ASSUME NEW x \in T, x \in S PROVE Ahead(node, r, x)
  <2>1. SUFFICES ASSUME r # Nil PROVE node[r].key < node[x].key
    BY DEF Ahead
  <2>2. r \in T /\ r \notin S
    BY <1>4, <2>1 DEF T
  <2>3. ~(node[x].key <= node[r].key)
    BY <1>5, <1>7, <2>2 DEF Final
  <2> QED BY <1>2, <2>2, <2>3 DEF Keyed
<1> QED BY <1>4, <1>6, <1>7 DEF InFront, T, S

\* A walk stays among the nodes of its level.
LEMMA WalkStays ==
  ASSUME NEW h, NEW n, LevelsClosed(h, n), NEW S, NEW i \in Levels, NEW r \in Tall(n, i) \cup {Nil}
  PROVE  \A m \in 0 .. Count(n) : Walk(h, n, S, i, r)[m] \in Tall(n, i) \cup {Nil}
<1>1. Tall(n, i) \in SUBSET Refs
  BY DEF Tall, Placed
<1>2. Turns(h, n, Tall(n, i), S, i, r, Walk(h, n, S, i, r))
  BY <1>1, WalkTurns DEF LevelsClosed
<1> QED BY <1>2 DEF Turns

\* The node descend_ex ends at on a level is where the walk from the one of
\* the level above ends, and it is tall enough.
LEMMA PredsUnfold ==
  ASSUME TypeOK, LevelsClosed(head, node), NEW k, NEW strict,
         NEW S, S = {n \in Placed(node) : StopsAt(n, k, strict)},
         NEW d, d = Preds(k, strict)
  PROVE  /\ \A i \in 0 .. MaxLevel : d[i] = IF i >= top THEN Nil ELSE LastBefore(S, i, d[i + 1])
         /\ \A i \in Levels : d[i] \in Tall(node, i) \cup {Nil}
<1> DEFINE at(i) == IF i \in Levels THEN Tall(node, i) \cup {Nil} ELSE {Nil}
           down(i, r) == IF i >= top THEN Nil ELSE LastBefore(S, i, r)
           V == {v \in (0 .. MaxLevel) \X (Refs \cup {Nil}) : v[2] \in at(v[1])}
           F == [v \in V |-> IF v[1] = 0 THEN v ELSE <<v[1] - 1, down(v[1] - 1, v[2])>>]
           Is(e) == e = [i \in 0 .. MaxLevel |-> IF i >= top THEN Nil ELSE LastBefore(S, i, e[i + 1])]
           pred[i \in 0 .. MaxLevel] == IF i >= top THEN Nil ELSE LastBefore(S, i, pred[i + 1])
<1>1. top \in Nat /\ top <= MaxLevel /\ MaxLevel \in Nat
  BY BoundsAssumption DEF TypeOK
<1>2. ASSUME NEW i \in Levels, NEW r \in at(i + 1) PROVE down(i, r) \in at(i)
  <2>1. r \in Tall(node, i) \cup {Nil}
    <3>1. SUFFICES ASSUME r # Nil PROVE r \in Tall(node, i)
      OBVIOUS
    <3>2. r \in Placed(node) /\ node[r].level > i + 1
      BY <3>1 DEF Tall
    <3>3. node[r].level \in Nat /\ i \in Nat
      BY <3>2, PlacedNodes, NodeFields, LevelNumbers DEF TypeOK
    <3> QED BY <3>2, <3>3 DEF Tall
  <2>2. Count(node) \in 0 .. Count(node)
    BY NodesCounted
  <2>3. LastBefore(S, i, r) \in Tall(node, i) \cup {Nil}
    BY <2>1, <2>2, WalkStays DEF LastBefore
  <2> QED BY <2>3
<1> HIDE DEF down
<1>3. \A i \in 0 .. MaxLevel : at(i) \subseteq Refs \cup {Nil}
  BY DEF Tall, Placed
<1>4. F \in [V -> V]
  <2>1. ASSUME NEW v \in V, v[1] # 0 PROVE <<v[1] - 1, down(v[1] - 1, v[2])>> \in V
    <3>1. v[1] - 1 \in 0 .. MaxLevel /\ v[1] - 1 \in Levels /\ (v[1] - 1) + 1 = v[1]
      BY <1>1, <2>1 DEF Levels
    <3>2. v[2] \in at(v[1])
      OBVIOUS
    <3>3. down(v[1] - 1, v[2]) \in at(v[1] - 1)
      <4> HIDE DEF at, V
      <4> QED BY <1>2, <3>1, <3>2
    <3> HIDE DEF at
    <3> QED BY <1>3, <3>1, <3>3
  <2> HIDE DEF V
  <2> QED BY <2>1
<1>5. <<MaxLevel, Nil>> \in V
  BY <1>1
<1> HIDE DEF V, F
<1>6. PICK e : Iterated(V, <<MaxLevel, Nil>>, F, MaxLevel, e)
  BY <1>1, <1>4, <1>5, Iterates
<1>7. \A m \in 0 .. MaxLevel : e[m] \in V
  BY <1>6 DEF Iterated
<1>8. \A m \in 1 .. MaxLevel : e[m] = F[e[m - 1]]
  BY <1>1, <1>6 DEF Iterated
<1>9. e[0] = <<MaxLevel, Nil>>
  BY <1>1, <1>6 DEF Iterated
<1> DEFINE P == [m \in 0 .. MaxLevel |-> e[m][1] = MaxLevel - m]
<1>10. \A m \in 0 .. MaxLevel : P[m]
  <2>1. P \in [0 .. MaxLevel -> BOOLEAN]
    OBVIOUS
  <2>2. P[0]
    <3>1. 0 \in 0 .. MaxLevel /\ MaxLevel - 0 = MaxLevel
      BY <1>1
    <3>2. e[0][1] = MaxLevel
      BY <1>9
    <3> QED BY <3>1, <3>2
  <2>3. ASSUME NEW m \in 1 .. MaxLevel, P[m - 1] PROVE P[m]
    <3>1. m \in 0 .. MaxLevel /\ m - 1 \in 0 .. MaxLevel /\ MaxLevel - (m - 1) # 0
          /\ (MaxLevel - (m - 1)) - 1 = MaxLevel - m
      BY <1>1
    <3>2. e[m - 1][1] = MaxLevel - (m - 1) /\ e[m - 1] \in V
      BY <1>7, <2>3, <3>1
    <3> DEFINE v == e[m - 1]
    <3>3. F[v] = <<v[1] - 1, down(v[1] - 1, v[2])>>
      BY <3>1, <3>2 DEF F
    <3>4. e[m][1] = v[1] - 1
      BY <1>8, <3>3
    <3>5. e[m][1] = MaxLevel - m
      BY <3>1, <3>2, <3>4
    <3> QED BY <3>1, <3>5
  <2> HIDE DEF P
  <2> QED BY <1>1, <2>1, <2>2, <2>3, CountingUp
<1> DEFINE c == [i \in 0 .. MaxLevel |-> e[MaxLevel - i][2]]
<1>11. \A i \in 0 .. MaxLevel : c[i] = down(i, c[i + 1])
  <2> TAKE i \in 0 .. MaxLevel
  <2>1. CASE i = MaxLevel
    <3>1. c[i] = Nil /\ i >= top
      BY <1>1, <1>9, <2>1
    <3> QED BY <3>1 DEF down
  <2>2. CASE i # MaxLevel
    <3> DEFINE m == MaxLevel - i
    <3>1. m \in 1 .. MaxLevel /\ m - 1 \in 0 .. MaxLevel /\ i + 1 \in 0 .. MaxLevel
          /\ m - 1 = MaxLevel - (i + 1) /\ MaxLevel - (m - 1) = i + 1 /\ (i + 1) - 1 = i /\ i + 1 # 0
      BY <1>1, <2>2
    <3>2. e[m - 1][1] = i + 1 /\ e[m - 1] \in V /\ e[m] = F[e[m - 1]]
      BY <1>7, <1>8, <1>10, <3>1
    <3>3. e[m][2] = down(i, e[m - 1][2])
      BY <3>1, <3>2 DEF F
    <3>4. c[i] = e[m][2] /\ c[i + 1] = e[m - 1][2]
      BY <3>1
    <3> QED BY <3>3, <3>4
  <2> QED BY <2>1, <2>2
<1>12. Is(c)
  <2>1. c = [i \in 0 .. MaxLevel |-> c[i]]
    OBVIOUS
  <2> HIDE DEF c
  <2> QED BY <1>11, <2>1 DEF down
<1>13. Is(pred)
  <2>1. pred = CHOOSE x : Is(x)
    BY DEF pred
  <2> HIDE DEF Is, pred
  <2> QED BY <1>12, <2>1
<1>14. d = pred
  BY DEF Preds
<1> HIDE DEF pred
<1>15. d = [i \in 0 .. MaxLevel |-> IF i >= top THEN Nil ELSE LastBefore(S, i, d[i + 1])]
  BY <1>13, <1>14
<1>16. \A i \in 0 .. MaxLevel : d[i] = down(i, d[i + 1])
  BY <1>15 DEF down
<1> DEFINE Q == [m \in 0 .. MaxLevel |-> d[MaxLevel - m] \in at(MaxLevel - m)]
<1>17. \A m \in 0 .. MaxLevel : Q[m]
  <2>1. Q \in [0 .. MaxLevel -> BOOLEAN]
    OBVIOUS
  <2>2. Q[0]
    <3>1. MaxLevel - 0 = MaxLevel /\ MaxLevel \in 0 .. MaxLevel /\ MaxLevel >= top /\ 0 \in 0 .. MaxLevel
      BY <1>1
    <3>2. d[MaxLevel] = Nil
      BY <1>16, <3>1 DEF down
    <3> QED BY <3>1, <3>2
  <2>3. ASSUME NEW m \in 1 .. MaxLevel, Q[m - 1] PROVE Q[m]
    <3> DEFINE i == MaxLevel - m
    <3>1. m \in 0 .. MaxLevel /\ m - 1 \in 0 .. MaxLevel /\ i \in Levels /\ i \in 0 .. MaxLevel
          /\ MaxLevel - (m - 1) = i + 1
      BY <1>1 DEF Levels
    <3> HIDE DEF at
    <3>2. d[i + 1] \in at(i + 1)
      BY <2>3, <3>1
    <3>3. d[i] \in at(i)
      BY <1>2, <1>16, <3>1, <3>2
    <3> QED BY <3>1, <3>3
  <2> HIDE DEF Q
  <2> QED BY <1>1, <2>1, <2>2, <2>3, CountingUp
<1>18. ASSUME NEW i \in Levels PROVE d[i] \in Tall(node, i) \cup {Nil}
  <2>1. MaxLevel - i \in 0 .. MaxLevel /\ MaxLevel - (MaxLevel - i) = i
    BY LevelNumbers
  <2>2. d[i] \in at(i)
    BY <1>17, <2>1
  <2> QED BY <2>2
<1> QED BY <1>16, <1>18 DEF down

\* descend_ex ends at the node in front of k on every level.
LEMMA PredsInFront ==
  ASSUME IInv, NEW k \in Nat, NEW strict \in BOOLEAN
  PROVE  \A i \in Levels : InFront(k, strict, i, Preds(k, strict)[i])
<1> DEFINE S == {n \in Placed(node) : StopsAt(n, k, strict)}
           d == Preds(k, strict)
<1>1. top \in Nat /\ top <= MaxLevel /\ MaxLevel \in Nat
  BY BoundsAssumption DEF IInv, TypeOK
<1>2. /\ \A i \in 0 .. MaxLevel : d[i] = IF i >= top THEN Nil ELSE LastBefore(S, i, d[i + 1])
      /\ \A i \in Levels : d[i] \in Tall(node, i) \cup {Nil}
  BY RowCloses, PredsUnfold DEF IInv, RowsSound, LevelsClosed
<1> HIDE DEF S, d
<1>3. ASSUME NEW i \in Levels, i >= top PROVE InFront(k, strict, i, d[i])
  <2>1. Tall(node, i) = {}
    <3>1. SUFFICES ASSUME NEW x \in Placed(node) PROVE ~(node[x].level > i)
      BY DEF Tall
    <3>2. node[x].level \in Nat /\ i \in Nat /\ node[x].level <= top
      BY PlacedNodes, NodeFields, LevelNumbers DEF IInv, TypeOK, RowsSound
    <3> QED BY <1>1, <1>3, <3>2
  <2> QED BY <1>2, <2>1 DEF InFront
<1>4. ASSUME NEW i \in Levels, ~(i >= top),
             i + 1 \in Levels => InFront(k, strict, i + 1, d[i + 1])
      PROVE  InFront(k, strict, i, d[i])
  <2> DEFINE r == d[i + 1]
  <2>1. i \in 0 .. MaxLevel /\ i + 1 \in 0 .. MaxLevel /\ i \in Nat /\ (i + 1 \notin Levels => i + 1 >= top)
    BY <1>1, LevelNumbers DEF Levels
  <2>2. d[i] = LastBefore(S, i, r)
    BY <1>2, <1>4, <2>1
  <2>3. r \in Tall(node, i) \cup {Nil} /\ (r # Nil => ~StopsAt(r, k, strict))
    <3>1. CASE i + 1 \notin Levels
      BY <1>2, <2>1, <3>1
    <3>2. CASE i + 1 \in Levels
      <4>1. r \in Tall(node, i + 1) \cup {Nil}
        BY <1>4, <3>2 DEF InFront
      <4>2. SUFFICES ASSUME r # Nil PROVE r \in Tall(node, i) /\ ~StopsAt(r, k, strict)
        OBVIOUS
      <4>3. r \in Placed(node) /\ node[r].level > i + 1 /\ node[r].key \in Nat /\ node[r].level \in Nat
        BY <4>1, <4>2, PlacedNodes, NodeFields, LevelNumbers DEF Tall, IInv, TypeOK
      <4>4. ~Ahead(node, r, r)
        BY <4>2, <4>3 DEF Ahead
      <4>5. ~StopsAt(r, k, strict)
        BY <1>4, <3>2, <4>1, <4>2, <4>4 DEF InFront
      <4> QED BY <2>1, <4>3, <4>5 DEF Tall
    <3> QED BY <3>1, <3>2
  <2>4. InFront(k, strict, i, LastBefore(S, i, r))
    <3> HIDE DEF r
    <3> QED BY <2>3, WalkInFront DEF S
  <2> QED BY <2>2, <2>4
<1> DEFINE P == [m \in 0 .. MaxLevel - 1 |-> InFront(k, strict, MaxLevel - 1 - m, d[MaxLevel - 1 - m])]
<1>5. \A m \in 0 .. MaxLevel - 1 : P[m]
  <2>1. P \in [0 .. MaxLevel - 1 -> BOOLEAN]
    BY DEF InFront
  <2>2. P[0]
    <3> DEFINE i == MaxLevel - 1 - 0
    <3>1. i \in Levels /\ i + 1 \notin Levels /\ 0 \in 0 .. MaxLevel - 1
      BY LevelNumbers DEF Levels
    <3>2. InFront(k, strict, i, d[i])
      BY <1>3, <1>4, <3>1
    <3> QED BY <3>1, <3>2
  <2>3. ASSUME NEW m \in 1 .. MaxLevel - 1, P[m - 1] PROVE P[m]
    <3> DEFINE i == MaxLevel - 1 - m
    <3>1. m \in 0 .. MaxLevel - 1 /\ m - 1 \in 0 .. MaxLevel - 1 /\ i \in Levels
          /\ MaxLevel - 1 - (m - 1) = i + 1
      BY <1>1 DEF Levels
    <3>2. InFront(k, strict, i + 1, d[i + 1])
      BY <2>3, <3>1
    <3>3. InFront(k, strict, i, d[i])
      BY <1>3, <1>4, <3>1, <3>2
    <3> QED BY <3>1, <3>3
  <2>4. MaxLevel - 1 \in Nat
    BY LevelNumbers
  <2> HIDE DEF P
  <2> QED BY <2>1, <2>2, <2>3, <2>4, CountingUp
<1>6. ASSUME NEW i \in Levels PROVE InFront(k, strict, i, d[i])
  <2>1. MaxLevel - 1 - i \in 0 .. MaxLevel - 1 /\ MaxLevel - 1 - (MaxLevel - 1 - i) = i
    BY LevelNumbers DEF Levels
  <2> QED BY <1>5, <2>1
<1> QED BY <1>6 DEF d

------------------------------------------------------------------------------
(* Node pages and slots.                                                   *)

\* node_alloc_in_root hands out a slot that was not in use, and only that one.
LEMMA TakesFresh ==
  ASSUME TypeOK, SlotsTaken, PagesChained, NEW r \in Refs, Takes(r)
  PROVE  /\ node[r] = Unused
         /\ pages' \in [NodePages -> [used : 0 .. PageSlots, next : NodePages \cup {NoPage}]]
         /\ current' \in NodePages
         /\ \A x \in Refs : x[2] <= pages'[x[1]].used <=> x = r \/ x[2] <= pages[x[1]].used
         /\ PagesChained'
<1> DEFINE PageType == [used : 0 .. PageSlots, next : NodePages \cup {NoPage}]
           room == current # NoPage /\ pages[current].used < PageSlots
<1>1. \A p \in NodePages : /\ pages[p] \in PageType /\ pages[p].used \in Nat
                           /\ pages[p].used <= PageSlots /\ pages[p].next \in NodePages \cup {NoPage}
  BY BoundsAssumption DEF TypeOK
<1>2. r[1] \in NodePages /\ r[2] \in Nat /\ r[2] >= 1 /\ r[2] <= PageSlots /\ r = <<r[1], r[2]>>
  BY BoundsAssumption DEF Refs
<1>3. \A x \in Refs : x[1] \in NodePages /\ x[2] \in Nat /\ x[2] >= 1 /\ x = <<x[1], x[2]>>
  BY BoundsAssumption DEF Refs
<1>4. current \in NodePages \cup {NoPage} /\ PageSlots \in Nat /\ PageSlots >= 1
  BY BoundsAssumption DEF TypeOK
<1>5. CASE room
  <2>1. current \in NodePages
    BY <1>4, <1>5
  <2> DEFINE u == pages[current].used
  <2>2. /\ r = <<current, u + 1>> /\ current' = current
        /\ pages' = [pages EXCEPT ![current].used = u + 1]
    BY <1>5 DEF Takes
  <2>3. u \in Nat /\ u < PageSlots
    BY <1>1, <1>5, <2>1
  <2>4. r[1] = current /\ r[2] = u + 1
    BY <2>2
  <2>5. node[r] = Unused
    BY <2>3, <2>4 DEF SlotsTaken
  <2>6. \A p \in NodePages : pages'[p] = IF p = current THEN [pages[current] EXCEPT !.used = u + 1]
                                         ELSE pages[p]
    <3> HIDE DEF u
    <3> QED BY <2>1, <2>2 DEF TypeOK
  <2>7. pages' \in [NodePages -> PageType]
    <3> HIDE DEF u
    <3>1. u + 1 \in 0 .. PageSlots
      BY <1>4, <2>3
    <3>2. [pages[current] EXCEPT !.used = u + 1] \in PageType
      BY <1>1, <2>1, <3>1
    <3> HIDE DEF PageType
    <3> QED BY <1>1, <2>2, <2>6, <3>2 DEF TypeOK
  <2>8. \A p \in NodePages : /\ pages'[p].next = pages[p].next
                             /\ pages'[p].used = IF p = current THEN u + 1 ELSE pages[p].used
    <3> HIDE DEF u
    <3> QED BY <1>1, <2>1, <2>6
  <2>9. \A x \in Refs : x[2] <= pages'[x[1]].used <=> x = r \/ x[2] <= pages[x[1]].used
    <3> TAKE x \in Refs
    <3>1. CASE x[1] = current
      <4>1. pages'[x[1]].used = u + 1
        BY <2>1, <2>8, <3>1
      <4>2. x = r <=> x[2] = u + 1
        BY <1>3, <2>2, <2>4, <3>1
      <4>3. x[2] <= u + 1 <=> x[2] = u + 1 \/ x[2] <= u
        BY <1>3, <2>3
      <4> QED BY <3>1, <4>1, <4>2, <4>3
    <3>2. CASE x[1] # current
      <4>1. pages'[x[1]] = pages[x[1]]
        BY <1>3, <2>6, <3>2
      <4> QED BY <2>4, <3>2, <4>1
    <3> QED BY <3>1, <3>2
  <2>10. \A p \in NodePages : pages'[p] # NotTaken <=> pages[p] # NotTaken
    <3> TAKE p \in NodePages
    <3>1. CASE p = current
      <4>1. pages'[p].used = u + 1 /\ u + 1 # 0
        BY <2>3, <2>8, <3>1
      <4>2. pages'[p] # NotTaken
        BY <4>1 DEF NotTaken
      <4>3. current \in ChainedPages
        BY <1>5, <2>1 DEF ChainedPages
      <4>4. pages[p] # NotTaken
        BY <3>1, <4>3 DEF PagesChained
      <4> QED BY <4>2, <4>4
    <3>2. CASE p # current
      BY <2>6, <3>2
    <3> QED BY <3>1, <3>2
  <2>11. ChainedPages' = ChainedPages
    <3>1. \A S \in SUBSET NodePages :
            (\A q \in S : pages'[q].next # NoPage => pages'[q].next \in S)
            <=> (\A q \in S : pages[q].next # NoPage => pages[q].next \in S)
      BY <2>8
    <3> QED BY <2>2, <3>1 DEF ChainedPages
  <2>12. PagesChained'
    <3>1. {p \in NodePages : pages'[p] # NotTaken} = {p \in NodePages : pages[p] # NotTaken}
      BY <2>10
    <3>2. ASSUME NEW p \in NodePages, pages'[p] # NotTaken
          PROVE  /\ pages'[p].used >= 1
                 /\ pages'[p].next # NoPage => pages'[pages'[p].next] # NotTaken
      <4>1. /\ pages[p].used >= 1
            /\ pages[p].next # NoPage => pages[pages[p].next] # NotTaken
        BY <2>10, <3>2 DEF PagesChained
      <4>2. pages'[p].used >= 1
        <5>1. pages'[p].used = u + 1 \/ pages'[p].used = pages[p].used
          BY <2>8
        <5>2. u + 1 >= 1
          BY <2>3
        <5> HIDE DEF u
        <5> QED BY <4>1, <5>1, <5>2
      <4> QED BY <1>1, <2>8, <2>10, <4>1, <4>2
    <3> QED BY <2>11, <3>1, <3>2 DEF PagesChained
  <2> QED BY <2>1, <2>2, <2>5, <2>7, <2>9, <2>12
<1>6. CASE ~room
  <2> DEFINE q == r[1]
  <2>1. /\ pages[q] = NotTaken /\ r[2] = 1 /\ current' = q
        /\ pages' = [pages EXCEPT ![q] = FreshPage]
    BY <1>6 DEF Takes
  <2>2. pages[q].used = 0 /\ pages[q].next = NoPage /\ FreshPage.used = 1 /\ FreshPage.next = current
    BY <2>1 DEF NotTaken, FreshPage
  <2>3. node[r] = Unused
    BY <2>1, <2>2 DEF SlotsTaken
  <2>4. \A p \in NodePages : pages'[p] = IF p = q THEN FreshPage ELSE pages[p]
    BY <1>2, <2>1 DEF TypeOK
  <2>5. pages' \in [NodePages -> PageType]
    <3>1. FreshPage \in PageType
      BY <1>4 DEF FreshPage
    <3> HIDE DEF PageType
    <3> QED BY <1>1, <2>1, <2>4, <3>1 DEF TypeOK
  <2>6. \A x \in Refs : x[2] <= pages'[x[1]].used <=> x = r \/ x[2] <= pages[x[1]].used
    <3> TAKE x \in Refs
    <3>1. CASE x[1] = q
      <4>1. pages'[x[1]].used = 1 /\ pages[x[1]].used = 0
        BY <1>2, <2>2, <2>4, <3>1
      <4>2. x = r <=> x[2] = 1
        BY <1>2, <1>3, <2>1, <3>1
      <4> QED BY <1>3, <4>1, <4>2
    <3>2. CASE x[1] # q
      <4>1. pages'[x[1]] = pages[x[1]]
        BY <1>3, <2>4, <3>2
      <4> QED BY <3>2, <4>1
    <3> QED BY <3>1, <3>2
  <2>7. FreshPage # NotTaken
    BY <2>2 DEF NotTaken
  <2>8. {p \in NodePages : pages'[p] # NotTaken} = {p \in NodePages : pages[p] # NotTaken} \cup {q}
    BY <1>2, <2>4, <2>7
  <2> HIDE DEF q
  <2> DEFINE Shut(S) == /\ current # NoPage => current \in S
                        /\ \A p \in S : pages[p].next # NoPage => pages[p].next \in S
             Shut2(S) == /\ q \in S
                         /\ \A p \in S : pages'[p].next # NoPage => pages'[p].next \in S
  <2>9. q \in NodePages /\ q # NoPage
    BY <1>2, NamesAssumption DEF q
  <2>10. ChainedPages = {p \in NodePages : \A S \in SUBSET NodePages : Shut(S) => p \in S}
    BY DEF ChainedPages
  <2>11. ChainedPages' = {p \in NodePages : \A S \in SUBSET NodePages : Shut2(S) => p \in S}
    BY <2>1, <2>9 DEF ChainedPages
  <2>12. \A S \in SUBSET NodePages : Shut2(S) => Shut(S)
    <3>1. SUFFICES ASSUME NEW S \in SUBSET NodePages, Shut2(S) PROVE Shut(S)
      OBVIOUS
    <3>2. pages'[q].next = current
      BY <2>2, <2>4, <2>9
    <3>3. current # NoPage => current \in S
      BY <3>1, <3>2
    <3>4. ASSUME NEW p \in S, pages[p].next # NoPage PROVE pages[p].next \in S
      <4>1. p # q
        BY <2>2, <3>4
      <4>2. pages'[p].next = pages[p].next
        BY <2>4, <4>1
      <4> QED BY <3>1, <3>4, <4>2
    <3> QED BY <3>3, <3>4
  <2>13. {p \in NodePages : pages[p] # NotTaken} = ChainedPages
    BY DEF PagesChained
  <2>14. Shut2(ChainedPages \cup {q})
    <3> DEFINE C == ChainedPages
    <3>1. current # NoPage => current \in C
      BY <1>4 DEF ChainedPages
    <3>2. ASSUME NEW p \in C, p # q, pages'[p].next # NoPage PROVE pages'[p].next \in C
      <4>1. p \in NodePages /\ pages[p] # NotTaken
        BY <2>13
      <4>2. pages'[p].next = pages[p].next
        BY <2>4, <3>2, <4>1
      <4>3. pages[p].next \in NodePages /\ pages[pages[p].next] # NotTaken
        BY <1>1, <3>2, <4>1, <4>2 DEF PagesChained
      <4> QED BY <2>13, <4>2, <4>3
    <3>3. pages'[q].next = current
      BY <2>2, <2>4, <2>9
    <3> HIDE DEF C
    <3> QED BY <3>1, <3>2, <3>3 DEF C
  <2>15. ChainedPages' = ChainedPages \cup {q}
    <3>1. ChainedPages \subseteq NodePages
      BY DEF ChainedPages
    <3>2. \A p \in ChainedPages' : p \in ChainedPages \cup {q}
      <4> TAKE p \in ChainedPages'
      <4>1. ChainedPages \cup {q} \in SUBSET NodePages
        BY <2>9, <3>1
      <4> HIDE DEF Shut2
      <4> QED BY <2>11, <2>14, <4>1
    <3>3. \A p \in ChainedPages : p \in ChainedPages'
      <4> TAKE p \in ChainedPages
      <4>1. \A S \in SUBSET NodePages : Shut2(S) => p \in S
        <5> HIDE DEF Shut, Shut2
        <5> QED BY <2>10, <2>12
      <4> HIDE DEF Shut2
      <4> QED BY <2>11, <3>1, <4>1
    <3>4. q \in ChainedPages'
      BY <2>9, <2>11
    <3> HIDE DEF Shut, Shut2
    <3> QED BY <3>2, <3>3, <3>4
  <2>16. PagesChained'
    <3>1. {p \in NodePages : pages'[p] # NotTaken} = ChainedPages'
      BY <2>8, <2>13, <2>15
    <3>2. ASSUME NEW p \in NodePages, pages'[p] # NotTaken
          PROVE  /\ pages'[p].used >= 1
                 /\ pages'[p].next # NoPage => pages'[pages'[p].next] # NotTaken
      <4>1. CASE p = q
        <5>1. pages'[p].used = 1 /\ pages'[p].next = current
          BY <2>2, <2>4, <4>1
        <5>2. current # NoPage => current \in ChainedPages
          BY <1>4 DEF ChainedPages
        <5>3. current # NoPage => current \in {x \in NodePages : pages'[x] # NotTaken}
          BY <2>8, <2>13, <5>2
        <5> QED BY <5>1, <5>3
      <4>2. CASE p # q
        <5>1. pages'[p] = pages[p]
          BY <2>4, <4>2
        <5>2. /\ pages[p].used >= 1
              /\ pages[p].next # NoPage => pages[pages[p].next] # NotTaken
          BY <3>2, <5>1 DEF PagesChained
        <5>3. pages[p].next # NoPage => pages[p].next \in {x \in NodePages : pages'[x] # NotTaken}
          BY <1>1, <2>8, <5>2
        <5> QED BY <5>1, <5>2, <5>3
      <4> QED BY <4>1, <4>2
    <3> QED BY <3>1, <3>2 DEF PagesChained
  <2> QED BY <2>1, <2>3, <2>5, <2>6, <2>9, <2>16 DEF q
<1> QED BY <1>5, <1>6

------------------------------------------------------------------------------
(* Steps.                                                                  *)

\* Slot r holds a new node, and on each of its levels it stands behind pred.
Spliced(r, l, k, height, pred) ==
  /\ r \in Refs \ Placed(node) /\ node[r] = Unused /\ Placed(node') = Placed(node) \cup {r}
  /\ node'[r].key = k /\ node'[r].leaf = l /\ node'[r].level = height
  /\ \A i \in Levels : i < height => node'[r].forward[i] = Forward(pred[i], i)
  /\ \A x \in Placed(node) :
       /\ node'[x].key = node[x].key /\ node'[x].leaf = node[x].leaf
       /\ node'[x].level = node[x].level
  /\ \A i \in Levels : \A x \in Placed(node) \cup {Nil} :
       Follow(head', node', x, i) = IF i < height /\ x = pred[i] THEN r ELSE Forward(x, i)
  /\ backRef' = [backRef EXCEPT ![l] = r] /\ top' = IF height > top THEN height ELSE top

\* skiplist_splice makes such a node.
LEMMA SplicesNode ==
  ASSUME WInv, NEW l \in Leaves, NEW k \in Keys, NEW height \in Heights, NEW pred,
         \A i \in Levels : pred[i] \in Tall(node, i) \cup {Nil},
         Splice(l, k, height, pred)
  PROVE  /\ \E r : Spliced(r, l, k, height, pred)
         /\ node' \in [Refs -> Nodes \cup {Unused, LeftBehind}]
         /\ head' \in [Levels -> Refs \cup {Nil}] /\ top' \in 1 .. MaxLevel
         /\ backRef' \in [Leaves -> Refs \cup {Nil}]
         /\ pages' \in [NodePages -> [used : 0 .. PageSlots, next : NodePages \cup {NoPage}]]
         /\ current' \in NodePages
         /\ SlotsTaken' /\ PagesChained'
<1> DEFINE behind(i, p) == i < height /\ pred[i] = p
           link(r, i, x) == IF behind(i, x) THEN r ELSE node[x].forward[i]
           new(r) == [key |-> k, leaf |-> l, level |-> height,
                      forward |-> [i \in Levels |-> IF i < height THEN Forward(pred[i], i) ELSE Nil]]
<1>1. PICK r \in Refs :
        /\ Takes(r)
        /\ node' = [x \in Refs |->
             IF x = r THEN new(r)
             ELSE IF ~IsNode(x) THEN node[x]
             ELSE [node[x] EXCEPT !.forward =
                     [i \in Levels |-> IF behind(i, x) THEN r ELSE @[i]]]]
        /\ head' = [i \in Levels |-> IF behind(i, Nil) THEN r ELSE head[i]]
        /\ top' = IF height > top THEN height ELSE top
        /\ backRef' = [backRef EXCEPT ![l] = r]
  BY DEF Splice
<1>2. TypeOK /\ SlotsTaken /\ PagesChained
  BY DEF WInv
<1> DEFINE N == Placed(node)
           N2 == Placed(node')
<1>3. /\ node[r] = Unused
      /\ pages' \in [NodePages -> [used : 0 .. PageSlots, next : NodePages \cup {NoPage}]]
      /\ current' \in NodePages
      /\ \A x \in Refs : x[2] <= pages'[x[1]].used <=> x = r \/ x[2] <= pages[x[1]].used
      /\ PagesChained'
  BY <1>1, <1>2, TakesFresh
<1>4. N = {x \in Refs : node[x] \in Nodes} /\ r \notin N /\ r # Nil
  BY <1>2, <1>3, PlacedNodes, MarksAreNoNodes, NilIsNoRef DEF TypeOK
<1>5. \A i \in Levels : Forward(pred[i], i) \in Refs \cup {Nil}
  <2> TAKE i \in Levels
  <2>1. pred[i] \in Tall(node, i) \cup {Nil}
    OBVIOUS
  <2>2. CASE pred[i] = Nil
    BY <1>2, <2>2 DEF Forward, Follow, TypeOK
  <2>3. CASE pred[i] # Nil
    <3>1. node[pred[i]] \in Nodes
      BY <1>4, <2>1, <2>3 DEF Tall
    <3>2. node[pred[i]].forward \in [Levels -> Refs \cup {Nil}]
      BY <3>1, NodeFields
    <3> QED BY <2>3, <3>2 DEF Forward, Follow
  <2> QED BY <2>2, <2>3
<1>6. /\ new(r) \in Nodes /\ new(r).key = k /\ new(r).leaf = l /\ new(r).level = height
      /\ \A i \in Levels : new(r).forward[i] = IF i < height THEN Forward(pred[i], i) ELSE Nil
  <2>1. [i \in Levels |-> IF i < height THEN Forward(pred[i], i) ELSE Nil] \in [Levels -> Refs \cup {Nil}]
    BY <1>5
  <2> QED BY <2>1 DEF Nodes
<1>7. ASSUME NEW x \in N
      PROVE  /\ x \in Refs /\ node'[x] \in Nodes
             /\ node'[x].key = node[x].key /\ node'[x].leaf = node[x].leaf
             /\ node'[x].level = node[x].level
             /\ \A i \in Levels : node'[x].forward[i] = link(r, i, x)
  <2>1. x \in Refs /\ x # r /\ node[x] \in Nodes
    BY <1>4
  <2> DEFINE f == [i \in Levels |-> link(r, i, x)]
  <2>2. node'[x] = [node[x] EXCEPT !.forward = f]
    BY <1>1, <2>1 DEF IsNode
  <2>3. f \in [Levels -> Refs \cup {Nil}]
    BY <2>1, NodeFields
  <2>4. \A i \in Levels : f[i] = link(r, i, x)
    OBVIOUS
  <2> HIDE DEF f, link
  <2>5. /\ node'[x] \in Nodes /\ node'[x].forward = f
        /\ node'[x].key = node[x].key /\ node'[x].leaf = node[x].leaf
        /\ node'[x].level = node[x].level
    BY <2>1, <2>2, <2>3 DEF Nodes
  <2> QED BY <2>1, <2>4, <2>5
<1>8. node'[r] = new(r)
  BY <1>1
<1>9. \A x \in Refs : x # r /\ x \notin N => node'[x] = node[x]
  BY <1>1 DEF IsNode
<1> HIDE DEF new, link
<1>10. node' \in [Refs -> Nodes \cup {Unused, LeftBehind}]
  <2>1. \A x \in Refs : node'[x] \in Nodes \cup {Unused, LeftBehind}
    BY <1>2, <1>6, <1>7, <1>8, <1>9 DEF TypeOK
  <2>2. node' = [x \in Refs |-> node'[x]]
    BY <1>1
  <2> QED BY <2>1, <2>2
<1>11. N2 = N \cup {r}
  <2>1. N2 = {x \in Refs : node'[x] \in Nodes}
    BY <1>10, PlacedNodes
  <2> QED BY <1>4, <1>6, <1>7, <1>8, <1>9, <2>1
<1>12. top \in Nat /\ height \in Nat /\ top <= MaxLevel /\ top >= 1
  BY <1>2, LevelNumbers DEF TypeOK
<1>13. SlotsTaken'
  <2>1. SUFFICES ASSUME NEW x \in Refs PROVE node'[x] # Unused <=> x[2] <= pages'[x[1]].used
    BY DEF SlotsTaken
  <2>2. node'[x] # Unused <=> x = r \/ node[x] # Unused
    BY <1>4, <1>6, <1>7, <1>8, <1>9, MarksAreNoNodes
  <2>3. node[x] # Unused <=> x[2] <= pages[x[1]].used
    BY <1>2 DEF SlotsTaken
  <2> QED BY <1>3, <2>2, <2>3
<1>14. ASSUME NEW i \in Levels, NEW x \in N \cup {Nil}
       PROVE  Follow(head', node', x, i) = IF i < height /\ x = pred[i] THEN r ELSE Forward(x, i)
  <2>1. CASE x = Nil
    <3>1. head'[i] = IF behind(i, Nil) THEN r ELSE head[i]
      BY <1>1
    <3> QED BY <2>1, <3>1 DEF Follow, Forward
  <2>2. CASE x # Nil
    <3>1. node'[x].forward[i] = IF behind(i, x) THEN r ELSE node[x].forward[i]
      BY <1>7, <2>2 DEF link
    <3> QED BY <2>2, <3>1 DEF Follow, Forward
  <2> QED BY <2>1, <2>2
<1>15. head' \in [Levels -> Refs \cup {Nil}] /\ backRef' \in [Leaves -> Refs \cup {Nil}]
  BY <1>1, <1>2 DEF TypeOK
<1>16. top' \in 1 .. MaxLevel
  BY <1>1, <1>12, LevelNumbers
<1>17. Spliced(r, l, k, height, pred)
  BY <1>1, <1>3, <1>4, <1>6, <1>7, <1>8, <1>11, <1>14 DEF Spliced
<1> QED BY <1>3, <1>10, <1>13, <1>15, <1>16, <1>17

\* skiplist_splice keeps the pointers in order, whatever its node's key is.
LEMMA SpliceKeepsWInv ==
  ASSUME WInv, NEW l \in Leaves, l \notin Live, NEW k \in Keys, NEW height \in Heights, NEW pred,
         \A i \in Levels : pred[i] \in Tall(node, i) \cup {Nil},
         firstKey' \in [Leaves -> Keys \cup {NoKey}], Live' \subseteq Live \cup {l},
         first' \in Leaves \cup {NoLeaf},
         Splice(l, k, height, pred)
  PROVE  WInv'
<1>1. /\ node' \in [Refs -> Nodes \cup {Unused, LeftBehind}]
      /\ head' \in [Levels -> Refs \cup {Nil}] /\ top' \in 1 .. MaxLevel
      /\ backRef' \in [Leaves -> Refs \cup {Nil}]
      /\ pages' \in [NodePages -> [used : 0 .. PageSlots, next : NodePages \cup {NoPage}]]
      /\ current' \in NodePages
      /\ SlotsTaken' /\ PagesChained'
  BY SplicesNode
<1>2. PICK r : Spliced(r, l, k, height, pred)
  BY SplicesNode
<1> DEFINE N == Placed(node)
<1>3. /\ r \notin N /\ Placed(node') = N \cup {r}
      /\ node'[r].leaf = l /\ node'[r].level = height
      /\ \A i \in Levels : i < height => node'[r].forward[i] = Forward(pred[i], i)
      /\ \A x \in N : node'[x].leaf = node[x].leaf /\ node'[x].level = node[x].level
      /\ \A i \in Levels : \A x \in N \cup {Nil} :
           Follow(head', node', x, i) = IF i < height /\ x = pred[i] THEN r ELSE Forward(x, i)
      /\ backRef' = [backRef EXCEPT ![l] = r] /\ r # Nil
  BY <1>2, NilIsNoRef DEF Spliced
<1>4. TypeOK'
  BY <1>1 DEF TypeOK
<1>5. LeavesNamed'
  <2>1. SUFFICES ASSUME NEW m \in Live' PROVE backRef'[m] \in Placed(node') /\ node'[backRef'[m]].leaf = m
    BY DEF LeavesNamed
  <2>2. \A q \in Leaves : backRef'[q] = IF q = l THEN r ELSE backRef[q]
    BY <1>3 DEF WInv, TypeOK
  <2>3. CASE m = l
    BY <1>3, <2>2, <2>3
  <2>4. CASE m # l
    <3>1. m \in Live /\ m \in Leaves
      BY <2>4 DEF Live
    <3>2. backRef[m] \in N /\ node[backRef[m]].leaf = m
      BY <3>1 DEF WInv, LeavesNamed
    <3> QED BY <1>3, <2>2, <2>4, <3>1, <3>2
  <2> QED BY <2>3, <2>4
<1>6. LevelsClosed(head', node')
  <2>1. SUFFICES ASSUME NEW i \in Levels, NEW x \in Tall(node', i) \cup {Nil}
                 PROVE  Follow(head', node', x, i) \in Tall(node', i) \cup {Nil}
    BY DEF LevelsClosed, Closes
  <2>2. \A y \in Tall(node, i) \cup {Nil} : Forward(y, i) \in Tall(node, i) \cup {Nil}
    BY DEF WInv, LevelsClosed, Closes, Forward
  <2>3. Tall(node', i) = Tall(node, i) \cup {y \in {r} : i < height}
    <3>1. height > i <=> i < height
      BY LevelNumbers
    <3> QED BY <1>3, <3>1 DEF Tall
  <2>4. Tall(node, i) \subseteq N
    BY DEF Tall
  <2>5. CASE x = r
    BY <1>3, <2>1, <2>2, <2>3, <2>4, <2>5 DEF Follow
  <2>6. CASE x \in Tall(node, i) \cup {Nil}
    BY <1>3, <2>2, <2>3, <2>4, <2>6
  <2> QED BY <2>3, <2>5, <2>6
<1> QED BY <1>1, <1>4, <1>5, <1>6 DEF WInv

\* The smaller one of two keys.
LEMMA MinOfTwo ==
  ASSUME NEW j \in Nat, NEW k \in Nat
  PROVE  Min({j, k}) = IF j <= k THEN j ELSE k
<1>1. Min({j, k}) = CHOOSE x \in {j, k} : \A y \in {j, k} : x <= y
  BY DEF Min
<1>2. \A x \in {j, k} : (\A y \in {j, k} : x <= y) <=> x = IF j <= k THEN j ELSE k
  OBVIOUS
<1>3. (IF j <= k THEN j ELSE k) \in {j, k}
  OBVIOUS
<1> QED BY <1>1, <1>2, <1>3

\* Tallest is above every level that has a node.
LEMMA TallestLevel ==
  ASSUME NEW h
  PROVE  /\ Tallest(h) \in 1 .. MaxLevel
         /\ \A i \in Levels : h[i] # Nil => i + 1 <= Tallest(h)
<1> DEFINE S == {1} \cup {i + 1 : i \in {j \in Levels : h[j] # Nil}}
           D == {d \in Nat : \E x \in S : d = MaxLevel - x}
<1>1. \A x \in S : x \in Nat /\ x >= 1 /\ x <= MaxLevel
  BY LevelNumbers
<1>2. 1 \in S
  OBVIOUS
<1>3. MaxLevel - 1 \in D
  BY <1>2, LevelNumbers
<1> HIDE DEF S
<1>4. D \in SUBSET Nat /\ D # {}
  BY <1>3
<1>5. PICK d \in D : \A e \in D : d <= e
  <2> HIDE DEF D
  <2> QED BY <1>4, LeastElement
<1>6. PICK x \in S : d = MaxLevel - x
  OBVIOUS
<1>7. \A y \in S : x >= y
  <2> TAKE y \in S
  <2>1. MaxLevel - y \in Nat
    BY <1>1, LevelNumbers
  <2>2. MaxLevel - y \in D
    BY <2>1
  <2>3. d <= MaxLevel - y
    BY <1>5, <2>2
  <2> QED BY <1>1, <1>6, <2>3, LevelNumbers
<1>8. Tallest(h) = CHOOSE y \in S : \A z \in S : y >= z
  BY DEF Tallest, Max, S
<1>9. Tallest(h) \in S /\ \A y \in S : Tallest(h) >= y
  BY <1>7, <1>8
<1>10. \A i \in Levels : h[i] # Nil => i + 1 \in S
  BY DEF S
<1> QED BY <1>1, <1>9, <1>10, LevelNumbers

\* A record put in a leaf can lower the first key of the leaf, and only that.
LEMMA PutInLeafKeepsWInv ==
  ASSUME WInv, NEW k \in Keys, PutInLeaf(k)
  PROVE  WInv'
<1>1. PICK m \in Live : firstKey' = [firstKey EXCEPT ![m] = Min({firstKey[m], k})]
  BY DEF PutInLeaf
<1>2. UNCHANGED <<first, backRef, head, top, node, pages, current>>
  BY DEF PutInLeaf
<1>3. TypeOK /\ LeavesNamed /\ LevelsClosed(head, node) /\ SlotsTaken /\ PagesChained
  BY DEF WInv
<1>4. m \in Leaves /\ firstKey[m] \in Keys /\ firstKey[m] \in Nat /\ k \in Nat /\ firstKey[m] # NoKey
  BY <1>3, KeysAssumption DEF Live, TypeOK
<1>5. Min({firstKey[m], k}) \in Keys
  BY <1>4, MinOfTwo
<1>6. TypeOK' /\ Live' \subseteq Live
  <2>1. firstKey' \in [Leaves -> Keys \cup {NoKey}]
    BY <1>1, <1>3, <1>5 DEF TypeOK
  <2>2. \A l \in Leaves : l # m => firstKey'[l] = firstKey[l]
    BY <1>1, <1>3 DEF TypeOK
  <2> QED BY <1>2, <1>3, <2>1, <2>2 DEF TypeOK, Live
<1>7. LeavesNamed' /\ LevelsClosed(head, node)' /\ SlotsTaken' /\ PagesChained'
  BY <1>2, <1>3, <1>6 DEF LeavesNamed, LevelsClosed, Closes, Follow, Tall, Placed, SlotsTaken,
                          PagesChained, ChainedPages
<1> QED BY <1>6, <1>7 DEF WInv

\* The first leaf is spliced behind the head on every level.
LEMMA AddFirstLeafKeepsWInv ==
  ASSUME WInv, NEW l \in Leaves, NEW k \in Keys, NEW height \in Heights,
         AddFirstLeaf(l, k, height)
  PROVE  WInv'
<1> DEFINE pred == [i \in Levels |-> Nil]
<1>1. /\ Live = {} /\ firstKey' = [firstKey EXCEPT ![l] = k] /\ first' = l
      /\ Splice(l, k, height, pred)
  BY DEF AddFirstLeaf
<1>2. \A i \in Levels : pred[i] \in Tall(node, i) \cup {Nil}
  OBVIOUS
<1>3. firstKey \in [Leaves -> Keys \cup {NoKey}]
  BY DEF WInv, TypeOK
<1>4. firstKey' \in [Leaves -> Keys \cup {NoKey}] /\ Live' \subseteq Live \cup {l}
  BY <1>1, <1>3 DEF Live
<1> HIDE DEF pred
<1> QED BY <1>1, <1>2, <1>4, SpliceKeepsWInv

\* A new leaf is spliced behind nodes of each level, wherever its key belongs.
LEMMA AddLeafKeepsWInv ==
  ASSUME WInv, NEW l \in Leaves, NEW k \in Keys, NEW height \in Heights, AddLeaf(l, k, height)
  PROVE  WInv'
<1> DEFINE pred == Preds(k, FALSE)
<1>1. PICK m \in Live, keys \in Keys \X Keys :
        firstKey' = [firstKey EXCEPT ![m] = keys[1], ![l] = keys[2]]
  BY DEF AddLeaf
<1>2. l \notin Live /\ first' = first /\ Splice(l, k, height, pred)
  BY DEF AddLeaf
<1>3. TypeOK /\ LevelsClosed(head, node)
  BY DEF WInv
<1>4. \A i \in Levels : pred[i] \in Tall(node, i) \cup {Nil}
  BY <1>3, PredsUnfold
<1>5. firstKey' \in [Leaves -> Keys \cup {NoKey}] /\ first' \in Leaves \cup {NoLeaf}
  BY <1>1, <1>2, <1>3 DEF TypeOK
<1>6. Live' \subseteq Live \cup {l}
  <2>1. \A q \in Leaves : q # m /\ q # l => firstKey'[q] = firstKey[q]
    BY <1>1, <1>3 DEF TypeOK
  <2> QED BY <2>1 DEF Live
<1> HIDE DEF pred
<1> QED BY <1>2, <1>4, <1>5, <1>6, SpliceKeepsWInv

\* Leaving nodes behind that no pointer leads to leaves the levels closed.
LEMMA LeaveBehindCloses ==
  ASSUME NEW h, NEW n, n \in [Refs -> Nodes \cup {Unused, LeftBehind}], LevelsClosed(h, n),
         NEW gone \in SUBSET Placed(n), NEW m, m = LeaveBehind(h, n, gone)
  PROVE  /\ m \in [Refs -> Nodes \cup {Unused, LeftBehind}]
         /\ \A x \in Placed(n) \ gone : x \in Placed(m) /\ m[x] = n[x]
         /\ \A x \in Refs : m[x] = Unused <=> n[x] = Unused
         /\ LevelsClosed(h, m)
<1> DEFINE cutOff == \A i \in Levels :
                       \A r \in {x \in Placed(n) \ gone : n[x].level > i} \cup {Nil} :
                         Follow(h, n, r, i) \notin gone
<1>1. m = [r \in Refs |-> IF r \in gone /\ cutOff THEN LeftBehind ELSE n[r]]
  BY DEF LeaveBehind
<1>2. CASE ~cutOff
  <2>1. m = [r \in Refs |-> n[r]]
    <3> HIDE DEF cutOff
    <3> QED BY <1>1, <1>2
  <2>2. m = n
    BY <2>1
  <2> QED BY <2>2
<1>3. CASE cutOff
  <2>1. \A x \in Refs : m[x] = IF x \in gone THEN LeftBehind ELSE n[x]
    <3> HIDE DEF cutOff
    <3> QED BY <1>1, <1>3
  <2>2. m \in [Refs -> Nodes \cup {Unused, LeftBehind}]
    <3>1. m = [x \in Refs |-> m[x]]
      BY <1>1
    <3>2. \A x \in Refs : m[x] \in Nodes \cup {Unused, LeftBehind}
      BY <2>1
    <3> QED BY <3>1, <3>2
  <2>3. Placed(m) = Placed(n) \ gone /\ \A x \in Placed(n) : x \in Refs
    BY <2>1 DEF Placed
  <2>4. \A x \in Placed(n) \ gone : m[x] = n[x]
    BY <2>1, <2>3
  <2>5. \A x \in Refs : m[x] = Unused <=> n[x] = Unused
    BY <2>1, MarksAreNoNodes DEF Placed
  <2>6. LevelsClosed(h, m)
    <3>1. SUFFICES ASSUME NEW i \in Levels, NEW x \in Tall(m, i) \cup {Nil}
                   PROVE  Follow(h, m, x, i) \in Tall(m, i) \cup {Nil}
      BY DEF LevelsClosed, Closes
    <3>2. Tall(m, i) = Tall(n, i) \ gone
      BY <2>3, <2>4 DEF Tall
    <3>3. Follow(h, m, x, i) = Follow(h, n, x, i)
      BY <2>3, <2>4 DEF Follow, Tall
    <3>4. Follow(h, n, x, i) \in Tall(n, i) \cup {Nil}
      BY <3>2 DEF LevelsClosed, Closes
    <3>5. Follow(h, n, x, i) \notin gone
      BY <1>3, <3>2 DEF Tall
    <3> QED BY <3>2, <3>3, <3>4, <3>5
  <2> QED BY <2>2, <2>3, <2>4, <2>5, <2>6
<1> QED BY <1>2, <1>3

\* A node with a new key stands where it stood.
LEMMA DeleteFirstKeepsWInv ==
  ASSUME WInv, NEW l \in Leaves, NEW k \in Keys, DeleteFirst(l, k)
  PROVE  WInv'
<1> DEFINE r == backRef[l]
           N == Placed(node)
<1>1. TypeOK /\ LeavesNamed /\ LevelsClosed(head, node) /\ SlotsTaken /\ PagesChained
  BY DEF WInv
<1>2. /\ l \in Live /\ firstKey' = [firstKey EXCEPT ![l] = k]
      /\ node' = [node EXCEPT ![r].key = k]
      /\ UNCHANGED <<first, backRef, head, top, pages, current>>
  BY DEF DeleteFirst, Rekeyed
<1>3. N = {x \in Refs : node[x] \in Nodes} /\ r \in N
  BY <1>1, <1>2, PlacedNodes DEF TypeOK, LeavesNamed
<1>4. \A x \in Refs : node'[x] = IF x = r THEN [node[r] EXCEPT !.key = k] ELSE node[x]
  BY <1>1, <1>2, <1>3 DEF TypeOK
<1>5. /\ node'[r] \in Nodes /\ node'[r].leaf = node[r].leaf
      /\ node'[r].level = node[r].level /\ node'[r].forward = node[r].forward
  <2>1. node'[r] = [node[r] EXCEPT !.key = k] /\ node[r] \in Nodes
    BY <1>3, <1>4
  <2> HIDE DEF r
  <2> QED BY <2>1 DEF Nodes
<1>6. node' \in [Refs -> Nodes \cup {Unused, LeftBehind}]
  <2>1. \A x \in Refs : node'[x] \in Nodes \cup {Unused, LeftBehind}
    BY <1>1, <1>4, <1>5 DEF TypeOK
  <2> QED BY <1>1, <1>2, <2>1 DEF TypeOK
<1>7. Placed(node') = N
  <2>1. Placed(node') = {x \in Refs : node'[x] \in Nodes}
    BY <1>6, PlacedNodes
  <2> QED BY <1>3, <1>4, <1>5, <2>1
<1>8. \A x \in N : node'[x].leaf = node[x].leaf /\ node'[x].level = node[x].level
                   /\ node'[x].forward = node[x].forward
  BY <1>3, <1>4, <1>5
<1>9. TypeOK' /\ Live' \subseteq Live
  <2>1. firstKey' \in [Leaves -> Keys \cup {NoKey}] /\ Live' \subseteq Live
    BY <1>1, <1>2 DEF TypeOK, Live
  <2> QED BY <1>1, <1>2, <1>6, <2>1 DEF TypeOK
<1>10. LeavesNamed'
  BY <1>1, <1>2, <1>7, <1>8, <1>9 DEF LeavesNamed
<1>11. LevelsClosed(head', node')
  <2>1. SUFFICES ASSUME NEW i \in Levels, NEW x \in Tall(node', i) \cup {Nil}
                 PROVE  Follow(head', node', x, i) \in Tall(node', i) \cup {Nil}
    BY DEF LevelsClosed, Closes
  <2>2. Tall(node', i) = Tall(node, i)
    BY <1>7, <1>8 DEF Tall
  <2>3. Follow(head', node', x, i) = Follow(head, node, x, i)
    BY <1>2, <1>8, <2>2 DEF Follow, Tall
  <2> QED BY <1>1, <2>2, <2>3 DEF LevelsClosed, Closes
<1>12. SlotsTaken'
  <2>1. \A x \in Refs : node'[x] # Unused <=> node[x] # Unused
    BY <1>3, <1>4, <1>5, MarksAreNoNodes
  <2> QED BY <1>1, <1>2, <2>1 DEF SlotsTaken
<1>13. PagesChained'
  BY <1>1, <1>2 DEF PagesChained, ChainedPages
<1> QED BY <1>9, <1>10, <1>11, <1>12, <1>13 DEF WInv

\* skiplist_unlink leads from a node to one further on, or leaves it out:
\* whether it meets the node that goes or not, no pointer is lost.
LEMMA DeleteOnlyKeepsWInv ==
  ASSUME WInv, NEW l \in Leaves, DeleteOnly(l)
  PROVE  WInv'
<1> DEFINE r == backRef[l]
           N == Placed(node)
           pred == Preds(node[r].key, TRUE)
           past(i, p, f) == IF i \in UnlinkedLevels(r) /\ pred[i] = p /\ f = r
                            THEN node[r].forward[i] ELSE f
           nodes == [x \in Refs |->
             IF ~IsNode(x) THEN node[x]
             ELSE [node[x] EXCEPT !.leaf = IF x = r THEN NoLeaf ELSE @,
                                  !.forward = [i \in Levels |-> past(i, x, @[i])]]]
           gone == {x \in N : x = r \/ node[x].leaf = NoLeaf}
<1>1. TypeOK /\ LeavesNamed /\ LevelsClosed(head, node) /\ SlotsTaken /\ PagesChained
  BY DEF WInv
<1>2. /\ l \in Live /\ firstKey' = [firstKey EXCEPT ![l] = NoKey]
      /\ first' \in IF first = l THEN Fronts(Live \ {l}) ELSE {first}
      /\ backRef' = [backRef EXCEPT ![l] = Nil]
      /\ head' = [i \in Levels |-> past(i, Nil, head[i])]
      /\ node' = LeaveBehind(head', nodes, gone)
      /\ top' = Tallest(head')
      /\ UNCHANGED <<pages, current>>
  BY DEF DeleteOnly, UnlinkNode
<1>3. r \in N /\ node[r].leaf = l
  BY <1>1, <1>2 DEF LeavesNamed
<1>4. N = {x \in Refs : node[x] \in Nodes} /\ \A x \in N : x \in Refs /\ x # Nil
  BY <1>1, PlacedNodes, NilIsNoRef DEF TypeOK
<1>5. node[r].forward \in [Levels -> Refs \cup {Nil}]
  BY <1>3, <1>4, NodeFields
<1> HIDE DEF pred
<1>6. ASSUME NEW x \in N
      PROVE  /\ nodes[x] \in Nodes /\ nodes[x].level = node[x].level
             /\ x # r => nodes[x].leaf = node[x].leaf
             /\ \A i \in Levels : nodes[x].forward[i] = past(i, x, node[x].forward[i])
  <2> DEFINE f == [i \in Levels |-> past(i, x, node[x].forward[i])]
             leaf == IF x = r THEN NoLeaf ELSE node[x].leaf
  <2>1. x \in Refs /\ node[x] \in Nodes
    BY <1>4
  <2>2. nodes[x] = [node[x] EXCEPT !.leaf = leaf, !.forward = f]
    BY <2>1 DEF IsNode
  <2>3. f \in [Levels -> Refs \cup {Nil}]
    BY <1>5, <2>1, NodeFields
  <2>4. leaf \in Leaves \cup {NoLeaf} /\ (x # r => leaf = node[x].leaf)
    BY <2>1, NodeFields
  <2>5. \A i \in Levels : f[i] = past(i, x, node[x].forward[i])
    OBVIOUS
  <2> HIDE DEF f, leaf, nodes, past
  <2>6. /\ nodes[x] \in Nodes /\ nodes[x].level = node[x].level
        /\ nodes[x].leaf = leaf /\ nodes[x].forward = f
    BY <2>1, <2>2, <2>3, <2>4 DEF Nodes
  <2> QED BY <2>4, <2>5, <2>6
<1>7. \A x \in Refs : x \notin N => nodes[x] = node[x]
  BY DEF IsNode
<1>8. nodes \in [Refs -> Nodes \cup {Unused, LeftBehind}]
  <2>1. nodes = [x \in Refs |-> nodes[x]]
    OBVIOUS
  <2>2. \A x \in Refs : nodes[x] \in Nodes \cup {Unused, LeftBehind}
    <3> HIDE DEF nodes
    <3> QED BY <1>1, <1>6, <1>7 DEF TypeOK
  <2> HIDE DEF nodes
  <2> QED BY <2>1, <2>2
<1> HIDE DEF nodes
<1>9. Placed(nodes) = N
  <2>1. Placed(nodes) = {x \in Refs : nodes[x] \in Nodes}
    BY <1>8, PlacedNodes
  <2> QED BY <1>4, <1>6, <1>7, <2>1
<1>10. head' \in [Levels -> Refs \cup {Nil}]
  BY <1>1, <1>2, <1>5 DEF TypeOK
<1>11. LevelsClosed(head', nodes)
  <2>1. SUFFICES ASSUME NEW i \in Levels, NEW x \in Tall(nodes, i) \cup {Nil}
                 PROVE  Follow(head', nodes, x, i) \in Tall(nodes, i) \cup {Nil}
    BY DEF LevelsClosed, Closes
  <2>2. Tall(nodes, i) = Tall(node, i) /\ Tall(node, i) \subseteq N
    BY <1>6, <1>9 DEF Tall
  <2>3. Follow(head', nodes, x, i) = past(i, x, Follow(head, node, x, i))
    <3>1. CASE x = Nil
      <4>1. head'[i] = past(i, Nil, head[i])
        BY <1>2
      <4> HIDE DEF past
      <4> QED BY <3>1, <4>1 DEF Follow
    <3>2. CASE x # Nil
      <4>1. nodes[x].forward[i] = past(i, x, node[x].forward[i])
        BY <1>6, <2>2, <3>2
      <4> HIDE DEF past
      <4> QED BY <3>2, <4>1 DEF Follow
    <3> QED BY <3>1, <3>2
  <2>4. \A y \in Tall(node, i) \cup {Nil} : Follow(head, node, y, i) \in Tall(node, i) \cup {Nil}
    BY <1>1 DEF LevelsClosed, Closes
  <2>5. Follow(head, node, x, i) = r => node[r].forward[i] \in Tall(node, i) \cup {Nil}
    <3>1. SUFFICES ASSUME Follow(head, node, x, i) = r
                   PROVE  node[r].forward[i] \in Tall(node, i) \cup {Nil}
      OBVIOUS
    <3>2. r \in Tall(node, i) /\ r # Nil
      BY <1>3, <1>4, <2>2, <2>4, <3>1
    <3> QED BY <2>4, <3>2 DEF Follow
  <2> QED BY <2>2, <2>3, <2>4, <2>5
<1> HIDE DEF past
<1>12. /\ node' \in [Refs -> Nodes \cup {Unused, LeftBehind}]
       /\ \A x \in N \ gone : x \in Placed(node') /\ node'[x] = nodes[x]
       /\ \A x \in Refs : node'[x] = Unused <=> nodes[x] = Unused
       /\ LevelsClosed(head', node')
  <2>1. gone \in SUBSET Placed(nodes)
    BY <1>9
  <2> HIDE DEF gone
  <2> QED BY <1>2, <1>8, <1>9, <1>11, <2>1, LeaveBehindCloses
<1>13. /\ \A m \in Leaves : firstKey'[m] = IF m = l THEN NoKey ELSE firstKey[m]
       /\ \A m \in Leaves : backRef'[m] = IF m = l THEN Nil ELSE backRef[m]
  BY <1>1, <1>2 DEF TypeOK
<1>14. LeavesNamed'
  <2>1. SUFFICES ASSUME NEW m \in Live'
                 PROVE  backRef'[m] \in Placed(node') /\ node'[backRef'[m]].leaf = m
    BY DEF LeavesNamed
  <2>2. m \in Live /\ m # l /\ m \in Leaves /\ m # NoLeaf /\ backRef'[m] = backRef[m]
    BY <1>13, NamesAssumption DEF Live
  <2>3. backRef[m] \in N /\ node[backRef[m]].leaf = m /\ backRef[m] # r
    BY <1>1, <1>3, <2>2 DEF LeavesNamed
  <2>4. backRef[m] \notin gone
    BY <2>2, <2>3
  <2> QED BY <1>6, <1>12, <2>2, <2>3, <2>4
<1>15. TypeOK'
  <2>1. firstKey' \in [Leaves -> Keys \cup {NoKey}] /\ backRef' \in [Leaves -> Refs \cup {Nil}]
    BY <1>1, <1>2 DEF TypeOK
  <2>2. top' \in 1 .. MaxLevel
    BY <1>2, TallestLevel
  <2>3. first' \in Leaves \cup {NoLeaf}
    BY <1>1, <1>2 DEF Fronts, Live, TypeOK
  <2> QED BY <1>1, <1>2, <1>10, <1>12, <2>1, <2>2, <2>3 DEF TypeOK
<1>16. SlotsTaken'
  <2>1. \A x \in Refs : node'[x] # Unused <=> node[x] # Unused
    BY <1>4, <1>6, <1>7, <1>12, MarksAreNoNodes
  <2> QED BY <1>1, <1>2, <2>1 DEF SlotsTaken
<1>17. PagesChained'
  BY <1>1, <1>2 DEF PagesChained, ChainedPages
<1> QED BY <1>12, <1>14, <1>15, <1>16, <1>17 DEF WInv

\* The arguments TruncateBefore is called with.
Cuts(h, kept, old, k) ==
  /\ h \in Live \cup {NoLeaf}
  /\ kept \in IF h = NoLeaf THEN {{}} ELSE FromOn(h)
  /\ old \in SUBSET {l \in kept \ {h} : firstKey[l] < k}

\* The rebuild of a level leads from each node to a node of the level.
LEMMA TruncateBeforeKeepsWInv ==
  ASSUME WInv, NEW h, NEW k \in Keys, NEW kept, NEW old,
         Cuts(h, kept, old, k), TruncateBefore(h, k, kept, old)
  PROVE  WInv'
<1> DEFINE N == Placed(node)
           gone == {r \in Placed(node) : node[r].leaf \notin kept}
           left == {r \in Placed(node) : node[r].leaf \in kept \ old}
           next(i, r) == Forward(LastBefore(left, i, r), i)
           rebuilt == [i \in Levels |-> IF i \in RebuiltLevels
                                        THEN {r \in OnLevel(i) : node[r].leaf \in kept \ old} ELSE {}]
           nodes == [r \in Refs |->
             IF \A i \in Levels : r \notin rebuilt[i] THEN node[r]
             ELSE [node[r] EXCEPT
                     !.key = firstKey'[node[r].leaf],
                     !.forward = [i \in Levels |-> IF r \in rebuilt[i] THEN next(i, r) ELSE @[i]]]]
<1>1. TypeOK /\ LeavesNamed /\ LevelsClosed(head, node) /\ SlotsTaken /\ PagesChained
  BY DEF WInv
<1>2. /\ firstKey' = [l \in Leaves |-> IF l = h THEN k ELSE IF l \in kept THEN firstKey[l] ELSE NoKey]
      /\ first' = h
      /\ backRef' = [l \in Leaves |-> IF l \in kept THEN backRef[l] ELSE Nil]
      /\ head' = [i \in Levels |-> IF i \in RebuiltLevels THEN next(i, Nil) ELSE head[i]]
      /\ node' = LeaveBehind(head', nodes, gone)
      /\ top' = Tallest(head')
      /\ UNCHANGED <<pages, current>>
  BY DEF TruncateBefore
<1>3. /\ kept \in SUBSET Live /\ h \in Live \cup {NoLeaf} /\ (h # NoLeaf => h \in kept)
      /\ \A l \in Live : l \in Leaves /\ firstKey[l] \in Keys
  BY <1>1 DEF Cuts, FromOn, Live, TypeOK
<1>4. N = {x \in Refs : node[x] \in Nodes} /\ \A x \in N : x \in Refs /\ x # Nil
  BY <1>1, PlacedNodes, NilIsNoRef DEF TypeOK
<1>5. ASSUME NEW i \in Levels
      PROVE  /\ \A r \in Tall(node, i) \cup {Nil} : next(i, r) \in Tall(node, i) \cup {Nil}
             /\ \A r \in rebuilt[i] : r \in Tall(node, i) /\ node[r].leaf \in kept
  <2>1. \A m \in 0 .. Count(node) : Walk(head, node, {}, i, Nil)[m] \in Tall(node, i) \cup {Nil}
    BY <1>1, WalkStays
  <2>2. OnLevel(i) \subseteq Tall(node, i)
    BY <2>1 DEF OnLevel, Linked
  <2>3. ASSUME NEW r \in Tall(node, i) \cup {Nil} PROVE next(i, r) \in Tall(node, i) \cup {Nil}
    <3>1. Count(node) \in 0 .. Count(node)
      BY NodesCounted
    <3> HIDE DEF left
    <3>2. LastBefore(left, i, r) \in Tall(node, i) \cup {Nil}
      BY <1>1, <3>1, WalkStays DEF LastBefore
    <3> QED BY <1>1, <3>2 DEF LevelsClosed, Closes, Forward
  <2> HIDE DEF next
  <2> QED BY <2>2, <2>3 DEF RebuiltLevels
<1> HIDE DEF next, rebuilt
<1>6. ASSUME NEW x \in N
      PROVE  /\ nodes[x] \in Nodes /\ nodes[x].leaf = node[x].leaf /\ nodes[x].level = node[x].level
             /\ \A i \in Levels : nodes[x].forward[i] = IF x \in rebuilt[i] THEN next(i, x)
                                                        ELSE node[x].forward[i]
  <2> DEFINE f == [i \in Levels |-> IF x \in rebuilt[i] THEN next(i, x) ELSE node[x].forward[i]]
             key == firstKey'[node[x].leaf]
  <2>1. x \in Refs /\ node[x] \in Nodes
    BY <1>4
  <2>2. CASE \A i \in Levels : x \notin rebuilt[i]
    BY <2>1, <2>2
  <2>3. CASE ~\A i \in Levels : x \notin rebuilt[i]
    <3>1. nodes[x] = [node[x] EXCEPT !.key = key, !.forward = f]
      BY <2>1, <2>3
    <3>2. node[x].leaf \in kept
      BY <1>5, <2>3
    <3>3. key \in Keys
      BY <1>2, <1>3, <3>2
    <3>4. \A i \in Levels : Tall(node, i) \subseteq Refs
      BY DEF Tall, Placed
    <3>5. f \in [Levels -> Refs \cup {Nil}]
      <4>1. \A i \in Levels : x \in rebuilt[i] => next(i, x) \in Refs \cup {Nil}
        BY <1>5, <3>4
      <4>2. node[x].forward \in [Levels -> Refs \cup {Nil}]
        BY <2>1, NodeFields
      <4> QED BY <4>1, <4>2
    <3>6. \A i \in Levels : f[i] = IF x \in rebuilt[i] THEN next(i, x) ELSE node[x].forward[i]
      OBVIOUS
    <3> HIDE DEF f, key, nodes
    <3>7. /\ nodes[x] \in Nodes /\ nodes[x].leaf = node[x].leaf /\ nodes[x].level = node[x].level
          /\ nodes[x].forward = f
      BY <2>1, <3>1, <3>3, <3>5 DEF Nodes
    <3> QED BY <3>6, <3>7
  <2> QED BY <2>2, <2>3
<1>7. \A x \in Refs : x \notin N => nodes[x] = node[x]
  BY <1>5 DEF Tall
<1>8. nodes \in [Refs -> Nodes \cup {Unused, LeftBehind}]
  <2>1. nodes = [x \in Refs |-> nodes[x]]
    OBVIOUS
  <2>2. \A x \in Refs : nodes[x] \in Nodes \cup {Unused, LeftBehind}
    <3> HIDE DEF nodes
    <3> QED BY <1>1, <1>6, <1>7 DEF TypeOK
  <2> HIDE DEF nodes
  <2> QED BY <2>1, <2>2
<1> HIDE DEF nodes
<1>9. Placed(nodes) = N
  <2>1. Placed(nodes) = {x \in Refs : nodes[x] \in Nodes}
    BY <1>8, PlacedNodes
  <2> QED BY <1>4, <1>6, <1>7, <2>1
<1>10. head' \in [Levels -> Refs \cup {Nil}] /\ \A i \in Levels : head'[i] = next(i, Nil)
  <2>1. head' = [i \in Levels |-> next(i, Nil)]
    BY <1>2 DEF RebuiltLevels
  <2>2. \A i \in Levels : next(i, Nil) \in Refs \cup {Nil}
    BY <1>5 DEF Tall, Placed
  <2> QED BY <2>1, <2>2
<1>11. LevelsClosed(head', nodes)
  <2>1. SUFFICES ASSUME NEW i \in Levels, NEW x \in Tall(nodes, i) \cup {Nil}
                 PROVE  Follow(head', nodes, x, i) \in Tall(nodes, i) \cup {Nil}
    BY DEF LevelsClosed, Closes
  <2>2. Tall(nodes, i) = Tall(node, i) /\ Tall(node, i) \subseteq N
    BY <1>6, <1>9 DEF Tall
  <2>3. Follow(head, node, x, i) \in Tall(node, i) \cup {Nil} /\ next(i, x) \in Tall(node, i) \cup {Nil}
    BY <1>1, <1>5, <2>2 DEF LevelsClosed, Closes
  <2>4. Follow(head', nodes, x, i) \in {Follow(head, node, x, i), next(i, x)}
    BY <1>6, <1>10, <2>2 DEF Follow
  <2> QED BY <2>2, <2>3, <2>4
<1>12. /\ node' \in [Refs -> Nodes \cup {Unused, LeftBehind}]
       /\ \A x \in N \ gone : x \in Placed(node') /\ node'[x] = nodes[x]
       /\ \A x \in Refs : node'[x] = Unused <=> nodes[x] = Unused
       /\ LevelsClosed(head', node')
  <2>1. gone \in SUBSET Placed(nodes)
    BY <1>9
  <2> HIDE DEF gone
  <2> QED BY <1>2, <1>8, <1>9, <1>11, <2>1, LeaveBehindCloses
<1>13. LeavesNamed'
  <2>1. SUFFICES ASSUME NEW l \in Live'
                 PROVE  backRef'[l] \in Placed(node') /\ node'[backRef'[l]].leaf = l
    BY DEF LeavesNamed
  <2>2. l \in Leaves /\ l \in kept
    BY <1>2, <1>3, NamesAssumption DEF Live
  <2>3. backRef'[l] = backRef[l] /\ backRef[l] \in N /\ node[backRef[l]].leaf = l
    BY <1>1, <1>2, <1>3, <2>2 DEF LeavesNamed
  <2>4. backRef[l] \notin gone
    BY <2>2, <2>3
  <2> QED BY <1>6, <1>12, <2>3, <2>4
<1>14. TypeOK'
  <2>1. firstKey' \in [Leaves -> Keys \cup {NoKey}] /\ first' \in Leaves \cup {NoLeaf}
    BY <1>1, <1>2, <1>3 DEF TypeOK
  <2>2. backRef' \in [Leaves -> Refs \cup {Nil}]
    BY <1>1, <1>2 DEF TypeOK
  <2>3. top' \in 1 .. MaxLevel
    BY <1>2, TallestLevel
  <2> QED BY <1>1, <1>2, <1>10, <1>12, <2>1, <2>2, <2>3 DEF TypeOK
<1>15. SlotsTaken'
  <2>1. \A x \in Refs : node'[x] # Unused <=> node[x] # Unused
    BY <1>4, <1>6, <1>7, <1>12, MarksAreNoNodes
  <2> QED BY <1>1, <1>2, <2>1 DEF SlotsTaken
<1>16. PagesChained'
  BY <1>1, <1>2 DEF PagesChained, ChainedPages
<1> QED BY <1>12, <1>13, <1>14, <1>15, <1>16 DEF WInv

\* SymbolDrop leaves no node: the chain names every node page.
LEMMA SymbolDropKeepsWInv ==
  ASSUME WInv, SymbolDrop
  PROVE  WInv' /\ Placed(node') = {} /\ Live' = {}
<1>1. TypeOK /\ SlotsTaken /\ PagesChained
  BY DEF WInv
<1>2. /\ firstKey' = [l \in Leaves |-> NoKey] /\ first' = NoLeaf
      /\ backRef' = [l \in Leaves |-> Nil]
      /\ head' = [i \in Levels |-> Nil] /\ top' = 1
      /\ node' = [r \in Refs |-> IF r[1] \in ChainedPages THEN Unused ELSE node[r]]
      /\ pages' = [p \in NodePages |-> IF p \in ChainedPages THEN NotTaken ELSE pages[p]]
      /\ current' = NoPage
  BY DEF SymbolDrop
<1>3. \A r \in Refs : r[1] \in NodePages /\ r[2] \in Nat /\ r[2] >= 1
  BY BoundsAssumption DEF Refs
<1>4. \A p \in NodePages : p \notin ChainedPages => pages[p] = NotTaken
  BY <1>1 DEF PagesChained
<1>5. NotTaken.used = 0 /\ NotTaken.next = NoPage
  BY DEF NotTaken
<1>6. pages' = [p \in NodePages |-> NotTaken]
  BY <1>2, <1>4
<1>7. \A r \in Refs : node'[r] = Unused
  <2> TAKE r \in Refs
  <2>1. CASE r[1] \in ChainedPages
    BY <1>2, <2>1
  <2>2. CASE r[1] \notin ChainedPages
    <3>1. pages[r[1]].used = 0
      BY <1>3, <1>4, <1>5, <2>2
    <3>2. ~(r[2] <= pages[r[1]].used)
      BY <1>3, <3>1
    <3> QED BY <1>1, <1>2, <2>2, <3>2 DEF SlotsTaken
  <2> QED BY <2>1, <2>2
<1>8. Placed(node') = {}
  BY <1>7 DEF Placed
<1>9. TypeOK'
  <2>1. node' \in [Refs -> Nodes \cup {Unused, LeftBehind}]
    BY <1>2, <1>7
  <2>2. pages' \in [NodePages -> [used : 0 .. PageSlots, next : NodePages \cup {NoPage}]]
    <3>1. NotTaken \in [used : 0 .. PageSlots, next : NodePages \cup {NoPage}]
      BY BoundsAssumption DEF NotTaken
    <3> QED BY <1>6, <3>1
  <2>3. top' \in 1 .. MaxLevel
    BY <1>2, LevelNumbers
  <2> QED BY <1>2, <2>1, <2>2, <2>3 DEF TypeOK
<1>10. Live' = {}
  BY <1>2 DEF Live
<1>12. LevelsClosed(head', node') /\ LeavesNamed'
  BY <1>2, <1>8, <1>10 DEF LevelsClosed, Closes, Follow, Tall, LeavesNamed
<1>13. SlotsTaken'
  <2>1. \A r \in Refs : pages'[r[1]].used = 0 /\ ~(r[2] <= pages'[r[1]].used)
    BY <1>3, <1>5, <1>6
  <2> QED BY <1>7, <2>1 DEF SlotsTaken
<1>14. PagesChained'
  <2>1. {} \in SUBSET NodePages
    OBVIOUS
  <2>2. ChainedPages' = {}
    BY <1>2, <2>1 DEF ChainedPages
  <2> QED BY <1>6, <2>2 DEF PagesChained
<1> QED BY <1>8, <1>9, <1>10, <1>12, <1>13, <1>14 DEF WInv

\* A step that changes nothing keeps all of this.
LEMMA StutterKeepsWInv == WInv /\ UNCHANGED vars => WInv'
BY DEF WInv, vars, TypeOK, LeavesNamed, LevelsClosed, Closes, Follow, Tall, Placed, Live, SlotsTaken,
       PagesChained, ChainedPages

\* Every write keeps the pointers, the slots and the node pages in order.
LEMMA NextKeepsWInv == WInv /\ [Next]_vars => WInv'
<1> SUFFICES ASSUME WInv, [Next]_vars PROVE WInv'
  OBVIOUS
<1>1. ASSUME NEW l \in Leaves, NEW k \in Keys, DeleteFirst(l, k) PROVE WInv'
  BY <1>1, DeleteFirstKeepsWInv
<1>2. ASSUME NEW l \in Leaves, NEW k \in Keys, NEW height \in Heights, AddFirstLeaf(l, k, height)
      PROVE  WInv'
  BY <1>2, AddFirstLeafKeepsWInv
<1>3. ASSUME NEW l \in Leaves, NEW k \in Keys, NEW height \in Heights, AddLeaf(l, k, height)
      PROVE  WInv'
  BY <1>3, AddLeafKeepsWInv
<1>4. ASSUME NEW l \in Leaves, DeleteOnly(l) PROVE WInv'
  BY <1>4, DeleteOnlyKeepsWInv
<1>5. ASSUME NEW k \in Keys, PutInLeaf(k) PROVE WInv'
  BY <1>5, PutInLeafKeepsWInv
<1>6. ASSUME NEW h, NEW k \in Keys, NEW kept, NEW old,
             Cuts(h, kept, old, k), TruncateBefore(h, k, kept, old)
      PROVE  WInv'
  BY <1>6, TruncateBeforeKeepsWInv
<1>7. CASE SymbolDrop
  BY <1>7, SymbolDropKeepsWInv
<1>8. CASE UNCHANGED vars
  BY <1>8, StutterKeepsWInv
<1> QED BY <1>1, <1>2, <1>3, <1>4, <1>5, <1>6, <1>7, <1>8 DEF Next, Cuts

\* Sorted levels have their pointers in order.
LEMMA SoundIsWide == IInv => WInv
<1>1. NodesNamed => LeavesNamed
  BY DEF NodesNamed, LeavesNamed, Live
<1> QED BY <1>1, RowCloses DEF IInv, WInv, RowsSound, LevelsClosed

\* skiplist_splice of a node behind the nodes in front of its key.
LEMMA SpliceSound ==
  ASSUME IInv, NEW l \in Leaves, l \notin Live, NEW k \in Keys,
         \A m \in Live : firstKey[m] # k,
         NEW height \in Heights, NEW pred,
         \A i \in Levels : InFront(k, FALSE, i, pred[i]),
         firstKey' = [firstKey EXCEPT ![l] = k],
         IF Live = {} THEN first' = l ELSE first' = first /\ \E m \in Live : firstKey[m] < k,
         Splice(l, k, height, pred)
  PROVE  IInv'
<1> DEFINE N == Placed(node)
           N2 == Placed(node')
<1>1. /\ \E r : Spliced(r, l, k, height, pred)
      /\ node' \in [Refs -> Nodes \cup {Unused, LeftBehind}]
      /\ head' \in [Levels -> Refs \cup {Nil}] /\ top' \in 1 .. MaxLevel
      /\ backRef' \in [Leaves -> Refs \cup {Nil}]
      /\ pages' \in [NodePages -> [used : 0 .. PageSlots, next : NodePages \cup {NoPage}]]
      /\ current' \in NodePages
      /\ SlotsTaken' /\ PagesChained'
  BY SoundIsWide, SplicesNode DEF InFront
<1>3. PICK r : Spliced(r, l, k, height, pred)
  BY <1>1
<1>2. TypeOK /\ NodesNamed /\ KeysDistinct /\ FirstSound /\ RowsSound
  BY DEF IInv
<1>4. N = {x \in Refs : node[x] \in Nodes} /\ r \in Refs /\ r \notin N /\ r # Nil
  BY <1>2, <1>3, PlacedNodes, NilIsNoRef DEF TypeOK, Spliced
<1>6. /\ node'[r].key = k /\ node'[r].leaf = l /\ node'[r].level = height
      /\ \A i \in Levels : i < height => node'[r].forward[i] = Forward(pred[i], i)
  BY <1>3 DEF Spliced
<1>7. \A x \in N : /\ node'[x].key = node[x].key /\ node'[x].leaf = node[x].leaf
                   /\ node'[x].level = node[x].level
  BY <1>3 DEF Spliced
<1>8. \A i \in Levels : \A x \in N \cup {Nil} :
        Follow(head', node', x, i) = IF i < height /\ x = pred[i] THEN r ELSE Follow(head, node, x, i)
  BY <1>3 DEF Spliced, Forward
<1>9. backRef' = [backRef EXCEPT ![l] = r] /\ top' = IF height > top THEN height ELSE top
  BY <1>3 DEF Spliced
<1>11. N2 = N \cup {r}
  BY <1>3 DEF Spliced
<1>12. top \in Nat /\ height \in Nat /\ top <= MaxLevel /\ top >= 1
  BY <1>2, LevelNumbers DEF TypeOK
<1>13. TypeOK'
  <2>1. firstKey' \in [Leaves -> Keys \cup {NoKey}] /\ first' \in Leaves \cup {NoLeaf}
    BY <1>2 DEF TypeOK
  <2> QED BY <1>1, <2>1 DEF TypeOK
<1>14. /\ \A m \in Leaves : firstKey'[m] = IF m = l THEN k ELSE firstKey[m]
       /\ \A m \in Leaves : backRef'[m] = IF m = l THEN r ELSE backRef[m]
       /\ k \in Nat /\ k # NoKey
  BY <1>2, <1>9, KeysAssumption DEF TypeOK, NoKey
<1>15. Live' = Live \cup {l}
  BY <1>14 DEF Live
<1>16. NodesNamed'
  <2>1. ASSUME NEW m \in Leaves
        PROVE  IF firstKey'[m] = NoKey THEN backRef'[m] = Nil
               ELSE /\ backRef'[m] \in N2
                    /\ node'[backRef'[m]].leaf = m /\ node'[backRef'[m]].key = firstKey'[m]
    <3>1. CASE m = l
      BY <1>6, <1>11, <1>14, <3>1
    <3>2. CASE m # l
      <4>1. IF firstKey[m] = NoKey THEN backRef[m] = Nil
            ELSE /\ backRef[m] \in N
                 /\ node[backRef[m]].leaf = m /\ node[backRef[m]].key = firstKey[m]
        BY <1>2 DEF NodesNamed
      <4>2. firstKey'[m] = firstKey[m] /\ backRef'[m] = backRef[m]
        BY <1>14, <3>2
      <4> QED BY <1>7, <1>11, <4>1, <4>2
    <3> QED BY <3>1, <3>2
  <2>2. ASSUME NEW x \in N2 PROVE node'[x].leaf \in Live' /\ backRef'[node'[x].leaf] = x
    <3>1. CASE x = r
      BY <1>6, <1>14, <1>15, <3>1
    <3>2. CASE x \in N
      <4>1. node[x].leaf \in Live /\ backRef[node[x].leaf] = x
        BY <1>2, <3>2 DEF NodesNamed
      <4>2. node[x].leaf # l /\ node[x].leaf \in Leaves
        BY <4>1 DEF Live
      <4>3. node'[x].leaf = node[x].leaf
        BY <1>7, <3>2
      <4> QED BY <1>14, <1>15, <4>1, <4>2, <4>3
    <3> QED BY <1>11, <3>1, <3>2
  <2> QED BY <2>1, <2>2 DEF NodesNamed
<1>17. KeysDistinct'
  <2>1. SUFFICES ASSUME NEW m \in Live', NEW q \in Live', firstKey'[m] = firstKey'[q] PROVE m = q
    BY DEF KeysDistinct
  <2>2. m \in Leaves /\ q \in Leaves
    BY DEF Live
  <2>3. CASE m = l \/ q = l
    BY <1>14, <1>15, <2>1, <2>2, <2>3
  <2>4. CASE m # l /\ q # l
    BY <1>2, <1>14, <1>15, <2>1, <2>2, <2>4 DEF KeysDistinct
  <2> QED BY <2>3, <2>4
<1>19. RowsSound'
  <2>1. ASSUME NEW x \in N2 PROVE node'[x].level <= top'
    <3>1. CASE x = r
      BY <1>6, <1>9, <1>12, <3>1
    <3>2. CASE x \in N
      <4>1. node'[x].level = node[x].level /\ node[x].level <= top /\ node[x].level \in Nat
        BY <1>2, <1>4, <1>7, <3>2, NodeFields, LevelNumbers DEF RowsSound
      <4> QED BY <1>9, <1>12, <4>1
    <3> QED BY <1>11, <3>1, <3>2
  <2>2. ASSUME NEW i \in Levels PROVE Row(head', node', Tall(node', i), i)
    <3> DEFINE T == Tall(node, i)
               p == pred[i]
    <3>1. T \in SUBSET N /\ T \in SUBSET Refs /\ Keyed(node, T)
      <4>1. T \in SUBSET N
        BY DEF Tall
      <4> QED BY <1>2, <4>1, NodesKeyed
    <3>2. Row(head, node, T, i)
      BY <1>2 DEF RowsSound
    <3>3. p \in T \cup {Nil} /\ \A x \in T : Ahead(node, p, x) <=> node[x].key > k
      BY DEF InFront, StopsAt
    <3>4. \A x \in T : node'[x].key = node[x].key /\ node[x].key \in Nat
      BY <1>7, <3>1 DEF Keyed
    <3>5. ASSUME NEW x \in T \cup {Nil}
          PROVE  Follow(head', node', x, i) = IF i < height /\ x = p THEN r ELSE Follow(head, node, x, i)
      BY <1>8, <3>1
    <3>6. Tall(node', i) = IF i < height THEN T \cup {r} ELSE T
      <4>1. \A x \in N : node'[x].level = node[x].level
        BY <1>7
      <4>2. node'[r].level > i <=> i < height
        BY <1>6, LevelNumbers
      <4> HIDE DEF N, N2
      <4>3. Tall(node', i) = {x \in N \cup {r} : node'[x].level > i} /\ T = {x \in N : node[x].level > i}
        BY <1>11 DEF Tall, N, N2
      <4> HIDE DEF T
      <4> QED BY <4>1, <4>2, <4>3
    <3>7. CASE i < height
      <4>1. Follow(head', node', r, i) = Follow(head, node, p, i)
        BY <1>4, <1>6, <3>7 DEF Follow, Forward
      <4>2. node'[r].key = k /\ k \in Nat
        BY <1>6, <1>14
      <4>3. \A x \in T : node[x].key # k
        <5> TAKE x \in T
        <5>1. node[x].leaf \in Live /\ backRef[node[x].leaf] = x
          BY <1>2, <3>1 DEF NodesNamed
        <5>2. node[x].key = firstKey[node[x].leaf]
          BY <1>2, <5>1 DEF NodesNamed, Live
        <5> QED BY <5>1, <5>2
      <4>4. Keyed(node', T \cup {r})
        BY <1>4, <3>1, <3>4, <4>2, <4>3 DEF Keyed
      <4>5. \A x \in T : Ahead(node, p, x) <=> node'[r].key < node[x].key
        BY <3>3, <3>4, <4>2
      <4>6. \A x \in T \cup {Nil} :
              Follow(head', node', x, i) = IF x = p THEN r ELSE Follow(head, node, x, i)
        BY <3>5, <3>7
      <4>7. r \notin T /\ p \in T \cup {Nil}
        BY <1>4, <3>1, <3>3
      <4> HIDE DEF T, p
      <4>8. Row(head', node', T \cup {r}, i)
        BY <1>4, <3>1, <3>2, <3>4, <4>1, <4>4, <4>5, <4>6, <4>7, RowSpliced
      <4> QED BY <3>6, <3>7, <4>8
    <3>8. CASE ~(i < height)
      <4>1. \A x \in T \cup {Nil} : Follow(head', node', x, i) = Follow(head, node, x, i)
        BY <3>5, <3>8
      <4>2. Row(head', node', T, i)
        BY <3>1, <3>2, <3>4, <4>1, RowCopied
      <4> QED BY <3>6, <3>8, <4>2
    <3> QED BY <3>7, <3>8
  <2> QED BY <2>1, <2>2 DEF RowsSound
<1>20. FirstSound'
  <2>1. CASE Live = {}
    BY <1>14, <1>15, <2>1 DEF FirstSound, Before
  <2>2. CASE Live # {}
    <3>1. PICK m \in Live : firstKey[m] < k
      BY <2>2
    <3>2. first \in Live /\ first' = first /\ \A q \in Live : ~(firstKey[q] < firstKey[first])
      BY <1>2, <2>2 DEF FirstSound, Before
    <3>3. \A q \in Live : q \in Leaves /\ q # l /\ firstKey[q] \in Nat
      BY <1>2, KeysAssumption DEF TypeOK, Live
    <3>4. ~(k < firstKey[first])
      BY <1>14, <3>1, <3>2, <3>3
    <3>5. \A q \in Live' : ~(firstKey'[q] < firstKey'[first'])
      BY <1>14, <1>15, <3>2, <3>3, <3>4
    <3> QED BY <1>15, <3>2, <3>5 DEF FirstSound, Before
  <2> QED BY <2>1, <2>2
<1> QED BY <1>1, <1>13, <1>16, <1>17, <1>19, <1>20 DEF IInv

\* AddFirstLeaf keeps the invariant: the list was empty.
LEMMA AddFirstLeafSound ==
  ASSUME IInv, NEW l \in Leaves, NEW k \in Keys, NEW height \in Heights,
         AddFirstLeaf(l, k, height)
  PROVE  IInv'
<1> DEFINE pred == [i \in Levels |-> Nil]
<1>1. /\ Live = {} /\ firstKey' = [firstKey EXCEPT ![l] = k] /\ first' = l
      /\ Splice(l, k, height, pred)
  BY DEF AddFirstLeaf
<1>2. Placed(node) = {}
  BY <1>1 DEF IInv, NodesNamed
<1>3. \A i \in Levels : InFront(k, FALSE, i, pred[i])
  BY <1>2 DEF InFront, Tall
<1> HIDE DEF pred
<1> QED BY <1>1, <1>3, SpliceSound

\* What AddLeaf does to the first keys, where no late record is written and no
\* leaf of one record splits: the new leaf has the key of its node.
LEMMA AddedBehind ==
  ASSUME AllWrites = FALSE, IInv, NEW l \in Leaves, NEW k \in Keys, NEW height \in Heights,
         AddLeaf(l, k, height)
  PROVE  /\ l \notin Live /\ \A m \in Live : firstKey[m] # k
         /\ \E m \in Live : firstKey[m] < k
         /\ firstKey' = [firstKey EXCEPT ![l] = k] /\ first' = first
<1>1. PICK m \in Live, keys \in Keys \X Keys :
        /\ KeyedAlike(m, k, keys)
        /\ firstKey' = [firstKey EXCEPT ![m] = keys[1], ![l] = keys[2]]
  BY DEF AddLeaf
<1>2. keys[1] = firstKey[m] /\ keys[2] = k /\ firstKey[m] < k /\ FitsIn(m, k)
  BY <1>1 DEF KeyedAlike
<1>3. l \notin Live /\ first' = first
  BY DEF AddLeaf
<1>4. TypeOK /\ m \in Leaves /\ k \in Nat /\ \A q \in Live : firstKey[q] \in Nat
  BY KeysAssumption DEF IInv, TypeOK, Live
<1>5. ASSUME NEW q \in Live PROVE firstKey[q] # k
  <2>1. CASE firstKey[m] < firstKey[q]
    BY <1>2, <1>4, <2>1 DEF FitsIn, Before
  <2>2. CASE ~(firstKey[m] < firstKey[q])
    BY <1>2, <1>4, <2>2
  <2> QED BY <2>1, <2>2
<1>6. firstKey' = [firstKey EXCEPT ![l] = k]
  BY <1>1, <1>2, <1>3, <1>4 DEF TypeOK
<1> QED BY <1>2, <1>3, <1>5, <1>6

\* AddLeaf keeps the invariant.
LEMMA AddLeafSound ==
  ASSUME AllWrites = FALSE, IInv, NEW l \in Leaves, NEW k \in Keys, NEW height \in Heights,
         AddLeaf(l, k, height)
  PROVE  IInv'
<1>1. k \in Nat
  BY KeysAssumption
<1>2. \A i \in Levels : InFront(k, FALSE, i, Preds(k, FALSE)[i])
  BY <1>1, PredsInFront
<1>3. /\ l \notin Live /\ \A m \in Live : firstKey[m] # k
      /\ \E m \in Live : firstKey[m] < k
      /\ firstKey' = [firstKey EXCEPT ![l] = k] /\ first' = first
  BY AddedBehind
<1>4. Splice(l, k, height, Preds(k, FALSE))
  BY DEF AddLeaf
<1> QED BY <1>2, <1>3, <1>4, SpliceSound

\* What PutInLeaf does where no late record is written: nothing that the model
\* keeps of a leaf.
LEMMA PutChangesNothing ==
  ASSUME AllWrites = FALSE, TypeOK, NEW k \in Keys, PutInLeaf(k)
  PROVE  UNCHANGED vars
<1>1. PICK m \in Live : /\ firstKey[m] <= k
                         /\ firstKey' = [firstKey EXCEPT ![m] = Min({firstKey[m], k})]
  BY DEF PutInLeaf
<1>2. m \in Leaves /\ firstKey[m] \in Nat /\ k \in Nat
  BY KeysAssumption DEF Live, TypeOK
<1>3. Min({firstKey[m], k}) = firstKey[m]
  BY <1>1, <1>2, MinOfTwo
<1>4. firstKey' = firstKey
  BY <1>1, <1>2, <1>3 DEF TypeOK
<1> QED BY <1>4 DEF PutInLeaf, vars

\* The nodes N make up the levels.
RowsOf(h, n, N) == \A i \in Levels : Row(h, n, {x \in N : n[x].level > i}, i)

\* When the nodes that no level links any more go, the others stay as they are.
LEMMA LeaveBehindSound ==
  ASSUME NEW h, NEW n, n \in [Refs -> Nodes \cup {Unused, LeftBehind}],
         NEW N \in SUBSET Placed(n), Keyed(n, N), RowsOf(h, n, N),
         NEW gone, gone = Placed(n) \ N,
         NEW m, m = LeaveBehind(h, n, gone)
  PROVE  /\ m \in [Refs -> Nodes \cup {Unused, LeftBehind}]
         /\ Placed(m) = N /\ \A x \in N : m[x] = n[x]
         /\ \A i \in Levels : Row(h, m, Tall(m, i), i)
         /\ \A x \in N : m[x].level <= Tallest(h)
<1> DEFINE T(i) == {x \in N : n[x].level > i}
<1>1. \A x \in N : x \in Refs /\ n[x] \in Nodes /\ n[x].level \in Heights /\ n[x].level > 0
  BY PlacedNodes, NodeFields, LevelNumbers
<1>2. ASSUME NEW i \in Levels PROVE Keyed(n, T(i)) /\ Row(h, n, T(i), i)
  BY DEF Keyed, RowsOf
<1>3. ASSUME NEW i \in Levels, NEW r \in {x \in Placed(n) \ gone : n[x].level > i} \cup {Nil}
      PROVE  Follow(h, n, r, i) \notin gone
  <2>1. r \in T(i) \cup {Nil}
    OBVIOUS
  <2>2. Row(h, n, T(i), i) /\ T(i) \subseteq N /\ Nil \notin gone
    BY <1>2, NilIsNoRef DEF Placed
  <2> HIDE DEF T
  <2> QED BY <2>1, <2>2 DEF Row, NextIn
<1>4. m = [x \in Refs |-> IF x \in gone THEN LeftBehind ELSE n[x]]
  BY <1>3 DEF LeaveBehind
<1>5. \A x \in Refs : m[x] = IF x \in gone THEN LeftBehind ELSE n[x]
  BY <1>4
<1>6. \A x \in N : m[x] = n[x]
  BY <1>1, <1>5
<1>7. m \in [Refs -> Nodes \cup {Unused, LeftBehind}]
  <2>1. \A x \in Refs : m[x] \in Nodes \cup {Unused, LeftBehind}
    BY <1>5
  <2> QED BY <1>4, <2>1
<1>8. Placed(m) = N
  <2>1. Placed(m) = {x \in Refs : m[x] \in Nodes}
    BY <1>7, PlacedNodes
  <2>2. Placed(n) = {x \in Refs : n[x] \in Nodes}
    BY PlacedNodes
  <2>3. \A x \in Refs : x \in gone <=> n[x] \in Nodes /\ x \notin N
    BY <2>2
  <2> QED BY <1>1, <1>5, <2>1, <2>3, MarksAreNoNodes
<1>10. ASSUME NEW i \in Levels PROVE Row(h, m, Tall(m, i), i)
  <2>1. Tall(m, i) = T(i)
    BY <1>6, <1>8 DEF Tall
  <2>2. Row(h, n, T(i), i) /\ Keyed(n, T(i))
    BY <1>2
  <2>3. \A x \in T(i) : m[x] = n[x]
    BY <1>6
  <2>4. \A x \in T(i) : m[x].key = n[x].key
    BY <2>3
  <2>5. \A x \in T(i) \cup {Nil} : Follow(h, m, x, i) = Follow(h, n, x, i)
    BY <2>3 DEF Follow
  <2> HIDE DEF T
  <2>6. Row(h, m, T(i), i)
    BY <2>2, <2>4, <2>5, RowCopied
  <2> QED BY <2>1, <2>6
<1>11. ASSUME NEW x \in N PROVE m[x].level <= Tallest(h)
  <2> DEFINE i == n[x].level - 1
  <2>1. i \in Levels /\ n[x].level > i /\ i + 1 = n[x].level
    BY <1>1, LevelNumbers
  <2>2. x \in T(i) /\ Row(h, n, T(i), i)
    BY <2>1 DEF RowsOf
  <2> HIDE DEF T, i
  <2>3. NextIn(n, T(i), Nil, Follow(h, n, Nil, i))
    BY <2>2 DEF Row
  <2>4. h[i] # Nil
    BY <2>2, <2>3 DEF NextIn, Ahead, Follow
  <2>5. i + 1 <= Tallest(h)
    BY <2>1, <2>4, TallestLevel
  <2> QED BY <1>6, <2>1, <2>5
<1> QED BY <1>6, <1>7, <1>8, <1>10, <1>11

\* DeleteFirst keeps the invariant: the new key stays in front of the next.
LEMMA DeleteFirstSound ==
  ASSUME AllWrites = FALSE, IInv, NEW l \in Leaves, NEW k \in Keys, DeleteFirst(l, k)
  PROVE  IInv'
<1> DEFINE r == backRef[l]
           N == Placed(node)
<1>1. TypeOK /\ NodesNamed /\ KeysDistinct /\ FirstSound /\ RowsSound /\ SlotsTaken /\ PagesChained
  BY DEF IInv
<1>2. /\ l \in Live /\ firstKey[l] < k /\ \A m \in Live : Before(l, m) => k < firstKey[m]
      /\ firstKey' = [firstKey EXCEPT ![l] = k]
      /\ node' = [node EXCEPT ![r].key = k]
      /\ UNCHANGED <<first, backRef, head, top, pages, current>>
  BY DEF DeleteFirst, Rekeyed, FitsIn
<1>3. r \in N /\ node[r].leaf = l /\ node[r].key = firstKey[l]
  BY <1>1, <1>2 DEF NodesNamed, Live
<1>4. N = {x \in Refs : node[x] \in Nodes}
  BY <1>1, PlacedNodes DEF TypeOK
<1>5. \A x \in Refs : node'[x] = IF x = r THEN [node[r] EXCEPT !.key = k] ELSE node[x]
  BY <1>1, <1>2, <1>3, <1>4 DEF TypeOK
<1>6. /\ node'[r] \in Nodes /\ node'[r].key = k /\ node'[r].leaf = node[r].leaf
      /\ node'[r].level = node[r].level /\ node'[r].forward = node[r].forward
  <2>1. node'[r] = [node[r] EXCEPT !.key = k] /\ node[r] \in Nodes
    BY <1>3, <1>4, <1>5
  <2> HIDE DEF r
  <2> QED BY <2>1 DEF Nodes
<1>7. node' \in [Refs -> Nodes \cup {Unused, LeftBehind}]
  <2>1. \A x \in Refs : node'[x] \in Nodes \cup {Unused, LeftBehind}
    BY <1>1, <1>5, <1>6 DEF TypeOK
  <2> QED BY <1>1, <1>2, <2>1 DEF TypeOK
<1>8. Placed(node') = N
  <2>1. Placed(node') = {x \in Refs : node'[x] \in Nodes}
    BY <1>7, PlacedNodes
  <2> QED BY <1>3, <1>4, <1>5, <1>6, <2>1
<1>9. /\ \A m \in Leaves : firstKey'[m] = IF m = l THEN k ELSE firstKey[m]
      /\ k \in Nat /\ k # NoKey /\ backRef' = backRef
  BY <1>1, <1>2, KeysAssumption DEF TypeOK, NoKey
<1>10. Live' = Live
  BY <1>2, <1>9 DEF Live
<1>11. \A m \in Live : firstKey[m] \in Nat /\ m \in Leaves
  BY <1>1, KeysAssumption DEF Live, TypeOK
<1>12. \A m \in Live : m # l => (k < firstKey[m] \/ firstKey[m] < firstKey[l])
  <2> TAKE m \in Live
  <2> HAVE m # l
  <2>1. firstKey[m] # firstKey[l]
    BY <1>1, <1>2 DEF KeysDistinct
  <2>2. CASE firstKey[l] < firstKey[m]
    BY <1>2, <2>2 DEF Before
  <2>3. CASE ~(firstKey[l] < firstKey[m])
    BY <1>2, <1>11, <2>1, <2>3
  <2> QED BY <2>2, <2>3
<1>13. \A m, q \in Live : firstKey[m] < firstKey[q] <=> firstKey'[m] < firstKey'[q]
  <2> TAKE m, q \in Live
  <2>1. /\ firstKey[m] \in Nat /\ firstKey[q] \in Nat /\ firstKey[l] \in Nat /\ m \in Leaves /\ q \in Leaves
    BY <1>2, <1>11
  <2>2. /\ firstKey'[m] = IF m = l THEN k ELSE firstKey[m]
        /\ firstKey'[q] = IF q = l THEN k ELSE firstKey[q]
    BY <1>9, <2>1
  <2>3. /\ m # l => (k < firstKey[m] \/ firstKey[m] < firstKey[l])
        /\ q # l => (k < firstKey[q] \/ firstKey[q] < firstKey[l])
    BY <1>12
  <2> QED BY <1>2, <1>9, <2>1, <2>2, <2>3
<1>14. WInv'
  BY SoundIsWide, DeleteFirstKeepsWInv
<1>15. \A x \in N : node'[x].leaf = node[x].leaf /\ node'[x].level = node[x].level
                    /\ node'[x].forward = node[x].forward
  BY <1>4, <1>5, <1>6
<1>16. \A x \in N : node[x].leaf \in Live /\ backRef[node[x].leaf] = x
  BY <1>1 DEF NodesNamed
<1>17. ASSUME NEW m \in Leaves
       PROVE  IF firstKey'[m] = NoKey THEN backRef'[m] = Nil
              ELSE /\ backRef'[m] \in Placed(node')
                   /\ node'[backRef'[m]].leaf = m /\ node'[backRef'[m]].key = firstKey'[m]
  <2>1. CASE m = l
    BY <1>3, <1>6, <1>8, <1>9, <2>1
  <2>2. CASE m # l
    <3>1. IF firstKey[m] = NoKey THEN backRef[m] = Nil
          ELSE backRef[m] \in N /\ node[backRef[m]].leaf = m /\ node[backRef[m]].key = firstKey[m]
      BY <1>1 DEF NodesNamed
    <3>2. firstKey[m] # NoKey => backRef[m] # r
      BY <1>3, <2>2, <3>1
    <3> QED BY <1>4, <1>5, <1>8, <1>9, <2>2, <3>1, <3>2
  <2> QED BY <2>1, <2>2
<1>18. NodesNamed'
  BY <1>8, <1>9, <1>10, <1>15, <1>16, <1>17 DEF NodesNamed
<1>19. KeysDistinct'
  <2>1. SUFFICES ASSUME NEW m \in Live, NEW q \in Live, firstKey'[m] = firstKey'[q] PROVE m = q
    BY <1>10 DEF KeysDistinct
  <2>2. ~(firstKey'[m] < firstKey'[q]) /\ ~(firstKey'[q] < firstKey'[m])
    BY <1>9, <1>11, <2>1
  <2>3. ~(firstKey[m] < firstKey[q]) /\ ~(firstKey[q] < firstKey[m])
    BY <1>13, <2>2
  <2>4. firstKey[m] = firstKey[q]
    BY <1>11, <2>3
  <2> QED BY <1>1, <2>4 DEF KeysDistinct
<1>22. \A x \in N : node[x].key = firstKey[node[x].leaf] /\ node'[x].key = firstKey'[node[x].leaf]
  <2> TAKE x \in N
  <2>1. node[x].leaf \in Live /\ node[x].leaf \in Leaves /\ backRef[node[x].leaf] = x
    BY <1>11, <1>16
  <2>2. firstKey[node[x].leaf] # NoKey /\ firstKey'[node[x].leaf] # NoKey
    BY <1>10, <2>1 DEF Live
  <2>3. node[backRef[node[x].leaf]].key = firstKey[node[x].leaf]
    BY <1>1, <2>1, <2>2 DEF NodesNamed
  <2>4. node'[backRef'[node[x].leaf]].key = firstKey'[node[x].leaf]
    BY <1>17, <2>1, <2>2
  <2> QED BY <1>9, <2>1, <2>3, <2>4
<1>23. RowsSound'
  <2>1. \A x \in Placed(node') : node'[x].level <= top'
    BY <1>1, <1>2, <1>8, <1>15 DEF RowsSound
  <2>2. ASSUME NEW i \in Levels PROVE Row(head', node', Tall(node', i), i)
    <3> DEFINE T == Tall(node, i)
    <3>1. Tall(node', i) = T
      BY <1>8, <1>15 DEF Tall
    <3>2. T \in SUBSET N /\ Keyed(node, T)
      <4>1. T \in SUBSET N
        BY DEF Tall
      <4> QED BY <1>1, <4>1, NodesKeyed
    <3>3. SameOrder(node, node', T)
      <4>1. SUFFICES ASSUME NEW x \in T, NEW y \in T
                     PROVE  node[x].key < node[y].key <=> node'[x].key < node'[y].key
        BY DEF SameOrder
      <4>2. /\ node[x].key = firstKey[node[x].leaf] /\ node'[x].key = firstKey'[node[x].leaf]
            /\ node[y].key = firstKey[node[y].leaf] /\ node'[y].key = firstKey'[node[y].leaf]
            /\ node[x].leaf \in Live /\ node[y].leaf \in Live
        BY <1>16, <1>22, <3>2
      <4> QED BY <1>13, <4>2
    <3>4. Keyed(node', T)
      <4>1. \A x \in T : node'[x].key \in Nat
        BY <1>4, <1>5, <1>6, <1>9, <3>2 DEF Keyed
      <4>2. ASSUME NEW x \in T, NEW y \in T, node'[x].key = node'[y].key PROVE x = y
        <5>1. ~(node'[x].key < node'[y].key) /\ ~(node'[y].key < node'[x].key)
          BY <4>1, <4>2
        <5>2. ~(node[x].key < node[y].key) /\ ~(node[y].key < node[x].key)
          BY <3>3, <5>1 DEF SameOrder
        <5> QED BY <3>2, <5>2 DEF Keyed
      <4> QED BY <3>2, <4>1, <4>2 DEF Keyed
    <3>5. Row(head, node, T, i)
      BY <1>1 DEF RowsSound
    <3>6. \A x \in T \cup {Nil} : Follow(head', node', x, i) = Follow(head, node, x, i)
      BY <1>2, <1>15, <3>2 DEF Follow
    <3>7. \A x \in T \cup {Nil} : NextIn(node, T, x, Follow(head', node', x, i))
      BY <3>5, <3>6 DEF Row
    <3> HIDE DEF T
    <3> QED BY <3>1, <3>2, <3>3, <3>4, <3>7, RowRekeyed
  <2> QED BY <2>1, <2>2 DEF RowsSound
<1>24. FirstSound'
  BY <1>1, <1>2, <1>10, <1>13 DEF FirstSound, Before
<1> QED BY <1>14, <1>18, <1>19, <1>23, <1>24 DEF IInv, WInv

\* DeleteOnly keeps the invariant: the node in front of the one that goes, on
\* every level that links it, is the one a strict descent finds.
LEMMA DeleteOnlySound ==
  ASSUME AllWrites = FALSE, IInv, NEW l \in Leaves, DeleteOnly(l)
  PROVE  IInv'
<1> DEFINE r == backRef[l]
           N == Placed(node)
           M == N \ {r}
           pred == Preds(node[r].key, TRUE)
           past(i, p, f) == IF i \in UnlinkedLevels(r) /\ pred[i] = p /\ f = r
                            THEN node[r].forward[i] ELSE f
           nodes == [x \in Refs |->
             IF ~IsNode(x) THEN node[x]
             ELSE [node[x] EXCEPT !.leaf = IF x = r THEN NoLeaf ELSE @,
                                  !.forward = [i \in Levels |-> past(i, x, @[i])]]]
           gone == {x \in N : x = r \/ node[x].leaf = NoLeaf}
<1>1. TypeOK /\ NodesNamed /\ KeysDistinct /\ FirstSound /\ RowsSound /\ SlotsTaken /\ PagesChained
  BY DEF IInv
<1>2. /\ l \in Live /\ firstKey' = [firstKey EXCEPT ![l] = NoKey]
      /\ first' \in IF first = l THEN Fronts(Live \ {l}) ELSE {first}
      /\ backRef' = [backRef EXCEPT ![l] = Nil]
      /\ head' = [i \in Levels |-> past(i, Nil, head[i])]
      /\ node' = LeaveBehind(head', nodes, gone)
      /\ top' = Tallest(head')
      /\ UNCHANGED <<pages, current>>
  BY DEF DeleteOnly, UnlinkNode
<1>3. r \in N /\ node[r].leaf = l /\ node[r].key = firstKey[l]
  BY <1>1, <1>2 DEF NodesNamed, Live
<1>4. N = {x \in Refs : node[x] \in Nodes} /\ \A x \in N : x \in Refs /\ x # Nil
  BY <1>1, PlacedNodes, NilIsNoRef DEF TypeOK
<1>5. node[r].key \in Nat /\ node[r].forward \in [Levels -> Refs \cup {Nil}]
      /\ node[r].level \in Heights
  BY <1>3, <1>4, NodeFields
<1>6. \A i \in Levels : InFront(node[r].key, TRUE, i, pred[i])
  BY <1>5, PredsInFront
<1>7. \A i \in Levels : i \in UnlinkedLevels(r) <=> i < node[r].level
  BY <1>5, LevelNumbers DEF UnlinkedLevels, Levels
<1> HIDE DEF pred
<1>8. ASSUME NEW x \in N
      PROVE  /\ nodes[x] \in Nodes
             /\ nodes[x].key = node[x].key /\ nodes[x].level = node[x].level
             /\ x # r => nodes[x].leaf = node[x].leaf
             /\ \A i \in Levels : nodes[x].forward[i] = past(i, x, node[x].forward[i])
  <2> DEFINE f == [i \in Levels |-> past(i, x, node[x].forward[i])]
             leaf == IF x = r THEN NoLeaf ELSE node[x].leaf
  <2>1. x \in Refs /\ node[x] \in Nodes
    BY <1>4
  <2>2. nodes[x] = [node[x] EXCEPT !.leaf = leaf, !.forward = f]
    BY <2>1 DEF IsNode
  <2>3. f \in [Levels -> Refs \cup {Nil}]
    BY <1>5, <2>1, NodeFields
  <2>4. leaf \in Leaves \cup {NoLeaf} /\ (x # r => leaf = node[x].leaf)
    BY <2>1, NodeFields
  <2>5. \A i \in Levels : f[i] = past(i, x, node[x].forward[i])
    OBVIOUS
  <2> HIDE DEF f, leaf, nodes, past
  <2>6. /\ nodes[x] \in Nodes /\ nodes[x].key = node[x].key /\ nodes[x].level = node[x].level
        /\ nodes[x].leaf = leaf /\ nodes[x].forward = f
    BY <2>1, <2>2, <2>3, <2>4 DEF Nodes
  <2> QED BY <2>4, <2>5, <2>6
<1>9. \A x \in Refs : x \notin N => nodes[x] = node[x]
  BY DEF IsNode
<1>10. nodes \in [Refs -> Nodes \cup {Unused, LeftBehind}]
  <2>1. nodes = [x \in Refs |-> nodes[x]]
    OBVIOUS
  <2>2. \A x \in Refs : nodes[x] \in Nodes \cup {Unused, LeftBehind}
    <3> HIDE DEF nodes
    <3> QED BY <1>1, <1>8, <1>9 DEF TypeOK
  <2> HIDE DEF nodes
  <2> QED BY <2>1, <2>2
<1> HIDE DEF nodes
<1>11. Placed(nodes) = N
  <2>1. Placed(nodes) = {x \in Refs : nodes[x] \in Nodes}
    BY <1>10, PlacedNodes
  <2> QED BY <1>4, <1>8, <1>9, <2>1
<1>13. ASSUME NEW i \in Levels
       PROVE  Row(head', nodes, {x \in M : nodes[x].level > i}, i)
  <2> DEFINE T == Tall(node, i)
             p == pred[i]
             U == {x \in M : nodes[x].level > i}
  <2>1. T \in SUBSET N /\ T \in SUBSET Refs /\ Keyed(node, T)
    <3>1. T \in SUBSET N
      BY DEF Tall
    <3> QED BY <1>1, <3>1, NodesKeyed
  <2>2. Row(head, node, T, i)
    BY <1>1 DEF RowsSound
  <2>3. p \in T \cup {Nil} /\ \A x \in T : Ahead(node, p, x) <=> node[x].key >= node[r].key
    BY <1>6 DEF InFront, StopsAt
  <2>4. U = T \ {r}
    BY <1>8 DEF Tall
  <2>5. ASSUME NEW x \in T \cup {Nil}
        PROVE  Follow(head', nodes, x, i) = past(i, x, Follow(head, node, x, i))
    <3>1. CASE x = Nil
      <4>1. head'[i] = past(i, Nil, head[i])
        BY <1>2
      <4> HIDE DEF past
      <4> QED BY <3>1, <4>1 DEF Follow
    <3>2. CASE x # Nil
      <4>1. nodes[x].forward[i] = past(i, x, node[x].forward[i])
        BY <1>8, <2>1, <3>2
      <4> HIDE DEF past
      <4> QED BY <3>2, <4>1 DEF Follow
    <3> QED BY <3>1, <3>2
  <2>6. \A x \in T : nodes[x].key = node[x].key
    BY <1>8, <2>1
  <2>7. r # Nil
    BY <1>3, <1>4
  <2>8. CASE i < node[r].level
    <3>1. r \in T
      BY <1>3, <1>5, <2>8, LevelNumbers DEF Tall
    <3>2. \A x \in T : Ahead(node, p, x) <=> node[r].key <= node[x].key
      BY <1>5, <2>1, <2>3 DEF Keyed
    <3>3. Follow(head, node, r, i) = node[r].forward[i]
      BY <2>7 DEF Follow
    <3>4. \A x \in (T \ {r}) \cup {Nil} :
            Follow(head', nodes, x, i) = IF x = p /\ Follow(head, node, x, i) = r
                                         THEN Follow(head, node, r, i)
                                         ELSE Follow(head, node, x, i)
      BY <1>7, <2>5, <2>8, <3>3
    <3>5. p \in T \cup {Nil}
      BY <2>3
    <3> HIDE DEF T, U, p, r, past
    <3>6. Row(head', nodes, T \ {r}, i)
      BY <2>1, <2>2, <2>6, <3>1, <3>2, <3>4, <3>5, RowUnlinked
    <3> QED BY <2>4, <3>6 DEF U
  <2>9. CASE ~(i < node[r].level)
    <3>1. r \notin T
      BY <1>5, <2>9, LevelNumbers DEF Tall
    <3>2. \A x \in T \cup {Nil} : Follow(head', nodes, x, i) = Follow(head, node, x, i)
      BY <1>7, <2>5, <2>9
    <3> HIDE DEF T, U, p, r, past
    <3>3. Row(head', nodes, T, i)
      BY <2>1, <2>2, <2>6, <3>2, RowCopied
    <3>4. U = T
      BY <2>4, <3>1
    <3> QED BY <3>3, <3>4 DEF U
  <2> QED BY <2>8, <2>9
<1> HIDE DEF past
<1>14. Keyed(nodes, M) /\ M \in SUBSET Placed(nodes)
  <2>1. M \in SUBSET Placed(node)
    OBVIOUS
  <2>2. Keyed(node, M)
    BY <1>1, <2>1, NodesKeyed
  <2>3. \A x \in M : nodes[x].key = node[x].key
    BY <1>8
  <2> QED BY <1>11, <2>2, <2>3 DEF Keyed
<1>15. /\ \A m \in Leaves : firstKey'[m] = IF m = l THEN NoKey ELSE firstKey[m]
       /\ \A m \in Leaves : backRef'[m] = IF m = l THEN Nil ELSE backRef[m]
  BY <1>1, <1>2 DEF TypeOK
<1>16. Live' = Live \ {l}
  BY <1>15 DEF Live
<1>17. ASSUME NEW m \in Leaves, m # l
       PROVE  IF firstKey[m] = NoKey THEN backRef[m] = Nil
              ELSE /\ backRef[m] \in M
                   /\ node[backRef[m]].leaf = m /\ node[backRef[m]].key = firstKey[m]
  <2>1. IF firstKey[m] = NoKey THEN backRef[m] = Nil
        ELSE backRef[m] \in N /\ node[backRef[m]].leaf = m /\ node[backRef[m]].key = firstKey[m]
    BY <1>1 DEF NodesNamed
  <2> QED BY <1>3, <1>17, <2>1
<1>18. gone = Placed(nodes) \ M
  <2>1. \A x \in N : node[x].leaf # NoLeaf
    BY <1>1, NamesAssumption DEF NodesNamed, Live
  <2> QED BY <1>3, <1>11, <2>1
<1>19. /\ node' \in [Refs -> Nodes \cup {Unused, LeftBehind}]
       /\ Placed(node') = M /\ \A x \in M : node'[x] = nodes[x]
       /\ \A i \in Levels : Row(head', node', Tall(node', i), i)
       /\ \A x \in M : node'[x].level <= Tallest(head')
  <2>1. RowsOf(head', nodes, M)
    BY <1>13 DEF RowsOf
  <2>2. node' = LeaveBehind(head', nodes, gone)
    BY <1>2
  <2>3. nodes \in [Refs -> Nodes \cup {Unused, LeftBehind}]
    BY <1>10
  <2>4. Keyed(nodes, M) /\ M \in SUBSET Placed(nodes)
    BY <1>14
  <2>5. gone = Placed(nodes) \ M
    BY <1>18
  <2> HIDE DEF M, gone
  <2> QED BY <2>1, <2>2, <2>3, <2>4, <2>5, LeaveBehindSound
<1>20. WInv'
  BY SoundIsWide, DeleteOnlyKeepsWInv
<1>21. NodesNamed'
  <2>1. ASSUME NEW m \in Leaves
        PROVE  IF firstKey'[m] = NoKey THEN backRef'[m] = Nil
               ELSE /\ backRef'[m] \in Placed(node')
                    /\ node'[backRef'[m]].leaf = m /\ node'[backRef'[m]].key = firstKey'[m]
    <3>1. CASE m = l
      BY <1>15, <3>1
    <3>2. CASE m # l
      BY <1>8, <1>15, <1>17, <1>19, <3>2
    <3> QED BY <3>1, <3>2
  <2>2. ASSUME NEW x \in M PROVE node'[x].leaf \in Live' /\ backRef'[node'[x].leaf] = x
    <3>1. node[x].leaf \in Live /\ backRef[node[x].leaf] = x
      BY <1>1 DEF NodesNamed
    <3>2. node[x].leaf # l /\ node[x].leaf \in Leaves
      BY <3>1 DEF Live
    <3>3. node'[x].leaf = node[x].leaf
      BY <1>8, <1>19
    <3> QED BY <1>15, <1>16, <3>1, <3>2, <3>3
  <2> QED BY <1>19, <2>1, <2>2 DEF NodesNamed
<1>22. KeysDistinct'
  BY <1>1, <1>15, <1>16 DEF KeysDistinct, Live
<1>23. RowsSound'
  BY <1>2, <1>19 DEF RowsSound
<1>26. FirstSound'
  <2>1. \A m \in Live' : m \in Live /\ m \in Leaves /\ firstKey'[m] = firstKey[m]
    BY <1>15, <1>16 DEF Live
  <2>2. CASE first = l
    <3>1. CASE Live' = {}
      BY <1>2, <1>16, <2>2, <3>1 DEF FirstSound, Fronts
    <3>2. CASE Live' # {}
      <4>1. first' \in Live' /\ \A m \in Live' : ~Before(m, first')
        BY <1>2, <1>16, <2>2, <3>2 DEF Fronts
      <4> QED BY <2>1, <3>2, <4>1 DEF FirstSound, Before
    <3> QED BY <3>1, <3>2
  <2>3. CASE first # l
    <3>1. first' = first /\ first \in Live /\ \A m \in Live : ~Before(m, first)
      BY <1>1, <1>2, <2>3 DEF FirstSound
    <3> QED BY <1>16, <2>1, <2>3, <3>1 DEF FirstSound, Before
  <2> QED BY <2>2, <2>3
<1> QED BY <1>20, <1>21, <1>22, <1>23, <1>26 DEF IInv, WInv

\* SymbolDrop keeps the invariant.
LEMMA SymbolDropSound ==
  ASSUME IInv, SymbolDrop
  PROVE  IInv'
<1>1. WInv' /\ Placed(node') = {} /\ Live' = {}
  BY SoundIsWide, SymbolDropKeepsWInv
<1>2. /\ firstKey' = [l \in Leaves |-> NoKey] /\ first' = NoLeaf
      /\ backRef' = [l \in Leaves |-> Nil] /\ head' = [i \in Levels |-> Nil]
  BY DEF SymbolDrop
<1>3. NodesNamed' /\ KeysDistinct' /\ FirstSound'
  BY <1>1, <1>2 DEF NodesNamed, KeysDistinct, FirstSound
<1>4. RowsSound'
  <2>1. \A i \in Levels : Row(head', node', Tall(node', i), i)
    BY <1>1, <1>2 DEF Row, NextIn, Follow, Tall
  <2> QED BY <1>1, <2>1 DEF RowsSound
<1> QED BY <1>1, <1>3, <1>4 DEF IInv, WInv

\* Each level links the nodes that are tall enough, the lowest one all nodes.
LEMMA LevelsHold ==
  ASSUME IInv
  PROVE  /\ \A i \in Levels : OnLevel(i) = Tall(node, i)
         /\ OnLevel(0) = Placed(node)
<1>1. TypeOK /\ NodesNamed /\ KeysDistinct /\ RowsSound
  BY DEF IInv
<1>2. ASSUME NEW i \in Levels PROVE OnLevel(i) = Tall(node, i)
  <2>1. Tall(node, i) \in SUBSET Placed(node)
    BY DEF Tall
  <2>2. Keyed(node, Tall(node, i))
    BY <1>1, <2>1, NodesKeyed
  <2>3. Row(head, node, Tall(node, i), i)
    BY <1>1 DEF RowsSound
  <2> QED BY <2>1, <2>2, <2>3, LinkedIsRow DEF OnLevel
<1>3. \A r \in Placed(node) : node[r].level > 0
  <2> TAKE r \in Placed(node)
  <2>1. node[r].level \in Heights
    BY <1>1, PlacedNodes, NodeFields DEF TypeOK
  <2> QED BY <2>1, LevelNumbers
<1>4. Tall(node, 0) = Placed(node)
  BY <1>3 DEF Tall
<1> QED BY <1>2, <1>4, LevelNumbers

\* What TruncateBefore keeps of the leaves, and in which order: the leaves
\* behind h have all their records behind the cutoff.
LEMMA CutKeepsOrder ==
  ASSUME AllWrites = FALSE, IInv, NEW h, NEW k \in Keys, NEW kept, NEW old,
         Cuts(h, kept, old, k), TruncateBefore(h, k, kept, old)
  PROVE  /\ kept = IF h = NoLeaf THEN {} ELSE {l \in Live : ~Before(l, h)}
         /\ old = {}
         /\ kept \in SUBSET Live
         /\ \A l \in kept, m \in Live : firstKey[l] <= firstKey[m] => m \in kept
         /\ \A l \in Leaves : firstKey'[l] # NoKey <=> l \in kept
         /\ \A l \in kept : firstKey'[l] \in Keys /\ firstKey'[l] \in Nat
         /\ \A l, m \in kept : firstKey[l] < firstKey[m] <=> firstKey'[l] < firstKey'[m]
         /\ \A l \in kept : l # h => k < firstKey[l]
         /\ h # NoLeaf => h \in kept /\ \A l \in kept : ~(firstKey'[l] < firstKey'[h])
<1>1. TypeOK /\ KeysDistinct
  BY DEF IInv
<1>2. /\ h # NoLeaf => firstKey[h] <= k /\ FitsIn(h, k)
      /\ firstKey' = [l \in Leaves |-> IF l = h THEN k ELSE IF l \in kept THEN firstKey[l] ELSE NoKey]
  BY DEF TruncateBefore
<1>3. \A l \in Live : l \in Leaves /\ firstKey[l] \in Keys /\ firstKey[l] \in Nat /\ firstKey[l] # NoKey
  BY <1>1, KeysAssumption DEF Live, TypeOK
<1>4. k \in Nat /\ k # NoKey
  BY KeysAssumption DEF NoKey
<1>5. kept = IF h = NoLeaf THEN {} ELSE {l \in Live : ~Before(l, h)}
  BY DEF Cuts, FromOn
<1>6. CASE h = NoLeaf
  <2>1. kept = {} /\ old = {}
    BY <1>5, <1>6 DEF Cuts
  <2>2. \A l \in Leaves : l # h
    BY <1>6, NamesAssumption
  <2> QED BY <1>2, <1>5, <1>6, <2>1, <2>2
<1>7. CASE h # NoLeaf
  <2>1. h \in Live /\ firstKey[h] <= k /\ \A l \in Live : firstKey[h] < firstKey[l] => k < firstKey[l]
    BY <1>2, <1>7 DEF Before, FitsIn, Cuts
  <2>2. kept = {l \in Live : ~(firstKey[l] < firstKey[h])}
    BY <1>5, <1>7 DEF Before
  <2>3. h \in kept
    BY <1>3, <2>1, <2>2
  <2>4. ASSUME NEW l \in kept, l # h PROVE firstKey[h] < firstKey[l] /\ k < firstKey[l]
    <3>1. firstKey[l] # firstKey[h]
      BY <1>1, <2>1, <2>2, <2>4 DEF KeysDistinct
    <3>2. ~(firstKey[l] < firstKey[h]) /\ firstKey[l] \in Nat /\ firstKey[h] \in Nat
      BY <1>3, <2>1, <2>2
    <3>3. firstKey[h] < firstKey[l]
      BY <3>1, <3>2
    <3> QED BY <2>1, <2>2, <3>3
  <2>5. ASSUME NEW l \in kept, NEW m \in Live, firstKey[l] <= firstKey[m] PROVE m \in kept
    <3>1. ~(firstKey[l] < firstKey[h]) /\ firstKey[l] \in Nat /\ firstKey[h] \in Nat /\ firstKey[m] \in Nat
      BY <1>3, <2>1, <2>2
    <3>2. ~(firstKey[m] < firstKey[h])
      BY <2>5, <3>1
    <3> QED BY <2>2, <3>2
  <2>6. \A l \in kept : firstKey'[l] = IF l = h THEN k ELSE firstKey[l]
    BY <1>2, <1>3, <2>2
  <2>7. \A l \in Leaves : firstKey'[l] # NoKey <=> l \in kept
    BY <1>2, <1>3, <1>4, <2>2, <2>3
  <2>8. ASSUME NEW l \in kept, NEW m \in kept
        PROVE  firstKey[l] < firstKey[m] <=> firstKey'[l] < firstKey'[m]
    <3>1. firstKey[l] \in Nat /\ firstKey[m] \in Nat /\ firstKey[h] \in Nat
      BY <1>3, <2>1, <2>2
    <3>2. /\ firstKey'[l] = IF l = h THEN k ELSE firstKey[l]
          /\ firstKey'[m] = IF m = h THEN k ELSE firstKey[m]
      BY <2>6
    <3>3. /\ l # h => firstKey[h] < firstKey[l] /\ k < firstKey[l]
          /\ m # h => firstKey[h] < firstKey[m] /\ k < firstKey[m]
      BY <2>4
    <3> HIDE <1>2
    <3> QED BY <1>4, <3>1, <3>2, <3>3
  <2>9. \A l \in kept : firstKey'[l] \in Keys /\ firstKey'[l] \in Nat
    BY <1>3, <1>4, <2>2, <2>6
  <2>10. old = {}
    <3>1. SUFFICES ASSUME NEW l \in old PROVE FALSE
      OBVIOUS
    <3>2. l \in kept /\ l # h /\ firstKey[l] < k
      BY DEF Cuts
    <3> QED BY <1>3, <1>4, <2>2, <2>4, <3>2
  <2>11. \A l \in kept : ~(firstKey'[l] < firstKey'[h])
    <3>1. \A l \in kept : ~(firstKey[l] < firstKey[h])
      BY <2>2
    <3> QED BY <2>3, <2>8, <3>1
  <2>12. kept \in SUBSET Live
    BY <2>2
  <2> QED BY <1>5, <2>3, <2>4, <2>5, <2>7, <2>8, <2>9, <2>10, <2>11, <2>12
<1> QED BY <1>6, <1>7

\* TruncateBefore keeps the invariant: what it rebuilds of a level are the
\* nodes of the leaves that stay, a final part of the level.
LEMMA TruncateBeforeSound ==
  ASSUME AllWrites = FALSE, IInv, NEW h, NEW k \in Keys, NEW kept, NEW old,
         Cuts(h, kept, old, k), TruncateBefore(h, k, kept, old)
  PROVE  IInv'
<1> DEFINE N == Placed(node)
           gone == {r \in Placed(node) : node[r].leaf \notin kept}
           left == {r \in Placed(node) : node[r].leaf \in kept \ old}
           next(i, r) == Forward(LastBefore(left, i, r), i)
           rebuilt == [i \in Levels |-> IF i \in RebuiltLevels
                                        THEN {r \in OnLevel(i) : node[r].leaf \in kept \ old} ELSE {}]
           nodes == [r \in Refs |->
             IF \A i \in Levels : r \notin rebuilt[i] THEN node[r]
             ELSE [node[r] EXCEPT
                     !.key = firstKey'[node[r].leaf],
                     !.forward = [i \in Levels |-> IF r \in rebuilt[i] THEN next(i, r) ELSE @[i]]]]
<1>1. TypeOK /\ NodesNamed /\ KeysDistinct /\ RowsSound /\ SlotsTaken /\ PagesChained
  BY DEF IInv
<1>2. /\ firstKey' = [l \in Leaves |-> IF l = h THEN k ELSE IF l \in kept THEN firstKey[l] ELSE NoKey]
      /\ first' = h
      /\ backRef' = [l \in Leaves |-> IF l \in kept THEN backRef[l] ELSE Nil]
      /\ head' = [i \in Levels |-> IF i \in RebuiltLevels THEN next(i, Nil) ELSE head[i]]
      /\ node' = LeaveBehind(head', nodes, gone)
      /\ top' = Tallest(head')
      /\ UNCHANGED <<pages, current>>
  BY DEF TruncateBefore
<1>3. /\ kept \in SUBSET Live /\ kept \ old = kept
      /\ \A l \in kept, m \in Live : firstKey[l] <= firstKey[m] => m \in kept
      /\ \A l \in Leaves : firstKey'[l] # NoKey <=> l \in kept
      /\ \A l \in kept : firstKey'[l] \in Keys /\ firstKey'[l] \in Nat
      /\ \A l, m \in kept : firstKey[l] < firstKey[m] <=> firstKey'[l] < firstKey'[m]
      /\ h # NoLeaf => h \in kept /\ \A l \in kept : ~(firstKey'[l] < firstKey'[h])
      /\ h = NoLeaf => kept = {}
  BY CutKeepsOrder
<1>4. N = {x \in Refs : node[x] \in Nodes} /\ \A x \in N : x \in Refs /\ x # Nil
  BY <1>1, PlacedNodes, NilIsNoRef DEF TypeOK
<1>5. \A x \in N : /\ node[x].leaf \in Live /\ node[x].leaf \in Leaves
                   /\ backRef[node[x].leaf] = x /\ node[x].key = firstKey[node[x].leaf]
  BY <1>1 DEF NodesNamed, Live
<1>6. left \in SUBSET N /\ \A x \in N : x \in left <=> node[x].leaf \in kept
  BY <1>3
<1>7. \A i \in Levels : \A x \in Refs : x \in rebuilt[i] <=> x \in left /\ node[x].level > i
  <2> TAKE i \in Levels
  <2>1. OnLevel(i) = Tall(node, i)
    BY LevelsHold
  <2>2. rebuilt[i] = {r \in OnLevel(i) : node[r].leaf \in kept \ old}
    BY DEF RebuiltLevels
  <2> QED BY <2>1, <2>2 DEF Tall
<1>8. \A x \in left : x \in rebuilt[0]
  <2>1. \A x \in left : node[x].level > 0
    BY <1>4, <1>6, NodeFields, LevelNumbers
  <2> HIDE DEF left, rebuilt
  <2> QED BY <1>4, <1>6, <1>7, <2>1, LevelNumbers
<1>9. \A x \in Refs : (\A i \in Levels : x \notin rebuilt[i]) <=> x \notin left
  <2> HIDE DEF left, rebuilt
  <2> QED BY <1>7, <1>8, LevelNumbers
<1> HIDE DEF left
<1>10. ASSUME NEW i \in Levels
       PROVE  /\ \A r \in (Tall(node, i) \cap left) \cup {Nil} :
                   NextIn(node, Tall(node, i) \cap left, r, next(i, r))
              /\ \A r \in (Tall(node, i) \cap left) \cup {Nil} : next(i, r) \in Refs \cup {Nil}
  <2> DEFINE T == Tall(node, i)
  <2>1. T \in SUBSET N
    BY DEF Tall
  <2>2. Keyed(node, T) /\ T \in SUBSET Refs
    BY <1>1, <2>1, NodesKeyed
  <2>3. Row(head, node, T, i)
    BY <1>1 DEF RowsSound
  <2>4. Final(node, T, left)
    <3>1. SUFFICES ASSUME NEW x \in T, NEW y \in T, x \in left, node[x].key <= node[y].key
                   PROVE  y \in left
      BY DEF Final
    <3>2. node[x].leaf \in kept /\ node[y].leaf \in Live
      BY <1>5, <1>6, <2>1, <3>1
    <3>3. firstKey[node[x].leaf] <= firstKey[node[y].leaf]
      BY <1>5, <2>1, <3>1
    <3>4. node[y].leaf \in kept
      BY <1>3, <3>2, <3>3
    <3> QED BY <1>6, <2>1, <3>4
  <2> HIDE DEF T
  <2>5. \A r \in (T \cap left) \cup {Nil} : NextIn(node, T \cap left, r, next(i, r))
    BY <2>1, <2>2, <2>3, <2>4, RowCut DEF LastBefore, Forward
  <2>6. \A r \in (T \cap left) \cup {Nil} : next(i, r) \in Refs \cup {Nil}
    BY <2>2, <2>5 DEF NextIn
  <2> QED BY <2>5, <2>6 DEF T
<1> HIDE DEF next, rebuilt
<1>11. ASSUME NEW x \in left
       PROVE  /\ nodes[x] \in Nodes /\ nodes[x].leaf = node[x].leaf
              /\ nodes[x].key = firstKey'[node[x].leaf] /\ nodes[x].level = node[x].level
              /\ \A i \in Levels : node[x].level > i => nodes[x].forward[i] = next(i, x)
  <2> DEFINE f == [i \in Levels |-> IF x \in rebuilt[i] THEN next(i, x) ELSE node[x].forward[i]]
             key == firstKey'[node[x].leaf]
  <2>1. x \in N /\ x \in Refs /\ node[x] \in Nodes /\ node[x].leaf \in kept
    BY <1>4, <1>6
  <2>2. nodes[x] = [node[x] EXCEPT !.key = key, !.forward = f]
    BY <1>9, <2>1
  <2>3. f \in [Levels -> Refs \cup {Nil}]
    <3>1. node[x].forward \in [Levels -> Refs \cup {Nil}]
      BY <2>1, NodeFields
    <3>2. \A i \in Levels : x \in rebuilt[i] => next(i, x) \in Refs \cup {Nil}
      BY <1>7, <1>10, <2>1 DEF Tall
    <3> QED BY <3>1, <3>2
  <2>4. key \in Keys
    BY <1>3, <2>1
  <2>5. \A i \in Levels : node[x].level > i => f[i] = next(i, x)
    BY <1>7, <2>1
  <2> HIDE DEF f, key, nodes
  <2>6. /\ nodes[x] \in Nodes /\ nodes[x].leaf = node[x].leaf /\ nodes[x].level = node[x].level
        /\ nodes[x].key = key /\ nodes[x].forward = f
    BY <2>1, <2>2, <2>3, <2>4 DEF Nodes
  <2> QED BY <2>5, <2>6 DEF key
<1>12. \A x \in Refs : x \notin left => nodes[x] = node[x]
  BY <1>9
<1>13. nodes \in [Refs -> Nodes \cup {Unused, LeftBehind}]
  <2>1. nodes = [x \in Refs |-> nodes[x]]
    OBVIOUS
  <2>2. \A x \in Refs : nodes[x] \in Nodes \cup {Unused, LeftBehind}
    <3> HIDE DEF nodes
    <3> QED BY <1>1, <1>11, <1>12 DEF TypeOK
  <2> HIDE DEF nodes
  <2> QED BY <2>1, <2>2
<1> HIDE DEF nodes
<1>14. /\ left \in SUBSET Placed(nodes) /\ \A x \in left : x \in Refs /\ x # Nil
       /\ Placed(nodes) = N
  <2>1. Placed(nodes) = {x \in Refs : nodes[x] \in Nodes}
    BY <1>13, PlacedNodes
  <2> QED BY <1>4, <1>6, <1>11, <1>12, <2>1
<1>15. /\ \A l \in Leaves : backRef'[l] = IF l \in kept THEN backRef[l] ELSE Nil
       /\ \A i \in Levels : head'[i] = next(i, Nil)
  BY <1>2 DEF RebuiltLevels
<1>16. ASSUME NEW l \in kept
       PROVE  /\ l \in Leaves /\ backRef[l] \in left /\ node[backRef[l]].leaf = l
              /\ backRef'[l] = backRef[l]
  <2>1. l \in Leaves /\ firstKey[l] # NoKey
    BY <1>3 DEF Live
  <2>2. backRef[l] \in N /\ node[backRef[l]].leaf = l
    BY <1>1, <2>1 DEF NodesNamed
  <2> QED BY <1>6, <1>15, <2>1, <2>2
<1>17. gone = Placed(nodes) \ left
  BY <1>6, <1>14
<1>18. Keyed(node, left)
  BY <1>1, <1>6, NodesKeyed
<1>19. \A x, y \in left : node[x].key < node[y].key <=> nodes[x].key < nodes[y].key
  <2> TAKE x, y \in left
  <2>1. /\ node[x].key = firstKey[node[x].leaf] /\ nodes[x].key = firstKey'[node[x].leaf]
        /\ node[y].key = firstKey[node[y].leaf] /\ nodes[y].key = firstKey'[node[y].leaf]
        /\ node[x].leaf \in kept /\ node[y].leaf \in kept
    BY <1>5, <1>6, <1>11
  <2> QED BY <1>3, <2>1
<1>20. Keyed(nodes, left)
  <2>1. \A x \in left : nodes[x].key \in Nat
    BY <1>3, <1>6, <1>11
  <2>2. ASSUME NEW x \in left, NEW y \in left, nodes[x].key = nodes[y].key PROVE x = y
    <3>1. ~(nodes[x].key < nodes[y].key) /\ ~(nodes[y].key < nodes[x].key)
      BY <2>1, <2>2
    <3>2. ~(node[x].key < node[y].key) /\ ~(node[y].key < node[x].key)
      BY <1>19, <3>1
    <3> QED BY <1>18, <3>2 DEF Keyed
  <2> QED BY <1>14, <2>1, <2>2 DEF Keyed
<1>21. RowsOf(head', nodes, left)
  <2>1. SUFFICES ASSUME NEW i \in Levels
                 PROVE  Row(head', nodes, {x \in left : nodes[x].level > i}, i)
    BY DEF RowsOf
  <2> DEFINE U == Tall(node, i) \cap left
  <2>2. {x \in left : nodes[x].level > i} = U
    BY <1>6, <1>11 DEF Tall
  <2>3. \A r \in U \cup {Nil} : NextIn(node, U, r, next(i, r))
    BY <1>10
  <2>4. \A r \in U \cup {Nil} : Follow(head', nodes, r, i) = next(i, r)
    <3>1. \A r \in U : nodes[r].forward[i] = next(i, r) /\ r # Nil
      BY <1>11, <1>14 DEF Tall
    <3> QED BY <1>15, <3>1 DEF Follow
  <2>5. Keyed(node, U) /\ Keyed(nodes, U) /\ SameOrder(node, nodes, U)
    BY <1>18, <1>19, <1>20 DEF Keyed, SameOrder
  <2> HIDE DEF U
  <2>6. Row(head', nodes, U, i)
    BY <2>3, <2>4, <2>5, RowRekeyed
  <2> QED BY <2>2, <2>6
<1>22. /\ node' \in [Refs -> Nodes \cup {Unused, LeftBehind}]
       /\ Placed(node') = left /\ \A x \in left : node'[x] = nodes[x]
       /\ \A i \in Levels : Row(head', node', Tall(node', i), i)
       /\ \A x \in left : node'[x].level <= Tallest(head')
  <2>1. node' = LeaveBehind(head', nodes, gone)
    BY <1>2
  <2>2. nodes \in [Refs -> Nodes \cup {Unused, LeftBehind}] /\ left \in SUBSET Placed(nodes)
    BY <1>13, <1>14
  <2> HIDE DEF gone
  <2> QED BY <1>17, <1>18, <1>20, <1>21, <2>1, <2>2, LeaveBehindSound
<1>23. WInv'
  BY SoundIsWide, TruncateBeforeKeepsWInv
<1>24. Live' = kept
  <2>1. \A l \in kept : l \in Leaves
    BY <1>16
  <2>2. Live' = {l \in Leaves : firstKey'[l] # NoKey}
    BY DEF Live
  <2> QED BY <1>3, <2>1, <2>2
<1>25. NodesNamed'
  <2>1. ASSUME NEW l \in Leaves
        PROVE  IF firstKey'[l] = NoKey THEN backRef'[l] = Nil
               ELSE /\ backRef'[l] \in Placed(node')
                    /\ node'[backRef'[l]].leaf = l /\ node'[backRef'[l]].key = firstKey'[l]
    <3>1. CASE l \in kept
      BY <1>3, <1>11, <1>16, <1>22, <3>1
    <3>2. CASE l \notin kept
      BY <1>3, <1>15, <3>2
    <3> QED BY <3>1, <3>2
  <2>2. ASSUME NEW x \in left PROVE node'[x].leaf \in Live' /\ backRef'[node'[x].leaf] = x
    <3>1. node'[x].leaf = node[x].leaf /\ node[x].leaf \in kept /\ backRef[node[x].leaf] = x
      BY <1>5, <1>6, <1>11, <1>22
    <3> QED BY <1>16, <1>24, <3>1
  <2> QED BY <1>22, <2>1, <2>2 DEF NodesNamed
<1>26. KeysDistinct'
  <2>1. SUFFICES ASSUME NEW l \in kept, NEW m \in kept, firstKey'[l] = firstKey'[m] PROVE l = m
    BY <1>24 DEF KeysDistinct
  <2>2. ~(firstKey'[l] < firstKey'[m]) /\ ~(firstKey'[m] < firstKey'[l])
    BY <1>3, <2>1
  <2>3. ~(firstKey[l] < firstKey[m]) /\ ~(firstKey[m] < firstKey[l])
    BY <1>3, <2>2
  <2>4. l \in Live /\ m \in Live /\ firstKey[l] \in Nat /\ firstKey[m] \in Nat
    BY <1>1, <1>3, KeysAssumption DEF Live, TypeOK
  <2>5. firstKey[l] = firstKey[m]
    BY <2>3, <2>4
  <2> QED BY <1>1, <2>4, <2>5 DEF KeysDistinct
<1>27. RowsSound'
  BY <1>2, <1>22 DEF RowsSound
<1>30. FirstSound'
  <2>1. CASE h = NoLeaf
    BY <1>2, <1>3, <1>24, <2>1 DEF FirstSound
  <2>2. CASE h # NoLeaf
    <3>1. first' \in Live' /\ \A m \in Live' : ~(firstKey'[m] < firstKey'[first'])
      BY <1>2, <1>3, <1>24, <2>2
    <3> QED BY <3>1 DEF FirstSound, Before
  <2> QED BY <2>1, <2>2
<1> QED BY <1>23, <1>25, <1>26, <1>27, <1>30 DEF IInv, WInv

------------------------------------------------------------------------------
(* Theorems.                                                               *)

\* An empty symbol has no node and no node page.
LEMMA InitSound == Init => IInv
<1> SUFFICES ASSUME Init PROVE IInv
  OBVIOUS
<1>1. /\ firstKey = [l \in Leaves |-> NoKey] /\ first = NoLeaf
      /\ backRef = [l \in Leaves |-> Nil]
      /\ head = [i \in Levels |-> Nil] /\ top = 1
      /\ node = [r \in Refs |-> Unused]
      /\ pages = [p \in NodePages |-> NotTaken] /\ current = NoPage
  BY DEF Init
<1>2. NotTaken.used = 0 /\ NotTaken.next = NoPage
  BY DEF NotTaken
<1>3. Placed(node) = {} /\ Live = {}
  BY <1>1 DEF Placed, Live
<1>4. TypeOK
  <2>1. NotTaken \in [used : 0 .. PageSlots, next : NodePages \cup {NoPage}]
    BY BoundsAssumption DEF NotTaken
  <2>2. top \in 1 .. MaxLevel
    BY <1>1, LevelNumbers
  <2> QED BY <1>1, <2>1, <2>2 DEF TypeOK
<1>5. NodesNamed /\ KeysDistinct /\ FirstSound
  BY <1>1, <1>3 DEF NodesNamed, KeysDistinct, FirstSound
<1>6. RowsSound
  BY <1>1, <1>3 DEF RowsSound, Row, NextIn, Follow, Tall
<1>7. SlotsTaken
  <2>1. \A r \in Refs : r[1] \in NodePages /\ r[2] \in Nat /\ r[2] >= 1
    BY BoundsAssumption DEF Refs
  <2>2. \A r \in Refs : pages[r[1]].used = 0 /\ ~(r[2] <= pages[r[1]].used)
    BY <1>1, <1>2, <2>1
  <2> QED BY <1>1, <2>2 DEF SlotsTaken
<1>8. PagesChained
  <2>1. {} \in SUBSET NodePages
    OBVIOUS
  <2>2. ChainedPages = {}
    BY <1>1, <2>1 DEF ChainedPages
  <2> QED BY <1>1, <2>2 DEF PagesChained
<1> QED BY <1>4, <1>5, <1>6, <1>7, <1>8 DEF IInv

\* A step that changes nothing keeps the invariant.
LEMMA StutterSound == IInv /\ UNCHANGED vars => IInv'
BY DEF IInv, vars, TypeOK, NodesNamed, KeysDistinct, FirstSound, Before, RowsSound, SlotsTaken, PagesChained,
       Placed, Live, ChainedPages, Tall, Row, NextIn, Follow, Ahead

\* Every call keeps the invariant.
LEMMA NextSound ==
  ASSUME AllWrites = FALSE
  PROVE  IInv /\ [Next]_vars => IInv'
<1> SUFFICES ASSUME IInv, [Next]_vars PROVE IInv'
  OBVIOUS
<1>1. ASSUME NEW l \in Leaves, NEW k \in Keys, DeleteFirst(l, k) PROVE IInv'
  BY <1>1, DeleteFirstSound
<1>2. ASSUME NEW l \in Leaves, NEW k \in Keys, NEW height \in Heights,
             AddFirstLeaf(l, k, height)
      PROVE  IInv'
  BY <1>2, AddFirstLeafSound
<1>3. ASSUME NEW l \in Leaves, NEW k \in Keys, NEW height \in Heights, AddLeaf(l, k, height)
      PROVE  IInv'
  BY <1>3, AddLeafSound
<1>4. ASSUME NEW l \in Leaves, DeleteOnly(l) PROVE IInv'
  BY <1>4, DeleteOnlySound
<1>5. ASSUME NEW h, NEW k \in Keys, NEW kept, NEW old,
             Cuts(h, kept, old, k), TruncateBefore(h, k, kept, old)
      PROVE  IInv'
  BY <1>5, TruncateBeforeSound
<1>8. ASSUME NEW k \in Keys, PutInLeaf(k) PROVE IInv'
  <2>1. UNCHANGED vars
    BY <1>8, PutChangesNothing DEF IInv
  <2> QED BY <2>1, StutterSound
<1>6. CASE SymbolDrop
  BY <1>6, SymbolDropSound
<1>7. CASE UNCHANGED vars
  BY <1>7, StutterSound
<1> QED BY <1>1, <1>2, <1>3, <1>4, <1>5, <1>6, <1>7, <1>8 DEF Next, Cuts

\* The towers, the leaves and the node pages agree at every moment: every level
\* links the nodes that are tall enough in key order, each node names a leaf of
\* the chain that names it, and the slots in use are those of the chained pages.
THEOREM IInvAlways ==
  ASSUME AllWrites = FALSE
  PROVE  Spec => []IInv
BY InitSound, NextSound, PTL DEF Spec

\* Whatever is written, late records and splits of one record included, the
\* pointers of every level stay on it, each leaf and its node find each other,
\* and the slots in use are those of the chained pages.
THEOREM WInvAlways == Spec => []WInv
<1>1. Init => WInv
  BY InitSound, SoundIsWide
<1> QED BY <1>1, NextKeepsWInv, PTL DEF Spec

\* The state keeps its type, whatever is written.
THEOREM TypeCorrect == Spec => []TypeOK
<1>1. WInv => TypeOK
  BY DEF WInv
<1> QED BY <1>1, WInvAlways, PTL

\* The first leaf of the chain is the only one with the smallest first key.
LEMMA FirstIsLeast ==
  ASSUME TypeOK, FirstSound, KeysDistinct
  PROVE  first = LeastLeaf
<1>1. \A l \in Live : firstKey[l] \in Nat
  BY KeysAssumption DEF Live, TypeOK
<1>2. CASE Live = {}
  BY <1>2 DEF FirstSound, LeastLeaf
<1>3. CASE Live # {}
  <2>1. first \in Live /\ \A m \in Live : ~Before(m, first)
    BY <1>3 DEF FirstSound
  <2>2. ASSUME NEW l \in Live, \A m \in Live : ~Before(m, l) PROVE l = first
    <3>1. firstKey[l] = firstKey[first]
      BY <1>1, <2>1, <2>2 DEF Before
    <3> QED BY <2>1, <3>1 DEF KeysDistinct
  <2> QED BY <1>3, <2>1, <2>2 DEF LeastLeaf
<1> QED BY <1>2, <1>3

\* descend finds the leaf that a search of all the leaves would find.
THEOREM DescentAlwaysExact ==
  ASSUME AllWrites = FALSE
  PROVE  Spec => []DescentExact
<1>1. ASSUME IInv PROVE DescentExact
  <2>1. SUFFICES ASSUME NEW k \in Keys, NEW low, low = {l \in Live : firstKey[l] <= k}
                 PROVE  Descend(k) = IF low = {} THEN LeastLeaf
                                     ELSE CHOOSE l \in low : \A m \in low : ~Before(l, m)
    BY DEF DescentExact
  <2> DEFINE p == Preds(k, FALSE)[0]
             N == Placed(node)
  <2>2. k \in Nat
    BY KeysAssumption
  <2>3. Tall(node, 0) = N
    BY <1>1, LevelsHold, LevelNumbers
  <2>4. p \in N \cup {Nil} /\ \A x \in N : Ahead(node, p, x) <=> node[x].key > k
    <3>1. InFront(k, FALSE, 0, p)
      BY <1>1, <2>2, PredsInFront, LevelNumbers
    <3> QED BY <2>3, <3>1 DEF InFront, StopsAt
  <2>5. Descend(k) = IF p = Nil THEN first ELSE node[p].leaf
    BY DEF Descend
  <2> HIDE DEF p
  <2>6. TypeOK /\ NodesNamed /\ KeysDistinct
    BY <1>1 DEF IInv
  <2>7. \A l \in Live : /\ backRef[l] \in N /\ node[backRef[l]].key = firstKey[l]
                        /\ firstKey[l] \in Nat /\ l \in Leaves
    <3>1. \A l \in Live : l \in Leaves /\ firstKey[l] # NoKey
      BY DEF Live
    <3>2. \A l \in Live : firstKey[l] \in Nat
      BY <2>6, <3>1, KeysAssumption DEF TypeOK
    <3>3. \A l \in Live : backRef[l] \in N /\ node[backRef[l]].key = firstKey[l]
      BY <2>6, <3>1 DEF NodesNamed
    <3> QED BY <3>1, <3>2, <3>3
  <2>8. \A x \in N : /\ node[x].leaf \in Live /\ node[x].key = firstKey[node[x].leaf]
                     /\ node[x].key \in Nat /\ x # Nil
    <3>1. \A x \in N : node[x].leaf \in Live /\ backRef[node[x].leaf] = x /\ x # Nil
      BY <2>6, NilIsNoRef DEF NodesNamed, Placed
    <3> QED BY <2>7, <3>1
  <2> HIDE DEF N
  <2>9. CASE p = Nil
    <3>1. \A l \in Live : firstKey[l] > k
      BY <2>4, <2>7, <2>9 DEF Ahead
    <3>2. low = {}
      BY <2>1, <2>2, <2>7, <3>1
    <3>3. first = LeastLeaf
      BY <1>1, <2>7, FirstIsLeast DEF IInv
    <3> QED BY <2>5, <2>9, <3>2, <3>3
  <2>10. CASE p # Nil
    <3> DEFINE l == node[p].leaf
    <3>1. p \in N /\ l \in Live /\ firstKey[l] = node[p].key /\ node[p].key \in Nat
      BY <2>4, <2>8, <2>10
    <3>2. ~(node[p].key > k)
      <4>1. ~Ahead(node, p, p)
        BY <2>10, <3>1 DEF Ahead
      <4> QED BY <2>4, <3>1, <4>1
    <3>3. l \in low
      BY <2>1, <2>2, <3>1, <3>2
    <3>4. \A m \in low : m \in Live /\ firstKey[m] <= k
      BY <2>1
    <3> HIDE <2>1
    <3>5. ASSUME NEW m \in low PROVE ~Before(l, m)
      <4>1. ~Ahead(node, p, backRef[m])
        <5>1. ~(node[backRef[m]].key > k)
          BY <2>2, <2>7, <3>4
        <5> QED BY <2>4, <2>7, <3>4, <5>1
      <4> QED BY <2>7, <2>10, <3>1, <3>4, <4>1 DEF Ahead, Before
    <3>6. ASSUME NEW q \in low, \A m \in low : ~Before(q, m) PROVE q = l
      <4>1. ~(firstKey[q] < firstKey[l]) /\ ~(firstKey[l] < firstKey[q])
        BY <3>3, <3>5, <3>6 DEF Before
      <4>2. q \in Live /\ firstKey[q] \in Nat /\ firstKey[l] \in Nat
        BY <2>7, <3>1, <3>4
      <4>3. firstKey[q] = firstKey[l]
        BY <4>1, <4>2
      <4> QED BY <2>6, <3>1, <4>2, <4>3 DEF KeysDistinct
    <3>7. low # {} /\ Descend(k) = l
      BY <2>5, <2>10, <3>3
    <3> HIDE DEF l
    <3>8. l = CHOOSE q \in low : \A m \in low : ~Before(q, m)
      BY <3>3, <3>5, <3>6
    <3> QED BY <3>7, <3>8
  <2> QED BY <2>9, <2>10
<1> QED BY <1>1, IInvAlways, PTL

\* The towers stay sound through splices, unlinks and rebuilds.
THEOREM TowersAlwaysSound ==
  ASSUME AllWrites = FALSE
  PROVE  Spec => []TowersSound
<1>1. ASSUME IInv PROVE TowersSound
  <2>1. TypeOK /\ RowsSound
    BY <1>1 DEF IInv
  <2>2. \A i \in Levels : OnLevel(i) = {r \in OnLevel(0) : node[r].level > i}
    BY <1>1, LevelsHold DEF Tall
  <2>3. ASSUME NEW i \in Levels, NEW r \in OnLevel(i), Forward(r, i) # Nil
        PROVE  node[r].key < node[Forward(r, i)].key
    <3>1. r \in Tall(node, i) /\ r # Nil
      BY <1>1, LevelsHold, NilIsNoRef DEF Tall, Placed
    <3>2. NextIn(node, Tall(node, i), r, Forward(r, i))
      BY <2>1, <3>1 DEF RowsSound, Row, Forward
    <3> QED BY <2>3, <3>1, <3>2 DEF NextIn, Ahead
  <2>4. ASSUME NEW i \in Levels, i >= top PROVE head[i] = Nil
    <3>1. Tall(node, i) = {}
      <4>1. SUFFICES ASSUME NEW x \in Placed(node) PROVE ~(node[x].level > i)
        BY DEF Tall
      <4>2. node[x].level \in Nat /\ i \in Nat /\ top \in Nat /\ node[x].level <= top
        BY <2>1, PlacedNodes, NodeFields, LevelNumbers DEF TypeOK, RowsSound
      <4> QED BY <2>4, <4>2
    <3>2. NextIn(node, Tall(node, i), Nil, head[i])
      BY <2>1 DEF RowsSound, Row, Follow
    <3> QED BY <3>1, <3>2 DEF NextIn
  <2> QED BY <2>2, <2>3, <2>4 DEF TowersSound
<1> QED BY <1>1, IInvAlways, PTL

\* No node is left that names a leaf page which was freed.
THEOREM AlwaysOneNodePerLeaf ==
  ASSUME AllWrites = FALSE
  PROVE  Spec => []OneNodePerLeaf
<1>1. ASSUME IInv PROVE OneNodePerLeaf
  <2>1. OnLevel(0) = Placed(node) /\ NodesNamed
    BY <1>1, LevelsHold DEF IInv
  <2>2. \A l \in Live : /\ backRef[l] \in Placed(node)
                        /\ node[backRef[l]].leaf = l /\ node[backRef[l]].key = firstKey[l]
    BY <2>1 DEF NodesNamed, Live
  <2>3. \A r \in Placed(node) : node[r].leaf \in Live /\ backRef[node[r].leaf] = r
    BY <2>1 DEF NodesNamed
  <2>4. Placed(node) = {backRef[l] : l \in Live}
    BY <2>2, <2>3
  <2> QED BY <2>1, <2>2, <2>4 DEF OneNodePerLeaf
<1> QED BY <1>1, IInvAlways, PTL

\* symbol_drop finds every node page, and no slot is handed out twice, whatever
\* is written.
THEOREM NodePagesAlwaysChained == Spec => []NodePagesChained
<1>1. WInv => NodePagesChained
  BY DEF WInv, PagesChained, SlotsTaken, NodePagesChained
<1> QED BY <1>1, WInvAlways, PTL

\* The map that a walk along level 0 reads is that of the first keys.
LEMMA IndexMapIsFirstKey ==
  ASSUME IInv
  PROVE  IndexMap = firstKey
<1>1. TypeOK /\ NodesNamed
  BY DEF IInv
<1>2. OnLevel(0) = Placed(node)
  BY LevelsHold
<1> DEFINE S(l) == {NoKey} \cup {node[r].key : r \in {n \in Placed(node) : node[n].leaf = l}}
<1>3. IndexMap = [l \in Leaves |-> Max(S(l))]
  BY <1>2 DEF IndexMap
<1>4. ASSUME NEW l \in Leaves PROVE Max(S(l)) = firstKey[l]
  <2>1. \A r \in Placed(node) : node[r].leaf = l => l \in Live /\ backRef[l] = r
    BY <1>1 DEF NodesNamed
  <2>2. CASE firstKey[l] = NoKey
    <3>1. S(l) = {NoKey}
      BY <2>1, <2>2 DEF Live
    <3> HIDE DEF S
    <3> QED BY <2>2, <3>1 DEF Max, NoKey
  <2>3. CASE firstKey[l] # NoKey
    <3>1. /\ backRef[l] \in Placed(node) /\ node[backRef[l]].leaf = l
          /\ node[backRef[l]].key = firstKey[l]
      BY <1>1, <2>3 DEF NodesNamed
    <3>2. S(l) = {NoKey, firstKey[l]}
      BY <2>1, <3>1
    <3>3. firstKey[l] \in Nat
      BY <1>1, <2>3, KeysAssumption DEF TypeOK
    <3> HIDE DEF S
    <3>4. Max(S(l)) = CHOOSE x \in {NoKey, firstKey[l]} : \A y \in {NoKey, firstKey[l]} : x >= y
      BY <3>2 DEF Max
    <3> DEFINE k == firstKey[l]
    <3>5. k >= NoKey /\ k >= k /\ ~(NoKey >= k)
      BY <3>3 DEF NoKey
    <3> HIDE DEF k
    <3>6. k = CHOOSE x \in {NoKey, k} : \A y \in {NoKey, k} : x >= y
      BY <3>5
    <3> QED BY <3>4, <3>6 DEF k
  <2> QED BY <2>2, <2>3
<1> HIDE DEF S
<1> QED BY <1>1, <1>3, <1>4 DEF TypeOK

MapShown == IndexMap = firstKey

\* What the towers show of the leaves changes as an ordered map of leaves does.
THEOREM LeafMapImplemented ==
  ASSUME AllWrites = FALSE
  PROVE  Spec => ImplementsLeafMap
<1>1. Init => Map!Init
  <2> SUFFICES ASSUME Init PROVE Map!Init
    OBVIOUS
  <2>1. IndexMap = firstKey
    BY InitSound, IndexMapIsFirstKey
  <2> QED BY <2>1 DEF Init, Map!Init
<1>2. IInv /\ MapShown /\ MapShown' /\ [Next]_vars => [Map!Next]_IndexMap
  <2> SUFFICES ASSUME IInv, MapShown, MapShown', [Next]_vars PROVE [Map!Next]_IndexMap
    OBVIOUS
  <2>1. IndexMap = firstKey
    BY DEF MapShown
  <2>2. IndexMap' = firstKey'
    BY DEF MapShown
  <2>3. firstKey \in [Leaves -> Keys \cup {NoKey}]
    BY DEF IInv, TypeOK
  <2>4. \A m \in Live : firstKey[m] \in Nat /\ m \in Leaves
    BY <2>3, KeysAssumption DEF Live
  <2>5. Map!Indexed(IndexMap) = Live
    BY <2>1 DEF Map!Indexed, Live
  <2>6. \A k \in Keys : k \in Nat
    BY KeysAssumption
  <2>7. ASSUME NEW l \in Leaves, NEW k \in Keys, NEW height \in Heights,
               AddFirstLeaf(l, k, height)
        PROVE  Map!Add(IndexMap, IndexMap', l, k)
    BY <2>1, <2>2, <2>5, <2>7 DEF AddFirstLeaf, Map!Add
  <2>8. ASSUME NEW l \in Leaves, NEW k \in Keys, NEW height \in Heights, AddLeaf(l, k, height)
        PROVE  Map!Add(IndexMap, IndexMap', l, k)
    <3>1. /\ l \notin Live /\ \A m \in Live : firstKey[m] # k
          /\ firstKey' = [firstKey EXCEPT ![l] = k]
      BY <2>8, AddedBehind
    <3> QED BY <2>1, <2>2, <2>5, <3>1 DEF Map!Add
  <2>9. ASSUME NEW l \in Leaves, NEW k \in Keys, DeleteFirst(l, k)
        PROVE  Map!Advance(IndexMap, IndexMap', l, k)
    <3>1. /\ l \in Live /\ firstKey[l] < k /\ \A m \in Live : firstKey[l] < firstKey[m] => k < firstKey[m]
          /\ firstKey' = [firstKey EXCEPT ![l] = k]
      BY <2>9 DEF DeleteFirst, FitsIn, Before
    <3>2. \A m \in Live : firstKey[m] > firstKey[l] => firstKey[m] > k
      BY <2>4, <2>6, <3>1
    <3> QED BY <2>1, <2>2, <2>5, <3>1, <3>2 DEF Map!Advance
  <2>10. ASSUME NEW l \in Leaves, DeleteOnly(l) PROVE Map!Remove(IndexMap, IndexMap', l)
    BY <2>1, <2>2, <2>5, <2>10 DEF DeleteOnly, Map!Remove
  <2>11. ASSUME NEW h, NEW k \in Keys, NEW kept, NEW old,
                Cuts(h, kept, old, k), TruncateBefore(h, k, kept, old)
         PROVE  Map!Clear(IndexMap') \/ (h \in Leaves /\ Map!CutBefore(IndexMap, IndexMap', h, k))
    <3>1. /\ h # NoLeaf => firstKey[h] <= k /\ FitsIn(h, k)
          /\ firstKey' = [l \in Leaves |-> IF l = h THEN k
                                           ELSE IF l \in kept THEN firstKey[l] ELSE NoKey]
      BY <2>11 DEF TruncateBefore
    <3>2. /\ \A l \in kept : l # h => k < firstKey[l]
          /\ kept = IF h = NoLeaf THEN {} ELSE {l \in Live : ~Before(l, h)}
      BY <2>11, CutKeepsOrder
    <3>3. CASE h = NoLeaf
      <4>1. firstKey' = [l \in Leaves |-> NoKey]
        BY <3>1, <3>2, <3>3, NamesAssumption
      <4> QED BY <2>2, <4>1 DEF Map!Clear
    <3>4. CASE h # NoLeaf
      <4>1. h \in Live /\ h \in Leaves /\ firstKey[h] <= k
        BY <2>4, <2>11, <3>1, <3>4 DEF Cuts
      <4>2. \A l \in Live : firstKey[l] > firstKey[h] => firstKey[l] > k
        BY <2>4, <2>6, <3>1, <3>4, <4>1 DEF Before, FitsIn
      <4>3. ASSUME NEW l \in Leaves, l # h PROVE l \in kept <=> l \in Live /\ firstKey[l] > k
        <5>1. l \in kept <=> l \in Live /\ ~(firstKey[l] < firstKey[h])
          BY <3>2, <3>4 DEF Before
        <5>2. l \in kept => firstKey[l] > k
          BY <2>4, <2>6, <3>2, <4>3, <5>1
        <5>3. l \in Live /\ firstKey[l] > k => ~(firstKey[l] < firstKey[h])
          BY <2>4, <2>6, <4>1
        <5> QED BY <5>1, <5>2, <5>3
      <4>4. firstKey' = [m \in Leaves |-> IF m = h THEN k
                                          ELSE IF m \in Live /\ firstKey[m] > k THEN firstKey[m]
                                          ELSE NoKey]
        BY <3>1, <4>3
      <4> QED BY <2>1, <2>2, <2>5, <4>1, <4>2, <4>4 DEF Map!CutBefore
    <3> QED BY <3>3, <3>4
  <2>12. SymbolDrop => Map!Clear(IndexMap')
    BY <2>2 DEF SymbolDrop, Map!Clear
  <2>15. ASSUME NEW k \in Keys, PutInLeaf(k) PROVE IndexMap' = IndexMap
    BY <2>1, <2>2, <2>15, PutChangesNothing DEF IInv, vars
  <2>13. Next => Map!Change(IndexMap, IndexMap') \/ IndexMap' = IndexMap
    BY <2>7, <2>8, <2>9, <2>10, <2>11, <2>12, <2>15 DEF Next, Cuts, Map!Change
  <2>14. UNCHANGED vars => IndexMap' = IndexMap
    BY <2>1, <2>2 DEF vars
  <2> QED BY <2>13, <2>14 DEF Map!Next
<1>3. IInv => MapShown
  BY IndexMapIsFirstKey DEF MapShown
<1>4. Spec => Map!Spec
  BY <1>1, <1>2, <1>3, IInvAlways, PTL DEF Spec, Map!Spec
<1> QED BY <1>4 DEF ImplementsLeafMap

==============================================================================
