-------------------------- MODULE MultiScanProofs --------------------------
(***************************************************************************)
(* A merged scan is in the order of keys and symbols, complete, and hands  *)
(* out nothing that was never there: for any keys, symbols, chunk size and *)
(* number of commits.                                                      *)
(***************************************************************************)
EXTENDS MultiScan, FiniteSetTheorems, WellFoundedInduction, TLAPS, SequenceTheorems

\* A nonempty set of naturals has a least element.
LEMMA LeastElement ==
  ASSUME NEW S \in SUBSET Nat, S # {}
  PROVE  \E x \in S : \A y \in S : x <= y
<1>1. \E x \in S : \A y \in S : ~(<<y, x>> \in OpToRel(<, Nat))
  BY NatLessThanWellFounded, WFMin
<1>2. PICK x \in S : \A y \in S : ~(<<y, x>> \in OpToRel(<, Nat))
  BY <1>1
<1>3. \A y \in S : ~(y < x)
  BY <1>2 DEF OpToRel
<1> QED BY <1>3

\* The records of s come in the order of the merge.
Ordered(s) == \A a, b \in DOMAIN s : a < b => Precedes(s[a], s[b])

\* What iterator i has handed out or is about to, and the furthest of it.
Out(i) == ToSet(emitted) \cup ToSet(i.buf)
Started(i) == i.buf # <<>> \/ i.started
Furthest(i) == IF i.buf # <<>> THEN Last(i.buf) ELSE i.last
After(i, r) == Started(i) => Precedes(Furthest(i), r)

\* The cursor of symbol s is on its first record behind the furthest one.
Rest(i, s) == {j \in Keys : <<j, s>> \in Covered(i, store) /\ After(i, <<j, s>>)}
CursorOK(i, s) ==
  IF i.cur[s] = Done THEN Rest(i, s) = {}
  ELSE i.cur[s] \in Rest(i, s) /\ \A j \in Rest(i, s) : i.cur[s] <= j

\* The cursors are good as long as no commit has followed, and until a page
\* could not be read.
Placed(i) ==
  /\ i.seen <= txn /\ (~i.nonblocking => shared /\ i.seen = txn)
  /\ i.seen = txn /\ ~i.exhausted => \A s \in Symbols : CursorOK(i, s)
  /\ i.failed => i.status = "ERROR"
  /\ i.status = "ERROR" => i.exhausted

\* What has been handed out and what is in the buffer follow each other.
Sorted(i) ==
  /\ Ordered(emitted) /\ Ordered(i.buf)
  /\ \A r \in ToSet(emitted), q \in ToSet(i.buf) : Precedes(r, q)
  /\ IF i.started
     THEN i.last \in ToSet(emitted) /\ \A r \in ToSet(emitted) : r = i.last \/ Precedes(r, i.last)
     ELSE emitted = <<>>

\* A record that has been there all along was handed out, or is in the buffer,
\* or is still to come.
ToCome(i) == {r \in Records : After(i, r)}
Complete(i) ==
  /\ kept \subseteq Covered(i, store)
  /\ i.status = "OK" => kept \subseteq Out(i) \cup (IF i.exhausted THEN {} ELSE ToCome(i))
  /\ ended => i.exhausted /\ i.buf = <<>>

\* Nothing comes out that the file never held.
Known(i) == Covered(i, store) \subseteq held /\ Out(i) \subseteq Covered(i, held)

Walk(i) == Placed(i) /\ Sorted(i) /\ Complete(i) /\ Known(i)
NoWalk == kept = {} /\ held = {} /\ emitted = <<>>

IInv == TypeOK /\ IF it.open THEN Walk(it) ELSE NoWalk

------------------------------------------------------------------------------
(* The order of records.                                                   *)

\* A record is a key and a symbol.
LEMMA RecordIs ==
  /\ \A r \in Records : r[1] \in Keys /\ r[2] \in Symbols /\ r = <<r[1], r[2]>>
  /\ \A k \in Keys, s \in Symbols : <<k, s>> \in Records
  /\ Keys \subseteq Nat /\ Symbols \subseteq Nat /\ Done \notin Keys
<1>1. \A r \in Records : r[1] \in Keys /\ r[2] \in Symbols /\ r = <<r[1], r[2]>>
  BY DEF Records
<1>2. \A k \in Keys, s \in Symbols : <<k, s>> \in Records
  BY DEF Records
<1>3. Keys \subseteq Nat /\ Symbols \subseteq Nat /\ Done \notin Keys
  BY KeysAssumption, SymbolsAssumption, BoundsAssumption
<1> QED BY <1>1, <1>2, <1>3

\* Records are totally ordered.
LEMMA RecordOrder ==
  ASSUME NEW r \in Records, NEW q \in Records
  PROVE  /\ ~Precedes(r, r) /\ ~(Precedes(r, q) /\ Precedes(q, r))
         /\ r # q => Precedes(r, q) \/ Precedes(q, r)
         /\ \A p \in Records : Precedes(r, q) /\ Precedes(q, p) => Precedes(r, p)
<1>1. /\ r[1] \in Nat /\ r[2] \in Nat /\ q[1] \in Nat /\ q[2] \in Nat
      /\ r = <<r[1], r[2]>> /\ q = <<q[1], q[2]>>
  BY RecordIs
<1>2. ~Precedes(r, r) /\ ~(Precedes(r, q) /\ Precedes(q, r))
  BY <1>1 DEF Precedes
<1>3. r # q => Precedes(r, q) \/ Precedes(q, r)
  <2>1. r # q => r[1] # q[1] \/ r[2] # q[2]
    BY <1>1
  <2> QED BY <1>1, <2>1 DEF Precedes
<1>4. ASSUME NEW p \in Records, Precedes(r, q), Precedes(q, p) PROVE Precedes(r, p)
  <2>1. p[1] \in Nat /\ p[2] \in Nat
    BY RecordIs
  <2> QED BY <1>1, <1>4, <2>1 DEF Precedes
<1> QED BY <1>2, <1>3, <1>4

\* The times of keys.
LEMMA TimeFacts ==
  ASSUME NEW k \in Nat
  PROVE  /\ TimeOf(k) \in Nat
         /\ \A t \in Nat : k >= StartOf(t) <=> TimeOf(k) >= t
<1> DEFINE q == k \div SeqSpan
<1>1. SeqSpan \in Nat /\ SeqSpan > 0
  BY BoundsAssumption
<1>2. q \in Nat /\ q * SeqSpan <= k /\ k < (q + 1) * SeqSpan
  BY <1>1
<1> HIDE DEF q
<1>3. ASSUME NEW t \in Nat PROVE k >= t * SeqSpan <=> q >= t
  <2>1. q >= t => q * SeqSpan >= t * SeqSpan
    BY <1>1, <1>2
  <2>2. t >= q + 1 => t * SeqSpan >= (q + 1) * SeqSpan
    BY <1>1, <1>2
  <2>3. q * SeqSpan \in Nat /\ (q + 1) * SeqSpan \in Nat /\ t * SeqSpan \in Nat
    BY <1>1, <1>2
  <2> QED BY <1>2, <2>1, <2>2, <2>3
<1> QED BY <1>2, <1>3 DEF TimeOf, StartOf, q

\* Later keys have later times, or the same.
LEMMA TimesInOrder ==
  ASSUME NEW j \in Nat, NEW k \in Nat, j <= k PROVE TimeOf(j) <= TimeOf(k)
<1>1. TimeOf(j) \in Nat /\ TimeOf(k) \in Nat
  BY TimeFacts
<1>2. j >= StartOf(TimeOf(j))
  BY <1>1, TimeFacts
<1>3. StartOf(TimeOf(j)) \in Nat
  BY <1>1, BoundsAssumption DEF StartOf
<1>4. k >= StartOf(TimeOf(j))
  BY <1>2, <1>3
<1> QED BY <1>1, <1>4, TimeFacts

------------------------------------------------------------------------------
(* Sequences of records.                                                   *)

\* A sequence of records with a bound on its length.
LEMMA BoundedIs ==
  ASSUME NEW n \in Nat
  PROVE  \A c : c \in BoundedSeq(Records, n) <=> c \in Seq(Records) /\ Len(c) <= n
<1> SUFFICES ASSUME NEW c PROVE c \in BoundedSeq(Records, n) <=> c \in Seq(Records) /\ Len(c) <= n
  OBVIOUS
<1>1. ASSUME c \in BoundedSeq(Records, n) PROVE c \in Seq(Records) /\ Len(c) <= n
  <2>1. PICK m \in 0 .. n : c \in [1 .. m -> Records]
    BY <1>1 DEF BoundedSeq, SeqOf
  <2>2. c \in Seq(Records)
    BY <2>1, SeqDef
  <2>3. m \in Nat /\ DOMAIN c = 1 .. m
    BY <2>1
  <2> QED BY <2>1, <2>2, <2>3
<1>2. ASSUME c \in Seq(Records), Len(c) <= n PROVE c \in BoundedSeq(Records, n)
  <2>1. c \in [1 .. Len(c) -> Records] /\ Len(c) \in 0 .. n
    BY <1>2, LenProperties
  <2> QED BY <2>1 DEF BoundedSeq, SeqOf
<1> QED BY <1>1, <1>2

\* The members of a sequence of records.
LEMMA Members ==
  /\ \A s \in Seq(Records) : ToSet(s) \subseteq Records
  /\ Ordered(<<>>) /\ ToSet(<<>>) = {} /\ <<>> \in Seq(Records) /\ Len(<<>>) = 0
  /\ \A s \in Seq(Records) : Len(s) \in Nat /\ (Len(s) = 0 <=> s = <<>>)
<1>1. ASSUME NEW s \in Seq(Records) PROVE ToSet(s) \subseteq Records
  <2>1. \A n \in DOMAIN s : s[n] \in Records
    BY LenProperties
  <2> QED BY <2>1 DEF ToSet
<1>2. Ordered(<<>>) /\ ToSet(<<>>) = {} /\ <<>> \in Seq(Records) /\ Len(<<>>) = 0
  BY EmptySeq DEF Ordered, ToSet
<1> QED BY <1>1, <1>2, EmptySeq, LenProperties

\* The last record of a sequence in order comes after the others.
LEMMA LastIsFurthest ==
  ASSUME NEW c \in Seq(Records), c # <<>>, Ordered(c)
  PROVE  /\ Last(c) \in ToSet(c) /\ Last(c) \in Records
         /\ \A r \in ToSet(c) : r = Last(c) \/ Precedes(r, Last(c))
<1> DEFINE n == Len(c)
<1>1. n \in Nat /\ n # 0 /\ DOMAIN c = 1 .. n /\ \A a \in 1 .. n : c[a] \in Records
  BY EmptySeq, LenProperties
<1>2. Last(c) = c[n]
  BY DEF Last
<1> HIDE DEF n
<1>3. ASSUME NEW r \in ToSet(c) PROVE r = c[n] \/ Precedes(r, c[n])
  <2>1. PICK a \in 1 .. n : r = c[a]
    BY <1>1 DEF ToSet
  <2>2. a = n \/ a < n
    BY <1>1
  <2> QED BY <1>1, <2>1, <2>2 DEF Ordered
<1> QED BY <1>1, <1>2, <1>3 DEF ToSet

\* A buffer is its first record and those that come after it.
LEMMA FirstAndRest ==
  ASSUME NEW c \in Seq(Records), c # <<>>, Ordered(c)
  PROVE  /\ Head(c) \in Records /\ Tail(c) \in Seq(Records) /\ Len(Tail(c)) = Len(c) - 1
         /\ ToSet(c) = {Head(c)} \cup ToSet(Tail(c)) /\ Ordered(Tail(c))
         /\ \A r \in ToSet(Tail(c)) : Precedes(Head(c), r)
         /\ Last(c) = IF Tail(c) = <<>> THEN Head(c) ELSE Last(Tail(c))
<1> DEFINE n == Len(c)
           d == Tail(c)
<1>1. n \in Nat /\ n # 0 /\ DOMAIN c = 1 .. n
  BY EmptySeq, LenProperties
<1>2. /\ Head(c) \in Records /\ d \in Seq(Records) /\ Len(d) = n - 1
      /\ \A a \in 1 .. Len(d) : d[a] = c[a + 1]
  BY HeadTailProperties
<1>3. Head(c) = c[1]
  OBVIOUS
<1>4. Last(c) = c[n] /\ Last(d) = d[Len(d)]
  BY DEF Last
<1>5. d = <<>> <=> Len(d) = 0
  BY <1>2, EmptySeq
<1>6. DOMAIN d = 1 .. Len(d)
  BY <1>2, LenProperties
<1> HIDE DEF n, d
<1>7. DOMAIN d = 1 .. n - 1 /\ (d = <<>> <=> n = 1) /\ \A a \in 1 .. n - 1 : d[a] = c[a + 1]
  BY <1>1, <1>2, <1>5, <1>6
<1>8. Last(c) = IF d = <<>> THEN Head(c) ELSE Last(d)
  BY <1>1, <1>2, <1>3, <1>4, <1>7
<1>9. Ordered(d)
  <2> SUFFICES ASSUME NEW a \in 1 .. n - 1, NEW b \in 1 .. n - 1, a < b PROVE Precedes(d[a], d[b])
    BY <1>7 DEF Ordered
  <2>1. a + 1 \in 1 .. n /\ b + 1 \in 1 .. n /\ a + 1 < b + 1
    BY <1>1
  <2> QED BY <1>1, <1>7, <2>1 DEF Ordered
<1>10. \A r \in ToSet(d) : Precedes(Head(c), r) /\ r \in ToSet(c)
  <2> TAKE r \in ToSet(d)
  <2>1. PICK a \in 1 .. n - 1 : r = d[a]
    BY <1>7 DEF ToSet
  <2>2. a + 1 \in 1 .. n /\ 1 \in 1 .. n /\ 1 < a + 1
    BY <1>1
  <2> QED BY <1>1, <1>3, <1>7, <2>1, <2>2 DEF Ordered, ToSet
<1>11. \A r \in ToSet(c) : r = Head(c) \/ r \in ToSet(d)
  <2> TAKE r \in ToSet(c)
  <2>1. PICK a \in 1 .. n : r = c[a]
    BY <1>1 DEF ToSet
  <2>2. CASE a = 1
    BY <1>3, <2>1, <2>2
  <2>3. CASE a # 1
    <3>1. a - 1 \in 1 .. n - 1 /\ (a - 1) + 1 = a
      BY <1>1, <2>3
    <3> QED BY <1>7, <2>1, <3>1 DEF ToSet
  <2> QED BY <2>2, <2>3
<1>12. Head(c) \in ToSet(c)
  BY <1>1, <1>3 DEF ToSet
<1> QED BY <1>2, <1>8, <1>9, <1>10, <1>11, <1>12 DEF d, n

\* One more record, after all others.
LEMMA OneMore ==
  ASSUME NEW s \in Seq(Records), NEW e \in Records,
         Ordered(s), \A r \in ToSet(s) : Precedes(r, e)
  PROVE  /\ Append(s, e) \in Seq(Records) /\ Ordered(Append(s, e)) /\ Len(Append(s, e)) = Len(s) + 1
         /\ ToSet(Append(s, e)) = ToSet(s) \cup {e} /\ Append(s, e) # <<>> /\ Last(Append(s, e)) = e
<1> DEFINE n == Len(s)
           t == Append(s, e)
<1>1. n \in Nat /\ DOMAIN s = 1 .. n
  BY LenProperties
<1>2. t \in Seq(Records) /\ Len(t) = n + 1 /\ t[n + 1] = e /\ \A a \in 1 .. n : t[a] = s[a]
  BY AppendProperties
<1>3. DOMAIN t = 1 .. n + 1
  BY <1>2, LenProperties
<1>6. t # <<>> /\ Last(t) = e
  <2>1. Last(t) = t[Len(t)]
    BY DEF Last
  <2> HIDE DEF n, t
  <2>2. Len(t) # 0
    BY <1>1, <1>2
  <2> QED BY <1>2, <2>1, <2>2, EmptySeq
<1> HIDE DEF n, t
<1>4. Ordered(t)
  <2> SUFFICES ASSUME NEW a \in 1 .. n + 1, NEW b \in 1 .. n + 1, a < b PROVE Precedes(t[a], t[b])
    BY <1>3 DEF Ordered
  <2>1. a \in 1 .. n /\ s[a] \in ToSet(s)
    BY <1>1 DEF ToSet
  <2>2. CASE b = n + 1
    BY <1>2, <2>1, <2>2
  <2>3. CASE b # n + 1
    <3>1. b \in 1 .. n
      BY <1>1, <2>3
    <3> QED BY <1>1, <1>2, <2>1, <3>1 DEF Ordered
  <2> QED BY <2>2, <2>3
<1>5. ToSet(t) = ToSet(s) \cup {e}
  <2>1. ASSUME NEW r \in ToSet(t) PROVE r \in ToSet(s) \/ r = e
    <3>1. PICK a \in 1 .. n + 1 : r = t[a]
      BY <1>3 DEF ToSet
    <3>2. a = n + 1 \/ a \in 1 .. n
      BY <1>1
    <3> QED BY <1>1, <1>2, <3>1, <3>2 DEF ToSet
  <2>2. ASSUME NEW r \in ToSet(s) PROVE r \in ToSet(t)
    <3>1. PICK a \in 1 .. n : r = s[a]
      BY <1>1 DEF ToSet
    <3>2. a \in 1 .. n + 1
      BY <1>1
    <3> QED BY <1>2, <1>3, <3>1, <3>2 DEF ToSet
  <2>3. e \in ToSet(t)
    <3>1. n + 1 \in 1 .. n + 1
      BY <1>1
    <3> QED BY <1>2, <1>3, <3>1 DEF ToSet
  <2> QED BY <2>1, <2>2, <2>3
<1> QED BY <1>2, <1>4, <1>5, <1>6 DEF t, n

------------------------------------------------------------------------------
(* Cursors.                                                                *)

\* A search finds the first key at or after its start, or that there is none.
Fits(i, s, k, j) == j >= k /\ <<j, s>> \in store /\ TimeOf(j) <= i.hi
LEMMA SeeksFirst ==
  ASSUME NEW i, NEW s, NEW k
  PROVE  /\ SeekFrom(i, s, k) \in Keys \cup {Done}
         /\ SeekFrom(i, s, k) = Done => \A j \in Keys : ~Fits(i, s, k, j)
         /\ SeekFrom(i, s, k) # Done => /\ Fits(i, s, k, SeekFrom(i, s, k))
                                        /\ \A j \in Keys : Fits(i, s, k, j) => SeekFrom(i, s, k) <= j
<1> DEFINE ks == {j \in Keys : Fits(i, s, k, j)}
           c == SeekFrom(i, s, k)
<1>1. c = IF ks = {} THEN Done ELSE Min(ks)
  BY DEF SeekFrom, Fits
<1>2. \A j : j \in ks <=> j \in Keys /\ Fits(i, s, k, j)
  OBVIOUS
<1> HIDE DEF ks, c
<1>3. CASE ks = {}
  BY <1>1, <1>2, <1>3 DEF c
<1>4. CASE ks # {}
  <2>1. ks \in SUBSET Nat
    BY <1>2, RecordIs
  <2>2. \E x \in ks : \A y \in ks : x <= y
    BY <1>4, <2>1, LeastElement
  <2>3. Min(ks) \in ks /\ \A y \in ks : Min(ks) <= y
    BY <2>2 DEF Min
  <2>4. Min(ks) # Done
    BY <2>1, <2>3, BoundsAssumption
  <2>5. c = Min(ks)
    BY <1>1, <1>4
  <2> QED BY <1>2, <2>3, <2>4, <2>5 DEF c
<1> QED BY <1>3, <1>4

\* Where the stream of iterator i has come to.
LEMMA FurthestIs ==
  ASSUME NEW i \in Iterators, Sorted(i), emitted \in Seq(Records)
  PROVE  /\ i.buf \in Seq(Records) /\ Len(i.buf) <= Chunk /\ Out(i) \subseteq Records
         /\ Started(i) => /\ Furthest(i) \in Out(i) /\ Furthest(i) \in Records
                          /\ \A r \in Out(i) : r = Furthest(i) \/ Precedes(r, Furthest(i))
         /\ ~Started(i) => Out(i) = {}
<1>1. i.buf \in Seq(Records) /\ Len(i.buf) <= Chunk
  <2>1. i.buf \in BoundedSeq(Records, Chunk)
    BY DEF Iterators
  <2> QED BY <2>1, BoundedIs, BoundsAssumption
<1>2. Out(i) \subseteq Records
  BY <1>1, Members DEF Out
<1>3. CASE i.buf # <<>>
  <2>1. /\ Last(i.buf) \in ToSet(i.buf)
        /\ \A r \in ToSet(i.buf) : r = Last(i.buf) \/ Precedes(r, Last(i.buf))
    BY <1>1, <1>3, LastIsFurthest DEF Sorted
  <2>2. \A r \in ToSet(emitted) : Precedes(r, Last(i.buf))
    BY <2>1 DEF Sorted
  <2>3. Furthest(i) = Last(i.buf) /\ Started(i)
    BY <1>3 DEF Furthest, Started
  <2> QED BY <1>1, <1>2, <2>1, <2>2, <2>3 DEF Out
<1>4. CASE i.buf = <<>> /\ i.started
  <2>1. Furthest(i) = i.last /\ Started(i) /\ Out(i) = ToSet(emitted)
    BY <1>4, Members DEF Furthest, Started, Out
  <2> QED BY <1>1, <1>2, <1>4, <2>1 DEF Sorted
<1>5. CASE i.buf = <<>> /\ ~i.started
  BY <1>1, <1>5, Members DEF Started, Out, Sorted
<1> QED BY <1>3, <1>4, <1>5

\* multi_reposition of an iterator with an empty buffer finds every cursor: from
\* the last record handed out, or from the start of the range.
LEMMA Repositions ==
  ASSUME NEW i \in Iterators, i.buf = <<>>, i.started => i.last \in Covered(i, Records),
         NEW k, NEW skip, NEW j, j = Repositioned(i, k, skip), txn \in Nat,
         IF i.started THEN k = i.last[1] /\ skip = TRUE ELSE k = StartOf(i.lo) /\ skip = FALSE
  PROVE  j \in Iterators /\ \A s \in Symbols : CursorOK(j, s)
<1> DEFINE
      found(s) == SeekFrom(i, s, k)
      cur(s) == IF s \notin i.list THEN Done
                ELSE IF found(s) # Done /\ skip /\ AlreadyOut(i, s, found(s))
                     THEN SeekFrom(i, s, found(s) + 1) ELSE found(s)
      new == [s \in Symbols |-> cur(s)]
<1>1. j = [i EXCEPT !.pos = txn, !.cur = new]
  BY DEF Repositioned
<1>2. ASSUME NEW s \in Symbols PROVE cur(s) \in Keys \cup {Done}
  BY SeeksFirst
<1>3. new \in [Symbols -> Keys \cup {Done}]
  BY <1>2
<1>4. j \in Iterators
  <2> HIDE DEF new
  <2> QED BY <1>1, <1>3 DEF Iterators
<1>5. /\ j.buf = <<>> /\ j.started = i.started /\ j.last = i.last /\ j.list = i.list
      /\ j.lo = i.lo /\ j.hi = i.hi /\ j.cur = new
  <2> HIDE DEF new
  <2> QED BY <1>1 DEF Iterators
<1>6. ASSUME NEW s \in Symbols PROVE CursorOK(j, s)
  <2> DEFINE Later(m) == i.started => Precedes(i.last, <<m, s>>)
  <2>1. \A m : After(j, <<m, s>>) <=> Later(m)
    BY <1>5 DEF After, Started, Furthest
  <2>2. \A m \in Keys : m \in Rest(j, s) <=>
           /\ <<m, s>> \in store /\ s \in i.list /\ TimeOf(m) \in i.lo .. i.hi /\ Later(m)
    BY <1>5, <2>1 DEF Rest, Covered
  <2>3. j.cur[s] = cur(s)
    BY <1>5
  <2>4. i.lo \in Nat /\ i.hi \in Nat
    <3>1. \A t \in Times : t \in Nat
      BY RecordIs, TimeFacts DEF Times
    <3> QED BY <3>1 DEF Iterators
  <2>5. CASE s \notin i.list
    BY <2>2, <2>3, <2>5 DEF CursorOK, Rest
  <2>6. CASE s \in i.list /\ ~i.started
    <3>1. k = StartOf(i.lo) /\ cur(s) = found(s)
      BY <2>6
    <3> DEFINE ks == {m \in Keys : Fits(i, s, k, m)}
    <3>2. ks = Rest(j, s)
      <4>1. \A m \in Keys : m >= k <=> TimeOf(m) >= i.lo
        BY <2>4, <3>1, RecordIs, TimeFacts
      <4>2. \A m \in Keys : TimeOf(m) \in Nat
        BY RecordIs, TimeFacts
      <4>3. \A m \in Keys : m \in ks <=> m \in Rest(j, s)
        BY <2>2, <2>4, <2>6, <4>1, <4>2 DEF Fits
      <4> QED BY <4>3 DEF Rest
    <3> HIDE DEF cur
    <3>3. /\ found(s) = Done => ks = {}
          /\ found(s) # Done => found(s) \in ks /\ \A m \in ks : found(s) <= m
      BY SeeksFirst
    <3> HIDE DEF ks, found
    <3> QED BY <2>3, <3>1, <3>2, <3>3 DEF CursorOK
  <2>7. CASE s \in i.list /\ i.started
    <3> DEFINE ks == {m \in Keys : Fits(i, s, k, m)}
               c == found(s)
    <3>1. /\ k = i.last[1] /\ skip = TRUE /\ k \in Keys /\ TimeOf(k) >= i.lo
          /\ i.last[2] \in Symbols /\ k \in Nat /\ s \in Nat /\ i.last[2] \in Nat
      BY <2>4, <2>7, RecordIs DEF Covered
    <3>2. /\ c = Done => ks = {}
          /\ c # Done => c \in ks /\ \A m \in ks : c <= m
      BY SeeksFirst
    <3> HIDE DEF c
    <3>3. \A m \in Keys : Later(m) <=> k < m \/ (k = m /\ i.last[2] < s)
      BY <2>7, <3>1 DEF Precedes
    <3>4. \A m \in Keys : m \in Nat /\ TimeOf(m) \in Nat /\ (m >= k => TimeOf(m) >= i.lo)
      <4> TAKE m \in Keys
      <4>1. m \in Nat /\ TimeOf(m) \in Nat /\ TimeOf(k) \in Nat /\ (m >= k => TimeOf(k) <= TimeOf(m))
        BY <3>1, RecordIs, TimeFacts, TimesInOrder
      <4> QED BY <2>4, <3>1, <4>1
    <3>5. \A m \in Keys : m \in Rest(j, s) <=> m \in ks /\ Later(m)
      <4>1. \A m \in Keys : Later(m) => m >= k
        BY <3>1, <3>3, <3>4
      <4>2. \A m \in Keys : m \in ks <=> m >= k /\ <<m, s>> \in store /\ TimeOf(m) <= i.hi
        BY DEF Fits
      <4> HIDE DEF Later, ks
      <4> TAKE m \in Keys
      <4>3. TimeOf(m) \in Nat /\ (Later(m) => TimeOf(m) >= i.lo /\ m >= k)
        BY <3>4, <4>1
      <4>4. TimeOf(m) \in i.lo .. i.hi <=> TimeOf(m) >= i.lo /\ TimeOf(m) <= i.hi
        BY <2>4, <4>3
      <4> QED BY <2>2, <2>7, <4>2, <4>3, <4>4
    <3>6. cur(s) = IF c # Done /\ c = k /\ s <= i.last[2] THEN SeekFrom(i, s, c + 1) ELSE c
      BY <2>7, <3>1 DEF AlreadyOut, c
    <3> HIDE DEF cur, Later, found
    <3>7. CASE c = Done
      BY <2>3, <3>2, <3>5, <3>6, <3>7 DEF CursorOK, Rest
    <3>8. CASE c # Done /\ ~(c = k /\ s <= i.last[2])
      <4>1. c \in Keys /\ c \in Nat /\ c >= k
        BY <3>2, <3>4, <3>8 DEF Fits
      <4>2. Later(c)
        BY <3>1, <3>3, <3>8, <4>1
      <4>3. c \in Rest(j, s) /\ \A m \in Rest(j, s) : c <= m
        BY <3>2, <3>5, <3>8, <4>1, <4>2 DEF Rest
      <4> QED BY <2>3, <3>6, <3>8, <4>3 DEF CursorOK
    <3>9. CASE c # Done /\ c = k /\ s <= i.last[2]
      <4> DEFINE d == SeekFrom(i, s, c + 1)
      <4>1. /\ d = Done => \A m \in Keys : ~Fits(i, s, c + 1, m)
            /\ d # Done => d \in Keys /\ Fits(i, s, c + 1, d)
            /\ d # Done => \A m \in Keys : Fits(i, s, c + 1, m) => d <= m
        BY SeeksFirst
      <4>2. \A m \in Keys : m \in Rest(j, s) <=> Fits(i, s, c + 1, m)
        <5> TAKE m \in Keys
        <5>1. Later(m) <=> m >= c + 1
          BY <3>1, <3>3, <3>4, <3>9
        <5>2. m >= c + 1 => m >= k
          BY <3>1, <3>4, <3>9
        <5> QED BY <3>5, <5>1, <5>2 DEF Fits
      <4>3. j.cur[s] = d
        BY <2>3, <3>6, <3>9
      <4> HIDE DEF d
      <4>4. \A m : m \in Rest(j, s) => m \in Keys
        BY DEF Rest
      <4> QED BY <4>1, <4>2, <4>3, <4>4 DEF CursorOK
    <3> QED BY <3>7, <3>8, <3>9
  <2> QED BY <2>5, <2>6, <2>7
<1> QED BY <1>4, <1>6

------------------------------------------------------------------------------
(* Filling a chunk.                                                        *)

\* What of an iterator a chunk leaves alone.
SameScan(g, i) ==
  /\ g.open = i.open /\ g.nonblocking = i.nonblocking /\ g.list = i.list
  /\ g.lo = i.lo /\ g.hi = i.hi /\ g.pos = i.pos /\ g.seen = i.seen
  /\ g.started = i.started /\ g.last = i.last
  /\ g.exhausted = i.exhausted /\ g.status = i.status

\* A chunk of n records for iterator i, as far as pages could be read.
ChunkOK(g, i, n) ==
  /\ g \in Iterators /\ SameScan(g, i) /\ Len(g.buf) = n
  /\ Sorted(g) /\ ToSet(g.buf) \subseteq Covered(i, store)
  /\ \A s \in Symbols : (g.failed /\ g.cur[s] = Done) \/ CursorOK(g, s)
  /\ g.failed \/ kept \subseteq Out(g) \cup ToCome(g)

\* Unreadable pages take cursors away and say so.
LEMMA LossesAre ==
  ASSUME NEW f \in Iterators, NEW g \in WithLosses(f)
  PROVE  /\ g \in Iterators /\ SameScan(g, f) /\ g.buf = f.buf
         /\ g = f \/ g.failed = TRUE
         /\ \A s \in Symbols : g.cur[s] = f.cur[s] \/ (g.failed = TRUE /\ g.cur[s] = Done)
<1>1. CASE g = f
  BY <1>1 DEF SameScan
<1>2. CASE g # f
  <2>1. PICK L : g = [f EXCEPT !.cur = [s \in Symbols |-> IF s \in L THEN Done ELSE @[s]], !.failed = TRUE]
    BY <1>2 DEF WithLosses
  <2> DEFINE cur == [s \in Symbols |-> IF s \in L THEN Done ELSE f.cur[s]]
  <2>2. g = [f EXCEPT !.cur = cur, !.failed = TRUE]
    BY <2>1
  <2>3. cur \in [Symbols -> Keys \cup {Done}]
    BY DEF Iterators
  <2>4. \A s \in Symbols : cur[s] = f.cur[s] \/ cur[s] = Done
    OBVIOUS
  <2> HIDE DEF cur
  <2>5. g \in Iterators
    BY <2>2, <2>3 DEF Iterators
  <2>6. g.buf = f.buf /\ g.failed = TRUE /\ g.cur = cur
    BY <2>2 DEF Iterators
  <2>7. SameScan(g, f)
    BY <2>2 DEF Iterators, SameScan
  <2> QED BY <2>4, <2>5, <2>6, <2>7
<1> QED BY <1>1, <1>2

\* What depends on the buffer and the scan, and not on the cursors.
LEMMA SameStream ==
  ASSUME NEW g, NEW f, SameScan(g, f), g.buf = f.buf
  PROVE  /\ Out(g) = Out(f) /\ (Started(g) <=> Started(f))
         /\ \A r : After(g, r) <=> After(f, r)
         /\ \A s : Rest(g, s) = Rest(f, s)
         /\ ToCome(g) = ToCome(f) /\ (Sorted(g) <=> Sorted(f))
         /\ \A S : Covered(g, S) = Covered(f, S)
<1>1. g.started = f.started /\ g.last = f.last /\ g.list = f.list /\ g.lo = f.lo /\ g.hi = f.hi
  BY DEF SameScan
<1>2. Out(g) = Out(f)
  BY DEF Out
<1>3. Started(g) <=> Started(f)
  BY <1>1 DEF Started
<1>4. \A r : After(g, r) <=> After(f, r)
  BY <1>1, <1>3 DEF After, Furthest
<1>5. \A S : Covered(g, S) = Covered(f, S)
  BY <1>1 DEF Covered
<1>6. \A s : Rest(g, s) = Rest(f, s)
  BY <1>4, <1>5 DEF Rest
<1>7. ToCome(g) = ToCome(f)
  BY <1>4 DEF ToCome
<1>8. Sorted(g) <=> Sorted(f)
  BY <1>1 DEF Sorted
<1> QED BY <1>2, <1>3, <1>4, <1>5, <1>6, <1>7, <1>8

\* Losses leave a chunk a chunk.
LEMMA LossesKeep ==
  ASSUME NEW i, NEW n, NEW f, ChunkOK(f, i, n), NEW g \in WithLosses(f)
  PROVE  ChunkOK(g, i, n)
<1>1. /\ f \in Iterators /\ SameScan(f, i) /\ Len(f.buf) = n /\ Sorted(f)
      /\ ToSet(f.buf) \subseteq Covered(i, store)
      /\ \A s \in Symbols : (f.failed /\ f.cur[s] = Done) \/ CursorOK(f, s)
      /\ f.failed \/ kept \subseteq Out(f) \cup ToCome(f)
  BY DEF ChunkOK
<1>2. /\ g \in Iterators /\ SameScan(g, f) /\ g.buf = f.buf
      /\ g = f \/ g.failed = TRUE
      /\ \A s \in Symbols : g.cur[s] = f.cur[s] \/ (g.failed = TRUE /\ g.cur[s] = Done)
  BY <1>1, LossesAre
<1>3. SameScan(g, i)
  BY <1>1, <1>2 DEF SameScan
<1>4. /\ Out(g) = Out(f) /\ ToCome(g) = ToCome(f) /\ (Sorted(g) <=> Sorted(f))
      /\ \A s : Rest(g, s) = Rest(f, s)
  BY <1>2, SameStream
<1>5. ASSUME NEW s \in Symbols PROVE (g.failed /\ g.cur[s] = Done) \/ CursorOK(g, s)
  <2>1. CASE g = f
    BY <1>1, <2>1
  <2>2. CASE g.failed = TRUE
    <3>1. CASE g.cur[s] = Done
      BY <2>2, <3>1
    <3>2. CASE g.cur[s] # Done
      <4>1. g.cur[s] = f.cur[s] /\ CursorOK(f, s)
        BY <1>1, <1>2, <3>2
      <4> QED BY <1>4, <4>1 DEF CursorOK
    <3> QED BY <3>1, <3>2
  <2> QED BY <1>2, <2>1, <2>2
<1> QED BY <1>1, <1>2, <1>3, <1>4, <1>5 DEF ChunkOK

\* The record at the top of the heap goes to the chunk, and its symbol goes on.
LEMMA AppendKeeps ==
  ASSUME emitted \in Seq(Records), store \in SUBSET Records, NEW i \in Iterators,
         kept \subseteq Covered(i, store),
         NEW n \in Nat, n < Chunk, NEW f, ChunkOK(f, i, n), NEW r \in NextOut(f),
         NEW g, g = Appended(f, r)
  PROVE  ChunkOK(g, i, n + 1)
<1>1. /\ f \in Iterators /\ SameScan(f, i) /\ Len(f.buf) = n /\ Sorted(f)
      /\ ToSet(f.buf) \subseteq Covered(i, store)
      /\ \A s \in Symbols : (f.failed /\ f.cur[s] = Done) \/ CursorOK(f, s)
      /\ f.failed \/ kept \subseteq Out(f) \cup ToCome(f)
  BY DEF ChunkOK
<1>2. \A S : Covered(f, S) = Covered(i, S)
  BY <1>1 DEF SameScan, Covered
\* The record comes behind all that is out already.
<1>3. PICK s \in Symbols : f.cur[s] # Done /\ r = <<f.cur[s], s>>
  BY DEF NextOut, Heap
<1> DEFINE k == f.cur[s]
<1>4. /\ k \in Rest(f, s) /\ k \in Keys /\ r \in Covered(f, store) /\ After(f, r)
      /\ r \in Records /\ r[1] = k /\ r[2] = s
  BY <1>1, <1>3, RecordIs DEF CursorOK, Rest
<1>5. /\ f.buf \in Seq(Records) /\ Out(f) \subseteq Records
      /\ Started(f) => /\ Furthest(f) \in Out(f) /\ Furthest(f) \in Records
                       /\ \A q \in Out(f) : q = Furthest(f) \/ Precedes(q, Furthest(f))
      /\ ~Started(f) => Out(f) = {}
  BY <1>1, FurthestIs
<1>6. ASSUME NEW q \in Out(f) PROVE Precedes(q, r)
  <2>1. Started(f) /\ Precedes(Furthest(f), r)
    BY <1>4, <1>5 DEF After
  <2>2. q \in Records /\ (q = Furthest(f) \/ Precedes(q, Furthest(f))) /\ Furthest(f) \in Records
    BY <1>5, <2>1
  <2> QED BY <1>4, <2>1, <2>2, RecordOrder
<1> DEFINE buf == Append(f.buf, r)
<1>7. /\ buf \in Seq(Records) /\ Ordered(buf) /\ Len(buf) = n + 1
      /\ ToSet(buf) = ToSet(f.buf) \cup {r} /\ buf # <<>> /\ Last(buf) = r
  <2>1. \A q \in ToSet(f.buf) : Precedes(q, r)
    BY <1>6 DEF Out
  <2> QED BY <1>1, <1>4, <1>5, <2>1, OneMore DEF Sorted
<1> HIDE DEF buf
<1> DEFINE d == SeekFrom(f, s, k + 1)
           cur == [f.cur EXCEPT ![s] = d]
<1>8. g = [f EXCEPT !.buf = buf, !.cur = cur]
  BY <1>4 DEF Appended, buf
<1>9. /\ d \in Keys \cup {Done}
      /\ d = Done => \A j \in Keys : ~Fits(f, s, k + 1, j)
      /\ d # Done => /\ Fits(f, s, k + 1, d)
                     /\ \A j \in Keys : Fits(f, s, k + 1, j) => d <= j
  BY SeeksFirst
<1> HIDE DEF d
<1>10. /\ cur \in [Symbols -> Keys \cup {Done}] /\ cur[s] = d
       /\ \A z \in Symbols : z # s => cur[z] = f.cur[z]
  <2>1. f.cur \in [Symbols -> Keys \cup {Done}]
    BY <1>1 DEF Iterators
  <2> QED BY <1>9, <2>1
<1> HIDE DEF cur
<1>11. g \in Iterators
  <2>1. buf \in BoundedSeq(Records, Chunk)
    <3>1. Len(buf) <= Chunk
      BY <1>7, BoundsAssumption
    <3> QED BY <1>7, <3>1, BoundedIs, BoundsAssumption
  <2> QED BY <1>1, <1>8, <1>10, <2>1 DEF Iterators
<1>12. g.buf = buf /\ g.cur = cur /\ g.failed = f.failed
  BY <1>1, <1>8 DEF Iterators
<1>13. SameScan(g, f)
  BY <1>1, <1>8 DEF Iterators, SameScan
<1>14. SameScan(g, i)
  BY <1>1, <1>13 DEF SameScan
<1>15. \A S : Covered(g, S) = Covered(f, S)
  BY <1>13 DEF SameScan, Covered
<1>16. Sorted(g)
  <2>1. \A q \in ToSet(emitted), p \in ToSet(buf) : Precedes(q, p)
    <3>1. \A q \in ToSet(emitted) : Precedes(q, r)
      BY <1>6 DEF Out
    <3> QED BY <1>1, <1>7, <3>1 DEF Sorted
  <2> QED BY <1>1, <1>7, <1>12, <1>13, <2>1 DEF Sorted, SameScan
<1>17. /\ \A q : After(g, q) <=> Precedes(r, q)
       /\ Out(g) = Out(f) \cup {r}
  BY <1>7, <1>12 DEF After, Started, Furthest, Out
\* What is behind it is what was behind the one before, without it.
<1>18. \A q \in Records : After(g, q) => After(f, q)
  <2> TAKE q \in Records
  <2>1. Started(f) /\ Precedes(r, q) => Precedes(Furthest(f), q)
    BY <1>4, <1>5, RecordOrder DEF After
  <2> QED BY <1>17, <2>1 DEF After
<1>19. ASSUME NEW z \in Symbols, CursorOK(f, z), NEW j \in Rest(f, z), <<j, z>> # r
       PROVE  Precedes(r, <<j, z>>)
  <2>1. f.cur[z] # Done /\ f.cur[z] \in Keys /\ f.cur[z] <= j /\ j \in Keys
    BY <1>19 DEF CursorOK, Rest
  <2> DEFINE q == <<f.cur[z], z>>
  <2>2. q \in Heap(f) /\ q \in Records /\ <<j, z>> \in Records
    BY <2>1, RecordIs DEF Heap
  <2>3. q = r \/ Precedes(r, q)
    BY <2>2 DEF NextOut
  <2>4. q = <<j, z>> \/ Precedes(q, <<j, z>>)
    BY <2>1, RecordIs DEF Precedes
  <2> HIDE DEF q
  <2> QED BY <1>4, <1>19, <2>2, <2>3, <2>4, RecordOrder
<1>20. ASSUME NEW z \in Symbols PROVE (g.failed /\ g.cur[z] = Done) \/ CursorOK(g, z)
  <2>1. CASE z = s
    <3>1. \A j \in Keys : j \in Rest(g, s) <=> Fits(f, s, k + 1, j)
      <4> TAKE j \in Keys
      <4>1. /\ j \in Nat /\ k \in Nat /\ s \in Nat /\ TimeOf(j) \in Nat /\ TimeOf(k) \in Nat
            /\ (k <= j => TimeOf(k) <= TimeOf(j))
        BY <1>4, RecordIs, TimeFacts, TimesInOrder
      <4>2. Precedes(r, <<j, s>>) <=> j >= k + 1
        BY <1>4, <4>1 DEF Precedes
      <4>3. s \in f.list /\ TimeOf(k) \in f.lo .. f.hi
        BY <1>4 DEF Covered
      <4>4. f.lo \in Nat /\ f.hi \in Nat
        <5>1. \A t \in Times : t \in Nat
          BY RecordIs, TimeFacts DEF Times
        <5> QED BY <1>1, <5>1 DEF Iterators
      <4>5. j >= k + 1 => TimeOf(j) >= f.lo
        BY <4>1, <4>3, <4>4
      <4>6. <<j, s>> \in Covered(f, store) <=>
              <<j, s>> \in store /\ TimeOf(j) >= f.lo /\ TimeOf(j) <= f.hi
        BY <4>1, <4>3, <4>4 DEF Covered
      <4>7. j \in Rest(g, s) <=> <<j, s>> \in Covered(f, store) /\ Precedes(r, <<j, s>>)
        BY <1>15, <1>17 DEF Rest
      <4> QED BY <4>2, <4>5, <4>6, <4>7 DEF Fits
    <3>2. g.cur[s] = d
      BY <1>10, <1>12
    <3>3. \A j : j \in Rest(g, s) => j \in Keys
      BY DEF Rest
    <3>4. CursorOK(g, s)
      BY <1>9, <3>1, <3>2, <3>3 DEF CursorOK
    <3> QED BY <2>1, <3>4
  <2>2. CASE z # s
    <3>1. g.cur[z] = f.cur[z] /\ g.failed = f.failed
      BY <1>10, <1>12, <2>2
    <3>2. CASE f.failed /\ f.cur[z] = Done
      BY <3>1, <3>2
    <3>3. CASE CursorOK(f, z)
      <4>1. \A j : j \in Rest(g, z) <=> j \in Rest(f, z)
        <5>1. ASSUME NEW j \in Rest(g, z) PROVE j \in Rest(f, z)
          <6>1. j \in Keys /\ <<j, z>> \in Records
            BY RecordIs DEF Rest
          <6> QED BY <1>15, <1>18, <6>1 DEF Rest
        <5>2. ASSUME NEW j \in Rest(f, z) PROVE j \in Rest(g, z)
          <6>1. <<j, z>> # r
            BY <1>4, <2>2
          <6>2. Precedes(r, <<j, z>>)
            BY <1>19, <3>3, <6>1
          <6> QED BY <1>15, <1>17, <6>2 DEF Rest
        <5> QED BY <5>1, <5>2
      <4>2. Rest(g, z) = Rest(f, z)
        BY <4>1 DEF Rest
      <4> QED BY <3>1, <3>3, <4>2 DEF CursorOK
    <3> QED BY <1>1, <3>2, <3>3
  <2> QED BY <2>1, <2>2
<1>21. g.failed \/ kept \subseteq Out(g) \cup ToCome(g)
  <2> SUFFICES ASSUME ~f.failed, NEW q \in kept PROVE q \in Out(g) \cup ToCome(g)
    BY <1>12
  <2>1. q \in Covered(f, store) /\ q \in Records
    BY <1>2 DEF Covered
  <2>2. CASE q \in Out(f)
    BY <1>17, <2>2
  <2>3. CASE q \notin Out(f) /\ q # r
    <3>1. After(f, q)
      BY <1>1, <2>3 DEF ToCome
    <3>2. q[1] \in Keys /\ q[2] \in Symbols /\ q = <<q[1], q[2]>>
      BY <2>1, RecordIs
    <3>3. q[1] \in Rest(f, q[2]) /\ CursorOK(f, q[2])
      BY <1>1, <2>1, <3>1, <3>2 DEF Rest
    <3>4. Precedes(r, q)
      BY <1>19, <2>3, <3>2, <3>3
    <3> QED BY <1>17, <2>1, <3>4 DEF ToCome
  <2> QED BY <1>17, <2>2, <2>3
<1>22. ToSet(buf) \subseteq Covered(i, store)
  BY <1>1, <1>2, <1>4, <1>7
<1> QED BY <1>7, <1>11, <1>12, <1>14, <1>16, <1>20, <1>21, <1>22 DEF ChunkOK

\* The chunks of n records, one turn after the other.
FirstTurn(i) == WithLosses([i EXCEPT !.buf = <<>>])
NextTurn(F) == UNION {UNION {WithLosses(Appended(f, r)) : r \in NextOut(f)} : f \in F}
TurnsUpTo(i, n, e) == e = [m \in 0 .. n |-> IF m = 0 THEN FirstTurn(i) ELSE NextTurn(e[m - 1])]

\* Such turns exist, for every number of them: the least number without would
\* have one less.
LEMMA TurnsExist ==
  ASSUME NEW i, NEW n \in Nat PROVE \E e : TurnsUpTo(i, n, e)
<1> DEFINE Bad == {m \in Nat : ~\E e : TurnsUpTo(i, m, e)}
<1>1. SUFFICES ASSUME n \in Bad PROVE FALSE
  OBVIOUS
<1>2. PICK m \in Bad : \A l \in Bad : m <= l
  <2>1. Bad \in SUBSET Nat /\ Bad # {}
    BY <1>1
  <2> HIDE DEF Bad
  <2> QED BY <2>1, LeastElement
<1>3. m \in Nat /\ ~\E e : TurnsUpTo(i, m, e)
  OBVIOUS
<1>4. CASE m = 0
  <2> DEFINE e == [l \in 0 .. 0 |-> FirstTurn(i)]
  <2>1. e = [l \in 0 .. 0 |-> IF l = 0 THEN FirstTurn(i) ELSE NextTurn(e[l - 1])]
    OBVIOUS
  <2> HIDE DEF e
  <2>2. TurnsUpTo(i, m, e)
    BY <1>4, <2>1 DEF TurnsUpTo
  <2> QED BY <1>3, <2>2
<1>5. CASE m # 0
  <2>1. m - 1 \in Nat /\ m - 1 \notin Bad
    BY <1>2, <1>3, <1>5
  <2>2. PICK d : TurnsUpTo(i, m - 1, d)
    BY <2>1
  <2> HIDE DEF Bad
  <2> DEFINE e == [l \in 0 .. m |-> IF l = m THEN NextTurn(d[m - 1]) ELSE d[l]]
  <2>3. d = [l \in 0 .. m - 1 |-> IF l = 0 THEN FirstTurn(i) ELSE NextTurn(d[l - 1])]
    BY <2>2 DEF TurnsUpTo
  <2>4. \A l \in 0 .. m : e[l] = IF l = 0 THEN FirstTurn(i) ELSE NextTurn(e[l - 1])
    <3> TAKE l \in 0 .. m
    <3>1. CASE l = 0
      <4>1. 0 \in 0 .. m - 1 /\ 0 # m
        BY <1>3, <1>5
      <4>2. d[0] = FirstTurn(i)
        BY <2>3, <4>1
      <4> QED BY <3>1, <4>1, <4>2
    <3>2. CASE l # 0 /\ l = m
      <4>1. m - 1 \in 0 .. m /\ m - 1 # m
        BY <1>3, <3>2
      <4>2. e[m - 1] = d[m - 1] /\ e[l] = NextTurn(d[m - 1])
        BY <3>2, <4>1
      <4> QED BY <3>2, <4>2
    <3>3. CASE l # 0 /\ l # m
      <4>1. l \in 0 .. m - 1 /\ l - 1 \in 0 .. m /\ l - 1 # m
        BY <1>3, <3>3
      <4>2. e[l - 1] = d[l - 1] /\ e[l] = d[l]
        BY <3>3, <4>1
      <4>3. d[l] = NextTurn(d[l - 1])
        BY <2>3, <3>3, <4>1
      <4> QED BY <3>3, <4>2, <4>3
    <3> QED BY <3>1, <3>2, <3>3
  <2>5. e = [l \in 0 .. m |-> e[l]]
    OBVIOUS
  <2> HIDE DEF e
  <2>6. TurnsUpTo(i, m, e)
    BY <2>4, <2>5 DEF TurnsUpTo
  <2> QED BY <1>3, <2>6
<1> QED BY <1>4, <1>5

\* What iter_fill_multi makes of an iterator is a chunk of at most Chunk records,
\* and an empty one only when no cursor is left.
LEMMA FillsAreChunks ==
  ASSUME emitted \in Seq(Records), store \in SUBSET Records, NEW i \in Iterators,
         kept \subseteq Covered(i, store), ChunkOK(i, i, 0), NEW f \in Fills(i)
  PROVE  \E n \in 0 .. Chunk : \E g : /\ ChunkOK(g, i, n) /\ (g.buf # <<>> \/ Heap(g) = {})
                                       /\ f = [g EXCEPT !.exhausted = (Heap(g) = {})]
<1> DEFINE fill[n \in 0 .. Chunk] ==
             IF n = 0 THEN WithLosses([i EXCEPT !.buf = <<>>])
             ELSE UNION {UNION {WithLosses(Appended(g, r)) : r \in NextOut(g)} : g \in fill[n - 1]}
           fills == UNION {fill[n] : n \in 0 .. Chunk}
<1>1. Fills(i) = {[g EXCEPT !.exhausted = (Heap(g) = {})] :
        g \in {h \in fills : h.buf # <<>> \/ Heap(h) = {}}}
  BY DEF Fills
<1>2. TurnsUpTo(i, Chunk, fill)
  <2>1. fill = CHOOSE e : e = [n \in 0 .. Chunk |->
                 IF n = 0 THEN WithLosses([i EXCEPT !.buf = <<>>])
                 ELSE UNION {UNION {WithLosses(Appended(g, r)) : r \in NextOut(g)} : g \in e[n - 1]}]
    BY DEF fill
  <2>2. fill = CHOOSE e : TurnsUpTo(i, Chunk, e)
    BY <2>1 DEF TurnsUpTo, FirstTurn, NextTurn
  <2>3. \E e : TurnsUpTo(i, Chunk, e)
    BY TurnsExist, BoundsAssumption
  <2> HIDE DEF fill
  <2> QED BY <2>2, <2>3
<1>3. PICK g \in fills : /\ g.buf # <<>> \/ Heap(g) = {}
                         /\ f = [g EXCEPT !.exhausted = (Heap(g) = {})]
  BY <1>1
<1>4. PICK n \in 0 .. Chunk : g \in fill[n]
  OBVIOUS
<1> HIDE DEF fill, fills
<1> DEFINE e == fill
<1>5. /\ \A m \in 0 .. Chunk : e[m] = IF m = 0 THEN FirstTurn(i) ELSE NextTurn(e[m - 1])
      /\ g \in e[n]
  <2>1. e = [m \in 0 .. Chunk |-> IF m = 0 THEN FirstTurn(i) ELSE NextTurn(e[m - 1])]
    BY <1>2 DEF TurnsUpTo
  <2> HIDE DEF e
  <2>2. \A m \in 0 .. Chunk : e[m] = IF m = 0 THEN FirstTurn(i) ELSE NextTurn(e[m - 1])
    BY <2>1
  <2>3. g \in e[n]
    BY <1>4 DEF e
  <2> QED BY <2>2, <2>3
<1> HIDE DEF e
<1> DEFINE Bad == {m \in 0 .. Chunk : ~\A h \in e[m] : ChunkOK(h, i, m)}
<1>6. Bad = {}
  <2>1. SUFFICES ASSUME Bad # {} PROVE FALSE
    OBVIOUS
  <2>2. PICK m \in Bad : \A l \in Bad : m <= l
    <3>1. Bad \in SUBSET Nat
      OBVIOUS
    <3> HIDE DEF Bad
    <3> QED BY <2>1, <3>1, LeastElement
  <2>3. m \in 0 .. Chunk
    OBVIOUS
  <2>4. PICK h \in e[m] : ~ChunkOK(h, i, m)
    OBVIOUS
  <2>5. CASE m = 0
    <3> DEFINE j == [i EXCEPT !.buf = <<>>]
    <3>1. i.buf = <<>>
      <4>1. i.buf \in BoundedSeq(Records, Chunk) /\ Len(i.buf) = 0
        BY DEF ChunkOK, Iterators
      <4> QED BY <4>1, BoundedIs, BoundsAssumption, Members
    <3>2. j = i
      BY <3>1 DEF Iterators
    <3>3. h \in WithLosses(i)
      BY <1>5, <2>3, <2>4, <2>5, <3>2 DEF FirstTurn
    <3> QED BY <2>4, <2>5, <3>3, LossesKeep
  <2>6. CASE m # 0
    <3>1. m - 1 \in 0 .. Chunk /\ m - 1 \in Nat /\ m - 1 < Chunk /\ (m - 1) + 1 = m
      BY <2>3, <2>6, BoundsAssumption
    <3>2. m - 1 \notin Bad
      BY <2>2, <2>3, <3>1
    <3>3. \A l \in e[m - 1] : ChunkOK(l, i, m - 1)
      BY <3>1, <3>2
    <3>4. h \in NextTurn(e[m - 1])
      BY <1>5, <2>3, <2>4, <2>6
    <3>5. PICK l \in e[m - 1] : \E q \in NextOut(l) : h \in WithLosses(Appended(l, q))
      BY <3>4 DEF NextTurn
    <3>5a. PICK r \in NextOut(l) : h \in WithLosses(Appended(l, r))
      BY <3>5
    <3>6. ChunkOK(Appended(l, r), i, m)
      BY <3>1, <3>3, <3>5a, AppendKeeps
    <3> QED BY <2>4, <3>5a, <3>6, LossesKeep
  <2> QED BY <2>5, <2>6
<1>7. ChunkOK(g, i, n)
  BY <1>5, <1>6
<1> QED BY <1>3, <1>7

\* The fields of an iterator that ended with an error.
LEMMA EndedBadly ==
  ASSUME NEW h \in Iterators, NEW f, f = [h EXCEPT !.exhausted = TRUE, !.status = "ERROR"]
  PROVE  /\ f \in Iterators
         /\ f.open = h.open /\ f.nonblocking = h.nonblocking /\ f.list = h.list
         /\ f.lo = h.lo /\ f.hi = h.hi /\ f.cur = h.cur /\ f.pos = h.pos /\ f.seen = h.seen
         /\ f.buf = h.buf /\ f.started = h.started /\ f.last = h.last /\ f.failed = h.failed
         /\ f.exhausted = TRUE /\ f.status = "ERROR"
<1> QED BY DEF Iterators

\* iter_note at the end of a chunk.
LEMMA NotedIs ==
  ASSUME NEW g \in Iterators, NEW f, f = Noted([g EXCEPT !.exhausted = (Heap(g) = {})])
  PROVE  /\ f \in Iterators /\ f.open = g.open /\ f.nonblocking = g.nonblocking /\ f.list = g.list
         /\ f.lo = g.lo /\ f.hi = g.hi /\ f.cur = g.cur /\ f.pos = g.pos /\ f.seen = g.seen
         /\ f.buf = g.buf /\ f.started = g.started /\ f.last = g.last /\ f.failed = g.failed
         /\ f.exhausted <=> g.failed \/ Heap(g) = {}
         /\ f.status = IF g.failed THEN "ERROR" ELSE g.status
<1> DEFINE end == (Heap(g) = {})
           h == [g EXCEPT !.exhausted = end]
<1>1. end \in BOOLEAN /\ f = Noted(h)
  OBVIOUS
<1> HIDE DEF end
<1>2. /\ h \in Iterators /\ h.open = g.open /\ h.nonblocking = g.nonblocking /\ h.list = g.list
      /\ h.lo = g.lo /\ h.hi = g.hi /\ h.cur = g.cur /\ h.pos = g.pos /\ h.seen = g.seen
      /\ h.buf = g.buf /\ h.started = g.started /\ h.last = g.last /\ h.failed = g.failed
      /\ h.exhausted = end /\ h.status = g.status
  BY <1>1 DEF Iterators
<1> HIDE DEF h
<1>3. CASE ~g.failed
  <2>1. f = h
    BY <1>1, <1>2, <1>3 DEF Noted
  <2> QED BY <1>2, <1>3, <2>1 DEF end
<1>4. CASE g.failed
  <2>1. f = [h EXCEPT !.exhausted = TRUE, !.status = "ERROR"]
    BY <1>1, <1>2, <1>4 DEF Noted
  <2>2. h \in Iterators
    BY <1>2
  <2>3. /\ f \in Iterators
        /\ f.open = h.open /\ f.nonblocking = h.nonblocking /\ f.list = h.list
        /\ f.lo = h.lo /\ f.hi = h.hi /\ f.cur = h.cur /\ f.pos = h.pos /\ f.seen = h.seen
        /\ f.buf = h.buf /\ f.started = h.started /\ f.last = h.last /\ f.failed = h.failed
        /\ f.exhausted = TRUE /\ f.status = "ERROR"
    BY <2>1, <2>2, EndedBadly
  <2> QED BY <1>2, <1>4, <2>3
<1> QED BY <1>3, <1>4

\* iter_refill.
LEMMA RefillsKeepWalk ==
  ASSUME TypeOK, NEW i \in Iterators, Walk(i), i.buf = <<>>, NEW f \in Refills(i)
  PROVE  f \in Iterators /\ Walk(f) /\ (f.buf = <<>> => f.exhausted)
<1>1. CASE i.exhausted
  BY <1>1 DEF Refills
<1>2. CASE ~i.exhausted
  <2>1. Placed(i) /\ Sorted(i) /\ Complete(i) /\ Known(i)
    BY DEF Walk
  <2>2. /\ emitted \in Seq(Records) /\ store \in SUBSET Records /\ held \subseteq Records
        /\ txn \in Nat
    BY BoundsAssumption DEF TypeOK
  <2>3. i.status = "OK" /\ ~i.failed /\ ~ended /\ kept \subseteq Out(i) \cup ToCome(i)
    BY <1>2, <2>1 DEF Placed, Complete, Iterators
  <2> DEFINE j == Resumed(i)
  \* Its cursors are good, or are found anew.
  <2>4. /\ j \in Iterators /\ j.buf = <<>> /\ j.seen = txn /\ j.open = i.open
        /\ j.nonblocking = i.nonblocking /\ j.list = i.list /\ j.lo = i.lo /\ j.hi = i.hi
        /\ j.started = i.started /\ j.last = i.last /\ j.status = i.status /\ j.failed = i.failed
        /\ \A s \in Symbols : CursorOK(j, s)
    <3>1. CASE ~i.nonblocking \/ i.seen = txn
      <4>1. j = i /\ i.seen = txn
        BY <2>1, <3>1 DEF Resumed, Placed
      <4> QED BY <1>2, <2>1, <4>1 DEF Placed
    <3>2. CASE ~(~i.nonblocking \/ i.seen = txn)
      <4> DEFINE m == [i EXCEPT !.seen = txn]
                 k == IF i.started THEN i.last[1] ELSE StartOf(i.lo)
                 skip == i.started
      <4>1. m \in Iterators
        BY <2>2 DEF Iterators
      <4>2. /\ m.seen = txn /\ m.buf = <<>> /\ m.started = i.started /\ m.last = i.last /\ m.lo = i.lo
            /\ m.open = i.open /\ m.nonblocking = i.nonblocking /\ m.list = i.list /\ m.hi = i.hi
            /\ m.status = i.status /\ m.failed = i.failed
        BY DEF Iterators
      <4>3. j = Repositioned(m, k, skip)
        BY <3>2 DEF Resumed, Iterators
      <4>4. i.started => i.last \in Covered(m, Records)
        <5>1. i.started => i.last \in Covered(i, held)
          BY <2>1 DEF Sorted, Known, Out
        <5> QED BY <2>2, <4>2, <5>1 DEF Covered
      <4>5. i.started \in BOOLEAN
        BY DEF Iterators
      <4> HIDE DEF m
      <4>6. j \in Iterators /\ \A s \in Symbols : CursorOK(j, s)
        BY <2>2, <4>1, <4>2, <4>3, <4>4, <4>5, Repositions
      <4>7. /\ j.buf = m.buf /\ j.seen = m.seen /\ j.open = m.open
            /\ j.nonblocking = m.nonblocking /\ j.list = m.list /\ j.lo = m.lo /\ j.hi = m.hi
            /\ j.started = m.started /\ j.last = m.last /\ j.status = m.status /\ j.failed = m.failed
        <5> DEFINE cur == [s \in Symbols |->
                     LET c == SeekFrom(m, s, k)
                     IN IF s \notin m.list THEN Done
                        ELSE IF c # Done /\ skip /\ AlreadyOut(m, s, c) THEN SeekFrom(m, s, c + 1)
                        ELSE c]
        <5>1. j = [m EXCEPT !.pos = txn, !.cur = cur]
          BY <4>3 DEF Repositioned
        <5> HIDE DEF cur, j
        <5> QED BY <4>1, <5>1 DEF Iterators
      <4> HIDE DEF j
      <4> QED BY <4>2, <4>6, <4>7
    <3> QED BY <3>1, <3>2
  <2>5. f \in {Noted(h) : h \in Fills(j)}
    BY <1>2 DEF Refills
  <2> HIDE DEF j
  <2>6. /\ Out(j) = Out(i) /\ ToCome(j) = ToCome(i) /\ Sorted(j)
        /\ \A S : Covered(j, S) = Covered(i, S)
    <3>1. \A r : After(j, r) <=> After(i, r)
      BY <2>4 DEF After, Started, Furthest
    <3> QED BY <2>1, <2>4, <3>1 DEF Out, ToCome, Sorted, Covered
  <2>7. ChunkOK(j, j, 0)
    <3>1. ToSet(j.buf) = {} /\ Len(j.buf) = 0
      BY <2>4, Members
    <3> QED BY <2>3, <2>4, <2>6, <3>1 DEF ChunkOK, SameScan
  <2>8. kept \subseteq Covered(j, store)
    BY <2>1, <2>6 DEF Complete
  <2>9. PICK n \in 0 .. Chunk : \E g :
           /\ ChunkOK(g, j, n) /\ (g.buf # <<>> \/ Heap(g) = {})
           /\ f = Noted([g EXCEPT !.exhausted = (Heap(g) = {})])
    <3>1. PICK h \in Fills(j) : f = Noted(h)
      BY <2>5
    <3>2. \E n \in 0 .. Chunk : \E g : /\ ChunkOK(g, j, n) /\ (g.buf # <<>> \/ Heap(g) = {})
                                       /\ h = [g EXCEPT !.exhausted = (Heap(g) = {})]
      BY <2>2, <2>4, <2>7, <2>8, FillsAreChunks
    <3> QED BY <3>1, <3>2
  <2>10. PICK g : /\ ChunkOK(g, j, n) /\ (g.buf # <<>> \/ Heap(g) = {})
                  /\ f = Noted([g EXCEPT !.exhausted = (Heap(g) = {})])
    BY <2>9
  <2>11. /\ g \in Iterators /\ SameScan(g, j) /\ Sorted(g) /\ ToSet(g.buf) \subseteq Covered(j, store)
         /\ \A s \in Symbols : (g.failed /\ g.cur[s] = Done) \/ CursorOK(g, s)
         /\ g.failed \/ kept \subseteq Out(g) \cup ToCome(g)
    BY <2>10 DEF ChunkOK
  <2>12. /\ f \in Iterators /\ f.open = g.open /\ f.nonblocking = g.nonblocking /\ f.list = g.list
         /\ f.lo = g.lo /\ f.hi = g.hi /\ f.cur = g.cur /\ f.seen = g.seen
         /\ f.buf = g.buf /\ f.started = g.started /\ f.last = g.last /\ f.failed = g.failed
         /\ f.exhausted <=> g.failed \/ Heap(g) = {}
         /\ f.status = IF g.failed THEN "ERROR" ELSE g.status
    BY <2>10, <2>11, NotedIs
  <2>13. /\ g.seen = txn /\ g.nonblocking = i.nonblocking /\ g.list = i.list /\ g.lo = i.lo
         /\ g.hi = i.hi /\ g.status = "OK" /\ g.started = i.started /\ g.last = i.last
    BY <2>3, <2>4, <2>11 DEF SameScan
  <2>14. /\ Out(f) = Out(g) /\ ToCome(f) = ToCome(g) /\ Sorted(f)
         /\ \A s : Rest(f, s) = Rest(g, s)
         /\ \A S : Covered(f, S) = Covered(i, S)
    <3>1. \A r : After(f, r) <=> After(g, r)
      BY <2>12 DEF After, Started, Furthest
    <3>2. Out(f) = Out(g)
      BY <2>12 DEF Out
    <3>3. \A S : Covered(f, S) = Covered(i, S)
      BY <2>12, <2>13 DEF Covered
    <3>4. \A S : Covered(f, S) = Covered(g, S)
      BY <2>12 DEF Covered
    <3>5. \A s : Rest(f, s) = Rest(g, s)
      BY <3>1, <3>4 DEF Rest
    <3>6. Sorted(f)
      BY <2>11, <2>12 DEF Sorted
    <3> QED BY <3>1, <3>2, <3>3, <3>5, <3>6 DEF ToCome
  <2>15. Placed(f)
    <3>1. ~f.exhausted => \A s \in Symbols : CursorOK(f, s)
      BY <2>11, <2>12, <2>14 DEF CursorOK
    <3>2. f.seen = txn /\ (~f.nonblocking => shared)
      BY <2>1, <2>12, <2>13 DEF Placed
    <3>3. (f.failed => f.status = "ERROR") /\ (f.status = "ERROR" => f.exhausted)
      BY <2>12, <2>13
    <3> QED BY <2>2, <3>1, <3>2, <3>3 DEF Placed
  <2>16. Complete(f)
    <3>1. kept \subseteq Covered(f, store)
      BY <2>6, <2>8, <2>14
    <3>2. ASSUME f.status = "OK" PROVE kept \subseteq Out(f) \cup ToCome(f)
      BY <2>11, <2>12, <2>14, <3>2
    <3>3. ASSUME f.status = "OK", f.exhausted, NEW q \in kept PROVE q \in Out(f)
      <4>1. ~g.failed /\ Heap(g) = {}
        BY <2>12, <3>3
      <4>2. SUFFICES ASSUME After(f, q) PROVE FALSE
        BY <3>2, <3>3 DEF ToCome
      <4>3. q \in Covered(f, store) /\ q \in Records
        BY <2>2, <3>1 DEF Covered
      <4>4. q[1] \in Keys /\ q[2] \in Symbols /\ q = <<q[1], q[2]>>
        BY <4>3, RecordIs
      <4>5. q[1] \in Rest(f, q[2])
        BY <4>2, <4>3, <4>4 DEF Rest
      <4>6. g.cur[q[2]] # Done
        BY <2>11, <2>14, <4>1, <4>4, <4>5 DEF CursorOK
      <4>7. <<g.cur[q[2]], q[2]>> \in Heap(g)
        BY <4>4, <4>6 DEF Heap
      <4> QED BY <4>1, <4>7
    <3> QED BY <2>3, <3>1, <3>2, <3>3 DEF Complete
  <2>17. Known(f)
    <3>1. Out(f) \subseteq Out(i) \cup ToSet(g.buf)
      BY <2>14 DEF Out
    <3>2. ToSet(g.buf) \subseteq Covered(i, store) /\ Covered(i, store) \subseteq Covered(i, held)
      BY <2>1, <2>6, <2>11 DEF Known, Covered
    <3> QED BY <2>1, <2>14, <3>1, <3>2 DEF Known
  <2>18. f.buf = <<>> => f.exhausted
    BY <2>10, <2>12
  <2> QED BY <2>12, <2>14, <2>15, <2>16, <2>17, <2>18 DEF Walk
<1> QED BY <1>1, <1>2

------------------------------------------------------------------------------
(* One step of the system.                                                 *)

\* The initial states.
LEMMA InitIInv == Init => IInv
<1> SUFFICES ASSUME Init PROVE IInv
  OBVIOUS
<1>1. it.open = FALSE /\ NoWalk
  BY DEF Init, Closed, NoWalk
<1>2. TypeOK
  <2>1. 0 \in 0 .. MaxTxn
    BY BoundsAssumption
  <2>2. store \subseteq Records /\ kept \subseteq held /\ held \subseteq Records /\ emitted \in Seq(Records)
    BY Members DEF Init
  <2> QED BY <2>1, <2>2 DEF Init, TypeOK
<1> QED BY <1>1, <1>2 DEF IInv

\* spike_db_iter_next_multi hands out the first record of the buffer.
LEMMA HandsOutFirst ==
  ASSUME TypeOK, NEW i \in Iterators, Walk(i), i.buf # <<>>,
         NEW g, g = [i EXCEPT !.buf = Tail(@), !.last = Head(i.buf), !.started = TRUE],
         it' = g, emitted' = Append(emitted, Head(i.buf)),
         UNCHANGED <<store, txn, shared, kept, held, ended>>
  PROVE  g \in Iterators /\ Walk(it)' /\ emitted' \in Seq(Records)
<1> DEFINE e == Head(i.buf)
           d == Tail(i.buf)
<1>1. Placed(i) /\ Sorted(i) /\ Complete(i) /\ Known(i)
  BY DEF Walk
<1>2. i.buf \in Seq(Records) /\ Len(i.buf) <= Chunk /\ emitted \in Seq(Records)
  BY <1>1, FurthestIs DEF TypeOK
<1>3. /\ e \in Records /\ d \in Seq(Records) /\ Len(d) = Len(i.buf) - 1
      /\ ToSet(i.buf) = {e} \cup ToSet(d) /\ Ordered(d)
      /\ \A r \in ToSet(d) : Precedes(e, r)
      /\ Last(i.buf) = IF d = <<>> THEN e ELSE Last(d)
  BY <1>1, <1>2, FirstAndRest DEF Sorted
<1>4. \A r \in ToSet(emitted) : Precedes(r, e)
  BY <1>1, <1>3 DEF Sorted
<1>5. /\ emitted' \in Seq(Records) /\ Ordered(emitted')
      /\ ToSet(emitted') = ToSet(emitted) \cup {e}
  BY <1>1, <1>2, <1>3, <1>4, OneMore DEF Sorted
<1> HIDE DEF e, d
<1>6. g = [i EXCEPT !.buf = d, !.last = e, !.started = TRUE]
  BY DEF e, d
<1>7. d \in BoundedSeq(Records, Chunk)
  <2>1. Len(i.buf) \in Nat /\ Chunk \in Nat
    BY <1>2, LenProperties, BoundsAssumption
  <2>2. Len(d) <= Chunk
    BY <1>2, <1>3, <2>1
  <2> QED BY <1>3, <2>1, <2>2, BoundedIs
<1>8. g \in Iterators
  <2>1. e \in Records \cup {Done}
    BY <1>3
  <2>2. i \in Iterators
    BY <1>2
  <2> HIDE DEF Records
  <2> QED BY <1>6, <1>7, <2>1, <2>2 DEF Iterators
<1>9. /\ g.open = i.open /\ g.nonblocking = i.nonblocking /\ g.list = i.list
      /\ g.lo = i.lo /\ g.hi = i.hi /\ g.cur = i.cur /\ g.seen = i.seen
      /\ g.failed = i.failed /\ g.exhausted = i.exhausted /\ g.status = i.status
      /\ g.buf = d /\ g.last = e /\ g.started = TRUE
  BY <1>6 DEF Iterators
<1>10. /\ \A r : After(g, r) <=> After(i, r)
       /\ \A S : Covered(g, S) = Covered(i, S)
       /\ \A s : Rest(g, s) = Rest(i, s)
       /\ ToCome(g) = ToCome(i)
  <2>1. Started(i) /\ Started(g) /\ Furthest(i) = Last(i.buf)
    BY <1>9 DEF Started, Furthest
  <2>2. Furthest(g) = Furthest(i)
    BY <1>3, <1>9, <2>1 DEF Furthest
  <2>3. \A r : After(g, r) <=> After(i, r)
    BY <2>1, <2>2 DEF After
  <2>4. \A S : Covered(g, S) = Covered(i, S)
    BY <1>9 DEF Covered
  <2>5. \A s : Rest(g, s) = Rest(i, s)
    BY <2>3, <2>4 DEF Rest
  <2> QED BY <2>3, <2>4, <2>5 DEF ToCome
<1>11. ToSet(emitted') \cup ToSet(d) = Out(i)
  BY <1>3, <1>5 DEF Out
\* The same, of the next state.
<1>12. /\ \A s : Rest(g, s)' = Rest(i, s)
       /\ ToCome(g)' = ToCome(i) /\ Out(g)' = Out(i)
  <2>1. \A s : Rest(g, s)' = Rest(g, s)
    BY DEF Rest
  <2>2. ToCome(g)' = ToCome(g)
    BY DEF ToCome
  <2>3. Out(g)' = Out(i)
    BY <1>9, <1>11 DEF Out
  <2> QED BY <1>10, <2>1, <2>2, <2>3
<1>13. Placed(it)'
  <2>1. \A s \in Symbols : CursorOK(i, s) => CursorOK(g, s)'
    BY <1>9, <1>12 DEF CursorOK
  <2> QED BY <1>1, <1>9, <2>1 DEF Placed
<1>14. Sorted(it)'
  <2>1. \A r \in ToSet(emitted'), q \in ToSet(d) : Precedes(r, q)
    BY <1>1, <1>3, <1>5 DEF Sorted
  <2>2. e \in ToSet(emitted') /\ \A r \in ToSet(emitted') : r = e \/ Precedes(r, e)
    BY <1>4, <1>5
  <2> QED BY <1>3, <1>5, <1>9, <2>1, <2>2 DEF Sorted
<1>15. Complete(it)'
  <2>1. ~ended'
    BY <1>1 DEF Complete
  <2>2. kept' \subseteq Covered(g, store')
    BY <1>1, <1>10 DEF Complete
  <2>3. g.status = "OK" => kept \subseteq Out(i) \cup (IF g.exhausted THEN {} ELSE ToCome(i))
    BY <1>1, <1>9 DEF Complete
  <2>4. g.status = "OK" => kept' \subseteq Out(g)' \cup (IF g.exhausted THEN {} ELSE ToCome(g)')
    BY <1>12, <2>3
  <2> QED BY <2>1, <2>2, <2>4 DEF Complete
<1>16. Known(it)'
  BY <1>1, <1>10, <1>12 DEF Known
<1> QED BY <1>5, <1>8, <1>13, <1>14, <1>15, <1>16 DEF Walk

\* spike_db_scan_multi.
LEMMA WalkStarts ==
  ASSUME TypeOK, NoWalk, NEW nonblocking \in BOOLEAN, NEW list \in SUBSET Symbols,
         NEW lo \in Times, NEW hi \in Times, ScanMulti(nonblocking, list, lo, hi)
  PROVE  IInv'
<1> DEFINE new == [open |-> TRUE, nonblocking |-> nonblocking, list |-> list,
                   lo |-> lo, hi |-> hi, cur |-> [s \in Symbols |-> Done],
                   pos |-> txn, seen |-> txn, buf |-> <<>>, started |-> FALSE, last |-> Done,
                   failed |-> FALSE, exhausted |-> FALSE, status |-> "OK"]
           placed == Repositioned(new, StartOf(lo), FALSE)
<1>1. txn \in Nat /\ store \in SUBSET Records
  BY BoundsAssumption DEF TypeOK
<1>2. new \in Iterators
  <2>1. <<>> \in BoundedSeq(Records, Chunk)
    <3>1. Chunk \in Nat /\ 0 <= Chunk
      BY BoundsAssumption
    <3> QED BY <3>1, Members, BoundedIs
  <2>2. [s \in Symbols |-> Done] \in [Symbols -> Keys \cup {Done}]
    OBVIOUS
  <2> QED BY <1>1, <2>1, <2>2 DEF Iterators
<1>3. /\ new.buf = <<>> /\ ~new.started /\ new.lo = lo /\ new.hi = hi /\ new.list = list
      /\ new.seen = txn /\ new.nonblocking = nonblocking /\ new.open = TRUE /\ new.failed = FALSE
      /\ new.status = "OK" /\ new.started = FALSE
  OBVIOUS
<1>4. PICK i \in WithLosses(placed) : it' = Noted([i EXCEPT !.exhausted = (Heap(i) = {})])
  BY DEF ScanMulti
<1>5. /\ kept' = Covered(new, store) /\ held' = kept' /\ shared' = ~nonblocking
      /\ emitted' = <<>> /\ ended' = FALSE /\ UNCHANGED <<store, txn>>
  BY DEF ScanMulti
<1> HIDE DEF new
<1>6. placed \in Iterators /\ \A s \in Symbols : CursorOK(placed, s)
  BY <1>1, <1>2, <1>3, Repositions
<1>7. /\ placed.buf = <<>> /\ ~placed.started /\ placed.lo = lo /\ placed.hi = hi
      /\ placed.list = list /\ placed.seen = txn /\ placed.nonblocking = nonblocking
      /\ placed.open = TRUE /\ placed.failed = FALSE /\ placed.status = "OK"
  <2>1. \E cur : placed = [new EXCEPT !.pos = txn, !.cur = cur]
    BY DEF Repositioned
  <2>2. PICK cur : placed = [new EXCEPT !.pos = txn, !.cur = cur]
    BY <2>1
  <2> HIDE DEF placed
  <2> QED BY <1>2, <1>3, <2>2 DEF Iterators
<1> HIDE DEF placed
<1>8. /\ i \in Iterators /\ SameScan(i, placed) /\ i.buf = <<>>
      /\ i = placed \/ i.failed = TRUE
  BY <1>6, <1>7, LossesAre
<1> DEFINE f == Noted([i EXCEPT !.exhausted = (Heap(i) = {})])
<1>9. /\ f \in Iterators /\ f.open = i.open /\ f.nonblocking = i.nonblocking /\ f.list = i.list
      /\ f.lo = i.lo /\ f.hi = i.hi /\ f.cur = i.cur /\ f.seen = i.seen
      /\ f.buf = i.buf /\ f.started = i.started /\ f.failed = i.failed
      /\ f.exhausted <=> i.failed \/ Heap(i) = {}
      /\ f.status = IF i.failed THEN "ERROR" ELSE i.status
  BY <1>8, NotedIs
<1>10. it' = f
  BY <1>4
<1> HIDE DEF f
<1>11. /\ f.open /\ f.nonblocking = nonblocking /\ f.list = list /\ f.lo = lo /\ f.hi = hi
       /\ f.seen = txn /\ f.buf = <<>> /\ ~f.started
       /\ f.status = IF f.failed THEN "ERROR" ELSE "OK"
  BY <1>7, <1>8, <1>9 DEF SameScan
<1>12. \A S : Covered(f, S) = Covered(new, S)
  BY <1>3, <1>11 DEF Covered
<1>13. Covered(new, store) \subseteq store /\ store \subseteq Records
  BY <1>1 DEF Covered
<1>14. TypeOK'
  BY <1>5, <1>9, <1>10, <1>13, Members DEF TypeOK
<1>15. Placed(it)'
  <2>1. ~f.exhausted => \A s \in Symbols : CursorOK(f, s)'
    <3> SUFFICES ASSUME ~f.exhausted, NEW s \in Symbols PROVE CursorOK(f, s)'
      OBVIOUS
    <3>1. i = placed
      BY <1>8, <1>9
    <3>2. f.cur = placed.cur
      BY <1>9, <3>1
    <3>3. Rest(f, s)' = Rest(placed, s)
      BY <1>5, <1>7, <1>11 DEF Rest, Covered, After, Started
    <3> QED BY <1>6, <3>2, <3>3 DEF CursorOK
  <2>2. f.status = "ERROR" => f.exhausted
    BY <1>9, <1>11
  <2>3. f.failed => f.status = "ERROR"
    BY <1>11
  <2>4. f.seen <= txn' /\ f.seen = txn' /\ (~f.nonblocking => shared')
    <3>1. txn' = txn /\ txn <= txn
      BY <1>1, <1>5
    <3>2. shared' = ~nonblocking /\ f.nonblocking = nonblocking
      BY <1>5, <1>11
    <3>3. f.seen = txn
      BY <1>11
    <3> QED BY <3>1, <3>2, <3>3
  <2>5. Placed(f)'
    BY <2>1, <2>2, <2>3, <2>4 DEF Placed
  <2> QED BY <1>10, <2>5
<1>16. Sorted(it)'
  BY <1>5, <1>10, <1>11, Members DEF Sorted
<1>17. Complete(it)'
  <2>1. Covered(new, store) \subseteq ToCome(f)'
    BY <1>11, <1>13 DEF ToCome, After, Started
  <2>2. ~f.failed /\ f.exhausted => Covered(new, store) = {}
    <3> SUFFICES ASSUME ~f.failed, f.exhausted, NEW q \in Covered(new, store) PROVE FALSE
      OBVIOUS
    <3>1. i = placed /\ Heap(i) = {}
      BY <1>8, <1>9
    <3>2. q[1] \in Keys /\ q[2] \in Symbols /\ q = <<q[1], q[2]>>
      BY <1>13, RecordIs
    <3>3. q[1] \in Rest(placed, q[2])
      BY <1>3, <1>7, <3>2 DEF Rest, Covered, After, Started
    <3>4. placed.cur[q[2]] # Done
      BY <1>6, <3>2, <3>3 DEF CursorOK
    <3> QED BY <3>1, <3>2, <3>4 DEF Heap
  <2>3. f.status = "OK" => kept' \subseteq Out(f)' \cup (IF f.exhausted THEN {} ELSE ToCome(f)')
    BY <1>5, <1>11, <2>1, <2>2
  <2>4. kept' \subseteq Covered(f, store')
    BY <1>5, <1>12
  <2> QED BY <1>5, <1>10, <2>3, <2>4 DEF Complete
<1>18. Known(it)'
  <2>1. Out(f)' = {}
    BY <1>5, <1>11, Members DEF Out
  <2>2. Covered(f, store') \subseteq held'
    BY <1>5, <1>12
  <2> QED BY <1>10, <2>1, <2>2 DEF Known
<1> QED BY <1>10, <1>11, <1>14, <1>15, <1>16, <1>17, <1>18 DEF IInv, Walk

\* Every step keeps the invariant.
LEMMA NextIInv == IInv /\ [Next]_vars => IInv'
<1> SUFFICES ASSUME IInv, [Next]_vars PROVE IInv'
  OBVIOUS
<1>1. TypeOK /\ (it.open => it \in Iterators /\ Walk(it)) /\ (~it.open => it = Closed /\ NoWalk)
  <2>1. ~Closed.open
    BY DEF Closed
  <2>2. it = Closed \/ it \in Iterators
    BY DEF IInv, TypeOK
  <2>3. it \in Iterators => it.open
    BY DEF Iterators
  <2> QED BY <2>1, <2>2, <2>3 DEF IInv
<1>2. ASSUME NEW nonblocking \in BOOLEAN, NEW list \in SUBSET Symbols, NEW lo \in Times, NEW hi \in Times,
             ScanMulti(nonblocking, list, lo, hi)
      PROVE  IInv'
  <2>1. ~it.open
    BY <1>2 DEF ScanMulti
  <2> QED BY <1>1, <1>2, <2>1, WalkStarts
<1>3. ASSUME NextMulti PROVE IInv'
  <2>1. it \in Iterators /\ Walk(it)
    BY <1>1, <1>3 DEF NextMulti
  <2>2. PICK i \in IF it.buf = <<>> THEN Refills(it) ELSE {it} :
           IF i.buf = <<>>
           THEN it' = i /\ ended' = TRUE /\ UNCHANGED emitted
           ELSE /\ it' = [i EXCEPT !.buf = Tail(@), !.last = Head(i.buf), !.started = TRUE]
                /\ emitted' = Append(emitted, Head(i.buf))
                /\ UNCHANGED ended
    BY <1>3 DEF NextMulti
  <2>3. i \in Iterators /\ Walk(i) /\ (i.buf = <<>> => i.exhausted)
    <3>1. CASE it.buf = <<>>
      BY <1>1, <2>1, <2>2, <3>1, RefillsKeepWalk
    <3>2. CASE it.buf # <<>>
      BY <2>1, <2>2, <3>2
    <3> QED BY <3>1, <3>2
  <2>4. UNCHANGED <<store, txn, shared, kept, held>>
    BY <1>3 DEF NextMulti
  <2>5. CASE i.buf = <<>>
    <3>1. it' = i /\ ended' = TRUE /\ emitted' = emitted
      BY <2>2, <2>5
    <3>2. TypeOK'
      BY <1>1, <2>3, <2>4, <3>1 DEF TypeOK
    <3>3. Placed(it)'
      <4>1. \A s \in Symbols : CursorOK(i, s) => CursorOK(i, s)'
        BY <2>4 DEF CursorOK, Rest
      <4> QED BY <2>3, <2>4, <3>1, <4>1 DEF Walk, Placed
    <3>4. Sorted(it)'
      BY <2>3, <3>1 DEF Walk, Sorted
    <3>5. Known(it)'
      BY <2>3, <2>4, <3>1 DEF Walk, Known, Out
    <3>6. Complete(it)'
      BY <2>3, <2>4, <2>5, <3>1 DEF Walk, Complete, Out, ToCome
    <3>7. it'.open
      BY <2>3, <3>1 DEF Iterators
    <3> QED BY <3>2, <3>3, <3>4, <3>5, <3>6, <3>7 DEF IInv, Walk
  <2>6. CASE i.buf # <<>>
    <3> DEFINE g == [i EXCEPT !.buf = Tail(@), !.last = Head(i.buf), !.started = TRUE]
    <3>1. it' = g /\ emitted' = Append(emitted, Head(i.buf)) /\ ended' = ended
      BY <2>2, <2>6
    <3>2. g \in Iterators /\ Walk(it)' /\ emitted' \in Seq(Records)
      BY <1>1, <2>3, <2>4, <2>6, <3>1, HandsOutFirst
    <3> HIDE DEF g
    <3>3. TypeOK'
      BY <1>1, <2>4, <3>1, <3>2 DEF TypeOK
    <3>4. it'.open
      BY <3>1, <3>2 DEF Iterators
    <3> QED BY <3>2, <3>3, <3>4 DEF IInv
  <2> QED BY <2>5, <2>6
<1>4. ASSUME Close PROVE IInv'
  <2>1. it' = Closed /\ ~Closed.open
    BY <1>4 DEF Close, Closed
  <2>2. TypeOK'
    BY <1>1, <1>4, Members DEF Close, TypeOK
  <2>3. NoWalk'
    BY <1>4 DEF Close, NoWalk
  <2> QED BY <2>1, <2>2, <2>3 DEF IInv
<1>5. ASSUME NEW S \in SUBSET Records, Commit(S) PROVE IInv'
  <2>1. /\ ~shared /\ txn < MaxTxn /\ store' = S /\ txn' = txn + 1
        /\ kept' = kept \cap S /\ UNCHANGED <<shared, it, emitted, ended>>
        /\ held' = IF it.open THEN held \cup Covered(it, S) ELSE {}
    BY <1>5 DEF Commit, MayCommit
  <2>2. TypeOK'
    <3>1. txn + 1 \in 0 .. MaxTxn
      BY <1>1, <2>1, BoundsAssumption DEF TypeOK
    <3>2. Covered(it, S) \subseteq Records
      BY DEF Covered
    <3>3. kept' \subseteq held' /\ held' \subseteq Records
      BY <1>1, <2>1, <3>2 DEF TypeOK, NoWalk
    <3> QED BY <1>1, <2>1, <3>1, <3>3 DEF TypeOK
  <2>3. CASE ~it.open
    <3>1. NoWalk'
      BY <1>1, <2>1, <2>3 DEF NoWalk
    <3> QED BY <2>1, <2>2, <2>3, <3>1 DEF IInv
  <2>4. CASE it.open
    <3>1. Placed(it) /\ Sorted(it) /\ Complete(it) /\ Known(it) /\ txn \in Nat
      BY <1>1, <2>4, BoundsAssumption DEF Walk, TypeOK
    <3>2. Placed(it)'
      <4>1. it.nonblocking /\ it.seen <= txn /\ it.seen \in Nat
        BY <1>1, <2>1, <2>4, <3>1 DEF Placed, Iterators
      <4>2. it.seen # txn + 1 /\ it.seen <= txn + 1
        BY <3>1, <4>1
      <4> QED BY <2>1, <3>1, <4>1, <4>2 DEF Placed
    <3>3. Sorted(it)'
      BY <2>1, <3>1 DEF Sorted
    <3>4. Complete(it)'
      <4>1. kept \cap S \subseteq Covered(it, S)
        BY <3>1 DEF Complete, Covered
      <4>2. it.status = "OK" => kept \subseteq Out(it) \cup (IF it.exhausted THEN {} ELSE ToCome(it))
        BY <3>1 DEF Complete
      <4>3. ended => it.exhausted /\ it.buf = <<>>
        BY <3>1 DEF Complete
      <4>4. Out(it)' = Out(it) /\ ToCome(it)' = ToCome(it)
        BY <2>1 DEF Out, ToCome
      <4> QED BY <2>1, <4>1, <4>2, <4>3, <4>4 DEF Complete
    <3>5. Known(it)'
      <4>1. Out(it)' = Out(it) /\ Out(it) \subseteq Covered(it, held)
        BY <2>1, <3>1 DEF Out, Known
      <4>2. Covered(it, held) \subseteq Covered(it, held')
        BY <2>1, <2>4 DEF Covered
      <4> QED BY <2>1, <2>4, <4>1, <4>2 DEF Known
    <3> QED BY <2>1, <2>2, <2>4, <3>2, <3>3, <3>4, <3>5 DEF IInv, Walk
  <2> QED BY <2>3, <2>4
<1>6. ASSUME UNCHANGED vars PROVE IInv'
  <2>1. TypeOK'
    BY <1>1, <1>6 DEF vars, TypeOK
  <2>2. it.open => Walk(it)'
    <3> SUFFICES ASSUME it.open PROVE Walk(it)'
      OBVIOUS
    <3>1. Placed(it) /\ Sorted(it) /\ Complete(it) /\ Known(it)
      BY <1>1 DEF Walk
    <3>2. \A s \in Symbols : CursorOK(it, s) => CursorOK(it, s)'
      BY <1>6 DEF vars, CursorOK, Rest
    <3>3. Placed(it)'
      BY <1>6, <3>1, <3>2 DEF vars, Placed
    <3>4. Sorted(it)' /\ Known(it)'
      BY <1>6, <3>1 DEF vars, Sorted, Known, Out
    <3>5. Complete(it)'
      BY <1>6, <3>1 DEF vars, Complete, Out, ToCome
    <3> QED BY <3>3, <3>4, <3>5 DEF Walk
  <2>3. ~it.open => NoWalk'
    BY <1>1, <1>6 DEF vars, NoWalk
  <2> QED BY <1>6, <2>1, <2>2, <2>3 DEF vars, IInv
<1> QED BY <1>2, <1>3, <1>4, <1>5, <1>6 DEF Next

------------------------------------------------------------------------------
(* The theorems.                                                           *)

\* The invariant holds in every state.
LEMMA IInvAlways == Spec => []IInv
<1>1. Init => IInv
  BY InitIInv
<1>2. IInv /\ [Next]_vars => IInv'
  BY NextIInv
<1> QED BY <1>1, <1>2, PTL DEF Spec

\* The iterator, its cursors and its chunk have the shape the code gives them:
\* the chunk never outgrows the buffer.
THEOREM MultiScanTypeOK == Spec => []TypeOK
<1>1. IInv => TypeOK
  BY DEF IInv
<1> QED BY <1>1, IInvAlways, PTL

\* spike_db_iter_next_multi hands out records in the order of keys, and of symbols
\* where keys are the same, none twice: across chunk borders in the middle of a
\* timestamp, commits of other handles and unreadable pages.
THEOREM MergeAlwaysInOrder == Spec => []MergeInOrder
<1>1. IInv => MergeInOrder
  <2> SUFFICES ASSUME IInv PROVE Ordered(emitted)
    BY DEF MergeInOrder, Ordered
  <2>1. CASE it.open
    BY <2>1 DEF IInv, Walk, Sorted
  <2>2. CASE ~it.open
    BY <2>2, Members DEF IInv, NoWalk
  <2> QED BY <2>1, <2>2
<1> QED BY <1>1, IInvAlways, PTL

\* A merged walk that ends with SPIKEDB_OK has delivered every record of the
\* listed symbols that was there all along.
THEOREM MergeSkipsNothing == Spec => []NothingSkipped
<1>1. IInv => NothingSkipped
  <2> SUFFICES ASSUME IInv, it.open, ended, it.status = "OK" PROVE kept \subseteq ToSet(emitted)
    BY DEF NothingSkipped
  <2>1. Complete(it)
    BY DEF IInv, Walk
  <2>2. it.exhausted /\ ToSet(it.buf) = {}
    BY <2>1, Members DEF Complete
  <2> QED BY <2>1, <2>2 DEF Complete, Out
<1> QED BY <1>1, IInvAlways, PTL

\* A merged walk hands out records of its symbols and its range only, and only
\* such as the file held at some time since it began.
THEOREM MergeAddsNothing == Spec => []NothingForeign
<1>1. IInv => NothingForeign
  <2> SUFFICES ASSUME IInv, it.open PROVE ToSet(emitted) \subseteq held
    BY DEF NothingForeign
  <2>1. Known(it)
    BY DEF IInv, Walk
  <2> QED BY <2>1 DEF Known, Out, Covered
<1> QED BY <1>1, IInvAlways, PTL

=============================================================================
