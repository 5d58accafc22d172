---------------------------- MODULE SymDirProofs ----------------------------
(***************************************************************************)
(* The symbol directory, for any number of slots and symbols and any       *)
(* assignment of home slots.                                               *)
(***************************************************************************)
EXTENDS SymDir, FiniteSetTheorems, WellFoundedInduction, TLAPS

\* A nonempty set of naturals has a least element.
LEMMA LeastElement ==
  ASSUME NEW S \in SUBSET Nat, S # {}
  PROVE  \E x \in S : \A y \in S : x <= y
<1>1. \E x \in S : \A y \in S : ~(<<y, x>> \in OpToRel(<, Nat))
  BY NatLessThanWellFounded, WFMin
<1>2. PICK x \in S : \A y \in S : ~(<<y, x>> \in OpToRel(<, Nat))
  BY <1>1
<1>3. \A y \in S : ~(y < x)
  BY <1>2 DEF OpToRel
<1> QED BY <1>3

LiveSlots(d) == {i \in SlotIds : d.slot[i].state = "live"}

\* No slot on the way to a live symbol is empty: tombstones keep the probe
\* chain of every symbol that was placed behind others.
ChainsWhole(d) ==
  \A s \in SymbolIds : \A n \in SlotIds : d.slot[Probe(s, n)] = Live(s) =>
    \A m \in 0 .. n - 1 : d.slot[Probe(s, m)] # Empty

\* No symbol has two live slots.
Single(d) == \A i, j \in SlotIds : d.slot[i].state = "live" /\ d.slot[i] = d.slot[j] => i = j

\* The live slots are those of the symbols in L.
Holds(d, L) == \A s \in SymbolIds : s \in L <=> \E i \in SlotIds : d.slot[i] = Live(s)

DirectoryOK(d, L) ==
  /\ d \in Directories /\ L \in SUBSET SymbolIds
  /\ ChainsWhole(d) /\ Single(d) /\ Holds(d, L)
  /\ d.count = Cardinality(L) /\ Cardinality(LiveSlots(d)) = Cardinality(L)

IInv == DirectoryOK(dir, live) /\ DirectoryOK(disk, kept) /\ open \in BOOLEAN

------------------------------------------------------------------------------
(* Slots and probes.                                                       *)

\* The three kinds of slots differ.
LEMMA SlotKinds ==
  /\ Empty.state = "empty"
  /\ \A s : Live(s).state = "live" /\ Tombstone(s).state = "dropped"
  /\ \A s : Live(s) # Empty /\ Tombstone(s) # Empty
  /\ \A s, r : Live(s) # Tombstone(r) /\ (Live(s) = Live(r) => s = r)
<1>1. Empty.state = "empty"
  BY DEF Empty
<1>2. \A s : Live(s).state = "live" /\ Live(s).symbol = s
  BY DEF Live
<1>3. \A s : Tombstone(s).state = "dropped"
  BY DEF Tombstone
<1> QED BY <1>1, <1>2, <1>3

\* A live slot is that of some symbol.
LEMMA LiveSlotKind ==
  ASSUME NEW c \in SlotStates, c.state = "live" PROVE \E s \in SymbolIds : c = Live(s)
BY SlotKinds DEF SlotStates

\* The remainder after at most one turn around the table.
LEMMA OneTurn ==
  ASSUME NEW a \in SlotIds, NEW n \in SlotIds
  PROVE  (a + n) % TotalSlots = IF a + n < TotalSlots THEN a + n ELSE a + n - TotalSlots
BY SlotsAssumption DEF SlotIds

\* Two probes of one turn meet only if they are the same.
LEMMA OneSlotOnce ==
  ASSUME NEW size \in Nat, NEW a \in 0 .. size - 1,
         NEW n \in 0 .. size - 1, NEW m \in 0 .. size - 1,
         (IF a + n < size THEN a + n ELSE a + n - size)
           = (IF a + m < size THEN a + m ELSE a + m - size)
  PROVE  n = m
OBVIOUS

\* A probe sequence visits every slot exactly once.
LEMMA ProbeFacts ==
  ASSUME NEW s \in SymbolIds
  PROVE  /\ \A n \in SlotIds : Probe(s, n) \in SlotIds
         /\ \A n, m \in SlotIds : Probe(s, n) = Probe(s, m) => n = m
         /\ \A i \in SlotIds : \E n \in SlotIds : Probe(s, n) = i
<1>0. Home[s] \in SlotIds /\ TotalSlots \in Nat /\ SlotIds = 0 .. TotalSlots - 1
  BY HomeAssumption, SlotsAssumption DEF SlotIds
<1>1. \A n \in SlotIds :
        Probe(s, n) = IF Home[s] + n < TotalSlots THEN Home[s] + n ELSE Home[s] + n - TotalSlots
  BY <1>0, OneTurn DEF Probe
<1>2. \A n \in SlotIds : Probe(s, n) \in SlotIds
  BY <1>0, <1>1
<1>3. \A n, m \in SlotIds : Probe(s, n) = Probe(s, m) => n = m
  <2> SUFFICES ASSUME NEW n \in SlotIds, NEW m \in SlotIds, Probe(s, n) = Probe(s, m)
               PROVE  n = m
    OBVIOUS
  <2>1. Probe(s, n) = IF Home[s] + n < TotalSlots THEN Home[s] + n ELSE Home[s] + n - TotalSlots
    BY <1>1
  <2>2. Probe(s, m) = IF Home[s] + m < TotalSlots THEN Home[s] + m ELSE Home[s] + m - TotalSlots
    BY <1>1
  <2> QED BY <1>0, <2>1, <2>2, OneSlotOnce
<1>4. ASSUME NEW i \in SlotIds PROVE \E n \in SlotIds : Probe(s, n) = i
  <2> DEFINE n == IF i >= Home[s] THEN i - Home[s] ELSE i - Home[s] + TotalSlots
  <2>1. n \in SlotIds
    BY <1>0
  <2>2. Probe(s, n) = IF Home[s] + n < TotalSlots THEN Home[s] + n ELSE Home[s] + n - TotalSlots
    BY <1>1, <2>1
  <2>3. (IF Home[s] + n < TotalSlots THEN Home[s] + n ELSE Home[s] + n - TotalSlots) = i
    BY <1>0
  <2> QED BY <2>1, <2>2, <2>3
<1> QED BY <1>2, <1>3, <1>4

\* The least of a set of probes.
LEMMA FirstOf ==
  ASSUME NEW S \in SUBSET Nat, S # {}
  PROVE  Min(S) \in S /\ \A n \in S : Min(S) <= n
BY LeastElement DEF Min

\* Where a search ends.
LEMMA StopFacts ==
  ASSUME NEW d, NEW s \in SymbolIds, Stops(d, s) # {}
  PROVE  /\ Min(Stops(d, s)) \in SlotIds
         /\ d.slot[Probe(s, Min(Stops(d, s)))] \in {Live(s), Empty}
         /\ \A m \in 0 .. Min(Stops(d, s)) - 1 : d.slot[Probe(s, m)] \notin {Live(s), Empty}
<1> DEFINE first == Min(Stops(d, s))
<1>1. SlotIds \in SUBSET Nat /\ Stops(d, s) \in SUBSET SlotIds
  BY DEF SlotIds, Stops
<1>2. first \in Stops(d, s) /\ \A n \in Stops(d, s) : first <= n
  BY <1>1, FirstOf
<1>3. first \in SlotIds /\ d.slot[Probe(s, first)] \in {Live(s), Empty}
  BY <1>1, <1>2 DEF Stops
<1>4. ASSUME NEW m \in 0 .. first - 1 PROVE d.slot[Probe(s, m)] \notin {Live(s), Empty}
  <2>1. m \in SlotIds /\ ~(first <= m)
    BY <1>1, <1>3, SlotsAssumption DEF SlotIds
  <2> QED BY <1>2, <2>1 DEF Stops
<1> QED BY <1>3, <1>4

\* A search ends at the symbol if it exists, and otherwise at an empty slot
\* or nowhere.
LEMMA LookupFacts ==
  ASSUME NEW d, NEW L, DirectoryOK(d, L), NEW s \in SymbolIds
  PROVE  /\ Lookup(d, s) = "OK" <=> s \in L
         /\ s \in L => Stops(d, s) # {} /\ d.slot[Probe(s, Min(Stops(d, s)))] = Live(s)
         /\ Lookup(d, s) = "NOT_FOUND" =>
              Stops(d, s) # {} /\ d.slot[Probe(s, Min(Stops(d, s)))] = Empty
<1> DEFINE first == Min(Stops(d, s))
<1>1. ASSUME s \in L PROVE Stops(d, s) # {} /\ d.slot[Probe(s, first)] = Live(s)
  <2>1. PICK i \in SlotIds : d.slot[i] = Live(s)
    BY <1>1 DEF DirectoryOK, Holds
  <2>2. PICK n \in SlotIds : Probe(s, n) = i
    BY ProbeFacts
  <2>3. n \in Stops(d, s)
    BY <2>1, <2>2 DEF Stops
  <2>4. /\ first \in SlotIds /\ d.slot[Probe(s, first)] \in {Live(s), Empty}
        /\ \A m \in 0 .. first - 1 : d.slot[Probe(s, m)] \notin {Live(s), Empty}
    BY <2>3, StopFacts
  <2>5. ~(n < first)
    <3>1. n < first => n \in 0 .. first - 1
      BY <2>4 DEF SlotIds
    <3> QED BY <2>1, <2>2, <2>4, <3>1
  <2>6. CASE first = n
    BY <2>1, <2>2, <2>3, <2>6
  <2>7. CASE first < n
    <3>1. first \in 0 .. n - 1
      BY <2>4, <2>7 DEF SlotIds
    <3>2. d.slot[Probe(s, first)] # Empty
      BY <2>1, <2>2, <3>1 DEF DirectoryOK, ChainsWhole
    <3> QED BY <2>3, <2>4, <3>2
  <2> QED BY <2>4, <2>5, <2>6, <2>7, SlotsAssumption DEF SlotIds
<1>2. ASSUME Stops(d, s) # {}, d.slot[Probe(s, first)] # Empty PROVE s \in L
  <2>1. first \in SlotIds /\ d.slot[Probe(s, first)] = Live(s)
    BY <1>2, StopFacts
  <2>2. Probe(s, first) \in SlotIds
    BY <2>1, ProbeFacts
  <2> QED BY <2>1, <2>2 DEF DirectoryOK, Holds
<1>3. s \in L => Lookup(d, s) = "OK"
  BY <1>1, SlotKinds DEF Lookup
<1>4. Lookup(d, s) = "OK" => s \in L
  BY <1>2 DEF Lookup
<1>5. Lookup(d, s) = "NOT_FOUND" => Stops(d, s) # {} /\ d.slot[Probe(s, first)] = Empty
  BY DEF Lookup
<1> QED BY <1>1, <1>3, <1>4, <1>5

\* The slot symdir_create takes is on the way of the search, and no live
\* symbol loses it.
LEMMA PlaceFacts ==
  ASSUME NEW d, NEW s \in SymbolIds, Stops(d, s) # {},
         d.slot[Probe(s, Min(Stops(d, s)))] = Empty
  PROVE  \E q \in SlotIds :
           /\ Place(d, s) = Probe(s, q) /\ d.slot[Probe(s, q)].state # "live"
           /\ \A m \in 0 .. q - 1 : d.slot[Probe(s, m)] # Empty
<1> DEFINE first == Min(Stops(d, s))
           choices == Reusable(d, s) \cup {first}
           q == Min(choices)
<1>1. /\ first \in SlotIds
      /\ \A m \in 0 .. first - 1 : d.slot[Probe(s, m)] \notin {Live(s), Empty}
  BY StopFacts
<1>2. choices \in SUBSET SlotIds /\ choices \in SUBSET Nat /\ choices # {}
      /\ \A n \in choices : n <= first
  BY <1>1, SlotsAssumption DEF Reusable, SlotIds
<1>3. q \in choices
  BY <1>2, FirstOf
<1>4. q \in SlotIds /\ q <= first
  BY <1>2, <1>3
<1>5. d.slot[Probe(s, q)].state # "live"
  <2>1. CASE q = first
    BY <2>1, SlotKinds
  <2>2. CASE q \in Reusable(d, s)
    BY <2>2, SlotKinds DEF Reusable
  <2> QED BY <1>3, <2>1, <2>2
<1>6. \A m \in 0 .. q - 1 : d.slot[Probe(s, m)] # Empty
  BY <1>1, <1>4 DEF SlotIds
<1>7. Place(d, s) = Probe(s, q)
  BY DEF Place
<1> QED BY <1>4, <1>5, <1>6, <1>7

------------------------------------------------------------------------------
(* The steps on one directory.                                             *)

\* The live symbols and slots can be counted.
LEMMA Countable ==
  ASSUME NEW d, NEW L \in SUBSET SymbolIds
  PROVE  /\ IsFiniteSet(L) /\ Cardinality(L) \in Nat
         /\ Cardinality(L) <= Cardinality(SymbolIds) /\ Cardinality(SymbolIds) \in Nat
         /\ IsFiniteSet(LiveSlots(d))
<1>1. IsFiniteSet(SlotIds)
  BY SlotsAssumption, FS_Interval DEF SlotIds
<1>2. LiveSlots(d) \in SUBSET SlotIds
  BY DEF LiveSlots
<1> QED BY <1>1, <1>2, SymbolsAssumption, FS_Subset, FS_CardinalityType

\* A new symbol takes a slot that is not live, in front of which the search
\* for it meets no empty one.
LEMMA AddSymbol ==
  ASSUME NEW d, NEW L, DirectoryOK(d, L), NEW s \in SymbolIds, s \notin L,
         NEW q \in SlotIds, d.slot[Probe(s, q)].state # "live",
         \A m \in 0 .. q - 1 : d.slot[Probe(s, m)] # Empty,
         NEW e, e = [slot |-> [d.slot EXCEPT ![Probe(s, q)] = Live(s)], count |-> d.count + 1]
  PROVE  DirectoryOK(e, L \cup {s})
<1> DEFINE p == Probe(s, q)
           M == L \cup {s}
<1>1. p \in SlotIds /\ \A n \in SlotIds : Probe(s, n) = p => n = q
  BY ProbeFacts
<1>2. d.slot \in [SlotIds -> SlotStates] /\ L \in SUBSET SymbolIds
  BY DEF DirectoryOK, Directories
<1>3. Live(s) \in SlotStates
  BY DEF SlotStates
<1>4. /\ e.slot \in [SlotIds -> SlotStates] /\ e.slot[p] = Live(s) /\ e.count = d.count + 1
      /\ \A i \in SlotIds \ {p} : e.slot[i] = d.slot[i]
  BY <1>1, <1>2, <1>3
<1>5. \A i \in SlotIds : d.slot[i] # Live(s)
  BY DEF DirectoryOK, Holds
<1>6. d.slot[p].state # "live" /\ \A r : d.slot[p] # Live(r)
  BY SlotKinds
<1> HIDE DEF p
<1>7. M \in SUBSET SymbolIds /\ Cardinality(M) = Cardinality(L) + 1
  BY <1>2, Countable, FS_AddElement
<1>8. ChainsWhole(e)
  <2> SUFFICES ASSUME NEW r \in SymbolIds, NEW n \in SlotIds, e.slot[Probe(r, n)] = Live(r),
                      NEW m \in 0 .. n - 1
               PROVE  e.slot[Probe(r, m)] # Empty
    BY DEF ChainsWhole
  <2>0. m \in SlotIds /\ Probe(r, n) \in SlotIds /\ Probe(r, m) \in SlotIds
    <3>1. m \in SlotIds
      BY SlotsAssumption DEF SlotIds
    <3> QED BY <3>1, ProbeFacts
  <2>1. d.slot[Probe(r, m)] # Empty
    <3>1. CASE Probe(r, n) = p
      <4>1. r = s
        BY <1>4, <3>1, SlotKinds
      <4>2. n = q
        BY <1>1, <3>1, <4>1
      <4> QED BY <4>1, <4>2
    <3>2. CASE Probe(r, n) # p
      <4>1. d.slot[Probe(r, n)] = Live(r)
        BY <1>4, <2>0, <3>2
      <4> QED BY <4>1 DEF DirectoryOK, ChainsWhole
    <3> QED BY <3>1, <3>2
  <2> QED BY <1>4, <2>0, <2>1, SlotKinds
<1>9. Single(e)
  <2> SUFFICES ASSUME NEW i \in SlotIds, NEW j \in SlotIds,
                      e.slot[i].state = "live", e.slot[i] = e.slot[j]
               PROVE  i = j
    BY DEF Single
  <2>1. CASE i = p \/ j = p
    BY <1>4, <1>5, <2>1
  <2>2. CASE i # p /\ j # p
    BY <1>4, <2>2 DEF DirectoryOK, Single
  <2> QED BY <2>1, <2>2
<1>10. Holds(e, M)
  <2> SUFFICES ASSUME NEW r \in SymbolIds
               PROVE  r \in M <=> \E i \in SlotIds : e.slot[i] = Live(r)
    BY DEF Holds
  <2>1. CASE r = s
    BY <1>1, <1>4, <2>1
  <2>2. CASE r # s
    <3>1. e.slot[p] # Live(r)
      BY <1>4, <2>2, SlotKinds
    <3>2. (\E i \in SlotIds : e.slot[i] = Live(r)) <=> \E i \in SlotIds : d.slot[i] = Live(r)
      BY <1>1, <1>4, <1>6, <3>1
    <3> QED BY <2>2, <3>2 DEF DirectoryOK, Holds
  <2> QED BY <2>1, <2>2
<1>11. Cardinality(LiveSlots(e)) = Cardinality(M)
  <2>1. LiveSlots(e) = LiveSlots(d) \cup {p} /\ p \notin LiveSlots(d)
    BY <1>1, <1>4, <1>6, SlotKinds DEF LiveSlots
  <2>2. Cardinality(LiveSlots(e)) = Cardinality(LiveSlots(d)) + 1
    BY <1>2, <2>1, Countable, FS_AddElement
  <2> QED BY <1>7, <2>2 DEF DirectoryOK
<1>12. e \in Directories /\ e.count = Cardinality(M)
  <2>1. e.count = Cardinality(M)
    BY <1>4, <1>7 DEF DirectoryOK
  <2>2. Cardinality(M) \in 0 .. Cardinality(SymbolIds)
    <3> HIDE DEF M
    <3>1. /\ Cardinality(M) <= Cardinality(SymbolIds)
          /\ Cardinality(M) \in Nat /\ Cardinality(SymbolIds) \in Nat
      BY <1>7, Countable, Zenon
    <3> QED BY <3>1
  <2>3. e = [slot |-> e.slot, count |-> e.count]
    OBVIOUS
  <2> QED BY <1>4, <2>1, <2>2, <2>3 DEF Directories
<1> QED BY <1>7, <1>8, <1>9, <1>10, <1>11, <1>12 DEF DirectoryOK

\* symdir_lookup with create_ok.
LEMMA EnsureOK ==
  ASSUME NEW d, NEW L, DirectoryOK(d, L), NEW s \in SymbolIds, Lookup(d, s) # "FULL"
  PROVE  DirectoryOK(Ensure(d, s), L \cup {s})
<1>1. CASE s \in L
  <2>1. Lookup(d, s) = "OK" /\ L \cup {s} = L
    BY <1>1, LookupFacts
  <2> QED BY <2>1 DEF Ensure
<1>2. CASE s \notin L
  <2>1. Lookup(d, s) = "NOT_FOUND" /\ Lookup(d, s) # "OK"
    BY <1>2, LookupFacts DEF Lookup
  <2>2. Stops(d, s) # {} /\ d.slot[Probe(s, Min(Stops(d, s)))] = Empty
    BY <2>1, LookupFacts
  <2>3. PICK q \in SlotIds :
          /\ Place(d, s) = Probe(s, q) /\ d.slot[Probe(s, q)].state # "live"
          /\ \A m \in 0 .. q - 1 : d.slot[Probe(s, m)] # Empty
    BY <2>2, PlaceFacts
  <2>4. Ensure(d, s) = [slot |-> [d.slot EXCEPT ![Probe(s, q)] = Live(s)], count |-> d.count + 1]
    BY <2>1, <2>3 DEF Ensure
  <2> QED BY <1>2, <2>3, <2>4, AddSymbol
<1> QED BY <1>1, <1>2

\* symbol_drop leaves a tombstone in the one slot of the symbol.
LEMMA WithoutOK ==
  ASSUME NEW d, NEW L, DirectoryOK(d, L), NEW s \in SymbolIds, s \in L
  PROVE  DirectoryOK(Without(d, s), L \ {s})
<1> DEFINE p == Probe(s, Min(Stops(d, s)))
           e == Without(d, s)
           M == L \ {s}
<1>1. p \in SlotIds /\ d.slot[p] = Live(s)
  BY LookupFacts, StopFacts, ProbeFacts
<1>2. d.slot \in [SlotIds -> SlotStates] /\ L \in SUBSET SymbolIds
  BY DEF DirectoryOK, Directories
<1>3. Tombstone(s) \in SlotStates
  BY DEF SlotStates
<1>4. d.count > 0 /\ d.count = Cardinality(L) /\ Cardinality(M) = Cardinality(L) - 1
      /\ M \in SUBSET SymbolIds /\ Cardinality(L) \in Nat
  <2>1. Cardinality(M) = Cardinality(L) - 1 /\ Cardinality(L) \in Nat /\ M \in SUBSET SymbolIds
    BY <1>2, Countable, FS_RemoveElement
  <2>2. Cardinality(M) \in Nat
    BY <2>1, Countable
  <2> QED BY <2>1, <2>2 DEF DirectoryOK
<1>5. e = [slot |-> [d.slot EXCEPT ![p] = Tombstone(s)], count |-> d.count - 1]
  BY <1>4 DEF Without, Cleared
<1>6. /\ e.slot \in [SlotIds -> SlotStates] /\ e.slot[p] = Tombstone(s) /\ e.count = d.count - 1
      /\ \A i \in SlotIds \ {p} : e.slot[i] = d.slot[i]
  BY <1>1, <1>2, <1>3, <1>5
<1>7. e = [slot |-> e.slot, count |-> e.count]
  BY <1>5
<1> HIDE DEF p, e
<1>8. ChainsWhole(e)
  <2> SUFFICES ASSUME NEW r \in SymbolIds, NEW n \in SlotIds, e.slot[Probe(r, n)] = Live(r),
                      NEW m \in 0 .. n - 1
               PROVE  e.slot[Probe(r, m)] # Empty
    BY DEF ChainsWhole
  <2>0. Probe(r, n) \in SlotIds /\ Probe(r, m) \in SlotIds
    <3>1. m \in SlotIds
      BY SlotsAssumption DEF SlotIds
    <3> QED BY <3>1, ProbeFacts
  <2>1. d.slot[Probe(r, n)] = Live(r)
    BY <1>6, <2>0, SlotKinds
  <2>2. d.slot[Probe(r, m)] # Empty
    BY <2>1 DEF DirectoryOK, ChainsWhole
  <2> QED BY <1>6, <2>0, <2>2, SlotKinds
<1>9. Single(e)
  BY <1>6, SlotKinds DEF DirectoryOK, Single
<1>10. Holds(e, M)
  <2> SUFFICES ASSUME NEW r \in SymbolIds
               PROVE  r \in M <=> \E i \in SlotIds : e.slot[i] = Live(r)
    BY DEF Holds
  <2>1. CASE r = s
    <3>1. ASSUME NEW i \in SlotIds, e.slot[i] = Live(s) PROVE FALSE
      <4>1. i # p
        BY <1>6, <3>1, SlotKinds
      <4>2. d.slot[i] = Live(s)
        BY <1>6, <3>1, <4>1
      <4> QED BY <1>1, <4>1, <4>2, SlotKinds DEF DirectoryOK, Single
    <3> QED BY <2>1, <3>1
  <2>2. CASE r # s
    <3>1. d.slot[p] # Live(r) /\ e.slot[p] # Live(r)
      BY <1>1, <1>6, <2>2, SlotKinds
    <3>2. (\E i \in SlotIds : e.slot[i] = Live(r)) <=> \E i \in SlotIds : d.slot[i] = Live(r)
      BY <1>6, <3>1
    <3> QED BY <2>2, <3>2 DEF DirectoryOK, Holds
  <2> QED BY <2>1, <2>2
<1>11. Cardinality(LiveSlots(e)) = Cardinality(M)
  <2>1. LiveSlots(e) = LiveSlots(d) \ {p} /\ p \in LiveSlots(d)
    BY <1>1, <1>6, SlotKinds DEF LiveSlots
  <2>2. Cardinality(LiveSlots(e)) = Cardinality(LiveSlots(d)) - 1
    BY <1>2, <2>1, Countable, FS_RemoveElement
  <2> QED BY <1>4, <2>2 DEF DirectoryOK
<1>12. e \in Directories /\ e.count = Cardinality(M)
  <2>1. e.count = Cardinality(M)
    BY <1>4, <1>6
  <2>2. Cardinality(M) \in 0 .. Cardinality(SymbolIds)
    BY <1>4, Countable
  <2> QED BY <1>6, <1>7, <2>1, <2>2 DEF Directories
<1>13. DirectoryOK(e, M)
  BY <1>4, <1>8, <1>9, <1>10, <1>11, <1>12 DEF DirectoryOK
<1> QED BY <1>13 DEF e

------------------------------------------------------------------------------
(* Theorems.                                                               *)

\* A new file has the empty directory.
LEMMA InitInv == Init => IInv
<1> SUFFICES ASSUME Init PROVE IInv
  OBVIOUS
<1>1. dir = [slot |-> [i \in SlotIds |-> Empty], count |-> 0] /\ disk = dir
      /\ open = FALSE /\ live = {} /\ kept = {}
  BY DEF Init
<1>2. \A i \in SlotIds : dir.slot[i] = Empty
  BY <1>1
<1>3. Cardinality({}) = 0 /\ LiveSlots(dir) = {}
  BY <1>2, FS_EmptySet, SlotKinds DEF LiveSlots
<1>4. dir \in Directories
  <2>1. 0 \in 0 .. Cardinality(SymbolIds)
    BY SymbolsAssumption, FS_CardinalityType
  <2> QED BY <1>1, <2>1 DEF Directories, SlotStates
<1>5. ChainsWhole(dir) /\ Single(dir) /\ Holds(dir, live)
  BY <1>1, <1>2, ProbeFacts, SlotKinds DEF ChainsWhole, Single, Holds
<1>6. DirectoryOK(dir, live)
  BY <1>1, <1>3, <1>4, <1>5 DEF DirectoryOK
<1> QED BY <1>1, <1>6 DEF IInv

\* Each step keeps both directories, the one of the transaction and the one on
\* the disk.
LEMMA StepInv == IInv /\ [Next]_vars => IInv'
<1> SUFFICES ASSUME IInv, [Next]_vars PROVE IInv'
  OBVIOUS
<1> USE DEF IInv
<1>1. ASSUME NEW s \in SymbolIds, Put(s) PROVE IInv'
  <2>1. DirectoryOK(Ensure(dir, s), live \cup {s})
    BY <1>1, EnsureOK DEF Put
  <2> QED BY <1>1, <2>1 DEF Put
<1>2. CASE Commit
  BY <1>2 DEF Commit
<1>3. CASE Abandon
  BY <1>3 DEF Abandon, Restored
<1>4. ASSUME NEW s \in SymbolIds, Drop(s) PROVE IInv'
  <2>1. s \in live
    BY <1>4, LookupFacts DEF Drop
  <2>2. DirectoryOK(Without(dir, s), live \ {s})
    BY <2>1, WithoutOK
  <2> QED BY <1>4, <2>2 DEF Drop
<1>5. CASE UNCHANGED vars
  BY <1>5 DEF vars
<1> QED BY <1>1, <1>2, <1>3, <1>4, <1>5 DEF Next, PutRefused, Rollback

\* Every behaviour stays within the invariant.
THEOREM Invariant == Spec => []IInv
BY InitInv, StepInv, PTL DEF Spec

\* Slots, counts and the sets of symbols keep their types: symbol_count stays
\* within the number of symbols.
THEOREM TypeAlwaysOK == Spec => []TypeOK
<1>1. IInv => TypeOK
  BY DEF IInv, DirectoryOK, TypeOK
<1> QED BY <1>1, Invariant, PTL

\* symdir_lookup finds the symbols that exist and no other, in a directory of
\* any size, wherever the symbols hash to, after any history of creations,
\* drops and rollbacks.
THEOREM LookupAlwaysExact == Spec => []LookupExact
<1>1. IInv => LookupExact
  BY LookupFacts DEF IInv, LookupExact
<1> QED BY <1>1, Invariant, PTL

\* Every symbol has one slot, and symbol_count counts them.
THEOREM OneSlotAlways == Spec => []OneSlotEach
<1>1. IInv => OneSlotEach
  BY DEF IInv, DirectoryOK, Single, LiveSlots, OneSlotEach
<1> QED BY <1>1, Invariant, PTL
==============================================================================
