------------------------------ MODULE LeafIndex ------------------------------
(***************************************************************************)
(* One symbol of a SpikeDB file: the doubly linked chain of leaf pages     *)
(* that holds its records, the index node of each leaf and the counters of *)
(* the symbol's root page, under the transactions of the public interface. *)
(* `sym` is the symbol as the pages of the open transaction show it,       *)
(* `disk` as the latest commit left it.  A transaction holds the exclusive *)
(* file lock from its first step to its last.                              *)
(*                                                                         *)
(* Abstracted here: the towers of the skip list (a descent returns the     *)
(* leaf with the greatest node key not above the target), the bytes of a   *)
(* leaf (a leaf is a map from keys to values and a number of used bytes),  *)
(* pages, cache and file.                                                  *)
(*                                                                         *)
(* A definition whose name starts with Bug is not part of the model: it is *)
(* the definition after it with a mistake in it, which the properties have *)
(* to notice.                                                              *)
(***************************************************************************)
EXTENDS Integers, FiniteSets, FiniteSetsExt

CONSTANTS
  Leaves,      \* ids of leaf pages: bounds the leaves of the symbol
  NoLeaf,      \* SPIKEDB_INVALID_PAGE
  Keys,        \* the (time, seq) pairs, numbered in key order
  SeqSpan,     \* sequence numbers per timestamp in that numbering
  Vals,        \* payloads
  Size,        \* length of each payload
  Absent,      \* the value of a key a leaf does not hold
  RecordSize,  \* record_size of the root: 0 for a variable-width symbol
  FixedCap,    \* LEAF_FIXED_CAP(RecordSize)
  LeafBytes,   \* bytes a variable-width leaf has for slots and values
  SlotSize,    \* LEAF_SLOT_SIZE
  TopTime,     \* UINT64_MAX
  PutFlags,    \* the overwrite flags the writers use
  MaxBatch,    \* entries in a batch: a bound
  AllWrites    \* FALSE leaves out the writes BecomesFirst describes

NoKey == -1
Idle == [op |-> "idle"]
Times == {k \div SeqSpan : k \in Keys}
TimeOf(k) == k \div SeqSpan
StartOf(t) == t * SeqSpan     \* the key (t, 0)

ASSUME KeysAssumption == Keys \subseteq Nat /\ IsFiniteSet(Keys)
ASSUME SpanAssumption == SeqSpan \in Nat \ {0}
ASSUME ValsAssumption == Absent \notin Vals /\ Size \in [Vals -> Nat]
ASSUME LeavesAssumption == IsFiniteSet(Leaves) /\ NoLeaf \notin Leaves
ASSUME LayoutAssumption ==
  /\ RecordSize \in Nat /\ FixedCap \in Nat
  /\ LeafBytes \in Nat /\ SlotSize \in Nat \ {0}
  /\ TopTime \in Nat /\ \A t \in Times : t <= TopTime
ASSUME WritesAssumption ==
  PutFlags \subseteq BOOLEAN /\ AllWrites \in BOOLEAN /\ MaxBatch \in Nat

VARIABLES
  sym,   \* the symbol inside the transaction
  disk,  \* the symbol as committed
  txn    \* the open transaction, or Idle

vars == <<sym, disk, txn>>

Maps == [Keys -> Vals \cup {Absent}]

Symbols == [
  live : SUBSET Leaves,                    \* leaf pages allocated to the symbol
  recs : [Leaves -> Maps],                 \* the records of each leaf
  used : [Leaves -> Nat],                  \* bytes taken, holes included
  next : [Leaves -> Leaves \cup {NoLeaf}], \* next_leaf
  prev : [Leaves -> Leaves \cup {NoLeaf}], \* prev_leaf
  node : [Leaves -> Keys \cup {NoKey}],    \* key of the leaf's index node
  first : Leaves \cup {NoLeaf},            \* first_leaf of the root
  last : Leaves \cup {NoLeaf},             \* last_leaf
  leaves : Nat,                            \* leaf_count
  count : Nat,                             \* record_count
  minTime : Nat, maxTime : Nat]

------------------------------------------------------------------------------
(* The records m of one leaf and the bytes u it has used.                  *)

NoRecords == [k \in Keys |-> Absent]
KeysIn(m) == {k \in Keys : m[k] # Absent}
Only(m, S) == [k \in Keys |-> IF k \in S THEN m[k] ELSE Absent]

\* leaf_refresh_bounds: the times in the header of a leaf.
HeaderMin(m) == IF KeysIn(m) = {} THEN TopTime ELSE TimeOf(Min(KeysIn(m)))
HeaderMax(m) == IF KeysIn(m) = {} THEN 0 ELSE TimeOf(Max(KeysIn(m)))

\* Bytes used once leaf_compact has squeezed the holes out: the slot and the
\* value of every record; a fixed-width leaf has no value heap.
Bytes(m) == UNION {{k} \X (1 .. SlotSize + Size[m[k]]) : k \in KeysIn(m)}
Compacted(m) == IF RecordSize # 0 THEN 0 ELSE Cardinality(Bytes(m))

BugHasRoom(m, u, v) ==   \* forgets the slot
  IF RecordSize # 0 THEN Cardinality(KeysIn(m)) < FixedCap
  ELSE u + Size[v] <= LeafBytes

HasRoom(m, u, v) ==
  IF RecordSize # 0 THEN Cardinality(KeysIn(m)) < FixedCap
  ELSE u + SlotSize + Size[v] <= LeafBytes

\* What leaf_upsert answers.
Outcome(m, u, k, v, overwrite) ==
  IF \/ RecordSize # 0 /\ Size[v] # RecordSize
     \/ k \in KeysIn(m) /\ ~overwrite
  THEN "INVAL"
  ELSE IF \/ /\ k \in KeysIn(m)
             /\ RecordSize # 0 \/ Size[v] <= Size[m[k]] \/ u + Size[v] <= LeafBytes
          \/ k \notin KeysIn(m) /\ HasRoom(m, u, v)
       THEN "OK" ELSE "FULL"

\* The bytes used after leaf_upsert: an overwrite that does not grow stays
\* in place, one that grows leaves its old bytes behind as a hole.
UsedAfter(m, u, k, v) ==
  IF RecordSize # 0 THEN 0
  ELSE IF k \notin KeysIn(m) THEN u + SlotSize + Size[v]
  ELSE IF Size[v] <= Size[m[k]] THEN u
  ELSE u + Size[v]

\* leaf_split moves the records from position count / 2 on.
Upper(m) == {k \in KeysIn(m) : Cardinality({j \in KeysIn(m) : j < k})
                                 >= Cardinality(KeysIn(m)) \div 2}
Lower(m) == KeysIn(m) \ Upper(m)

------------------------------------------------------------------------------
(* Walks over index and chain.                                             *)

BugDescend(s, k) ==   \* compares strictly
  LET below == {l \in s.live : s.node[l] # NoKey /\ s.node[l] < k}
  IN IF below = {} THEN s.first
     ELSE CHOOSE l \in below : \A m \in below : s.node[m] <= s.node[l]

\* descend: the leaf with the greatest node key not above k, or the first
\* leaf when every node key is above k.
Descend(s, k) ==
  LET notAbove == {l \in s.live : s.node[l] # NoKey /\ s.node[l] <= k}
  IN IF notAbove = {} THEN s.first
     ELSE CHOOSE l \in notAbove : \A m \in notAbove : s.node[m] <= s.node[l]

\* The leaves a walk along ptr (next or prev) visits from l on: the smallest
\* set that holds l and is closed under ptr.
Walk(ptr, l) ==
  IF l = NoLeaf THEN {}
  ELSE {m \in Leaves : \A S \in SUBSET Leaves :
          (/\ l \in S
           /\ \A x \in S : ptr[x] # NoLeaf => ptr[x] \in S) => m \in S}

Chain(s) == Walk(s.next, s.first)

\* The first leaf on the walk along ptr from l that has a key in S.
FirstHit(s, ptr, l, S) ==
  LET hits == {m \in Walk(ptr, l) : KeysIn(s.recs[m]) \cap S # {}}
  IN IF hits = {} THEN NoLeaf
     ELSE CHOOSE h \in hits : hits \subseteq Walk(ptr, h)

BugSeekGE(s, k) ==   \* stays in the leaf of the descent
  LET l == Descend(s, k)
      notBelow == IF l = NoLeaf THEN {} ELSE {j \in KeysIn(s.recs[l]) : j >= k}
  IN IF notBelow = {} THEN NoKey ELSE Min(notBelow)

\* find_first_ge, and lookup_key with dir > 0.
SeekGE(s, k) ==
  LET notBelow == {j \in Keys : j >= k}
      h == FirstHit(s, s.next, Descend(s, k), notBelow)
  IN IF h = NoLeaf THEN NoKey ELSE Min(KeysIn(s.recs[h]) \cap notBelow)

\* lookup_key with dir < 0.
SeekLE(s, k) ==
  LET notAbove == {j \in Keys : j <= k}
      h == FirstHit(s, s.prev, Descend(s, k), notAbove)
  IN IF h = NoLeaf THEN NoKey ELSE Max(KeysIn(s.recs[h]) \cap notAbove)

Holds(s, l, k) == l # NoLeaf /\ k \in KeysIn(s.recs[l])

\* lookup_key with dir = 0.
Get(s, k) == IF Holds(s, Descend(s, k), k) THEN s.recs[Descend(s, k)][k] ELSE Absent

\* spike_db_min_time and spike_db_max_time; NoKey stands for NOT_FOUND.
ReadMinTime(s) == IF s.minTime = TopTime THEN NoKey ELSE s.minTime
ReadMaxTime(s) == IF s.maxTime = 0 /\ s.count = 0 THEN NoKey ELSE s.maxTime

------------------------------------------------------------------------------
(* symbol_insert.                                                          *)

NewSymbol == [
  live |-> {}, recs |-> [l \in Leaves |-> NoRecords], used |-> [l \in Leaves |-> 0],
  next |-> [l \in Leaves |-> NoLeaf], prev |-> [l \in Leaves |-> NoLeaf],
  node |-> [l \in Leaves |-> NoKey], first |-> NoLeaf, last |-> NoLeaf,
  leaves |-> 0, count |-> 0, minTime |-> TopTime, maxTime |-> 0]

\* Root counters once a record with a new key is in.
Counted(s, k) == [s EXCEPT
  !.count = @ + 1,
  !.minTime = IF TimeOf(k) < @ THEN TimeOf(k) ELSE @,
  !.maxTime = IF TimeOf(k) > @ THEN TimeOf(k) ELSE @]

\* The first leaf of a symbol without leaves.
FirstLeaf(s, p, k, v) == [
  live |-> s.live \cup {p},
  recs |-> [s.recs EXCEPT ![p] = [NoRecords EXCEPT ![k] = v]],
  used |-> [s.used EXCEPT ![p] = UsedAfter(NoRecords, 0, k, v)],
  next |-> [s.next EXCEPT ![p] = NoLeaf],
  prev |-> [s.prev EXCEPT ![p] = NoLeaf],
  node |-> [s.node EXCEPT ![p] = k],
  first |-> p, last |-> p, leaves |-> 1, count |-> 1,
  minTime |-> TimeOf(k), maxTime |-> TimeOf(k)]

BugPutInLeaf(s, l, k, v) ==   \* counts an overwrite as a new record
  Counted([s EXCEPT !.recs[l] = [@ EXCEPT ![k] = v]], k)

\* Leaf l takes the record.
PutInLeaf(s, l, k, v) ==
  LET m == s.recs[l]
      t == [s EXCEPT !.recs[l] = [m EXCEPT ![k] = v],
                     !.used[l] = UsedAfter(m, @, k, v)]
  IN IF k \in KeysIn(m) THEN t ELSE Counted(t, k)

\* A new leaf behind the tail leaf l.
NewTail(s, l, p, k, v) ==
  Counted([s EXCEPT
    !.live = @ \cup {p},
    !.recs[p] = [NoRecords EXCEPT ![k] = v],
    !.used[p] = UsedAfter(NoRecords, 0, k, v),
    !.prev[p] = l,
    !.next = [@ EXCEPT ![l] = p, ![p] = NoLeaf],
    !.node[p] = k,
    !.last = p,
    !.leaves = @ + 1], k)

BugSplit(s, l, p) ==   \* leaves prev_leaf of the leaf behind as it was
  LET m == s.recs[l]
      lower == Only(m, Lower(m))
      upper == Only(m, Upper(m))
  IN [s EXCEPT
    !.live = @ \cup {p},
    !.recs = [@ EXCEPT ![l] = lower, ![p] = upper],
    !.used = [@ EXCEPT ![l] = Compacted(lower), ![p] = Compacted(upper)],
    !.next = [@ EXCEPT ![l] = p, ![p] = s.next[l]],
    !.prev[p] = l,
    !.node[p] = Min(Upper(m)),
    !.last = IF @ = l THEN p ELSE @,
    !.leaves = @ + 1]

\* leaf_split of l into l and p.
Split(s, l, p) ==
  LET m == s.recs[l]
      lower == Only(m, Lower(m))
      upper == Only(m, Upper(m))
  IN [s EXCEPT
    !.live = @ \cup {p},
    !.recs = [@ EXCEPT ![l] = lower, ![p] = upper],
    !.used = [@ EXCEPT ![l] = Compacted(lower), ![p] = Compacted(upper)],
    !.next = [@ EXCEPT ![l] = p, ![p] = s.next[l]],
    !.prev = [x \in Leaves |-> IF x = p THEN l
                               ELSE IF x = s.next[l] THEN p ELSE @[x]],
    !.node[p] = Min(Upper(m)),
    !.last = IF @ = l THEN p ELSE @,
    !.leaves = @ + 1]

\* The half the retry after a split picks.
ToUpper(m, k) == Lower(m) # {} /\ \A j \in Lower(m) : j < k
Half(m, k) == Only(m, IF ToUpper(m, k) THEN Upper(m) ELSE Lower(m))

\* The append fast path: the key is above the tail leaf's last key and fits.
TailTakes(s, k, v, overwrite) ==
  LET l == s.last IN
  /\ l # NoLeaf
  /\ KeysIn(s.recs[l]) # {} /\ s.next[l] = NoLeaf
  /\ \A j \in KeysIn(s.recs[l]) : j < k
  /\ Outcome(s.recs[l], s.used[l], k, v, overwrite) = "OK"

\* The leaf that takes the record when none has to be made.
Target(s, k, v, overwrite) ==
  IF TailTakes(s, k, v, overwrite) THEN s.last ELSE Descend(s, k)

\* Past the last record of a full tail leaf: a new tail leaf, no split.
NeedsTail(s, l, k, v) ==
  /\ KeysIn(s.recs[l]) # {} /\ \A j \in KeysIn(s.recs[l]) : j < k
  /\ ~HasRoom(s.recs[l], s.used[l], v)
  /\ s.next[l] = NoLeaf

\* The way symbol_insert takes, and the status it ends with when the way is
\* "refuse".
Fresh(k, v) == Outcome(NoRecords, 0, k, v, FALSE)
Way(s, k, v, overwrite) ==
  LET l == Target(s, k, v, overwrite)
      here == Outcome(s.recs[l], s.used[l], k, v, overwrite)
      half == Half(s.recs[l], k)
  IN IF s.first = NoLeaf THEN IF Fresh(k, v) = "OK" THEN "first" ELSE "refuse"
     ELSE IF ~TailTakes(s, k, v, overwrite) /\ NeedsTail(s, l, k, v)
       THEN IF Fresh(k, v) = "OK" THEN "tail" ELSE "refuse"
     ELSE IF here = "OK" THEN "leaf"
     ELSE IF here = "FULL" /\ Outcome(half, Compacted(half), k, v, overwrite) = "OK"
       THEN "split" ELSE "refuse"

WriteStatus(s, k, v, overwrite) ==
  IF Way(s, k, v, overwrite) # "refuse" THEN "OK"
  ELSE LET l == Target(s, k, v, overwrite)
       IN IF s.first = NoLeaf \/ NeedsTail(s, l, k, v) THEN Fresh(k, v)
          ELSE Outcome(s.recs[l], s.used[l], k, v, overwrite)

\* The record becomes the first one of a leaf that already has its index
\* node; the code leaves the node's key as it was.
BecomesFirst(k, m) == \A j \in KeysIn(m) : k < j

\* The writes AllWrites = FALSE leaves out: see the README for what the code
\* does with them.
Mishandled(s, k, v, overwrite) ==
  LET l == Target(s, k, v, overwrite) IN
  \/ Way(s, k, v, overwrite) = "leaf" /\ BecomesFirst(k, s.recs[l])
  \/ Way(s, k, v, overwrite) = "split" /\ BecomesFirst(k, Half(s.recs[l], k))

\* What the symbol can be after a write the code does not refuse: any free
\* page can be the new leaf.
AfterWrite(s, k, v, overwrite) ==
  LET l == Target(s, k, v, overwrite)
      way == Way(s, k, v, overwrite)
  IN CASE way = "first" -> {FirstLeaf(s, p, k, v) : p \in Leaves \ s.live}
       [] way = "tail"  -> {NewTail(s, l, p, k, v) : p \in Leaves \ s.live}
       [] way = "leaf"  -> {PutInLeaf(s, l, k, v)}
       [] way = "split" -> {PutInLeaf(Split(s, l, p),
                                      IF ToUpper(s.recs[l], k) THEN p ELSE l, k, v)
                              : p \in Leaves \ s.live}

------------------------------------------------------------------------------
(* symbol_delete.                                                          *)

BugUncounted(s) ==   \* leaf_unlink has counted the record already
  [s EXCEPT !.count = @ - 2]

\* Root counters after a delete: the times are read from the end leaves.
Uncounted(s) == [s EXCEPT
  !.count = IF @ > 0 THEN @ - 1 ELSE 0,
  !.minTime = IF s.first = NoLeaf THEN TopTime ELSE HeaderMin(s.recs[s.first]),
  !.maxTime = IF s.first = NoLeaf THEN 0 ELSE HeaderMax(s.recs[s.last])]

\* Records remain in the leaf: when its first one goes, its node follows.
Erase(s, l, k) ==
  LET rest == Only(s.recs[l], KeysIn(s.recs[l]) \ {k}) IN
  [s EXCEPT !.recs[l] = rest,
            !.used[l] = Compacted(rest),
            !.node[l] = IF BecomesFirst(k, rest) THEN Min(KeysIn(rest)) ELSE @]

\* leaf_unlink: an empty leaf goes out of index, chain and file.
Unlink(s, l) ==
  [s EXCEPT !.live = @ \ {l},
            !.recs[l] = NoRecords, !.used[l] = 0, !.node[l] = NoKey,
            !.next = [x \in Leaves |-> IF x = l THEN NoLeaf
                                       ELSE IF x = s.prev[l] THEN s.next[l] ELSE @[x]],
            !.prev = [x \in Leaves |-> IF x = l THEN NoLeaf
                                       ELSE IF x = s.next[l] THEN s.prev[l] ELSE @[x]],
            !.first = IF @ = l THEN s.next[l] ELSE @,
            !.last = IF @ = l THEN s.prev[l] ELSE @,
            !.leaves = IF @ > 0 THEN @ - 1 ELSE 0]

AfterDelete(s, k) ==
  LET l == Descend(s, k) IN
  IF ~Holds(s, l, k) THEN s
  ELSE IF KeysIn(s.recs[l]) = {k} THEN Uncounted(Unlink(s, l))
  ELSE Uncounted(Erase(s, l, k))

------------------------------------------------------------------------------
(* spike_db_truncate_before.                                               *)

BugStale(m, cutoff) ==   \* the cutoff belongs to what goes
  KeysIn(m) = {} \/ HeaderMax(m) <= cutoff

\* The leaves it frees: those at the front of the chain, up to the first one
\* with a record at or after the cutoff.
Stale(m, cutoff) == KeysIn(m) = {} \/ HeaderMax(m) < cutoff
FreedBelow(s, cutoff) ==
  {l \in Chain(s) : \A m \in Chain(s) : l \in Walk(s.next, m) => Stale(s.recs[m], cutoff)}

\* leaf_drop_below, applied to the first leaf that survives.
TrimBelow(m, cutoff) == Only(m, {k \in KeysIn(m) : k >= StartOf(cutoff)})

CountIn(s, S) == Cardinality({r \in S \X Keys : r[2] \in KeysIn(s.recs[r[1]])})

AfterTruncate(s, cutoff) ==
  LET freed == FreedBelow(s, cutoff)
      kept == Chain(s) \ freed
      head == IF kept = {} THEN NoLeaf ELSE CHOOSE l \in kept : kept = Walk(s.next, l)
      recs == [l \in Leaves |-> IF l \in freed THEN NoRecords
                                ELSE IF l = head THEN TrimBelow(s.recs[l], cutoff)
                                ELSE s.recs[l]]
      removed == CountIn(s, Chain(s)) - CountIn([s EXCEPT !.recs = recs], Chain(s))
  IN [live |-> s.live \ freed,
      recs |-> recs,
      used |-> [l \in Leaves |-> IF l \in freed THEN 0
                                 ELSE IF recs[l] # s.recs[l] THEN Compacted(recs[l])
                                 ELSE s.used[l]],
      next |-> [l \in Leaves |-> IF l \in freed THEN NoLeaf ELSE s.next[l]],
      prev |-> [l \in Leaves |-> IF l \in freed \/ l = head THEN NoLeaf ELSE s.prev[l]],
      node |-> [l \in Leaves |-> IF s.node[l] # NoKey /\ ~Stale(recs[l], cutoff)
                                 THEN Min(KeysIn(recs[l])) ELSE NoKey],
      first |-> head,
      last |-> IF head = NoLeaf THEN NoLeaf ELSE CHOOSE l \in kept : s.next[l] = NoLeaf,
      leaves |-> Cardinality(kept),
      count |-> IF s.count > removed THEN s.count - removed ELSE 0,
      minTime |-> IF head = NoLeaf THEN TopTime
                  ELSE Min({HeaderMin(recs[l]) : l \in kept}),
      maxTime |-> IF head = NoLeaf THEN 0 ELSE s.maxTime]

------------------------------------------------------------------------------
Init == sym = NewSymbol /\ disk = NewSymbol /\ txn = Idle

\* An entry of a write batch.  Entries apply in key order; a put the symbol
\* refuses rolls the whole batch back, a delete of an absent key is no error.
CanTakeEntry(k) ==
  \/ txn = Idle
  \/ txn.op = "batch" /\ txn.entries < MaxBatch /\ txn.from <= k
EntriesSoFar == IF txn = Idle THEN 0 ELSE txn.entries
NextEntry(k) == [op |-> "batch", from |-> k, entries |-> EntriesSoFar + 1]

BatchPut(k, v, overwrite) ==
  /\ CanTakeEntry(k)
  /\ WriteStatus(sym, k, v, overwrite) = "OK"
  /\ AllWrites \/ ~Mishandled(sym, k, v, overwrite)
  /\ sym' \in AfterWrite(sym, k, v, overwrite)
  /\ txn' = NextEntry(k)
  /\ UNCHANGED disk

BatchRefused(k, v, overwrite) ==
  /\ CanTakeEntry(k)
  /\ WriteStatus(sym, k, v, overwrite) # "OK"
  /\ sym' = disk /\ txn' = Idle
  /\ UNCHANGED disk

BatchDelete(k) ==
  /\ CanTakeEntry(k)
  /\ sym' = AfterDelete(sym, k)
  /\ txn' = NextEntry(k)
  /\ UNCHANGED disk

\* spike_db_delete_range: one transaction that removes the lowest key in the
\* range until none is left.
BeginRange(lo, hi) ==
  /\ txn = Idle /\ lo <= hi
  /\ txn' = [op |-> "range", lo |-> lo, hi |-> hi]
  /\ UNCHANGED <<sym, disk>>

Lowest == SeekGE(sym, StartOf(txn.lo))
BugMoreInRange ==   \* the range ends before its last time
  Lowest # NoKey /\ TimeOf(Lowest) < txn.hi
MoreInRange == Lowest # NoKey /\ TimeOf(Lowest) <= txn.hi

RangeStep ==
  /\ txn.op = "range" /\ MoreInRange
  /\ Holds(sym, Descend(sym, Lowest), Lowest)
  /\ sym' = AfterDelete(sym, Lowest)
  /\ UNCHANGED <<disk, txn>>

Commit ==
  /\ \/ txn.op = "batch"
     \/ txn.op = "range" /\ ~MoreInRange
  /\ disk' = sym /\ txn' = Idle
  /\ UNCHANGED sym

\* A page cannot be read or the cache has no free slot, or delete_range does
\* not find the key it has just seen: the transaction is rolled back.
Fail ==
  /\ txn # Idle
  /\ sym' = disk /\ txn' = Idle
  /\ UNCHANGED disk

TruncateBefore(cutoff) ==
  /\ txn = Idle
  /\ sym' = AfterTruncate(sym, cutoff)
  /\ disk' = sym'
  /\ UNCHANGED txn

\* spike_db_symbol_drop frees the leaves on the chain, the node pages and the
\* root; a later put creates the symbol afresh.
SymbolDrop ==
  /\ txn = Idle
  /\ sym' = [NewSymbol EXCEPT !.live = sym.live \ Chain(sym)]
  /\ disk' = sym'
  /\ UNCHANGED txn

Next ==
  \/ \E k \in Keys, v \in Vals, overwrite \in PutFlags :
       BatchPut(k, v, overwrite) \/ BatchRefused(k, v, overwrite)
  \/ \E k \in Keys : BatchDelete(k)
  \/ \E lo, hi \in Times : BeginRange(lo, hi)
  \/ RangeStep
  \/ Commit
  \/ Fail
  \/ \E cutoff \in Times : TruncateBefore(cutoff)
  \/ SymbolDrop

Spec == Init /\ [][Next]_vars
==============================================================================
