--------------------------- MODULE LeafIndexProps ---------------------------
(***************************************************************************)
(* What has to hold of one symbol: the structure spike_db_verify checks,   *)
(* that every lookup finds what the leaves hold, and that the symbol is    *)
(* the map of TickStore.                                                   *)
(***************************************************************************)
EXTENDS LeafIndex

\* The record the leaves hold for each key, however it would be found.
Holders(s, k) == {l \in s.live : k \in KeysIn(s.recs[l])}
Contents(s) == [k \in Keys |-> IF Holders(s, k) = {} THEN Absent
                               ELSE s.recs[CHOOSE l \in Holders(s, k) : TRUE][k]]
KeysOf(s) == {k \in Keys : Holders(s, k) # {}}

\* The state stays in its domain: the fields of the pages, and what a
\* transaction remembers.
TypeOK ==
  /\ sym \in Symbols
  /\ disk \in Symbols
  /\ \/ txn = Idle
     \/ txn \in [op : {"batch"}, from : Keys, entries : Nat]
     \/ txn \in [op : {"range"}, lo : Times, hi : Times]

\* Every leaf of the symbol holds records and its index node carries the key
\* of its first one; a page the symbol does not own has no node (the checks
\* of verify_symbol on empty leaves and on node keys).
IndexMatches(s) ==
  \A l \in Leaves :
    IF l \in s.live
    THEN /\ s.node[l] \in KeysIn(s.recs[l])
         /\ \A k \in KeysIn(s.recs[l]) : s.node[l] <= k
    ELSE s.node[l] = NoKey /\ KeysIn(s.recs[l]) = {}

\* Two leaves never interleave: the keys of one are all below the keys of
\* the other.
LeavesApart(s) ==
  \A l, m \in s.live : s.node[l] < s.node[m] =>
    \A a \in KeysIn(s.recs[l]) : a < s.node[m]
NodesDiffer(s) == \A l, m \in s.live : s.node[l] = s.node[m] => l = m

\* m is the leaf next above l.
Follows(s, l, m) ==
  /\ s.node[l] < s.node[m]
  /\ \A x \in s.live : ~(s.node[l] < s.node[x] /\ s.node[x] < s.node[m])

\* Both directions of the leaf chain run through all leaves in key order and
\* the root points at its two ends.
ChainInOrder(s) ==
  /\ \A l \in s.live : /\ s.next[l] \in s.live \cup {NoLeaf}
                       /\ s.prev[l] \in s.live \cup {NoLeaf}
  /\ \A l, m \in s.live : /\ s.next[l] = m <=> Follows(s, l, m)
                          /\ s.prev[m] = l <=> Follows(s, l, m)
  /\ s.first \in s.live \cup {NoLeaf} /\ s.last \in s.live \cup {NoLeaf}
  /\ \A l \in s.live : /\ s.first = l <=> \A m \in s.live : s.node[l] <= s.node[m]
                       /\ s.last = l <=> \A m \in s.live : s.node[m] <= s.node[l]

\* Index and chain agree with the leaves in every state, between the entries
\* of a batch and between the steps of delete_range too, so that the next
\* entry finds its leaf (symbol_insert, leaf_split, leaf_unlink,
\* spike_db_truncate_before).
StructureOK(s) == IndexMatches(s) /\ LeavesApart(s) /\ NodesDiffer(s) /\ ChainInOrder(s)
StructureSound == StructureOK(sym) /\ StructureOK(disk)

\* What a leaf holds fits its page: the bytes in use, holes included, and the
\* records of a fixed-width leaf (slot directory against value heap, and
\* fixed capacity, in verify_symbol).
LeafWithinPage ==
  \A l \in sym.live :
    /\ Cardinality(KeysIn(sym.recs[l])) <= IF RecordSize # 0 THEN FixedCap ELSE LeafBytes
    /\ sym.used[l] <= LeafBytes
    /\ sym.used[l] >= Compacted(sym.recs[l])

\* The root's counters tell what the leaves hold (spike_db_count,
\* spike_db_min_time, spike_db_max_time, and the walk of verify_symbol).
RootCountersExact ==
  /\ sym.leaves = Cardinality(sym.live)
  /\ sym.count = Cardinality(KeysOf(sym))
  /\ ReadMinTime(sym) = IF KeysOf(sym) = {} THEN NoKey ELSE TimeOf(Min(KeysOf(sym)))
  /\ ReadMaxTime(sym) = IF KeysOf(sym) = {} THEN NoKey ELSE TimeOf(Max(KeysOf(sym)))

\* Point, as-of and at-or-after lookups answer from every leaf, whatever
\* order the records came in ("either returns the exact bytes that were
\* committed or an error code").
GetFindsEveryRecord == \A k \in Keys : Get(sym, k) = Contents(sym)[k]

NeighbourLookupsExact ==
  \A k \in Keys :
    LET above == {j \in KeysOf(sym) : j >= k}
        below == {j \in KeysOf(sym) : j <= k}
    IN /\ SeekGE(sym, k) = IF above = {} THEN NoKey ELSE Min(above)
       /\ SeekLE(sym, k) = IF below = {} THEN NoKey ELSE Max(below)

\* A transaction on the leaves is a transaction on the map.
Tick == INSTANCE TickStore WITH store <- Contents(disk), pending <- Contents(sym)
ImplementsTickStore == Tick!Spec

\* A committed delete_range has removed the records of its range and no
\* other, over however many leaves they lay.
DeleteRangeExact ==
  [][Commit /\ txn.op = "range" =>
       Contents(disk') = [k \in Keys |-> IF TimeOf(k) \in txn.lo .. txn.hi THEN Absent
                                         ELSE Contents(disk)[k]]]_vars
==============================================================================
