----------------------------- MODULE LeafReads -----------------------------
(***************************************************************************)
(* Two reads that walk many leaves of a symbol: spike_db_read_range, which *)
(* copies a time range of a fixed-width symbol into the caller's buffer,   *)
(* and the walk of spike_db_verify over one symbol.                        *)
(***************************************************************************)
EXTENDS LeafIndexProps, Sequences

\* The keys of S as a leaf holds them, in key order.
InOrder(S) ==
  [n \in 1 .. Cardinality(S) |-> CHOOSE k \in S : Cardinality({j \in S : j < k}) = n - 1]

------------------------------------------------------------------------------
\* cursor_seek: the leaf of the first record at or after lo, unless that one
\* lies beyond hi.
SeekLeaf(s, lo, hi) ==
  LET from == {k \in Keys : k >= StartOf(lo)}
      l == FirstHit(s, s.next, Descend(s, StartOf(lo)), from)
  IN IF l # NoLeaf /\ TimeOf(Min(KeysIn(s.recs[l]) \cap from)) <= hi THEN l ELSE NoLeaf

BugCut(take, room) == take >= room   \* a buffer that is just full counts as too small
\* The buffer has no room for all the leaf offers.
Cut(take, room) == take > room

\* One turn of the copying loop of spike_db_read_range, in leaf at.leaf: what
\* the range takes of it (leaf_find for (hi, UINT32_MAX)), as far as the
\* buffer reaches.  It ends in the leaf that has a record beyond the range.
CopyLeaf(s, lo, hi, room, at) ==
  LET here == KeysIn(s.recs[at.leaf])
      avail == InOrder({k \in here : k >= StartOf(lo) /\ TimeOf(k) <= hi})
      left == room - Len(at.out)
      full == Cut(Len(avail), left)
  IN [leaf |-> IF full \/ \E k \in here : TimeOf(k) > hi THEN NoLeaf ELSE s.next[at.leaf],
      out |-> at.out \o SubSeq(avail, 1, IF full THEN left ELSE Len(avail)),
      full |-> full]

\* spike_db_read_range with room for so many records: the keys of what it
\* copies, and whether it answers FULL.  A chain without a cycle ends within
\* as many turns as there are leaves.
ReadRange(s, lo, hi, room) ==
  LET copy[n \in 0 .. Cardinality(Leaves)] ==
        IF n = 0 THEN [leaf |-> SeekLeaf(s, lo, hi), out |-> <<>>, full |-> FALSE]
        ELSE LET at == copy[n - 1]
             IN IF at.leaf = NoLeaf THEN at ELSE CopyLeaf(s, lo, hi, room, at)
  IN copy[Cardinality(Leaves)]

------------------------------------------------------------------------------
BugWalkStart(s) ==   \* the least time seen starts at 0
  [leaf |-> s.first, prev |-> NoLeaf, top |-> NoKey, leaves |-> 0, records |-> 0,
   low |-> 0, high |-> 0, fine |-> TRUE]

\* What verify_symbol knows before the leaf at.leaf: the leaf and the key in
\* front of it, the leaves and records so far, the least and greatest time
\* seen, and whether it has found fault.
WalkStart(s) ==
  [leaf |-> s.first, prev |-> NoLeaf, top |-> NoKey, leaves |-> 0, records |-> 0,
   low |-> TopTime, high |-> 0, fine |-> TRUE]

\* It demands of a leaf that it points back, holds records, keeps within its
\* page, and starts above the leaf in front.
VerifyLeaf(s, at) ==
  LET l == at.leaf
      here == KeysIn(s.recs[l])
  IN [leaf |-> s.next[l], prev |-> l,
      top |-> IF here = {} THEN at.top ELSE Max(here),
      leaves |-> at.leaves + 1,
      records |-> at.records + Cardinality(here),
      low |-> IF here # {} /\ TimeOf(Min(here)) < at.low THEN TimeOf(Min(here)) ELSE at.low,
      high |-> IF here # {} /\ TimeOf(Max(here)) > at.high THEN TimeOf(Max(here)) ELSE at.high,
      fine |-> /\ at.fine
               /\ s.prev[l] = at.prev
               /\ here # {}
               /\ IF RecordSize = 0 THEN s.used[l] <= LeafBytes
                  ELSE Cardinality(here) <= FixedCap
               /\ \A k \in here : at.top < k]

\* The walk gives up, and finds fault, after some leaves more than the root
\* counts.
Limit(s) == s.leaves + 8
ChainWalked(s) ==
  LET walk[n \in 0 .. Limit(s)] ==
        IF n = 0 THEN WalkStart(s)
        ELSE LET at == walk[n - 1]
             IN IF at.leaf = NoLeaf THEN at ELSE VerifyLeaf(s, at)
  IN walk[Limit(s)]

\* Of the index it demands that every node carries the first key of its leaf,
\* and no two nodes the same one.
NodesFine(s) ==
  /\ \A l \in s.live : s.node[l] # NoKey =>
       KeysIn(s.recs[l]) # {} /\ s.node[l] = Min(KeysIn(s.recs[l]))
  /\ \A l, m \in s.live : s.node[l] = s.node[m] /\ s.node[l] # NoKey => l = m

\* verify_symbol finds nothing wrong.
VerifyAccepts(s) ==
  LET end == ChainWalked(s)
  IN /\ end.fine /\ end.leaf = NoLeaf
     /\ end.leaves = s.leaves /\ end.records = s.count
     /\ end.prev = s.last
     /\ end.records # 0 => s.minTime = end.low /\ s.maxTime = end.high
     /\ NodesFine(s)

------------------------------------------------------------------------------
\* read_range hands out exactly the records of its range in key order, as
\* many as the buffer takes, wherever leaves end, and answers FULL exactly
\* when the buffer was too small.
RangeReadsExact ==
  txn = Idle => \A lo, hi \in Times : lo <= hi =>
    LET all == InOrder({k \in KeysOf(disk) : TimeOf(k) \in lo .. hi})
    IN \A room \in 0 .. Cardinality(Keys) :
         LET r == ReadRange(disk, lo, hi, room)
         IN /\ r.out = SubSeq(all, 1, IF room < Len(all) THEN room ELSE Len(all))
            /\ r.full <=> room < Len(all)

\* spike_db_verify raises no false alarm: it accepts every state the writers
\* leave, emptied, trimmed and recreated symbols included.
NoFalseAlarm == txn = Idle => VerifyAccepts(disk)
==============================================================================
