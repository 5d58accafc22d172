------------------------------ MODULE MultiScan ------------------------------
(***************************************************************************)
(* One merged iterator over several symbols, while writers on other        *)
(* handles commit: spike_db_scan_multi, spike_db_iter_next_multi and       *)
(* spike_db_iter_close, blocking and non-blocking.  iter_next_batch hands  *)
(* out the records of a chunk that iter_next would, one by one.            *)
(*                                                                         *)
(* The file is the set of its records; a commit makes it any other set.    *)
(* The cursor of a symbol (cur_leaf, cur_slot, key) is the key of its next *)
(* record.  A non-blocking iterator uses its cursors only while the        *)
(* transaction they were found in is the latest, a blocking one keeps      *)
(* writers out.  No symbol is listed twice.                                *)
(***************************************************************************)
EXTENDS Integers, FiniteSets, FiniteSetsExt, Sequences, SequencesExt

CONSTANTS
  Keys,     \* the (time, seq) pairs, numbered in key order
  SeqSpan,  \* sequence numbers per timestamp in that numbering
  Symbols,  \* symbol ids
  Done,     \* SPIKEDB_INVALID_PAGE: a cursor with no record left
  Chunk,    \* SPDB_ITER_CHUNK_RECS
  MaxTxn    \* transactions that commit: a bound

TimeOf(k) == k \div SeqSpan
Times == {TimeOf(k) : k \in Keys}
StartOf(t) == t * SeqSpan
Records == Keys \X Symbols

ASSUME KeysAssumption == Keys \subseteq Nat /\ IsFiniteSet(Keys)
ASSUME SymbolsAssumption == Symbols \subseteq Nat /\ IsFiniteSet(Symbols)
ASSUME BoundsAssumption ==
  SeqSpan \in Nat \ {0} /\ Chunk \in Nat \ {0} /\ MaxTxn \in Nat /\ Done \notin Nat

VARIABLES
  store,    \* the committed records of the file
  txn,      \* txn_id of the active meta page
  shared,   \* the iterator's handle holds the file lock shared
  it,       \* the iterator, or Closed
  kept,     \* records in its range that the file has held ever since it began
  held,     \* records in its range that the file has held at some time since
  emitted,  \* the records handed out, in that order
  ended     \* the caller was told that there are no more

vars == <<store, txn, shared, it, kept, held, emitted, ended>>

Closed == [open |-> FALSE]
Iterators == [
  open : {TRUE}, nonblocking : BOOLEAN, list : SUBSET Symbols, lo : Times, hi : Times,
  cur : [Symbols -> Keys \cup {Done}], pos : Nat, seen : Nat,
  buf : BoundedSeq(Records, Chunk), started : BOOLEAN, last : Records \cup {Done},
  failed : BOOLEAN, exhausted : BOOLEAN, status : {"OK", "ERROR"}]

\* Records r and q in the order of sub_cmp.
Precedes(r, q) == r[1] < q[1] \/ (r[1] = q[1] /\ r[2] < q[2])

\* The records a scan of the listed symbols from time lo to time hi covers.
Covered(i, S) == {r \in S : r[2] \in i.list /\ TimeOf(r[1]) \in i.lo .. i.hi}

------------------------------------------------------------------------------
(* Cursors.                                                                *)

BugNoEnd(i, s, k) ==   \* a symbol without further records keeps its cursor
  LET ks == {j \in Keys : j >= k /\ <<j, s>> \in store /\ TimeOf(j) <= i.hi}
  IN IF ks = {} THEN k ELSE Min(ks)

BugPastHi(i, s, k) ==   \* goes on behind the range
  LET ks == {j \in Keys : j >= k /\ <<j, s>> \in store}
  IN IF ks = {} THEN Done ELSE Min(ks)

\* The first key at or after k that symbol s has in the range: cursor_seek
\* and sub_settle.
SeekFrom(i, s, k) ==
  LET ks == {j \in Keys : j >= k /\ <<j, s>> \in store /\ TimeOf(j) <= i.hi}
  IN IF ks = {} THEN Done ELSE Min(ks)

BugAlreadyOut(i, s, k) == k = i.last[1]   \* whichever symbol was last
\* With skip_ties, the record of symbol s at key k has been handed out.
AlreadyOut(i, s, k) == k = i.last[1] /\ s <= i.last[2]

\* multi_reposition from key k.
Repositioned(i, k, skipTies) ==
  [i EXCEPT !.pos = txn, !.cur = [s \in Symbols |->
     LET c == SeekFrom(i, s, k)
     IN IF s \notin i.list THEN Done
        ELSE IF c # Done /\ skipTies /\ AlreadyOut(i, s, c) THEN SeekFrom(i, s, c + 1)
        ELSE c]]

\* The cursors of the heap, as records.
Heap(i) == {<<i.cur[s], s>> : s \in {z \in Symbols : i.cur[z] # Done}}

BugNextOut(i) ==   \* ties in the order of the heap
  {r \in Heap(i) : \A q \in Heap(i) : r[1] <= q[1]}
\* The top of the heap.
NextOut(i) == {r \in Heap(i) : \A q \in Heap(i) \ {r} : Precedes(r, q)}

\* A page of some symbols cannot be read: their cursors leave the heap, the
\* others go on.
WithLosses(i) == {i} \cup {[i EXCEPT !.cur = [s \in Symbols |-> IF s \in L THEN Done ELSE @[s]],
                                     !.failed = TRUE] :
                             L \in SUBSET i.list \ {{}}}

\* The record r at the top of the heap goes to the chunk.
Appended(i, r) ==
  [i EXCEPT !.buf = Append(@, r), !.cur[r[2]] = SeekFrom(i, r[2], r[1] + 1)]

\* iter_fill_multi: what n records, and the pages it could not read on the
\* way, make of the iterator.
Fills(i) ==
  LET fill[n \in 0 .. Chunk] ==
        IF n = 0 THEN WithLosses([i EXCEPT !.buf = <<>>])
        ELSE UNION {UNION {WithLosses(Appended(f, r)) : r \in NextOut(f)} : f \in fill[n - 1]}
      fills == UNION {fill[n] : n \in 0 .. Chunk}
  IN {[f EXCEPT !.exhausted = (Heap(f) = {})] :
        f \in {g \in fills : g.buf # <<>> \/ Heap(g) = {}}}

\* iter_note: a failure ends the walk behind the chunk.
Noted(i) == IF i.failed THEN [i EXCEPT !.exhausted = TRUE, !.status = "ERROR"] ELSE i

\* Finds its place anew when a transaction has committed since.
Resumed(i) ==
  IF ~i.nonblocking \/ i.seen = txn THEN i
  ELSE LET j == [i EXCEPT !.seen = txn]
       IN IF i.started THEN Repositioned(j, i.last[1], TRUE)
          ELSE Repositioned(j, StartOf(i.lo), FALSE)

\* iter_refill
Refills(i) ==
  IF i.exhausted THEN {i} ELSE {Noted(f) : f \in Fills(Resumed(i))}

------------------------------------------------------------------------------
Init ==
  /\ store \in SUBSET Records
  /\ txn = 0 /\ shared = FALSE /\ it = Closed
  /\ kept = {} /\ held = {} /\ emitted = <<>> /\ ended = FALSE

\* spike_db_scan_multi.  A page it cannot read on the way to the first
\* record of a symbol ends the walk before it begins; an empty list is an
\* empty range.
ScanMulti(nonblocking, list, lo, hi) ==
  /\ ~it.open /\ lo <= hi
  /\ LET new == [open |-> TRUE, nonblocking |-> nonblocking, list |-> list,
                 lo |-> lo, hi |-> hi, cur |-> [s \in Symbols |-> Done],
                 pos |-> txn, seen |-> txn, buf |-> <<>>, started |-> FALSE, last |-> Done,
                 failed |-> FALSE, exhausted |-> FALSE, status |-> "OK"]
         placed == Repositioned(new, StartOf(lo), FALSE)
     IN /\ it' \in {Noted([i EXCEPT !.exhausted = (Heap(i) = {})]) : i \in WithLosses(placed)}
        /\ kept' = Covered(new, store) /\ held' = kept'
  /\ shared' = ~nonblocking
  /\ emitted' = <<>> /\ ended' = FALSE
  /\ UNCHANGED <<store, txn>>

\* spike_db_iter_next_multi
NextMulti ==
  /\ it.open
  /\ \E i \in IF it.buf = <<>> THEN Refills(it) ELSE {it} :
       IF i.buf = <<>>
       THEN it' = i /\ ended' = TRUE /\ UNCHANGED emitted
       ELSE /\ it' = [i EXCEPT !.buf = Tail(@), !.last = Head(i.buf), !.started = TRUE]
            /\ emitted' = Append(emitted, Head(i.buf))
            /\ UNCHANGED ended
  /\ UNCHANGED <<store, txn, shared, kept, held>>

Close ==
  /\ it.open
  /\ it' = Closed /\ shared' = FALSE
  /\ kept' = {} /\ held' = {} /\ emitted' = <<>> /\ ended' = FALSE
  /\ UNCHANGED <<store, txn>>

\* A writer needs the file lock alone.
MayCommit == ~shared

\* A commit through another handle.
Commit(S) ==
  /\ MayCommit /\ txn < MaxTxn
  /\ store' = S /\ txn' = txn + 1
  /\ kept' = kept \cap S
  /\ held' = IF it.open THEN held \cup Covered(it, S) ELSE {}
  /\ UNCHANGED <<shared, it, emitted, ended>>

Next ==
  \/ \E nonblocking \in BOOLEAN, list \in SUBSET Symbols, lo, hi \in Times :
       ScanMulti(nonblocking, list, lo, hi)
  \/ NextMulti
  \/ Close
  \/ \E S \in SUBSET Records : Commit(S)

Spec == Init /\ [][Next]_vars

------------------------------------------------------------------------------
(* What the header promises of a merged scan.                              *)

TypeOK ==
  /\ store \subseteq Records /\ kept \subseteq held /\ held \subseteq Records
  /\ txn \in 0 .. MaxTxn
  /\ shared \in BOOLEAN /\ ended \in BOOLEAN
  /\ it = Closed \/ it \in Iterators
  /\ emitted \in Seq(Records)

\* "Yields the records of several symbols as one stream in (time, seq)
\* order, with the symbol id as a tiebreaker", and "never moves backwards in
\* time": also over the border of two chunks with commits in between, and no
\* record comes twice.
MergeInOrder ==
  \A a, b \in DOMAIN emitted : a < b => Precedes(emitted[a], emitted[b])

\* When the walk has ended and iter_status is SPIKEDB_OK, every record of
\* every listed symbol that was there all along has been delivered: no chunk
\* border in the middle of a timestamp, no commit and no unreadable page of
\* another symbol has swallowed one.
NothingSkipped ==
  it.open /\ ended /\ it.status = "OK" => kept \subseteq ToSet(emitted)

\* Only records of the listed symbols and the range come out, and only such
\* as the file has held since the scan began.
NothingForeign == it.open => ToSet(emitted) \subseteq held
==============================================================================
