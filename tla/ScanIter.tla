------------------------------ MODULE ScanIter ------------------------------
(***************************************************************************)
(* One single-symbol iterator of a handle, while writers on other handles  *)
(* commit: spike_db_scan_ex, spike_db_iter_next, spike_db_iter_seek and    *)
(* spike_db_iter_close, in both directions, blocking and non-blocking.     *)
(*                                                                         *)
(* The symbol is the set of its keys; a commit makes it any other set.     *)
(* The iterator's place (cur_leaf, cur_slot) is the key `at` from which    *)
(* the walk goes on, good as long as no commit has followed the            *)
(* transaction `pos` it was found in: after that, the page may hold        *)
(* anything.  A chunk ends after Chunk records, or earlier when its bytes  *)
(* do.                                                                     *)
(***************************************************************************)
EXTENDS Integers, FiniteSets, Sequences, SequencesExt

CONSTANTS
  Keys,         \* the (time, seq) pairs, numbered in key order
  SeqSpan,      \* sequence numbers per timestamp in that numbering
  Chunk,        \* SPDB_ITER_CHUNK_RECS
  MaxTxn,       \* transactions that commit: a bound
  SeekRaces,    \* FALSE leaves out what SeekSettled describes
  SharedHandle  \* FALSE leaves out OtherCall for blocking iterators

TimeOf(k) == k \div SeqSpan
Times == {TimeOf(k) : k \in Keys}
StartOf(t) == t * SeqSpan
EndOf(t) == t * SeqSpan + SeqSpan - 1

ASSUME KeysAssumption == Keys \subseteq Nat /\ Keys # {} /\ IsFiniteSet(Keys)
ASSUME BoundsAssumption == SeqSpan \in Nat \ {0} /\ Chunk \in Nat \ {0} /\ MaxTxn \in Nat
ASSUME FlagsAssumption == SeekRaces \in BOOLEAN /\ SharedHandle \in BOOLEAN

VARIABLES
  store,    \* the committed keys of the symbol
  txn,      \* txn_id of the active meta page
  shared,   \* the iterator's handle holds the file lock shared
  it,       \* the iterator, or Closed
  origin,   \* the key its walk started from
  kept,     \* keys the symbol has held ever since
  emitted,  \* the keys the walk has handed out, in that order
  ended     \* the walk has told the caller that there are no more

vars == <<store, txn, shared, it, origin, kept, emitted, ended>>

Closed == [open |-> FALSE]
Places == -1 .. EndOf(CHOOSE t \in Times : \A u \in Times : u <= t) + 1
Iterators == [
  open : {TRUE}, nonblocking : BOOLEAN, reverse : BOOLEAN, lo : Times, hi : Times,
  at : Places, pos : Nat, seen : Nat, buf : BoundedSeq(Keys, Chunk),
  started : BOOLEAN, last : Places, sought : BOOLEAN,
  exhausted : BOOLEAN, status : {"OK", "ERROR"}]

\* k comes after j on the way the iterator i goes.
Beyond(i, k, j) == IF i.reverse THEN k < j ELSE k > j

\* The keys of S from place p on, and those of them inside the range.
Onward(i, p, S) == {k \in S : k = p \/ Beyond(i, k, p)}
InRange(i, k) == IF i.reverse THEN TimeOf(k) >= i.lo ELSE TimeOf(k) <= i.hi
Ahead(i, p, S) == {k \in Onward(i, p, S) : InRange(i, k)}
\* The n-th key of S on that way has n - 1 of them before it.
InOrder(i, S) ==
  [n \in 1 .. Cardinality(S) |->
     CHOOSE k \in S : Cardinality({j \in S : Beyond(i, k, j)}) = n - 1]

\* iter_position and iter_position_rev.
Position(i, p) == [i EXCEPT !.at = p, !.pos = txn]

\* Where a scan of the whole range starts.
RangeStart(i) == IF i.reverse THEN EndOf(i.hi) ELSE StartOf(i.lo)

BugStep(i, k) == k   \* comes to the same key again
Step(i, k) == IF i.reverse THEN k - 1 ELSE k + 1

\* iter_resume_key: just past the last key handed out.
ResumeKey(i) == IF i.started THEN Step(i, i.last) ELSE RangeStart(i)

\* What the place of the iterator holds: the rest of the walk, or, once a
\* commit has changed the leaves under it, anything.
Findable(i) == IF i.pos = txn THEN {Ahead(i, i.at, store)} ELSE SUBSET Keys

\* The chunk c taken from place, and whether it ended the walk.
Filled(i, c, end) ==
  [i EXCEPT !.buf = c, !.at = IF c = <<>> THEN @ ELSE Step(i, Last(c)), !.exhausted = end]

BugChunkEnds(n) == 1 .. n   \* no limit

\* Where a chunk can be full, of n records to come.
ChunkEnds(n) == {m \in 1 .. n : m <= Chunk}

\* iter_fill and iter_fill_rev: a chunk stops at the end of the range, or
\* when it is full; then the walk has ended if the symbol has no key left.
Fills(i) ==
  UNION {LET seq == InOrder(i, found)
             rest(n) == Onward(i, Step(i, seq[n]), store)
         IN (IF Len(seq) < Chunk THEN {Filled(i, seq, TRUE)} ELSE {})
            \cup {Filled(i, SubSeq(seq, 1, n), rest(n) = {}) :
                    n \in ChunkEnds(Len(seq))}
         : found \in Findable(i)}

BugFailures(i) ==   \* a damaged page looks like the end of the range
  {[f EXCEPT !.exhausted = TRUE] : f \in Fills(i)}

\* iter_note: a page that cannot be read ends the walk.  What came before it
\* is still delivered; all of the chunk is when the failure is in the page
\* the next one would start with.
Failures(i) ==
  {[f EXCEPT !.exhausted = TRUE, !.status = "ERROR"] : f \in Fills(i)}
    \cup {[i EXCEPT !.exhausted = TRUE, !.status = "ERROR"]}

\* iter_refill.  When a transaction has committed since the last chunk, a
\* non-blocking iterator finds its place anew.
Refills(i) ==
  IF i.exhausted THEN {i}
  ELSE LET j == IF i.nonblocking /\ i.seen # txn
                THEN Position([i EXCEPT !.seen = txn], ResumeKey(i)) ELSE i
       IN Fills(j) \cup Failures(j)

------------------------------------------------------------------------------
Init ==
  /\ store \in SUBSET Keys
  /\ txn = 0 /\ shared = FALSE /\ it = Closed
  /\ origin = 0 /\ kept = {} /\ emitted = <<>> /\ ended = FALSE

\* A walk of iterator i from place p begins; the cursor_seek it begins with
\* may fail.
StartWalk(i, p) ==
  /\ it' \in {[i EXCEPT !.exhausted = Ahead(i, p, store) = {}],
              [i EXCEPT !.exhausted = TRUE, !.status = "ERROR"]}
  /\ origin' = p
  /\ kept' = Ahead(i, p, store)
  /\ emitted' = <<>> /\ ended' = FALSE

BugHolds(nonblocking) == FALSE   \* drops the lock in both modes

\* A blocking iterator keeps the lock until it is closed.
Holds(nonblocking) == ~nonblocking

NewIterator(nonblocking, reverse, lo, hi) ==
  [open |-> TRUE, nonblocking |-> nonblocking, reverse |-> reverse, lo |-> lo, hi |-> hi,
   at |-> 0, pos |-> txn, seen |-> txn, buf |-> <<>>, started |-> FALSE, last |-> 0,
   sought |-> FALSE, exhausted |-> FALSE, status |-> "OK"]

\* spike_db_scan_ex
Scan(nonblocking, reverse, lo, hi) ==
  /\ ~it.open /\ lo <= hi
  /\ LET i == NewIterator(nonblocking, reverse, lo, hi)
     IN StartWalk(Position(i, RangeStart(i)), RangeStart(i))
  /\ shared' = Holds(nonblocking)
  /\ UNCHANGED <<store, txn>>

\* spike_db_iter_next
NextRecord ==
  /\ it.open
  /\ \E i \in IF it.buf = <<>> THEN Refills(it) ELSE {it} :
       IF i.buf = <<>>
       THEN it' = i /\ ended' = TRUE /\ UNCHANGED emitted
       ELSE /\ it' = [i EXCEPT !.buf = Tail(@), !.last = Head(i.buf), !.started = TRUE]
            /\ emitted' = Append(emitted, Head(i.buf))
            /\ UNCHANGED ended
  /\ UNCHANGED <<store, txn, shared, origin, kept>>

BugFlushed(i) ==   \* hands out the old buffer first
  [i EXCEPT !.started = FALSE, !.status = "OK"]
Flushed(i) == [i EXCEPT !.buf = <<>>, !.started = FALSE, !.status = "OK"]

\* spike_db_iter_seek
Seek(p) ==
  /\ it.open
  /\ LET i == Flushed([it EXCEPT !.seen = IF it.nonblocking THEN txn ELSE @,
                                 !.sought = TRUE])
     IN StartWalk(Position(i, p), p)
  /\ UNCHANGED <<store, txn, shared>>

Close ==
  /\ it.open
  /\ it' = Closed /\ shared' = FALSE
  /\ origin' = 0 /\ kept' = {} /\ emitted' = <<>> /\ ended' = FALSE
  /\ UNCHANGED <<store, txn>>

\* The first record after a seek has been handed out.  A non-blocking
\* iterator forgets where it was sent when a commit comes before that.
SeekSettled == it.open /\ it.nonblocking /\ it.sought => it.started \/ it.exhausted

\* A commit, which needs the lock exclusively: by another handle, or by the
\* iterator's own when the iterator does not block.
Commit(S) ==
  /\ ~shared /\ txn < MaxTxn
  /\ SeekRaces \/ SeekSettled
  /\ store' = S /\ txn' = txn + 1
  /\ kept' = kept \cap S
  /\ UNCHANGED <<shared, it, origin, emitted, ended>>

\* Any other call on the iterator's own handle, the close of a second
\* iterator included: it ends with file_unlock, and on the systems with open
\* file description locks that releases the one lock the handle has.
OtherCall ==
  /\ it.open /\ (SharedHandle \/ it.nonblocking)
  /\ shared' = FALSE
  /\ UNCHANGED <<store, txn, it, origin, kept, emitted, ended>>

Next ==
  \/ \E nonblocking, reverse \in BOOLEAN, lo, hi \in Times : Scan(nonblocking, reverse, lo, hi)
  \/ NextRecord
  \/ \E k \in Keys : Seek(k)
  \/ Close
  \/ \E S \in SUBSET Keys : Commit(S)
  \/ OtherCall

Spec == Init /\ [][Next]_vars

------------------------------------------------------------------------------
(* What the header promises of a scan.                                     *)

TypeOK ==
  /\ store \subseteq Keys /\ kept \subseteq Keys
  /\ txn \in 0 .. MaxTxn
  /\ shared \in BOOLEAN /\ ended \in BOOLEAN
  /\ it = Closed \/ it \in Iterators
  /\ origin \in Places
  /\ emitted \in Seq(Keys)

\* "It always advances in key order and never repeats a record", whatever
\* commits between two chunks.
WalkInOrder ==
  it.open => \A a, b \in DOMAIN emitted : a < b => Beyond(it, emitted[b], emitted[a])

\* When iter_next answers false and iter_status is SPIKEDB_OK, every record
\* that was there all along has been delivered: no chunk border, commit or
\* unreadable page has swallowed one.
NothingSkipped ==
  it.open /\ ended /\ it.status = "OK" => kept \subseteq ToSet(emitted)

\* The walk keeps to the side of the key it was sent to (spike_db_scan_ex:
\* the range; spike_db_iter_seek: "resume from there in its current
\* direction").
StaysAhead ==
  it.open => \A k \in ToSet(emitted) : (k = origin \/ Beyond(it, k, origin)) /\ InRange(it, k)

\* What a blocking iterator hands out, or is about to, is what the file
\* holds ("holds the shared reader lock for the iterator's whole lifetime.
\* That gives a stable view").
StableView ==
  it.open /\ ~it.nonblocking =>
    ToSet(emitted) \cup ToSet(it.buf) \subseteq store /\ kept = Ahead(it, origin, store)
==============================================================================
