-------------------------------- MODULE Pager --------------------------------
(***************************************************************************)
(* Pages, page cache, freelist and transactions of a SpikeDB file that     *)
(* several handles (processes) have open.  The layers above the pager are  *)
(* taken as a client that allocates, frees and rewrites pages inside a     *)
(* transaction; `work` and `committed` say which page it owns and what it  *)
(* last wrote there.                                                       *)
(*                                                                         *)
(* A handle takes the file lock for every operation: writers hold it       *)
(* alone from Begin to the end of the transaction, so a read is one step.  *)
(* Which slot the clock hand finds first is left open.  The client holds   *)
(* no pins between its calls.  Processes may die and the power may fail.   *)
(***************************************************************************)
EXTENDS Integers, FiniteSets, Sequences, SequencesExt

CONSTANTS
  Handles,    \* open handles
  NoHandle,   \* nobody holds the file lock exclusively
  LastPage,   \* pages 1 .. LastPage can be allocated: a bound
  NoPage,     \* SPIKEDB_INVALID_PAGE
  Bytes,      \* what the client can write to a page
  Unowned,    \* in `work` and `committed`: the client does not own the page
  Zeros,      \* a page nothing was written to
  Out,        \* the page is not in the cache
  Torn,       \* a page a write has not reached in full
  CacheSlots, \* cache_capacity
  FreeCap,    \* FREELIST_CAPACITY
  MaxTxn,     \* transactions that commit: a bound
  AllSpills,  \* FALSE leaves out spills of fresh pages that are Reachable
  NoSync      \* commits with SPIKEDB_WRITE_NOSYNC as well

Pages == 1 .. LastPage

ASSUME LayoutAssumption ==
  LastPage \in Nat /\ CacheSlots \in Nat /\ FreeCap \in Nat /\ MaxTxn \in Nat
ASSUME NamesAssumption ==
  NoHandle \notin Handles /\ NoPage \notin Pages /\ Unowned \notin Bytes /\ Zeros \notin Bytes
ASSUME FlagsAssumption == AllSpills \in BOOLEAN /\ NoSync \in BOOLEAN

VARIABLES
  file,       \* contents of each page in the file
  metas,      \* the two meta pages in the file
  unsynced,   \* pages written since the last fsync
  cache,      \* page cache of each handle
  mem,        \* active meta page of each handle, as the handle has it in memory
  writer,     \* the handle in a transaction
  phase,      \* where its transaction stands
  work,       \* the client's pages inside the transaction
  committed   \* the client's pages as of the last commit

vars == <<file, metas, unsynced, cache, mem, writer, phase, work, committed>>

FreelistPages == [next : Pages \cup {NoPage}, ids : BoundedSeq(Pages, FreeCap)]
Contents == Bytes \cup {Zeros, Torn} \cup FreelistPages
Metas == [txn : Nat, head : Pages \cup {NoPage}, total : 0 .. LastPage]
Slots == [bytes : Contents, dirty : BOOLEAN, fresh : BOOLEAN]

\* The names for nothing cached and for a torn meta page stand for nothing else.
ASSUME MarksAssumption == Out \notin Slots /\ Torn \notin Metas

\* The valid meta page with the higher txn_id.
ActiveMeta ==
  IF metas[1] = Torn \/ (metas[0] # Torn /\ metas[0].txn >= metas[1].txn) THEN 0 ELSE 1
FromFile == [active |-> ActiveMeta, meta |-> metas[ActiveMeta]]

------------------------------------------------------------------------------
(* The freelist in a state of the pages.                                   *)

\* Its pages: the smallest set that holds the head and follows next_page.
ListPages(view, head) ==
  IF head = NoPage THEN {}
  ELSE {p \in Pages : \A S \in SUBSET Pages :
          (/\ head \in S
           /\ \A q \in S : view[q] \in FreelistPages /\ view[q].next # NoPage
                             => view[q].next \in S) => p \in S}

\* A page the committed state consists of, so that rollback and other
\* handles need its bytes in the file.  cache_evict takes every fresh page
\* for one that is not, but page_pin_zero also calls a page fresh that was
\* freed and taken again, or made a freelist page, in the same transaction:
\* AllSpills says whether such a page may be spilled.
Reachable(p) ==
  committed[p] # Unowned \/ p \in ListPages(file, metas[ActiveMeta].head)

------------------------------------------------------------------------------
(* Page cache.  These operators map a cache c and the pages f of the file  *)
(* to the set of their successors.                                         *)

Cached(c) == {p \in Pages : c[p] # Out}
Clean(c) == {p \in Cached(c) : ~c[p].dirty}
Drop(c, p) == [c EXCEPT ![p] = Out]

BugSpillable(c) == {p \in Cached(c) : c[p].dirty}   \* pages of the file as well

\* Dirty pages cache_evict may write out before the commit.
Spillable(c) == {p \in Cached(c) : c[p].dirty /\ c[p].fresh}

\* cache_evict, which finds a free or clean slot first: what it leaves of
\* the cache.  None is left when no slot can be had.
MakeRoom(c, f) ==
  IF Cardinality(Cached(c)) < CacheSlots \/ Clean(c) # {}
  THEN {<<Drop(c, p), f>> : p \in Clean(c)}
         \cup (IF Cardinality(Cached(c)) < CacheSlots THEN {<<c, f>>} ELSE {})
  ELSE {<<Drop(c, p), [f EXCEPT ![p] = c[p].bytes]>> :
          p \in {q \in Spillable(c) : AllSpills \/ ~(c[q].fresh /\ Reachable(q))}}

\* page_pin
Pin(c, f, p) ==
  IF p \in Cached(c) THEN {<<c, f>>}
  ELSE {<<[r[1] EXCEPT ![p] = [bytes |-> r[2][p], dirty |-> FALSE, fresh |-> FALSE]], r[2]>> :
          r \in MakeRoom(c, f)}

\* page_pin_zero, and the bytes b its caller fills the page with
PinNew(c, f, p, b) ==
  {<<[r[1] EXCEPT ![p] = [bytes |-> b, dirty |-> TRUE, fresh |-> TRUE]], r[2]>> :
     r \in IF p \in Cached(c) THEN {<<c, f>>} ELSE MakeRoom(c, f)}

\* New bytes and page_dirty on a page in the cache.
Rewrite(c, p, b) == [c EXCEPT ![p] = [bytes |-> b, dirty |-> TRUE, fresh |-> @.fresh]]

BugDiscard(c) == [p \in Pages |-> IF c[p] # Out /\ c[p].fresh THEN Out ELSE c[p]]

\* cache_discard_dirty
Discard(c) == [p \in Pages |-> IF c[p] # Out /\ (c[p].dirty \/ c[p].fresh) THEN Out
                               ELSE c[p]]

------------------------------------------------------------------------------
(* Freelist.  The state of an allocation: cache, file, meta page and the   *)
(* page it hands out.                                                      *)

Result(c, f, m, p) == [cache |-> c, file |-> f, meta |-> m, page |-> p]

BugAllocate(c, f, m) ==   \* hands out the last id and leaves it in the list
  UNION {LET l == r[1][m.head].bytes
         IN IF l.ids # <<>>
            THEN {Result(r[1], r[2], m, Last(l.ids))}
            ELSE {Result(r[1], r[2], [m EXCEPT !.head = l.next], m.head)}
           : r \in Pin(c, f, m.head)}

\* page_alloc from the freelist: the last id of its head page, or the head
\* page itself when that has none left.
Allocate(c, f, m) ==
  UNION {LET l == r[1][m.head].bytes
         IN IF l.ids # <<>>
            THEN {Result(Rewrite(r[1], m.head, [l EXCEPT !.ids = Front(@)]), r[2], m,
                         Last(l.ids))}
            ELSE {Result(r[1], r[2], [m EXCEPT !.head = l.next], m.head)}
           : r \in Pin(c, f, m.head)}

\* page_alloc: the freelist, or the page after the last one.
PageAlloc(c, f, m) ==
  IF m.head # NoPage THEN Allocate(c, f, m)
  ELSE {Result(c, f, [m EXCEPT !.total = @ + 1], m.total + 1)}

BugHasSpace(l) == Len(l.ids) <= FreeCap
HasSpace(l) == Len(l.ids) < FreeCap

\* page_free: into the head page, or as a new head page when that is full.
PageFree(c, f, m, p) ==
  LET heads == IF m.head = NoPage THEN {<<c, f>>} ELSE Pin(c, f, m.head)
  IN UNION {IF m.head # NoPage /\ HasSpace(r[1][m.head].bytes)
            THEN {Result(Rewrite(r[1], m.head,
                                 [r[1][m.head].bytes EXCEPT !.ids = Append(@, p)]),
                         r[2], m, p)}
            ELSE {Result(n[1], n[2], [m EXCEPT !.head = p], p) :
                    n \in PinNew(r[1], r[2], p, [next |-> m.head, ids |-> <<>>])}
              : r \in heads}

------------------------------------------------------------------------------
Forget(c) == [p \in Pages |-> IF p \in Clean(c) THEN Out ELSE c[p]]

BugSynced(h) ==   \* goes by the slot of the meta page alone
  [cache |-> IF mem[h].active = ActiveMeta THEN cache[h] ELSE Forget(cache[h]),
   mem |-> FromFile]

\* db_refresh_meta: when another handle has committed, the cache is stale.
Synced(h) ==
  IF mem[h].active = ActiveMeta /\ mem[h].meta.txn = metas[ActiveMeta].txn
  THEN [cache |-> cache[h], mem |-> mem[h]]
  ELSE [cache |-> Forget(cache[h]), mem |-> FromFile]

\* spike_db_open on an empty file with no symbol in it yet.
EmptyMeta(txn) == [txn |-> txn, head |-> NoPage, total |-> 0]
Init ==
  /\ file = [p \in Pages |-> Zeros]
  /\ metas = [i \in 0 .. 1 |-> EmptyMeta(1 - i)] /\ unsynced = {}
  /\ cache = [h \in Handles |-> [p \in Pages |-> Out]]
  /\ mem = [h \in Handles |-> FromFile]
  /\ writer = NoHandle /\ phase = "none"
  /\ work = [p \in Pages |-> Unowned] /\ committed = work

\* The exclusive lock, db_refresh_meta and txn_begin.
Begin(h) ==
  /\ writer = NoHandle
  /\ writer' = h /\ phase' = "open"
  /\ cache' = [cache EXCEPT ![h] = Synced(h).cache]
  /\ mem' = [mem EXCEPT ![h] = Synced(h).mem]
  /\ work' = committed
  /\ UNCHANGED <<file, metas, unsynced, committed>>

\* Pages of the file a step has written are not on the disk yet.
Written == unsynced' = unsynced \cup {p \in Pages : file'[p] # file[p]}

Open(h) == writer = h /\ phase = "open"
CanGrow(h) == mem[h].meta.head # NoPage \/ mem[h].meta.total < LastPage

\* The client takes a page and fills it: page_alloc, then page_pin_zero.
NewPage(h, b) ==
  /\ Open(h) /\ CanGrow(h)
  /\ \E r \in PageAlloc(cache[h], file, mem[h].meta) :
       \E n \in PinNew(r.cache, r.file, r.page, b) :
         /\ cache' = [cache EXCEPT ![h] = n[1]]
         /\ file' = n[2]
         /\ Written
         /\ mem' = [mem EXCEPT ![h].meta = r.meta]
         /\ work' = [work EXCEPT ![r.page] = b]
  /\ UNCHANGED <<metas, writer, phase, committed>>

\* The client changes a page it owns.
ModifyPage(h, p, b) ==
  /\ Open(h) /\ work[p] # Unowned
  /\ \E r \in Pin(cache[h], file, p) :
       /\ cache' = [cache EXCEPT ![h] = Rewrite(r[1], p, b)]
       /\ file' = r[2]
       /\ Written
  /\ work' = [work EXCEPT ![p] = b]
  /\ UNCHANGED <<metas, mem, writer, phase, committed>>

FreePage(h, p) ==
  /\ Open(h) /\ work[p] # Unowned
  /\ \E r \in PageFree(cache[h], file, mem[h].meta, p) :
       /\ cache' = [cache EXCEPT ![h] = r.cache]
       /\ file' = r.file
       /\ Written
       /\ mem' = [mem EXCEPT ![h].meta = r.meta]
  /\ work' = [work EXCEPT ![p] = Unowned]
  /\ UNCHANGED <<metas, writer, phase, committed>>

\* txn_commit_ex: the dirty pages go to the file in page order, ...
BeginFlush(h) ==
  /\ Open(h) /\ metas[ActiveMeta].txn < MaxTxn
  /\ phase' = "flush"
  /\ UNCHANGED <<file, metas, unsynced, cache, mem, writer, work, committed>>

Dirty(h) == {p \in Cached(cache[h]) : cache[h][p].dirty}

FlushPage(h) ==
  /\ writer = h /\ phase \in {"flush", "overwriting"} /\ Dirty(h) # {}
  /\ LET p == CHOOSE q \in Dirty(h) : \A r \in Dirty(h) : q <= r
     IN /\ file' = [file EXCEPT ![p] = cache[h][p].bytes]
        /\ Written
        /\ cache' = [cache EXCEPT ![h][p].dirty = FALSE, ![h][p].fresh = FALSE]
        /\ phase' = IF Reachable(p) THEN "overwriting" ELSE phase
  /\ UNCHANGED <<metas, mem, writer, work, committed>>

\* ... the fsync of txn_commit_ex waits for them; spike_db_sync can be called,
\* and the operating system write, at any other time, ...
Sync ==
  /\ unsynced # {} /\ unsynced' = {}
  /\ UNCHANGED <<file, metas, cache, mem, writer, phase, work, committed>>

BugDataOnDisk == TRUE   \* the meta page may go first
DataOnDisk == NoSync \/ unsynced = {}

\* ... then the meta page that is not in use, with the next transaction id.
\* When only the fsync after it fails, the caller gets an error and
\* txn_discard adopts the same meta page.
NextMeta(h) ==
  [metas EXCEPT ![1 - mem[h].active] = [mem[h].meta EXCEPT !.txn = @ + 1]]

Publish(h) ==
  /\ writer = h /\ phase \in {"flush", "overwriting"} /\ Dirty(h) = {} /\ DataOnDisk
  /\ metas' = NextMeta(h)
  /\ mem' = [mem EXCEPT ![h] = [active |-> 1 - mem[h].active,
                                meta |-> [mem[h].meta EXCEPT !.txn = @ + 1]]]
  /\ cache' = [cache EXCEPT ![h] =
                 [p \in Pages |-> IF @[p] = Out THEN Out ELSE [@[p] EXCEPT !.fresh = FALSE]]]
  /\ committed' = work
  /\ writer' = NoHandle /\ phase' = "none"
  /\ UNCHANGED <<file, unsynced, work>>

\* The write of that meta page fails, or is cut short, half-way.
TearMeta(h) ==
  /\ writer = h /\ phase = "flush" /\ Dirty(h) = {} /\ DataOnDisk
  /\ metas' = [metas EXCEPT ![1 - mem[h].active] = Torn]
  /\ phase' = "torn"
  /\ UNCHANGED <<file, unsynced, cache, mem, writer, work, committed>>

\* txn_discard: a refused record, a full cache, an unreadable page, or a
\* commit that fails.  From the first page of the committed state a flush
\* has overwritten to the meta page, failures and crashes are left out: the
\* sources document that gap.
Rollback(h) ==
  /\ writer = h /\ phase # "overwriting"
  /\ cache' = [cache EXCEPT ![h] = Discard(@)]
  /\ mem' = [mem EXCEPT ![h] = FromFile]
  /\ writer' = NoHandle /\ phase' = "none"
  /\ work' = committed
  /\ UNCHANGED <<file, metas, unsynced, committed>>

\* The process dies, which releases its lock, and opens the file again.
Crash(h) ==
  /\ writer = h => phase # "overwriting"
  /\ cache' = [cache EXCEPT ![h] = [p \in Pages |-> Out]]
  /\ mem' = [mem EXCEPT ![h] = FromFile]
  /\ IF writer = h
     THEN writer' = NoHandle /\ phase' = "none" /\ work' = committed
     ELSE UNCHANGED <<writer, phase, work>>
  /\ UNCHANGED <<file, metas, unsynced, committed>>

\* The machine loses its power: of what was written since the last fsync, any
\* part may be missing.  A meta page that is lost is TearMeta's.
PowerLoss ==
  /\ phase # "overwriting"
  /\ \E lost \in SUBSET unsynced :
       file' = [p \in Pages |-> IF p \in lost THEN Torn ELSE file[p]]
  /\ unsynced' = {}
  /\ cache' = [h \in Handles |-> [p \in Pages |-> Out]]
  /\ mem' = [h \in Handles |-> FromFile]
  /\ writer' = NoHandle /\ phase' = "none" /\ work' = committed
  /\ UNCHANGED <<metas, committed>>

\* A read of one page under the shared lock.
Read(h, p) ==
  /\ writer = NoHandle /\ committed[p] # Unowned
  /\ \E r \in Pin(Synced(h).cache, file, p) :
       cache' = [cache EXCEPT ![h] = r[1]] /\ file' = r[2] /\ Written
  /\ mem' = [mem EXCEPT ![h] = Synced(h).mem]
  /\ UNCHANGED <<metas, writer, phase, work, committed>>

Next ==
  \/ Sync \/ PowerLoss
  \/ \E h \in Handles :
    \/ Begin(h) \/ BeginFlush(h) \/ FlushPage(h) \/ Publish(h) \/ TearMeta(h) \/ Rollback(h) \/ Crash(h)
    \/ \E b \in Bytes : NewPage(h, b)
    \/ \E p \in Pages : FreePage(h, p) \/ Read(h, p)
    \/ \E p \in Pages, b \in Bytes : ModifyPage(h, p, b)

Spec == Init /\ [][Next]_vars

------------------------------------------------------------------------------
(* What has to hold.                                                       *)

Hands == Handles \cup {NoHandle}
TypeOK ==
  /\ file \in [Pages -> Contents]
  /\ metas \in [0 .. 1 -> Metas \cup {Torn}] /\ unsynced \subseteq Pages
  /\ cache \in [Handles -> [Pages -> Slots \cup {Out}]]
  /\ mem \in [Handles -> [active : 0 .. 1, meta : Metas]]
  /\ writer \in Hands
  /\ phase \in {"none", "open", "flush", "overwriting", "torn"}
  /\ work \in [Pages -> Bytes \cup {Unowned}]
  /\ committed \in [Pages -> Bytes \cup {Unowned}]

\* The pages as the handle in the transaction sees them.
Seen(h) == [p \in Pages |-> IF cache[h][p] = Out THEN file[p] ELSE cache[h][p].bytes]

\* Until a flush overwrites the first page of it, the file holds the
\* committed state: neither an open transaction nor its rollback, neither a
\* spilled page nor a crash has changed a byte other handles need, and no
\* power loss takes a page that the meta page refers to.
CommittedIntact ==
  phase # "overwriting" =>
    \A p \in Pages : committed[p] # Unowned => file[p] = committed[p]

\* The client finds in its own transaction what it wrote, through cache,
\* spills and evictions.
OwnWritesSeen ==
  writer # NoHandle =>
    \A p \in Pages : work[p] # Unowned => Seen(writer)[p] = work[p]

\* The freelist, the client's pages and nothing else make up the pages
\* allocated so far: no page is lost, and none is handed out twice.
Partition(view, meta, owned) ==
  LET lists == ListPages(view, meta.head)
      ids(p) == IF view[p] \in FreelistPages THEN view[p].ids ELSE <<>>
      given == UNION {ToSet(ids(p)) : p \in lists}
  IN /\ \A p \in lists : view[p] \in FreelistPages
     /\ lists \cup given \cup owned = 1 .. meta.total
     /\ lists \cap given = {} /\ lists \cap owned = {} /\ given \cap owned = {}
     /\ \A p \in lists : IsInjective(ids(p))
     /\ \A p, q \in lists : p # q => ToSet(ids(p)) \cap ToSet(ids(q)) = {}

Owned(state) == {p \in Pages : state[p] # Unowned}
NoPageLostOrShared ==
  /\ writer # NoHandle => Partition(Seen(writer), mem[writer].meta, Owned(work))
  /\ phase # "overwriting" => Partition(file, metas[ActiveMeta], Owned(committed))

\* A handle whose meta page is current has no stale page of the committed
\* state in its cache: db_refresh_meta leaves such a cache alone, whatever
\* rolled back transactions, spills and crashes have happened since.
CacheCurrent ==
  \A h \in Handles \ {writer} :
    (mem[h] = FromFile /\ phase # "overwriting") =>
      \A p \in Cached(cache[h]) : Reachable(p) => cache[h][p].bytes = file[p]
==============================================================================
