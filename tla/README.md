# SpikeDB in TLA+

Models of SpikeDB, a single-file store of time series written in C
(`src/src/spike_db.c`, `spike_db.h`, `spike_db_internal.h`), with TLC
configurations that check them on small instances and TLAPS proofs about all of
them. Line numbers below are those of `src/src/spike_db.c` unless another file is
named.

## The system

A file consists of 64 KiB pages: two meta pages, a fixed symbol directory, and
from page 18 on root pages, skip-list node pages, leaf pages and freelist pages.
A record has the key (symbol, time, seq). A handle (`SpikeDB*`) belongs to one
thread; several handles, usually in several processes, share the file under a
range lock of the operating system: readers shared, writers alone.

| Component | State | Operations | Interacts with |
|---|---|---|---|
| Records of a symbol | leaf pages in a doubly linked chain, an index node per leaf, counters in the root page | `symbol_insert`, `leaf_split`, `symbol_delete`, `leaf_unlink`, `lookup_key`, `truncate_before`, `delete_range`, `symbol_drop` | pager (pins, page_alloc, page_free), directory (root page) |
| Skip-list towers | forward links per level, node slots in root and node pages | `descend_ex`, `skiplist_splice`, `skiplist_unlink` | records |
| Symbol directory | open-addressed slots, tombstones, `symbol_count` | `symdir_lookup`, `symdir_create`, the slot half of `symbol_drop` | batches, records |
| Pager | page cache (dirty, fresh, pins), freelist, two meta pages, active meta in memory | `page_pin`, `page_pin_zero`, `cache_evict`, `page_alloc`, `page_free`, `cache_flush_all`, `txn_commit_ex`, `txn_discard`, `db_refresh_meta` | everything above; the file |
| Transactions and batches | `in_txn`, batch entries | `spike_db_write_ex`, `txn_begin`, commit, rollback | pager, directory, records |
| Iterators | place (leaf, slot), chunk buffer, last key, `seen_txn`, status | `scan`, `scan_ex`, `iter_next`, `iter_seek`, `iter_close`; `scan_multi` merges several symbols | records, file lock |
| Waiting readers | none but a local clock | `txn_id`, `wait_for_txn`, `max_time`, `max_times` | meta page |
| User metadata | packed area of the meta page | `batch_put_meta`, `get_meta` | batches |
| Open, format, recovery | file size, meta pages | `spike_db_open`, `db_format_fresh`, `close` | pager |
| Backup, prefetch, stats, verify | none | reads | pager |

What is hard to test: leaves are split, unlinked and trimmed in an order only
the input decides, and the index node, the chain, the neighbours and the root
counters have to follow; a transaction can be larger than the cache, so pages
go to the file before the commit; the freelist lives in the pages it frees; any
step can fail and has to be undone in memory and in the file; other handles
commit while a cache is warm and between two chunks of a scan; a directory slot
goes through create, drop and reuse.

`PROJECT.json` lists each of these hazards at its line, with the properties that
cover it.

What makes each component correct:

- records: every lookup returns what the leaves hold; leaves never overlap;
  index, chain and counters tell the same story; a batch is all or nothing; a
  range delete or a truncation removes exactly its range;
- pager: the committed state in the file is untouched until a commit begins to
  overwrite it; a transaction reads its own writes; every page has exactly one
  owner; a cache is not trusted after another handle's commit;
- iterators: keys in order and none twice, none skipped without an error
  status, none outside the range or behind the seek position, and a stable view
  when the iterator blocks writers;
- directory: a lookup finds exactly the symbols that exist, each in one slot;
- waiting readers and user metadata: an unchanged counter means an unchanged
  file, the counter never goes back, the stored position is that of the stored
  records, and a wait ends with the new counter or at its time-out;
- opening: only an empty file or an interrupted format is formatted, every other
  file keeps its bytes, and no database is refused.

## Modules

| Module | Models |
|---|---|
| `TickStore` | abstract: one symbol as a map from keys to values changed by transactions |
| `LeafIndex` | the leaves, chain, index nodes and counters of one symbol |
| `LeafIndexProps` | its properties, and its refinement of `TickStore` |
| `LeafReads` | the reads that walk many leaves: `read_range` and the walk of `verify_symbol`, over the states of `LeafIndex` |
| `LeafIndexMC` | small instances |
| `LeafIndexProofs` | TLAPS: the structure of `LeafIndex`, and its contents: the refinement of `TickStore`, counters, lookups, range deletes |
| `LeafMap` | abstract: the index as a map from leaves to first keys |
| `SkipList`, `SkipListMC` | the towers, node slots and node pages behind that map |
| `SkipListProofs` | TLAPS: the theorems about `SkipList` |
| `Pager`, `PagerMC` | cache, freelist, meta pages, transactions of several handles |
| `PagerProofs` | TLAPS: the theorems about `Pager` |
| `ScanIter` | single-symbol iterators against concurrent commits |
| `ScanIterProofs` | TLAPS: the theorems about `ScanIter` |
| `MultiScan` | merged iterators over several symbols against concurrent commits |
| `MultiScanProofs` | TLAPS: the theorems about `MultiScan` |
| `Follow` | processes that follow the commit counter, and the user metadata, while others write |
| `FollowProofs` | TLAPS: the theorems about `Follow` |
| `SymDir`, `SymDirMC` | the symbol directory |
| `SymDirProofs` | TLAPS: the theorems about `SymDir` |
| `Format` | opening, formatting and refusing a file, by several processes |
| `FormatProofs` | TLAPS: the theorems about `Format` |

A definition whose name starts with `Bug` is never used by the models: it is a
plausible mistake in the definition after it, and shows that some property
notices that mistake.

### LeafIndex

`sym` is the symbol as the pages of the open transaction show it, `disk` as the
last commit left it, `txn` what runs. Keys are naturals: `SeqSpan` of them
belong to each timestamp, so (t, 0) is `t * SeqSpan`. A leaf is a map from keys
to values and a number of used bytes; `HasRoom`, `Outcome` and `UsedAfter` are
`leaf_upsert`'s rules for the fixed and the variable layout. `Way` names the
path `symbol_insert` takes: first leaf, append to the tail, new tail leaf, into
the leaf found, or split and retry. Actions:

| Action | Code |
|---|---|
| `BatchPut`, `BatchRefused`, `BatchDelete` | one entry of `spike_db_write_ex`'s loop; entries come in key order because the batch is sorted; a refusal rolls everything back |
| `BeginRange`, `RangeStep` | the loop of `spike_db_delete_range`: find the lowest key, delete it |
| `Commit`, `Fail` | `txn_commit`, and the rollback after an unreadable page or a full cache |
| `TruncateBefore` | `spike_db_truncate_before`, all its passes |
| `SymbolDrop` | `spike_db_symbol_drop` for the symbol's pages; `live` keeps what the chain did not reach, so a leaf that is lost shows up |

The skip list is reduced to the key of each leaf's node: `Descend` returns the
leaf with the greatest node key not above the target. That the towers find that
leaf is what `SkipList` is about.

`AllWrites = FALSE` leaves out one family of writes (`Mishandled`): a record
that becomes the first one of a leaf that already has an index node. The code
inserts it and leaves the node's key as it was, and from then on the index and
the leaf disagree (`SkipList` tells what becomes of the towers). `leaf_late` runs with `AllWrites = TRUE` and shows what comes
of it; everything else, and the theorems, hold for the remaining writes. A
record below every other record of its symbol belongs to that family as well.

`LeafReads` adds two reads as operators on the same pages. `ReadRange` is
`spike_db_read_range` with room for any number of records: it positions like
`cursor_seek`, then copies leaf by leaf (`CopyLeaf`). `VerifyAccepts` is
`verify_symbol`: the walk along the chain with what it counts on the way
(`VerifyLeaf`, `ChainWalked`), which gives up after eight leaves more than the root
counts (`Limit`), then the comparison with the root page, and the node keys. Both
are recursive functions over the turns of the code's loop, evaluated on every
committed state.

### SkipList

One symbol's index: `head`, `node` and `top` are the forward pointers and
`current_max_level`; `pages` and `current` the node pages with their fill and
their chain; `backRef` each leaf's `skiplist_node_ref`. Of a leaf only the first
key is kept, of the chain of leaves only its first one (`first`). Every action is
one call inside a transaction:

| Action | Code |
|---|---|
| `PutInLeaf` | `symbol_insert` into a leaf with room: when the record comes in front of the leaf, the first key changes and the node does not |
| `AddFirstLeaf`, `AddLeaf` | the first leaf of `symbol_insert`; `leaf_split`, the write after it and a new tail: a random height, `descend`, `skiplist_splice` |
| `DeleteFirst`, `DeleteOnly` | `symbol_delete` that moves the first key, or empties the leaf: `leaf_unlink` with `skiplist_unlink` |
| `TruncateBefore` | the rebuild of all levels in `spike_db_truncate_before`, and the new `current_max_level` |
| `SymbolDrop` | the walk along the node pages in `spike_db_symbol_drop` |

A walk along a level is a function of its turns (`Walk`), as the inner loop of
`descend_ex` takes them: each goes on to the next node, unless there is none or it
is one the walk stops in front of. `Linked` is where a walk to the end has been,
`LastBefore` where one stops, and `Preds` takes the levels from the top down. A walk
is given as many turns as there are nodes (`Count`); that this ends the walks on a sound
level is a part of the proofs, not an assumption. `TruncateBefore` tells the next node that stays by the same walk.
The height is any level, since `random_level` decides by a generator's bits.
A node slot is never used again; what an unreached slot holds is forgotten
(`LeaveBehind`) once no node that is still linked points to it, which keeps the
states few and cannot be observed.

The actions take every write the code takes: nothing compares a new node's key
with those that are there. `AllWrites = FALSE` leaves out two kinds, the `Mishandled`
writes of `LeafIndex`:

- a record that comes in front of the leaf it goes to, by itself (`PutInLeaf`) or
  after a split (`Halves`). The node keeps its old key (2015-2028), and from then on
  the first keys and the node keys differ;
- a split of a leaf with one record (1757): the new leaf takes that record, and
  with it the key of the old leaf's node, so that two nodes on level 0 have one key.

After the second, or after the first and one more split or delete, nodes with equal
keys or out of order stand on a level. `skiplist_unlink` (2082) then searches for
its node's key, can stop short of it, and does not take it out of
every level: a node is left that names a leaf page which is freed. With `AllWrites = TRUE` the
instance of `skip_list` shows all of it within a few steps: `DescentExact`,
`TowersSound`, `OneNodePerLeaf` and `ImplementsLeafMap` are violated, `TypeOK` and
`NodePagesChained` are not. So `skip_list` runs with `AllWrites = FALSE`, and the
theorems about those four carry it as a hypothesis. The steps it leaves are told by what they do
to the leaves: `KeyedAlike` a split or a new tail with records on both sides and no late one,
`FitsIn` a key in front of the leaves behind; `Fronts` and `FromOn` allow any order of the
chain of leaves when all writes are made, and key order otherwise.

`ImplementsLeafMap` shows that what a walk along level 0 reads changes only by
the steps of `LeafMap`, and `DescentExact` that the towers lead to the same leaf
as a search through that map.

### Pager

`file` and `metas` are the file, `cache` and `mem` the page cache and the meta
page in the memory of each handle, `work` and `committed` what the client, that
is the layers above, last wrote to the pages it owns, inside the transaction and
as committed. A cached page carries `dirty` and `fresh` as `CacheSlot` does.
Operators map a cache and a file to the *set* of their successors, because the
clock hand's choice of a victim is left open. `page_alloc` and `page_free`
follow the freelist pages themselves, so the freelist is spilled, rolled back
and re-read like any page. A commit is many steps: `BeginFlush`, `FlushPage` for
every dirty page in page order, then `Publish`, or `TearMeta` when the meta page
is cut short; both wait until the pages are on the disk (`DataOnDisk`), which is
the first fsync of `txn_commit_ex`. `Rollback` is `txn_discard`, `Crash` the
death of a process and the opening of the file by the next one. `unsynced` are
the pages written since the last fsync: a `PowerLoss` ends all processes and
leaves any of those pages with a content nobody can read.

Three things are left out by name:

- phase `overwriting`: once a flush has overwritten a page of the committed
  state, a failure or a crash before the meta page leaves a mixture. The sources
  say so themselves (`docs/testing.md:12-17`, `docs/design.md` section 5), so
  `Rollback`, `Crash` and `PowerLoss` are not taken there. A power loss that takes
  a meta page after such a flush is the same gap; one that takes it when nothing
  was overwritten is `TearMeta`;
- `NoSync = FALSE` leaves out commits with `SPIKEDB_WRITE_NOSYNC`;
- `AllSpills = FALSE` leaves out the spill of a *fresh* page the committed state
  still consists of (`Reachable`). `pager_reuse` runs with it and shows the
  damage.

### ScanIter

The symbol is the set of its committed keys and `Commit` turns it into any other
set, so that every effect of splits, merges and deletes on the keys is there.
The iterator's page and slot are one place `at`, which is worth something only
while no commit has followed the transaction `pos` it was found in; after that
`Findable` is any set of keys. `kept` is the set of keys present since the walk
began, `emitted` what the caller has got. A chunk ends after `Chunk` records or
earlier, as the byte limit would have it. `Failures` is an unreadable page at any
point. `SeekRaces` and `SharedHandle` are FALSE in `scan_walk`. The first leaves out a
commit between `iter_seek` and the next record; with the second, `OtherCall` gives the lock of a blocking
iterator away, as any call on its handle does in the code.

### MultiScan

The file is the set of its records, (key, symbol) pairs, and a commit makes it
any other set. A cursor is the key of a symbol's next record, `Heap` the cursors
that still have one, `NextOut` its top under `sub_cmp`. `Repositioned` is
`multi_reposition` with its rule for ties, `Fills` the set of chunks
`iter_fill_multi` can make of an iterator, whatever pages it fails to read on
the way (`WithLosses`: a symbol whose page cannot be read leaves the heap, the
others go on, and `iter_note` ends the walk behind the chunk). As in `ScanIter`,
`kept` and `held` are the records that were there all along, or at some time,
and `emitted` is what the caller has got.

### Follow

Threads that follow a file and threads that write to it, one handle each; some
handles do both. `metas` are the two meta pages in the file, `mem` the active
one in the memory of each handle, which a writer changes in place, `writer` the
handle with the exclusive lock. `records` is one symbol, as its set of times.
`call` is the call a handle is in; `known` what a follower has seen, and whether
that is still so.

| Action | Code |
|---|---|
| `StartWait`, `Poll`, `PollFails`, `Sleep` | `spike_db_wait_for_txn`, one poll and one sleep at a time; `waited` wraps at `WordSize` as `waited_us` does at 2^32 |
| `ReadRecords`, `ReadUser` | `spike_db_max_times`, `spike_db_get_meta` |
| `MaxFirst`, `MaxSecond`, `Return` | `spike_db_max_time` with its two locks |
| `BeginWrite`, `WriteRecords`, `WriteUser` | `spike_db_write_ex`: lock, refresh, entries, then `meta_kv_set` in the handle's own meta page |
| `Commit`, `TornCommit`, `Rollback` | `txn_commit_ex` and `txn_discard`; a commit can be told as ERROR when only its last fsync fails |
| `Crash` | the process dies, and the next one opens the file without the lock |

Values of user metadata are their lengths, so `SPIKEDB_META_CAPACITY` decides
whether one fits.

### SymDir

`dir` and `disk` as above; `live` and `kept` are the symbols that exist, inside
the transaction and as committed. `Put` is what `spike_db_write_ex` and
`spike_db_symbol_define` do to the directory, `Drop` what `spike_db_symbol_drop`
does. `Home` stands for the hash.

### Format

`page` is the reserved part of one file, `size` its length in such pages,
`handle` where each process is in `spike_db_open` or afterwards. `ours` says
that the file was empty in the beginning; otherwise it is a file of another
program, with any pages zero that leave one that is not, or a database (or a
backup) cut short of its reserved pages.

| Action | Code |
|---|---|
| `Open`, `Check` | the size test of `spike_db_open`, and its look at each page of a short file |
| `ReadMetaA`, `ReadMetaB` | the two reads of the meta pages, without a lock, and the choice between them |
| `WriteFormat`, `FinishFormat`, `TearFormat` | `db_format_fresh`, one page write at a time, and a meta page that is written in part |
| `BeginCommit`, `HalfMeta`, `Publish` | as much of a commit as an open can meet: directory pages, and the meta page half written and whole |
| `Stop` | `spike_db_close`, a failed call, a process that dies |

Two constants leave out what the code gets wrong (see below): with
`Overlaps = FALSE` nobody opens the file while another process checks or formats
it, and no commit begins between the two reads of the meta pages;
with `LateStops = FALSE` a format does not stop between the last directory page
and meta page A. Everything else may happen at any point: commits that are
under way while a file is opened, a format that dies and is taken up by the next
process, again and again, an open that meets a half-written meta page.

## What the runs show

| Run | Instance | Shows |
|---|---|---|
| `leaf_fixed` | 5 keys, 2 per timestamp, leaves of 2 records, 4 leaf pages, batches of 2 | types, structure, counters, every lookup and bulk read, no false alarm of `verify`, refinement of `TickStore`, exact range deletes |
| `leaf_variable` | 4 keys, values of 1 and 2 bytes, pages of 6 bytes, slots of 1 | no leaf outgrows its page |
| `leaf_late` (violation) | as `leaf_fixed`, all writes | a stored record is not found |
| `skip_list` | 4 leaves, 4 keys, 3 levels, 2 node pages of 3 nodes, `AllWrites = FALSE` | towers sound, descents exact, one node per leaf, node pages chained, refinement of `LeafMap` |
| `pager_spill` | 1 handle, 3 pages, 2 cache slots, freelist pages of 1 id, 4 commits, power losses | committed bytes intact, own writes seen, no page lost or shared |
| `pager_shared` | 2 handles, 2 pages, 2 slots, 4 commits | no stale cache is trusted |
| `pager_reuse` (violation) | as `pager_spill`, all spills | committed bytes overwritten before the commit |
| `scan_walk` | 5 keys, chunks of 2, 2 commits | order, completeness, range, stable view |
| `multi_scan` | 2 symbols, 3 keys, chunks of 2, 2 commits | merged order, completeness, nothing foreign |
| `symdir_probes` | 4 symbols, 5 slots | lookups exact, one slot each |
| `follow_wait` | 2 writers, one of them a follower; 2 times, 1 metadata key, 3 commits, 2 time-outs | a cached counter and the ingest position can be trusted, `max_time` is true, a waiting reader returns |
| `format_open` | 3 processes, 3 directory pages, 4 commits | only empty and half-formatted files are formatted, what is in a file stays, no database is refused |

Why the bounds are enough. Leaves of two records make every path of
`symbol_insert` happen within three records; five keys give three leaves at
once, so there is a first, an inner and a last one to split, empty or trim, and
the inner split has a neighbour behind it. Four leaf pages allow one leaf more
than the keys can fill without an insert below a node. Two keys per timestamp
separate (time, seq) from time. A batch of two entries makes the second run on
an uncommitted first. In `leaf_variable` a page holds three small or two large
records, so that holes, growth in place, growth by appending and compaction all
decide something. Three pages with a cache of two force evictions with every
kind of page in the cache; freelist pages of one id make the head page change
hands at almost every call; four commits let a page go round the freelist twice
and both meta pages be overwritten twice. In `scan_walk` five keys are more than
two chunks, and two commits can fall into the same or into different gaps
between chunks. In `symdir_probes` two symbols share a slot, a third lives on
their way, and the fourth wraps around the end. In `skip_list` four leaves on
three levels give every tower a neighbour before and behind it, and two node
pages of three slots fill up with nodes that were unlinked, so that a page that
is full, chained and dropped occurs. In `multi_scan` six records are three
chunks; two symbols at one key put a chunk's border between two ties, and two
commits fall into one or into different gaps. In `follow_wait` the metadata has
room for one value of length 2 and not for one of length 3; three commits write
both meta pages, one of them over a torn one; a time-out of 0 expires at the
first poll and one of 4 after sleeps of 1, 2 and 4, with the back-off at its cap.
In `format_open` three directory pages put a first, an inner and a last one
before the meta pages, which is what the order of the writes and the last page
of a short file depend on; four commits write each meta page twice, and three
processes let two of them open a file while the third commits.

`TypeOK` of `Follow` and of `SymDir`, and `StructureSound` in the variable
layout, are proved for every instance and not run.

Symmetry is used for leaf pages, node pages, handles and bytes, which the
models only compare; not for keys, and not in `follow_wait`, which checks
liveness. Deadlock is checked in every run.

Fairness is assumed in `Follow` only: a sleep ends (`WF Sleep`), a transaction
ends, by commit or rollback (`WF EndWrite`), and a poll that can get the lock
again and again gets it (`SF Poll`). The first two are the code's own loops,
which are bounded. The last is the operating system's part: `F_OFD_SETLKW`
(594) and `LockFileEx` (582) queue a request and grant it when the lock is free,
and a writer keeps the lock for one transaction at a time. Weak fairness would
not do, since each transaction takes the lock away from a waiting poll. Nothing makes
a follower call, a writer write or a process die.

### What the code does otherwise

The two violation runs show where the code does something else than its
documents say; `PROJECT.json` quotes the sentences. Each was reproduced with a
small C program against the library: a record lost after a late insert, and a
rollback that destroyed committed records.

Other places were met while modelling, reproduced the same way unless marked,
and kept out of the passing runs by a named constant, an assumption or an
excluded case:

- a commit between `iter_seek` and the next record sends a non-blocking
  iterator back to the start of its range (3415, 3673), where
  `spike_db.h:388-389` has it "resume from there". `SeekRaces`;
- of two processes that open the same empty file, the second can format it over
  what the first has committed meanwhile (2362), and a process that opens a file
  another one is formatting is answered CORRUPT; `README.md:310` of the repository says
  "only a missing or empty file is formatted". `Overlaps`;
- `spike_db_open` reads the meta pages without the lock (2392): when a commit
  writes one while the first is read, and the next commit the other while the
  second is read, a database in use is answered CORRUPT; seen in the model only.
  `Overlaps`;
- a format that stops after its last directory page and before meta page A
  leaves a file of full length without a valid meta page, which is refused as
  CORRUPT from then on (2362, 2396); `docs/testing.md:63` has an interrupted
  format formatted again. `LateStops`;
- after a commit with `SPIKEDB_WRITE_NOSYNC`, a power loss can leave the meta
  page and take pages it refers to, as `docs/design.md:546-548` says, while
  `spike_db.h:303-304` has the file "structurally intact"; seen in the model
  only, which then breaks `CommittedIntact`. `NoSync`;
- an overwrite that does not fit a variable-width leaf with a single record
  splits it at position 0 (1757): the symbol then counts two records
  (`docs/design.md:307` says the count is unchanged). `AllWrites`;
- after such a split, or a late record and a further split or delete,
  `skiplist_unlink` misses its node (2082, 2102-2115), and the index goes on naming
  a freed leaf page, where the comment above it (2074) has it unlinked "from every level";
  seen in the model only. `AllWrites`;
- any call on the handle of a blocking iterator releases the iterator's lock
  (602), and another process's commit shows up in the "stable view"
  (`spike_db.h:332`). `SharedHandle`;
- a symbol's own tombstone is never reused (1195): one symbol dropped and
  recreated often enough fills the directory, while `docs/design.md:148` says
  such cycles "do not leak slots";
- when `txn_discard` cannot read the meta pages again (1068), the handle keeps
  the user metadata of the batch that failed, answers `get_meta` with it, and
  its next commit publishes it without that batch's records; `spike_db.h:283`
  promises the position "in the *same* transaction as the data". `RereadFails`;
- a merged scan that loses one symbol to an unreadable page still delivers later
  records of the others before it reports the error (3338), where
  `spike_db.h:396` says that nothing after the failure is delivered;
- `spike_db_max_time` answers OK with time 0 for a symbol that gets its first
  records between the two locks (3712); read from the code. `FilledBetween`;
- `waited_us` wraps after 71 minutes, so a longer time-out never expires (4208);
  read from the code. `TimeoutsAssumption`;
- `spike_db_min_time` takes a record at time `UINT64_MAX` for none (3723). `TopTime`;
- in a variable-width leaf with two 30000-byte records, a third of 40000 bytes
  between them is refused with `SPIKEDB_FULL` although the cache has room
  (`docs/design.md:340` reserves the answer for that), because the leaf is split
  only once. The model refuses it as well.

## What is proved

`LeafIndexProofs`, for all keys, leaf sets, layouts, flags and batch sizes that
the module's assumptions allow, and with `AllWrites = FALSE`:

- `TypeAlwaysOK`: `Spec => []TypeOK`;
- `StructureAlwaysSound`: `Spec => []StructureSound`: node keys are first keys,
  leaves do not overlap, both directions of the chain follow key order, the root
  points at its ends. It speaks of `sym` and `disk`, so it holds between the
  entries of a batch too;
- `GetAlwaysExact`: `Spec => []GetFindsEveryRecord`.

The inductive invariant is `TypeOK /\ StructureSound`. Neither part stands
alone: that a split or an unlink repairs the right neighbours needs the chain
to be in order, and that the minimum of a leaf exists (types) needs leaves
without records not to be in the chain. `StructureOK` is written with local facts only (`Follows`: `m` is
the next leaf above `l`), so that it is preserved without talking of paths; the
two operators that do walk, `Chain` in `TruncateBefore` and `SymbolDrop` and
`FirstHit` in the search, are tied to it by lemmas: from the first leaf the walk
reaches every leaf (take the lowest leaf it does not reach; its predecessor is
reached), and what follows a leaf on the walk is what lies above it. There is
one lemma for each way a symbol changes: a record into a leaf, first leaf, new
tail, split, erase, unlink, truncation. `GetAlwaysExact` follows from the
invariant alone: the leaf that holds k has its node key not above k, and any
leaf with a greater node key not above k would overlap it.

`SymDirProofs`, for any number of slots and symbols, any hash and any history of
creations, drops, commits and rollbacks:

- `LookupAlwaysExact`: `Spec => []LookupExact`;
- `OneSlotAlways`: `Spec => []OneSlotEach`, and `TypeAlwaysOK`.

The invariant is `DirectoryOK`, of the directory in the transaction and of the
committed one: a live symbol has one slot (`Single`), the live slots are those
of the symbols that exist (`Holds`), and no empty slot lies between a symbol's
home and its slot (`ChainsWhole`). `LookupExact` is not inductive without the
last part: a search that ends too early would find nothing, and create a second
slot. That a probe sequence visits each slot once (`ProbeFacts`) is arithmetic
modulo the size of the table.

`FollowProofs`, for any sets of handles, keys, lengths and times and any bounds,
and for the case that `txn_discard` can read the meta pages again
(`~RereadFails`; otherwise the code breaks `PositionExact`, see above):

- `PositionAlwaysExact`, `UnchangedAlwaysMeansUnchanged`, `MaxTimeAlwaysTrue` and
  `TypeAlwaysOK` for the invariants, `CounterAlwaysMonotonic` for the action
  property.

The invariant adds to the types and to these properties: the writer is
the handle that is inside a write (`WriterHolds`); its meta page is the active
one, with the file's counter and the user metadata asked for so far, unless one
was refused (`WriterCurrent`); and no handle has a counter ahead of the file's
(`NobodyAhead`), so that a handle that trusts its copy because the counters are
equal has the right one. `MaxTimeTrue` and the action property follow from it
step by step.

`LeafIndexProofs` goes on, from the same assumptions, to what a symbol holds:

- `RefinesTickStore`: `Spec => ImplementsTickStore`, step by step: every step of
  `LeafIndex` is a step of `TickStore` on `Contents`, the map from the keys in the
  leaves to their values, or leaves it alone;
- `RootCountersAlwaysExact`, `NeighboursAlwaysExact`, `DeleteRangeAlwaysExact`.

The added invariant, `MapInv`, says that the root's counters fit the leaves
(`CountersOK`), that a symbol without a transaction is the committed one, and that
a `delete_range` under way has taken records of its range out and nothing else
(`RangeSoFar`). For each operation there is a lemma that says what it does
to the map: a write extends it at one key, a delete or a truncation restricts it.
That a truncation counts what it keeps, and that a split neither drops nor doubles
a record, are facts about cardinalities of leaves that do not overlap.
`NeighboursAlwaysExact` ties the walk over empty leaves (`FirstHit`) to the order
of the nodes. `RootCountersAlwaysExact` has one more hypothesis, that `TopTime` is
no time of a record: the code takes that time for "no record"
(`spike_db_min_time`, listed as a hazard).

`LeavesAlwaysWithinPage` rests on `PageInv`: in every leaf, of the open transaction
and of the file, the records compact to no more than the bytes the leaf counts as used,
and those fit the page. The bytes of a leaf are a set (`Bytes`), so that an overwrite, a
split or a truncation is an inclusion of sets and no sum has to be taken apart. It
uses that a slot takes at least one byte, as `LEAF_SLOT_SIZE` does.

`RangeReadsAlwaysExact` and `NeverFalseAlarm` are about loops over the chain, and each
rests on an invariant of its loop, over the leaves in front of the current one
(`Below`). `Walked` says that `verify_symbol` has counted just those leaves and their
records, has seen their least and greatest time, and has found no fault; `Copied`
that `read_range` has listed, in order, just what the range holds of them,
and when it stops, the least records of the range, as many as there is room for. A
turn of the loop moves one leaf from behind to in front, so a chain of n leaves ends after
n turns: `verify` stays under its limit, and `read_range` reaches the end of its
range. What remains is about lists: a list that goes up is settled by the
set it lists (`RisingFront`), and `InOrder` lists a set. That the recursive functions
exist is `Iterates`.

`PagerProofs`, for any pages, handles, cache sizes, freelist lengths and batches,
for the case that commits sync (`NoSync = FALSE`) and that no batch spills a page
it took back from the freelist after freeing it (`AllSpills = FALSE`; otherwise
`CommittedIntact` fails, see above):

- `CommittedAlwaysIntact`, `OwnWritesAlwaysSeen`, `NeverLostOrShared`,
  `CacheAlwaysCurrent` and `PagerTypeOK`, each `Spec => []` the invariant.

The inductive invariant has the parts `ActiveOK` (the meta page in force is valid
and newer than the other), `MemOK` and `WriterOK` (what the writer and the other
handles believe), `PhaseOK` and `IdleClean` (what may be dirty when), `FileOK` (the
file outside and inside a commit) and `CachesOK` (a clean cached page is what the
file holds). The freelist is a list of pages that hold pages, so it is stated
through the pages that lie behind each other; `NoCycle`, that no page lies behind
itself, is what makes "the head is freed and then handed out" keep the list sound.
The same invariant was checked with TLC on the constants of `Pager_spill` (2.09
million states) and `Pager_shared` (1.65 million) before it was proved.

`FormatProofs`, for any number of processes and directory pages, with
`Overlaps = FALSE` and `LateStops = FALSE`, the two cases in which the code does
fail:

- `RefusesOnlyForeignAlways`: `Spec => []RefusesOnlyForeign`, `FormatTypeOK`, and
- `KeepsWhatItHoldsAlways`: `Spec => KeepsWhatItHolds`, the action property.

The invariant tells three kinds of file apart: one of another program, which has
not changed (`Untouched`); one that is all zero, however far a format has come
(`Blank`); and a database, of full length and with at least one whole meta page (`Sound`). `OneAtATime` says that whoever is in the middle of
opening a blank file is alone. `SecondMetaWhole`, a part of `Sound`, is why a half-written
meta page never leaves an open without one.

`ScanIterProofs`, for any keys, chunk size and number of commits, with
`SeekRaces = FALSE` and `SharedHandle = FALSE`:

- `WalkInOrderAlways`, `NothingSkippedAlways`, `StaysAheadAlways`,
  `StableViewAlways` and `ScanIterTypeOK`.

The invariant is `Walk`, of an open iterator. `Placed`: its place is the one
`iter_resume_key` would find again, so that a commit between two chunks costs
nothing; this is the part that needs `SeekRaces = FALSE`. `Sorted`: what was
handed out, the buffer and the place follow one another. `Complete`: a key that
was there all along was handed out, is in the buffer, or lies onward from the
place. `Stable`: nothing changes under a blocking iterator. That `InOrder` lists a
set once and in order for every finite set is proved by counting: ranks are
an injection into 1 .. n, so they are onto.

`MultiScanProofs`, for any keys, symbols, chunk size and number of commits, with
no case excluded:

- `MergeAlwaysInOrder`, `MergeSkipsNothing`, `MergeAddsNothing` and
  `MultiScanTypeOK`.

The invariant has the same parts as that of `ScanIterProofs`. `Placed`: as long as no
commit has followed, the cursor of each symbol is on its first record behind the
furthest record handed out or buffered, in the order of keys *and* symbols
(`After`); hence the least cursor is the next record of the whole merge, and a tie that a
chunk's border cuts in two is taken up where it was left. `Sorted`, `Complete` and
`Known` relate the chunk to what has been handed out, to `kept` and to `held`.
`Fills` is a recursive function, which the prover does not unfold by
itself: that there is such a function is proved from the least number for which
there would be none (`TurnsExist`), and what a chunk holds follows in the same
way. The invariant was checked with TLC first (2.3 million states on the
constants of `MultiScan_merge`).

`SkipListProofs`, for any leaves, any finite sets of keys and of node pages, any slots
per page and levels. Whatever is written, late records and splits of one record
included:

- `TypeCorrect` and `NodePagesAlwaysChained`, each `Spec => []` the invariant.

Where no record is written in front of its leaf and no leaf of one record splits
(`ASSUME AllWrites = FALSE` in each of them; the code breaks all four otherwise, see
above):

- `DescentAlwaysExact`, `TowersAlwaysSound` and `AlwaysOneNodePerLeaf`;
- `LeafMapImplemented`: `Spec => ImplementsLeafMap`, step by step.

The first two rest on `WInv` (`WInvAlways`), which says nothing of keys: the pointers
of a level lead to nodes that reach that level (`LevelsClosed`), a leaf of the chain
has a node (`LeavesNamed`), and `SlotsTaken` and `PagesChained`: the slots in use of a
page are its first ones, and the pages in use are those the chain reaches. That holds
when a search ends anywhere.

The inductive invariant of the four is `IInv`. `NodesNamed`: a leaf of the chain and its node
name each other, and no other node is left. `KeysDistinct`: no two leaves
begin with the same key. `FirstSound`: the first leaf of the chain is the least one. `RowsSound`: each level is a `Row` of the nodes that are tall enough
for it, that is, the head and every one of them lead to the next in key order; and
`SlotsTaken` and `PagesChained` as before. None of the properties is inductive by
itself: that an unlink finds its node on every level it has, with `descend_ex` and the
node's key, needs the rows sorted, complete, and with the keys the leaves have now.
A row speaks of neighbours only, so that it is preserved without talking of walks, by
one lemma for each thing an operation does to it: `RowSpliced`, `RowUnlinked`, `RowCut`
(what `spike_db_truncate_before` leaves), `RowRekeyed`. The walks come from it:
on a row, each turn leaves one more node behind, so a walk has ended after as many
turns as there are nodes (`WalkEnds`), at the last node
in front of those it stops at (`WalkStops`), and one to the end has met every node
(`LinkedIsRow`). Then a descent has, on each level, the last node in front of the
key (`PredsInFront`), wherever the level above let it begin. `LeaveBehindSound` says that the nodes
a step leaves out are those it unlinked, `TakesFresh` that a slot handed out was free.
`LeafMapImplemented` rests on `IndexMapIsFirstKey`: what a walk along
level 0 reads is the first key of each leaf. `IInv` was checked with TLC on the
constants of `skip_list`, with three leaves, before it was proved.

Only model-checked: `WaitReturns`. Beyond this
prover: liveness and ENABLED, and modules with RECURSIVE operators, of which there
are none here: walks are least closed sets or recursive functions. The library's
induction theorems cannot be instantiated either; the proofs that need an
induction argue by the least number that would fail.

## Not modelled

CRC arithmetic and page I/O (their outcome, a page that cannot be read or a torn
meta page, is an event of the models), path handling, error texts, statistics,
backup, prefetch, tests, and the build tooling. A backup copies the
file under the shared lock, so that its copy is what `Pager` says of the file
between commits. Operations that go on after a page they could not read
(1803, 3977): there the code does lose index nodes and counts, and a model with
that fault would break every property about them. A failure in the flush after
it has overwritten committed pages, and a power loss after
`SPIKEDB_WRITE_NOSYNC`.

## Plan

`SPIKEDB_WRITE_NOSYNC` with a property of its own: which commits a power loss may
take, and that `spike_db_sync` ends the exposure.
