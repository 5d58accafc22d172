------------------------------- MODULE Format -------------------------------
(***************************************************************************)
(* spike_db_open: which files it formats, which it refuses and which it    *)
(* takes for a database, while other processes open the same path or       *)
(* commit, and with a process that dies, or a write that fails, between    *)
(* any two page writes of a format.  spike_db_open takes no file lock.     *)
(*                                                                         *)
(* Only the reserved pages are modelled: the two meta pages and the symbol *)
(* directory behind them.  A page the file is too short for reads as Zero. *)
(* A read-only handle opens as the others do, except that it answers ERROR *)
(* where they would check or format a short file, which is no step.        *)
(***************************************************************************)
EXTENDS Integers, FiniteSets, FiniteSetsExt

CONSTANTS
  Handles,    \* one for each process
  DirPages,   \* SPIKEDB_SYMDIR_PAGES
  Zero,       \* a page with a zero body, with its checksum or without
  Foreign,    \* a page some other program has written
  Symbols,    \* a directory page with symbols in it
  Torn,       \* a meta page a write has not reached in full
  MaxTxn,     \* the last txn_id: a bound
  Overlaps,   \* an open may meet another open, and commits between its reads
  LateStops   \* a format may stop when only its meta pages are missing

Reserved == DirPages + 2
Pages == 0 .. Reserved - 1
Directory == 2 .. Reserved - 1
Contents == {Zero, Foreign, Symbols, Torn} \cup 0 .. MaxTxn

ASSUME BoundsAssumption ==
  /\ DirPages \in Nat \ {0} /\ MaxTxn \in Nat \ {0}
  /\ Overlaps \in BOOLEAN /\ LateStops \in BOOLEAN
ASSUME ContentsAssumption ==
  /\ Cardinality({Zero, Foreign, Symbols, Torn}) = 4
  /\ {Zero, Foreign, Symbols, Torn} \cap Nat = {}

VARIABLES
  page,    \* the reserved pages of the file; a meta page is its txn_id
  size,    \* pages of the file, as far as they are reserved ones
  handle,  \* where each process is
  ours     \* the file was empty to begin with

vars == <<page, size, handle, ours>>

Valid(c) == c \in 0 .. MaxTxn
ActiveOf(a, b) == IF ~Valid(b) \/ (Valid(a) /\ a >= b) THEN 0 ELSE 1
Active == ActiveOf(page[0], page[1])

\* The last transaction that is in the file.
Committed == Max({0} \cup {page[i] : i \in {j \in {0, 1} : Valid(page[j])}})

Closed == [at |-> "closed"]
Corrupt == [at |-> "corrupt"]   \* the last open answered SPIKEDB_CORRUPT
States ==
  {Closed, Corrupt, [at |-> "meta A"]}
  \cup [at : {"check"}, pages : 1 .. Reserved - 1, next : Pages]
  \cup [at : {"meta B"}, first : Contents]
  \cup [at : {"format"}, next : 1 .. Reserved + 1]
  \cup [at : {"open", "commit"}, active : 0 .. 1, txn : 0 .. MaxTxn]

Becomes(h, s) == handle' = [handle EXCEPT ![h] = s]
Free(h) == handle[h] \in {Closed, Corrupt}

------------------------------------------------------------------------------
\* A file some other program made, with a first page that may happen to be
\* zero, or a database cut short of its reserved pages.
ForeignFile(s, p) ==
  /\ \A i \in Pages : p[i] \in IF i < s THEN {Zero, Foreign} ELSE {Zero}
  /\ \E i \in Pages : p[i] = Foreign
CutFile(s, p) ==
  /\ s \in 1 .. Reserved - 1
  /\ p = [i \in Pages |-> IF i >= s THEN Zero ELSE IF i < 2 THEN 1 - i ELSE Symbols]

Init ==
  /\ handle = [h \in Handles |-> Closed]
  /\ \/ ours = TRUE /\ size = 0 /\ page = [i \in Pages |-> Zero]
     \/ /\ ours = FALSE /\ size \in 1 .. Reserved
        /\ page \in [Pages -> {Zero, Foreign, Symbols, 0, 1}]
        /\ ForeignFile(size, page) \/ CutFile(size, page)

Formatting == [at |-> "format", next |-> 1]

\* The size of the file decides.
Open(h) ==
  /\ Free(h)
  /\ Overlaps \/ \A g \in Handles : handle[g].at \notin {"check", "format"}
  /\ Becomes(h, IF size = 0 THEN Formatting
                ELSE IF size < Reserved THEN [at |-> "check", pages |-> size, next |-> 0]
                ELSE [at |-> "meta A"])
  /\ UNCHANGED <<page, size, ours>>

BugLastPage(c) == 0   \* looks at the first page only
LastPage(c) == c.pages - 1

\* The next page of a short file, each of which has to be zero.
Check(h) ==
  LET c == handle[h] IN
  /\ c.at = "check"
  /\ Becomes(h, IF page[c.next] # Zero THEN Corrupt
                ELSE IF c.next = LastPage(c) THEN Formatting
                ELSE [c EXCEPT !.next = @ + 1])
  /\ UNCHANGED <<page, size, ours>>

ReadMetaA(h) ==
  /\ handle[h].at = "meta A"
  /\ Becomes(h, [at |-> "meta B", first |-> page[0]])
  /\ UNCHANGED <<page, size, ours>>

Refused(a, b) == ~Valid(a) /\ ~Valid(b)

ReadMetaB(h) ==
  /\ handle[h].at = "meta B"
  /\ LET a == handle[h].first
         b == page[1]
     IN Becomes(h, IF Refused(a, b) THEN Corrupt
                   ELSE [at |-> "open", active |-> ActiveOf(a, b),
                         txn |-> IF ActiveOf(a, b) = 0 THEN a ELSE b])
  /\ UNCHANGED <<page, size, ours>>

------------------------------------------------------------------------------
(* db_format_fresh: the directory pages, meta page A, meta page B.         *)

BugTarget(i) == i - 1   \* meta pages first
Target(i) == IF i <= DirPages THEN i + 1 ELSE i - DirPages - 1
Fresh(p) == IF p \in Directory THEN Zero ELSE 1 - p

BugGrown(p) == size + 1
\* A write behind the end extends the file.
Grown(p) == Max({size, p + 1})

InFormat(h) == handle[h].at = "format"
WritesFormat(h) == InFormat(h) /\ handle[h].next <= Reserved
FormatStep(h, content) ==
  LET p == Target(handle[h].next)
  IN page' = [page EXCEPT ![p] = content] /\ size' = Grown(p)

WriteFormat(h) ==
  /\ WritesFormat(h)
  /\ FormatStep(h, Fresh(Target(handle[h].next)))
  /\ Becomes(h, [handle[h] EXCEPT !.next = @ + 1])
  /\ UNCHANGED ours

\* The fsync, and the open returns.
FinishFormat(h) ==
  /\ InFormat(h) /\ handle[h].next > Reserved
  /\ Becomes(h, [at |-> "open", active |-> 0, txn |-> 1])
  /\ UNCHANGED <<page, size, ours>>

\* The directory is written, and the file as long as a database, but there is
\* no meta page in it yet.
Late(h) == InFormat(h) /\ handle[h].next = DirPages + 1
MayStop(h) == LateStops \/ ~Late(h)

\* The write of a meta page fails half way.
TearFormat(h) ==
  /\ WritesFormat(h) /\ handle[h].next > DirPages /\ MayStop(h)
  /\ FormatStep(h, Torn)
  /\ Becomes(h, Closed)
  /\ UNCHANGED ours

------------------------------------------------------------------------------
(* The handle in use: as much of a commit as an open can meet.             *)

\* The exclusive lock, db_refresh_meta, which fails without a valid meta
\* page, and the pages of the batch.
BeginCommit(h, p) ==
  /\ handle[h].at = "open" /\ \A g \in Handles : handle[g].at # "commit"
  /\ Overlaps \/ \A g \in Handles : handle[g].at # "meta B"
  /\ ~Refused(page[0], page[1]) /\ page[Active] < MaxTxn
  /\ page' = [page EXCEPT ![p] = Symbols]
  /\ Becomes(h, [at |-> "commit", active |-> Active, txn |-> page[Active]])
  /\ UNCHANGED <<size, ours>>

\* The meta page of the commit: the one that is not in use.
Slot(c) == 1 - c.active

\* It is half written, ...
HalfMeta(h) ==
  /\ handle[h].at = "commit"
  /\ page' = [page EXCEPT ![Slot(handle[h])] = Torn]
  /\ UNCHANGED <<size, handle, ours>>

\* ... and written.
Publish(h) ==
  LET c == handle[h] IN
  /\ c.at = "commit"
  /\ page' = [page EXCEPT ![Slot(c)] = c.txn + 1]
  /\ Becomes(h, [at |-> "open", active |-> Slot(c), txn |-> c.txn + 1])
  /\ UNCHANGED <<size, ours>>

\* spike_db_close, a call that fails, or a process that dies.
Stop(h) ==
  /\ ~Free(h) /\ MayStop(h)
  /\ Becomes(h, Closed)
  /\ UNCHANGED <<page, size, ours>>

Next == \E h \in Handles :
  \/ Open(h) \/ Check(h) \/ ReadMetaA(h) \/ ReadMetaB(h)
  \/ WriteFormat(h) \/ FinishFormat(h) \/ TearFormat(h)
  \/ \E p \in Directory : BeginCommit(h, p)
  \/ HalfMeta(h) \/ Publish(h) \/ Stop(h)

Spec == Init /\ [][Next]_vars

------------------------------------------------------------------------------
(* What has to hold.                                                       *)

\* Types.
TypeOK ==
  /\ page \in [Pages -> Contents] /\ size \in 0 .. Reserved
  /\ \A i \in Pages : i >= size => page[i] = Zero
  /\ handle \in [Handles -> States] /\ ours \in BOOLEAN

\* "An existing file that is not a SpikeDB database ... is left untouched",
\* and "only a missing or empty file is formatted": what has been committed,
\* and the symbols in the directory, outlast every open, also one that goes
\* on with a format another process has left.
KeepsWhatItHolds ==
  [][/\ ~ours => UNCHANGED <<page, size>>
     /\ Committed' >= Committed
     /\ \A p \in Directory : page[p] = Symbols => page'[p] = Symbols]_vars

\* SPIKEDB_CORRUPT is the answer for files that are not a database: never for
\* one that this library has begun, however far the format came and whatever
\* half-written meta page a commit or a crash has left in it.
RefusesOnlyForeign == \A h \in Handles : handle[h] = Corrupt => ~ours
==============================================================================
