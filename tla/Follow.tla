------------------------------- MODULE Follow -------------------------------
(***************************************************************************)
(* Processes that follow a file by its commit counter while others write   *)
(* to it: spike_db_txn_id, spike_db_wait_for_txn, spike_db_get_meta,       *)
(* spike_db_max_time and _max_times on the one side, spike_db_write_ex     *)
(* with user metadata, its commit and its rollback on the other.           *)
(*                                                                         *)
(* The pages below the meta pages are one symbol, the set of the times it  *)
(* has records at.  They change in the step that publishes them: Pager     *)
(* has the flush before it, and the window it leaves open.  One thread     *)
(* runs on each handle.  A call that only reads holds the file lock shared *)
(* and is one step; a writer holds it alone until its transaction ends.    *)
(***************************************************************************)
EXTENDS Integers, FiniteSets, FiniteSetsExt, Functions

CONSTANTS
  Writers,     \* handles whose thread writes,
  Followers,   \* and handles whose thread follows; some may do both
  NoHandle,    \* nobody holds the file lock exclusively
  Times,       \* timestamps
  UserKeys,    \* keys of the user metadata
  Lengths,     \* a value is its length here, 0 erases the key
  Capacity,    \* SPIKEDB_META_CAPACITY
  Torn,        \* a meta page a write has not reached in full
  MaxTxn,      \* the last txn_id: a bound
  Timeouts,    \* time-outs of wait_for_txn, in units of the first back-off
  BackoffCap,  \* the back-off doubles below it
  WordSize,    \* the values of waited_us
  RereadFails  \* txn_discard may fail to read the meta pages again

Handles == Writers \cup Followers

ASSUME NamesAssumption == NoHandle \notin Handles
ASSUME SizesAssumption ==
  /\ Times \subseteq Nat /\ IsFiniteSet(Times) /\ Lengths \subseteq Nat /\ Timeouts \subseteq Nat
  /\ Capacity \in Nat /\ MaxTxn \in Nat /\ BackoffCap \in Nat \ {0, 1} /\ WordSize \in Nat \ {0}
  /\ RereadFails \in BOOLEAN
\* waited_us has 32 bits.  If the last sleep, which starts before the time-out
\* and takes at most 2 * (BackoffCap - 1), can make it wrap, wait_for_txn may go
\* on for ever.
ASSUME TimeoutsAssumption == \A t \in Timeouts : t + 2 * (BackoffCap - 1) <= WordSize

VARIABLES
  records,   \* the symbol in the file, as of the last commit
  metas,     \* the two meta pages in the file
  mem,       \* active meta page of each handle, as the handle has it in memory
  writer,    \* the handle in a transaction
  draft,     \* the symbol inside the transaction
  asked,     \* the user metadata the transaction has been asked for so far
  agreed,    \* the user metadata of the last commit, as its writer asked for it
  call,      \* the call each handle is in
  known      \* the counter each follower has seen last; what it has read since
             \* it saw it, and whether that has changed after it was read

vars == <<records, metas, mem, writer, draft, asked, agreed, call, known>>

UserMeta == [UserKeys -> Lengths \cup {0}]
Metas == [txn : Nat, user : UserMeta]
ASSUME TornAssumption == Torn \notin Metas

\* The valid meta page with the higher txn_id.
ActiveOf(pages) ==
  IF pages[1] = Torn \/ (pages[0] # Torn /\ pages[0].txn >= pages[1].txn) THEN 0 ELSE 1
ActiveMeta == ActiveOf(metas)
FromFile == [active |-> ActiveMeta, meta |-> metas[ActiveMeta]]
Txn == metas[ActiveMeta].txn

\* A call that has returned leaves its handle idle; the answer of
\* spike_db_max_time is looked at first.
Idle == [op |-> "idle"]
Calls ==
  {Idle}
  \cup [op : {"write"}, at : {"records", "metas", "refused"}]
  \cup [op : {"wait"}, asleep : BOOLEAN, timeout : Timeouts,
        waited : 0 .. WordSize - 1, backoff : 1 .. 2 * BackoffCap]
  \cup [op : {"max"}, first : SUBSET Times]
  \cup [op : {"max told"}, first : SUBSET Times, second : SUBSET Times,
        status : {"OK", "NOT_FOUND"}, time : Nat]

------------------------------------------------------------------------------
\* db_refresh_meta: a handle that knows this slot and this txn_id keeps the
\* meta page it has in memory.
Synced(h) ==
  IF mem[h].active = ActiveMeta /\ mem[h].meta.txn = Txn THEN mem[h] ELSE FromFile

\* A call that reads, from file_lock to file_unlock.
Reads(h) == writer = NoHandle /\ mem' = [mem EXCEPT ![h] = Synced(h)]
Becomes(h, c) == call' = [call EXCEPT ![h] = c]

Copies == {"unread", "good", "stale"}
Unknown == [txn |-> 0, records |-> "unread", user |-> "unread"]
Aged(copy, same) == IF copy = "good" /\ ~same THEN "stale" ELSE copy

Init ==
  /\ records = {}
  /\ metas = [i \in 0 .. 1 |-> [txn |-> 1 - i, user |-> [k \in UserKeys |-> 0]]]
  /\ mem = [h \in Handles |-> FromFile]
  /\ writer = NoHandle /\ draft = {} /\ asked = metas[0].user /\ agreed = asked
  /\ call = [h \in Handles |-> Idle]
  /\ known = [h \in Followers |-> Unknown]

------------------------------------------------------------------------------
(* Followers.                                                              *)

\* spike_db_wait_for_txn with the counter the follower saw last.
StartWait(h, t) ==
  /\ call[h] = Idle
  /\ Becomes(h, [op |-> "wait", asleep |-> FALSE, timeout |-> t, waited |-> 0, backoff |-> 1])
  /\ UNCHANGED <<records, metas, mem, writer, draft, asked, agreed, known>>

Waiting(h) == call[h].op = "wait"
Expired(c) == c.waited >= c.timeout

\* One turn of its loop: spike_db_txn_id, which waits for the writer.  It
\* returns OK with a new counter, NOT_FOUND when its time is up, or sleeps; ...
Poll(h) ==
  /\ Waiting(h) /\ ~call[h].asleep /\ Reads(h)
  /\ LET t == mem'[h].meta.txn
     IN \/ /\ t # known[h].txn
           /\ Becomes(h, Idle)
           /\ known' = [known EXCEPT ![h] = [Unknown EXCEPT !.txn = t]]
        \/ /\ t = known[h].txn
           /\ Becomes(h, IF Expired(call[h]) THEN Idle
                         ELSE [call[h] EXCEPT !.asleep = TRUE])
           /\ UNCHANGED known
  /\ UNCHANGED <<records, metas, writer, draft, asked, agreed>>

\* ... which may fail: the call returns ERROR, ...
PollFails(h) ==
  /\ Waiting(h) /\ ~call[h].asleep
  /\ Becomes(h, Idle)
  /\ UNCHANGED <<records, metas, mem, writer, draft, asked, agreed, known>>

BugSlept(c) ==   \* counts only the sleeps that double the next one
  [c EXCEPT !.asleep = FALSE,
            !.waited = IF c.backoff < BackoffCap THEN (@ + c.backoff) % WordSize ELSE @,
            !.backoff = IF @ < BackoffCap THEN 2 * @ ELSE @]

\* ... and the sleep, after which it has waited so much longer.
Slept(c) ==
  [c EXCEPT !.asleep = FALSE,
            !.waited = (@ + c.backoff) % WordSize,
            !.backoff = IF @ < BackoffCap THEN 2 * @ ELSE @]
Sleep(h) ==
  /\ Waiting(h) /\ call[h].asleep
  /\ Becomes(h, Slept(call[h]))
  /\ UNCHANGED <<records, metas, mem, writer, draft, asked, agreed, known>>

\* The follower looks at the symbol: spike_db_max_times, one lock.
ReadRecords(h) ==
  /\ call[h] = Idle /\ Reads(h)
  /\ known' = [known EXCEPT ![h].records = "good"]
  /\ UNCHANGED <<records, metas, writer, draft, asked, agreed, call>>

\* spike_db_get_meta, for all keys, each under its lock.
ReadUser(h) ==
  /\ call[h] = Idle /\ Reads(h)
  /\ known' = [known EXCEPT ![h].user = IF mem'[h].meta.user = agreed THEN "good" ELSE "stale"]
  /\ UNCHANGED <<records, metas, writer, draft, asked, agreed, call>>

\* max_time in the root page
TopTime(S) == IF S = {} THEN 0 ELSE Max(S)

\* spike_db_max_time: max_time under one lock, and if that is 0, ...
MaxFirst(h) ==
  /\ call[h] = Idle /\ Reads(h)
  /\ Becomes(h, IF TopTime(records) = 0 THEN [op |-> "max", first |-> records]
                ELSE [op |-> "max told", first |-> records, second |-> records,
                      status |-> "OK", time |-> TopTime(records)])
  /\ UNCHANGED <<records, metas, writer, draft, asked, agreed, known>>

BugIsEmpty(S) == FALSE   \* takes the 0 of an empty symbol for a time
IsEmpty(S) == S = {}

\* ... record_count under another one.
MaxSecond(h) ==
  /\ call[h].op = "max" /\ Reads(h)
  /\ Becomes(h, [op |-> "max told", first |-> call[h].first, second |-> records,
                 status |-> IF IsEmpty(records) THEN "NOT_FOUND" ELSE "OK", time |-> 0])
  /\ UNCHANGED <<records, metas, writer, draft, asked, agreed, known>>

Return(h) ==
  /\ call[h].op = "max told"
  /\ Becomes(h, Idle)
  /\ UNCHANGED <<records, metas, mem, writer, draft, asked, agreed, known>>

------------------------------------------------------------------------------
(* Writers: spike_db_write_ex.                                             *)

\* The exclusive lock, db_refresh_meta and txn_begin.
BeginWrite(h) ==
  /\ call[h] = Idle /\ Reads(h)
  /\ writer' = h
  /\ Becomes(h, [op |-> "write", at |-> "records"])
  /\ draft' = records /\ asked' = agreed
  /\ UNCHANGED <<records, metas, agreed, known>>

At(h, stage) == writer = h /\ call[h].at = stage

\* The entries of the batch, ...
WriteRecords(h, S) ==
  /\ At(h, "records")
  /\ draft' = S
  /\ Becomes(h, [op |-> "write", at |-> "metas"])
  /\ UNCHANGED <<records, metas, mem, writer, asked, agreed, known>>

\* An entry is as long as its value and takes one more for the key.
Room(user) == Capacity - SumFunction([k \in UserKeys |-> IF user[k] = 0 THEN 0 ELSE 1 + user[k]])

BugSetUser(user, k, v) ==   \* room for the new entry next to the old one
  LET erased == [user EXCEPT ![k] = 0]
  IN IF v = 0 THEN [user |-> erased, full |-> FALSE]
     ELSE IF 1 + v > Room(user) THEN [user |-> user, full |-> FALSE]
     ELSE [user |-> [erased EXCEPT ![k] = v], full |-> FALSE]

\* meta_kv_set: the old entry goes first, whether the new one fits or not.
SetUser(user, k, v) ==
  LET erased == [user EXCEPT ![k] = 0]
  IN IF v > 0 /\ 1 + v > Room(erased)
     THEN [user |-> erased, full |-> TRUE]
     ELSE [user |-> [erased EXCEPT ![k] = v], full |-> FALSE]

\* ... and its user metadata, in the handle's own active meta page.
WriteUser(h, k, v) ==
  /\ At(h, "metas")
  /\ LET s == SetUser(mem[h].meta.user, k, v)
     IN /\ mem' = [mem EXCEPT ![h].meta.user = s.user]
        /\ Becomes(h, [op |-> "write", at |-> IF s.full THEN "refused" ELSE "metas"])
  /\ asked' = [asked EXCEPT ![k] = v]
  /\ UNCHANGED <<records, metas, writer, draft, agreed, known>>

BugTarget(h) == mem[h].active
\* The meta page a commit writes: the one that is not in use.
Target(h) == 1 - mem[h].active

BugNextMeta(h) ==   \* user metadata alone does not count as a commit
  IF draft = records THEN mem[h].meta ELSE [mem[h].meta EXCEPT !.txn = @ + 1]
NextMeta(h) == [mem[h].meta EXCEPT !.txn = @ + 1]

\* txn_commit_ex as far as the other handles can tell.  When only the fsync
\* after the meta page fails, the writer is told ERROR although the batch is
\* there, and txn_discard adopts the page it finds in the file, or leaves the
\* handle on the old one when it cannot be read.
Commit(h, status) ==
  /\ At(h, "metas") /\ Txn < MaxTxn
  /\ metas' = [metas EXCEPT ![Target(h)] = NextMeta(h)]
  /\ \/ mem' = [mem EXCEPT ![h] = [active |-> Target(h), meta |-> NextMeta(h)]]
     \/ status = "ERROR" /\ RereadFails /\ UNCHANGED mem
  /\ records' = draft /\ agreed' = asked
  /\ writer' = NoHandle /\ Becomes(h, Idle)
  /\ known' = [f \in Followers |->
       [known[f] EXCEPT !.records = Aged(@, draft = records), !.user = Aged(@, asked = agreed)]]
  /\ UNCHANGED <<draft, asked>>

BugReread(h, pages) == mem[h]
\* What txn_discard leaves the handle with: the meta page in the file.
Reread(h, pages) == [active |-> ActiveOf(pages), meta |-> pages[ActiveOf(pages)]]

Discard(h) ==
  /\ writer = h
  /\ \/ mem' = [mem EXCEPT ![h] = Reread(h, metas')]
     \/ RereadFails /\ UNCHANGED mem
  /\ writer' = NoHandle /\ Becomes(h, Idle)
  /\ draft' = records /\ asked' = agreed
  /\ UNCHANGED <<records, agreed, known>>

\* A refused entry, no room for user metadata, a page that cannot be read,
\* or a commit that fails before its meta page.
Rollback(h) == UNCHANGED metas /\ Discard(h)

\* The meta page does not reach the file in full.
TornCommit(h) ==
  /\ At(h, "metas")
  /\ metas' = [metas EXCEPT ![Target(h)] = Torn]
  /\ Discard(h)

EndWrite(h) == Rollback(h) \/ TornCommit(h) \/ Commit(h, "OK") \/ Commit(h, "ERROR")

\* The process dies, which ends its call and releases its lock; the next one
\* opens the file without taking the lock.
Crash(h) ==
  /\ mem' = [mem EXCEPT ![h] = FromFile]
  /\ IF writer = h THEN writer' = NoHandle /\ draft' = records /\ asked' = agreed
     ELSE UNCHANGED <<writer, draft, asked>>
  /\ Becomes(h, Idle)
  /\ known' = [f \in Followers |-> IF f = h THEN Unknown ELSE known[f]]
  /\ UNCHANGED <<records, metas, agreed>>

Next ==
  \/ \E h \in Followers :
       \/ Poll(h) \/ PollFails(h) \/ Sleep(h) \/ ReadRecords(h) \/ ReadUser(h)
       \/ MaxFirst(h) \/ MaxSecond(h) \/ Return(h)
       \/ \E t \in Timeouts : StartWait(h, t)
  \/ \E h \in Writers :
       \/ BeginWrite(h) \/ EndWrite(h)
       \/ \E S \in SUBSET Times : WriteRecords(h, S)
       \/ \E k \in UserKeys, v \in Lengths \cup {0} : WriteUser(h, k, v)
  \/ \E h \in Handles : Crash(h)

\* A sleep ends, a transaction ends, and the operating system, which queues
\* the requests for the file lock, does not pass a waiting one over for ever.
\* Nothing makes a follower call, a writer write or a process die.
Fairness ==
  /\ \A h \in Followers : WF_vars(Sleep(h)) /\ SF_vars(Poll(h))
  /\ \A h \in Writers : WF_vars(EndWrite(h))

Spec == Init /\ [][Next]_vars /\ Fairness

------------------------------------------------------------------------------
(* What has to hold.                                                       *)

\* Types.
TypeOK ==
  /\ records \in SUBSET Times /\ draft \in SUBSET Times
  /\ metas \in [0 .. 1 -> Metas \cup {Torn}] /\ metas[ActiveMeta] # Torn
  /\ mem \in [Handles -> [active : 0 .. 1, meta : Metas]]
  /\ writer \in Handles \cup {NoHandle}
  /\ asked \in UserMeta /\ agreed \in UserMeta
  /\ call \in [Handles -> Calls]
  /\ known \in [Followers -> [txn : Nat, records : Copies, user : Copies]]

\* A follower may skip all work while the counter is the one it has seen:
\* whatever it has read since it saw it is still what the file has, with user
\* metadata alone in a batch, failed and torn commits and crashes in between.
UnchangedMeansUnchanged ==
  \A h \in Followers :
    known[h].txn = Txn => known[h].records # "stale" /\ known[h].user # "stale"

\* The ingest position in the file is the one the last commit asked for, and
\* every handle that takes its own meta page for the current one has that one
\* in memory: nothing of a batch that was refused, torn or killed.
PositionExact ==
  /\ metas[ActiveMeta].user = agreed
  /\ \A h \in Handles \ {writer} : Synced(h).meta.user = agreed

\* spike_db_max_time tells a time the symbol really had as its last one, and
\* NOT_FOUND of a symbol that was empty, at one of its two looks at it.  The
\* first record of a symbol, put between the two, is the exception: the
\* answer is then OK with time 0.
FilledBetween(c) == c.first = {} /\ c.second # {}
MaxTimeTrue ==
  \A h \in Followers : LET c == call[h] IN
    c.op = "max told" /\ ~FilledBetween(c) =>
      IF c.status = "OK" THEN \E S \in {c.first, c.second} : S # {} /\ c.time = Max(S)
      ELSE {} \in {c.first, c.second}

\* The counter never goes back, also when a meta page is torn or a process
\* dies, and what the file holds changes only together with it.
CounterMonotonic ==
  [][/\ Txn' >= Txn
     /\ <<records, metas[ActiveMeta].user>>' # <<records, metas[ActiveMeta].user>>
          => Txn' > Txn]_vars

\* spike_db_wait_for_txn returns, whatever writers do meanwhile.
WaitReturns == \A h \in Followers : Waiting(h) ~> ~Waiting(h)
==============================================================================
