---------------------------- MODULE FollowProofs ----------------------------
(***************************************************************************)
(* The commit counter and the user metadata, for any number of handles,    *)
(* times, keys and commits.                                                *)
(***************************************************************************)
EXTENDS Follow, FiniteSetTheorems, WellFoundedInduction, TLAPS

\* A nonempty set of naturals has a least element.
LEMMA LeastElement ==
  ASSUME NEW S \in SUBSET Nat, S # {}
  PROVE  \E x \in S : \A y \in S : x <= y
<1>1. \E x \in S : \A y \in S : ~(<<y, x>> \in OpToRel(<, Nat))
  BY NatLessThanWellFounded, WFMin
<1>2. PICK x \in S : \A y \in S : ~(<<y, x>> \in OpToRel(<, Nat))
  BY <1>1
<1>3. \A y \in S : ~(y < x)
  BY <1>2 DEF OpToRel
<1> QED BY <1>3

\* A nonempty finite set of naturals has a greatest element: the one with the
\* fewest elements above it.
LEMMA GreatestElement ==
  ASSUME NEW S \in SUBSET Nat, S # {}, IsFiniteSet(S)
  PROVE  \E x \in S : \A y \in S : y <= x
<1> DEFINE Above(x) == {y \in S : x < y}
           Counts == {Cardinality(Above(x)) : x \in S}
<1>1. \A x \in S : IsFiniteSet(Above(x)) /\ Cardinality(Above(x)) \in Nat
  BY FS_Subset, FS_CardinalityType
<1>2. PICK n \in Counts : \A m \in Counts : n <= m
  <2>1. Counts # {} /\ Counts \in SUBSET Nat
    BY <1>1
  <2> HIDE DEF Counts
  <2> QED BY <2>1, LeastElement
<1>3. PICK x \in S : n = Cardinality(Above(x))
  OBVIOUS
<1>4. ASSUME NEW z \in S, x < z PROVE FALSE
  <2> DEFINE A == Above(z)
             B == Above(x)
  <2>1. A \cup {z} \in SUBSET B /\ z \notin A
    <3>1. x \in Nat /\ z \in Nat
      OBVIOUS
    <3>2. \A y \in A : y \in S /\ x < y
      BY <1>4, <3>1
    <3>3. z \notin A /\ z \in B
      BY <1>4, <3>1
    <3>4. \A y \in A : y \in B
      BY <3>2
    <3> HIDE DEF A, B
    <3> QED BY <3>3, <3>4
  <2>2. /\ IsFiniteSet(A) /\ Cardinality(A) \in Nat
        /\ IsFiniteSet(B) /\ Cardinality(B) = n /\ n \in Nat
    BY <1>1, <1>3
  <2>3. n <= Cardinality(A)
    BY <1>2
  <2> HIDE DEF A, B
  <2>4. Cardinality(A \cup {z}) = Cardinality(A) + 1
    BY <2>1, <2>2, FS_AddElement
  <2>5. Cardinality(A \cup {z}) <= n
    BY <2>1, <2>2, FS_Subset
  <2> QED BY <2>2, <2>3, <2>4, <2>5
<1>5. \A y \in S : y <= x
  BY <1>4
<1> QED BY <1>5

\* A call is a write exactly while its handle is the one in a transaction.
WriterHolds == \A h \in Handles : call[h].op = "write" <=> writer = h

\* The meta page a transaction works on is the active one, and tells what
\* the transaction has been asked for as long as nothing was refused.
WriterCurrent ==
  writer \in Handles =>
    /\ mem[writer].active = ActiveMeta /\ mem[writer].meta.txn = Txn
    /\ call[writer].at # "refused" => mem[writer].meta.user = asked

\* Nobody has a counter in memory that the file has not reached.
NobodyAhead ==
  /\ \A h \in Handles : mem[h].meta.txn <= Txn
  /\ \A f \in Followers : known[f].txn <= Txn

IInv ==
  /\ TypeOK /\ WriterHolds /\ WriterCurrent /\ NobodyAhead
  /\ PositionExact /\ UnchangedMeansUnchanged

------------------------------------------------------------------------------
(* The meta page in use.                                                   *)

LEMMA ActiveType == ASSUME TypeOK PROVE ActiveMeta \in 0 .. 1 /\ metas[ActiveMeta] \in Metas
                                       /\ Txn \in Nat /\ metas[ActiveMeta].user \in UserMeta
<1>1. ActiveMeta \in 0 .. 1
  BY DEF ActiveMeta, ActiveOf
<1>2. metas[ActiveMeta] \in Metas
  BY <1>1 DEF TypeOK
<1> QED BY <1>1, <1>2 DEF Metas, Txn

\* A handle that looks at the file ends up with the active meta page's
\* counter.
LEMMA SyncedFacts ==
  ASSUME TypeOK, NEW h \in Handles
  PROVE  /\ Synced(h) \in [active : 0 .. 1, meta : Metas]
         /\ Synced(h).active = ActiveMeta /\ Synced(h).meta.txn = Txn
<1>1. CASE mem[h].active = ActiveMeta /\ mem[h].meta.txn = Txn
  BY <1>1 DEF Synced, TypeOK
<1>2. CASE ~(mem[h].active = ActiveMeta /\ mem[h].meta.txn = Txn)
  BY <1>2, ActiveType DEF Synced, FromFile, Txn
<1> QED BY <1>1, <1>2

\* A meta page with a higher counter in the other slot becomes the active
\* one; ...
LEMMA ActiveAfterCommit ==
  ASSUME TypeOK, NEW m \in Metas, m.txn > Txn,
         metas' = [metas EXCEPT ![1 - ActiveMeta] = m]
  PROVE  ActiveMeta' = 1 - ActiveMeta /\ metas'[ActiveMeta'] = m /\ Txn' = m.txn
<1>1. CASE ActiveMeta = 0
  <2>1. metas'[1] = m /\ metas'[0] = metas[0]
    BY <1>1 DEF TypeOK
  <2>2. m # Torn /\ ~(metas[0].txn >= m.txn)
    BY <1>1, TornAssumption, ActiveType DEF Txn, Metas
  <2>3. ActiveOf(metas') = 1
    BY <2>1, <2>2 DEF ActiveOf
  <2> QED BY <1>1, <2>1, <2>3 DEF ActiveMeta, Txn
<1>2. CASE ActiveMeta = 1
  <2>1. metas'[0] = m /\ metas'[1] = metas[1]
    BY <1>2 DEF TypeOK
  <2>2. m # Torn /\ m.txn >= metas[1].txn
    BY <1>2, TornAssumption, ActiveType DEF Txn, Metas
  <2>3. ActiveOf(metas') = 0
    BY <2>1, <2>2 DEF ActiveOf
  <2> QED BY <1>2, <2>1, <2>3 DEF ActiveMeta, Txn
<1> QED BY <1>1, <1>2, ActiveType

\* ... a torn one does not.
LEMMA ActiveAfterTear ==
  ASSUME TypeOK, metas' = [metas EXCEPT ![1 - ActiveMeta] = Torn]
  PROVE  ActiveMeta' = ActiveMeta /\ metas'[ActiveMeta'] = metas[ActiveMeta] /\ Txn' = Txn
<1>0. metas[ActiveMeta] # Torn
  BY DEF TypeOK
<1>1. CASE ActiveMeta = 0
  <2>1. metas'[1] = Torn /\ metas'[0] = metas[0]
    BY <1>1 DEF TypeOK
  <2>2. ActiveOf(metas') = 0
    BY <2>1 DEF ActiveOf
  <2> QED BY <1>1, <2>1, <2>2 DEF ActiveMeta, Txn
<1>2. CASE ActiveMeta = 1
  <2>1. metas'[0] = Torn /\ metas'[1] = metas[1]
    BY <1>2 DEF TypeOK
  <2>2. ActiveOf(metas') = 1
    BY <1>0, <1>2, <2>1 DEF ActiveOf
  <2> QED BY <1>2, <2>1, <2>2 DEF ActiveMeta, Txn
<1> QED BY <1>1, <1>2, ActiveType

\* An entry goes into the user metadata, or the metadata without the old
\* entry is left.
LEMMA SetUserFacts ==
  ASSUME NEW user \in UserMeta, NEW k \in UserKeys, NEW v \in Lengths \cup {0}
  PROVE  /\ SetUser(user, k, v).user \in UserMeta /\ SetUser(user, k, v).full \in BOOLEAN
         /\ ~SetUser(user, k, v).full => SetUser(user, k, v).user = [user EXCEPT ![k] = v]
         /\ [user EXCEPT ![k] = v] \in UserMeta
<1> DEFINE erased == [user EXCEPT ![k] = 0]
<1>1. erased \in UserMeta /\ [erased EXCEPT ![k] = v] = [user EXCEPT ![k] = v]
  BY DEF UserMeta
<1>2. [user EXCEPT ![k] = v] \in UserMeta
  BY DEF UserMeta
<1>3. CASE v > 0 /\ 1 + v > Room(erased)
  BY <1>1, <1>2, <1>3 DEF SetUser
<1>4. CASE ~(v > 0 /\ 1 + v > Room(erased))
  BY <1>1, <1>2, <1>4 DEF SetUser
<1> QED BY <1>3, <1>4

LEMMA TopTimeType == ASSUME NEW S \in SUBSET Times PROVE TopTime(S) \in Nat
                                      /\ (S # {} => TopTime(S) = Max(S) /\ Max(S) \in S)
<1>1. CASE S = {}
  BY <1>1 DEF TopTime
<1>2. CASE S # {}
  <2>1. IsFiniteSet(S) /\ S \in SUBSET Nat
    BY SizesAssumption, FS_Subset
  <2>2. \E x \in S : \A y \in S : x >= y
    <3>1. PICK x \in S : \A y \in S : y <= x
      BY <1>2, <2>1, GreatestElement
    <3> QED BY <2>1, <3>1
  <2>3. Max(S) \in S
    BY <2>2 DEF Max
  <2> QED BY <1>2, <2>1, <2>3 DEF TopTime
<1> QED BY <1>1, <1>2

------------------------------------------------------------------------------
(* What a call that reads does to the handle it runs on.                   *)

LEMMA ReadFacts ==
  ASSUME IInv, NEW h \in Handles, Reads(h)
  PROVE  /\ mem' = [mem EXCEPT ![h] = Synced(h)]
         /\ mem' \in [Handles -> [active : 0 .. 1, meta : Metas]]
         /\ mem'[h].active = ActiveMeta /\ mem'[h].meta.txn = Txn
         /\ mem'[h].meta.user = agreed
         /\ \A g \in Handles : mem'[g].meta.txn <= Txn
<1>1. mem' = [mem EXCEPT ![h] = Synced(h)] /\ writer = NoHandle
  BY DEF Reads
<1>2. Synced(h) \in [active : 0 .. 1, meta : Metas]
      /\ Synced(h).active = ActiveMeta /\ Synced(h).meta.txn = Txn
  BY SyncedFacts DEF IInv
<1>3. Synced(h).meta.user = agreed
  BY <1>1, NamesAssumption DEF IInv, PositionExact
<1>4. mem' \in [Handles -> [active : 0 .. 1, meta : Metas]] /\ mem'[h] = Synced(h)
      /\ \A g \in Handles \ {h} : mem'[g] = mem[g]
  BY <1>1, <1>2 DEF IInv, TypeOK
<1>5. \A g \in Handles : mem'[g].meta.txn <= Txn
  BY <1>2, <1>4, ActiveType DEF IInv, NobodyAhead
<1> QED BY <1>1, <1>2, <1>3, <1>4, <1>5

\* The active meta page stays as it is, and every handle but the writer's keeps its meta
\* page or takes the active one: the position stays exact.
LEMMA PositionKept ==
  ASSUME IInv, ActiveMeta' = ActiveMeta, metas'[ActiveMeta'] = metas[ActiveMeta],
         agreed' = agreed,
         \A g \in Handles : \/ mem'[g] = mem[g] /\ g # writer
                            \/ mem'[g].meta.user = agreed
                            \/ g = writer'
  PROVE  PositionExact'
<1>1. ActiveMeta' = ActiveMeta /\ Txn' = Txn /\ metas'[ActiveMeta'] = metas[ActiveMeta]
      /\ agreed' = agreed
  BY DEF Txn
<1>2. metas'[ActiveMeta'].user = agreed'
  BY <1>1 DEF IInv, PositionExact
<1>3. ASSUME NEW g \in Handles, g # writer' PROVE Synced(g)'.meta.user = agreed'
  <2>1. CASE mem'[g].active = ActiveMeta /\ mem'[g].meta.txn = Txn
    <3>1. Synced(g)' = mem'[g]
      BY <1>1, <2>1 DEF Synced
    <3>2. CASE mem'[g] = mem[g] /\ g # writer
      <4>1. Synced(g) = mem[g] /\ Synced(g).meta.user = agreed
        BY <2>1, <3>2 DEF Synced, IInv, PositionExact
      <4> QED BY <1>1, <3>1, <3>2, <4>1
    <3>3. CASE mem'[g].meta.user = agreed
      BY <1>1, <3>1, <3>3
    <3> QED BY <1>3, <3>2, <3>3
  <2>2. CASE ~(mem'[g].active = ActiveMeta /\ mem'[g].meta.txn = Txn)
    <3>1. Synced(g)' = FromFile'
      BY <1>1, <2>2 DEF Synced
    <3> QED BY <1>2, <3>1 DEF FromFile
  <2> QED BY <2>1, <2>2
<1> QED BY <1>2, <1>3 DEF PositionExact

\* A step of a follower that leaves the file alone keeps the invariant.
LEMMA FollowerStep ==
  ASSUME IInv, NEW h \in Followers,
         UNCHANGED <<records, metas, writer, draft, asked, agreed>>,
         Reads(h) \/ UNCHANGED mem,
         NEW c \in Calls, c.op # "write", call[h].op # "write", call' = [call EXCEPT ![h] = c],
         NEW n \in [txn : Nat, records : Copies, user : Copies],
         known' = [known EXCEPT ![h] = n],
         n.txn <= Txn, n.txn = Txn => n.records # "stale" /\ n.user # "stale"
  PROVE  IInv'
<1>0. h \in Handles
  BY DEF Handles
<1>1. ActiveMeta' = ActiveMeta /\ Txn' = Txn
  BY DEF ActiveMeta, Txn
<1>2. writer # h
  BY <1>0 DEF IInv, WriterHolds
<1>3. /\ mem' \in [Handles -> [active : 0 .. 1, meta : Metas]]
      /\ \A g \in Handles : mem'[g].meta.txn <= Txn
      /\ \A g \in Handles : mem'[g] = mem[g] \/ (g = h /\ mem'[g].meta.user = agreed)
  <2>1. CASE Reads(h)
    BY <1>0, <2>1, ReadFacts DEF IInv, TypeOK
  <2>2. CASE UNCHANGED mem
    BY <2>2 DEF IInv, TypeOK, NobodyAhead
  <2> QED BY <2>1, <2>2
<1>4. TypeOK'
  BY <1>1, <1>3 DEF IInv, TypeOK
<1>5. WriterHolds'
  BY <1>0, <1>2 DEF IInv, TypeOK, WriterHolds
<1>6. WriterCurrent'
  <2>1. writer \in Handles => mem'[writer] = mem[writer] /\ call'[writer] = call[writer]
    BY <1>2, <1>3 DEF IInv, TypeOK
  <2> QED BY <1>1, <2>1 DEF IInv, WriterCurrent
<1>7. NobodyAhead'
  BY <1>1, <1>3 DEF IInv, TypeOK, NobodyAhead
<1>8. PositionExact'
  BY <1>1, <1>3, PositionKept
<1>9. UnchangedMeansUnchanged'
  BY <1>1 DEF IInv, TypeOK, UnchangedMeansUnchanged
<1> QED BY <1>4, <1>5, <1>6, <1>7, <1>8, <1>9 DEF IInv

------------------------------------------------------------------------------
(* The initial states, and the followers' steps.                           *)

\* A file that spike_db_open has formatted satisfies the invariant.
LEMMA InitInv == Init => IInv
<1> SUFFICES ASSUME Init PROVE IInv
  OBVIOUS
<1> DEFINE nothing == [k \in UserKeys |-> 0]
<1>1. nothing \in UserMeta /\ metas \in [0 .. 1 -> Metas]
      /\ metas[0] = [txn |-> 1, user |-> nothing] /\ metas[1] = [txn |-> 0, user |-> nothing]
  BY DEF Init, UserMeta, Metas
<1>2. ActiveMeta = 0 /\ metas[ActiveMeta] # Torn /\ Txn = 1
  BY <1>1, TornAssumption DEF ActiveMeta, ActiveOf, Txn
<1>3. FromFile = [active |-> 0, meta |-> metas[0]]
  BY <1>2 DEF FromFile
<1>4. Idle \in Calls /\ Idle.op = "idle"
  BY DEF Idle, Calls
<1>5. Unknown \in [txn : Nat, records : Copies, user : Copies]
  BY DEF Unknown, Copies
<1>6. asked = nothing /\ agreed = nothing
  BY <1>1 DEF Init
<1>7. mem \in [Handles -> [active : 0 .. 1, meta : Metas]] /\ \A h \in Handles : mem[h] = FromFile
  BY <1>1, <1>3 DEF Init
<1>8. TypeOK
  BY <1>1, <1>2, <1>4, <1>5, <1>6, <1>7 DEF Init, TypeOK
<1>9. WriterHolds /\ WriterCurrent
  BY <1>4, NamesAssumption DEF Init, WriterHolds, WriterCurrent
<1>10. NobodyAhead
  BY <1>1, <1>2, <1>3, <1>7 DEF Init, NobodyAhead, Unknown
<1>11. PositionExact
  BY <1>1, <1>2, <1>3, <1>6, <1>7 DEF PositionExact, Synced
<1>12. UnchangedMeansUnchanged
  BY DEF Init, UnchangedMeansUnchanged, Unknown
<1> QED BY <1>8, <1>9, <1>10, <1>11, <1>12 DEF IInv

\* The calls differ in their first field.
LEMMA OpsDiffer ==
  ASSUME NEW c \in Calls
  PROVE  /\ c.op = "wait" => c \in [op : {"wait"}, asleep : BOOLEAN, timeout : Timeouts,
                                    waited : 0 .. WordSize - 1, backoff : 1 .. 2 * BackoffCap]
         /\ c.op = "max" => c \in [op : {"max"}, first : SUBSET Times]
         /\ c.op = "write" => c \in [op : {"write"}, at : {"records", "metas", "refused"}]
<1>1. CASE c = Idle
  BY <1>1 DEF Idle
<1>2. CASE c \in [op : {"write"}, at : {"records", "metas", "refused"}]
  <2>1. c.op = "write"
    BY <1>2
  <2> QED BY <1>2, <2>1
<1>3. CASE c \in [op : {"wait"}, asleep : BOOLEAN, timeout : Timeouts,
                   waited : 0 .. WordSize - 1, backoff : 1 .. 2 * BackoffCap]
  <2>1. c.op = "wait"
    BY <1>3
  <2> QED BY <1>3, <2>1
<1>4. CASE c \in [op : {"max"}, first : SUBSET Times]
  <2>1. c.op = "max"
    BY <1>4
  <2> QED BY <1>4, <2>1
<1>5. CASE c \in [op : {"max told"}, first : SUBSET Times, second : SUBSET Times,
                   status : {"OK", "NOT_FOUND"}, time : Nat]
  <2>1. c.op = "max told"
    BY <1>5
  <2> QED BY <2>1
<1> QED BY <1>1, <1>2, <1>3, <1>4, <1>5 DEF Calls

\* What wait_for_txn has in hand after one more sleep is still a state it can
\* be in: waited_us wraps.
LEMMA SleptType ==
  ASSUME NEW c \in Calls, c.op = "wait", c.asleep
  PROVE  Slept(c) \in Calls /\ Slept(c).op = "wait"
<1> DEFINE waits == [op : {"wait"}, asleep : BOOLEAN, timeout : Timeouts,
                     waited : 0 .. WordSize - 1, backoff : 1 .. 2 * BackoffCap]
<1>1. c \in waits
  BY OpsDiffer
<1>2. (c.waited + c.backoff) % WordSize \in 0 .. WordSize - 1
  BY <1>1, SizesAssumption
<1>3. (IF c.backoff < BackoffCap THEN 2 * c.backoff ELSE c.backoff) \in 1 .. 2 * BackoffCap
  BY <1>1, SizesAssumption
<1>4. Slept(c).op = "wait"
  BY <1>1 DEF Slept
<1>5. Slept(c) \in waits
  <2> DEFINE w == (c.waited + c.backoff) % WordSize
             b == IF c.backoff < BackoffCap THEN 2 * c.backoff ELSE c.backoff
  <2>1. Slept(c) = [c EXCEPT !.asleep = FALSE, !.waited = w, !.backoff = b]
    BY DEF Slept
  <2>2. w \in 0 .. WordSize - 1 /\ b \in 1 .. 2 * BackoffCap
    BY <1>2, <1>3
  <2> HIDE DEF w, b
  <2> QED BY <1>1, <2>1, <2>2
<1> HIDE DEF waits
<1>6. waits \subseteq Calls
  BY DEF waits, Calls
<1> QED BY <1>4, <1>5, <1>6

\* What a follower knows, and the call it is in, where a step leaves them be.
LEMMA SameKnown ==
  ASSUME IInv, NEW h \in Followers
  PROVE  /\ h \in Handles /\ call[h] \in Calls /\ call = [call EXCEPT ![h] = call[h]]
         /\ known[h] \in [txn : Nat, records : Copies, user : Copies]
         /\ known = [known EXCEPT ![h] = known[h]]
         /\ known[h].txn <= Txn
         /\ known[h].txn = Txn => known[h].records # "stale" /\ known[h].user # "stale"
BY DEF IInv, TypeOK, NobodyAhead, UnchangedMeansUnchanged, Handles

\* The steps of a follower keep the invariant, one by one.
LEMMA StartWaitInv ==
  ASSUME IInv, NEW h \in Followers, NEW t \in Timeouts, StartWait(h, t) PROVE IInv'
<1> DEFINE c == [op |-> "wait", asleep |-> FALSE, timeout |-> t, waited |-> 0, backoff |-> 1]
<1>1. c \in Calls /\ c.op # "write"
  <2>1. 0 \in 0 .. WordSize - 1 /\ 1 \in 1 .. 2 * BackoffCap
    BY SizesAssumption
  <2> QED BY <2>1 DEF Calls
<1>2. call' = [call EXCEPT ![h] = c] /\ call[h].op # "write"
  BY DEF StartWait, Becomes, Idle
<1>3. UNCHANGED <<records, metas, mem, writer, draft, asked, agreed, known>>
  BY DEF StartWait
<1> HIDE DEF c
<1> QED BY <1>1, <1>2, <1>3, SameKnown, FollowerStep

\* spike_db_txn_id and what spike_db_wait_for_txn makes of it.
LEMMA PollInv == ASSUME IInv, NEW h \in Followers, Poll(h) PROVE IInv'
<1>0. h \in Handles /\ Reads(h) /\ UNCHANGED <<records, metas, writer, draft, asked, agreed>>
      /\ call[h].op = "wait" /\ call[h] \in Calls /\ ~call[h].asleep
  BY SameKnown DEF Poll, Waiting
<1>1. mem'[h].meta.txn = Txn
  BY <1>0, ReadFacts
<1>2. Idle \in Calls /\ Idle.op # "write"
  BY DEF Idle, Calls
<1>3. CASE /\ Becomes(h, Idle)
           /\ known' = [known EXCEPT ![h] = [Unknown EXCEPT !.txn = mem'[h].meta.txn]]
  <2> DEFINE n == [Unknown EXCEPT !.txn = Txn]
  <2>1. n = [txn |-> Txn, records |-> "unread", user |-> "unread"] /\ Txn \in Nat
    BY ActiveType DEF Unknown, IInv
  <2>2. n \in [txn : Nat, records : Copies, user : Copies] /\ n.txn <= Txn
        /\ n.records # "stale" /\ n.user # "stale"
    BY <2>1 DEF Copies
  <2>3. known' = [known EXCEPT ![h] = n] /\ call' = [call EXCEPT ![h] = Idle]
    BY <1>1, <1>3 DEF Becomes
  <2> HIDE DEF n
  <2> QED BY <1>0, <1>2, <2>2, <2>3, FollowerStep
<1>4. CASE /\ Becomes(h, IF Expired(call[h]) THEN Idle ELSE [call[h] EXCEPT !.asleep = TRUE])
           /\ UNCHANGED known
  <2> DEFINE c == IF Expired(call[h]) THEN Idle ELSE [call[h] EXCEPT !.asleep = TRUE]
  <2>1. [call[h] EXCEPT !.asleep = TRUE] \in Calls /\ [call[h] EXCEPT !.asleep = TRUE].op = "wait"
    BY <1>0 DEF Calls, Idle
  <2>2. c \in Calls /\ c.op # "write" /\ call' = [call EXCEPT ![h] = c]
    BY <1>2, <1>4, <2>1 DEF Becomes
  <2> HIDE DEF c
  <2> QED BY <1>0, <1>4, <2>2, SameKnown, FollowerStep
<1> QED BY <1>3, <1>4 DEF Poll

\* spike_db_txn_id fails, or a call returns its answer.
LEMMA EndOfCallInv ==
  ASSUME IInv, NEW h \in Followers, PollFails(h) \/ Return(h) PROVE IInv'
<1>1. Idle \in Calls /\ Idle.op # "write" /\ call[h].op # "write"
      /\ call' = [call EXCEPT ![h] = Idle]
  BY DEF PollFails, Return, Waiting, Becomes, Idle, Calls
<1>2. UNCHANGED <<records, metas, mem, writer, draft, asked, agreed, known>>
  BY DEF PollFails, Return
<1> QED BY <1>1, <1>2, SameKnown, FollowerStep

\* The sleep.
LEMMA SleepInv == ASSUME IInv, NEW h \in Followers, Sleep(h) PROVE IInv'
<1>1. call[h] \in Calls /\ call[h].op = "wait" /\ call[h].asleep
      /\ call' = [call EXCEPT ![h] = Slept(call[h])]
  BY SameKnown DEF Sleep, Waiting, Becomes
<1>2. Slept(call[h]) \in Calls /\ Slept(call[h]).op = "wait"
  BY <1>1, SleptType
<1>3. UNCHANGED <<records, metas, mem, writer, draft, asked, agreed, known>>
  BY DEF Sleep
<1> QED BY <1>1, <1>2, <1>3, SameKnown, FollowerStep

\* spike_db_max_times.
LEMMA ReadRecordsInv == ASSUME IInv, NEW h \in Followers, ReadRecords(h) PROVE IInv'
<1> DEFINE n == [known[h] EXCEPT !.records = "good"]
<1>1. n \in [txn : Nat, records : Copies, user : Copies]
      /\ n.txn <= Txn /\ (n.txn = Txn => n.records # "stale" /\ n.user # "stale")
      /\ known' = [known EXCEPT ![h] = n]
  <2>1. known[h] \in [txn : Nat, records : Copies, user : Copies]
    BY SameKnown
  <2>2. n.txn = known[h].txn /\ n.records = "good" /\ n.user = known[h].user
        /\ n \in [txn : Nat, records : Copies, user : Copies]
    BY <2>1 DEF Copies
  <2> QED BY <2>2, SameKnown DEF ReadRecords
<1>2. UNCHANGED <<records, metas, writer, draft, asked, agreed, call>> /\ Reads(h)
      /\ call[h].op # "write"
  BY DEF ReadRecords, Idle
<1> HIDE DEF n
<1> QED BY <1>1, <1>2, SameKnown, FollowerStep

\* spike_db_get_meta: what it reads is the metadata of the last commit.
LEMMA ReadUserInv == ASSUME IInv, NEW h \in Followers, ReadUser(h) PROVE IInv'
<1> DEFINE n == [known[h] EXCEPT !.user = "good"]
<1>0. mem'[h].meta.user = agreed
  BY SameKnown, ReadFacts DEF ReadUser
<1>1. n \in [txn : Nat, records : Copies, user : Copies]
      /\ n.txn <= Txn /\ (n.txn = Txn => n.records # "stale" /\ n.user # "stale")
      /\ known' = [known EXCEPT ![h] = n]
  <2>1. known[h] \in [txn : Nat, records : Copies, user : Copies]
    BY SameKnown
  <2>2. n.txn = known[h].txn /\ n.user = "good" /\ n.records = known[h].records
        /\ n \in [txn : Nat, records : Copies, user : Copies]
    BY <2>1 DEF Copies
  <2> QED BY <1>0, <2>2, SameKnown DEF ReadUser
<1>2. UNCHANGED <<records, metas, writer, draft, asked, agreed, call>> /\ Reads(h)
      /\ call[h].op # "write"
  BY DEF ReadUser, Idle
<1> HIDE DEF n
<1> QED BY <1>1, <1>2, SameKnown, FollowerStep

\* The two looks of spike_db_max_time.
LEMMA MaxInv == ASSUME IInv, NEW h \in Followers, MaxFirst(h) \/ MaxSecond(h) PROVE IInv'
<1>0. h \in Handles /\ call[h] \in Calls /\ records \in SUBSET Times /\ TopTime(records) \in Nat
  BY SameKnown, TopTimeType DEF IInv, TypeOK
<1>1. UNCHANGED <<records, metas, writer, draft, asked, agreed, known>> /\ Reads(h)
      /\ (call[h] = Idle \/ call[h].op = "max")
  BY Zenon DEF MaxFirst, MaxSecond
<1>3. call[h].op # "write"
  BY <1>1 DEF Idle
<1>2. \E c \in Calls : c.op # "write" /\ call' = [call EXCEPT ![h] = c]
  <2>1. CASE MaxFirst(h)
    <3>1. [op |-> "max", first |-> records] \in Calls
      BY <1>0 DEF Calls
    <3>2. [op |-> "max told", first |-> records, second |-> records,
           status |-> "OK", time |-> TopTime(records)] \in Calls
      BY <1>0 DEF Calls
    <3> QED BY <2>1, <3>1, <3>2 DEF MaxFirst, Becomes
  <2>2. CASE MaxSecond(h)
    <3>1. call[h].first \in SUBSET Times
      BY <1>0, <2>2, OpsDiffer DEF MaxSecond
    <3>2. \A s \in {"OK", "NOT_FOUND"} :
            [op |-> "max told", first |-> call[h].first, second |-> records,
             status |-> s, time |-> 0] \in Calls
      BY <1>0, <3>1 DEF Calls
    <3> QED BY <2>2, <3>2 DEF MaxSecond, Becomes
  <2> QED BY <2>1, <2>2
<1> QED BY <1>1, <1>2, <1>3, SameKnown, FollowerStep

------------------------------------------------------------------------------
(* The writers' steps.                                                     *)

\* A writer's handle, its call and its meta page.
LEMMA WriterFacts ==
  ASSUME IInv, NEW h \in Handles, writer = h
  PROVE  /\ call[h] \in [op : {"write"}, at : {"records", "metas", "refused"}]
         /\ mem[h].active = ActiveMeta /\ mem[h].meta \in Metas /\ mem[h].meta.txn = Txn
         /\ call[h].at # "refused" => mem[h].meta.user = asked
         /\ NoHandle \notin Handles
<1>1. call[h].op = "write" /\ call[h] \in Calls
  BY DEF IInv, TypeOK, WriterHolds
<1>2. mem[h].active = ActiveMeta /\ mem[h].meta.txn = Txn /\ mem[h].meta \in Metas
      /\ (call[h].at # "refused" => mem[h].meta.user = asked)
  BY DEF IInv, TypeOK, WriterCurrent
<1> QED BY <1>1, <1>2, OpsDiffer, NamesAssumption

\* The stages of a write are calls.
LEMMA WriteCalls ==
  \A s \in {"records", "metas", "refused"} :
    [op |-> "write", at |-> s] \in Calls
BY DEF Calls

\* The lock, db_refresh_meta and txn_begin: the transaction starts from what
\* the file has.
LEMMA BeginWriteInv == ASSUME IInv, NEW h \in Writers, BeginWrite(h) PROVE IInv'
<1>0. h \in Handles
  BY DEF Handles
<1>1. /\ Reads(h) /\ writer = NoHandle /\ writer' = h
      /\ call' = [call EXCEPT ![h] = [op |-> "write", at |-> "records"]]
      /\ draft' = records /\ asked' = agreed
      /\ UNCHANGED <<records, metas, agreed, known>>
  BY DEF BeginWrite, Becomes, Reads
<1>2. /\ mem' \in [Handles -> [active : 0 .. 1, meta : Metas]]
      /\ mem'[h].active = ActiveMeta /\ mem'[h].meta.txn = Txn /\ mem'[h].meta.user = agreed
      /\ \A g \in Handles : mem'[g].meta.txn <= Txn
      /\ \A g \in Handles \ {h} : mem'[g] = mem[g]
  BY <1>0, <1>1, ReadFacts DEF IInv, TypeOK
<1>3. ActiveMeta' = ActiveMeta /\ Txn' = Txn
  BY <1>1 DEF ActiveMeta, Txn
<1>4. /\ call' \in [Handles -> Calls] /\ call'[h].op = "write"
      /\ \A g \in Handles \ {h} : call'[g] = call[g] /\ call[g].op # "write"
  BY <1>0, <1>1, WriteCalls, NamesAssumption DEF IInv, TypeOK, WriterHolds
<1>5. TypeOK'
  BY <1>0, <1>1, <1>2, <1>3, <1>4 DEF IInv, TypeOK
<1>6. WriterHolds'
  BY <1>1, <1>4 DEF WriterHolds
<1>7. WriterCurrent' /\ NobodyAhead'
  BY <1>1, <1>2, <1>3 DEF IInv, WriterCurrent, NobodyAhead
<1>8. PositionExact'
  <2>1. \A g \in Handles : \/ mem'[g] = mem[g] /\ g # writer
                           \/ mem'[g].meta.user = agreed
    BY <1>1, <1>2, NamesAssumption
  <2> QED BY <1>1, <1>3, <2>1, PositionKept
<1>9. UnchangedMeansUnchanged'
  BY <1>1, <1>3 DEF IInv, UnchangedMeansUnchanged
<1> QED BY <1>5, <1>6, <1>7, <1>8, <1>9 DEF IInv

\* A step inside the transaction: the writer's own meta page and what it has
\* been asked for move together until an entry is refused.
LEMMA InsideStep ==
  ASSUME IInv, NEW h \in Handles, writer = h,
         UNCHANGED <<records, metas, writer, agreed, known>>,
         draft' \in SUBSET Times, asked' \in UserMeta,
         NEW s \in {"records", "metas", "refused"},
         call' = [call EXCEPT ![h] = [op |-> "write", at |-> s]],
         NEW u \in UserMeta, mem' = [mem EXCEPT ![h].meta.user = u],
         s # "refused" => u = asked'
  PROVE  IInv'
<1>1. ActiveMeta' = ActiveMeta /\ Txn' = Txn /\ metas'[ActiveMeta'] = metas[ActiveMeta]
  BY DEF ActiveMeta, Txn
<1>2. mem[h] \in [active : 0 .. 1, meta : Metas] /\ mem[h].active = ActiveMeta
      /\ mem[h].meta.txn = Txn
  BY WriterFacts DEF IInv, TypeOK
<1>3. /\ mem' \in [Handles -> [active : 0 .. 1, meta : Metas]]
      /\ mem'[h].active = ActiveMeta /\ mem'[h].meta.txn = Txn /\ mem'[h].meta.user = u
      /\ \A g \in Handles \ {h} : mem'[g] = mem[g]
  <2>1. mem'[h] = [mem[h] EXCEPT !.meta.user = u] /\ mem' = [mem EXCEPT ![h] = mem'[h]]
        /\ \A g \in Handles \ {h} : mem'[g] = mem[g]
    BY DEF IInv, TypeOK
  <2>2. mem'[h] \in [active : 0 .. 1, meta : Metas] /\ mem'[h].active = ActiveMeta
        /\ mem'[h].meta.txn = Txn /\ mem'[h].meta.user = u
    BY <1>2, <2>1 DEF Metas
  <2>3. mem' \in [Handles -> [active : 0 .. 1, meta : Metas]]
    BY <2>1, <2>2 DEF IInv, TypeOK
  <2> QED BY <2>1, <2>2, <2>3
<1>4. /\ call' \in [Handles -> Calls] /\ call'[h] = [op |-> "write", at |-> s]
      /\ \A g \in Handles \ {h} : call'[g] = call[g]
  BY WriteCalls DEF IInv, TypeOK
<1>5. TypeOK'
  BY <1>1, <1>3, <1>4 DEF IInv, TypeOK
<1>6. WriterHolds'
  BY <1>4 DEF IInv, WriterHolds
<1>7. WriterCurrent'
  BY <1>1, <1>3, <1>4 DEF WriterCurrent
<1>8. NobodyAhead'
  BY <1>1, <1>3, ActiveType DEF IInv, NobodyAhead
<1>9. PositionExact'
  BY <1>1, <1>3, PositionKept
<1>10. UnchangedMeansUnchanged'
  BY <1>1 DEF IInv, UnchangedMeansUnchanged
<1> QED BY <1>5, <1>6, <1>7, <1>8, <1>9, <1>10 DEF IInv

\* The entries of the batch.
LEMMA WriteRecordsInv ==
  ASSUME IInv, NEW h \in Writers, NEW S \in SUBSET Times, WriteRecords(h, S) PROVE IInv'
<1>0. h \in Handles /\ asked \in UserMeta
  BY DEF Handles, IInv, TypeOK
<1>1. /\ writer = h /\ call[h].at = "records" /\ draft' = S
      /\ call' = [call EXCEPT ![h] = [op |-> "write", at |-> "metas"]]
      /\ UNCHANGED <<records, metas, mem, writer, asked, agreed, known>>
  BY DEF WriteRecords, At, Becomes
<1>2. mem[h].meta.user = asked
  BY <1>0, <1>1, WriterFacts
<1>3. mem' = [mem EXCEPT ![h].meta.user = asked]
  BY <1>0, <1>1, <1>2 DEF IInv, TypeOK, Metas
<1> QED BY <1>0, <1>1, <1>3, InsideStep

\* An entry of the user metadata.
LEMMA WriteUserInv ==
  ASSUME IInv, NEW h \in Writers, NEW k \in UserKeys, NEW v \in Lengths \cup {0},
         WriteUser(h, k, v)
  PROVE  IInv'
<1> DEFINE s == SetUser(mem[h].meta.user, k, v)
           stage == IF s.full THEN "refused" ELSE "metas"
<1>0. h \in Handles /\ draft \in SUBSET Times
  BY DEF Handles, IInv, TypeOK
<1>1. /\ writer = h /\ call[h].at = "metas"
      /\ mem' = [mem EXCEPT ![h].meta.user = s.user]
      /\ call' = [call EXCEPT ![h] = [op |-> "write", at |-> stage]]
      /\ asked' = [asked EXCEPT ![k] = v]
      /\ UNCHANGED <<records, metas, writer, draft, agreed, known>>
  BY DEF WriteUser, At, Becomes
<1>2. mem[h].meta.user = asked /\ mem[h].meta.user \in UserMeta
  BY <1>0, <1>1, WriterFacts DEF Metas
<1>3. /\ s.user \in UserMeta /\ s.full \in BOOLEAN /\ asked' \in UserMeta
      /\ ~s.full => s.user = asked'
  BY <1>1, <1>2, SetUserFacts
<1>4. stage \in {"records", "metas", "refused"} /\ (stage # "refused" => s.user = asked')
  BY <1>3
<1> HIDE DEF s, stage
<1> QED BY <1>0, <1>1, <1>3, <1>4, InsideStep

\* The commit: the new meta page has a counter nobody has yet.
LEMMA CommitFacts ==
  ASSUME IInv, NEW h \in Writers, At(h, "metas"),
         metas' = [metas EXCEPT ![Target(h)] = NextMeta(h)]
  PROVE  /\ h \in Handles /\ NextMeta(h) = [txn |-> Txn + 1, user |-> asked]
         /\ NextMeta(h) \in Metas /\ Target(h) \in 0 .. 1
         /\ ActiveMeta' = Target(h) /\ metas'[ActiveMeta'] = NextMeta(h)
         /\ Txn' = Txn + 1 /\ Txn \in Nat
<1>0. h \in Handles /\ writer = h /\ call[h].at = "metas"
  BY DEF Handles, At
<1>1. mem[h].active = ActiveMeta /\ mem[h].meta \in Metas /\ mem[h].meta.txn = Txn
      /\ mem[h].meta.user = asked
  BY <1>0, WriterFacts
<1>2. NextMeta(h) = [txn |-> Txn + 1, user |-> asked]
  BY <1>1 DEF NextMeta, Metas
<1>3. Txn \in Nat /\ asked \in UserMeta /\ ActiveMeta \in 0 .. 1
  BY ActiveType DEF IInv, TypeOK
<1>4. NextMeta(h) \in Metas /\ NextMeta(h).txn > Txn /\ NextMeta(h).txn = Txn + 1
  BY <1>2, <1>3 DEF Metas
<1>5. Target(h) = 1 - ActiveMeta /\ Target(h) \in 0 .. 1
  BY <1>1, <1>3 DEF Target
<1>6. ActiveMeta' = 1 - ActiveMeta /\ metas'[ActiveMeta'] = NextMeta(h)
      /\ Txn' = NextMeta(h).txn
  BY <1>4, <1>5, ActiveAfterCommit DEF IInv
<1> QED BY <1>0, <1>2, <1>3, <1>4, <1>5, <1>6

LEMMA CommitInv ==
  ASSUME IInv, NEW h \in Writers, NEW status, Commit(h, status) PROVE IInv'
<1> DEFINE n == NextMeta(h)
<1>1. /\ At(h, "metas") /\ metas' = [metas EXCEPT ![Target(h)] = n]
      /\ \/ mem' = [mem EXCEPT ![h] = [active |-> Target(h), meta |-> n]]
         \/ UNCHANGED mem
      /\ records' = draft /\ agreed' = asked /\ writer' = NoHandle
      /\ call' = [call EXCEPT ![h] = Idle]
      /\ known' = [f \in Followers |->
           [known[f] EXCEPT !.records = Aged(known[f].records, draft = records),
                            !.user = Aged(known[f].user, asked = agreed)]]
      /\ UNCHANGED <<draft, asked>>
  BY DEF Commit, Becomes
<1>2. /\ h \in Handles /\ writer = h
      /\ n = [txn |-> Txn + 1, user |-> asked] /\ n \in Metas /\ Target(h) \in 0 .. 1
      /\ ActiveMeta' = Target(h) /\ metas'[ActiveMeta'] = n
      /\ Txn' = Txn + 1 /\ Txn \in Nat
  BY <1>1, CommitFacts DEF At
<1> HIDE DEF n
<1>n. n.txn = Txn + 1 /\ n.user = asked /\ n.user = agreed'
  BY <1>1, <1>2
<1>3. /\ mem' \in [Handles -> [active : 0 .. 1, meta : Metas]]
      /\ \A g \in Handles : \/ mem'[g] = [active |-> ActiveMeta', meta |-> n]
                            \/ mem'[g] = mem[g] /\ mem'[g].meta.txn <= Txn
  <2>1. mem \in [Handles -> [active : 0 .. 1, meta : Metas]]
        /\ \A g \in Handles : mem[g].meta.txn <= Txn
    BY DEF IInv, TypeOK, NobodyAhead
  <2>2. CASE mem' = [mem EXCEPT ![h] = [active |-> Target(h), meta |-> n]]
    <3>1. [active |-> Target(h), meta |-> n] \in [active : 0 .. 1, meta : Metas]
      BY <1>2
    <3>2. /\ mem'[h] = [active |-> ActiveMeta', meta |-> n]
          /\ \A g \in Handles \ {h} : mem'[g] = mem[g]
          /\ mem' \in [Handles -> [active : 0 .. 1, meta : Metas]]
      BY <1>2, <2>1, <2>2, <3>1
    <3> QED BY <2>1, <3>2
  <2>3. CASE UNCHANGED mem
    BY <2>1, <2>3
  <2> QED BY <1>1, <2>2, <2>3
<1>4. /\ known' \in [Followers -> [txn : Nat, records : Copies, user : Copies]]
      /\ \A f \in Followers : known'[f].txn = known[f].txn /\ known[f].txn <= Txn
                              /\ known[f].txn \in Nat
  <2>1. \A f \in Followers :
          /\ known[f] \in [txn : Nat, records : Copies, user : Copies]
          /\ Aged(known[f].records, draft = records) \in Copies
          /\ Aged(known[f].user, asked = agreed) \in Copies
    BY DEF IInv, TypeOK, Aged, Copies
  <2> QED BY <1>1, <2>1 DEF IInv, NobodyAhead
<1>5. /\ call' \in [Handles -> Calls] /\ \A g \in Handles : call'[g].op # "write"
  BY <1>1, <1>2 DEF IInv, TypeOK, WriterHolds, Calls, Idle
<1>6. TypeOK'
  <2>1. metas' \in [0 .. 1 -> Metas \cup {Torn}] /\ metas'[ActiveMeta'] # Torn
    BY <1>1, <1>2, TornAssumption DEF IInv, TypeOK
  <2> QED BY <1>1, <1>3, <1>4, <1>5, <2>1 DEF IInv, TypeOK
<1>7. WriterHolds' /\ WriterCurrent'
  BY <1>1, <1>5, NamesAssumption DEF WriterHolds, WriterCurrent
<1>8. NobodyAhead'
  <2>1. \A g \in Handles : mem'[g].meta.txn <= Txn + 1
    <3> TAKE g \in Handles
    <3>1. CASE mem'[g] = [active |-> ActiveMeta', meta |-> n]
      BY <1>2, <3>1
    <3>2. CASE mem'[g] = mem[g] /\ mem'[g].meta.txn <= Txn
      BY <1>2, <1>3, <3>2 DEF Metas
    <3> QED BY <1>3, <3>1, <3>2
  <2> QED BY <1>2, <1>4, <2>1 DEF NobodyAhead
<1>9. PositionExact'
  <2>1. metas'[ActiveMeta'].user = agreed'
    BY <1>2, <1>n
  <2>2. FromFile'.meta.user = agreed'
    BY <2>1 DEF FromFile
  <2>3. \A g \in Handles : Synced(g)'.meta.user = agreed'
    <3> TAKE g \in Handles
    <3>1. CASE mem'[g] = [active |-> ActiveMeta', meta |-> n]
      BY <1>n, <2>2, <3>1 DEF Synced
    <3>2. CASE mem'[g].meta.txn <= Txn
      <4>1. mem'[g].meta.txn # Txn'
        BY <1>2, <1>3, <3>2 DEF Metas
      <4> QED BY <2>2, <4>1 DEF Synced
    <3> QED BY <1>3, <3>1, <3>2
  <2> QED BY <2>1, <2>3 DEF PositionExact
<1>10. UnchangedMeansUnchanged'
  BY <1>2, <1>4 DEF UnchangedMeansUnchanged
<1> QED BY <1>6, <1>7, <1>8, <1>9, <1>10 DEF IInv

\* A transaction that ends without its meta page, where the handle takes what
\* the file has.
LEMMA DiscardInv ==
  ASSUME IInv, ~RereadFails, NEW h \in Handles, Discard(h),
         metas' \in [0 .. 1 -> Metas \cup {Torn}],
         ActiveMeta' = ActiveMeta, metas'[ActiveMeta'] = metas[ActiveMeta], Txn' = Txn
  PROVE  IInv'
<1>1. /\ writer = h /\ writer' = NoHandle
      /\ mem' = [mem EXCEPT ![h] = FromFile]
      /\ call' = [call EXCEPT ![h] = Idle]
      /\ draft' = records /\ asked' = agreed
      /\ UNCHANGED <<records, agreed, known>>
  BY DEF Discard, Becomes, Reread, FromFile, ActiveMeta
<1>2. FromFile \in [active : 0 .. 1, meta : Metas] /\ FromFile.meta.txn = Txn
      /\ FromFile.meta.user = agreed
  BY ActiveType DEF FromFile, Txn, IInv, PositionExact
<1>3. /\ mem' \in [Handles -> [active : 0 .. 1, meta : Metas]]
      /\ mem'[h] = FromFile /\ \A g \in Handles \ {h} : mem'[g] = mem[g]
  BY <1>1, <1>2 DEF IInv, TypeOK
<1>4. /\ call' \in [Handles -> Calls] /\ \A g \in Handles : call'[g].op # "write"
  BY <1>1 DEF IInv, TypeOK, WriterHolds, Calls, Idle
<1>5. TypeOK'
  BY <1>1, <1>3, <1>4 DEF IInv, TypeOK
<1>6. WriterHolds' /\ WriterCurrent'
  BY <1>1, <1>4, NamesAssumption DEF WriterHolds, WriterCurrent
<1>7. NobodyAhead'
  BY <1>1, <1>2, <1>3, ActiveType DEF IInv, NobodyAhead
<1>8. PositionExact'
  BY <1>1, <1>2, <1>3, PositionKept
<1>9. UnchangedMeansUnchanged'
  BY <1>1 DEF IInv, UnchangedMeansUnchanged
<1> QED BY <1>5, <1>6, <1>7, <1>8, <1>9 DEF IInv

\* The meta page is not written at all, or written in part.
LEMMA EndWriteInv == ASSUME IInv, ~RereadFails, NEW h \in Writers, EndWrite(h) PROVE IInv'
<1>0. h \in Handles
  BY DEF Handles
<1>1. CASE Rollback(h)
  <2>1. Discard(h) /\ UNCHANGED metas
    BY <1>1 DEF Rollback
  <2>2. ActiveMeta' = ActiveMeta /\ metas'[ActiveMeta'] = metas[ActiveMeta] /\ Txn' = Txn
    BY <2>1 DEF ActiveMeta, Txn
  <2> QED BY <1>0, <2>1, <2>2, DiscardInv DEF IInv, TypeOK
<1>2. CASE TornCommit(h)
  <2>1. /\ writer = h /\ Discard(h) /\ metas' = [metas EXCEPT ![Target(h)] = Torn]
    BY <1>2 DEF TornCommit, At
  <2>2. Target(h) = 1 - ActiveMeta
    BY <1>0, <2>1, WriterFacts DEF Target
  <2>3. ActiveMeta' = ActiveMeta /\ metas'[ActiveMeta'] = metas[ActiveMeta] /\ Txn' = Txn
    BY <2>1, <2>2, ActiveAfterTear DEF IInv
  <2>4. metas' \in [0 .. 1 -> Metas \cup {Torn}]
    BY <2>1 DEF IInv, TypeOK
  <2> QED BY <1>0, <2>1, <2>3, <2>4, DiscardInv
<1>3. CASE Commit(h, "OK") \/ Commit(h, "ERROR")
  BY <1>3, CommitInv
<1> QED BY <1>1, <1>2, <1>3 DEF EndWrite

\* A process that dies loses its transaction and all it knew.
LEMMA CrashInv == ASSUME IInv, NEW h \in Handles, Crash(h) PROVE IInv'
<1>1. /\ mem' = [mem EXCEPT ![h] = FromFile]
      /\ IF writer = h THEN writer' = NoHandle /\ draft' = records /\ asked' = agreed
         ELSE UNCHANGED <<writer, draft, asked>>
      /\ call' = [call EXCEPT ![h] = Idle]
      /\ known' = [f \in Followers |-> IF f = h THEN Unknown ELSE known[f]]
      /\ UNCHANGED <<records, metas, agreed>>
  BY DEF Crash, Becomes
<1>2. FromFile \in [active : 0 .. 1, meta : Metas] /\ FromFile.meta.txn = Txn
      /\ FromFile.meta.user = agreed
  BY ActiveType DEF FromFile, Txn, IInv, PositionExact
<1>3. ActiveMeta' = ActiveMeta /\ metas'[ActiveMeta'] = metas[ActiveMeta] /\ Txn' = Txn
  BY <1>1 DEF ActiveMeta, Txn
<1>4. /\ mem' \in [Handles -> [active : 0 .. 1, meta : Metas]]
      /\ mem'[h] = FromFile /\ \A g \in Handles \ {h} : mem'[g] = mem[g]
  BY <1>1, <1>2 DEF IInv, TypeOK
<1>5. /\ call' \in [Handles -> Calls] /\ call'[h].op # "write"
      /\ \A g \in Handles \ {h} : call'[g] = call[g]
  BY <1>1 DEF IInv, TypeOK, Calls, Idle
<1>6. writer' # h /\ (writer' \in Handles => writer' = writer)
      /\ (writer # h => writer' = writer /\ asked' = asked)
      /\ draft' \in SUBSET Times /\ asked' \in UserMeta /\ writer' \in Handles \cup {NoHandle}
  BY <1>1, NamesAssumption DEF IInv, TypeOK
<1>7. /\ known' \in [Followers -> [txn : Nat, records : Copies, user : Copies]]
      /\ \A f \in Followers : known'[f] = Unknown \/ known'[f] = known[f]
  BY <1>1 DEF IInv, TypeOK, Unknown, Copies
<1>8. TypeOK'
  BY <1>1, <1>3, <1>4, <1>5, <1>6, <1>7 DEF IInv, TypeOK
<1>9. WriterHolds'
  BY <1>5, <1>6 DEF IInv, WriterHolds
<1>10. WriterCurrent'
  BY <1>3, <1>4, <1>5, <1>6 DEF IInv, WriterCurrent
<1>11. NobodyAhead'
  BY <1>2, <1>3, <1>4, <1>7, ActiveType DEF IInv, NobodyAhead, Unknown
<1>12. PositionExact'
  <2>1. \A g \in Handles : \/ mem'[g] = mem[g] /\ g # writer
                           \/ mem'[g].meta.user = agreed
                           \/ g = writer'
    BY <1>2, <1>4, <1>6
  <2> QED BY <1>1, <1>3, <2>1, PositionKept
<1>13. UnchangedMeansUnchanged'
  BY <1>3, <1>7 DEF IInv, UnchangedMeansUnchanged, Unknown
<1> QED BY <1>8, <1>9, <1>10, <1>11, <1>12, <1>13 DEF IInv

\* Every step keeps the invariant.
LEMMA StepInv == ASSUME IInv, ~RereadFails, [Next]_vars PROVE IInv'
<1>1. CASE UNCHANGED vars
  BY <1>1 DEF vars, IInv, TypeOK, WriterHolds, WriterCurrent, NobodyAhead, PositionExact,
              UnchangedMeansUnchanged, Synced, FromFile, ActiveMeta, Txn
<1>2. CASE Next
  <2>1. ASSUME NEW h \in Followers,
               \/ Poll(h) \/ PollFails(h) \/ Sleep(h) \/ ReadRecords(h) \/ ReadUser(h)
               \/ MaxFirst(h) \/ MaxSecond(h) \/ Return(h)
               \/ \E t \in Timeouts : StartWait(h, t)
        PROVE  IInv'
    BY <2>1, PollInv, EndOfCallInv, SleepInv, ReadRecordsInv, ReadUserInv, MaxInv, StartWaitInv
  <2>2. ASSUME NEW h \in Writers,
               \/ BeginWrite(h) \/ EndWrite(h)
               \/ \E S \in SUBSET Times : WriteRecords(h, S)
               \/ \E k \in UserKeys, v \in Lengths \cup {0} : WriteUser(h, k, v)
        PROVE  IInv'
    BY <2>2, BeginWriteInv, EndWriteInv, WriteRecordsInv, WriteUserInv
  <2>3. ASSUME NEW h \in Handles, Crash(h) PROVE IInv'
    BY <2>3, CrashInv
  <2> QED BY <1>2, <2>1, <2>2, <2>3 DEF Next
<1> QED BY <1>1, <1>2

------------------------------------------------------------------------------
(* Theorems.  txn_discard can read the meta pages again; what becomes of the *)
(* handle when it cannot is in README.md.                                    *)

\* Every behaviour stays within the invariant.
THEOREM Invariant == ASSUME ~RereadFails PROVE Spec => []IInv
<1>1. Init => IInv
  BY InitInv
<1>2. IInv /\ [Next]_vars => IInv'
  BY StepInv
<1> QED BY <1>1, <1>2, PTL DEF Spec

\* Every variable stays within its type: db_refresh_meta always finds a
\* meta page that is not torn.
THEOREM TypeAlwaysOK == ASSUME ~RereadFails PROVE Spec => []TypeOK
<1>1. IInv => TypeOK
  BY DEF IInv
<1> QED BY <1>1, Invariant, PTL

\* The ingest position a reader finds, in the file or in its own handle, is
\* the one the last commit asked for: nothing of a batch that was refused,
\* torn or killed is ever in it, and nothing of one that was committed is
\* missing.
THEOREM PositionAlwaysExact == ASSUME ~RereadFails PROVE Spec => []PositionExact
<1>1. IInv => PositionExact
  BY DEF IInv
<1> QED BY <1>1, Invariant, PTL

\* A follower that finds the counter it saw last may keep all it has read
\* since: every change of a symbol or of the user metadata moves the counter
\* past every number a follower can remember.
THEOREM UnchangedAlwaysMeansUnchanged ==
  ASSUME ~RereadFails PROVE Spec => []UnchangedMeansUnchanged
<1>1. IInv => UnchangedMeansUnchanged
  BY DEF IInv
<1> QED BY <1>1, Invariant, PTL

\* What one step does to the counter and to what it stands for.
Forward ==
  /\ Txn' >= Txn
  /\ <<records, metas[ActiveMeta].user>>' # <<records, metas[ActiveMeta].user>> => Txn' > Txn

\* A step moves the counter forward or leaves alone what it stands for.
LEMMA StepForward == ASSUME IInv, Next PROVE Forward
<1>0. Txn \in Nat
  BY ActiveType DEF IInv
<1>1. ASSUME UNCHANGED records, ActiveMeta' = ActiveMeta, Txn' = Txn,
             metas'[ActiveMeta'] = metas[ActiveMeta]
      PROVE  Forward
  BY <1>0, <1>1 DEF Forward
<1>2. ASSUME UNCHANGED records, UNCHANGED metas PROVE Forward
  <2>1. ActiveMeta' = ActiveMeta /\ Txn' = Txn
    BY <1>2 DEF ActiveMeta, Txn
  <2> QED BY <1>1, <1>2, <2>1
<1>3. ASSUME NEW h \in Followers,
             \/ Poll(h) \/ PollFails(h) \/ Sleep(h) \/ ReadRecords(h) \/ ReadUser(h)
             \/ MaxFirst(h) \/ MaxSecond(h) \/ Return(h)
             \/ \E t \in Timeouts : StartWait(h, t)
      PROVE  Forward
  BY <1>2, <1>3 DEF Poll, PollFails, Sleep, ReadRecords, ReadUser, MaxFirst, MaxSecond, Return,
                    StartWait
<1>4. ASSUME NEW h \in Writers,
             \/ BeginWrite(h)
             \/ \E S \in SUBSET Times : WriteRecords(h, S)
             \/ \E k \in UserKeys, v \in Lengths \cup {0} : WriteUser(h, k, v)
      PROVE  Forward
  BY <1>2, <1>4 DEF BeginWrite, WriteRecords, WriteUser
<1>5. ASSUME NEW h \in Handles, Crash(h) PROVE Forward
  BY <1>2, <1>5 DEF Crash
<1>6. ASSUME NEW h \in Writers, EndWrite(h) PROVE Forward
  <2>0. h \in Handles
    BY DEF Handles
  <2>1. CASE Rollback(h)
    BY <1>2, <2>1 DEF Rollback, Discard
  <2>2. CASE TornCommit(h)
    <3>1. writer = h /\ metas' = [metas EXCEPT ![Target(h)] = Torn] /\ UNCHANGED records
      BY <2>2 DEF TornCommit, At, Discard
    <3>2. Target(h) = 1 - ActiveMeta
      BY <2>0, <3>1, WriterFacts DEF Target
    <3> QED BY <1>1, <3>1, <3>2, ActiveAfterTear DEF IInv
  <2>3. ASSUME NEW s \in {"OK", "ERROR"}, Commit(h, s) PROVE Forward
    <3>1. Txn' = Txn + 1
      BY <2>3, CommitFacts DEF Commit
    <3> QED BY <1>0, <3>1 DEF Forward
  <2> QED BY <1>6, <2>1, <2>2, <2>3 DEF EndWrite
<1> QED BY <1>3, <1>4, <1>5, <1>6 DEF Next

\* The counter never goes back, over torn meta pages and dead processes, and
\* every change of a symbol or of the user metadata moves it.
THEOREM CounterAlwaysMonotonic == ASSUME ~RereadFails PROVE Spec => CounterMonotonic
<1>1. IInv /\ [Next]_vars => [Forward]_vars
  BY StepForward
<1>2. Spec => [][Forward]_vars
  BY <1>1, Invariant, PTL DEF Spec
<1>3. [Forward]_vars => [/\ Txn' >= Txn
                         /\ <<records, metas[ActiveMeta].user>>'
                               # <<records, metas[ActiveMeta].user>> => Txn' > Txn]_vars
  BY DEF Forward
<1> QED BY <1>2, <1>3, PTL DEF CounterMonotonic

------------------------------------------------------------------------------
(* spike_db_max_time.                                                      *)

\* What is true of one call.
SecondLookOf(c) == c.op = "max" => TopTime(c.first) = 0
AnswerTrue(c) ==
  c.op = "max told" /\ ~FilledBetween(c) =>
    IF c.status = "OK" THEN \E S \in {c.first, c.second} : S # {} /\ c.time = Max(S)
    ELSE {} \in {c.first, c.second}
CallTrue(c) == SecondLookOf(c) /\ AnswerTrue(c)

\* The first look tells the last time of a symbol, or leaves 0 to the second
\* look; ...
LEMMA FirstLookTrue ==
  ASSUME IInv, NEW h \in Handles, MaxFirst(h)
  PROVE  \E c : CallTrue(c) /\ call' = [call EXCEPT ![h] = c]
<1>0. records \in SUBSET Times
  BY DEF IInv, TypeOK
<1>1. CASE TopTime(records) = 0
  <2> DEFINE c == [op |-> "max", first |-> records]
  <2>1. CallTrue(c)
    BY <1>1 DEF CallTrue, SecondLookOf, AnswerTrue
  <2>2. call' = [call EXCEPT ![h] = c]
    BY <1>1 DEF MaxFirst, Becomes
  <2> HIDE DEF c
  <2> QED BY <2>1, <2>2
<1>2. CASE TopTime(records) # 0
  <2> DEFINE c == [op |-> "max told", first |-> records, second |-> records,
                   status |-> "OK", time |-> TopTime(records)]
  <2>1. records # {} /\ TopTime(records) = Max(records)
    BY <1>0, <1>2, TopTimeType DEF TopTime
  <2>2. CallTrue(c)
    BY <2>1 DEF CallTrue, SecondLookOf, AnswerTrue
  <2>3. call' = [call EXCEPT ![h] = c]
    BY <1>2 DEF MaxFirst, Becomes
  <2> HIDE DEF c
  <2> QED BY <2>2, <2>3
<1> QED BY <1>1, <1>2

\* ... which takes it for the time of a record or for no record.
LEMMA SecondLookTrue ==
  ASSUME IInv, NEW h \in Handles, MaxSecond(h), CallTrue(call[h])
  PROVE  \E c : CallTrue(c) /\ call' = [call EXCEPT ![h] = c]
<1> DEFINE first == call[h].first
           told(s) == [op |-> "max told", first |-> first, second |-> records,
                       status |-> s, time |-> 0]
<1>1. first \in SUBSET Times /\ TopTime(first) = 0
  <2>1. call[h] \in Calls /\ call[h].op = "max"
    BY DEF MaxSecond, IInv, TypeOK
  <2> QED BY <2>1, OpsDiffer DEF CallTrue, SecondLookOf
<1>2. CASE records = {}
  <2>1. CallTrue(told("NOT_FOUND"))
    BY <1>2 DEF CallTrue, SecondLookOf, AnswerTrue
  <2>2. call' = [call EXCEPT ![h] = told("NOT_FOUND")]
    BY <1>2 DEF MaxSecond, Becomes, IsEmpty
  <2> HIDE DEF told
  <2> QED BY <2>1, <2>2
<1>3. CASE records # {}
  <2>1. first # {} => Max(first) = 0
    BY <1>1, TopTimeType
  <2>2. CallTrue(told("OK"))
    BY <1>3, <2>1 DEF CallTrue, SecondLookOf, AnswerTrue, FilledBetween
  <2>3. call' = [call EXCEPT ![h] = told("OK")]
    BY <1>3 DEF MaxSecond, Becomes, IsEmpty
  <2> HIDE DEF told
  <2> QED BY <2>2, <2>3
<1> QED BY <1>2, <1>3

\* The other calls have no answer to be wrong.
LEMMA OtherCallsTrue ==
  ASSUME NEW c, c.op \in {"idle", "wait", "write"} PROVE CallTrue(c)
BY DEF CallTrue, SecondLookOf, AnswerTrue

\* A step changes at most one call, and leaves nothing wrong in it.
LEMMA CallStep ==
  ASSUME IInv, Next, \A h \in Handles : CallTrue(call[h])
  PROVE  (\A h \in Handles : CallTrue(call[h]))'
<1>0. call \in [Handles -> Calls]
  BY DEF IInv, TypeOK
<1>1. ASSUME NEW g \in Handles, \E c : CallTrue(c) /\ call' = [call EXCEPT ![g] = c]
      PROVE  \A h \in Handles : CallTrue(call'[h])
  BY <1>0, <1>1
<1>2. ASSUME NEW g \in Handles, call' = [call EXCEPT ![g] = Idle]
      PROVE  \A h \in Handles : CallTrue(call'[h])
  <2>1. CallTrue(Idle)
    BY OtherCallsTrue DEF Idle
  <2> QED BY <1>1, <1>2, <2>1
<1>3. ASSUME UNCHANGED call PROVE \A h \in Handles : CallTrue(call'[h])
  BY <1>3
<1>5. ASSUME NEW h \in Followers,
             \/ Poll(h) \/ PollFails(h) \/ Sleep(h) \/ ReadRecords(h) \/ ReadUser(h)
             \/ MaxFirst(h) \/ MaxSecond(h) \/ Return(h)
             \/ \E t \in Timeouts : StartWait(h, t)
      PROVE  \A g \in Handles : CallTrue(call'[g])
  <2>0. h \in Handles /\ call[h] \in Calls
    BY <1>0 DEF Handles
  <2>1. CASE Poll(h)
    <3> DEFINE nap == [call[h] EXCEPT !.asleep = TRUE]
    <3>1. nap.op = "wait"
      BY <2>0, <2>1, OpsDiffer DEF Poll, Waiting
    <3>2. \/ call' = [call EXCEPT ![h] = Idle]
          \/ call' = [call EXCEPT ![h] = nap]
      BY <2>1 DEF Poll, Becomes
    <3> HIDE DEF nap
    <3>3. CallTrue(nap)
      BY <3>1, OtherCallsTrue
    <3> QED BY <1>1, <1>2, <2>0, <3>2, <3>3
  <2>2. CASE PollFails(h) \/ Return(h)
    BY <1>2, <2>0, <2>2 DEF PollFails, Return, Becomes
  <2>3. CASE Sleep(h)
    <3>1. call' = [call EXCEPT ![h] = Slept(call[h])] /\ Slept(call[h]).op = "wait"
      BY <2>0, <2>3, SleptType DEF Sleep, Waiting, Becomes
    <3>2. CallTrue(Slept(call[h]))
      BY <3>1, OtherCallsTrue
    <3> QED BY <1>1, <2>0, <3>1, <3>2
  <2>4. CASE ReadRecords(h) \/ ReadUser(h)
    BY <1>3, <2>4 DEF ReadRecords, ReadUser
  <2>5. CASE MaxFirst(h) \/ MaxSecond(h)
    BY <1>1, <2>0, <2>5, FirstLookTrue, SecondLookTrue
  <2>6. ASSUME NEW t \in Timeouts, StartWait(h, t) PROVE \A g \in Handles : CallTrue(call'[g])
    <3> DEFINE w == [op |-> "wait", asleep |-> FALSE, timeout |-> t, waited |-> 0, backoff |-> 1]
    <3>1. call' = [call EXCEPT ![h] = w] /\ w.op = "wait"
      BY <2>6 DEF StartWait, Becomes
    <3> HIDE DEF w
    <3>2. CallTrue(w)
      BY <3>1, OtherCallsTrue
    <3> QED BY <1>1, <2>0, <3>1, <3>2
  <2> QED BY <1>5, <2>1, <2>2, <2>3, <2>4, <2>5, <2>6
<1>6. ASSUME NEW h \in Writers,
             \/ BeginWrite(h) \/ EndWrite(h)
             \/ \E S \in SUBSET Times : WriteRecords(h, S)
             \/ \E k \in UserKeys, v \in Lengths \cup {0} : WriteUser(h, k, v)
      PROVE  \A g \in Handles : CallTrue(call'[g])
  <2>0. h \in Handles
    BY DEF Handles
  <2>1. CASE EndWrite(h)
    <3>1. call' = [call EXCEPT ![h] = Idle]
      BY <2>1 DEF EndWrite, Rollback, TornCommit, Commit, Discard, Becomes
    <3> QED BY <1>2, <2>0, <3>1
  <2>2. CASE ~EndWrite(h)
    <3>1. \E s : call' = [call EXCEPT ![h] = [op |-> "write", at |-> s]]
      BY <1>6, <2>2 DEF BeginWrite, WriteRecords, WriteUser, Becomes
    <3>2. PICK s : call' = [call EXCEPT ![h] = [op |-> "write", at |-> s]]
      BY <3>1
    <3>3. CallTrue([op |-> "write", at |-> s])
      BY OtherCallsTrue
    <3> QED BY <1>1, <2>0, <3>2, <3>3
  <2> QED BY <2>1, <2>2
<1>7. ASSUME NEW h \in Handles, Crash(h) PROVE \A g \in Handles : CallTrue(call'[g])
  BY <1>2, <1>7 DEF Crash, Becomes
<1> QED BY <1>5, <1>6, <1>7 DEF Next

\* The time spike_db_max_time gives was the symbol's last one at one of the
\* two looks, and the symbol it calls empty was empty, unless the first record
\* of the symbol came between them.
THEOREM MaxTimeAlwaysTrue == ASSUME ~RereadFails PROVE Spec => []MaxTimeTrue
<1> DEFINE True == \A h \in Handles : CallTrue(call[h])
<1>1. Init => True
  BY OtherCallsTrue DEF Init, Idle
<1>2. IInv /\ True /\ [Next]_vars => True'
  BY CallStep DEF vars
<1>3. True => MaxTimeTrue
  BY DEF MaxTimeTrue, CallTrue, AnswerTrue, Handles
<1> QED BY <1>1, <1>2, <1>3, Invariant, PTL DEF Spec
==============================================================================
