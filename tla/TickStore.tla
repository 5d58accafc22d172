------------------------------ MODULE TickStore ------------------------------
(***************************************************************************)
(* What one symbol of a SpikeDB file promises its caller: a map from keys  *)
(* to values that changes by transactions.  A key stands for the pair      *)
(* (time, seq); keys are numbered in key order, SeqSpan of them to a       *)
(* timestamp.  A transaction works on `pending`; what other handles read   *)
(* is `store`, which only a commit changes.                                *)
(***************************************************************************)
EXTENDS Integers

CONSTANTS
  Keys,     \* the (time, seq) pairs, numbered in key order
  SeqSpan,  \* how many sequence numbers the numbering gives a timestamp
  Vals,     \* the payloads
  Absent    \* the value of a key that holds no record

VARIABLES store, pending

TimeOf(k) == k \div SeqSpan
Times == {TimeOf(k) : k \in Keys}
Empty == [k \in Keys |-> Absent]

Init == store = Empty /\ pending = Empty

\* A put: the last one wins.  One that the symbol refuses, as a duplicate
\* without SPIKEDB_PUT_OVERWRITE, is the Rollback of its transaction.
Put(k, v) == pending' = [pending EXCEPT ![k] = v] /\ UNCHANGED store

Delete(k) == pending' = [pending EXCEPT ![k] = Absent] /\ UNCHANGED store

\* truncate_before: every record below a time.
Truncate(cutoff) ==
  /\ pending' = [k \in Keys |-> IF TimeOf(k) < cutoff THEN Absent ELSE pending[k]]
  /\ store' = pending'

\* symbol_drop: every record.
Drop == pending' = Empty /\ store' = Empty

Commit == store' = pending /\ UNCHANGED pending
Rollback == pending' = store /\ UNCHANGED store

Next ==
  \/ \E k \in Keys, v \in Vals : Put(k, v)
  \/ \E k \in Keys : Delete(k)
  \/ \E cutoff \in Times : Truncate(cutoff)
  \/ Drop
  \/ Commit
  \/ Rollback

Spec == Init /\ [][Next]_<<store, pending>>
==============================================================================
