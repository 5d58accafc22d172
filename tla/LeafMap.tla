------------------------------ MODULE LeafMap ------------------------------
(***************************************************************************)
(* What the index of a symbol promises the code that walks its leaves: a   *)
(* map from leaf pages to the first key of each, with distinct keys, that  *)
(* changes as leaves come, lose their first record and go.                 *)
(***************************************************************************)
EXTENDS Integers

CONSTANTS
  Leaves,  \* ids of leaf pages
  Keys,    \* the (time, seq) pairs, numbered in key order
  NoKey    \* the value of a leaf that is not in the index

VARIABLE index

Init == index = [l \in Leaves |-> NoKey]

(* The steps, from a map `was` to a map `now`. *)

Indexed(was) == {l \in Leaves : was[l] # NoKey}

Add(was, now, l, k) ==
  /\ l \notin Indexed(was) /\ \A m \in Indexed(was) : was[m] # k
  /\ now = [was EXCEPT ![l] = k]

\* The first key of a leaf moves up, past no other leaf.
Advance(was, now, l, k) ==
  /\ l \in Indexed(was) /\ was[l] < k
  /\ \A m \in Indexed(was) : was[m] > was[l] => was[m] > k
  /\ now = [was EXCEPT ![l] = k]

Remove(was, now, l) == l \in Indexed(was) /\ now = [was EXCEPT ![l] = NoKey]

\* Every leaf in front of leaf l goes, and l may lose its first records.
CutBefore(was, now, l, k) ==
  /\ l \in Indexed(was) /\ was[l] <= k
  /\ \A m \in Indexed(was) : was[m] > was[l] => was[m] > k
  /\ now = [m \in Leaves |-> IF m = l THEN k
                            ELSE IF m \in Indexed(was) /\ was[m] > k THEN was[m]
                            ELSE NoKey]

Clear(now) == now = [l \in Leaves |-> NoKey]

Change(was, now) ==
  \/ \E l \in Leaves, k \in Keys :
       Add(was, now, l, k) \/ Advance(was, now, l, k) \/ CutBefore(was, now, l, k)
  \/ \E l \in Leaves : Remove(was, now, l)
  \/ Clear(now)

\* Bound by \E, each map is evaluated once per step: what takes its place in a
\* refinement may be long to read off.
Next == \E was \in {index}, now \in {index'} : Change(was, now)

Spec == Init /\ [][Next]_index
==============================================================================
