------------------------------ MODULE SkipList ------------------------------
(***************************************************************************)
(* The index of one symbol: a skip list whose nodes are packed into node   *)
(* pages and name one leaf page each.  LeafIndex takes a descent for the   *)
(* search of the greatest node key not above the target; here are the      *)
(* towers that make it so: descent, splice, unlink, the rebuild that       *)
(* truncate_before does level by level, and the packing of nodes.          *)
(*                                                                         *)
(* Of a leaf, only its first key is kept, in `firstKey`, and of the chain  *)
(* of leaves only its first one: which leaf stands behind which is         *)
(* LeafIndex's.  Every action is one call inside a transaction; a          *)
(* transaction that fails puts all the pages back (Pager), which is no     *)
(* step here.                                                              *)
(*                                                                         *)
(* The code gives a leaf's node a new key when the leaf loses its first    *)
(* record, not when it gets one in front of it, and it splits a leaf of    *)
(* one record into an empty leaf and one with the key of both.  AllWrites  *)
(* = FALSE leaves these writes out.                                        *)
(***************************************************************************)
EXTENDS Integers, FiniteSets, FiniteSetsExt

CONSTANTS
  Leaves,     \* ids of leaf pages
  NoLeaf,     \* SPIKEDB_INVALID_PAGE, as a leaf
  Keys,       \* the (time, seq) pairs, numbered in key order
  NodePages,  \* ids of node pages: with PageSlots it bounds the nodes
  NoPage,     \* SPIKEDB_INVALID_PAGE, as a node page
  PageSlots,  \* NODE_PAGE_CAPACITY
  MaxLevel,   \* SPIKEDB_MAX_LEVEL
  AllWrites   \* FALSE leaves out late records and splits of one record

NoKey == -1
Levels == 0 .. MaxLevel - 1
Heights == 1 .. MaxLevel                 \* what random_level may return
Nil == <<NoPage, 0>>                    \* NODE_REF_NIL
Refs == NodePages \X (1 .. PageSlots)   \* NODE_REF(page, slot)

ASSUME KeysAssumption == Keys \subseteq Nat /\ IsFiniteSet(Keys)
ASSUME PagesAssumption == IsFiniteSet(NodePages)
ASSUME NamesAssumption == NoLeaf \notin Leaves /\ NoPage \notin NodePages
ASSUME BoundsAssumption == PageSlots \in Nat \ {0} /\ MaxLevel \in Nat \ {0}
ASSUME WritesAssumption == AllWrites \in BOOLEAN

VARIABLES
  firstKey,  \* first key of each leaf on the chain, NoKey for other pages
  first,     \* first_leaf of the root page
  backRef,   \* skiplist_node_ref of each leaf
  head,      \* head_forward of the root page
  top,       \* current_max_level
  node,      \* the node in each slot of each node page
  pages,     \* used_count and next_node_page of the symbol's node pages
  current    \* current_node_page

vars == <<firstKey, first, backRef, head, top, node, pages, current>>

Nodes == [key : Keys, leaf : Leaves \cup {NoLeaf}, level : Heights,
          forward : [Levels -> Refs \cup {Nil}]]
Unused == [unused |-> TRUE]
LeftBehind == [leftBehind |-> TRUE]   \* a node no pointer leads to any more
NotTaken == [used |-> 0, next |-> NoPage]

\* The slots that hold a node, for nodes n.
Placed(n) == {r \in Refs : n[r] \notin {Unused, LeftBehind}}
Count(n) == Cardinality(Placed(n))
IsNode(r) == r \in Placed(node)

Live == {l \in Leaves : firstKey[l] # NoKey}
Before(l, m) == firstKey[l] < firstKey[m]

\* The leaf with the smallest first key.
LeastLeaf ==
  IF Live = {} THEN NoLeaf ELSE CHOOSE l \in Live : \A m \in Live : ~Before(m, l)

\* Key k is in front of all the leaves behind leaf l, as the records of l are
\* for as long as the leaves are in key order.
FitsIn(l, k) == \A m \in Live : Before(l, m) => k < firstKey[m]

------------------------------------------------------------------------------
(* Descent.                                                                *)

\* The node behind r on level i; Nil for r is the head.
Follow(h, n, r, i) == IF r = Nil THEN h[i] ELSE n[r].forward[i]
Forward(r, i) == Follow(head, node, r, i)

\* The turns of a walk on level i from r on, for head pointers h and nodes n,
\* that stops in front of the nodes S.  There are never more turns than nodes.
Walk(h, n, S, i, r) ==
  LET turn == [x \in Refs \cup {Nil} |->
                LET f == Follow(h, n, x, i) IN IF f = Nil \/ f \in S THEN x ELSE f]
      at[m \in 0 .. Count(n)] == IF m = 0 THEN r ELSE turn[at[m - 1]]
  IN at

\* The nodes on level i.
Linked(h, n, i) ==
  LET at == Walk(h, n, {}, i, Nil)
  IN {at[m] : m \in 0 .. Count(n)} \ {Nil}
OnLevel(i) == Linked(head, node, i)

\* The last node in front of S on level i, from r on.
LastBefore(S, i, r) == Walk(head, node, S, i, r)[Count(node)]

BugStopsAt(n, k, strict) == node[n].key >= k   \* in front of an equal key, always

\* A walk to k stops in front of node n.
StopsAt(n, k, strict) == IF strict THEN node[n].key >= k ELSE node[n].key > k

\* descend_ex: the last node in front of k on every level, and Nil for the
\* head and for the levels not in use.
Preds(k, strict) ==
  LET stops == {n \in Placed(node) : StopsAt(n, k, strict)}
      pred[i \in 0 .. MaxLevel] ==
        IF i >= top THEN Nil ELSE LastBefore(stops, i, pred[i + 1])
  IN pred

\* descend
Descend(k) ==
  LET r == Preds(k, FALSE)[0] IN IF r = Nil THEN first ELSE node[r].leaf

\* The leaf symbol_insert takes for a record with key k: first_leaf too when
\* the descent ends at a node without a leaf.
Target(k) == LET l == Descend(k) IN IF l = NoLeaf THEN first ELSE l

------------------------------------------------------------------------------
(* Nodes and node pages.                                                   *)

BugFreshPage == [used |-> 1, next |-> NoPage]   \* not chained
FreshPage == [used |-> 1, next |-> current]

\* node_alloc_in_root hands out slot r.
Takes(r) ==
  IF current # NoPage /\ pages[current].used < PageSlots
  THEN /\ r = <<current, pages[current].used + 1>>
       /\ pages' = [pages EXCEPT ![current].used = @ + 1]
       /\ UNCHANGED current
  ELSE /\ pages[r[1]] = NotTaken /\ r[2] = 1
       /\ pages' = [pages EXCEPT ![r[1]] = FreshPage]
       /\ current' = r[1]

\* skiplist_splice of a node with the given height behind pred.
Splice(l, k, height, pred) ==
  \E r \in Refs :
    /\ Takes(r)
    /\ LET behind(i, p) == i < height /\ pred[i] = p
           new == [key |-> k, leaf |-> l, level |-> height,
                   forward |-> [i \in Levels |-> IF i < height THEN Forward(pred[i], i)
                                                 ELSE Nil]]
       IN /\ node' = [x \in Refs |->
               IF x = r THEN new
               ELSE IF ~IsNode(x) THEN node[x]
               ELSE [node[x] EXCEPT !.forward =
                       [i \in Levels |-> IF behind(i, x) THEN r ELSE @[i]]]]
          /\ head' = [i \in Levels |-> IF behind(i, Nil) THEN r ELSE head[i]]
    /\ top' = IF height > top THEN height ELSE top
    /\ backRef' = [backRef EXCEPT ![l] = r]

\* The nodes n once the nodes `gone` are out of use.  Their slots are never
\* used again: what they hold is left out, when no pointer leads to them.
LeaveBehind(h, n, gone) ==
  LET cutOff == \A i \in Levels :
                  \A r \in {x \in Placed(n) \ gone : n[x].level > i} \cup {Nil} :
                    Follow(h, n, r, i) \notin gone
  IN [r \in Refs |-> IF r \in gone /\ cutOff THEN LeftBehind ELSE n[r]]

BugTallest(h) ==   \* 0 for an empty list
  Max({0} \cup {i + 1 : i \in {j \in Levels : h[j] # Nil}})

\* current_max_level for the head pointers h.
Tallest(h) == Max({1} \cup {i + 1 : i \in {j \in Levels : h[j] # Nil}})

BugUnlinkedLevels(r) == 1 .. node[r].level - 1   \* not level 0
UnlinkedLevels(r) == 0 .. node[r].level - 1

\* skiplist_unlink of node r, which stays in its slot.
UnlinkNode(r) ==
  LET pred == Preds(node[r].key, TRUE)
      past(i, p, f) == IF i \in UnlinkedLevels(r) /\ pred[i] = p /\ f = r
                       THEN node[r].forward[i] ELSE f
      gone == {x \in Placed(node) : x = r \/ node[x].leaf = NoLeaf}
      nodes == [x \in Refs |->
        IF ~IsNode(x) THEN node[x]
        ELSE [node[x] EXCEPT !.leaf = IF x = r THEN NoLeaf ELSE @,
                             !.forward = [i \in Levels |-> past(i, x, @[i])]]]
  IN /\ head' = [i \in Levels |-> past(i, Nil, head[i])]
     /\ node' = LeaveBehind(head', nodes, gone)
     /\ top' = Tallest(head')

------------------------------------------------------------------------------
Init ==
  /\ firstKey = [l \in Leaves |-> NoKey] /\ first = NoLeaf
  /\ backRef = [l \in Leaves |-> Nil]
  /\ head = [i \in Levels |-> Nil] /\ top = 1
  /\ node = [r \in Refs |-> Unused]
  /\ pages = [p \in NodePages |-> NotTaken] /\ current = NoPage

\* symbol_insert makes the first leaf of an empty symbol, at the head of
\* every level.
AddFirstLeaf(l, k, height) ==
  /\ Live = {}
  /\ firstKey' = [firstKey EXCEPT ![l] = k] /\ first' = l
  /\ Splice(l, k, height, [i \in Levels |-> Nil])

\* symbol_insert of a record that its leaf has room for; of a late one, that
\* becomes the first of the leaf, the node of the leaf learns nothing.
PutInLeaf(k) ==
  /\ \E m \in Live \cap {Target(k)} :
       /\ AllWrites \/ firstKey[m] <= k
       /\ firstKey' = [firstKey EXCEPT ![m] = Min({@, k})]
  /\ UNCHANGED <<first, backRef, head, top, node, pages, current>>

\* The first keys that leaf m and a new leaf with node key k can have at the
\* end of the call: leaf_split moves the records of m from k on, or k is past
\* them all, and the record written then goes to one of the two leaves.  Of a
\* single record, leaf_split leaves nothing in m.
Halves(m, k) ==
  LET written == {j \in Keys : Target(j) = m}
      below == {j \in written : j < firstKey[m]}
      between == {j \in written : firstKey[m] < j /\ j < k}
  IN IF k = firstKey[m] THEN {<<j, k>> : j \in written}
     ELSE {<<firstKey[m], k>> : j \in written \ below}
            \cup {<<j, k>> : j \in below} \cup {<<firstKey[m], j>> : j \in between}

\* The first keys are the keys of the nodes: no record comes in front of them
\* and the split leaves records on both sides.
KeyedAlike(m, k, keys) == keys = <<firstKey[m], k>> /\ firstKey[m] < k /\ FitsIn(m, k)

\* A new leaf with node key k: the upper half of leaf_split, or a new tail.
AddLeaf(l, k, height) ==
  /\ l \notin Live
  /\ \E m \in Live, keys \in Keys \X Keys :
       /\ AllWrites \/ KeyedAlike(m, k, keys)
       /\ firstKey[m] <= k /\ keys \in Halves(m, k)
       /\ firstKey' = [firstKey EXCEPT ![m] = keys[1], ![l] = keys[2]]
  /\ UNCHANGED first
  /\ Splice(l, k, height, Preds(k, FALSE))

BugRekeyed(l, k) == node   \* the node keeps the key of the record that went
Rekeyed(l, k) == [node EXCEPT ![backRef[l]].key = k]

\* symbol_delete of a record that is not the last one of its leaf, but the
\* first; k is the next one.
DeleteFirst(l, k) ==
  /\ l \in Live /\ Descend(firstKey[l]) = l
  /\ firstKey[l] < k /\ (AllWrites \/ FitsIn(l, k))
  /\ firstKey' = [firstKey EXCEPT ![l] = k]
  /\ node' = Rekeyed(l, k)
  /\ UNCHANGED <<first, backRef, head, top, pages, current>>

\* The leaves that can be the first on the chain of the leaves S: the least
\* one, where the chain is in key order.
Fronts(S) ==
  IF S = {} THEN {NoLeaf}
  ELSE {l \in S : AllWrites \/ \A m \in S : ~Before(m, l)}

\* symbol_delete of the only record of a leaf: leaf_unlink.
DeleteOnly(l) ==
  /\ l \in Live /\ Descend(firstKey[l]) = l
  /\ firstKey' = [firstKey EXCEPT ![l] = NoKey]
  /\ first' \in IF first = l THEN Fronts(Live \ {l}) ELSE {first}
  /\ backRef' = [backRef EXCEPT ![l] = Nil]
  /\ UnlinkNode(backRef[l])
  /\ UNCHANGED <<pages, current>>

BugRebuiltLevels == 0 .. top - 2   \* not the tallest one
RebuiltLevels == Levels

\* The leaves from leaf h on along the chain.
FromOn(h) ==
  {S \in SUBSET Live : h \in S /\ (AllWrites \/ S = {l \in Live : ~Before(l, h)})}

\* spike_db_truncate_before: the leaves in front of leaf h go, all of them
\* when h is NoLeaf, and the first key of h becomes k.  Then every level
\* loses the nodes without a leaf, those of the leaves that went and those of
\* the leaves `old`, all of whose records are below the cutoff though they
\* stand behind h; the other nodes get the first key of their leaf.
TruncateBefore(h, k, kept, old) ==
  LET stays(r) == node[r].leaf \in kept \ old
      left == {r \in Placed(node) : stays(r)}
      next(i, r) == Forward(LastBefore(left, i, r), i)
      rebuilt == [i \in Levels |-> IF i \in RebuiltLevels
                                   THEN {r \in OnLevel(i) : stays(r)} ELSE {}]
      nodes == [r \in Refs |->
        IF \A i \in Levels : r \notin rebuilt[i] THEN node[r]
        ELSE [node[r] EXCEPT
                !.key = firstKey'[node[r].leaf],
                !.forward = [i \in Levels |-> IF r \in rebuilt[i] THEN next(i, r) ELSE @[i]]]]
  IN /\ h # NoLeaf => firstKey[h] <= k /\ (AllWrites \/ FitsIn(h, k))
     /\ firstKey' = [l \in Leaves |-> IF l = h THEN k
                                      ELSE IF l \in kept THEN firstKey[l] ELSE NoKey]
     /\ first' = h
     /\ backRef' = [l \in Leaves |-> IF l \in kept THEN backRef[l] ELSE Nil]
     /\ head' = [i \in Levels |-> IF i \in RebuiltLevels THEN next(i, Nil) ELSE head[i]]
     /\ node' = LeaveBehind(head', nodes, {r \in Placed(node) : node[r].leaf \notin kept})
     /\ top' = Tallest(head')
     /\ UNCHANGED <<pages, current>>

\* The node pages symbol_drop frees: from current_node_page along the chain.
ChainedPages ==
  {p \in NodePages : \A S \in SUBSET NodePages :
     (/\ current # NoPage => current \in S
      /\ \A q \in S : pages[q].next # NoPage => pages[q].next \in S) => p \in S}

\* spike_db_symbol_drop, and the new root page of a later put.
SymbolDrop ==
  /\ firstKey' = [l \in Leaves |-> NoKey] /\ first' = NoLeaf
  /\ backRef' = [l \in Leaves |-> Nil]
  /\ head' = [i \in Levels |-> Nil] /\ top' = 1
  /\ node' = [r \in Refs |-> IF r[1] \in ChainedPages THEN Unused ELSE node[r]]
  /\ pages' = [p \in NodePages |-> IF p \in ChainedPages THEN NotTaken ELSE pages[p]]
  /\ current' = NoPage

Next ==
  \/ \E l \in Leaves, k \in Keys :
       \/ DeleteFirst(l, k)
       \/ \E height \in Heights : AddFirstLeaf(l, k, height) \/ AddLeaf(l, k, height)
  \/ \E l \in Leaves : DeleteOnly(l)
  \/ \E k \in Keys : PutInLeaf(k)
  \/ \E h \in Live \cup {NoLeaf}, k \in Keys :
       \E kept \in IF h = NoLeaf THEN {{}} ELSE FromOn(h) :
         \E old \in SUBSET {l \in kept \ {h} : firstKey[l] < k} :
           TruncateBefore(h, k, kept, old)
  \/ SymbolDrop

Spec == Init /\ [][Next]_vars

------------------------------------------------------------------------------
TypeOK ==
  /\ firstKey \in [Leaves -> Keys \cup {NoKey}] /\ first \in Leaves \cup {NoLeaf}
  /\ backRef \in [Leaves -> Refs \cup {Nil}]
  /\ head \in [Levels -> Refs \cup {Nil}] /\ top \in 1 .. MaxLevel
  /\ node \in [Refs -> Nodes \cup {Unused, LeftBehind}]
  /\ pages \in [NodePages -> [used : 0 .. PageSlots, next : NodePages \cup {NoPage}]]
  /\ current \in NodePages \cup {NoPage}

\* A descent over the towers finds the leaf that a search of all the leaves
\* for the greatest first key not above the target would find, for every
\* target: what LeafIndex takes for granted.
DescentExact ==
  \A k \in Keys :
    LET notAbove == {l \in Live : firstKey[l] <= k}
    IN Descend(k) = IF notAbove = {} THEN LeastLeaf
                    ELSE CHOOSE l \in notAbove : \A m \in notAbove : ~Before(l, m)

\* Every level is sorted and holds exactly the nodes of level 0 that are
\* tall enough; the levels from current_max_level on are empty.
TowersSound ==
  /\ \A i \in Levels : OnLevel(i) = {r \in OnLevel(0) : node[r].level > i}
  /\ \A i \in Levels : \A r \in OnLevel(i) :
       Forward(r, i) # Nil => node[r].key < node[Forward(r, i)].key
  /\ \A i \in Levels : i >= top => head[i] = Nil

\* Level 0 has one node for each leaf of the chain and no other: none is
\* left that names a leaf page which was freed and may be in other use.
OneNodePerLeaf ==
  /\ OnLevel(0) = {backRef[l] : l \in Live}
  /\ \A l \in Live : node[backRef[l]].leaf = l /\ node[backRef[l]].key = firstKey[l]

\* symbol_drop finds every node page of the symbol ("chain, so drop can free
\* them"), and no slot is handed out twice.
NodePagesChained ==
  /\ {p \in NodePages : pages[p] # NotTaken} = ChainedPages
  /\ \A r \in Refs : node[r] # Unused <=> r[2] <= pages[r[1]].used

\* The map of leaves that a walk along level 0 reads.
IndexMap ==
  LET nodes == OnLevel(0)
  IN [l \in Leaves |-> Max({NoKey} \cup {node[r].key : r \in {n \in nodes : node[n].leaf = l}})]

Map == INSTANCE LeafMap WITH index <- IndexMap

\* What the towers show of the leaves changes by the steps of LeafMap only.
ImplementsLeafMap == Map!Spec
==============================================================================
