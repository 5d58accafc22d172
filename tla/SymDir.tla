------------------------------- MODULE SymDir -------------------------------
(***************************************************************************)
(* The symbol directory of a SpikeDB file: an open-addressed hash table in *)
(* reserved pages, where a dropped symbol leaves a tombstone.              *)
(*                                                                         *)
(* `dir` is the directory inside the open transaction, `disk` as the last  *)
(* commit left it.  Symbols and slots are numbered; a slot is empty or     *)
(* holds a symbol, live or dropped.  The root pages the live slots point   *)
(* to are left to LeafIndex.                                               *)
(***************************************************************************)
EXTENDS Integers, FiniteSets, FiniteSetsExt

CONSTANTS
  SymbolIds,   \* symbols the callers use
  TotalSlots,  \* SYMDIR_TOTAL_SLOTS
  Home         \* the slot symdir_locate gives each symbol

SlotIds == 0 .. TotalSlots - 1
ASSUME SlotsAssumption == TotalSlots \in Nat \ {0}
ASSUME HomeAssumption == Home \in [SymbolIds -> SlotIds]
ASSUME SymbolsAssumption == IsFiniteSet(SymbolIds)

VARIABLES
  dir,   \* the directory inside the transaction, with its symbol_count
  disk,  \* the directory as committed
  open,  \* a batch is being applied
  live,  \* the symbols created and not dropped since
  kept   \* live, as committed

vars == <<dir, disk, open, live, kept>>

Empty == [state |-> "empty"]
Live(s) == [state |-> "live", symbol |-> s]
Tombstone(s) == [state |-> "dropped", symbol |-> s]
SlotStates == {Empty} \cup {Live(s) : s \in SymbolIds} \cup {Tombstone(s) : s \in SymbolIds}
Directories == [slot : [SlotIds -> SlotStates], count : 0 .. Cardinality(SymbolIds)]

\* The slot a probe for s looks at after n others.
Probe(s, n) == (Home[s] + n) % TotalSlots

BugStops(d, s) ==   \* a tombstone ends the search as well
  {n \in SlotIds : d.slot[Probe(s, n)].state # "live" \/ d.slot[Probe(s, n)] = Live(s)}

\* The probes that end the search: the symbol, or an empty slot.
Stops(d, s) == {n \in SlotIds : d.slot[Probe(s, n)] \in {Live(s), Empty}}

\* symdir_lookup without create_ok.
Lookup(d, s) ==
  IF Stops(d, s) = {} THEN "FULL"
  ELSE IF d.slot[Probe(s, Min(Stops(d, s)))] = Empty THEN "NOT_FOUND"
  ELSE "OK"

\* The slots on the way that a new symbol may take instead of the empty one:
\* tombstones, except the symbol's own.
Reusable(d, s) ==
  {n \in 0 .. Min(Stops(d, s)) - 1 :
     \E r \in SymbolIds \ {s} : d.slot[Probe(s, n)] = Tombstone(r)}
Place(d, s) == Probe(s, Min(Reusable(d, s) \cup {Min(Stops(d, s))}))

\* symdir_lookup with create_ok, and symdir_create.
Ensure(d, s) ==
  IF Lookup(d, s) = "OK" THEN d
  ELSE [slot |-> [d.slot EXCEPT ![Place(d, s)] = Live(s)], count |-> d.count + 1]

BugCleared(s) == Empty   \* breaks the probe chain of a symbol that collided
Cleared(s) == Tombstone(s)

\* What symbol_drop does to the slot it finds.
Without(d, s) ==
  [slot |-> [d.slot EXCEPT ![Probe(s, Min(Stops(d, s)))] = Cleared(s)],
   count |-> IF d.count > 0 THEN d.count - 1 ELSE 0]

------------------------------------------------------------------------------
Init ==
  /\ dir = [slot |-> [i \in SlotIds |-> Empty], count |-> 0] /\ disk = dir
  /\ open = FALSE
  /\ live = {} /\ kept = {}

\* The next symbol of a write batch with a record to put, or the one symbol
\* of spike_db_symbol_define.
Put(s) ==
  /\ Lookup(dir, s) # "FULL"
  /\ dir' = Ensure(dir, s) /\ open' = TRUE /\ live' = live \cup {s}
  /\ UNCHANGED <<disk, kept>>

Commit ==
  /\ open
  /\ disk' = dir /\ kept' = live /\ open' = FALSE
  /\ UNCHANGED <<dir, live>>

Restored == disk

Abandon ==
  /\ dir' = Restored /\ live' = kept /\ open' = FALSE
  /\ UNCHANGED <<disk, kept>>

\* A refused record, or a page that cannot be read.
Rollback == open /\ Abandon

\* The directory has no slot for the symbol.
PutRefused(s) == Lookup(dir, s) = "FULL" /\ Abandon

\* spike_db_symbol_drop, which answers NOT_FOUND unless the symbol is there.
Drop(s) ==
  /\ ~open /\ Lookup(dir, s) = "OK"
  /\ dir' = Without(dir, s) /\ disk' = dir'
  /\ live' = live \ {s} /\ kept' = live'
  /\ UNCHANGED open

Next == (\E s \in SymbolIds : Put(s) \/ PutRefused(s) \/ Drop(s)) \/ Commit \/ Rollback
Spec == Init /\ [][Next]_vars

------------------------------------------------------------------------------
TypeOK ==
  /\ dir \in Directories /\ disk \in Directories
  /\ open \in BOOLEAN
  /\ live \subseteq SymbolIds /\ kept \subseteq SymbolIds

\* A lookup finds the symbols that exist and no other, whatever collided,
\* was dropped, reused a slot or was rolled back before (symdir_lookup).
LookupExact == \A s \in SymbolIds : Lookup(dir, s) = "OK" <=> s \in live

\* No symbol has two live slots, of which a drop would leave one behind, and
\* symbol_count counts them.
OneSlotEach ==
  /\ \A i, j \in SlotIds : dir.slot[i].state = "live" /\ dir.slot[i] = dir.slot[j] => i = j
  /\ dir.count = Cardinality({i \in SlotIds : dir.slot[i].state = "live"})
==============================================================================
