---------------------------- MODULE FormatProofs ----------------------------
(***************************************************************************)
(* spike_db_open refuses only files that are no database, and nothing that *)
(* was committed is lost to a format: for any number of processes, any     *)
(* size of the directory and any number of commits, when no open overlaps  *)
(* another process's format (Overlaps = FALSE) and no format stops between *)
(* the directory and its first meta page (LateStops = FALSE).              *)
(*                                                                         *)
(* The file of a history is of one of three kinds, and a kind is left only *)
(* from Blank to Sound: Untouched, the file some other program made or a   *)
(* database cut short; Blank, what the library has begun and not given a   *)
(* meta page yet; Sound, a database with at least one valid meta page.     *)
(***************************************************************************)
EXTENDS Format, FiniteSetTheorems, TLAPS

At(h) == handle[h].at

\* How far an open of a foreign file is: it refuses the file or has yet to.
Refuses(h) ==
  /\ At(h) \in {"closed", "corrupt", "check", "meta A", "meta B"}
  /\ At(h) = "check" => /\ handle[h].pages = size /\ handle[h].next < size
                        /\ \A i \in Pages : i < handle[h].next => page[i] = Zero
  /\ At(h) \in {"meta A", "meta B"} => size = Reserved
  /\ At(h) = "meta B" => ~Valid(handle[h].first)

\* A foreign file, as every open finds it.
Untouched ==
  /\ size \in 1 .. Reserved
  /\ size < Reserved => \E p \in Pages : p < size /\ page[p] # Zero
  /\ size = Reserved => Refused(page[0], page[1])
  /\ \A h \in Handles : Refuses(h)

\* Who checks or formats the library's own file is alone with it.
OneAtATime ==
  \A g, h \in Handles : At(h) \in {"check", "format"} /\ g # h => handle[g] = Closed

\* How far an open of a file without a meta page is.
Begins(h) ==
  /\ At(h) \in {"closed", "check", "format"}
  /\ At(h) = "check" => handle[h].pages = size /\ handle[h].next < size
  /\ At(h) = "format" => handle[h].next <= DirPages + 1
  /\ Late(h) => size = Reserved

\* The library's file as long as it has no meta page.
Blank ==
  /\ \A p \in Pages : page[p] = Zero
  /\ size = Reserved => \E h \in Handles : Late(h)
  /\ \A h \in Handles : Begins(h)

\* How far a handle of a database is.
FormatNearlyDone(h) ==
  At(h) = "format" => /\ handle[h].next > DirPages + 1 /\ page[0] = 1
                      /\ handle[h].next = Reserved => page[1] = Zero
CommitOnActive(h) ==
  At(h) = "commit" => /\ handle[h].active = Active /\ handle[h].txn = page[Active]
                      /\ page[Active] < MaxTxn
                      /\ \A g \in Handles : At(g) = "commit" => g = h
\* An open that found meta page A torn will find meta page B whole: the commit
\* that tore A writes there, and no other begins before the open is through.
SecondMetaWhole(h) ==
  At(h) = "meta B" /\ ~Valid(handle[h].first) =>
    Valid(page[1]) /\ \A g \in Handles : At(g) = "commit" => handle[g].active = 1

\* A database.
Sound ==
  /\ size = Reserved /\ ~Refused(page[0], page[1])
  /\ \A h \in Handles :
       /\ At(h) \in {"closed", "format", "meta A", "meta B", "open", "commit"}
       /\ FormatNearlyDone(h) /\ CommitOnActive(h) /\ SecondMetaWhole(h)

IInv == TypeOK /\ IF ours THEN OneAtATime /\ (Blank \/ Sound) ELSE Untouched

Excluded == Overlaps = FALSE /\ LateStops = FALSE

------------------------------------------------------------------------------
(* Names, numbers and shapes.                                              *)

\* The marks of a page differ, and none is a txn_id.
LEMMA Marks ==
  /\ Zero # Foreign /\ Zero # Symbols /\ Zero # Torn
  /\ Zero \notin Nat /\ Foreign \notin Nat /\ Symbols \notin Nat /\ Torn \notin Nat
<1>1. ASSUME NEW a, NEW b, NEW c PROVE Cardinality({a, b, c}) # 4
  <2>1. IsFiniteSet({a}) /\ Cardinality({a}) = 1
    BY FS_Singleton
  <2>2. IsFiniteSet({a} \cup {b}) /\ Cardinality({a} \cup {b}) \in {1, 2}
    BY <2>1, FS_AddElement
  <2>3. Cardinality(({a} \cup {b}) \cup {c}) \in {1, 2, 3}
    BY <2>2, FS_AddElement
  <2>4. ({a} \cup {b}) \cup {c} = {a, b, c}
    OBVIOUS
  <2> QED BY <2>3, <2>4
<1>2. Zero # Foreign
  <2>1. Zero = Foreign => {Zero, Foreign, Symbols, Torn} = {Zero, Symbols, Torn}
    OBVIOUS
  <2> QED BY <1>1, <2>1, ContentsAssumption
<1>3. Zero # Symbols
  <2>1. Zero = Symbols => {Zero, Foreign, Symbols, Torn} = {Zero, Foreign, Torn}
    OBVIOUS
  <2> QED BY <1>1, <2>1, ContentsAssumption
<1>4. Zero # Torn
  <2>1. Zero = Torn => {Zero, Foreign, Symbols, Torn} = {Zero, Foreign, Symbols}
    OBVIOUS
  <2> QED BY <1>1, <2>1, ContentsAssumption
<1> QED BY <1>2, <1>3, <1>4, ContentsAssumption

\* The largest of a set of numbers, when it is known.
LEMMA LargestIs ==
  ASSUME NEW S \in SUBSET Int, NEW m \in S, \A x \in S : m >= x PROVE Max(S) = m
<1>1. \E x \in S : \A y \in S : x >= y
  OBVIOUS
<1>2. Max(S) \in S /\ \A y \in S : Max(S) >= y
  BY <1>1 DEF Max
<1>3. Max(S) >= m /\ m >= Max(S) /\ m \in Int /\ Max(S) \in Int
  BY <1>2
<1> QED BY <1>3

LastIn(q) == Max({0} \cup {q[i] : i \in {j \in {0, 1} : Valid(q[j])}})

\* What the meta pages say: the last txn_id of a database is the active page's.
LEMMA LastIsActive ==
  ASSUME NEW q, ~Refused(q[0], q[1]), NEW A, A = ActiveOf(q[0], q[1])
  PROVE  /\ LastIn(q) = q[A] /\ A \in {0, 1} /\ Valid(q[A])
         /\ \A i \in {0, 1} : Valid(q[i]) => q[i] <= q[A]
<1> USE BoundsAssumption
<1> DEFINE S == {0} \cup {q[i] : i \in {j \in {0, 1} : Valid(q[j])}}
<1>1. A \in {0, 1} /\ Valid(q[A]) /\ \A i \in {0, 1} : Valid(q[i]) => q[i] <= q[A]
  BY DEF ActiveOf, Refused, Valid
<1>2. S \in SUBSET Int /\ q[A] \in S /\ \A x \in S : q[A] >= x
  BY <1>1 DEF Valid
<1>3. Max(S) = q[A]
  BY <1>2, LargestIs
<1> QED BY <1>1, <1>3 DEF LastIn

\* Without a meta page nothing has been committed.
LEMMA NothingCommitted ==
  ASSUME NEW q, Refused(q[0], q[1]) PROVE LastIn(q) = 0
<1> DEFINE S == {0} \cup {q[i] : i \in {j \in {0, 1} : Valid(q[j])}}
<1>1. S = {0}
  BY DEF Refused
<1>2. Max({0}) = 0
  BY LargestIs
<1> QED BY <1>1, <1>2 DEF LastIn

\* The last transaction stays when every valid meta page is kept or outdone.
LEMMA LastGrows ==
  ASSUME NEW q, NEW r,
         \A i \in {0, 1} : Valid(q[i]) => \E j \in {0, 1} : Valid(r[j]) /\ r[j] >= q[i]
  PROVE  LastIn(r) >= LastIn(q)
<1> USE BoundsAssumption
<1>1. CASE Refused(q[0], q[1]) /\ Refused(r[0], r[1])
  BY <1>1, NothingCommitted
<1>2. CASE ~Refused(r[0], r[1])
  <2> DEFINE A == ActiveOf(r[0], r[1])
             B == ActiveOf(q[0], q[1])
  <2>1. /\ LastIn(r) = r[A] /\ A \in {0, 1} /\ Valid(r[A])
        /\ \A i \in {0, 1} : Valid(r[i]) => r[i] <= r[A]
    BY <1>2, LastIsActive
  <2>2. Refused(q[0], q[1]) => LastIn(q) = 0
    BY NothingCommitted
  <2>3. ~Refused(q[0], q[1]) => LastIn(q) = q[B] /\ B \in {0, 1} /\ Valid(q[B])
    BY LastIsActive
  <2> HIDE DEF A, B
  <2>4. CASE Refused(q[0], q[1])
    BY <2>1, <2>2, <2>4 DEF Valid
  <2>5. CASE ~Refused(q[0], q[1])
    <3>1. PICK j \in {0, 1} : Valid(r[j]) /\ r[j] >= q[B]
      BY <2>3, <2>5
    <3>2. r[j] <= r[A] /\ r[j] \in Int /\ r[A] \in Int /\ q[B] \in Int
      BY <2>1, <2>3, <2>5, <3>1 DEF Valid
    <3> QED BY <2>1, <2>3, <2>5, <3>1, <3>2
  <2> QED BY <2>4, <2>5
<1> QED BY <1>1, <1>2 DEF Refused

\* The same of the file.
LEMMA CommittedIsActive ==
  ASSUME ~Refused(page[0], page[1])
  PROVE  /\ Committed = page[Active] /\ Active \in {0, 1} /\ Valid(page[Active])
         /\ \A i \in {0, 1} : Valid(page[i]) => page[i] <= page[Active]
<1>1. Committed = LastIn(page) /\ Active = ActiveOf(page[0], page[1])
  BY DEF Committed, LastIn, Active
<1> QED BY <1>1, LastIsActive

\* A state of a handle has the fields its place calls for.
LEMMA Shapes ==
  ASSUME NEW s \in States
  PROVE  /\ s.at \in {"closed", "corrupt", "meta A", "check", "meta B", "format", "open", "commit"}
         /\ s.at = "closed" => s = Closed
         /\ s.at = "corrupt" => s = Corrupt
         /\ s.at = "check" => s \in [at : {"check"}, pages : 1 .. Reserved - 1, next : Pages]
         /\ s.at = "meta B" => s \in [at : {"meta B"}, first : Contents]
         /\ s.at = "format" => s \in [at : {"format"}, next : 1 .. Reserved + 1]
         /\ s.at \in {"open", "commit"} =>
              s \in [at : {"open", "commit"}, active : 0 .. 1, txn : 0 .. MaxTxn]
<1>1. CASE s \in {Closed, Corrupt, [at |-> "meta A"]}
  <2>1. /\ Closed.at = "closed" /\ Corrupt.at = "corrupt"
        /\ [at |-> "meta A"].at = "meta A"
    BY DEF Closed, Corrupt
  <2>2. s = Closed \/ s = Corrupt \/ s = [at |-> "meta A"]
    BY <1>1
  <2> QED BY <2>1, <2>2
<1>2. CASE s \in [at : {"check"}, pages : 1 .. Reserved - 1, next : Pages]
  BY <1>2
<1>3. CASE s \in [at : {"meta B"}, first : Contents]
  BY <1>3
<1>4. CASE s \in [at : {"format"}, next : 1 .. Reserved + 1]
  BY <1>4
<1>5. CASE s \in [at : {"open", "commit"}, active : 0 .. 1, txn : 0 .. MaxTxn]
  BY <1>5
<1> QED BY <1>1, <1>2, <1>3, <1>4, <1>5 DEF States

\* A step of handle h, and what it leaves alone.
LEMMA Moves ==
  ASSUME NEW h \in Handles, NEW s, Becomes(h, s), handle \in [Handles -> States]
  PROVE  /\ handle'[h] = s /\ \A g \in Handles : g # h => handle'[g] = handle[g]
         /\ s \in States => handle' \in [Handles -> States]
BY DEF Becomes

\* The pages a format writes: directory first, meta page A, meta page B.
LEMMA Targets ==
  ASSUME NEW i \in 1 .. Reserved
  PROVE  /\ Target(i) \in Pages /\ Target(i) \in Int
         /\ i <= DirPages => Target(i) \in Directory /\ Target(i) = i + 1
         /\ i = DirPages + 1 => Target(i) = 0
         /\ i = Reserved => Target(i) = 1
BY BoundsAssumption DEF Target, Pages, Directory, Reserved

\* A write behind the end makes the file longer.
LEMMA GrownIs ==
  ASSUME size \in Nat, NEW p \in Nat PROVE Grown(p) = IF size >= p + 1 THEN size ELSE p + 1
<1>1. CASE size >= p + 1
  <2>1. Max({size, p + 1}) = size
    BY <1>1, LargestIs
  <2> QED BY <1>1, <2>1 DEF Grown
<1>2. CASE ~(size >= p + 1)
  <2>1. Max({size, p + 1}) = p + 1
    BY <1>2, LargestIs
  <2> QED BY <1>2, <2>1 DEF Grown
<1> QED BY <1>1, <1>2

\* Only a database is in use or committed to; only the library's own file is
\* formatted; who checks a file looks at a page of it.
LEMMA Whereabouts ==
  ASSUME IInv, NEW h \in Handles
  PROVE  /\ At(h) \in {"open", "commit"} => ours /\ Sound
         /\ At(h) = "format" => ours /\ OneAtATime /\ (Blank \/ Sound)
         /\ At(h) = "check" => handle[h].pages = size /\ handle[h].next < size
         /\ handle[h] \in States
BY DEF IInv, TypeOK, Untouched, Refuses, Blank, Begins, Sound

------------------------------------------------------------------------------
(* Types.                                                                  *)

\* The invariant holds of every file a history starts with.
LEMMA InitIInv == Init => IInv
<1> SUFFICES ASSUME Init PROVE IInv
  OBVIOUS
<1> USE BoundsAssumption
<1>0. Reserved \in Nat /\ Reserved >= 3 /\ 0 \in Pages /\ 1 \in Pages
  BY DEF Reserved, Pages
<1>1. Closed \in States /\ Closed.at = "closed"
  BY DEF States, Closed
<1>2. \A h \in Handles : handle[h] = Closed /\ At(h) = "closed"
  BY <1>1 DEF Init, At
<1>3. handle \in [Handles -> States] /\ ours \in BOOLEAN
  BY <1>1 DEF Init
<1>4. CASE ours = TRUE /\ size = 0 /\ page = [i \in Pages |-> Zero]
  <2>1. TypeOK
    BY <1>3, <1>4, <1>0 DEF TypeOK, Contents
  <2>2. OneAtATime
    BY <1>2 DEF OneAtATime
  <2>3. Blank
    BY <1>2, <1>4, <1>0 DEF Blank, Begins, Late, InFormat, At
  <2> QED BY <1>4, <2>1, <2>2, <2>3 DEF IInv
<1>5. CASE /\ ours = FALSE /\ size \in 1 .. Reserved
           /\ page \in [Pages -> {Zero, Foreign, Symbols, 0, 1}]
           /\ ForeignFile(size, page) \/ CutFile(size, page)
  <2>1. {Zero, Foreign, Symbols, 0, 1} \subseteq Contents
    BY DEF Contents
  <2>2. page \in [Pages -> Contents] /\ size \in 0 .. Reserved
    BY <1>5, <2>1, <1>0
  <2>3. \A i \in Pages : i >= size => page[i] = Zero
    <3>1. CASE ForeignFile(size, page)
      BY <3>1, <1>5, <1>0 DEF ForeignFile, Pages
    <3>2. CASE CutFile(size, page)
      BY <3>2, <1>5, <1>0 DEF CutFile, Pages
    <3> QED BY <1>5, <3>1, <3>2
  <2>4. size < Reserved => \E p \in Pages : p < size /\ page[p] # Zero
    <3>1. CASE ForeignFile(size, page)
      <4>1. PICK p \in Pages : page[p] = Foreign
        BY <3>1 DEF ForeignFile
      <4>2. page[p] # Zero /\ p < size
        BY <4>1, <2>3, Marks, <1>5 DEF Pages, Reserved
      <4> QED BY <4>2
    <3>2. CASE CutFile(size, page)
      <4>1. page[0] = 1 /\ 0 < size
        BY <3>2, <1>5, <1>0 DEF CutFile
      <4>2. page[0] # Zero
        BY <4>1, Marks
      <4> QED BY <4>1, <4>2, <1>0
    <3> QED BY <1>5, <3>1, <3>2
  <2>5. size = Reserved => Refused(page[0], page[1])
    <3>1. CASE ForeignFile(size, page)
      <4>1. page[0] \in {Zero, Foreign} /\ page[1] \in {Zero, Foreign}
        BY <3>1, <1>0, <1>5 DEF ForeignFile
      <4> QED BY <4>1, Marks DEF Refused, Valid
    <3>2. CASE CutFile(size, page)
      BY <3>2, <1>0, <1>5 DEF CutFile
    <3> QED BY <1>5, <3>1, <3>2
  <2>6. TypeOK
    BY <1>3, <2>2, <2>3 DEF TypeOK
  <2>7. Untouched
    BY <1>2, <1>5, <2>4, <2>5 DEF Untouched, Refuses
  <2> QED BY <1>5, <2>6, <2>7 DEF IInv
<1> QED BY <1>4, <1>5 DEF Init

\* What an open reads as the first meta page, and what it takes from both.
LEMMA OpensAs ==
  ASSUME NEW a \in Contents, NEW b \in Contents, ~Refused(a, b)
  PROVE  [at |-> "open", active |-> ActiveOf(a, b),
          txn |-> IF ActiveOf(a, b) = 0 THEN a ELSE b] \in States
<1>1. ActiveOf(a, b) \in 0 .. 1 /\ (IF ActiveOf(a, b) = 0 THEN a ELSE b) \in 0 .. MaxTxn
  BY BoundsAssumption DEF ActiveOf, Refused, Valid
<1> QED BY <1>1 DEF States

\* No step leaves the domains.
LEMMA TypeStep == ASSUME IInv, Next PROVE TypeOK'
<1> USE BoundsAssumption
<1>0. TypeOK /\ Reserved \in Nat /\ Reserved >= 3 /\ 0 \in Pages /\ 1 \in Pages
  BY DEF IInv, Reserved, Pages
<1>1. PICK h \in Handles :
        \/ Open(h) \/ Check(h) \/ ReadMetaA(h) \/ ReadMetaB(h)
        \/ WriteFormat(h) \/ FinishFormat(h) \/ TearFormat(h)
        \/ \E p \in Directory : BeginCommit(h, p)
        \/ HalfMeta(h) \/ Publish(h) \/ Stop(h)
  BY DEF Next
<1>2. /\ Closed \in States /\ Corrupt \in States /\ [at |-> "meta A"] \in States
      /\ Formatting \in States
  <2>1. Formatting \in [at : {"format"}, next : 1 .. Reserved + 1]
    BY <1>0 DEF Formatting
  <2> QED BY <2>1 DEF States
<1>3. ASSUME NEW s \in States, Becomes(h, s), UNCHANGED <<page, size, ours>> PROVE TypeOK'
  BY <1>0, <1>3, Moves DEF TypeOK
<1>4. ASSUME NEW s \in States, Becomes(h, s), UNCHANGED ours, NEW c \in Contents,
             InFormat(h), handle[h].next <= Reserved, FormatStep(h, c)
      PROVE  TypeOK'
  <2>1. handle[h].next \in 1 .. Reserved
    <3>1. handle[h] \in [at : {"format"}, next : 1 .. Reserved + 1]
      BY <1>4, Whereabouts, Shapes DEF InFormat
    <3>2. handle[h].next \in 1 .. Reserved + 1
      BY <3>1
    <3> QED BY <1>0, <1>4, <3>2
  <2> DEFINE p == Target(handle[h].next)
  <2>2. p \in Pages /\ p \in 0 .. Reserved - 1
    BY <2>1, Targets DEF Pages
  <2>3. page' = [page EXCEPT ![p] = c] /\ size' = Grown(p)
    BY <1>4 DEF FormatStep
  <2> HIDE DEF p
  <2>4. size \in 0 .. Reserved /\ size' = IF size >= p + 1 THEN size ELSE p + 1
    BY <1>0, <2>2, <2>3, GrownIs DEF TypeOK
  <2>5. page' \in [Pages -> Contents] /\ size' \in 0 .. Reserved
    BY <1>0, <1>4, <2>2, <2>3, <2>4 DEF TypeOK
  <2>6. \A i \in Pages : i >= size' => page'[i] = Zero
    BY <1>0, <2>2, <2>3, <2>4 DEF TypeOK, Pages
  <2>7. handle' \in [Handles -> States] /\ ours' \in BOOLEAN
    BY <1>0, <1>4, Moves DEF TypeOK
  <2> QED BY <2>5, <2>6, <2>7 DEF TypeOK
<1>5. ASSUME NEW p \in Pages, NEW c \in Contents, page' = [page EXCEPT ![p] = c],
             size = Reserved, UNCHANGED <<size, ours>>, handle' \in [Handles -> States]
      PROVE  TypeOK'
  BY <1>0, <1>5 DEF TypeOK, Pages
<1>6. CASE Open(h)
  <2>1. ASSUME size # 0, size < Reserved
        PROVE  [at |-> "check", pages |-> size, next |-> 0] \in States
    <3>1. size \in 1 .. Reserved - 1
      BY <1>0, <2>1 DEF TypeOK
    <3>2. [at |-> "check", pages |-> size, next |-> 0]
            \in [at : {"check"}, pages : 1 .. Reserved - 1, next : Pages]
      BY <1>0, <3>1
    <3> QED BY <3>2 DEF States
  <2>2. (IF size = 0 THEN Formatting
         ELSE IF size < Reserved THEN [at |-> "check", pages |-> size, next |-> 0]
         ELSE [at |-> "meta A"]) \in States
    BY <1>2, <2>1
  <2> QED BY <1>3, <1>6, <2>2 DEF Open
<1>7. CASE Check(h)
  <2>1. /\ handle[h] \in [at : {"check"}, pages : 1 .. Reserved - 1, next : Pages]
        /\ handle[h].next < handle[h].pages
    <3>1. At(h) = "check" /\ handle[h].at = "check"
      BY <1>7 DEF Check, At
    <3>2. handle[h].pages = size /\ handle[h].next < size /\ handle[h] \in States
      BY <3>1, Whereabouts
    <3>3. handle[h] \in [at : {"check"}, pages : 1 .. Reserved - 1, next : Pages]
      BY <3>1, <3>2, Shapes
    <3> QED BY <3>2, <3>3
  <2>2. CASE page[handle[h].next] # Zero
    BY <1>2, <1>3, <1>7, <2>2 DEF Check
  <2>3. CASE page[handle[h].next] = Zero /\ handle[h].next = LastPage(handle[h])
    BY <1>2, <1>3, <1>7, <2>3 DEF Check
  <2>4. CASE page[handle[h].next] = Zero /\ handle[h].next # LastPage(handle[h])
    <3>1. handle[h].next + 1 \in Pages
      BY <2>1, <2>4, <1>0 DEF LastPage, Pages
    <3>2. [handle[h] EXCEPT !.next = @ + 1] \in [at : {"check"}, pages : 1 .. Reserved - 1, next : Pages]
      BY <2>1, <3>1
    <3>3. [handle[h] EXCEPT !.next = @ + 1] \in States
      BY <3>2 DEF States
    <3> QED BY <1>3, <1>7, <2>4, <3>3 DEF Check
  <2> QED BY <2>2, <2>3, <2>4
<1>8. CASE ReadMetaA(h)
  <2>1. page[0] \in Contents
    BY <1>0 DEF TypeOK
  <2>2. [at |-> "meta B", first |-> page[0]] \in States
    BY <2>1 DEF States
  <2> QED BY <1>3, <1>8, <2>2 DEF ReadMetaA
<1>9. CASE ReadMetaB(h)
  <2>1. handle[h].first \in Contents /\ page[1] \in Contents
    BY <1>0, <1>9, Whereabouts, Shapes DEF TypeOK, ReadMetaB
  <2>2. CASE Refused(handle[h].first, page[1])
    BY <1>2, <1>3, <1>9, <2>2 DEF ReadMetaB
  <2>3. CASE ~Refused(handle[h].first, page[1])
    BY <1>3, <1>9, <2>1, <2>3, OpensAs DEF ReadMetaB
  <2> QED BY <2>2, <2>3
<1>10. CASE WriteFormat(h)
  <2>1. handle[h] \in [at : {"format"}, next : 1 .. Reserved + 1] /\ handle[h].next \in 1 .. Reserved
    <3>1. handle[h] \in [at : {"format"}, next : 1 .. Reserved + 1] /\ handle[h].next <= Reserved
      BY <1>10, Whereabouts, Shapes DEF WriteFormat, WritesFormat, InFormat
    <3>2. handle[h].next \in 1 .. Reserved + 1
      BY <3>1
    <3> QED BY <1>0, <3>1, <3>2
  <2>2. [handle[h] EXCEPT !.next = @ + 1] \in [at : {"format"}, next : 1 .. Reserved + 1]
    BY <2>1, <1>0
  <2>3. [handle[h] EXCEPT !.next = @ + 1] \in States
    BY <2>2 DEF States
  <2>4. Target(handle[h].next) \in Pages
    BY <2>1, Targets
  <2>5. Fresh(Target(handle[h].next)) \in Contents
    BY <2>4, <1>0 DEF Fresh, Contents, Pages, Directory
  <2> QED BY <1>4, <1>10, <2>3, <2>5 DEF WriteFormat, WritesFormat
<1>11. CASE FinishFormat(h)
  <2>1. [at |-> "open", active |-> 0, txn |-> 1]
          \in [at : {"open", "commit"}, active : 0 .. 1, txn : 0 .. MaxTxn]
    OBVIOUS
  <2>2. [at |-> "open", active |-> 0, txn |-> 1] \in States
    BY <2>1 DEF States
  <2> QED BY <1>3, <1>11, <2>2 DEF FinishFormat
<1>12. CASE TearFormat(h)
  BY <1>2, <1>4, <1>12 DEF TearFormat, WritesFormat, Contents
<1>13. CASE \E p \in Directory : BeginCommit(h, p)
  <2>1. PICK p \in Directory : BeginCommit(h, p)
    BY <1>13
  <2>2. size = Reserved
    BY <2>1, Whereabouts DEF BeginCommit, Sound, At
  <2>3. page[Active] \in 0 .. MaxTxn /\ Active \in 0 .. 1
    <3>1. Valid(page[Active]) /\ Active \in {0, 1}
      BY <1>0, <2>1, CommittedIsActive DEF BeginCommit, TypeOK
    <3> QED BY <3>1 DEF Valid
  <2>4. [at |-> "commit", active |-> Active, txn |-> page[Active]] \in States
    BY <2>3 DEF States
  <2>5. handle' \in [Handles -> States]
    BY <1>0, <2>1, <2>4, Moves DEF BeginCommit, TypeOK
  <2>6. p \in Pages /\ Symbols \in Contents
    BY DEF Directory, Pages, Contents
  <2> QED BY <1>5, <2>1, <2>2, <2>5, <2>6 DEF BeginCommit
<1>14. ASSUME HalfMeta(h) \/ Publish(h)
       PROVE  /\ Slot(handle[h]) \in Pages /\ size = Reserved /\ handle[h].txn + 1 \in 0 .. MaxTxn
              /\ Slot(handle[h]) \in 0 .. 1
  <2>1. handle[h] \in [at : {"open", "commit"}, active : 0 .. 1, txn : 0 .. MaxTxn]
    BY <1>14, Whereabouts, Shapes DEF HalfMeta, Publish
  <2>2. Sound
    BY <1>14, Whereabouts DEF HalfMeta, Publish, At
  <2>3. handle[h].txn < MaxTxn /\ size = Reserved
    BY <1>14, <2>2 DEF Sound, CommitOnActive, HalfMeta, Publish, At
  <2> QED BY <1>0, <2>1, <2>3 DEF Slot, Pages
<1>15. CASE HalfMeta(h)
  <2>1. Torn \in Contents /\ handle' \in [Handles -> States]
    BY <1>0, <1>15 DEF Contents, HalfMeta, TypeOK
  <2> QED BY <1>5, <1>14, <1>15, <2>1 DEF HalfMeta
<1>16. CASE Publish(h)
  <2>1. handle[h].txn + 1 \in Contents
    BY <1>14, <1>16 DEF Contents
  <2>2. [at |-> "open", active |-> Slot(handle[h]), txn |-> handle[h].txn + 1] \in States
    BY <1>14, <1>16 DEF States
  <2>3. handle' \in [Handles -> States]
    BY <1>0, <1>16, <2>2, Moves DEF Publish, TypeOK
  <2> QED BY <1>5, <1>14, <1>16, <2>1, <2>3 DEF Publish
<1>17. CASE Stop(h)
  BY <1>2, <1>3, <1>17 DEF Stop
<1> QED BY <1>1, <1>6, <1>7, <1>8, <1>9, <1>10, <1>11, <1>12, <1>13, <1>15, <1>16, <1>17

------------------------------------------------------------------------------
(* The three kinds of file.                                                *)

\* What a step of a handle does to a foreign file: nothing.
LEMMA UntouchedStep ==
  ASSUME IInv, ~ours, Next PROVE Untouched' /\ UNCHANGED <<page, size, ours>>
<1> USE BoundsAssumption
<1>0. /\ TypeOK /\ Untouched /\ Reserved \in Nat /\ Reserved >= 3 /\ size \in 1 .. Reserved
      /\ handle \in [Handles -> States]
  BY DEF IInv, TypeOK, Untouched, Reserved
<1>1. PICK h \in Handles :
        \/ Open(h) \/ Check(h) \/ ReadMetaA(h) \/ ReadMetaB(h)
        \/ WriteFormat(h) \/ FinishFormat(h) \/ TearFormat(h)
        \/ \E p \in Directory : BeginCommit(h, p)
        \/ HalfMeta(h) \/ Publish(h) \/ Stop(h)
  BY DEF Next
<1>2. At(h) \in {"closed", "corrupt", "check", "meta A", "meta B"} /\ Refuses(h)
  BY <1>0 DEF Untouched, Refuses
<1>3. ASSUME NEW s, Becomes(h, s), UNCHANGED <<page, size, ours>>, handle'[h] = s => Refuses(h)'
      PROVE  Untouched' /\ UNCHANGED <<page, size, ours>>
  <2>1. handle'[h] = s /\ \A g \in Handles : g # h => handle'[g] = handle[g]
    BY <1>0, <1>3, Moves
  <2>2. \A g \in Handles : Refuses(g)'
    BY <1>0, <1>3, <2>1 DEF Untouched, Refuses, At
  <2> QED BY <1>0, <1>3, <2>2 DEF Untouched
<1>4. CASE Open(h)
  <2>1. size # 0
    BY <1>0
  <2>2. CASE size < Reserved
    <3>1. Becomes(h, [at |-> "check", pages |-> size, next |-> 0]) /\ UNCHANGED <<page, size, ours>>
      BY <1>4, <2>1, <2>2 DEF Open
    <3>2. handle'[h] = [at |-> "check", pages |-> size, next |-> 0] => Refuses(h)'
      BY <1>0, <3>1 DEF Refuses, At, Pages
    <3> QED BY <1>3, <3>1, <3>2
  <2>3. CASE size = Reserved
    <3>1. Becomes(h, [at |-> "meta A"]) /\ UNCHANGED <<page, size, ours>>
      <4>1. ~(size < Reserved)
        BY <1>0, <2>3
      <4> QED BY <1>4, <2>1, <4>1 DEF Open
    <3>2. handle'[h] = [at |-> "meta A"] => Refuses(h)'
      <4>1. [at |-> "meta A"].at = "meta A" /\ size' = Reserved
        BY <2>3, <3>1
      <4> QED BY <4>1 DEF Refuses, At
    <3> QED BY <1>3, <3>1, <3>2
  <2> QED BY <1>0, <2>2, <2>3
<1>5. CASE Check(h)
  <2>1. /\ handle[h] \in [at : {"check"}, pages : 1 .. Reserved - 1, next : Pages]
        /\ handle[h].pages = size /\ handle[h].next < size
        /\ \A i \in Pages : i < handle[h].next => page[i] = Zero
    BY <1>2, <1>5, Whereabouts, Shapes DEF Check, At, Refuses
  <2>2. CASE page[handle[h].next] # Zero
    <3>1. Becomes(h, Corrupt) /\ UNCHANGED <<page, size, ours>>
      BY <1>5, <2>2 DEF Check
    <3>2. handle'[h] = Corrupt => Refuses(h)'
      BY DEF Refuses, At, Corrupt
    <3> QED BY <1>3, <3>1, <3>2
  <2>3. CASE page[handle[h].next] = Zero
    <3>1. PICK p \in Pages : p < size /\ page[p] # Zero
      BY <1>0, <2>1 DEF Untouched
    <3>2. handle[h].next # LastPage(handle[h])
      <4>1. p \in Nat /\ handle[h].next \in Nat /\ size \in Nat
        BY <1>0, <2>1 DEF Pages
      <4>2. ~(p < handle[h].next) /\ p # handle[h].next
        BY <2>1, <2>3, <3>1
      <4> QED BY <2>1, <3>1, <4>1, <4>2 DEF LastPage
    <3>3. Becomes(h, [handle[h] EXCEPT !.next = @ + 1]) /\ UNCHANGED <<page, size, ours>>
      BY <1>5, <2>3, <3>2 DEF Check
    <3> DEFINE s == [handle[h] EXCEPT !.next = @ + 1]
    <3>4. /\ s.at = "check" /\ s.pages = size /\ s.next = handle[h].next + 1
          /\ handle[h].next \in Nat /\ size \in Nat
      BY <1>0, <2>1 DEF Pages
    <3> HIDE DEF s
    <3>5. s.next < size
      BY <2>1, <3>2, <3>4 DEF LastPage
    <3>6. \A i \in Pages : i < s.next => page[i] = Zero
      BY <2>1, <2>3, <3>4 DEF Pages
    <3>7. handle'[h] = s => Refuses(h)'
      BY <3>3, <3>4, <3>5, <3>6 DEF Refuses, At
    <3> QED BY <1>3, <3>3, <3>7 DEF s
  <2> QED BY <2>2, <2>3
<1>6. CASE ReadMetaA(h)
  <2>1. size = Reserved /\ ~Valid(page[0])
    BY <1>0, <1>2, <1>6 DEF Refuses, Untouched, Refused, ReadMetaA, At
  <2>2. Becomes(h, [at |-> "meta B", first |-> page[0]]) /\ UNCHANGED <<page, size, ours>>
    BY <1>6 DEF ReadMetaA
  <2>3. handle'[h] = [at |-> "meta B", first |-> page[0]] => Refuses(h)'
    <3> DEFINE s == [at |-> "meta B", first |-> page[0]]
    <3>1. s.at = "meta B" /\ ~Valid(s.first) /\ size' = Reserved
      BY <2>1, <2>2
    <3> HIDE DEF s
    <3>2. handle'[h] = s => Refuses(h)'
      BY <3>1 DEF Refuses, At, Valid
    <3> QED BY <3>2 DEF s
  <2> QED BY <1>3, <2>2, <2>3
<1>7. CASE ReadMetaB(h)
  <2>1. Refused(handle[h].first, page[1])
    BY <1>0, <1>2, <1>7 DEF Refuses, Untouched, Refused, ReadMetaB, At
  <2>2. Becomes(h, Corrupt) /\ UNCHANGED <<page, size, ours>>
    BY <1>7, <2>1 DEF ReadMetaB
  <2>3. handle'[h] = Corrupt => Refuses(h)'
    BY DEF Refuses, At, Corrupt
  <2> QED BY <1>3, <2>2, <2>3
<1>8. CASE Stop(h)
  <2>1. handle'[h] = Closed => Refuses(h)'
    BY DEF Refuses, At, Closed
  <2> QED BY <1>3, <1>8, <2>1 DEF Stop
<1>9. ~(\/ WriteFormat(h) \/ FinishFormat(h) \/ TearFormat(h)
        \/ \E p \in Directory : BeginCommit(h, p)
        \/ HalfMeta(h) \/ Publish(h))
  BY <1>2 DEF WriteFormat, FinishFormat, TearFormat, WritesFormat, InFormat, BeginCommit,
              HalfMeta, Publish, At
<1> QED BY <1>1, <1>4, <1>5, <1>6, <1>7, <1>8, <1>9

\* What no step takes from a database or from one that is being made.
Kept ==
  /\ \A i \in {0, 1} : Valid(page[i]) => \E j \in {0, 1} : Valid(page'[j]) /\ page'[j] >= page[i]
  /\ \A p \in Directory : page[p] = Symbols => page'[p] = Symbols

\* A step on a file without a meta page leaves it without one, or makes it a
\* database.
LEMMA BlankStep ==
  ASSUME IInv, ours, Blank, Excluded, Next
  PROVE  OneAtATime' /\ (Blank' \/ Sound') /\ Kept
<1> USE BoundsAssumption
<1>0. /\ TypeOK /\ OneAtATime /\ Reserved \in Nat /\ Reserved = DirPages + 2 /\ DirPages \in Nat
      /\ size \in 0 .. Reserved /\ handle \in [Handles -> States] /\ page \in [Pages -> Contents]
      /\ 0 \in Pages /\ 1 \in Pages
  BY DEF IInv, TypeOK, Reserved, Pages
<1>1. PICK h \in Handles :
        \/ Open(h) \/ Check(h) \/ ReadMetaA(h) \/ ReadMetaB(h)
        \/ WriteFormat(h) \/ FinishFormat(h) \/ TearFormat(h)
        \/ \E p \in Directory : BeginCommit(h, p)
        \/ HalfMeta(h) \/ Publish(h) \/ Stop(h)
  BY DEF Next
<1>2. At(h) \in {"closed", "check", "format"} /\ Begins(h) /\ \A g \in Handles : Begins(g)
  BY DEF Blank, Begins
<1>3. Kept
  <2>1. ~Valid(page[0]) /\ ~Valid(page[1]) /\ \A p \in Directory : page[p] # Symbols
    BY <1>0, Marks DEF Blank, Valid, Directory, Pages
  <2> QED BY <2>1 DEF Kept
\* A step of an open that is, or leaves, alone with the file.
<1>4. ASSUME NEW s, Becomes(h, s), \A g \in Handles : g # h => handle[g] = Closed PROVE OneAtATime'
  <2>1. \A g \in Handles : g # h => handle'[g] = Closed
    BY <1>0, <1>4, Moves
  <2>2. Closed.at = "closed"
    BY DEF Closed
  <2> QED BY <2>1, <2>2 DEF OneAtATime, At
<1>5. ASSUME NEW s, Becomes(h, s), UNCHANGED <<page, size, ours>>, size < Reserved,
             handle'[h] = s => Begins(h)'
      PROVE  Blank'
  <2>1. handle'[h] = s /\ \A g \in Handles : g # h => handle'[g] = handle[g]
    BY <1>0, <1>5, Moves
  <2>2. \A g \in Handles : Begins(g)'
    BY <1>2, <1>5, <2>1 DEF Begins, At, Late, InFormat
  <2>3. size' # Reserved /\ \A p \in Pages : page'[p] = Zero
    BY <1>0, <1>5 DEF Blank
  <2> QED BY <2>2, <2>3 DEF Blank
<1>6. Formatting.at = "format" /\ Formatting.next = 1
  BY DEF Formatting
<1>7. (handle'[h] = Formatting => Begins(h)') /\ (handle'[h] = Closed => Begins(h)')
  BY <1>0, <1>6 DEF Begins, At, Late, InFormat, Closed
<1>8. CASE Open(h)
  <2>1. \A g \in Handles : At(g) \notin {"check", "format"}
    BY <1>8 DEF Open, Excluded, At
  <2>2. size < Reserved
    BY <1>0, <2>1 DEF Blank, Late, InFormat, At
  <2>3. \A g \in Handles : handle[g] = Closed
    BY <1>0, <1>2, <2>1, Shapes DEF Begins, At
  <2>4. CASE size = 0
    <3>1. Becomes(h, Formatting) /\ UNCHANGED <<page, size, ours>>
      BY <1>8, <2>4 DEF Open
    <3> QED BY <1>3, <1>4, <1>5, <1>7, <2>2, <2>3, <3>1
  <2>5. CASE size # 0
    <3>1. Becomes(h, [at |-> "check", pages |-> size, next |-> 0]) /\ UNCHANGED <<page, size, ours>>
      BY <1>8, <2>2, <2>5 DEF Open
    <3>2. handle'[h] = [at |-> "check", pages |-> size, next |-> 0] => Begins(h)'
      BY <1>0, <2>5, <3>1 DEF Begins, At, Late, InFormat
    <3> QED BY <1>3, <1>4, <1>5, <2>2, <2>3, <3>1, <3>2
  <2> QED BY <2>4, <2>5
<1>9. CASE Check(h)
  <2>1. /\ handle[h] \in [at : {"check"}, pages : 1 .. Reserved - 1, next : Pages]
        /\ handle[h].pages = size /\ handle[h].next < size
    BY <1>2, <1>9, Whereabouts, Shapes DEF Check, At, Begins
  <2>2. \A g \in Handles : g # h => handle[g] = Closed
    BY <1>0, <1>9 DEF OneAtATime, Check, At
  <2>3. size < Reserved /\ page[handle[h].next] = Zero
    <3>1. handle[h].pages \in 1 .. Reserved - 1 /\ handle[h].next \in Pages
      BY <2>1
    <3> QED BY <1>0, <2>1, <3>1 DEF Blank
  <2>4. CASE handle[h].next = LastPage(handle[h])
    <3>1. Becomes(h, Formatting) /\ UNCHANGED <<page, size, ours>>
      BY <1>9, <2>3, <2>4 DEF Check
    <3> QED BY <1>3, <1>4, <1>5, <1>7, <2>2, <2>3, <3>1
  <2>5. CASE handle[h].next # LastPage(handle[h])
    <3> DEFINE s == [handle[h] EXCEPT !.next = @ + 1]
    <3>1. Becomes(h, s) /\ UNCHANGED <<page, size, ours>>
      BY <1>9, <2>3, <2>5 DEF Check
    <3>2. /\ s.at = "check" /\ s.pages = size /\ s.next = handle[h].next + 1
          /\ handle[h].next \in Nat /\ size \in Nat
      BY <1>0, <2>1 DEF Pages
    <3> HIDE DEF s
    <3>3. s.next < size
      BY <2>1, <2>5, <3>2 DEF LastPage
    <3>4. handle'[h] = s => Begins(h)'
      BY <3>1, <3>2, <3>3 DEF Begins, At, Late, InFormat
    <3> QED BY <1>3, <1>4, <1>5, <2>2, <2>3, <3>1, <3>4
  <2> QED BY <2>4, <2>5
<1>10. CASE WriteFormat(h)
  <2> DEFINE n == handle[h].next
             s == [handle[h] EXCEPT !.next = @ + 1]
             p == Target(n)
  <2>1. /\ n \in 1 .. DirPages + 1 /\ s.at = "format" /\ s.next = n + 1
        /\ At(h) = "format"
    <3>1. handle[h] \in [at : {"format"}, next : 1 .. Reserved + 1]
      BY <1>10, Whereabouts, Shapes DEF WriteFormat, WritesFormat, InFormat
    <3>2. n \in 1 .. Reserved + 1 /\ s.at = "format" /\ s.next = n + 1 /\ At(h) = "format"
      BY <3>1 DEF At
    <3>3. n <= DirPages + 1
      BY <1>2, <3>2 DEF Begins, At
    <3> QED BY <1>0, <3>2, <3>3
  <2>2. \A g \in Handles : g # h => handle[g] = Closed
    BY <1>0, <2>1 DEF OneAtATime
  <2>3. page' = [page EXCEPT ![p] = Fresh(p)] /\ size' = Grown(p) /\ Becomes(h, s)
    BY <1>10 DEF WriteFormat, FormatStep
  <2>4. /\ p \in Pages /\ p \in Nat
        /\ n <= DirPages => p \in Directory /\ p = n + 1
        /\ n = DirPages + 1 => p = 0
    <3>1. n \in 1 .. Reserved
      BY <1>0, <2>1
    <3>2. p \in Pages
      BY <3>1, Targets
    <3> QED BY <1>0, <3>1, <3>2, Targets DEF Pages
  <2>5. (n = DirPages + 1) <=> Late(h)
    BY <2>1 DEF Late, InFormat, At
  <2>6. handle'[h] = s /\ \A g \in Handles : g # h => handle'[g] = Closed
    BY <1>0, <2>2, <2>3, Moves
  <2>7. OneAtATime'
    BY <1>4, <2>2, <2>3
  <2> HIDE DEF n, s, p
  <2>8. size' = IF size >= p + 1 THEN size ELSE p + 1
    BY <1>0, <2>3, <2>4, GrownIs
  <2>9. Closed.at = "closed"
    BY DEF Closed
  <2>10. CASE n <= DirPages
    <3>1. p \in Directory /\ p = n + 1 /\ \A q \in Pages : page'[q] = Zero
      BY <1>0, <2>3, <2>4, <2>10 DEF Blank, Fresh
    <3>2. size < Reserved
      <4>1. ~Late(h)
        BY <1>0, <2>1, <2>5, <2>10
      <4>2. \A g \in Handles : ~Late(g)
        BY <2>2, <2>9, <4>1 DEF Late, InFormat
      <4> QED BY <1>0, <4>2 DEF Blank
    <3>3. size' = Reserved <=> n = DirPages
      BY <1>0, <2>1, <2>8, <3>1, <3>2
    <3>4. Late(h)' <=> n = DirPages
      BY <1>0, <2>1, <2>6 DEF Late, InFormat
    <3>5. At(h)' = "format" /\ handle'[h].next <= DirPages + 1
      BY <1>0, <2>1, <2>6, <2>10 DEF At
    <3>6. Begins(h)'
      BY <3>3, <3>4, <3>5 DEF Begins
    <3>7. \A g \in Handles : g # h => Begins(g)'
      BY <2>6, <2>9 DEF Begins, At, Late, InFormat
    <3>8. Blank'
      BY <3>1, <3>3, <3>4, <3>6, <3>7 DEF Blank
    <3> QED BY <1>3, <2>7, <3>8
  <2>11. CASE n = DirPages + 1
    <3>1. p = 0 /\ size' = Reserved
      BY <1>0, <1>2, <2>4, <2>5, <2>8, <2>11 DEF Begins
    <3>2. page'[0] = 1 /\ page'[1] = Zero
      BY <1>0, <2>3, <3>1 DEF Fresh, Directory, Blank
    <3>3. ~Refused(page'[0], page'[1])
      BY <3>2 DEF Refused, Valid
    <3>4. At(h)' = "format" /\ FormatNearlyDone(h)' /\ CommitOnActive(h)' /\ SecondMetaWhole(h)'
      <4>1. handle'[h].at = "format" /\ handle'[h].next = n + 1 /\ n + 1 > DirPages + 1
        BY <1>0, <2>1, <2>6, <2>11
      <4> QED BY <3>2, <4>1 DEF At, FormatNearlyDone, CommitOnActive, SecondMetaWhole
    <3>5. \A g \in Handles : g # h =>
            At(g)' = "closed" /\ FormatNearlyDone(g)' /\ CommitOnActive(g)' /\ SecondMetaWhole(g)'
      BY <2>6, <2>9 DEF At, FormatNearlyDone, CommitOnActive, SecondMetaWhole
    <3>6. Sound'
      BY <3>1, <3>3, <3>4, <3>5 DEF Sound
    <3> QED BY <1>3, <2>7, <3>6
  <2> QED BY <1>0, <2>1, <2>10, <2>11
<1>11. CASE Stop(h)
  <2>1. ~Late(h) /\ At(h) \in {"check", "format"}
    BY <1>0, <1>2, <1>11, Shapes DEF Stop, MayStop, Excluded, Free, At
  <2>2. \A g \in Handles : g # h => handle[g] = Closed
    BY <1>0, <2>1 DEF OneAtATime
  <2>3. size < Reserved
    <3>1. \A g \in Handles : ~Late(g)
      BY <2>1, <2>2 DEF Late, InFormat, Closed
    <3> QED BY <1>0, <3>1 DEF Blank
  <2> QED BY <1>3, <1>4, <1>5, <1>7, <1>11, <2>2, <2>3 DEF Stop
<1>12. ~TearFormat(h)
  <2>1. ASSUME TearFormat(h) PROVE FALSE
    <3>1. handle[h].next > DirPages /\ handle[h].next <= DirPages + 1 /\ InFormat(h)
      BY <1>2, <2>1 DEF TearFormat, WritesFormat, InFormat, Begins, At
    <3>2. handle[h] \in [at : {"format"}, next : 1 .. Reserved + 1]
      BY <3>1, Whereabouts, Shapes DEF InFormat
    <3>3. handle[h].next \in Nat
      BY <1>0, <3>2
    <3>4. Late(h)
      BY <1>0, <3>1, <3>3 DEF Late
    <3> QED BY <2>1, <3>4 DEF TearFormat, MayStop, Excluded
  <2> QED BY <2>1
<1>13. ~FinishFormat(h)
  <2>1. ASSUME FinishFormat(h) PROVE FALSE
    <3>1. handle[h].next > Reserved /\ handle[h].next <= DirPages + 1 /\ InFormat(h)
      BY <1>2, <2>1 DEF FinishFormat, InFormat, Begins, At
    <3>2. handle[h] \in [at : {"format"}, next : 1 .. Reserved + 1]
      BY <3>1, Whereabouts, Shapes DEF InFormat
    <3>3. handle[h].next \in Nat
      BY <1>0, <3>2
    <3> QED BY <1>0, <3>1, <3>3
  <2> QED BY <2>1
<1>14. ~(\/ ReadMetaA(h) \/ ReadMetaB(h) \/ \E p \in Directory : BeginCommit(h, p)
         \/ HalfMeta(h) \/ Publish(h))
  BY <1>2 DEF ReadMetaA, ReadMetaB, BeginCommit, HalfMeta, Publish, At
<1> QED BY <1>1, <1>8, <1>9, <1>10, <1>11, <1>12, <1>13, <1>14

\* The active meta page of two.
LEMMA ActiveIs ==
  ASSUME ~Refused(page[0], page[1])
  PROVE  /\ Active \in {0, 1} /\ Valid(page[Active])
         /\ (~Valid(page[0]) => Active = 1)
         /\ \A i \in {0, 1} : Valid(page[i]) => page[i] <= page[Active]
BY CommittedIsActive, BoundsAssumption DEF Active, ActiveOf, Refused, Valid

\* The meta page that is not in use may be torn: the other one stays active.
LEMMA ActiveStays ==
  ASSUME ~Refused(page[0], page[1]), page'[Active] = page[Active], ~Valid(page'[1 - Active])
  PROVE  Active' = Active /\ ~Refused(page'[0], page'[1])
<1>1. Active \in {0, 1} /\ Valid(page[Active])
  BY ActiveIs
<1>2. CASE Active = 0
  <2>1. Valid(page'[0]) /\ ~Valid(page'[1])
    BY <1>1, <1>2
  <2>2. Active' = 0
    BY <2>1 DEF Active, ActiveOf, Valid
  <2> QED BY <1>2, <2>1, <2>2 DEF Refused
<1>3. CASE Active = 1
  <2>1. Valid(page'[1]) /\ ~Valid(page'[0])
    BY <1>1, <1>3
  <2>2. Active' = 1
    BY <2>1 DEF Active, ActiveOf, Valid
  <2> QED BY <1>3, <2>1, <2>2 DEF Refused
<1> QED BY <1>1, <1>2, <1>3

\* A step on a database leaves a database, with all that was in it.
LEMMA SoundStep ==
  ASSUME IInv, ours, Sound, Excluded, Next
  PROVE  OneAtATime' /\ Sound' /\ Kept
<1> USE BoundsAssumption
<1>0. /\ TypeOK /\ Reserved \in Nat /\ Reserved = DirPages + 2
      /\ DirPages \in Nat \ {0} /\ size = Reserved /\ ~Refused(page[0], page[1])
      /\ handle \in [Handles -> States] /\ page \in [Pages -> Contents] /\ 0 \in Pages /\ 1 \in Pages
  <2>1. TypeOK /\ size = Reserved /\ ~Refused(page[0], page[1])
    BY DEF IInv, Sound
  <2>2. handle \in [Handles -> States] /\ page \in [Pages -> Contents]
    BY <2>1 DEF TypeOK
  <2>3. Reserved \in Nat /\ Reserved = DirPages + 2 /\ DirPages \in Nat \ {0}
    BY DEF Reserved
  <2>4. 0 \in Pages /\ 1 \in Pages
    BY <2>3 DEF Pages
  <2> QED BY <2>1, <2>2, <2>3, <2>4
<1>1. PICK h \in Handles :
        \/ Open(h) \/ Check(h) \/ ReadMetaA(h) \/ ReadMetaB(h)
        \/ WriteFormat(h) \/ FinishFormat(h) \/ TearFormat(h)
        \/ \E p \in Directory : BeginCommit(h, p)
        \/ HalfMeta(h) \/ Publish(h) \/ Stop(h)
  BY DEF Next
<1> DEFINE Places == {"closed", "format", "meta A", "meta B", "open", "commit"}
<1>2. \A g \in Handles :
        At(g) \in Places /\ FormatNearlyDone(g) /\ CommitOnActive(g) /\ SecondMetaWhole(g)
  BY DEF Sound
<1>3. UNCHANGED page => Kept
  BY DEF Kept, Valid
<1>4. Closed.at = "closed"
  BY DEF Closed
\* Who is alone with the file, and who is not.
<1>5. ASSUME At(h) = "format" PROVE \A g \in Handles : g # h => handle[g] = Closed
  BY <1>5, Whereabouts DEF OneAtATime
<1>6. ASSUME At(h) # "format", At(h) # "closed"
      PROVE  \A g \in Handles : At(g) \notin {"check", "format"}
  <2> SUFFICES ASSUME NEW g \in Handles, At(g) = "format" PROVE FALSE
    BY <1>2
  <2>1. handle[h] = Closed
    BY <1>6, Whereabouts DEF OneAtATime
  <2> QED BY <1>4, <1>6, <2>1 DEF At
<1>7. ASSUME NEW s, Becomes(h, s), s.at # "check", s.at # "format",
             \A g \in Handles : At(g) \notin {"check", "format"}
      PROVE  OneAtATime'
  BY <1>0, <1>7, Moves DEF OneAtATime, At
<1>8. ASSUME NEW s, Becomes(h, s), At(h) = "format" PROVE OneAtATime'
  BY <1>0, <1>4, <1>5, <1>8, Moves DEF OneAtATime, At
\* The others see no difference when the pages stay and nobody begins a commit.
<1>9. ASSUME NEW s, Becomes(h, s), UNCHANGED <<page, size, ours>>,
             s.at \in {"closed", "meta A", "meta B", "open"},
             s.at = "meta B" => SecondMetaWhole(h)'
      PROVE  Sound'
  <2>1. handle'[h] = s /\ \A g \in Handles : g # h => handle'[g] = handle[g]
    BY <1>0, <1>9, Moves
  <2>2. Active' = Active
    BY <1>9 DEF Active
  <2>3. At(h)' \in Places /\ FormatNearlyDone(h)' /\ CommitOnActive(h)' /\ SecondMetaWhole(h)'
    BY <1>9, <2>1 DEF At, FormatNearlyDone, CommitOnActive, SecondMetaWhole
  <2>4. ASSUME NEW g \in Handles, g # h
        PROVE  At(g)' \in Places /\ FormatNearlyDone(g)' /\ CommitOnActive(g)' /\ SecondMetaWhole(g)'
    <3>1. At(g)' = At(g) /\ handle'[g] = handle[g]
      BY <2>1, <2>4 DEF At
    <3>2. FormatNearlyDone(g)'
      BY <1>2, <1>9, <3>1 DEF FormatNearlyDone
    <3>3. \A f \in Handles : At(f)' = "commit" => At(f) = "commit" /\ handle'[f] = handle[f]
      BY <1>9, <2>1 DEF At
    <3>4. CommitOnActive(g)'
      BY <1>2, <1>9, <2>2, <3>1, <3>3 DEF CommitOnActive
    <3>5. SecondMetaWhole(g)'
      BY <1>2, <1>9, <3>1, <3>3 DEF SecondMetaWhole, Valid
    <3> QED BY <1>2, <3>1, <3>2, <3>4, <3>5
  <2>5. \A g \in Handles :
          At(g)' \in Places /\ FormatNearlyDone(g)' /\ CommitOnActive(g)' /\ SecondMetaWhole(g)'
    BY <2>3, <2>4
  <2>6. size' = Reserved /\ ~Refused(page'[0], page'[1])
    BY <1>0, <1>9
  <2> QED BY <2>5, <2>6 DEF Sound
<1>10. CASE Open(h)
  <2>1. \A g \in Handles : At(g) \notin {"check", "format"}
    BY <1>10 DEF Open, Excluded, At
  <2>2. Becomes(h, [at |-> "meta A"]) /\ UNCHANGED <<page, size, ours>>
    <3>1. size # 0 /\ ~(size < Reserved)
      BY <1>0
    <3> QED BY <1>10, <3>1 DEF Open
  <2>3. [at |-> "meta A"].at = "meta A"
    OBVIOUS
  <2> QED BY <1>3, <1>7, <1>9, <2>1, <2>2, <2>3
<1>11. CASE ReadMetaA(h)
  <2> DEFINE s == [at |-> "meta B", first |-> page[0]]
  <2>1. Becomes(h, s) /\ UNCHANGED <<page, size, ours>> /\ At(h) = "meta A"
    BY <1>11 DEF ReadMetaA, At
  <2>2. s.at = "meta B" /\ s.first = page[0]
    OBVIOUS
  <2> HIDE DEF s
  <2>3. handle'[h] = s /\ \A g \in Handles : g # h => handle'[g] = handle[g]
    BY <1>0, <2>1, Moves
  <2>4. SecondMetaWhole(h)'
    <3>1. ~Valid(page[0]) => Valid(page[1]) /\ Active = 1
      BY <1>0, ActiveIs DEF Refused
    <3>2. \A g \in Handles : At(g)' = "commit" => At(g) = "commit" /\ handle'[g].active = Active
      <4>1. \A g \in Handles : At(g)' = "commit" => g # h
        BY <2>2, <2>3 DEF At
      <4>2. \A g \in Handles : At(g)' = "commit" => At(g) = "commit" /\ handle'[g] = handle[g]
        BY <2>3, <4>1 DEF At
      <4>3. \A g \in Handles : CommitOnActive(g)
        BY <1>2
      <4> QED BY <4>2, <4>3 DEF CommitOnActive
    <3>3. page'[0] = page[0] /\ page'[1] = page[1]
      BY <2>1
    <3> QED BY <2>2, <2>3, <3>1, <3>2, <3>3 DEF SecondMetaWhole, Valid
  <2> QED BY <1>3, <1>6, <1>7, <1>9, <2>1, <2>2, <2>4
<1>12. CASE ReadMetaB(h)
  <2> DEFINE a == handle[h].first
             s == [at |-> "open", active |-> ActiveOf(a, page[1]),
                   txn |-> IF ActiveOf(a, page[1]) = 0 THEN a ELSE page[1]]
  <2>1. At(h) = "meta B" /\ ~Refused(a, page[1])
    BY <1>2, <1>12 DEF ReadMetaB, At, SecondMetaWhole, Refused
  <2>2. Becomes(h, s) /\ UNCHANGED <<page, size, ours>>
    BY <1>12, <2>1 DEF ReadMetaB
  <2>3. s.at = "open"
    OBVIOUS
  <2> HIDE DEF s, a
  <2> QED BY <1>3, <1>6, <1>7, <1>9, <2>1, <2>2, <2>3
<1>13. CASE FinishFormat(h)
  <2>1. /\ Becomes(h, [at |-> "open", active |-> 0, txn |-> 1])
        /\ UNCHANGED <<page, size, ours>> /\ At(h) = "format"
    BY <1>13 DEF FinishFormat, InFormat, At
  <2>2. [at |-> "open", active |-> 0, txn |-> 1].at = "open"
    OBVIOUS
  <2> QED BY <1>3, <1>8, <1>9, <2>1, <2>2
<1>14. CASE Stop(h)
  <2>1. Becomes(h, Closed) /\ UNCHANGED <<page, size, ours>> /\ At(h) # "closed"
    BY <1>0, <1>14, Shapes DEF Stop, Free, At
  <2> QED BY <1>3, <1>4, <1>6, <1>7, <1>8, <1>9, <2>1
\* The end of a format writes meta page B, or tears it.
<1>15. ASSUME NEW s, NEW c, WritesFormat(h), FormatStep(h, c), Becomes(h, s), UNCHANGED ours,
              c = 0 \/ ~Valid(c),
              s = Closed \/ (/\ s.at = "format" /\ s.next = handle[h].next + 1)
       PROVE  Sound' /\ Kept
  <2>1. handle[h].next = Reserved /\ Target(Reserved) = 1 /\ page[0] = 1 /\ page[1] = Zero
    <3>1. handle[h] \in [at : {"format"}, next : 1 .. Reserved + 1]
      BY <1>15, Whereabouts, Shapes DEF WritesFormat, InFormat
    <3>2. handle[h].next \in Int /\ handle[h].next <= Reserved /\ At(h) = "format"
      BY <1>0, <1>15, <3>1 DEF WritesFormat, InFormat, At
    <3>3. handle[h].next = Reserved
      <4>1. FormatNearlyDone(h)
        BY <1>2
      <4>2. handle[h].next > DirPages + 1
        BY <3>2, <4>1 DEF FormatNearlyDone
      <4> QED BY <1>0, <3>2, <4>2
    <3>4. Target(Reserved) = 1
      BY <1>0, Targets
    <3> QED BY <1>2, <3>2, <3>3, <3>4 DEF FormatNearlyDone
  <2>2. page' = [page EXCEPT ![1] = c] /\ size' = Grown(1)
    BY <1>15, <2>1 DEF FormatStep
  <2>3. size' = Reserved
    BY <1>0, <2>2, GrownIs
  <2>4. page'[0] = 1 /\ page'[1] = c
    BY <1>0, <2>1, <2>2
  <2>5. Kept
    <3>1. ~Valid(page[1]) /\ Valid(page[0]) /\ Valid(page'[0]) /\ page'[0] >= page[0]
      BY <2>1, <2>4, Marks DEF Valid
    <3>2. \A p \in Directory : page'[p] = page[p]
      BY <1>0, <2>2 DEF Directory, Pages
    <3> QED BY <3>1, <3>2 DEF Kept
  <2>6. handle'[h] = s /\ \A g \in Handles : g # h => handle'[g] = Closed
    BY <1>0, <1>5, <1>15, Moves DEF WritesFormat, InFormat, At
  <2>7. At(h)' \in Places /\ FormatNearlyDone(h)' /\ CommitOnActive(h)' /\ SecondMetaWhole(h)'
    <3>1. s = Closed \/ (s.at = "format" /\ s.next = Reserved + 1)
      BY <1>15, <2>1
    <3>2. CASE s = Closed
      BY <1>4, <2>6, <3>2 DEF At, FormatNearlyDone, CommitOnActive, SecondMetaWhole
    <3>3. CASE s.at = "format" /\ s.next = Reserved + 1
      <4>1. Reserved + 1 > DirPages + 1 /\ Reserved + 1 # Reserved
        BY <1>0
      <4> QED BY <2>4, <2>6, <3>3, <4>1 DEF At, FormatNearlyDone, CommitOnActive, SecondMetaWhole
    <3> QED BY <3>1, <3>2, <3>3
  <2>8. ~Refused(page'[0], page'[1])
    BY <2>4 DEF Refused, Valid
  <2>9. \A g \in Handles :
          At(g)' \in Places /\ FormatNearlyDone(g)' /\ CommitOnActive(g)' /\ SecondMetaWhole(g)'
    BY <1>4, <2>6, <2>7 DEF At, FormatNearlyDone, CommitOnActive, SecondMetaWhole
  <2> QED BY <2>3, <2>5, <2>8, <2>9 DEF Sound
<1>16. CASE WriteFormat(h)
  <2> DEFINE s == [handle[h] EXCEPT !.next = @ + 1]
             c == Fresh(Target(handle[h].next))
  <2>1. /\ WritesFormat(h) /\ FormatStep(h, c) /\ Becomes(h, s) /\ UNCHANGED ours
        /\ At(h) = "format"
    BY <1>16 DEF WriteFormat, WritesFormat, InFormat, At
  <2>2. handle[h] \in [at : {"format"}, next : 1 .. Reserved + 1]
    BY <2>1, Whereabouts, Shapes DEF At
  <2>3. s.at = "format" /\ s.next = handle[h].next + 1
    BY <2>2
  <2>4. c = 0
    <3>1. handle[h].next \in Int /\ handle[h].next <= Reserved /\ handle[h].next > DirPages + 1
      <4>1. FormatNearlyDone(h)
        BY <1>2
      <4>2. handle[h].next \in 1 .. Reserved + 1
        BY <2>2
      <4> QED BY <1>0, <2>1, <4>1, <4>2 DEF WritesFormat, FormatNearlyDone
    <3>2. handle[h].next = Reserved
      BY <1>0, <3>1
    <3>3. Target(Reserved) = 1
      BY <1>0, Targets
    <3> QED BY <3>2, <3>3 DEF Fresh, Directory
  <2> HIDE DEF s, c
  <2>5. Sound' /\ Kept
    BY <1>15, <2>1, <2>3, <2>4
  <2> QED BY <1>8, <2>1, <2>5
<1>17. CASE TearFormat(h)
  <2>1. /\ WritesFormat(h) /\ FormatStep(h, Torn) /\ Becomes(h, Closed) /\ UNCHANGED ours
        /\ At(h) = "format"
    BY <1>17 DEF TearFormat, WritesFormat, InFormat, At
  <2>2. ~Valid(Torn)
    BY Marks DEF Valid
  <2>3. Sound' /\ Kept
    BY <1>15, <2>1, <2>2
  <2> QED BY <1>8, <2>1, <2>3
<1>18. CASE \E p \in Directory : BeginCommit(h, p)
  <2> DEFINE s == [at |-> "commit", active |-> Active, txn |-> page[Active]]
  <2>1. PICK p \in Directory : BeginCommit(h, p)
    BY <1>18
  <2>2. /\ At(h) = "open" /\ (\A g \in Handles : At(g) # "commit") /\ page[Active] < MaxTxn
        /\ (\A g \in Handles : At(g) # "meta B") /\ page' = [page EXCEPT ![p] = Symbols]
        /\ Becomes(h, s) /\ UNCHANGED <<size, ours>>
    BY <2>1 DEF BeginCommit, At, Excluded
  <2>3. s.at = "commit" /\ s.active = Active /\ s.txn = page[Active]
    OBVIOUS
  <2> HIDE DEF s
  <2>4. /\ page'[0] = page[0] /\ page'[1] = page[1]
        /\ \A q \in Directory : page[q] = Symbols => page'[q] = Symbols
    <3>1. p # 0 /\ p # 1
      BY DEF Directory
    <3>2. page'[0] = page[0] /\ page'[1] = page[1]
      BY <1>0, <2>2, <3>1
    <3>3. \A q \in Directory : page[q] = Symbols => page'[q] = Symbols
      <4>1. Directory \subseteq Pages
        BY <1>0 DEF Directory, Pages
      <4> QED BY <1>0, <2>2, <4>1
    <3> QED BY <3>2, <3>3
  <2>5. Active' = Active /\ page'[Active] = page[Active]
    <3>1. Active \in {0, 1}
      BY <1>0, ActiveIs
    <3>2. page'[Active] = page[Active]
      BY <2>4, <3>1
    <3> QED BY <2>4, <3>2 DEF Active
  <2>6. Kept
    BY <2>4 DEF Kept, Valid
  <2>7. OneAtATime'
    BY <1>6, <1>7, <2>2, <2>3
  <2>8. handle'[h] = s /\ \A g \in Handles : g # h => handle'[g] = handle[g]
    BY <1>0, <2>2, Moves
  <2>9. At(h)' \in Places /\ FormatNearlyDone(h)' /\ CommitOnActive(h)' /\ SecondMetaWhole(h)'
    <3>1. \A g \in Handles : At(g)' = "commit" => g = h
      BY <2>2, <2>8 DEF At
    <3> QED BY <2>2, <2>3, <2>5, <2>8, <3>1
            DEF At, FormatNearlyDone, CommitOnActive, SecondMetaWhole
  <2>10. \A g \in Handles : g # h =>
           At(g)' \in Places /\ FormatNearlyDone(g)' /\ CommitOnActive(g)' /\ SecondMetaWhole(g)'
    <3>1. \A g \in Handles : g # h => At(g)' = At(g) /\ At(g) \notin {"format", "commit", "meta B"}
      BY <1>6, <2>2, <2>8 DEF At
    <3> QED BY <1>2, <3>1 DEF FormatNearlyDone, CommitOnActive, SecondMetaWhole
  <2>11. size' = Reserved /\ ~Refused(page'[0], page'[1])
    BY <1>0, <2>2, <2>4
  <2> QED BY <2>6, <2>7, <2>9, <2>10, <2>11 DEF Sound
\* The commit writes the meta page that is not in use.
<1>19. ASSUME NEW s, NEW c, At(h) = "commit", page' = [page EXCEPT ![Slot(handle[h])] = c],
              UNCHANGED <<size, ours>>, handle' = [handle EXCEPT ![h] = s],
              \/ s = handle[h] /\ c = Torn
              \/ s.at = "open" /\ c = handle[h].txn + 1
       PROVE  Sound' /\ Kept /\ OneAtATime'
  <2> DEFINE A == Active
  <2>1. /\ A \in {0, 1} /\ Valid(page[A]) /\ handle[h].active = A /\ handle[h].txn = page[A]
        /\ page[A] < MaxTxn /\ \A g \in Handles : At(g) = "commit" => g = h
        /\ \A i \in {0, 1} : Valid(page[i]) => page[i] <= page[A]
    BY <1>0, <1>2, <1>19, ActiveIs DEF CommitOnActive
  <2>2. page'[A] = page[A] /\ page'[1 - A] = c
    BY <1>0, <1>19, <2>1 DEF Slot
  <2>3. handle'[h] = s /\ \A g \in Handles : g # h => handle'[g] = handle[g]
    BY <1>0, <1>19
  <2>4. Kept
    <3>1. \A p \in Directory : page'[p] = page[p]
      BY <1>0, <1>19, <2>1 DEF Slot, Directory, Pages
    <3>2. \A i \in {0, 1} : Valid(page[i]) => Valid(page'[A]) /\ page'[A] >= page[i]
      BY <2>1, <2>2 DEF Valid
    <3> QED BY <2>1, <3>1, <3>2 DEF Kept
  <2>5. \A g \in Handles : At(g) \notin {"check", "format"}
    BY <1>6, <1>19
  <2>6. OneAtATime'
    BY <1>19, <2>3, <2>5 DEF OneAtATime, At
  <2>7. ~Refused(page'[0], page'[1])
    BY <2>1, <2>2 DEF Refused
  <2>8. \A g \in Handles : At(g)' \in Places /\ FormatNearlyDone(g)'
    BY <1>2, <1>19, <2>3, <2>5 DEF FormatNearlyDone, At
  <2>9. \A g \in Handles : CommitOnActive(g)'
    <3>1. CASE s = handle[h] /\ c = Torn
      <4>1. ~Valid(c)
        BY <3>1, Marks DEF Valid
      <4>2. Active' = A
        BY <1>0, <2>2, <4>1, ActiveStays
      <4> HIDE DEF A
      <4>3. \A g \in Handles : handle'[g] = handle[g] /\ At(g)' = At(g)
        BY <2>3, <3>1 DEF At
      <4> QED BY <2>1, <2>2, <4>2, <4>3 DEF CommitOnActive
    <3>2. CASE s.at = "open" /\ c = handle[h].txn + 1
      <4>1. \A g \in Handles : At(g)' # "commit"
        BY <2>1, <2>3, <3>2 DEF At
      <4> QED BY <4>1 DEF CommitOnActive
    <3> QED BY <1>19, <3>1, <3>2
  <2>10. \A g \in Handles : SecondMetaWhole(g)'
    <3> SUFFICES ASSUME NEW g \in Handles, At(g)' = "meta B", ~Valid(handle'[g].first)
                 PROVE  /\ Valid(page'[1])
                        /\ \A f \in Handles : At(f)' = "commit" => handle'[f].active = 1
      BY DEF SecondMetaWhole, Valid
    <3>1. g # h /\ handle'[g] = handle[g] /\ At(g) = "meta B"
      BY <1>19, <2>3 DEF At
    <3>2. Valid(page[1]) /\ \A f \in Handles : At(f) = "commit" => handle[f].active = 1
      BY <1>2, <3>1 DEF SecondMetaWhole
    <3>3. A = 1
      BY <1>19, <2>1, <3>2
    <3>4. \A f \in Handles : At(f)' = "commit" => handle'[f].active = 1
      <4>1. s.at = "open" \/ s = handle[h]
        BY <1>19
      <4>2. \A f \in Handles : At(f)' = "commit" => handle'[f] = handle[f] /\ At(f) = "commit"
        BY <2>3, <4>1 DEF At
      <4> QED BY <3>2, <4>2
    <3> QED BY <2>2, <3>2, <3>3, <3>4
  <2> QED BY <1>0, <1>19, <2>4, <2>6, <2>7, <2>8, <2>9, <2>10 DEF Sound
<1>20. CASE HalfMeta(h)
  <2>1. handle' = [handle EXCEPT ![h] = handle[h]]
    BY <1>0, <1>20 DEF HalfMeta
  <2> QED BY <1>19, <1>20, <2>1 DEF HalfMeta, At
<1>21. CASE Publish(h)
  <2> DEFINE s == [at |-> "open", active |-> Slot(handle[h]), txn |-> handle[h].txn + 1]
  <2>1. /\ At(h) = "commit" /\ page' = [page EXCEPT ![Slot(handle[h])] = handle[h].txn + 1]
        /\ handle' = [handle EXCEPT ![h] = s] /\ UNCHANGED <<size, ours>>
    BY <1>21 DEF Publish, At, Becomes
  <2>2. s.at = "open"
    OBVIOUS
  <2> HIDE DEF s
  <2> QED BY <1>19, <2>1, <2>2
<1>22. ~Check(h)
  BY <1>2 DEF Check, At
<1> QED BY <1>1, <1>10, <1>11, <1>12, <1>13, <1>14, <1>16, <1>17, <1>18, <1>20, <1>21, <1>22

------------------------------------------------------------------------------
(* The theorems.                                                           *)

\* Every step keeps the invariant, and what the file holds.
LEMMA NextIInv ==
  ASSUME Excluded PROVE IInv /\ [Next]_vars => IInv' /\ (~ours => UNCHANGED <<page, size>>)
                                               /\ (ours => Kept)
<1> SUFFICES ASSUME IInv, [Next]_vars
             PROVE  IInv' /\ (~ours => UNCHANGED <<page, size>>) /\ (ours => Kept)
  OBVIOUS
<1>1. CASE Next
  <2>1. TypeOK' /\ ours' = ours
    BY <1>1, TypeStep DEF Next, Open, Check, ReadMetaA, ReadMetaB, WriteFormat, FinishFormat,
       TearFormat, BeginCommit, HalfMeta, Publish, Stop
  <2>2. CASE ~ours
    BY <1>1, <2>1, <2>2, UntouchedStep DEF IInv
  <2>3. CASE ours
    BY <1>1, <2>1, <2>3, BlankStep, SoundStep DEF IInv
  <2> QED BY <2>2, <2>3
<1>2. CASE UNCHANGED vars
  <2>1. UNCHANGED <<page, size, handle, ours>>
    BY <1>2 DEF vars
  <2>2. TypeOK'
    BY <2>1 DEF IInv, TypeOK
  <2>3. /\ OneAtATime => OneAtATime'
        /\ Untouched => Untouched'
    BY <2>1 DEF OneAtATime, Untouched, Refuses, At
  <2>4. Blank => Blank'
    BY <2>1 DEF Blank, Begins, At, Late, InFormat
  <2>5. Sound => Sound'
    BY <2>1 DEF Sound, FormatNearlyDone, CommitOnActive, SecondMetaWhole, At, Active
  <2>6. Kept
    BY <2>1, BoundsAssumption DEF Kept, Valid
  <2> QED BY <2>1, <2>2, <2>3, <2>4, <2>5, <2>6 DEF IInv
<1> QED BY <1>1, <1>2

\* The invariant always holds.
LEMMA IInvAlways == ASSUME Excluded PROVE Spec => []IInv
<1>1. IInv /\ [Next]_vars => IInv'
  BY NextIInv
<1> QED BY <1>1, InitIInv, PTL DEF Spec

\* Pages, sizes and handles stay in their domains, for any number of processes,
\* directory pages and commits.
THEOREM FormatTypeOK == ASSUME Excluded PROVE Spec => []TypeOK
<1>1. IInv => TypeOK
  BY DEF IInv
<1> QED BY <1>1, IInvAlways, PTL

\* spike_db_open answers SPIKEDB_CORRUPT for no file that the library has
\* begun, wherever a format or a commit has died.
THEOREM RefusesOnlyForeignAlways == ASSUME Excluded PROVE Spec => []RefusesOnlyForeign
<1>1. IInv => RefusesOnlyForeign
  <2> SUFFICES ASSUME IInv, ours, NEW h \in Handles, handle[h] = Corrupt PROVE FALSE
    BY DEF RefusesOnlyForeign, IInv, TypeOK
  <2>1. At(h) = "corrupt"
    BY DEF At, Corrupt
  <2> QED BY <2>1 DEF IInv, Blank, Begins, Sound
<1> QED BY <1>1, IInvAlways, PTL

\* No open changes a foreign file, and none takes a committed transaction or a
\* symbol from a database, whatever format it goes on with.
THEOREM KeepsWhatItHoldsAlways == ASSUME Excluded PROVE Spec => KeepsWhatItHolds
<1> DEFINE Keeps == /\ ~ours => UNCHANGED <<page, size>>
                    /\ Committed' >= Committed
                    /\ \A p \in Directory : page[p] = Symbols => page'[p] = Symbols
<1>1. IInv /\ [Next]_vars => Keeps
  <2> SUFFICES ASSUME IInv, [Next]_vars PROVE Keeps
    OBVIOUS
  <2>1. (~ours => UNCHANGED <<page, size>>) /\ (ours => Kept)
    BY NextIInv
  <2>2. Committed = LastIn(page) /\ Committed' = LastIn(page')
    BY DEF Committed, LastIn
  <2>3. Kept
    BY <2>1, BoundsAssumption DEF Kept, Valid, IInv, TypeOK
  <2>4. LastIn(page') >= LastIn(page)
    BY <2>3, LastGrows DEF Kept
  <2> QED BY <2>1, <2>2, <2>3, <2>4 DEF Kept
<1>2. IInv /\ [Next]_vars => [Keeps]_vars
  BY <1>1
<1>3. Spec => [][Keeps]_vars
  BY <1>2, IInvAlways, PTL DEF Spec
<1> QED BY <1>3 DEF KeepsWhatItHolds
=============================================================================
