---------------------------- MODULE PagerProofs ----------------------------
(***************************************************************************)
(* Proofs about Pager: for any number of handles, pages, cache slots and   *)
(* transactions, the file keeps the committed state, the transaction sees  *)
(* its own writes, no page is lost or handed out twice and no cache is     *)
(* stale, as long as commits wait for the disk and pages of the committed  *)
(* state are not spilled.                                                  *)
(***************************************************************************)
EXTENDS Pager, FiniteSetTheorems, WellFoundedInduction, TLAPS, SequenceTheorems

------------------------------------------------------------------------------
(* Sets of naturals.                                                        *)

\* A nonempty set of naturals has a least element.
LEMMA LeastElement ==
  ASSUME NEW S \in SUBSET Nat, S # {}
  PROVE  \E x \in S : \A y \in S : x <= y
<1>1. \E x \in S : \A y \in S : ~(<<y, x>> \in OpToRel(<, Nat))
  BY NatLessThanWellFounded, WFMin
<1>2. PICK x \in S : \A y \in S : ~(<<y, x>> \in OpToRel(<, Nat))
  BY <1>1
<1>3. \A y \in S : ~(y < x)
  BY <1>2 DEF OpToRel
<1> QED BY <1>3

------------------------------------------------------------------------------
(* Sequences of ids.                                                       *)

\* What the ids of a freelist page can be.
IdSeqs == BoundedSeq(Pages, FreeCap)

\* They are the sequences of pages that fit a freelist page.
LEMMA IdSeqsAre ==
  ASSUME NEW s
  PROVE  s \in IdSeqs <=> /\ s \in Seq(Pages) /\ Len(s) <= FreeCap
<1>1. CASE s \in IdSeqs
  <2>1. PICK n \in 0 .. FreeCap : s \in [1 .. n -> Pages]
    BY <1>1 DEF IdSeqs, BoundedSeq, SeqOf
  <2>2. s \in Seq(Pages) /\ Len(s) = n
    BY <2>1
  <2> QED BY <1>1, <2>1, <2>2, LayoutAssumption
<1>2. CASE s \in Seq(Pages) /\ Len(s) <= FreeCap
  <2>1. s \in [1 .. Len(s) -> Pages] /\ Len(s) \in 0 .. FreeCap
    BY <1>2, LayoutAssumption
  <2>2. s \in IdSeqs
    BY <2>1 DEF IdSeqs, BoundedSeq, SeqOf
  <2> QED BY <1>2, <2>2
<1> QED BY <1>1, <1>2

\* Taking the last id leaves the others.
LEMMA FrontOfIds ==
  ASSUME NEW s \in IdSeqs, s # <<>>, IsInjective(s)
  PROVE  /\ Front(s) \in IdSeqs /\ IsInjective(Front(s))
         /\ Last(s) \in ToSet(s) /\ Last(s) \in Pages
         /\ ToSet(Front(s)) = ToSet(s) \ {Last(s)}
<1>0. s \in Seq(Pages) /\ Len(s) <= FreeCap /\ Len(s) \in Nat /\ Len(s) > 0 /\ FreeCap \in Nat
  BY IdSeqsAre, LayoutAssumption
<1>1. Front(s) \in Seq(Pages) /\ Len(Front(s)) = Len(s) - 1
      /\ \A i \in 1 .. Len(s) - 1 : Front(s)[i] = s[i]
  <2>1. \A i \in 1 .. Len(s) - 1 : s[i] \in Pages
    BY <1>0
  <2>2. 1 \in Int /\ Len(s) - 1 \in Int
    BY <1>0
  <2> DEFINE f == SubSeq(s, 1, Len(s) - 1)
  <2>3. /\ f \in Seq(Pages) /\ Len(f) = IF 1 <= Len(s) - 1 THEN Len(s) - 1 - 1 + 1 ELSE 0
        /\ \A i \in 1 .. Len(s) - 1 - 1 + 1 : f[i] = s[1 + i - 1]
    BY <2>1, <2>2, SubSeqProperties
  <2> HIDE DEF f
  <2>4. Len(f) = Len(s) - 1 /\ \A i \in 1 .. Len(s) - 1 : f[i] = s[i]
    <3> DEFINE n == Len(s)
               m == Len(f)
    <3>1. n \in Nat /\ n > 0 /\ m = IF 1 <= n - 1 THEN n - 1 - 1 + 1 ELSE 0
      BY <1>0, <2>3
    <3> HIDE DEF n, m
    <3>2. m = n - 1
      BY <3>1
    <3>3. ASSUME NEW i \in 1 .. Len(s) - 1 PROVE f[i] = s[i]
      <4>1. i \in 1 .. Len(s) - 1 - 1 + 1 /\ 1 + i - 1 = i
        BY <1>0
      <4>2. f[i] = s[1 + i - 1]
        BY <2>3, <4>1
      <4> QED BY <4>1, <4>2
    <3> QED BY <3>2, <3>3 DEF n, m
  <2> QED BY <2>3, <2>4 DEF Front, f
<1>2. Front(s) \in IdSeqs
  BY <1>0, <1>1, IdSeqsAre
<1>3. DOMAIN s = 1 .. Len(s) /\ DOMAIN Front(s) = 1 .. Len(s) - 1
  BY <1>0, <1>1
<1>4. IsInjective(Front(s))
  BY <1>0, <1>1, <1>3 DEF IsInjective
<1>5. Len(s) \in 1 .. Len(s) /\ Last(s) = s[Len(s)]
  BY <1>0 DEF Last
<1>6. Last(s) \in ToSet(s) /\ Last(s) \in Pages
  BY <1>0, <1>3, <1>5 DEF ToSet
<1>7. ASSUME NEW p PROVE p \in ToSet(Front(s)) <=> p \in ToSet(s) \ {Last(s)}
  <2>1. ASSUME p \in ToSet(Front(s)) PROVE p \in ToSet(s) \ {Last(s)}
    <3>1. PICK i \in 1 .. Len(s) - 1 : p = s[i]
      BY <1>1, <1>3, <2>1 DEF ToSet
    <3>2. i \in 1 .. Len(s) /\ i # Len(s)
      BY <1>0
    <3>3. p # s[Len(s)]
      BY <1>3, <1>5, <3>1, <3>2 DEF IsInjective
    <3> QED BY <1>3, <1>5, <3>1, <3>2, <3>3 DEF ToSet
  <2>2. ASSUME p \in ToSet(s), p # Last(s) PROVE p \in ToSet(Front(s))
    <3>1. PICK i \in 1 .. Len(s) : p = s[i]
      BY <1>3, <2>2 DEF ToSet
    <3>2. i \in 1 .. Len(s) - 1
      BY <1>0, <1>5, <2>2, <3>1
    <3>3. p = Front(s)[i]
      BY <1>1, <3>1, <3>2
    <3> QED BY <1>3, <3>2, <3>3 DEF ToSet
  <2> QED BY <2>1, <2>2
<1> QED BY <1>2, <1>4, <1>6, <1>7

\* Appending a new id adds it to the others.
LEMMA AppendToIds ==
  ASSUME NEW s \in IdSeqs, IsInjective(s), Len(s) < FreeCap,
         NEW p \in Pages, p \notin ToSet(s)
  PROVE  /\ Append(s, p) \in IdSeqs /\ IsInjective(Append(s, p))
         /\ ToSet(Append(s, p)) = ToSet(s) \cup {p}
<1> DEFINE t == Append(s, p)
<1>0. s \in Seq(Pages) /\ Len(s) \in Nat /\ FreeCap \in Nat
  BY IdSeqsAre, LayoutAssumption
<1>1. t \in Seq(Pages) /\ Len(t) = Len(s) + 1 /\ t[Len(s) + 1] = p
      /\ \A i \in 1 .. Len(s) : t[i] = s[i]
  BY <1>0
<1>2. t \in IdSeqs
  <2>1. t \in Seq(Pages) /\ Len(t) <= FreeCap
    BY <1>0, <1>1
  <2> HIDE DEF t
  <2> QED BY <2>1, IdSeqsAre
<1>3. DOMAIN s = 1 .. Len(s) /\ DOMAIN t = 1 .. Len(s) + 1
  BY <1>0, <1>1
<1> HIDE DEF t
<1>4. \A i \in 1 .. Len(s) : s[i] # p
  BY <1>3 DEF ToSet
<1>5. IsInjective(t)
  <2>1. ASSUME NEW i \in 1 .. Len(s) + 1, NEW j \in 1 .. Len(s) + 1, t[i] = t[j] PROVE i = j
    <3>1. CASE i \in 1 .. Len(s) /\ j \in 1 .. Len(s)
      BY <1>1, <1>3, <2>1, <3>1 DEF IsInjective
    <3>2. CASE i = Len(s) + 1 \/ j = Len(s) + 1
      BY <1>0, <1>1, <1>4, <2>1, <3>2
    <3> QED BY <1>0, <3>1, <3>2
  <2> QED BY <1>3, <2>1 DEF IsInjective
<1>6. ASSUME NEW q PROVE q \in ToSet(t) <=> q \in ToSet(s) \cup {p}
  <2>1. ASSUME q \in ToSet(t) PROVE q \in ToSet(s) \cup {p}
    <3>1. PICK i \in 1 .. Len(s) + 1 : q = t[i]
      BY <1>3, <2>1 DEF ToSet
    <3>2. CASE i \in 1 .. Len(s)
      BY <1>1, <1>3, <3>1, <3>2 DEF ToSet
    <3>3. CASE i = Len(s) + 1
      BY <1>1, <3>1, <3>3
    <3> QED BY <1>0, <3>2, <3>3
  <2>2. ASSUME q \in ToSet(s) PROVE q \in ToSet(t)
    <3>1. PICK i \in 1 .. Len(s) : q = s[i]
      BY <1>3, <2>2 DEF ToSet
    <3>2. i \in 1 .. Len(s) + 1 /\ t[i] = q
      BY <1>0, <1>1, <3>1
    <3> QED BY <1>3, <3>2 DEF ToSet
  <2>3. p \in ToSet(t)
    <3>1. Len(s) + 1 \in 1 .. Len(s) + 1
      BY <1>0
    <3> QED BY <1>1, <1>3, <3>1 DEF ToSet
  <2> QED BY <2>1, <2>2, <2>3
<1> QED BY <1>2, <1>5, <1>6 DEF t

\* The empty sequence of ids.
LEMMA NoIds == <<>> \in IdSeqs /\ ToSet(<<>>) = {} /\ IsInjective(<<>>)
<1>1. <<>> \in Seq(Pages) /\ Len(<<>>) = 0 /\ DOMAIN <<>> = {}
  OBVIOUS
<1>2. <<>> \in IdSeqs
  <2>1. <<>> \in [1 .. 0 -> Pages] /\ 0 \in 0 .. FreeCap
    BY LayoutAssumption
  <2> QED BY <2>1 DEF IdSeqs, BoundedSeq, SeqOf
<1> QED BY <1>1, <1>2 DEF ToSet, IsInjective

------------------------------------------------------------------------------
(* The pages of the freelist.                                              *)

\* Pages that have all pages they link to among them.
Closed(view, S) ==
  \A q \in S : view[q] \in FreelistPages /\ view[q].next # NoPage => view[q].next \in S

\* They hold the head and follow next_page.
LEMMA ListClosed ==
  ASSUME NEW view, NEW head \in Pages
  PROVE  /\ ListPages(view, head) \subseteq Pages /\ head \in ListPages(view, head)
         /\ Closed(view, ListPages(view, head))
<1>0. head # NoPage
  BY NamesAssumption
<1>1. \A p : p \in ListPages(view, head) <=>
         p \in Pages /\ \A S \in SUBSET Pages : head \in S /\ Closed(view, S) => p \in S
  BY <1>0 DEF ListPages, Closed
<1>2. ASSUME NEW q \in ListPages(view, head), view[q] \in FreelistPages, view[q].next # NoPage
      PROVE  view[q].next \in ListPages(view, head)
  <2>1. view[q].next \in Pages
    BY <1>2 DEF FreelistPages
  <2>2. ASSUME NEW S \in SUBSET Pages, head \in S, Closed(view, S) PROVE view[q].next \in S
    <3>1. q \in S
      BY <1>1, <2>2
    <3> QED BY <1>2, <2>2, <3>1 DEF Closed
  <2> QED BY <1>1, <2>1, <2>2
<1>3. Closed(view, ListPages(view, head))
  BY <1>2 DEF Closed
<1> QED BY <1>1, <1>3

\* And there are no others.
LEMMA ListLeast ==
  ASSUME NEW view, NEW head \in Pages, NEW S \in SUBSET Pages, head \in S, Closed(view, S)
  PROVE  ListPages(view, head) \subseteq S
BY NamesAssumption DEF ListPages, Closed

\* Behind a page of the list are pages of the list.
LEMMA ListInside ==
  ASSUME NEW view, NEW head \in Pages, NEW p \in ListPages(view, head)
  PROVE  ListPages(view, p) \subseteq ListPages(view, head)
BY ListClosed, ListLeast

\* The list is its head and what follows the head.
LEMMA ListHead ==
  ASSUME NEW view, NEW head \in Pages, view[head] \in FreelistPages
  PROVE  ListPages(view, head) = {head} \cup ListPages(view, view[head].next)
<1> DEFINE next == view[head].next
           rest == ListPages(view, next)
<1>1. next \in Pages \cup {NoPage}
  BY DEF FreelistPages
<1>2. CASE next = NoPage
  <2>1. rest = {}
    BY <1>2 DEF ListPages
  <2>2. Closed(view, {head})
    BY <1>2 DEF Closed
  <2> QED BY <2>1, <2>2, ListClosed, ListLeast
<1>3. CASE next \in Pages
  <2>0. next # NoPage
    BY <1>3, NamesAssumption
  <2>1. rest \subseteq Pages /\ next \in rest /\ Closed(view, rest)
    BY <1>3, ListClosed
  <2>2. Closed(view, {head} \cup rest)
    BY <2>1 DEF Closed
  <2>3. ListPages(view, head) \subseteq {head} \cup rest
    BY <2>1, <2>2, ListLeast
  <2>4. head \in ListPages(view, head) /\ next \in ListPages(view, head)
    BY <2>0, ListClosed DEF Closed
  <2>5. rest \subseteq ListPages(view, head)
    BY <2>4, ListInside
  <2> QED BY <2>3, <2>4, <2>5
<1> QED BY <1>1, <1>2, <1>3

\* Two views link p to the same page.
SameLink(view, other, p) ==
  /\ view[p] \in FreelistPages /\ other[p] \in FreelistPages
  /\ other[p].next = view[p].next

\* Views that agree on the links of the list have the same list.
LEMMA SameList ==
  ASSUME NEW view, NEW other, NEW head \in Pages \cup {NoPage},
         \A p \in ListPages(view, head) : SameLink(view, other, p)
  PROVE  ListPages(other, head) = ListPages(view, head)
<1>1. CASE head = NoPage
  BY <1>1 DEF ListPages
<1>2. CASE head \in Pages
  <2> DEFINE L == ListPages(view, head)
             M == ListPages(other, head)
  <2>1. L \subseteq Pages /\ head \in L /\ Closed(view, L)
    BY <1>2, ListClosed
  <2>2. M \subseteq Pages /\ head \in M /\ Closed(other, M)
    BY <1>2, ListClosed
  <2>3. Closed(other, L)
    BY <2>1 DEF Closed, SameLink
  <2>4. M \subseteq L
    BY <1>2, <2>1, <2>3, ListLeast
  <2>5. Closed(view, M)
    BY <2>2, <2>4 DEF Closed, SameLink
  <2>6. L \subseteq M
    BY <1>2, <2>2, <2>5, ListLeast
  <2> QED BY <2>4, <2>6
<1> QED BY <1>1, <1>2

\* No page of the list is behind itself.
NoCycle(view, head) ==
  \A p \in ListPages(view, head) : p \notin ListPages(view, view[p].next)

\* What follows a page of the list is in the list.
LEMMA ListBehind ==
  ASSUME NEW view, NEW head \in Pages \cup {NoPage}, NEW p \in ListPages(view, head),
         view[p] \in FreelistPages
  PROVE  /\ p \in Pages /\ view[p].next \in Pages \cup {NoPage}
         /\ ListPages(view, view[p].next) \subseteq ListPages(view, head)
<1>1. head \in Pages
  BY DEF ListPages
<1>2. p \in Pages /\ Closed(view, ListPages(view, head))
  BY <1>1, ListClosed
<1>3. view[p].next \in Pages \cup {NoPage}
  BY DEF FreelistPages
<1>4. CASE view[p].next = NoPage
  BY <1>2, <1>3, <1>4 DEF ListPages
<1>5. CASE view[p].next # NoPage
  <2>1. view[p].next \in ListPages(view, head)
    BY <1>2, <1>5 DEF Closed
  <2> QED BY <1>1, <1>2, <1>3, <2>1, ListInside
<1> QED BY <1>4, <1>5

\* Views that agree on the links of the list agree on its cycles.
LEMMA SameCycles ==
  ASSUME NEW view, NEW other, NEW head \in Pages \cup {NoPage},
         \A p \in ListPages(view, head) : SameLink(view, other, p),
         NoCycle(view, head)
  PROVE  NoCycle(other, head)
<1>1. ListPages(other, head) = ListPages(view, head)
  BY SameList
<1>2. ASSUME NEW p \in ListPages(view, head) PROVE p \notin ListPages(other, other[p].next)
  <2>1. view[p] \in FreelistPages /\ other[p].next = view[p].next
    BY DEF SameLink
  <2>2. /\ view[p].next \in Pages \cup {NoPage}
        /\ ListPages(view, view[p].next) \subseteq ListPages(view, head)
    BY <2>1, ListBehind
  <2>3. ListPages(other, view[p].next) = ListPages(view, view[p].next)
    BY <2>2, SameList
  <2> QED BY <2>1, <2>3 DEF NoCycle
<1> QED BY <1>1, <1>2 DEF NoCycle

------------------------------------------------------------------------------
(* The pages allocated so far are those of the freelist, those it hands    *)
(* out and those the client owns.                                          *)

\* The ids a freelist page hands out.
Ids(view, p) == ToSet(view[p].ids)

\* The parts of what makes a freelist sound: its pages are freelist pages, it
\* has no cycle, no page is handed out twice, and the freelist and the client
\* share no page and have them all.
ListSound(view, head) ==
  \A p \in ListPages(view, head) : view[p] \in FreelistPages /\ IsInjective(view[p].ids)
Accounted(view, head, total, owned) ==
  \A p : p \in 1 .. total <=> \/ p \in ListPages(view, head) \/ p \in owned
                              \/ \E q \in ListPages(view, head) : p \in Ids(view, q)
Disjoint(view, head, owned) ==
  /\ \A p \in ListPages(view, head) : p \notin owned
  /\ \A q \in ListPages(view, head) :
       \A p \in Ids(view, q) : p \notin ListPages(view, head) /\ p \notin owned
GivenOnce(view, head) ==
  \A p, q \in ListPages(view, head) : p # q => Ids(view, p) \cap Ids(view, q) = {}

FreelistOK(view, head, total, owned) ==
  /\ ListSound(view, head) /\ NoCycle(view, head) /\ GivenOnce(view, head)
  /\ Accounted(view, head, total, owned) /\ Disjoint(view, head, owned)

\* The partition NoPageLostOrShared asks for.
LEMMA OKIsPartition ==
  ASSUME NEW view, NEW meta, NEW owned, FreelistOK(view, meta.head, meta.total, owned)
  PROVE  Partition(view, meta, owned)
<1> DEFINE lists == ListPages(view, meta.head)
           ids(p) == IF view[p] \in FreelistPages THEN view[p].ids ELSE <<>>
           given == UNION {ToSet(ids(p)) : p \in lists}
<1> USE DEF FreelistOK
<1>1. \A p \in lists : view[p] \in FreelistPages /\ ids(p) = view[p].ids /\ IsInjective(ids(p))
  BY DEF ListSound
<1>2. \A p : p \in given <=> \E q \in lists : p \in Ids(view, q)
  BY <1>1 DEF Ids
<1>3. \A p \in lists : ToSet(ids(p)) = Ids(view, p)
  BY <1>1 DEF Ids
<1> HIDE DEF lists, ids, given
<1>4. \A p : p \in lists \cup given \cup owned <=> p \in 1 .. meta.total
  BY <1>2 DEF Accounted, lists
<1>5. lists \cup given \cup owned = 1 .. meta.total
  BY <1>4
<1>6. lists \cap given = {} /\ lists \cap owned = {} /\ given \cap owned = {}
  BY <1>2 DEF Disjoint, lists
<1>7. \A p, q \in lists : p # q => ToSet(ids(p)) \cap ToSet(ids(q)) = {}
  BY <1>3 DEF GivenOnce, lists
<1> QED BY <1>1, <1>5, <1>6, <1>7 DEF Partition, lists, ids, given

\* It depends on nothing but the pages of the list.
LEMMA SameFreelist ==
  ASSUME NEW view, NEW other, NEW head \in Pages \cup {NoPage}, NEW total, NEW owned,
         FreelistOK(view, head, total, owned),
         \A p \in ListPages(view, head) : other[p] = view[p]
  PROVE  /\ FreelistOK(other, head, total, owned)
         /\ ListPages(other, head) = ListPages(view, head)
<1>1. \A p \in ListPages(view, head) : SameLink(view, other, p)
  BY DEF SameLink, FreelistOK, ListSound
<1>2. ListPages(other, head) = ListPages(view, head) /\ NoCycle(other, head)
  BY <1>1, SameList, SameCycles DEF FreelistOK
<1>3. \A p \in ListPages(view, head) : Ids(other, p) = Ids(view, p)
  BY DEF Ids
<1>4. ListSound(other, head) /\ GivenOnce(other, head)
  BY <1>2, <1>3 DEF FreelistOK, ListSound, GivenOnce
<1>5. Accounted(other, head, total, owned) /\ Disjoint(other, head, owned)
  BY <1>2, <1>3 DEF FreelistOK, Accounted, Disjoint
<1> QED BY <1>2, <1>4, <1>5 DEF FreelistOK

\* The head of the list when its ids are changed.
LEMMA NewIds ==
  ASSUME NEW view, NEW other, NEW head \in Pages, NEW ids \in IdSeqs,
         ListSound(view, head), NoCycle(view, head), IsInjective(ids),
         \A p \in ListPages(view, head) \ {head} : other[p] = view[p],
         other[head] = [view[head] EXCEPT !.ids = ids]
  PROVE  /\ ListPages(other, head) = ListPages(view, head)
         /\ head \in ListPages(view, head) /\ ListPages(view, head) \subseteq Pages
         /\ ListSound(other, head) /\ NoCycle(other, head)
         /\ Ids(other, head) = ToSet(ids)
         /\ \A p \in ListPages(view, head) \ {head} : Ids(other, p) = Ids(view, p)
<1>1. head \in ListPages(view, head) /\ ListPages(view, head) \subseteq Pages
  BY ListClosed
<1>2. view[head] \in FreelistPages
  BY <1>1 DEF ListSound
<1>3. /\ other[head] \in FreelistPages /\ other[head].next = view[head].next
      /\ other[head].ids = ids
  BY <1>2 DEF FreelistPages, IdSeqs
<1>4. \A p \in ListPages(view, head) : SameLink(view, other, p)
  BY <1>2, <1>3 DEF ListSound, SameLink
<1>5. ListPages(other, head) = ListPages(view, head) /\ NoCycle(other, head)
  BY <1>4, SameList, SameCycles
<1>6. ListSound(other, head)
  BY <1>3, <1>5 DEF ListSound
<1> QED BY <1>1, <1>3, <1>5, <1>6 DEF Ids

\* page_alloc takes the last id of the head page: the page is the client's.
LEMMA TakeId ==
  ASSUME NEW view, NEW other, NEW head \in Pages, NEW total, NEW owned,
         FreelistOK(view, head, total, owned), view[head].ids # <<>>,
         \A p \in ListPages(view, head) \ {head} : other[p] = view[p],
         other[head] = [view[head] EXCEPT !.ids = Front(@)]
  PROVE  LET page == Last(view[head].ids)
         IN  /\ page \in Pages /\ page \notin owned /\ page \notin ListPages(view, head)
             /\ ListPages(other, head) = ListPages(view, head)
             /\ FreelistOK(other, head, total, owned \cup {page})
<1> DEFINE L == ListPages(view, head)
           ids == view[head].ids
           page == Last(ids)
<1>0. /\ ListSound(view, head) /\ NoCycle(view, head) /\ GivenOnce(view, head)
      /\ Accounted(view, head, total, owned) /\ Disjoint(view, head, owned)
  BY DEF FreelistOK
<1>1. head \in L
  BY ListClosed
<1>2. ids \in IdSeqs /\ IsInjective(ids)
  BY <1>0, <1>1 DEF ListSound, FreelistPages, IdSeqs
<1>3. /\ Front(ids) \in IdSeqs /\ IsInjective(Front(ids))
      /\ page \in ToSet(ids) /\ page \in Pages /\ ToSet(Front(ids)) = ToSet(ids) \ {page}
  BY <1>2, FrontOfIds
<1>4. other[head] = [view[head] EXCEPT !.ids = Front(ids)]
  OBVIOUS
<1>5. /\ ListPages(other, head) = L /\ ListSound(other, head) /\ NoCycle(other, head)
      /\ Ids(other, head) = ToSet(Front(ids))
      /\ \A p \in L \ {head} : Ids(other, p) = Ids(view, p)
  BY <1>0, <1>3, <1>4, NewIds
<1>6. Ids(view, head) = ToSet(ids)
  BY DEF Ids
<1> HIDE DEF L, ids, page
<1>7. page \in Ids(view, head) /\ Ids(other, head) = Ids(view, head) \ {page}
  BY <1>3, <1>5, <1>6
<1>8. page \notin L /\ page \notin owned
  BY <1>0, <1>1, <1>7 DEF Disjoint, L
<1>9. \A q \in L \ {head} : page \notin Ids(view, q)
  BY <1>0, <1>1, <1>7 DEF GivenOnce, L
<1>10. \A q \in L : Ids(other, q) = Ids(view, q) \ {page}
  BY <1>5, <1>7, <1>9
<1>11. GivenOnce(other, head)
  BY <1>0, <1>5, <1>10 DEF GivenOnce, L
<1>12. Accounted(other, head, total, owned \cup {page})
  <2>1. ASSUME NEW p
        PROVE  p \in 1 .. total <=> \/ p \in L \/ p \in owned \cup {page}
                                    \/ \E q \in L : p \in Ids(other, q)
    <3>1. p \in 1 .. total <=> p \in L \/ p \in owned \/ \E q \in L : p \in Ids(view, q)
      BY <1>0 DEF Accounted, L
    <3>2. CASE p = page
      BY <1>1, <1>7, <3>1, <3>2
    <3>3. CASE p # page
      BY <1>10, <3>1, <3>3
    <3> QED BY <3>2, <3>3
  <2> QED BY <1>5, <2>1 DEF Accounted
<1>13. Disjoint(other, head, owned \cup {page})
  BY <1>0, <1>5, <1>8, <1>10 DEF Disjoint, L
<1> QED BY <1>3, <1>5, <1>8, <1>11, <1>12, <1>13 DEF FreelistOK, L, ids, page

\* page_alloc takes the head page itself, which has no ids left.
LEMMA TakeHead ==
  ASSUME NEW view, NEW other, NEW head \in Pages, NEW total, NEW owned,
         FreelistOK(view, head, total, owned), view[head].ids = <<>>,
         \A p \in ListPages(view, head) \ {head} : other[p] = view[p]
  PROVE  /\ head \notin owned /\ view[head].next \in Pages \cup {NoPage}
         /\ ListPages(other, view[head].next) = ListPages(view, head) \ {head}
         /\ FreelistOK(other, view[head].next, total, owned \cup {head})
<1> DEFINE L == ListPages(view, head)
           next == view[head].next
           M == ListPages(view, next)
<1>0. /\ ListSound(view, head) /\ NoCycle(view, head) /\ GivenOnce(view, head)
      /\ Accounted(view, head, total, owned) /\ Disjoint(view, head, owned)
  BY DEF FreelistOK
<1>1. head \in L /\ view[head] \in FreelistPages
  BY <1>0, ListClosed DEF ListSound
<1>2. next \in Pages \cup {NoPage}
  BY <1>1 DEF FreelistPages
<1>3. M = L \ {head}
  <2>1. L = {head} \cup M
    BY <1>1, ListHead
  <2>2. head \notin M
    BY <1>0, <1>1 DEF NoCycle
  <2> QED BY <2>1, <2>2
<1>4. Ids(view, head) = {}
  BY NoIds DEF Ids
<1>5. FreelistOK(view, next, total, owned \cup {head})
  <2>1. ListSound(view, next) /\ NoCycle(view, next) /\ GivenOnce(view, next)
    BY <1>0, <1>3 DEF ListSound, NoCycle, GivenOnce
  <2> HIDE DEF L, next, M
  <2>2. Accounted(view, next, total, owned \cup {head})
    <3>1. ASSUME NEW p
          PROVE  p \in 1 .. total <=> \/ p \in M \/ p \in owned \cup {head}
                                      \/ \E q \in M : p \in Ids(view, q)
      <4>1. p \in 1 .. total <=> p \in L \/ p \in owned \/ \E q \in L : p \in Ids(view, q)
        BY <1>0 DEF Accounted, L
      <4> QED BY <1>1, <1>3, <1>4, <4>1
    <3> QED BY <3>1 DEF Accounted, M
  <2>3. Disjoint(view, next, owned \cup {head})
    <3>1. \A p \in L : p \notin owned
      BY <1>0 DEF Disjoint, L
    <3>2. \A q \in L : \A p \in Ids(view, q) : p \notin L /\ p \notin owned
      BY <1>0 DEF Disjoint, L
    <3>3. \A p \in M : p \notin owned \cup {head}
      BY <1>3, <3>1
    <3>4. \A q \in M : \A p \in Ids(view, q) : p \notin M /\ p \notin owned \cup {head}
      BY <1>1, <1>3, <3>2
    <3> QED BY <3>3, <3>4 DEF Disjoint, M
  <2> QED BY <2>1, <2>2, <2>3 DEF FreelistOK
<1>6. \A p \in ListPages(view, next) : other[p] = view[p]
  BY <1>3
<1> HIDE DEF next
<1>7. FreelistOK(other, next, total, owned \cup {head})
      /\ ListPages(other, next) = ListPages(view, next)
  BY <1>2, <1>5, <1>6, SameFreelist
<1>8. head \notin owned
  BY <1>0, <1>1 DEF Disjoint
<1> QED BY <1>2, <1>3, <1>7, <1>8 DEF next

\* page_alloc without a freelist: the page after the last one.
LEMMA TakeNext ==
  ASSUME NEW view, NEW other, NEW total \in Nat, NEW owned, owned \subseteq 1 .. total,
         FreelistOK(view, NoPage, total, owned)
  PROVE  /\ total + 1 \notin owned
         /\ FreelistOK(other, NoPage, total + 1, owned \cup {total + 1})
<1>1. \A v : ListPages(v, NoPage) = {}
  BY DEF ListPages
<1>2. Accounted(other, NoPage, total + 1, owned \cup {total + 1})
  <2>1. \A p : p \in 1 .. total <=> p \in owned
    BY <1>1 DEF FreelistOK, Accounted
  <2>2. \A p : p \in 1 .. total + 1 <=> p \in 1 .. total \/ p = total + 1
    OBVIOUS
  <2> QED BY <1>1, <2>1, <2>2 DEF Accounted
<1>3. ListSound(other, NoPage) /\ NoCycle(other, NoPage) /\ GivenOnce(other, NoPage)
  BY <1>1 DEF ListSound, NoCycle, GivenOnce
<1>4. Disjoint(other, NoPage, owned \cup {total + 1})
  BY <1>1 DEF Disjoint
<1> QED BY <1>2, <1>3, <1>4 DEF FreelistOK

\* page_free into the head page.
LEMMA GiveId ==
  ASSUME NEW view, NEW other, NEW head \in Pages, NEW total, NEW owned, NEW page \in Pages,
         FreelistOK(view, head, total, owned), page \in owned, Len(view[head].ids) < FreeCap,
         \A p \in ListPages(view, head) \ {head} : other[p] = view[p],
         other[head] = [view[head] EXCEPT !.ids = Append(@, page)]
  PROVE  /\ ListPages(other, head) = ListPages(view, head)
         /\ FreelistOK(other, head, total, owned \ {page})
<1> DEFINE L == ListPages(view, head)
           ids == view[head].ids
<1>0. /\ ListSound(view, head) /\ NoCycle(view, head) /\ GivenOnce(view, head)
      /\ Accounted(view, head, total, owned) /\ Disjoint(view, head, owned)
  BY DEF FreelistOK
<1>1. head \in L
  BY ListClosed
<1>2. ids \in IdSeqs /\ IsInjective(ids)
  BY <1>0, <1>1 DEF ListSound, FreelistPages, IdSeqs
<1>3. page \notin L /\ \A q \in L : page \notin Ids(view, q)
  BY <1>0 DEF Disjoint
<1>4. Ids(view, head) = ToSet(ids)
  BY DEF Ids
<1>5. /\ Append(ids, page) \in IdSeqs /\ IsInjective(Append(ids, page))
      /\ ToSet(Append(ids, page)) = ToSet(ids) \cup {page}
  <2>1. page \notin ToSet(ids)
    BY <1>1, <1>3, <1>4
  <2>2. Len(ids) < FreeCap
    OBVIOUS
  <2> QED BY <1>2, <2>1, <2>2, AppendToIds
<1> DEFINE more == Append(ids, page)
<1>6. other[head] = [view[head] EXCEPT !.ids = more]
  OBVIOUS
<1>61. more \in IdSeqs /\ IsInjective(more)
  BY <1>5
<1> HIDE DEF more
<1>7. /\ ListPages(other, head) = L /\ ListSound(other, head) /\ NoCycle(other, head)
      /\ Ids(other, head) = ToSet(Append(ids, page))
      /\ \A p \in L \ {head} : Ids(other, p) = Ids(view, p)
  <2>1. /\ ListPages(other, head) = L /\ ListSound(other, head) /\ NoCycle(other, head)
        /\ Ids(other, head) = ToSet(more)
        /\ \A p \in L \ {head} : Ids(other, p) = Ids(view, p)
    BY <1>0, <1>6, <1>61, NewIds
  <2> QED BY <2>1 DEF more
<1> HIDE DEF L, ids
<1>8. Ids(other, head) = Ids(view, head) \cup {page}
  BY <1>4, <1>5, <1>7
<1>9. GivenOnce(other, head)
  <2>1. \A p, q \in L : p # q => Ids(view, p) \cap Ids(view, q) = {}
    BY <1>0 DEF GivenOnce, L
  <2>2. ASSUME NEW p \in L, NEW q \in L, p # q PROVE Ids(other, p) \cap Ids(other, q) = {}
    <3>1. CASE p = head
      BY <1>3, <1>7, <1>8, <2>1, <2>2, <3>1
    <3>2. CASE q = head
      BY <1>3, <1>7, <1>8, <2>1, <2>2, <3>2
    <3>3. CASE p # head /\ q # head
      BY <1>7, <2>1, <2>2, <3>3
    <3> QED BY <3>1, <3>2, <3>3
  <2> QED BY <1>7, <2>2 DEF GivenOnce
<1>10. Accounted(other, head, total, owned \ {page})
  <2>1. ASSUME NEW p
        PROVE  p \in 1 .. total <=> \/ p \in L \/ p \in owned \ {page}
                                    \/ \E q \in L : p \in Ids(other, q)
    <3>1. p \in 1 .. total <=> p \in L \/ p \in owned \/ \E q \in L : p \in Ids(view, q)
      BY <1>0 DEF Accounted, L
    <3>2. CASE p = page
      BY <1>1, <1>8, <3>1, <3>2
    <3>3. CASE p # page
      <4>1. \A q \in L : p \in Ids(other, q) <=> p \in Ids(view, q)
        BY <1>7, <1>8, <3>3
      <4> QED BY <3>1, <3>3, <4>1
    <3> QED BY <3>2, <3>3
  <2> QED BY <1>7, <2>1 DEF Accounted
<1>11. Disjoint(other, head, owned \ {page})
  <2>1. /\ \A p \in L : p \notin owned
        /\ \A q \in L : \A p \in Ids(view, q) : p \notin L /\ p \notin owned
    BY <1>0 DEF Disjoint, L
  <2>2. \A q \in L : \A p \in Ids(other, q) : p \notin L /\ p \notin owned \ {page}
    BY <1>3, <1>7, <1>8, <2>1
  <2> QED BY <1>7, <2>1, <2>2 DEF Disjoint
<1> QED BY <1>7, <1>9, <1>10, <1>11 DEF FreelistOK, L

\* page_free with no head page, or a full one: the page becomes the head.
LEMMA GiveHead ==
  ASSUME NEW view, NEW other, NEW head \in Pages \cup {NoPage}, NEW total, NEW owned,
         NEW page \in Pages, FreelistOK(view, head, total, owned), page \in owned,
         \A p \in ListPages(view, head) : other[p] = view[p],
         other[page] = [next |-> head, ids |-> <<>>]
  PROVE  /\ ListPages(other, page) = {page} \cup ListPages(view, head)
         /\ FreelistOK(other, page, total, owned \ {page})
<1> DEFINE L == ListPages(view, head)
           M == ListPages(other, page)
<1>1. other[page] \in FreelistPages /\ other[page].next = head /\ other[page].ids = <<>>
  BY NoIds DEF FreelistPages, IdSeqs
<1>2. FreelistOK(other, head, total, owned) /\ ListPages(other, head) = L
  BY SameFreelist
<1>3. M = {page} \cup L
  BY <1>1, <1>2, ListHead
<1>4. /\ ListSound(other, head) /\ NoCycle(other, head) /\ GivenOnce(other, head)
      /\ Accounted(other, head, total, owned) /\ Disjoint(other, head, owned)
  BY <1>2 DEF FreelistOK
<1>5. Ids(other, page) = {} /\ IsInjective(other[page].ids)
  BY <1>1, NoIds DEF Ids
<1> HIDE DEF L, M
<1>6. page \notin L /\ \A q \in L : page \notin Ids(other, q)
  BY <1>2, <1>4 DEF Disjoint
<1>7. ListSound(other, page)
  BY <1>1, <1>2, <1>3, <1>4, <1>5 DEF ListSound, M
<1>8. NoCycle(other, page)
  BY <1>1, <1>2, <1>3, <1>4, <1>6 DEF NoCycle, M
<1>9. GivenOnce(other, page)
  BY <1>2, <1>3, <1>4, <1>5 DEF GivenOnce, M
<1>10. Accounted(other, page, total, owned \ {page})
  <2>1. ASSUME NEW p
        PROVE  p \in 1 .. total <=> \/ p \in M \/ p \in owned \ {page}
                                    \/ \E q \in M : p \in Ids(other, q)
    <3>1. p \in 1 .. total <=> p \in L \/ p \in owned \/ \E q \in L : p \in Ids(other, q)
      BY <1>2, <1>4 DEF Accounted
    <3> QED BY <1>3, <1>5, <3>1
  <2> QED BY <2>1 DEF Accounted, M
<1>11. Disjoint(other, page, owned \ {page})
  <2>1. /\ \A p \in L : p \notin owned
        /\ \A q \in L : \A p \in Ids(other, q) : p \notin L /\ p \notin owned
    BY <1>2, <1>4 DEF Disjoint
  <2> QED BY <1>3, <1>5, <1>6, <2>1 DEF Disjoint, M
<1> QED BY <1>3, <1>7, <1>8, <1>9, <1>10, <1>11 DEF FreelistOK, L, M

------------------------------------------------------------------------------
(* The page cache.                                                         *)

\* The values of a cache and of the pages of the file.
Caches == [Pages -> Slots \cup {Out}]
Files == [Pages -> Contents]

\* The pages a cache and a file show, and whether the cache has page p as the
\* file does, or newer.
SeenIn(c, f) == [p \in Pages |-> IF c[p] = Out THEN f[p] ELSE c[p].bytes]
Current(c, f, p) == p \in Clean(c) => c[p].bytes = f[p]

\* Evictions and loads: no page of the committed state is written, and what
\* is current stays so and looks the same.
Follows(c, f, d, g) ==
  /\ d \in Caches /\ g \in Files
  /\ \A p \in Pages : Reachable(p) => g[p] = f[p]
  /\ \A p \in Pages : Current(c, f, p) =>
       Current(d, g, p) /\ SeenIn(d, g)[p] = SeenIn(c, f)[p]
  /\ \A p \in Cached(d) : d[p].dirty => p \in Cached(c) /\ c[p].dirty

\* The same, but page x is changed to b.
Changes(c, f, d, g, x, b) ==
  /\ d \in Caches /\ g \in Files
  /\ \A p \in Pages : Reachable(p) => g[p] = f[p]
  /\ \A p \in Pages \ {x} : Current(c, f, p) =>
       Current(d, g, p) /\ SeenIn(d, g)[p] = SeenIn(c, f)[p]
  /\ Current(d, g, x) /\ SeenIn(d, g)[x] = b

\* A page in the cache is a slot.
LEMMA CachedIsSlot ==
  ASSUME NEW c \in Caches
  PROVE  /\ Cached(c) \subseteq Pages
         /\ \A p \in Cached(c) : /\ c[p] \in Slots /\ c[p].bytes \in Contents
                                 /\ c[p].dirty \in BOOLEAN /\ c[p].fresh \in BOOLEAN
BY DEF Caches, Cached, Slots

\* A slot that is filled.
LEMMA SlotFilled ==
  ASSUME NEW b \in Contents, NEW d \in BOOLEAN, NEW f \in BOOLEAN
  PROVE  LET slot == [bytes |-> b, dirty |-> d, fresh |-> f]
         IN  slot \in Slots /\ slot # Out
<1> DEFINE slot == [bytes |-> b, dirty |-> d, fresh |-> f]
<1>1. slot \in Slots
  BY DEF Slots
<1> HIDE DEF slot
<1>2. slot \in Slots /\ slot # Out
  BY <1>1, MarksAssumption
<1> QED BY <1>2 DEF slot

\* cache_evict: it drops a page, and writes it first when it has to.
LEMMA MakeRoomFollows ==
  ASSUME AllSpills = FALSE, NEW c \in Caches, NEW f \in Files, NEW r \in MakeRoom(c, f)
  PROVE  Follows(c, f, r[1], r[2]) /\ \A p \in Pages : c[p] = Out => r[1][p] = Out
<1>1. ASSUME NEW x \in Cached(c), NEW g \in Files, g = f \/ g = [f EXCEPT ![x] = c[x].bytes],
             ~c[x].dirty => g = f, c[x].dirty => g[x] = c[x].bytes /\ ~Reachable(x)
      PROVE  /\ Follows(c, f, Drop(c, x), g)
             /\ \A p \in Pages : c[p] = Out => Drop(c, x)[p] = Out
  <2> DEFINE d == Drop(c, x)
  <2>1. x \in Pages /\ c[x] \in Slots /\ c[x].dirty \in BOOLEAN
    BY CachedIsSlot
  <2>2. d \in Caches /\ d[x] = Out /\ \A p \in Pages \ {x} : d[p] = c[p]
    BY <2>1 DEF Drop, Caches
  <2>3. \A p \in Pages \ {x} : g[p] = f[p]
    BY <1>1 DEF Files
  <2> HIDE DEF d
  <2>4. \A p \in Pages : Reachable(p) => g[p] = f[p]
    BY <1>1, <2>1, <2>3
  <2>5. ASSUME NEW p \in Pages, Current(c, f, p)
        PROVE  Current(d, g, p) /\ SeenIn(d, g)[p] = SeenIn(c, f)[p]
    <3>1. CASE p = x
      <4>1. Current(d, g, p)
        BY <2>2, <3>1 DEF Current, Clean, Cached
      <4>2. SeenIn(d, g)[p] = g[x] /\ SeenIn(c, f)[p] = c[x].bytes
        BY <2>1, <2>2, <3>1 DEF SeenIn, Cached
      <4>3. g[x] = c[x].bytes
        BY <1>1, <2>1, <2>5, <3>1 DEF Current, Clean
      <4> QED BY <4>1, <4>2, <4>3
    <3>2. CASE p # x
      BY <2>2, <2>3, <2>5, <3>2 DEF Current, Clean, Cached, SeenIn
    <3> QED BY <3>1, <3>2
  <2>6. \A p \in Cached(d) : p \in Cached(c) /\ c[p] = d[p]
    BY <2>2 DEF Cached
  <2>7. \A p \in Pages : c[p] = Out => d[p] = Out
    BY <2>2
  <2> QED BY <2>2, <2>4, <2>5, <2>6, <2>7 DEF Follows, d
<1>2. ASSUME r[1] = c, r[2] = f PROVE Follows(c, f, r[1], r[2]) /\ \A p \in Pages : c[p] = Out => r[1][p] = Out
  BY <1>2 DEF Follows
<1>3. ASSUME NEW x \in Clean(c), r = <<Drop(c, x), f>>
      PROVE  Follows(c, f, r[1], r[2]) /\ \A p \in Pages : c[p] = Out => r[1][p] = Out
  <2>1. x \in Cached(c) /\ ~c[x].dirty
    BY <1>3 DEF Clean
  <2>2. Follows(c, f, Drop(c, x), f) /\ \A p \in Pages : c[p] = Out => Drop(c, x)[p] = Out
    BY <1>1, <2>1
  <2> QED BY <1>3, <2>2
<1>4. ASSUME NEW x \in Spillable(c), ~(c[x].fresh /\ Reachable(x)),
             r = <<Drop(c, x), [f EXCEPT ![x] = c[x].bytes]>>
      PROVE  Follows(c, f, r[1], r[2]) /\ \A p \in Pages : c[p] = Out => r[1][p] = Out
  <2> DEFINE g == [f EXCEPT ![x] = c[x].bytes]
  <2>1. x \in Cached(c) /\ c[x].dirty /\ c[x].fresh /\ ~Reachable(x)
    BY <1>4 DEF Spillable
  <2>2. g \in Files /\ g[x] = c[x].bytes
    BY <2>1, CachedIsSlot DEF Files
  <2>3. Follows(c, f, Drop(c, x), g) /\ \A p \in Pages : c[p] = Out => Drop(c, x)[p] = Out
    BY <1>1, <2>1, <2>2
  <2> QED BY <1>4, <2>3
<1>5. CASE Cardinality(Cached(c)) < CacheSlots \/ Clean(c) # {}
  <2>1. \/ \E x \in Clean(c) : r = <<Drop(c, x), f>>
        \/ r = <<c, f>>
    BY <1>5 DEF MakeRoom
  <2> QED BY <1>2, <1>3, <2>1
<1>6. CASE ~(Cardinality(Cached(c)) < CacheSlots \/ Clean(c) # {})
  <2>1. \E x \in Spillable(c) : /\ ~(c[x].fresh /\ Reachable(x))
                                /\ r = <<Drop(c, x), [f EXCEPT ![x] = c[x].bytes]>>
    BY <1>6 DEF MakeRoom
  <2> QED BY <1>4, <2>1
<1> QED BY <1>5, <1>6

\* page_pin
LEMMA PinFollows ==
  ASSUME AllSpills = FALSE, NEW c \in Caches, NEW f \in Files, NEW x \in Pages,
         NEW r \in Pin(c, f, x)
  PROVE  Follows(c, f, r[1], r[2]) /\ x \in Cached(r[1])
<1>1. CASE x \in Cached(c)
  <2>1. r[1] = c /\ r[2] = f
    BY <1>1 DEF Pin
  <2> QED BY <1>1, <2>1 DEF Follows
<1>2. CASE x \notin Cached(c)
  <2>0. PICK m \in MakeRoom(c, f) :
          r = <<[m[1] EXCEPT ![x] = [bytes |-> m[2][x], dirty |-> FALSE, fresh |-> FALSE]], m[2]>>
    BY <1>2 DEF Pin
  <2> DEFINE d == m[1]
             g == m[2]
             slot == [bytes |-> g[x], dirty |-> FALSE, fresh |-> FALSE]
             e == [d EXCEPT ![x] = slot]
  <2>1. Follows(c, f, d, g) /\ \A p \in Pages : c[p] = Out => d[p] = Out
    BY MakeRoomFollows
  <2>2. r[1] = e /\ r[2] = g
    BY <2>0
  <2> HIDE DEF d, g
  <2>3. d \in Caches /\ g \in Files
    BY <2>1 DEF Follows
  <2>4. c[x] = Out /\ d[x] = Out
    BY <1>2, <2>1 DEF Cached
  <2>5. slot \in Slots /\ slot # Out
    <3>1. g[x] \in Contents
      BY <2>3 DEF Files
    <3> QED BY <3>1, SlotFilled
  <2>6. e \in Caches /\ e[x] = slot /\ \A p \in Pages \ {x} : e[p] = d[p]
    BY <2>3, <2>5 DEF Caches
  <2>7. slot.bytes = g[x] /\ slot.dirty = FALSE
    OBVIOUS
  <2> HIDE DEF slot, e
  <2>8. ASSUME NEW p \in Pages, Current(c, f, p)
        PROVE  Current(e, g, p) /\ SeenIn(e, g)[p] = SeenIn(c, f)[p]
    <3>1. Current(d, g, p) /\ SeenIn(d, g)[p] = SeenIn(c, f)[p]
      BY <2>1, <2>8 DEF Follows
    <3>2. CASE p = x
      BY <2>4, <2>5, <2>6, <2>7, <3>1, <3>2 DEF Current, SeenIn
    <3>3. CASE p # x
      BY <2>6, <3>1, <3>3 DEF Current, Clean, Cached, SeenIn
    <3> QED BY <3>2, <3>3
  <2>9. \A p \in Cached(e) : e[p].dirty => p \in Cached(c) /\ c[p].dirty
    BY <2>1, <2>6, <2>7 DEF Follows, Cached
  <2>10. x \in Cached(e)
    BY <2>5, <2>6 DEF Cached
  <2> QED BY <2>1, <2>2, <2>3, <2>6, <2>8, <2>9, <2>10 DEF Follows
<1> QED BY <1>1, <1>2

\* page_pin_zero, and filling the page
LEMMA PinNewChanges ==
  ASSUME AllSpills = FALSE, NEW c \in Caches, NEW f \in Files, NEW x \in Pages,
         NEW b \in Contents, NEW r \in PinNew(c, f, x, b)
  PROVE  Changes(c, f, r[1], r[2], x, b)
<1> DEFINE slot == [bytes |-> b, dirty |-> TRUE, fresh |-> TRUE]
<1>1. PICK m \in IF x \in Cached(c) THEN {<<c, f>>} ELSE MakeRoom(c, f) :
        r = <<[m[1] EXCEPT ![x] = slot], m[2]>>
  BY DEF PinNew
<1> DEFINE d == m[1]
           g == m[2]
           e == [d EXCEPT ![x] = slot]
<1>2. Follows(c, f, d, g)
  <2>1. CASE x \in Cached(c)
    <3>1. d = c /\ g = f
      BY <1>1, <2>1
    <3> QED BY <3>1 DEF Follows
  <2>2. CASE x \notin Cached(c)
    <3>1. m \in MakeRoom(c, f)
      BY <1>1, <2>2
    <3> QED BY <3>1, MakeRoomFollows
  <2> QED BY <2>1, <2>2
<1>3. r[1] = e /\ r[2] = g
  BY <1>1
<1> HIDE DEF d, g
<1>4. d \in Caches /\ g \in Files
  BY <1>2 DEF Follows
<1>5. slot \in Slots /\ slot # Out
  BY SlotFilled
<1>6. e \in Caches /\ e[x] = slot /\ \A p \in Pages \ {x} : e[p] = d[p]
  BY <1>4, <1>5 DEF Caches
<1>7. slot.bytes = b /\ slot.dirty
  OBVIOUS
<1> HIDE DEF slot, e
<1>8. ASSUME NEW p \in Pages \ {x}, Current(c, f, p)
      PROVE  Current(e, g, p) /\ SeenIn(e, g)[p] = SeenIn(c, f)[p]
  <2>1. Current(d, g, p) /\ SeenIn(d, g)[p] = SeenIn(c, f)[p]
    BY <1>2, <1>8 DEF Follows
  <2> QED BY <1>6, <2>1 DEF Current, Clean, Cached, SeenIn
<1>9. Current(e, g, x) /\ SeenIn(e, g)[x] = b
  BY <1>5, <1>6, <1>7 DEF Current, Clean, Cached, SeenIn
<1> QED BY <1>2, <1>3, <1>4, <1>6, <1>8, <1>9 DEF Follows, Changes

\* New bytes for a page in the cache.
LEMMA RewriteChanges ==
  ASSUME NEW c \in Caches, NEW f \in Files, NEW x \in Cached(c), NEW b \in Contents
  PROVE  Changes(c, f, Rewrite(c, x, b), f, x, b)
<1> DEFINE slot == [bytes |-> b, dirty |-> TRUE, fresh |-> c[x].fresh]
           e == [c EXCEPT ![x] = slot]
<1>1. x \in Pages /\ c[x] \in Slots /\ c[x].fresh \in BOOLEAN
  BY CachedIsSlot
<1>2. Rewrite(c, x, b) = e
  BY <1>1 DEF Rewrite, Caches
<1>3. slot \in Slots /\ slot # Out
  BY <1>1, SlotFilled
<1>4. e \in Caches /\ e[x] = slot /\ \A p \in Pages \ {x} : e[p] = c[p]
  BY <1>1, <1>3 DEF Caches
<1>5. slot.bytes = b /\ slot.dirty
  OBVIOUS
<1> HIDE DEF slot, e
<1>6. ASSUME NEW p \in Pages \ {x}, Current(c, f, p)
      PROVE  Current(e, f, p) /\ SeenIn(e, f)[p] = SeenIn(c, f)[p]
  BY <1>4, <1>6 DEF Current, Clean, Cached, SeenIn
<1>7. Current(e, f, x) /\ SeenIn(e, f)[x] = b
  BY <1>1, <1>3, <1>4, <1>5 DEF Current, Clean, Cached, SeenIn
<1> QED BY <1>2, <1>4, <1>6, <1>7 DEF Changes

------------------------------------------------------------------------------
(* What the client does in a transaction.                                  *)

\* The file still has the committed state, and the cache has it as the file.
StoreOK(c, f) ==
  /\ c \in Caches /\ f \in Files
  /\ \A p \in Pages : Reachable(p) => f[p] = file[p] /\ Current(c, f, p)

\* The pages of a transaction: its freelist is sound, and the cache has the
\* pages of the freelist and of the client as the file does, or newer.
TxnOK(c, f, m, owned) ==
  /\ m \in Metas /\ owned \subseteq Pages
  /\ FreelistOK(SeenIn(c, f), m.head, m.total, owned)
  /\ \A p \in ListPages(SeenIn(c, f), m.head) \cup owned : Current(c, f, p)

\* The freelist and the client's pages look the same.
LooksSame(c, f, d, g, head, owned) ==
  /\ ListPages(SeenIn(d, g), head) = ListPages(SeenIn(c, f), head)
  /\ \A p \in ListPages(SeenIn(c, f), head) \cup owned : SeenIn(d, g)[p] = SeenIn(c, f)[p]

\* Evictions, loads and changes keep the committed state.
LEMMA FollowsKeep ==
  ASSUME NEW c, NEW f, NEW d, NEW g, StoreOK(c, f), Follows(c, f, d, g)
  PROVE  StoreOK(d, g)
BY DEF StoreOK, Follows

\* So does a page the client or the freelist changes in the cache.
LEMMA ChangesKeep ==
  ASSUME NEW c, NEW f, NEW d, NEW g, NEW x, NEW b, StoreOK(c, f), Changes(c, f, d, g, x, b)
  PROVE  StoreOK(d, g)
<1>1. ASSUME NEW p \in Pages, Reachable(p) PROVE g[p] = file[p] /\ Current(d, g, p)
  <2>1. f[p] = file[p] /\ Current(c, f, p) /\ g[p] = f[p]
    BY <1>1 DEF StoreOK, Changes
  <2>2. CASE p = x
    BY <2>1, <2>2 DEF Changes
  <2>3. CASE p # x
    BY <2>1, <2>3 DEF Changes
  <2> QED BY <2>1, <2>2, <2>3
<1> QED BY <1>1 DEF StoreOK, Changes

\* The pages of the freelist and of the client are pages.
LEMMA TxnPages ==
  ASSUME NEW c, NEW f, NEW m, NEW owned, TxnOK(c, f, m, owned)
  PROVE  /\ m.head \in Pages \cup {NoPage} /\ m.total \in 0 .. LastPage
         /\ ListPages(SeenIn(c, f), m.head) \cup owned \subseteq Pages
<1>1. m.head \in Pages \cup {NoPage} /\ m.total \in 0 .. LastPage
  BY DEF TxnOK, Metas
<1>2. ListPages(SeenIn(c, f), m.head) \subseteq Pages
  BY <1>1, ListClosed DEF ListPages
<1> QED BY <1>1, <1>2 DEF TxnOK

\* A page is pinned: the freelist and the client's pages look the same.
LEMMA PinKeeps ==
  ASSUME AllSpills = FALSE, NEW c, NEW f, NEW m, NEW owned,
         StoreOK(c, f), TxnOK(c, f, m, owned), NEW x \in Pages, NEW r \in Pin(c, f, x)
  PROVE  /\ StoreOK(r[1], r[2]) /\ TxnOK(r[1], r[2], m, owned) /\ x \in Cached(r[1])
         /\ LooksSame(c, f, r[1], r[2], m.head, owned)
<1> DEFINE d == r[1]
           g == r[2]
           V == SeenIn(c, f)
           W == SeenIn(d, g)
           L == ListPages(V, m.head)
<1>1. Follows(c, f, d, g) /\ x \in Cached(d)
  BY PinFollows DEF StoreOK
<1> HIDE DEF d, g, V, W, L
<1>2. StoreOK(d, g)
  BY <1>1, FollowsKeep
<1>3. m.head \in Pages \cup {NoPage} /\ L \cup owned \subseteq Pages
  BY TxnPages DEF L, V
<1>4. \A p \in L \cup owned : Current(d, g, p) /\ W[p] = V[p]
  BY <1>1, <1>3 DEF Follows, TxnOK, V, W, L
<1>5. FreelistOK(V, m.head, m.total, owned)
  BY DEF TxnOK, V
<1>6. FreelistOK(W, m.head, m.total, owned) /\ ListPages(W, m.head) = L
  <2>1. \A p \in ListPages(V, m.head) : W[p] = V[p]
    BY <1>4 DEF L
  <2> QED BY <1>3, <1>5, <2>1, SameFreelist DEF L
<1>7. TxnOK(d, g, m, owned)
  BY <1>4, <1>6 DEF TxnOK, V, W
<1>8. LooksSame(c, f, d, g, m.head, owned)
  BY <1>4, <1>6 DEF LooksSame, V, W, L
<1> QED BY <1>1, <1>2, <1>7, <1>8 DEF d, g

\* The same but for page x, which is changed to b; all of it is current.
LooksChanged(c, f, d, g, head, owned, x, b) ==
  /\ \A p \in (ListPages(SeenIn(c, f), head) \cup owned) \ {x} :
       Current(d, g, p) /\ SeenIn(d, g)[p] = SeenIn(c, f)[p]
  /\ Current(d, g, x) /\ SeenIn(d, g)[x] = b

\* The pages of a set look the same.
SeenSame(c, f, d, g, S) == \A p \in S : SeenIn(d, g)[p] = SeenIn(c, f)[p]

\* A page is pinned and changed.
LEMMA PinRewrite ==
  ASSUME AllSpills = FALSE, NEW c, NEW f, NEW m, NEW owned,
         StoreOK(c, f), TxnOK(c, f, m, owned), NEW x \in Pages, NEW b \in Contents,
         NEW r \in Pin(c, f, x)
  PROVE  /\ StoreOK(Rewrite(r[1], x, b), r[2])
         /\ LooksChanged(c, f, Rewrite(r[1], x, b), r[2], m.head, owned, x, b)
<1>1. /\ StoreOK(r[1], r[2]) /\ TxnOK(r[1], r[2], m, owned) /\ x \in Cached(r[1])
      /\ LooksSame(c, f, r[1], r[2], m.head, owned)
  BY PinKeeps
<1> DEFINE a == r[1]
           g == r[2]
           d == Rewrite(a, x, b)
           L == ListPages(SeenIn(c, f), m.head)
<1>2. Changes(a, g, d, g, x, b)
  BY <1>1, RewriteChanges DEF StoreOK
<1> HIDE DEF a, g, d, L
<1>3. StoreOK(d, g)
  BY <1>1, <1>2, ChangesKeep DEF a, g
<1>4. L \cup owned \subseteq Pages
  BY TxnPages DEF L
<1>5. \A p \in L \cup owned : Current(a, g, p) /\ SeenIn(a, g)[p] = SeenIn(c, f)[p]
  BY <1>1 DEF TxnOK, LooksSame, L, a, g
<1>6. LooksChanged(c, f, d, g, m.head, owned, x, b)
  BY <1>2, <1>4, <1>5 DEF Changes, LooksChanged, L
<1> QED BY <1>3, <1>6 DEF d, a, g

\* The client changes a page it owns: ModifyPage.
LEMMA ModifyKeeps ==
  ASSUME AllSpills = FALSE, NEW c, NEW f, NEW m, NEW owned,
         StoreOK(c, f), TxnOK(c, f, m, owned), NEW x \in owned, NEW b \in Bytes,
         NEW r \in Pin(c, f, x)
  PROVE  LET d == Rewrite(r[1], x, b)
         IN  /\ StoreOK(d, r[2]) /\ TxnOK(d, r[2], m, owned) /\ SeenIn(d, r[2])[x] = b
             /\ SeenSame(c, f, d, r[2], owned \ {x})
<1> DEFINE d == Rewrite(r[1], x, b)
           g == r[2]
           V == SeenIn(c, f)
           W == SeenIn(d, g)
           L == ListPages(V, m.head)
<1>1. x \in Pages /\ b \in Contents
  BY DEF TxnOK, Contents
<1>2. StoreOK(d, g) /\ LooksChanged(c, f, d, g, m.head, owned, x, b)
  BY <1>1, PinRewrite
<1> HIDE DEF d, g, V, W, L
<1>3. m.head \in Pages \cup {NoPage} /\ FreelistOK(V, m.head, m.total, owned) /\ x \notin L
  BY TxnPages DEF TxnOK, FreelistOK, Disjoint, L, V
<1>4. /\ \A p \in (L \cup owned) \ {x} : Current(d, g, p) /\ W[p] = V[p]
      /\ Current(d, g, x) /\ W[x] = b
  BY <1>2 DEF LooksChanged, L, V, W
<1>5. FreelistOK(W, m.head, m.total, owned) /\ ListPages(W, m.head) = L
  <2>1. \A p \in ListPages(V, m.head) : W[p] = V[p]
    BY <1>3, <1>4 DEF L
  <2> QED BY <1>3, <2>1, SameFreelist DEF L
<1>6. TxnOK(d, g, m, owned)
  <2>1. \A p \in L \cup owned : Current(d, g, p)
    BY <1>4
  <2>2. m \in Metas /\ owned \subseteq Pages
    BY DEF TxnOK
  <2> QED BY <1>5, <2>1, <2>2 DEF TxnOK, W
<1>7. SeenSame(c, f, d, g, owned \ {x})
  BY <1>4 DEF SeenSame, V, W
<1> QED BY <1>2, <1>4, <1>6, <1>7 DEF d, g, W

\* Page x, which the freelist does not have, is filled and is the client's.
LEMMA FillKeeps ==
  ASSUME AllSpills = FALSE, NEW c, NEW f, NEW m \in Metas, NEW old, NEW owned,
         StoreOK(c, f), NEW x \in Pages, NEW b \in Bytes, NEW r \in PinNew(c, f, x, b),
         owned = old \cup {x}, old \subseteq Pages, x \notin old,
         \A p \in ListPages(SeenIn(c, f), m.head) \cup old : Current(c, f, p),
         FreelistOK(SeenIn(c, f), m.head, m.total, owned),
         x \notin ListPages(SeenIn(c, f), m.head)
  PROVE  /\ StoreOK(r[1], r[2]) /\ TxnOK(r[1], r[2], m, owned)
         /\ LooksChanged(c, f, r[1], r[2], m.head, old, x, b)
<1> DEFINE d == r[1]
           g == r[2]
           V == SeenIn(c, f)
           W == SeenIn(d, g)
           L == ListPages(V, m.head)
<1>1. Changes(c, f, d, g, x, b)
  <2>1. b \in Contents
    BY DEF Contents
  <2> QED BY <2>1, PinNewChanges DEF StoreOK
<1> HIDE DEF d, g, V, W, L
<1>2. StoreOK(d, g)
  BY <1>1, ChangesKeep
<1>3. L \subseteq Pages
  <2>1. m.head \in Pages \cup {NoPage}
    BY DEF Metas
  <2> QED BY <2>1, ListClosed DEF ListPages, L
<1>4. /\ \A p \in L \cup old : Current(d, g, p) /\ W[p] = V[p]
      /\ Current(d, g, x) /\ W[x] = b
  BY <1>1, <1>3 DEF Changes, L, V, W
<1>5. FreelistOK(W, m.head, m.total, owned) /\ ListPages(W, m.head) = L
  <2>1. \A p \in ListPages(V, m.head) : W[p] = V[p]
    BY <1>4 DEF L
  <2>2. m.head \in Pages \cup {NoPage} /\ FreelistOK(V, m.head, m.total, owned)
    BY DEF Metas, V
  <2> QED BY <2>1, <2>2, SameFreelist DEF L
<1>6. TxnOK(d, g, m, owned)
  BY <1>4, <1>5 DEF TxnOK, W
<1>7. LooksChanged(c, f, d, g, m.head, old, x, b)
  BY <1>4 DEF LooksChanged, V, W, L
<1> QED BY <1>2, <1>6, <1>7 DEF d, g

\* A page is allocated and filled: NewPage.
LEMMA AllocateKeeps ==
  ASSUME AllSpills = FALSE, NEW c, NEW f, NEW m, NEW owned,
         StoreOK(c, f), TxnOK(c, f, m, owned), NEW b \in Bytes,
         m.head # NoPage \/ m.total < LastPage,
         NEW r \in PageAlloc(c, f, m), NEW n \in PinNew(r.cache, r.file, r.page, b)
  PROVE  /\ StoreOK(n[1], n[2]) /\ TxnOK(n[1], n[2], r.meta, owned \cup {r.page})
         /\ r.page \in Pages /\ r.page \notin owned /\ r.meta.txn = m.txn
         /\ SeenIn(n[1], n[2])[r.page] = b
         /\ SeenSame(c, f, n[1], n[2], owned)
<1> DEFINE V == SeenIn(c, f)
           L == ListPages(V, m.head)
           W == SeenIn(r.cache, r.file)
           all == owned \cup {r.page}
<1>0. /\ m \in Metas /\ m.head \in Pages \cup {NoPage} /\ m.total \in 0 .. LastPage
      /\ owned \subseteq Pages /\ L \subseteq Pages
      /\ FreelistOK(V, m.head, m.total, owned)
      /\ \A p \in L \cup owned : Current(c, f, p)
  BY TxnPages DEF TxnOK
<1> HIDE DEF V, L, W, all
<1>1. SUFFICES /\ StoreOK(r.cache, r.file) /\ r.meta \in Metas /\ r.meta.txn = m.txn
               /\ r.page \in Pages /\ r.page \notin owned
               /\ r.page \notin ListPages(W, r.meta.head)
               /\ \A p \in ListPages(W, r.meta.head) \cup owned : Current(r.cache, r.file, p)
               /\ FreelistOK(W, r.meta.head, r.meta.total, all)
               /\ \A p \in owned : W[p] = V[p]
  <2> DEFINE C == r.cache
             F == r.file
             M == r.meta
             x == r.page
  <2>1. /\ StoreOK(C, F) /\ M \in Metas /\ x \in Pages /\ x \notin owned
        /\ all = owned \cup {x} /\ owned \subseteq Pages
        /\ \A p \in ListPages(SeenIn(C, F), M.head) \cup owned : Current(C, F, p)
        /\ FreelistOK(SeenIn(C, F), M.head, M.total, all)
        /\ x \notin ListPages(SeenIn(C, F), M.head)
        /\ n \in PinNew(C, F, x, b)
    BY <1>0, <1>1 DEF W, all
  <2> HIDE DEF C, F, M, x
  <2>2. /\ StoreOK(n[1], n[2]) /\ TxnOK(n[1], n[2], M, all)
        /\ LooksChanged(C, F, n[1], n[2], M.head, owned, x, b)
    BY <2>1, FillKeeps
  <2>3. /\ SeenIn(n[1], n[2])[x] = b
        /\ \A p \in owned : SeenIn(n[1], n[2])[p] = SeenIn(C, F)[p]
    BY <2>1, <2>2 DEF LooksChanged
  <2>4. SeenSame(c, f, n[1], n[2], owned)
    BY <1>1, <2>3 DEF SeenSame, W, C, F, V
  <2> QED BY <1>1, <2>2, <2>3, <2>4 DEF C, F, M, x, V, all
<1>2. CASE m.head = NoPage
  <2>1. /\ r.cache = c /\ r.file = f /\ r.page = m.total + 1
        /\ r.meta = [m EXCEPT !.total = @ + 1]
    BY <1>2 DEF PageAlloc, Result
  <2>2. m.total \in Nat /\ m.total < LastPage /\ m.total + 1 \in Pages
    BY <1>0, <1>2, LayoutAssumption DEF Pages
  <2>3. /\ r.meta \in Metas /\ r.meta.txn = m.txn /\ r.meta.head = NoPage
        /\ r.meta.total = m.total + 1
    <3> DEFINE next == m.total + 1
    <3>1. r.meta = [m EXCEPT !.total = next] /\ next \in 0 .. LastPage
      BY <2>1, <2>2, LayoutAssumption DEF Pages
    <3> HIDE DEF next
    <3>2. /\ r.meta \in Metas /\ r.meta.txn = m.txn /\ r.meta.head = NoPage
          /\ r.meta.total = next
      BY <1>0, <1>2, <3>1 DEF Metas
    <3> QED BY <3>2 DEF next
  <2>4. W = V
    BY <2>1 DEF V, W
  <2>5. L = {} /\ ListPages(W, NoPage) = {}
    BY <1>2 DEF L, ListPages
  <2>6. owned \subseteq 1 .. m.total
    BY <1>0 DEF FreelistOK, Accounted
  <2>7. m.total + 1 \notin owned /\ FreelistOK(V, NoPage, m.total + 1, owned \cup {m.total + 1})
    BY <1>0, <1>2, <2>2, <2>6, TakeNext
  <2>8. FreelistOK(W, r.meta.head, r.meta.total, all)
    BY <2>1, <2>3, <2>4, <2>7 DEF all
  <2> QED BY <1>0, <2>1, <2>2, <2>3, <2>4, <2>5, <2>7, <2>8
<1>3. CASE m.head # NoPage
  <2>0. m.head \in Pages /\ m.head \in L
    BY <1>0, <1>3, ListClosed DEF L
  <2>1. PICK q \in Pin(c, f, m.head) :
          LET l == q[1][m.head].bytes
          IN  r = IF l.ids # <<>>
                  THEN Result(Rewrite(q[1], m.head, [l EXCEPT !.ids = Front(@)]), q[2], m, Last(l.ids))
                  ELSE Result(q[1], q[2], [m EXCEPT !.head = l.next], m.head)
    BY <1>3 DEF PageAlloc, Allocate
  <2> DEFINE l == q[1][m.head].bytes
             U == SeenIn(q[1], q[2])
  <2>2. /\ StoreOK(q[1], q[2]) /\ TxnOK(q[1], q[2], m, owned) /\ m.head \in Cached(q[1])
        /\ LooksSame(c, f, q[1], q[2], m.head, owned)
    BY <2>0, PinKeeps
  <2>3. l = V[m.head]
    <3>1. U[m.head] = l
      BY <2>0, <2>2 DEF SeenIn, Cached
    <3>2. U[m.head] = V[m.head]
      BY <2>0, <2>2 DEF LooksSame, V, L
    <3> QED BY <3>1, <3>2
  <2>4. l \in FreelistPages
    BY <1>0, <2>0, <2>3 DEF FreelistOK, ListSound, L
  <2>5. CASE l.ids # <<>>
    <3> DEFINE l2 == [l EXCEPT !.ids = Front(@)]
               d == Rewrite(q[1], m.head, l2)
    <3>1. r = Result(d, q[2], m, Last(l.ids))
      BY <2>1, <2>5
    <3>2. r.cache = d /\ r.file = q[2] /\ r.meta = m /\ r.page = Last(l.ids)
      BY <3>1 DEF Result
    <3>3. l.ids \in IdSeqs /\ IsInjective(l.ids)
      BY <1>0, <2>0, <2>3, <2>4 DEF FreelistOK, ListSound, L, FreelistPages, IdSeqs
    <3>4. Front(l.ids) \in IdSeqs
      BY <2>5, <3>3, FrontOfIds
    <3>5. l2 \in Contents
      BY <2>4, <3>4 DEF FreelistPages, Contents, IdSeqs
    <3> HIDE DEF l2
    <3>6. StoreOK(d, q[2]) /\ LooksChanged(c, f, d, q[2], m.head, owned, m.head, l2)
      BY <2>0, <3>5, PinRewrite
    <3> HIDE DEF d
    <3>7. /\ \A p \in (L \cup owned) \ {m.head} : Current(d, q[2], p) /\ W[p] = V[p]
          /\ Current(d, q[2], m.head) /\ W[m.head] = l2
      BY <3>2, <3>6 DEF LooksChanged, L, V, W
    <3>8. l2 = [V[m.head] EXCEPT !.ids = Front(@)]
      BY <2>3 DEF l2
    <3>9. /\ r.page \in Pages /\ r.page \notin owned /\ r.page \notin ListPages(V, m.head)
          /\ ListPages(W, m.head) = ListPages(V, m.head)
          /\ FreelistOK(W, m.head, m.total, owned \cup {r.page})
      <4>1. \A p \in ListPages(V, m.head) \ {m.head} : W[p] = V[p]
        BY <3>7 DEF L
      <4>2. V[m.head].ids # <<>> /\ r.page = Last(V[m.head].ids)
        BY <2>3, <2>5, <3>2
      <4>3. W[m.head] = [V[m.head] EXCEPT !.ids = Front(@)]
        BY <3>7, <3>8
      <4> DEFINE h == m.head
                 tot == m.total
      <4>4. /\ h \in Pages /\ FreelistOK(V, h, tot, owned) /\ V[h].ids # <<>>
            /\ \A p \in ListPages(V, h) \ {h} : W[p] = V[p]
            /\ W[h] = [V[h] EXCEPT !.ids = Front(@)]
        BY <1>0, <2>0, <4>1, <4>2, <4>3
      <4> HIDE DEF h, tot
      <4>5. LET page == Last(V[h].ids)
            IN  /\ page \in Pages /\ page \notin owned /\ page \notin ListPages(V, h)
                /\ ListPages(W, h) = ListPages(V, h)
                /\ FreelistOK(W, h, tot, owned \cup {page})
        BY <4>4, TakeId, Zenon
      <4> QED BY <4>2, <4>5 DEF h, tot
    <3>10. m.head \notin owned
      BY <1>0, <2>0 DEF FreelistOK, Disjoint, L
    <3>11. \A p \in L \cup owned : Current(r.cache, r.file, p)
      BY <3>2, <3>7
    <3>12. \A p \in owned : W[p] = V[p]
      BY <3>7, <3>10
    <3> QED BY <1>0, <3>2, <3>6, <3>9, <3>11, <3>12 DEF L, all
  <2>6. CASE l.ids = <<>>
    <3>1. /\ r.cache = q[1] /\ r.file = q[2] /\ r.meta = [m EXCEPT !.head = l.next]
          /\ r.page = m.head
      BY <2>1, <2>6 DEF Result
    <3>2. \A p \in L \cup owned : Current(r.cache, r.file, p) /\ W[p] = V[p]
      BY <2>2, <3>1 DEF LooksSame, TxnOK, L, V, W
    <3>3. /\ m.head \notin owned /\ V[m.head].next \in Pages \cup {NoPage}
          /\ ListPages(W, V[m.head].next) = ListPages(V, m.head) \ {m.head}
          /\ FreelistOK(W, V[m.head].next, m.total, owned \cup {m.head})
      <4>1. \A p \in ListPages(V, m.head) \ {m.head} : W[p] = V[p]
        BY <3>2 DEF L
      <4>2. V[m.head].ids = <<>>
        BY <2>3, <2>6
      <4> DEFINE h == m.head
                 tot == m.total
      <4>3. /\ h \in Pages /\ FreelistOK(V, h, tot, owned) /\ V[h].ids = <<>>
            /\ \A p \in ListPages(V, h) \ {h} : W[p] = V[p]
        BY <1>0, <2>0, <4>1, <4>2
      <4> HIDE DEF h, tot
      <4>4. /\ h \notin owned /\ V[h].next \in Pages \cup {NoPage}
            /\ ListPages(W, V[h].next) = ListPages(V, h) \ {h}
            /\ FreelistOK(W, V[h].next, tot, owned \cup {h})
        BY <4>3, TakeHead, Zenon
      <4> QED BY <4>4 DEF h, tot
    <3>4. /\ r.meta \in Metas /\ r.meta.txn = m.txn /\ r.meta.head = V[m.head].next
          /\ r.meta.total = m.total
      <4> HIDE DEF l
      <4> QED BY <1>0, <2>3, <3>1, <3>3 DEF Metas
    <3>5. StoreOK(r.cache, r.file)
      BY <2>2, <3>1
    <3>6. FreelistOK(W, r.meta.head, r.meta.total, all)
      BY <3>1, <3>3, <3>4 DEF all
    <3>7. /\ \A p \in ListPages(W, r.meta.head) \cup owned : Current(r.cache, r.file, p)
          /\ m.head \notin ListPages(W, r.meta.head)
      BY <3>2, <3>3, <3>4 DEF L
    <3> QED BY <2>0, <3>1, <3>2, <3>3, <3>4, <3>5, <3>6, <3>7
  <2> QED BY <2>5, <2>6
<1> QED BY <1>2, <1>3

\* A page is freed: FreePage.
LEMMA FreeKeeps ==
  ASSUME AllSpills = FALSE, NEW c, NEW f, NEW m, NEW owned,
         StoreOK(c, f), TxnOK(c, f, m, owned), NEW x \in owned,
         NEW r \in PageFree(c, f, m, x)
  PROVE  /\ StoreOK(r.cache, r.file) /\ TxnOK(r.cache, r.file, r.meta, owned \ {x})
         /\ r.meta.txn = m.txn
         /\ SeenSame(c, f, r.cache, r.file, owned \ {x})
<1> DEFINE V == SeenIn(c, f)
           L == ListPages(V, m.head)
           W == SeenIn(r.cache, r.file)
           rest == owned \ {x}
<1>0. /\ m \in Metas /\ m.head \in Pages \cup {NoPage} /\ m.total \in 0 .. LastPage
      /\ owned \subseteq Pages /\ L \subseteq Pages
      /\ FreelistOK(V, m.head, m.total, owned)
      /\ \A p \in L \cup owned : Current(c, f, p)
  BY TxnPages DEF TxnOK
<1> HIDE DEF V, L, W, rest
<1>1. x \in Pages /\ x \notin L /\ \A p \in L : p \notin owned
  BY <1>0 DEF FreelistOK, Disjoint, L
<1>2. SUFFICES /\ StoreOK(r.cache, r.file) /\ r.meta \in Metas /\ r.meta.txn = m.txn
               /\ FreelistOK(W, r.meta.head, r.meta.total, rest)
               /\ \A p \in ListPages(W, r.meta.head) \cup rest : Current(r.cache, r.file, p)
               /\ \A p \in rest : W[p] = V[p]
  <2>1. rest \subseteq Pages
    BY <1>0 DEF rest
  <2>2. SeenSame(c, f, r.cache, r.file, rest)
    BY <1>2 DEF SeenSame, W, V
  <2> QED BY <1>2, <2>1, <2>2 DEF TxnOK, W, rest
<1> DEFINE heads == IF m.head = NoPage THEN {<<c, f>>} ELSE Pin(c, f, m.head)
<1>3. PICK q \in heads :
        r \in IF m.head # NoPage /\ HasSpace(q[1][m.head].bytes)
              THEN {Result(Rewrite(q[1], m.head, [q[1][m.head].bytes EXCEPT !.ids = Append(@, x)]),
                           q[2], m, x)}
              ELSE {Result(n[1], n[2], [m EXCEPT !.head = x], x) :
                      n \in PinNew(q[1], q[2], x, [next |-> m.head, ids |-> <<>>])}
  BY DEF PageFree
<1>4. /\ StoreOK(q[1], q[2]) /\ TxnOK(q[1], q[2], m, owned)
      /\ LooksSame(c, f, q[1], q[2], m.head, owned)
      /\ m.head # NoPage => q \in Pin(c, f, m.head) /\ m.head \in Cached(q[1])
  <2>1. CASE m.head = NoPage
    <3>1. q[1] = c /\ q[2] = f
      BY <1>3, <2>1
    <3>2. LooksSame(c, f, c, f, m.head, owned)
      BY DEF LooksSame
    <3> QED BY <2>1, <3>1, <3>2
  <2>2. CASE m.head # NoPage
    <3>1. q \in Pin(c, f, m.head) /\ m.head \in Pages
      BY <1>0, <1>3, <2>2
    <3> QED BY <3>1, PinKeeps
  <2> QED BY <2>1, <2>2
<1> HIDE DEF heads
<1>5. CASE m.head # NoPage /\ HasSpace(q[1][m.head].bytes)
  <2>0. m.head \in Pages /\ m.head \in L
    BY <1>0, <1>5, ListClosed DEF L
  <2> DEFINE l == q[1][m.head].bytes
             l2 == [l EXCEPT !.ids = Append(@, x)]
             d == Rewrite(q[1], m.head, l2)
             U == SeenIn(q[1], q[2])
  <2>1. r.cache = d /\ r.file = q[2] /\ r.meta = m
    BY <1>3, <1>5 DEF Result
  <2>2. l = V[m.head]
    <3>1. U[m.head] = l
      BY <1>4, <1>5, <2>0 DEF SeenIn, Cached
    <3>2. U[m.head] = V[m.head]
      BY <1>4, <2>0 DEF LooksSame, V, L
    <3> QED BY <3>1, <3>2
  <2>3. l \in FreelistPages /\ l.ids \in IdSeqs /\ IsInjective(l.ids)
    BY <1>0, <2>0, <2>2 DEF FreelistOK, ListSound, L, FreelistPages, IdSeqs
  <2>4. Len(l.ids) < FreeCap
    BY <1>5 DEF HasSpace
  <2>5. x \notin ToSet(l.ids)
    BY <1>0, <2>0, <2>2 DEF FreelistOK, Disjoint, Ids, L
  <2>6. Append(l.ids, x) \in IdSeqs
    BY <1>1, <2>3, <2>4, <2>5, AppendToIds
  <2>7. l2 \in Contents
    <3> DEFINE more == Append(l.ids, x)
    <3>1. l2 = [l EXCEPT !.ids = more] /\ more \in IdSeqs
      BY <2>6
    <3> HIDE DEF more, l2, l
    <3> QED BY <2>3, <3>1 DEF FreelistPages, Contents, IdSeqs
  <2>8. l2 = [V[m.head] EXCEPT !.ids = Append(@, x)] /\ Len(V[m.head].ids) < FreeCap
    BY <2>2, <2>4
  <2> HIDE DEF l2, l
  <2>9. StoreOK(d, q[2]) /\ LooksChanged(c, f, d, q[2], m.head, owned, m.head, l2)
    BY <1>4, <1>5, <2>0, <2>7, PinRewrite
  <2> HIDE DEF d
  <2>10. /\ \A p \in (L \cup owned) \ {m.head} : Current(d, q[2], p) /\ W[p] = V[p]
         /\ Current(d, q[2], m.head) /\ W[m.head] = l2
    BY <2>1, <2>9 DEF LooksChanged, L, V, W
  <2>11. ListPages(W, m.head) = L /\ FreelistOK(W, m.head, m.total, rest)
    <3> DEFINE h == m.head
               tot == m.total
    <3>1. /\ h \in Pages /\ FreelistOK(V, h, tot, owned) /\ Len(V[h].ids) < FreeCap
          /\ \A p \in ListPages(V, h) \ {h} : W[p] = V[p]
          /\ W[h] = [V[h] EXCEPT !.ids = Append(@, x)]
      BY <1>0, <2>0, <2>8, <2>10 DEF L
    <3> HIDE DEF h, tot
    <3>2. /\ ListPages(W, h) = ListPages(V, h)
          /\ FreelistOK(W, h, tot, owned \ {x})
      BY <1>1, <3>1, GiveId, Zenon
    <3> QED BY <3>2 DEF h, tot, L, rest
  <2> QED BY <1>0, <2>1, <2>9, <2>10, <2>11, <1>1, <2>0 DEF rest
<1>6. CASE ~(m.head # NoPage /\ HasSpace(q[1][m.head].bytes))
  <2> DEFINE b == [next |-> m.head, ids |-> <<>>]
  <2>1. PICK n \in PinNew(q[1], q[2], x, b) : r = Result(n[1], n[2], [m EXCEPT !.head = x], x)
    BY <1>3, <1>6
  <2>2. r.cache = n[1] /\ r.file = n[2] /\ r.meta = [m EXCEPT !.head = x]
    BY <2>1 DEF Result
  <2>3. b \in Contents
    BY <1>0, NoIds DEF FreelistPages, Contents, IdSeqs
  <2>4. Changes(q[1], q[2], n[1], n[2], x, b)
    <3> HIDE DEF b
    <3> QED BY <1>1, <1>4, <2>1, <2>3, PinNewChanges DEF StoreOK
  <2>5. StoreOK(n[1], n[2])
    <3> HIDE DEF b
    <3> QED BY <1>4, <2>4, ChangesKeep
  <2>6. /\ \A p \in (L \cup owned) \ {x} : Current(n[1], n[2], p) /\ W[p] = V[p]
        /\ Current(n[1], n[2], x) /\ W[x] = b
    <3> HIDE DEF b
    <3>1. \A p \in L \cup owned : /\ Current(q[1], q[2], p) /\ p \in Pages
                                 /\ SeenIn(q[1], q[2])[p] = V[p]
      BY <1>0, <1>4 DEF TxnOK, LooksSame, L, V
    <3> QED BY <2>2, <2>4, <3>1 DEF Changes, W
  <2>7. /\ r.meta \in Metas /\ r.meta.txn = m.txn /\ r.meta.head = x
        /\ r.meta.total = m.total
    BY <1>0, <1>1, <2>2 DEF Metas
  <2>8. ListPages(W, x) = {x} \cup L /\ FreelistOK(W, x, m.total, rest)
    <3> DEFINE h == m.head
               tot == m.total
    <3>1. /\ h \in Pages \cup {NoPage} /\ FreelistOK(V, h, tot, owned)
          /\ \A p \in ListPages(V, h) : W[p] = V[p]
          /\ W[x] = [next |-> h, ids |-> <<>>]
      BY <1>0, <1>1, <2>6 DEF L
    <3> HIDE DEF h, tot
    <3>2. /\ ListPages(W, x) = {x} \cup ListPages(V, h)
          /\ FreelistOK(W, x, tot, owned \ {x})
      BY <1>1, <3>1, GiveHead, Zenon
    <3> QED BY <3>2 DEF h, tot, L, rest
  <2>9. \A p \in ListPages(W, r.meta.head) \cup rest : Current(r.cache, r.file, p)
    BY <2>2, <2>6, <2>7, <2>8 DEF rest
  <2> QED BY <2>2, <2>5, <2>6, <2>7, <2>8, <2>9 DEF rest
<1> QED BY <1>5, <1>6

------------------------------------------------------------------------------
(* The inductive invariant.                                                *)

\* The active meta page is whole.
ActiveOK == metas[ActiveMeta] # Torn

\* Handle h has the active meta page as far as db_refresh_meta can tell.
IsCurrent(h) ==
  mem[h].active = ActiveMeta /\ mem[h].meta.txn = metas[ActiveMeta].txn

\* No handle is ahead of the file; one that db_refresh_meta takes for current
\* has the meta page as it is, and the writer is current.
MemOK ==
  \A h \in Handles :
    /\ mem[h].meta.txn <= metas[ActiveMeta].txn
    /\ IsCurrent(h) => h = writer \/ mem[h] = FromFile
    /\ h = writer => IsCurrent(h)

\* Only a transaction has a phase.
PhaseOK == (writer = NoHandle) <=> (phase = "none")

\* Only a transaction leaves dirty pages in a cache.
IdleClean ==
  \A h \in Handles : \A p \in Cached(cache[h]) : cache[h][p].dirty => h = writer

\* The file holds the committed state, with a sound freelist, and on the disk.
FileGood ==
  /\ FreelistOK(file, metas[ActiveMeta].head, metas[ActiveMeta].total, Owned(committed))
  /\ \A p \in Pages : committed[p] # Unowned => file[p] = committed[p]
  /\ \A p \in unsynced : ~Reachable(p)
FileOK == phase # "overwriting" => FileGood

\* The caches that are in use have the committed state as the file has it.
CachesOK ==
  phase # "overwriting" =>
    \A h \in Handles : h = writer \/ mem[h] = FromFile =>
      \A p \in Pages : Reachable(p) => Current(cache[h], file, p)

\* The transaction.
WriterOK ==
  writer # NoHandle =>
    /\ TxnOK(cache[writer], file, mem[writer].meta, Owned(work))
    /\ \A p \in Pages : work[p] # Unowned => SeenIn(cache[writer], file)[p] = work[p]

\* The invariant.
IInv ==
  /\ TypeOK /\ ActiveOK /\ MemOK /\ PhaseOK /\ IdleClean
  /\ FileOK /\ CachesOK /\ WriterOK

\* The meta page in use.
LEMMA FromFileType ==
  ASSUME TypeOK, ActiveOK
  PROVE  /\ ActiveMeta \in 0 .. 1 /\ metas[ActiveMeta] \in Metas
         /\ FromFile \in [active : 0 .. 1, meta : Metas]
         /\ FromFile.active = ActiveMeta /\ FromFile.meta = metas[ActiveMeta]
<1>1. ActiveMeta \in 0 .. 1
  BY DEF ActiveMeta
<1>2. metas[ActiveMeta] \in Metas
  BY <1>1 DEF TypeOK, ActiveOK
<1> QED BY <1>1, <1>2 DEF FromFile

\* A new file is in order.
LEMMA InitIInv == Init => IInv
<1> SUFFICES ASSUME Init PROVE IInv
  OBVIOUS
<1> USE DEF Init
<1>1. \A i \in 0 .. 1 : EmptyMeta(i) \in Metas
  BY LayoutAssumption DEF EmptyMeta, Metas
<1>2. \A i \in 0 .. 1 : metas[i] = EmptyMeta(1 - i) /\ metas[i] \in Metas /\ metas[i] # Torn
                       /\ metas[i].txn = 1 - i /\ metas[i].head = NoPage /\ metas[i].total = 0
  BY <1>1, MarksAssumption DEF EmptyMeta
<1>3. ActiveMeta = 0 /\ ActiveOK
  BY <1>2 DEF ActiveMeta, ActiveOK
<1>4. FromFile \in [active : 0 .. 1, meta : Metas]
  BY <1>2, <1>3 DEF FromFile
<1>5. TypeOK
  <2>1. file \in [Pages -> Contents]
    BY DEF Contents
  <2>2. metas \in [0 .. 1 -> Metas \cup {Torn}]
    BY <1>2
  <2>3. mem \in [Handles -> [active : 0 .. 1, meta : Metas]]
    BY <1>4
  <2> QED BY <2>1, <2>2, <2>3 DEF TypeOK, Hands
<1>6. MemOK
  BY <1>2, <1>3, NamesAssumption DEF MemOK, FromFile, IsCurrent
<1>7. PhaseOK /\ WriterOK
  BY DEF PhaseOK, WriterOK
<1>8. IdleClean /\ CachesOK
  BY DEF IdleClean, CachesOK, Cached, Current, Clean
<1>9. FileOK
  <2>1. Owned(committed) = {}
    BY DEF Owned
  <2>2. metas[ActiveMeta].head = NoPage /\ metas[ActiveMeta].total = 0
    BY <1>2, <1>3
  <2>3. \A v : ListPages(v, NoPage) = {}
    BY DEF ListPages
  <2>4. FreelistOK(file, NoPage, 0, {})
    BY <2>3 DEF FreelistOK, ListSound, NoCycle, GivenOnce, Accounted, Disjoint
  <2> QED BY <2>1, <2>2, <2>4 DEF FileOK, FileGood
<1> QED BY <1>3, <1>5, <1>6, <1>7, <1>8, <1>9 DEF IInv

\* The meta page in use stays as it is.
MetaSame == ActiveMeta' = ActiveMeta /\ metas'[ActiveMeta] = metas[ActiveMeta]

\* As long as the committed state is in the file and its meta page is in use,
\* writes to other pages change nothing about it.
LEMMA FileStep ==
  ASSUME TypeOK, ActiveOK, FileGood, MetaSame, committed' = committed,
         \A p \in Pages : Reachable(p) => file'[p] = file[p],
         \A p \in unsynced' : p \in Pages /\ ~Reachable(p)
  PROVE  /\ FileGood' /\ ActiveOK' /\ FromFile' = FromFile /\ ActiveMeta' = ActiveMeta
         /\ \A p \in Pages : Reachable(p)' <=> Reachable(p)
<1> DEFINE head == metas[ActiveMeta].head
           total == metas[ActiveMeta].total
<1>1. ActiveMeta' = ActiveMeta /\ FromFile' = FromFile /\ ActiveOK'
  BY DEF MetaSame, FromFile, ActiveOK
<1>2. head \in Pages \cup {NoPage} /\ head' = head /\ total' = total
  BY <1>1, FromFileType DEF Metas, MetaSame
<1>3. FreelistOK(file, head, total, Owned(committed))
  BY DEF FileGood
<1>4. \A p \in ListPages(file, head) : p \in Pages /\ Reachable(p)
  BY <1>2, ListClosed DEF Reachable, ListPages
<1> HIDE DEF head, total
<1>5. \A p \in ListPages(file, head) : file'[p] = file[p]
  BY <1>4
<1>6. /\ FreelistOK(file', head, total, Owned(committed))
      /\ ListPages(file', head) = ListPages(file, head)
  BY <1>2, <1>3, <1>5, SameFreelist
<1>7. \A p \in Pages : Reachable(p)' <=> Reachable(p)
  BY <1>1, <1>2, <1>6 DEF Reachable, head
<1>8. \A p \in Pages : committed[p] # Unowned => file'[p] = committed[p]
  BY DEF FileGood, Reachable
<1>9. FileGood'
  BY <1>2, <1>6, <1>7, <1>8 DEF FileGood, head, total
<1> QED BY <1>1, <1>7, <1>9

\* A step of handle h leaves the other handles alone.
Others(h) ==
  \A g \in Handles \ {h} :
    cache'[g] = cache[g] /\ mem'[g] = mem[g] /\ (g = writer' <=> g = writer)

\* The meta pages the handles have in memory, and their dirty pages, stay in
\* order when h ends with the meta page in use.
LEMMA HandleStep ==
  ASSUME TypeOK, ActiveOK, MemOK, IdleClean, MetaSame, NEW h \in Handles, Others(h),
         \/ mem'[h] = FromFile
         \/ /\ h = writer' /\ mem'[h].active = ActiveMeta
            /\ mem'[h].meta.txn = metas[ActiveMeta].txn,
         \A p \in Cached(cache'[h]) : cache'[h][p].dirty => h = writer'
  PROVE  MemOK' /\ IdleClean'
<1>1. /\ ActiveMeta' = ActiveMeta /\ FromFile' = FromFile
      /\ metas'[ActiveMeta'] = metas[ActiveMeta]
  BY DEF MetaSame, FromFile
<1>2. /\ metas[ActiveMeta] \in Metas /\ FromFile.active = ActiveMeta
      /\ FromFile.meta = metas[ActiveMeta] /\ metas[ActiveMeta].txn \in Nat
  BY FromFileType DEF Metas
<1>3. \A g \in Handles : IsCurrent(g)' <=> /\ mem'[g].active = ActiveMeta
                                          /\ mem'[g].meta.txn = metas[ActiveMeta].txn
  BY <1>1 DEF IsCurrent
<1>4. \A g \in Handles \ {h} : /\ mem'[g].meta.txn <= metas[ActiveMeta].txn
                               /\ IsCurrent(g)' => g = writer' \/ mem'[g] = FromFile
                               /\ g = writer' => IsCurrent(g)'
  BY <1>3 DEF MemOK, IsCurrent, Others
<1>5. /\ mem'[h].meta.txn <= metas[ActiveMeta].txn
      /\ IsCurrent(h)' /\ (h = writer' \/ mem'[h] = FromFile)
  BY <1>2, <1>3
<1>6. MemOK'
  BY <1>1, <1>4, <1>5 DEF MemOK
<1>7. \A g \in Handles \ {h} : \A p \in Cached(cache'[g]) : cache'[g][p].dirty => g = writer'
  BY DEF IdleClean, Others
<1>8. IdleClean'
  BY <1>7 DEF IdleClean
<1> QED BY <1>6, <1>8

\* The caches stay in order when that of h does.
LEMMA CachesStep ==
  ASSUME CachesOK, phase # "overwriting", FromFile' = FromFile, NEW h \in Handles, Others(h),
         \A p \in Pages : Reachable(p)' <=> Reachable(p),
         \A p \in Pages : Reachable(p) => file'[p] = file[p] /\ Current(cache'[h], file', p)
  PROVE  CachesOK'
<1>1. ASSUME NEW g \in Handles, g = writer' \/ mem'[g] = FromFile, NEW p \in Pages, Reachable(p)
      PROVE  Current(cache'[g], file', p)
  <2>1. CASE g = h
    BY <1>1, <2>1
  <2>2. CASE g # h
    <3>1. cache'[g] = cache[g] /\ (g = writer \/ mem[g] = FromFile) /\ file'[p] = file[p]
      BY <1>1, <2>2 DEF Others
    <3>2. Current(cache[g], file, p)
      BY <1>1, <3>1 DEF CachesOK
    <3> QED BY <3>1, <3>2 DEF Current
  <2> QED BY <2>1, <2>2
<1> QED BY <1>1 DEF CachesOK

\* The writer in the middle of its transaction.
LEMMA WriterStore ==
  ASSUME IInv, phase # "overwriting", NEW h \in Handles, writer = h
  PROVE  /\ StoreOK(cache[h], file) /\ TxnOK(cache[h], file, mem[h].meta, Owned(work))
         /\ \A p \in Pages : work[p] # Unowned => SeenIn(cache[h], file)[p] = work[p]
<1>1. cache[h] \in Caches /\ file \in Files
  BY DEF IInv, TypeOK, Caches, Files
<1>2. \A p \in Pages : Reachable(p) => Current(cache[h], file, p)
  BY DEF IInv, CachesOK
<1>3. writer # NoHandle
  BY NamesAssumption
<1> QED BY <1>1, <1>2, <1>3 DEF StoreOK, IInv, WriterOK

\* A call of the client inside a transaction.
LEMMA TxnStep ==
  ASSUME IInv, NEW h \in Handles, Open(h), NEW d, NEW m,
         StoreOK(d, file'), TxnOK(d, file', m, Owned(work')), m.txn = mem[h].meta.txn,
         cache' = [cache EXCEPT ![h] = d], mem' = [mem EXCEPT ![h].meta = m], Written,
         work' \in [Pages -> Bytes \cup {Unowned}],
         \A p \in Pages : work'[p] # Unowned => SeenIn(d, file')[p] = work'[p],
         UNCHANGED <<metas, writer, phase, committed>>
  PROVE  IInv'
<1>0. writer = h /\ phase = "open" /\ writer' = h /\ phase' = "open"
  BY DEF Open
<1>1. d \in Caches /\ file' \in Files /\ m \in Metas
  BY DEF StoreOK, TxnOK
<1>2. cache'[h] = d /\ mem'[h].meta = m /\ mem'[h].active = mem[h].active
      /\ Others(h)
  BY DEF IInv, TypeOK, Others
<1>3. TypeOK'
  <2>1. cache' \in [Handles -> [Pages -> Slots \cup {Out}]]
    BY <1>1 DEF IInv, TypeOK, Caches
  <2>2. mem' \in [Handles -> [active : 0 .. 1, meta : Metas]]
    BY <1>1 DEF IInv, TypeOK
  <2>3. unsynced' \subseteq Pages
    BY DEF Written, IInv, TypeOK
  <2> QED BY <1>1, <2>1, <2>2, <2>3 DEF IInv, TypeOK, Files
<1>4. /\ MetaSame
      /\ \A p \in Pages : Reachable(p) => file'[p] = file[p] /\ Current(d, file', p)
  BY DEF StoreOK, MetaSame, ActiveMeta
<1>5. FileGood /\ \A p \in unsynced' : p \in Pages /\ ~Reachable(p)
  <2>1. FileGood
    BY <1>0 DEF IInv, FileOK
  <2> QED BY <1>4, <2>1 DEF Written, FileGood, IInv, TypeOK
<1>6. /\ FileGood' /\ ActiveOK' /\ FromFile' = FromFile /\ ActiveMeta' = ActiveMeta
      /\ \A p \in Pages : Reachable(p)' <=> Reachable(p)
  BY <1>4, <1>5, FileStep DEF IInv
<1>7. MemOK' /\ IdleClean'
  <2>1. mem[h].active = ActiveMeta /\ mem[h].meta.txn = metas[ActiveMeta].txn
    BY <1>0 DEF IInv, MemOK, IsCurrent
  <2> QED BY <1>0, <1>2, <1>4, <2>1, HandleStep DEF IInv
<1>8. CachesOK'
  BY <1>0, <1>2, <1>4, <1>6, CachesStep DEF IInv
<1>9. WriterOK'
  BY <1>0, <1>2 DEF WriterOK
<1>10. PhaseOK' /\ FileOK'
  BY <1>0, <1>6, NamesAssumption DEF PhaseOK, FileOK
<1> QED BY <1>3, <1>6, <1>7, <1>8, <1>9, <1>10 DEF IInv

\* The client allocates a page.
LEMMA NewPageStep ==
  ASSUME AllSpills = FALSE, IInv, NEW h \in Handles, NEW b \in Bytes, NewPage(h, b)
  PROVE  IInv'
<1>1. writer = h /\ phase = "open" /\ Open(h)
  BY DEF NewPage, Open
<1> DEFINE c == cache[h]
           m == mem[h].meta
<1>2. /\ StoreOK(c, file) /\ TxnOK(c, file, m, Owned(work))
      /\ \A p \in Pages : work[p] # Unowned => SeenIn(c, file)[p] = work[p]
  BY <1>1, WriterStore
<1>3. PICK r \in PageAlloc(c, file, m) : \E n \in PinNew(r.cache, r.file, r.page, b) :
        /\ cache' = [cache EXCEPT ![h] = n[1]] /\ file' = n[2] /\ Written
        /\ mem' = [mem EXCEPT ![h].meta = r.meta] /\ work' = [work EXCEPT ![r.page] = b]
  BY DEF NewPage
<1>4. PICK n \in PinNew(r.cache, r.file, r.page, b) :
        /\ cache' = [cache EXCEPT ![h] = n[1]] /\ file' = n[2] /\ Written
        /\ mem' = [mem EXCEPT ![h].meta = r.meta] /\ work' = [work EXCEPT ![r.page] = b]
  BY <1>3
<1>5. m.head # NoPage \/ m.total < LastPage
  BY DEF NewPage, CanGrow
<1> DEFINE own == Owned(work)
<1>6. /\ StoreOK(n[1], n[2]) /\ TxnOK(n[1], n[2], r.meta, own \cup {r.page})
      /\ r.page \in Pages /\ r.page \notin own /\ r.meta.txn = m.txn
      /\ SeenIn(n[1], n[2])[r.page] = b
      /\ SeenSame(c, file, n[1], n[2], own)
  <2> HIDE DEF c, m, own
  <2>1. StoreOK(c, file) /\ TxnOK(c, file, m, own)
    BY <1>2 DEF own
  <2> QED BY <1>5, <2>1, AllocateKeeps, Zenon
<1> HIDE DEF c, m
<1>7. work \in [Pages -> Bytes \cup {Unowned}]
  BY DEF IInv, TypeOK
<1>8. b # Unowned
  BY NamesAssumption
<1>9. work' \in [Pages -> Bytes \cup {Unowned}] /\ Owned(work') = own \cup {r.page}
  BY <1>4, <1>6, <1>7, <1>8 DEF Owned
<1>10. \A p \in Pages : work'[p] # Unowned => SeenIn(n[1], n[2])[p] = work'[p]
  BY <1>2, <1>4, <1>6, <1>7 DEF Owned, SeenSame
<1>11. UNCHANGED <<metas, writer, phase, committed>>
  BY DEF NewPage
<1> DEFINE d == n[1]
           M == r.meta
<1>12. /\ StoreOK(d, file') /\ TxnOK(d, file', M, Owned(work')) /\ M.txn = mem[h].meta.txn
       /\ cache' = [cache EXCEPT ![h] = d] /\ mem' = [mem EXCEPT ![h].meta = M]
       /\ \A p \in Pages : work'[p] # Unowned => SeenIn(d, file')[p] = work'[p]
  BY <1>4, <1>6, <1>9, <1>10 DEF m
<1> HIDE DEF d, M
<1> QED BY <1>1, <1>4, <1>9, <1>11, <1>12, TxnStep

\* The client changes a page.
LEMMA ModifyPageStep ==
  ASSUME AllSpills = FALSE, IInv, NEW h \in Handles, NEW x \in Pages, NEW b \in Bytes,
         ModifyPage(h, x, b)
  PROVE  IInv'
<1>1. writer = h /\ phase = "open" /\ Open(h)
  BY DEF ModifyPage, Open
<1> DEFINE c == cache[h]
           m == mem[h].meta
           own == Owned(work)
<1>2. /\ StoreOK(c, file) /\ TxnOK(c, file, m, own)
      /\ \A p \in Pages : work[p] # Unowned => SeenIn(c, file)[p] = work[p]
  BY <1>1, WriterStore
<1>3. PICK r \in Pin(c, file, x) :
        cache' = [cache EXCEPT ![h] = Rewrite(r[1], x, b)] /\ file' = r[2] /\ Written
  BY DEF ModifyPage
<1>4. x \in own /\ work' = [work EXCEPT ![x] = b]
      /\ UNCHANGED <<metas, mem, writer, phase, committed>>
  BY DEF ModifyPage, Owned
<1> DEFINE d == Rewrite(r[1], x, b)
<1>5. /\ StoreOK(d, r[2]) /\ TxnOK(d, r[2], m, own) /\ SeenIn(d, r[2])[x] = b
      /\ SeenSame(c, file, d, r[2], own \ {x})
  <2> HIDE DEF c, m, own
  <2>1. LET e == Rewrite(r[1], x, b)
        IN  /\ StoreOK(e, r[2]) /\ TxnOK(e, r[2], m, own) /\ SeenIn(e, r[2])[x] = b
            /\ SeenSame(c, file, e, r[2], own \ {x})
    BY <1>2, <1>4, ModifyKeeps, Zenon
  <2> QED BY <2>1
<1> HIDE DEF c, d
<1>6. work \in [Pages -> Bytes \cup {Unowned}] /\ b # Unowned
  BY NamesAssumption DEF IInv, TypeOK
<1>7. work' \in [Pages -> Bytes \cup {Unowned}] /\ Owned(work') = own
  BY <1>4, <1>6 DEF Owned
<1>8. \A p \in Pages : work'[p] # Unowned => SeenIn(d, r[2])[p] = work'[p]
  BY <1>2, <1>4, <1>5, <1>6 DEF Owned, SeenSame
<1>9. mem' = [mem EXCEPT ![h].meta = m]
  BY <1>4 DEF IInv, TypeOK
<1>10. /\ StoreOK(d, file') /\ TxnOK(d, file', m, Owned(work')) /\ m.txn = mem[h].meta.txn
       /\ cache' = [cache EXCEPT ![h] = d]
       /\ \A p \in Pages : work'[p] # Unowned => SeenIn(d, file')[p] = work'[p]
  BY <1>3, <1>5, <1>7, <1>8 DEF d
<1> HIDE DEF m, own
<1> QED BY <1>1, <1>3, <1>4, <1>7, <1>9, <1>10, TxnStep

\* The client frees a page.
LEMMA FreePageStep ==
  ASSUME AllSpills = FALSE, IInv, NEW h \in Handles, NEW x \in Pages, FreePage(h, x)
  PROVE  IInv'
<1>1. writer = h /\ phase = "open" /\ Open(h)
  BY DEF FreePage, Open
<1> DEFINE c == cache[h]
           m == mem[h].meta
           own == Owned(work)
<1>2. /\ StoreOK(c, file) /\ TxnOK(c, file, m, own)
      /\ \A p \in Pages : work[p] # Unowned => SeenIn(c, file)[p] = work[p]
  BY <1>1, WriterStore
<1>3. PICK r \in PageFree(c, file, m, x) :
        /\ cache' = [cache EXCEPT ![h] = r.cache] /\ file' = r.file /\ Written
        /\ mem' = [mem EXCEPT ![h].meta = r.meta]
  BY DEF FreePage
<1>4. x \in own /\ work' = [work EXCEPT ![x] = Unowned]
      /\ UNCHANGED <<metas, writer, phase, committed>>
  BY DEF FreePage, Owned
<1>5. /\ StoreOK(r.cache, r.file) /\ TxnOK(r.cache, r.file, r.meta, own \ {x})
      /\ r.meta.txn = m.txn
      /\ SeenSame(c, file, r.cache, r.file, own \ {x})
  <2> HIDE DEF c, m, own
  <2> QED BY <1>2, <1>4, FreeKeeps, Zenon
<1> HIDE DEF c
<1>6. work \in [Pages -> Bytes \cup {Unowned}]
  BY DEF IInv, TypeOK
<1>7. work' \in [Pages -> Bytes \cup {Unowned}] /\ Owned(work') = own \ {x}
  BY <1>4, <1>6 DEF Owned
<1>8. \A p \in Pages : work'[p] # Unowned => SeenIn(r.cache, r.file)[p] = work'[p]
  BY <1>2, <1>4, <1>5, <1>6 DEF Owned, SeenSame
<1> DEFINE d == r.cache
           M == r.meta
<1>9. /\ StoreOK(d, file') /\ TxnOK(d, file', M, Owned(work')) /\ M.txn = mem[h].meta.txn
      /\ cache' = [cache EXCEPT ![h] = d] /\ mem' = [mem EXCEPT ![h].meta = M]
      /\ \A p \in Pages : work'[p] # Unowned => SeenIn(d, file')[p] = work'[p]
  BY <1>3, <1>5, <1>7, <1>8
<1> HIDE DEF d, M, m, own
<1> QED BY <1>1, <1>3, <1>4, <1>7, <1>9, TxnStep

\* db_refresh_meta at the start of an operation: the handle has the meta page
\* in use, and its cache agrees with the committed state.
LEMMA SyncedIs ==
  ASSUME IInv, writer = NoHandle, NEW h \in Handles
  PROVE  /\ Synced(h).mem = FromFile /\ StoreOK(Synced(h).cache, file)
         /\ TxnOK(Synced(h).cache, file, FromFile.meta, Owned(committed))
         /\ \A p \in Pages : committed[p] # Unowned => SeenIn(Synced(h).cache, file)[p] = committed[p]
         /\ \A p \in Cached(Synced(h).cache) : ~Synced(h).cache[p].dirty
<1> DEFINE c == Synced(h).cache
<1>0. /\ phase # "overwriting" /\ FileGood /\ file \in Files /\ cache[h] \in Caches
      /\ committed \in [Pages -> Bytes \cup {Unowned}] /\ h # writer
  BY NamesAssumption DEF IInv, PhaseOK, FileOK, TypeOK, Files, Caches
<1>1. \A p \in Cached(cache[h]) : ~cache[h][p].dirty
  BY <1>0 DEF IInv, IdleClean
<1>2. /\ Synced(h).mem = FromFile /\ c \in Caches
      /\ \A p \in Cached(c) : ~c[p].dirty
      /\ \A p \in Pages : Reachable(p) => Current(c, file, p)
  <2>1. CASE IsCurrent(h)
    <3>1. c = cache[h] /\ Synced(h).mem = mem[h] /\ mem[h] = FromFile
      BY <1>0, <2>1 DEF Synced, IsCurrent, IInv, MemOK
    <3> QED BY <1>0, <1>1, <3>1 DEF IInv, CachesOK
  <2>2. CASE ~IsCurrent(h)
    <3>1. c = Forget(cache[h]) /\ Synced(h).mem = FromFile
      BY <2>2 DEF Synced, IsCurrent
    <3>2. \A p \in Pages : c[p] = Out
      BY <1>1, <3>1 DEF Forget, Clean, Cached
    <3>3. c \in Caches
      BY <3>1, <3>2 DEF Forget, Caches
    <3> QED BY <3>1, <3>2, <3>3 DEF Cached, Current, Clean
  <2> QED BY <2>1, <2>2
<1> HIDE DEF c
<1>3. StoreOK(c, file)
  BY <1>0, <1>2 DEF StoreOK
<1> DEFINE m == FromFile.meta
           L == ListPages(file, m.head)
           V == SeenIn(c, file)
           own == Owned(committed)
<1>4. m \in Metas /\ m = metas[ActiveMeta] /\ m.head \in Pages \cup {NoPage}
  BY FromFileType DEF IInv, Metas
<1>5. FreelistOK(file, m.head, m.total, own)
  BY <1>0, <1>4 DEF FileGood
<1> HIDE DEF m, L, own, V
<1>6. \A p \in L \cup own : p \in Pages /\ Reachable(p)
  BY <1>4, ListClosed DEF Reachable, ListPages, L, own, Owned
<1>7. \A p \in Pages : Reachable(p) => V[p] = file[p]
  BY <1>2 DEF V, SeenIn, Current, Clean, Cached
<1>8. FreelistOK(V, m.head, m.total, own) /\ ListPages(V, m.head) = L
  <2>1. \A p \in ListPages(file, m.head) : V[p] = file[p]
    BY <1>6, <1>7 DEF L
  <2> QED BY <1>4, <1>5, <2>1, SameFreelist DEF L
<1>9. TxnOK(c, file, m, own)
  BY <1>2, <1>4, <1>6, <1>8 DEF TxnOK, V
<1>10. \A p \in Pages : committed[p] # Unowned => V[p] = committed[p]
  BY <1>0, <1>7 DEF FileGood, Reachable
<1> QED BY <1>2, <1>3, <1>9, <1>10 DEF c, m, own, V

\* A transaction begins with the committed state.
LEMMA BeginStep ==
  ASSUME IInv, NEW h \in Handles, Begin(h)
  PROVE  IInv'
<1>1. /\ writer = NoHandle /\ writer' = h /\ phase' = "open" /\ work' = committed
      /\ cache' = [cache EXCEPT ![h] = Synced(h).cache]
      /\ mem' = [mem EXCEPT ![h] = Synced(h).mem]
      /\ file' = file /\ metas' = metas /\ unsynced' = unsynced /\ committed' = committed
  BY DEF Begin
<1> DEFINE c == Synced(h).cache
<1>2. /\ Synced(h).mem = FromFile /\ StoreOK(c, file)
      /\ TxnOK(c, file, FromFile.meta, Owned(committed))
      /\ \A p \in Pages : committed[p] # Unowned => SeenIn(c, file)[p] = committed[p]
      /\ \A p \in Cached(c) : ~c[p].dirty
  BY <1>1, SyncedIs
<1> HIDE DEF c
<1>3. cache'[h] = c /\ mem'[h] = FromFile /\ Others(h)
  BY <1>1, <1>2, NamesAssumption DEF IInv, TypeOK, Others, c
<1>4. TypeOK'
  <2>1. c \in Caches
    BY <1>2 DEF StoreOK
  <2>2. FromFile \in [active : 0 .. 1, meta : Metas]
    BY FromFileType DEF IInv
  <2>3. cache' \in [Handles -> [Pages -> Slots \cup {Out}]]
    BY <1>1, <2>1 DEF IInv, TypeOK, Caches, c
  <2>4. mem' \in [Handles -> [active : 0 .. 1, meta : Metas]]
    BY <1>1, <1>2, <2>2 DEF IInv, TypeOK
  <2> QED BY <1>1, <2>3, <2>4 DEF IInv, TypeOK, Hands
<1>5. phase # "overwriting" /\ FileGood /\ MetaSame
  BY <1>1, NamesAssumption DEF IInv, PhaseOK, FileOK, MetaSame, ActiveMeta
<1>6. /\ FileGood' /\ ActiveOK' /\ FromFile' = FromFile /\ ActiveMeta' = ActiveMeta
      /\ \A p \in Pages : Reachable(p)' <=> Reachable(p)
  <2>1. \A p \in unsynced' : p \in Pages /\ ~Reachable(p)
    BY <1>1, <1>5 DEF IInv, TypeOK, FileGood
  <2> QED BY <1>1, <1>5, <2>1, FileStep DEF IInv
<1>7. MemOK' /\ IdleClean'
  BY <1>2, <1>3, <1>5, HandleStep DEF IInv
<1>8. CachesOK'
  <2>1. \A p \in Pages : Reachable(p) => file'[p] = file[p] /\ Current(cache'[h], file', p)
    BY <1>1, <1>2, <1>3 DEF StoreOK
  <2> QED BY <1>3, <1>5, <1>6, <2>1, CachesStep DEF IInv
<1>9. WriterOK'
  BY <1>1, <1>2, <1>3 DEF WriterOK
<1>10. PhaseOK' /\ FileOK'
  BY <1>1, <1>6, NamesAssumption DEF PhaseOK, FileOK
<1> QED BY <1>4, <1>6, <1>7, <1>8, <1>9, <1>10 DEF IInv

\* A read loads pages and changes none.
LEMMA ReadStep ==
  ASSUME AllSpills = FALSE, IInv, NEW h \in Handles, NEW x \in Pages, Read(h, x)
  PROVE  IInv'
<1>1. /\ writer = NoHandle /\ mem' = [mem EXCEPT ![h] = Synced(h).mem]
      /\ UNCHANGED <<metas, writer, phase, work, committed>>
  BY DEF Read
<1> DEFINE c == Synced(h).cache
<1>2. PICK r \in Pin(c, file, x) :
        cache' = [cache EXCEPT ![h] = r[1]] /\ file' = r[2] /\ Written
  BY DEF Read
<1>3. /\ Synced(h).mem = FromFile /\ StoreOK(c, file)
      /\ \A p \in Cached(c) : ~c[p].dirty
  BY <1>1, SyncedIs
<1> HIDE DEF c
<1>4. Follows(c, file, r[1], r[2])
  BY <1>3, PinFollows DEF StoreOK
<1>5. StoreOK(r[1], r[2])
  BY <1>3, <1>4, FollowsKeep
<1>6. cache'[h] = r[1] /\ mem'[h] = FromFile /\ Others(h)
  BY <1>1, <1>2, <1>3 DEF IInv, TypeOK, Others
<1>7. \A p \in Cached(r[1]) : ~r[1][p].dirty
  BY <1>3, <1>4 DEF Follows
<1>8. TypeOK'
  <2>1. r[1] \in Caches /\ r[2] \in Files
    BY <1>5 DEF StoreOK
  <2>2. FromFile \in [active : 0 .. 1, meta : Metas]
    BY FromFileType DEF IInv
  <2>3. cache' \in [Handles -> [Pages -> Slots \cup {Out}]]
    BY <1>2, <2>1 DEF IInv, TypeOK, Caches
  <2>4. mem' \in [Handles -> [active : 0 .. 1, meta : Metas]]
    BY <1>1, <1>3, <2>2 DEF IInv, TypeOK
  <2>5. unsynced' \subseteq Pages
    BY <1>2 DEF Written, IInv, TypeOK
  <2> QED BY <1>1, <1>2, <2>1, <2>3, <2>4, <2>5 DEF IInv, TypeOK, Files
<1>9. phase # "overwriting" /\ FileGood /\ MetaSame
  BY <1>1, NamesAssumption DEF IInv, PhaseOK, FileOK, MetaSame, ActiveMeta
<1>10. \A p \in Pages : Reachable(p) => file'[p] = file[p] /\ Current(cache'[h], file', p)
  BY <1>2, <1>5, <1>6 DEF StoreOK
<1>11. /\ FileGood' /\ ActiveOK' /\ FromFile' = FromFile /\ ActiveMeta' = ActiveMeta
       /\ \A p \in Pages : Reachable(p)' <=> Reachable(p)
  <2>1. \A p \in unsynced' : p \in Pages /\ ~Reachable(p)
    BY <1>2, <1>9, <1>10 DEF IInv, TypeOK, FileGood, Written
  <2> QED BY <1>1, <1>9, <1>10, <2>1, FileStep DEF IInv
<1>12. MemOK' /\ IdleClean'
  BY <1>6, <1>7, <1>9, HandleStep DEF IInv
<1>13. CachesOK'
  BY <1>6, <1>9, <1>10, <1>11, CachesStep DEF IInv
<1>14. WriterOK' /\ PhaseOK' /\ FileOK'
  BY <1>1, <1>11 DEF WriterOK, PhaseOK, FileOK, IInv
<1> QED BY <1>8, <1>11, <1>12, <1>13, <1>14 DEF IInv

\* A step that leaves everything as it is but the phase of a transaction, or
\* has the disk catch up.
LEMMA QuietStep ==
  ASSUME IInv, UNCHANGED <<file, metas, cache, mem, writer, work, committed>>,
         unsynced' \subseteq unsynced,
         phase' = phase \/ (phase = "open" /\ phase' = "flush")
  PROVE  IInv'
<1>1. /\ ActiveMeta' = ActiveMeta /\ FromFile' = FromFile
      /\ \A p \in Pages : Reachable(p)' <=> Reachable(p)
  BY DEF ActiveMeta, FromFile, Reachable
<1>2. TypeOK' /\ ActiveOK' /\ PhaseOK'
  BY <1>1 DEF IInv, TypeOK, ActiveOK, PhaseOK
<1>3. MemOK' /\ IdleClean'
  BY <1>1 DEF IInv, MemOK, IsCurrent, IdleClean
<1>4. FileOK'
  BY <1>1 DEF IInv, FileOK, FileGood, TypeOK
<1>5. CachesOK' /\ WriterOK'
  BY <1>1 DEF IInv, CachesOK, WriterOK
<1> QED BY <1>2, <1>3, <1>4, <1>5 DEF IInv

\* A handle that leaves its transaction, or dies, has the meta page in use,
\* and none of its pages that are not in the file.
LEMMA RollbackStep ==
  ASSUME IInv, NEW h \in Handles, Rollback(h)
  PROVE  IInv'
<1>1. /\ writer = h /\ phase # "overwriting"
      /\ cache' = [cache EXCEPT ![h] = Discard(cache[h])]
      /\ mem' = [mem EXCEPT ![h] = FromFile]
      /\ writer' = NoHandle /\ phase' = "none" /\ work' = committed
      /\ UNCHANGED <<file, metas, unsynced, committed>>
  BY DEF Rollback, IInv, TypeOK
<1> DEFINE c == cache[h]
           d == Discard(c)
<1>2. cache'[h] = d /\ mem'[h] = FromFile /\ Others(h)
  BY <1>1, NamesAssumption DEF IInv, TypeOK, Others
<1>3. c \in Caches /\ FromFile \in [active : 0 .. 1, meta : Metas]
  BY FromFileType DEF IInv, TypeOK, Caches
<1> HIDE DEF c
<1>4. /\ d \in Caches
      /\ \A p \in Pages : d[p] = Out \/ (p \in Clean(c) /\ d[p] = c[p])
  BY <1>3 DEF Discard, Caches, Clean, Cached
<1> HIDE DEF d
<1>5. TypeOK'
  <2>1. cache' \in [Handles -> [Pages -> Slots \cup {Out}]]
    BY <1>1, <1>4 DEF IInv, TypeOK, Caches, c, d
  <2>2. mem' \in [Handles -> [active : 0 .. 1, meta : Metas]]
    BY <1>1, <1>3 DEF IInv, TypeOK
  <2> QED BY <1>1, <2>1, <2>2 DEF IInv, TypeOK, Hands
<1>6. FileGood /\ MetaSame
  BY <1>1 DEF IInv, FileOK, MetaSame, ActiveMeta
<1>7. /\ FileGood' /\ ActiveOK' /\ FromFile' = FromFile /\ ActiveMeta' = ActiveMeta
      /\ \A p \in Pages : Reachable(p)' <=> Reachable(p)
  <2>1. \A p \in unsynced' : p \in Pages /\ ~Reachable(p)
    BY <1>1, <1>6 DEF IInv, TypeOK, FileGood
  <2> QED BY <1>1, <1>6, <2>1, FileStep DEF IInv
<1>8. MemOK' /\ IdleClean'
  <2>1. \A p \in Cached(d) : ~d[p].dirty
    BY <1>4 DEF Cached, Clean
  <2> QED BY <1>2, <1>6, <2>1, HandleStep DEF IInv
<1>9. CachesOK'
  <2>1. \A p \in Pages : Reachable(p) => Current(c, file, p)
    BY <1>1 DEF IInv, CachesOK, c
  <2>2. \A p \in Pages : Reachable(p) => file'[p] = file[p] /\ Current(cache'[h], file', p)
    BY <1>1, <1>2, <1>4, <2>1 DEF Current, Clean, Cached
  <2> QED BY <1>1, <1>2, <1>7, <2>2, CachesStep DEF IInv
<1>10. WriterOK' /\ PhaseOK' /\ FileOK'
  BY <1>1, <1>7 DEF WriterOK, PhaseOK, FileOK
<1> QED BY <1>5, <1>7, <1>8, <1>9, <1>10 DEF IInv

\* A process that dies leaves the others, and their transaction, as they are.
LEMMA CrashStep ==
  ASSUME IInv, NEW h \in Handles, Crash(h)
  PROVE  IInv'
<1> DEFINE none == [p \in Pages |-> Out]
<1>1. /\ writer = h => phase # "overwriting"
      /\ cache' = [cache EXCEPT ![h] = none] /\ mem' = [mem EXCEPT ![h] = FromFile]
      /\ UNCHANGED <<file, metas, unsynced, committed>>
      /\ writer = h => writer' = NoHandle /\ phase' = "none" /\ work' = committed
      /\ writer # h => writer' = writer /\ phase' = phase /\ work' = work
  BY DEF Crash
<1>2. cache'[h] = none /\ mem'[h] = FromFile /\ Others(h)
  BY <1>1, NamesAssumption DEF IInv, TypeOK, Others
<1>3. /\ none \in Caches /\ Cached(none) = {} /\ \A p \in Pages : Current(none, file, p)
      /\ FromFile \in [active : 0 .. 1, meta : Metas]
  BY FromFileType DEF IInv, Caches, Cached, Current, Clean
<1> HIDE DEF none
<1>4. TypeOK'
  <2>1. cache' \in [Handles -> [Pages -> Slots \cup {Out}]]
    BY <1>1, <1>3 DEF IInv, TypeOK, Caches
  <2>2. mem' \in [Handles -> [active : 0 .. 1, meta : Metas]]
    BY <1>1, <1>3 DEF IInv, TypeOK
  <2>3. /\ writer' \in Hands /\ work' \in [Pages -> Bytes \cup {Unowned}]
        /\ phase' \in {"none", "open", "flush", "overwriting", "torn"}
    BY <1>1 DEF IInv, TypeOK, Hands
  <2> QED BY <1>1, <2>1, <2>2, <2>3 DEF IInv, TypeOK
<1>5. MetaSame /\ FromFile' = FromFile /\ ActiveOK'
  BY <1>1 DEF IInv, MetaSame, ActiveMeta, FromFile, ActiveOK
<1>6. MemOK' /\ IdleClean'
  BY <1>2, <1>3, <1>5, HandleStep DEF IInv
<1>7. FileOK' /\ CachesOK'
  <2>1. CASE phase = "overwriting"
    BY <1>1, <2>1 DEF FileOK, CachesOK
  <2>2. CASE phase # "overwriting"
    <3>1. FileGood
      BY <2>2 DEF IInv, FileOK
    <3>2. FileGood' /\ \A p \in Pages : Reachable(p)' <=> Reachable(p)
      <4>1. \A p \in unsynced' : p \in Pages /\ ~Reachable(p)
        BY <1>1, <3>1 DEF IInv, TypeOK, FileGood
      <4> QED BY <1>1, <1>5, <3>1, <4>1, FileStep DEF IInv
    <3>3. \A p \in Pages : Reachable(p) => file'[p] = file[p] /\ Current(cache'[h], file', p)
      BY <1>1, <1>2, <1>3
    <3>4. CachesOK'
      BY <1>2, <1>5, <2>2, <3>2, <3>3, CachesStep DEF IInv
    <3> QED BY <3>2, <3>4 DEF FileOK
  <2> QED BY <2>1, <2>2
<1>8. PhaseOK' /\ WriterOK'
  <2>1. CASE writer = h
    BY <1>1, <2>1 DEF PhaseOK, WriterOK
  <2>2. CASE writer # h
    <3>1. writer # NoHandle => writer \in Handles /\ cache'[writer] = cache[writer]
                               /\ mem'[writer] = mem[writer]
      BY <1>2, <2>2 DEF Others, IInv, TypeOK, Hands
    <3> QED BY <1>1, <2>2, <3>1 DEF IInv, PhaseOK, WriterOK
  <2> QED BY <2>1, <2>2
<1> QED BY <1>4, <1>5, <1>6, <1>7, <1>8 DEF IInv

\* What the power takes is not part of the committed state.
LEMMA PowerLossStep ==
  ASSUME IInv, PowerLoss
  PROVE  IInv'
<1>1. /\ phase # "overwriting" /\ unsynced' = {}
      /\ cache' = [h \in Handles |-> [p \in Pages |-> Out]]
      /\ mem' = [h \in Handles |-> FromFile]
      /\ writer' = NoHandle /\ phase' = "none" /\ work' = committed
      /\ UNCHANGED <<metas, committed>>
  BY DEF PowerLoss
<1>2. PICK lost \in SUBSET unsynced : file' = [p \in Pages |-> IF p \in lost THEN Torn ELSE file[p]]
  BY DEF PowerLoss
<1>3. FileGood /\ MetaSame
  BY <1>1 DEF IInv, FileOK, MetaSame, ActiveMeta
<1>4. \A p \in Pages : Reachable(p) => file'[p] = file[p]
  BY <1>2, <1>3 DEF FileGood
<1>5. /\ FileGood' /\ ActiveOK' /\ FromFile' = FromFile /\ ActiveMeta' = ActiveMeta
      /\ \A p \in Pages : Reachable(p)' <=> Reachable(p)
  BY <1>1, <1>3, <1>4, FileStep DEF IInv
<1>6. FromFile \in [active : 0 .. 1, meta : Metas] /\ FromFile.active = ActiveMeta
      /\ FromFile.meta = metas[ActiveMeta] /\ metas[ActiveMeta].txn \in Nat
  BY FromFileType DEF IInv, Metas
<1>7. TypeOK'
  <2>1. file' \in [Pages -> Contents]
    BY <1>2 DEF IInv, TypeOK, Contents
  <2> QED BY <1>1, <1>6, <2>1 DEF IInv, TypeOK, Hands
<1>8. MemOK'
  <2>1. metas'[ActiveMeta'] = metas[ActiveMeta] /\ \A h \in Handles : mem'[h] = FromFile /\ h # writer'
    BY <1>1, <1>5, NamesAssumption
  <2> QED BY <1>5, <1>6, <2>1 DEF MemOK
<1>9. IdleClean' /\ CachesOK'
  BY <1>1 DEF IdleClean, CachesOK, Cached, Current, Clean
<1>10. WriterOK' /\ PhaseOK' /\ FileOK'
  BY <1>1, <1>5 DEF WriterOK, PhaseOK, FileOK
<1> QED BY <1>5, <1>7, <1>8, <1>9, <1>10 DEF IInv

\* A meta page that is half written is not the one in use.
LEMMA TearMetaStep ==
  ASSUME IInv, NEW h \in Handles, TearMeta(h)
  PROVE  IInv'
<1>1. /\ writer = h /\ phase = "flush" /\ phase' = "torn"
      /\ metas' = [metas EXCEPT ![1 - mem[h].active] = Torn]
      /\ UNCHANGED <<file, unsynced, cache, mem, writer, work, committed>>
  BY DEF TearMeta
<1>2. mem[h].active = ActiveMeta /\ metas[ActiveMeta] # Torn /\ ActiveMeta \in 0 .. 1
  BY <1>1, FromFileType DEF IInv, MemOK, IsCurrent, ActiveOK
<1>3. /\ metas' = [metas EXCEPT ![1 - ActiveMeta] = Torn] /\ metas' \in [0 .. 1 -> Metas \cup {Torn}]
      /\ 1 - ActiveMeta \in 0 .. 1 /\ 1 - ActiveMeta # ActiveMeta
  BY <1>1, <1>2 DEF IInv, TypeOK
<1>4. MetaSame
  <2>1. metas'[ActiveMeta] = metas[ActiveMeta] /\ metas'[1 - ActiveMeta] = Torn
    BY <1>2, <1>3 DEF IInv, TypeOK
  <2>2. CASE ActiveMeta = 0
    <3>1. metas'[1] = Torn
      BY <2>1, <2>2
    <3> QED BY <2>1, <2>2, <3>1 DEF MetaSame, ActiveMeta
  <2>3. CASE ActiveMeta = 1
    <3>1. metas'[0] = Torn /\ metas'[1] # Torn
      BY <1>2, <2>1, <2>3
    <3>2. ActiveMeta' = 1
      BY <3>1 DEF ActiveMeta
    <3> QED BY <2>1, <2>3, <3>2 DEF MetaSame
  <2> QED BY <1>2, <2>2, <2>3
<1>5. TypeOK' /\ PhaseOK'
  BY <1>1, <1>3 DEF IInv, TypeOK, PhaseOK
<1>6. FileGood
  BY <1>1 DEF IInv, FileOK
<1>7. /\ FileGood' /\ ActiveOK' /\ FromFile' = FromFile /\ ActiveMeta' = ActiveMeta
      /\ \A p \in Pages : Reachable(p)' <=> Reachable(p)
  <2>1. \A p \in unsynced' : p \in Pages /\ ~Reachable(p)
    BY <1>1, <1>6 DEF IInv, TypeOK, FileGood
  <2> QED BY <1>1, <1>4, <1>6, <2>1, FileStep DEF IInv
<1>8. MemOK' /\ IdleClean'
  <2>1. metas'[ActiveMeta'] = metas[ActiveMeta]
    BY <1>4, <1>7 DEF MetaSame
  <2> QED BY <1>1, <1>7, <2>1 DEF IInv, MemOK, IsCurrent, IdleClean
<1>9. CachesOK' /\ WriterOK' /\ FileOK'
  BY <1>1, <1>7 DEF IInv, CachesOK, WriterOK, FileOK
<1> QED BY <1>5, <1>7, <1>8, <1>9 DEF IInv

\* A page the commit writes looks as it did.  When it is one of the committed
\* state, the phase says that the file no longer holds that.
LEMMA FlushPageStep ==
  ASSUME IInv, NEW h \in Handles, FlushPage(h)
  PROVE  IInv'
<1> DEFINE c == cache[h]
           x == CHOOSE q \in Dirty(h) : \A r \in Dirty(h) : q <= r
           b == c[x].bytes
           d == cache'[h]
<1>1. /\ writer = h /\ phase \in {"flush", "overwriting"} /\ Dirty(h) # {}
      /\ UNCHANGED <<metas, mem, writer, work, committed>>
      /\ file' = [file EXCEPT ![x] = b] /\ Written
      /\ cache' = [cache EXCEPT ![h][x].dirty = FALSE, ![h][x].fresh = FALSE]
      /\ phase' = IF Reachable(x) THEN "overwriting" ELSE phase
  BY DEF FlushPage
<1>2. c \in Caches /\ file \in Files
  BY DEF IInv, TypeOK, Caches, Files
<1>3. x \in Dirty(h)
  <2>1. Dirty(h) \in SUBSET Nat
    BY LayoutAssumption DEF Dirty, Cached, Pages
  <2>2. \E q \in Dirty(h) : \A r \in Dirty(h) : q <= r
    BY <1>1, <2>1, LeastElement
  <2> QED BY <2>2
<1> HIDE DEF x
<1>4. /\ x \in Pages /\ c[x] \in Slots /\ b \in Contents /\ c[x] # Out /\ c[x].dirty
      /\ c[x].fresh \in BOOLEAN
  BY <1>2, <1>3, CachedIsSlot DEF Dirty, Cached
<1> DEFINE slot == [[c[x] EXCEPT !.dirty = FALSE] EXCEPT !.fresh = FALSE]
<1>5. d = [c EXCEPT ![x] = slot] /\ \A g \in Handles \ {h} : cache'[g] = cache[g]
  <2>1. d = [c EXCEPT ![x].dirty = FALSE, ![x].fresh = FALSE]
    BY <1>1 DEF IInv, TypeOK
  <2>2. d = [c EXCEPT ![x] = slot]
    BY <1>2, <1>4, <2>1 DEF Caches
  <2>3. \A g \in Handles \ {h} : cache'[g] = cache[g]
    BY <1>1 DEF IInv, TypeOK
  <2> QED BY <2>2, <2>3
<1>6. slot \in Slots /\ slot.bytes = b /\ slot.dirty = FALSE
  BY <1>4 DEF Slots
<1> HIDE DEF slot
<1>7. slot # Out
  BY <1>6, MarksAssumption
<1> HIDE DEF c
<1>8. d \in Caches /\ d[x] = slot /\ \A p \in Pages \ {x} : d[p] = c[p]
  BY <1>2, <1>4, <1>5, <1>6 DEF Caches
<1>9. file' \in Files /\ file'[x] = b /\ \A p \in Pages \ {x} : file'[p] = file[p]
  BY <1>1, <1>2, <1>4 DEF Files
<1> HIDE DEF b, d
<1>10. SeenIn(d, file') = SeenIn(c, file)
  <2>1. \A p \in Pages : SeenIn(d, file')[p] = SeenIn(c, file)[p]
    BY <1>4, <1>6, <1>7, <1>8, <1>9 DEF SeenIn, b
  <2> QED BY <2>1 DEF SeenIn
<1>11. \A p \in Pages : Current(c, file, p) => Current(d, file', p)
  BY <1>6, <1>7, <1>8, <1>9 DEF Current, Clean, Cached
<1>12. TypeOK'
  <2>1. cache' \in [Handles -> [Pages -> Slots \cup {Out}]]
    <3>1. cache' = [cache EXCEPT ![h] = d]
      BY <1>1, <1>5 DEF IInv, TypeOK, d
    <3> QED BY <1>8, <3>1 DEF IInv, TypeOK, Caches
  <2>2. unsynced' \subseteq Pages
    BY <1>1 DEF Written, IInv, TypeOK
  <2> QED BY <1>1, <1>9, <2>1, <2>2 DEF IInv, TypeOK, Files
<1>13. MetaSame /\ ActiveOK' /\ FromFile' = FromFile /\ Others(h)
  BY <1>1, <1>5 DEF IInv, MetaSame, ActiveMeta, FromFile, ActiveOK, Others
<1>14. MemOK' /\ IdleClean'
  <2>1. mem'[h].active = ActiveMeta /\ mem'[h].meta.txn = metas[ActiveMeta].txn /\ h = writer'
    BY <1>1 DEF IInv, MemOK, IsCurrent
  <2> QED BY <1>13, <2>1, HandleStep DEF IInv
<1>15. WriterOK'
  <2> DEFINE m == mem[h].meta
             own == Owned(work)
  <2>1. /\ TxnOK(c, file, m, own)
        /\ \A p \in Pages : work[p] # Unowned => SeenIn(c, file)[p] = work[p]
    BY <1>1, NamesAssumption DEF IInv, WriterOK, c
  <2>2. m.head \in Pages \cup {NoPage} /\ ListPages(SeenIn(c, file), m.head) \cup own \subseteq Pages
    BY <2>1, TxnPages
  <2> HIDE DEF m, own
  <2>3. TxnOK(d, file', m, own)
    BY <1>10, <1>11, <2>1, <2>2 DEF TxnOK
  <2> QED BY <1>1, <1>10, <2>1, <2>3 DEF WriterOK, m, own, d
<1>16. FileOK' /\ CachesOK'
  <2>1. CASE phase' = "overwriting"
    BY <2>1 DEF FileOK, CachesOK
  <2>2. CASE phase' # "overwriting"
    <3>1. phase # "overwriting" /\ ~Reachable(x)
      BY <1>1, <2>2
    <3>2. FileGood
      BY <3>1 DEF IInv, FileOK
    <3>3. \A p \in Pages : Reachable(p) => file'[p] = file[p] /\ Current(cache'[h], file', p)
      <4>1. \A p \in Pages : Reachable(p) => Current(c, file, p)
        BY <1>1, <3>1 DEF IInv, CachesOK, c
      <4> QED BY <1>9, <1>11, <3>1, <4>1 DEF d
    <3>4. FileGood' /\ \A p \in Pages : Reachable(p)' <=> Reachable(p)
      <4>1. \A p \in unsynced' : p \in Pages /\ ~Reachable(p)
        BY <1>1, <3>2, <3>3 DEF IInv, TypeOK, FileGood, Written
      <4> QED BY <1>1, <1>13, <3>2, <3>3, <4>1, FileStep DEF IInv
    <3>5. CachesOK'
      BY <1>13, <3>1, <3>3, <3>4, CachesStep DEF IInv
    <3> QED BY <3>4, <3>5 DEF FileOK
  <2> QED BY <2>1, <2>2
<1>17. PhaseOK'
  BY <1>1, NamesAssumption DEF PhaseOK
<1> QED BY <1>12, <1>13, <1>14, <1>15, <1>16, <1>17 DEF IInv

\* The commit takes effect: what the transaction saw is what the file holds.
LEMMA PublishStep ==
  ASSUME NoSync = FALSE, IInv, NEW h \in Handles, Publish(h)
  PROVE  IInv'
<1> DEFINE c == cache[h]
           d == [p \in Pages |-> IF c[p] = Out THEN Out ELSE [c[p] EXCEPT !.fresh = FALSE]]
           m == mem[h].meta
           a == mem[h].active
           n == [m EXCEPT !.txn = @ + 1]
           own == Owned(work)
           V == SeenIn(c, file)
           L == ListPages(V, m.head)
<1>1. /\ writer = h /\ phase \in {"flush", "overwriting"} /\ Dirty(h) = {} /\ unsynced = {}
      /\ metas' = [metas EXCEPT ![1 - a] = n]
      /\ mem' = [mem EXCEPT ![h] = [active |-> 1 - a, meta |-> n]]
      /\ cache' = [cache EXCEPT ![h] = d]
      /\ committed' = work /\ writer' = NoHandle /\ phase' = "none"
      /\ UNCHANGED <<file, unsynced, work>>
  BY DEF Publish, NextMeta, DataOnDisk, IInv, TypeOK
<1>2. /\ a = ActiveMeta /\ m.txn = metas[ActiveMeta].txn /\ a \in 0 .. 1
      /\ metas[a] # Torn /\ metas[a] \in Metas /\ m \in Metas
  BY <1>1, FromFileType DEF IInv, TypeOK, MemOK, IsCurrent, ActiveOK
<1>3. /\ n \in Metas /\ n.txn = metas[a].txn + 1 /\ n.head = m.head /\ n.total = m.total
      /\ metas[a].txn \in Nat
  BY <1>2 DEF Metas
<1> HIDE DEF n, a
<1>4. /\ 1 - a \in 0 .. 1 /\ metas' \in [0 .. 1 -> Metas \cup {Torn}]
      /\ metas'[1 - a] = n /\ metas'[a] = metas[a] /\ n # Torn
  BY <1>1, <1>2, <1>3, MarksAssumption DEF IInv, TypeOK
<1>5. ActiveMeta' = 1 - a
  <2>1. CASE a = 0
    <3>1. metas'[1] = n /\ metas'[0] = metas[a]
      BY <1>4, <2>1
    <3>2. ~(metas'[0].txn >= metas'[1].txn) /\ metas'[1] # Torn
      BY <1>3, <1>4, <3>1
    <3> QED BY <2>1, <3>2 DEF ActiveMeta
  <2>2. CASE a = 1
    <3>1. metas'[0] = n /\ metas'[1] = metas[a]
      BY <1>4, <2>2
    <3>2. metas'[0].txn >= metas'[1].txn /\ metas'[0] # Torn
      BY <1>3, <1>4, <3>1
    <3> QED BY <2>2, <3>2 DEF ActiveMeta
  <2> QED BY <1>2, <2>1, <2>2
<1>6. metas'[ActiveMeta'] = n /\ FromFile' = [active |-> 1 - a, meta |-> n] /\ ActiveOK'
  BY <1>4, <1>5 DEF FromFile, ActiveOK
<1>7. /\ cache'[h] = d /\ mem'[h] = FromFile'
      /\ \A g \in Handles \ {h} : cache'[g] = cache[g] /\ mem'[g] = mem[g]
  BY <1>1, <1>6 DEF IInv, TypeOK
<1>8. c \in Caches /\ \A p \in Cached(c) : ~c[p].dirty
  BY <1>1 DEF Dirty, IInv, TypeOK, Caches
<1> HIDE DEF c
<1>9. /\ d \in Caches
      /\ \A p \in Pages : \/ c[p] = Out /\ d[p] = Out
                          \/ p \in Clean(c) /\ d[p].bytes = c[p].bytes /\ ~d[p].dirty
  <2>1. ASSUME NEW p \in Pages, c[p] # Out
        PROVE  p \in Clean(c) /\ d[p] \in Slots /\ d[p].bytes = c[p].bytes /\ ~d[p].dirty
    BY <1>8, <2>1 DEF Clean, Cached, Caches, Slots
  <2> QED BY <2>1 DEF Caches
<1> HIDE DEF d
<1>10. /\ TxnOK(c, file, m, own)
       /\ \A p \in Pages : work[p] # Unowned => V[p] = work[p]
  BY <1>1, NamesAssumption DEF IInv, WriterOK, c
<1>11. m.head \in Pages \cup {NoPage} /\ L \cup own \subseteq Pages
  BY <1>10, TxnPages
<1> HIDE DEF m, own, V, L
<1>12. \A p \in L \cup own : Current(c, file, p)
  BY <1>10 DEF TxnOK, L, V
<1>13. \A p \in L \cup own : V[p] = file[p]
  BY <1>8, <1>11, <1>12 DEF V, SeenIn, Current, Clean, Cached
<1>14. FreelistOK(file, m.head, m.total, own) /\ ListPages(file, m.head) = L
  <2>1. FreelistOK(V, m.head, m.total, own)
    BY <1>10 DEF TxnOK, V
  <2>2. \A p \in ListPages(V, m.head) : file[p] = V[p]
    BY <1>13 DEF L
  <2> QED BY <1>11, <2>1, <2>2, SameFreelist DEF L
<1>15. TypeOK'
  <2>1. [active |-> 1 - a, meta |-> n] \in [active : 0 .. 1, meta : Metas]
    BY <1>3, <1>4
  <2>2. mem' \in [Handles -> [active : 0 .. 1, meta : Metas]]
    BY <1>1, <2>1 DEF IInv, TypeOK
  <2>3. cache' \in [Handles -> [Pages -> Slots \cup {Out}]]
    BY <1>1, <1>9 DEF IInv, TypeOK, Caches
  <2> QED BY <1>1, <1>4, <2>2, <2>3 DEF IInv, TypeOK, Hands
<1>16. MemOK'
  <2>1. /\ \A g \in Handles \ {h} : mem'[g].meta.txn <= metas[a].txn /\ mem'[g].meta.txn \in Nat
        /\ mem'[h].meta.txn = n.txn
    BY <1>2, <1>6, <1>7 DEF IInv, MemOK, TypeOK, Metas
  <2>2. \A g \in Handles : mem'[g].meta.txn <= n.txn /\ (mem'[g].meta.txn = n.txn => g = h)
    BY <1>3, <2>1
  <2>3. \A g \in Handles : g # writer'
    BY <1>1, NamesAssumption
  <2> QED BY <1>6, <1>7, <2>2, <2>3 DEF MemOK, IsCurrent
<1>17. IdleClean'
  <2>1. \A p \in Cached(d) : ~d[p].dirty
    BY <1>9 DEF Cached
  <2>2. \A g \in Handles \ {h} : \A p \in Cached(cache'[g]) : ~cache'[g][p].dirty
    BY <1>1, <1>7 DEF IInv, IdleClean
  <2> QED BY <1>7, <2>1, <2>2 DEF IdleClean
<1>18. \A p \in Pages : Reachable(p)' => p \in L \cup own
  BY <1>1, <1>3, <1>6, <1>14 DEF Reachable, own, Owned
<1>19. FileGood'
  <2>1. \A p \in Pages : work[p] # Unowned => file[p] = work[p]
    BY <1>10, <1>13 DEF own, Owned
  <2> QED BY <1>1, <1>3, <1>6, <1>14, <2>1 DEF FileGood, own
<1>20. CachesOK'
  <2>1. ASSUME NEW g \in Handles, mem'[g] = FromFile' PROVE g = h
    <3>1. SUFFICES ASSUME g # h PROVE FALSE
      OBVIOUS
    <3>2. mem'[g].meta.txn = metas[a].txn + 1
      BY <1>3, <1>6, <2>1
    <3>3. mem[g].meta.txn <= metas[a].txn /\ mem[g].meta.txn \in Nat /\ mem'[g] = mem[g]
      BY <1>2, <1>7, <3>1 DEF IInv, MemOK, TypeOK, Metas
    <3> QED BY <1>3, <3>2, <3>3
  <2>2. \A p \in L \cup own : Current(d, file, p)
    BY <1>9, <1>11, <1>12 DEF Current, Clean, Cached
  <2>3. ASSUME NEW g \in Handles, g = writer' \/ mem'[g] = FromFile', NEW p \in Pages, Reachable(p)'
        PROVE  Current(cache'[g], file', p)
    <3>1. g = h
      BY <1>1, <2>1, <2>3, NamesAssumption
    <3> QED BY <1>1, <1>7, <1>18, <2>2, <2>3, <3>1
  <2> QED BY <2>3 DEF CachesOK
<1>21. WriterOK' /\ PhaseOK' /\ FileOK'
  BY <1>1, <1>19 DEF WriterOK, PhaseOK, FileOK
<1> QED BY <1>6, <1>15, <1>16, <1>17, <1>20, <1>21 DEF IInv

------------------------------------------------------------------------------
(* The theorems.                                                           *)

\* No step of any handle, and no loss of power, breaks the invariant.
LEMMA NextIInv ==
  ASSUME AllSpills = FALSE, NoSync = FALSE
  PROVE  IInv /\ [Next]_vars => IInv'
<1> SUFFICES ASSUME IInv, [Next]_vars PROVE IInv'
  OBVIOUS
<1>1. ASSUME Sync PROVE IInv'
  BY <1>1, QuietStep DEF Sync
<1>2. ASSUME NEW h \in Handles, BeginFlush(h) PROVE IInv'
  BY <1>2, QuietStep DEF BeginFlush, Open
<1>3. ASSUME UNCHANGED vars PROVE IInv'
  BY <1>3, QuietStep DEF vars
<1>4. ASSUME NEW h \in Handles,
             \/ Begin(h) \/ FlushPage(h) \/ Publish(h) \/ TearMeta(h) \/ Rollback(h) \/ Crash(h)
             \/ \E b \in Bytes : NewPage(h, b)
             \/ \E p \in Pages : FreePage(h, p) \/ Read(h, p)
             \/ \E p \in Pages, b \in Bytes : ModifyPage(h, p, b)
      PROVE  IInv'
  BY <1>4, BeginStep, FlushPageStep, PublishStep, TearMetaStep, RollbackStep, CrashStep,
     NewPageStep, FreePageStep, ReadStep, ModifyPageStep
<1> QED BY <1>1, <1>2, <1>3, <1>4, PowerLossStep DEF Next

\* The invariant holds throughout.
LEMMA IInvAlways ==
  ASSUME AllSpills = FALSE, NoSync = FALSE
  PROVE  Spec => []IInv
BY InitIInv, NextIInv, PTL DEF Spec

\* page_alloc, page_free, the cache and the commit keep to the types of the
\* file: in particular the freelist pages stay within FREELIST_CAPACITY and
\* no page behind the last one is handed out.
THEOREM PagerTypeOK ==
  ASSUME AllSpills = FALSE, NoSync = FALSE
  PROVE  Spec => []TypeOK
<1>1. IInv => TypeOK
  BY DEF IInv
<1> QED BY <1>1, IInvAlways, PTL

\* Until a commit overwrites the first page of it, the committed state is in
\* the file, byte for byte: no open transaction, spill, rollback, death of a
\* process or loss of power changes what the meta page refers to.
THEOREM CommittedAlwaysIntact ==
  ASSUME AllSpills = FALSE, NoSync = FALSE
  PROVE  Spec => []CommittedIntact
<1>1. IInv => CommittedIntact
  BY DEF IInv, FileOK, FileGood, CommittedIntact
<1> QED BY <1>1, IInvAlways, PTL

\* A transaction reads what it has written, through evictions, spills and
\* the flush of its commit.
THEOREM OwnWritesAlwaysSeen ==
  ASSUME AllSpills = FALSE, NoSync = FALSE
  PROVE  Spec => []OwnWritesSeen
<1>1. IInv => OwnWritesSeen
  BY DEF IInv, WriterOK, OwnWritesSeen, Seen, SeenIn
<1> QED BY <1>1, IInvAlways, PTL

\* page_alloc and page_free never lose a page and never hand one out twice:
\* freelist pages, the ids in them and the client's pages make up the pages
\* allocated so far, in the transaction and in the committed state.
THEOREM NeverLostOrShared ==
  ASSUME AllSpills = FALSE, NoSync = FALSE
  PROVE  Spec => []NoPageLostOrShared
<1>1. IInv => NoPageLostOrShared
  <2> SUFFICES ASSUME IInv PROVE NoPageLostOrShared
    OBVIOUS
  <2>1. ASSUME writer # NoHandle PROVE Partition(Seen(writer), mem[writer].meta, Owned(work))
    <3>1. Seen(writer) = SeenIn(cache[writer], file)
      BY DEF Seen, SeenIn
    <3> QED BY <2>1, <3>1, OKIsPartition DEF IInv, WriterOK, TxnOK
  <2>2. ASSUME phase # "overwriting" PROVE Partition(file, metas[ActiveMeta], Owned(committed))
    BY <2>2, OKIsPartition DEF IInv, FileOK, FileGood
  <2> QED BY <2>1, <2>2 DEF NoPageLostOrShared
<1> QED BY <1>1, IInvAlways, PTL

\* db_refresh_meta may keep a cache whose meta page is still the one in use:
\* none of its pages of the committed state is stale.
THEOREM CacheAlwaysCurrent ==
  ASSUME AllSpills = FALSE, NoSync = FALSE
  PROVE  Spec => []CacheCurrent
<1>1. IInv => CacheCurrent
  <2> SUFFICES ASSUME IInv, NEW h \in Handles \ {writer}, mem[h] = FromFile, phase # "overwriting",
                      NEW p \in Cached(cache[h]), Reachable(p)
               PROVE  cache[h][p].bytes = file[p]
    BY DEF CacheCurrent
  <2>1. p \in Pages /\ ~cache[h][p].dirty
    BY DEF IInv, IdleClean, Cached
  <2>2. Current(cache[h], file, p)
    BY <2>1 DEF IInv, CachesOK
  <2> QED BY <2>1, <2>2 DEF Current, Clean
<1> QED BY <1>1, IInvAlways, PTL
=============================================================================
