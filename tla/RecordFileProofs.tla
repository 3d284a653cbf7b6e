-------------------------- MODULE RecordFileProofs --------------------------
(***************************************************************************)
(* The free list of a table file is right for every number of pages, slots *)
(* and records: RmFileHandle's insert_record, delete_record and            *)
(* update_record, one at a time, keep it the list of pages with room.      *)
(* The layout theorems at the end say, for every length the system         *)
(* accepts, that the pages of a table and of an index hold what their      *)
(* headers say: a page has at least one slot, as RecordAssumption asks.    *)
(***************************************************************************)
EXTENDS RecordFile, LRUReplacerProofs, FiniteSetTheorems, WellFoundedInduction

Rooms == {p \in RecordPage : HasRoom(p)}

\* A page outside the free list has no successor in it.
Unlinked ==
  \A p \in RecordPage : ~HasRoom(p) => next_free_page_no[p] = RM_NO_PAGE

ListsRooms(fl) == IsInjective(fl) /\ Range(fl) = Rooms /\ IsFreeList(fl)

(***************************************************************************)
(* The inductive invariant: Unlinked is what makes first_free_page_no      *)
(* right when the only page of the list fills up.                          *)
(***************************************************************************)
Inv ==
  /\ TypeOK
  /\ PagesConsistent
  /\ Unlinked
  /\ \E fl \in Seq(RecordPage) : ListsRooms(fl)
-----------------------------------------------------------------------------
\* A set of natural numbers that is not empty has a least element.
LEMMA LeastElement ==
  ASSUME NEW S \in SUBSET Nat, S # {}
  PROVE  \E x \in S : \A y \in S : x <= y
<1>1. \E x \in S : \A y \in S : ~(<<y, x>> \in OpToRel(<, Nat))
  BY WFMin, NatLessThanWellFounded, Zenon
<1>2. ASSUME NEW x \in S, NEW y \in S, ~(<<y, x>> \in OpToRel(<, Nat))
      PROVE  x <= y
  <2>1. x \in Nat /\ y \in Nat
    OBVIOUS
  <2>2. ~(y < x)
    BY <1>2, <2>1, Zenon DEF OpToRel
  <2>3. QED
    BY <2>1, <2>2
<1>3. QED
  BY <1>1, <1>2, Zenon

(***************************************************************************)
(* Bitmap::first_bit(false, ...) finds a free slot unless all are used.    *)
(***************************************************************************)
LEMMA FreeSlotExists ==
  ASSUME NEW used \in SUBSET Slot, used # Slot
  PROVE  FirstFreeSlot(used) \in Slot \ used
<1>1. Slot \in SUBSET Nat
  BY RecordAssumption DEF Slot
<1>2. Slot \ used \in SUBSET Nat /\ Slot \ used # {}
  BY <1>1
<1>3. \E x \in Slot \ used : \A y \in Slot \ used : x <= y
  BY <1>2, LeastElement
<1>4. QED
  BY <1>3 DEF FirstFreeSlot

(***************************************************************************)
(* A bitmap is full exactly when it counts num_records_per_page bits.      *)
(***************************************************************************)
LEMMA FullBitmap ==
  ASSUME NEW used \in SUBSET Slot
  PROVE  /\ IsFiniteSet(used)
         /\ Cardinality(used) \in 0..SlotsPerPage
         /\ Cardinality(used) = SlotsPerPage <=> used = Slot
<1>1. IsFiniteSet(Slot) /\ Cardinality(Slot) = SlotsPerPage
  BY FS_Interval, RecordAssumption DEF Slot
<1>2. /\ IsFiniteSet(used)
      /\ Cardinality(used) <= Cardinality(Slot)
      /\ Cardinality(Slot) = Cardinality(used) => Slot = used
  BY <1>1, FS_Subset
<1>3. Cardinality(used) \in Nat
  BY <1>2, FS_CardinalityType
<1>4. QED
  BY <1>1, <1>2, <1>3, RecordAssumption

(***************************************************************************)
(* push_front of a page that is not in the list adds exactly that page     *)
(* (release_page_handle).                                                  *)
(***************************************************************************)
LEMMA PushFront ==
  ASSUME NEW S, NEW l \in Seq(S), NEW e \in S, IsInjective(l), e \notin Range(l)
  PROVE  /\ <<e>> \o l \in Seq(S)
         /\ Len(<<e>> \o l) = Len(l) + 1
         /\ (<<e>> \o l)[1] = e
         /\ \A i \in 2..(Len(l) + 1) : (<<e>> \o l)[i] = l[i-1]
         /\ IsInjective(<<e>> \o l)
         /\ Range(<<e>> \o l) = Range(l) \cup {e}
<1> DEFINE r == <<e>> \o l
<1>1. <<e>> \in Seq(S) /\ Len(<<e>>) = 1 /\ <<e>>[1] = e
  OBVIOUS
<1>2. DOMAIN l = 1..Len(l) /\ Len(l) \in Nat
  OBVIOUS
<1>3. /\ r \in Seq(S)
      /\ Len(r) = 1 + Len(l)
      /\ \A i \in 1..(1 + Len(l)) : r[i] = IF i <= 1 THEN <<e>>[i] ELSE l[i - 1]
  BY <1>1, ConcatProperties
<1> HIDE DEF r
<1>4. r[1] = e /\ \A i \in 2..(Len(l) + 1) : r[i] = l[i-1]
  BY <1>1, <1>2, <1>3
<1>5. DOMAIN r = 1..(Len(l) + 1)
  BY <1>2, <1>3
<1>6. \A i \in 1..Len(l) : l[i] # e
  BY <1>2 DEF Range
<1>7. IsInjective(r)
  <2>1. SUFFICES ASSUME NEW i \in 1..(Len(l) + 1), NEW j \in 1..(Len(l) + 1), r[i] = r[j]
                 PROVE  i = j
    BY <1>5 DEF IsInjective
  <2>2. CASE i = 1 \/ j = 1
    BY <2>1, <2>2, <1>2, <1>4, <1>6
  <2>3. CASE i # 1 /\ j # 1
    <3>1. i - 1 \in 1..Len(l) /\ j - 1 \in 1..Len(l)
      BY <2>3, <1>2
    <3>2. l[i-1] = l[j-1]
      BY <2>1, <2>3, <1>2, <1>4
    <3>3. i - 1 = j - 1
      BY <3>1, <3>2, <1>2 DEF IsInjective
    <3>4. QED
      BY <3>3, <1>2
  <2>4. QED
    BY <2>2, <2>3
<1>8. Range(r) \subseteq Range(l) \cup {e}
  <2>1. SUFFICES ASSUME NEW i \in 1..(Len(l) + 1)
                 PROVE  r[i] \in Range(l) \cup {e}
    BY <1>5 DEF Range
  <2>2. CASE i = 1
    BY <2>2, <1>4
  <2>3. CASE i # 1
    <3>1. i - 1 \in DOMAIN l /\ r[i] = l[i-1]
      BY <2>3, <1>2, <1>4
    <3>2. QED
      BY <3>1 DEF Range
  <2>4. QED
    BY <2>2, <2>3
<1>9. Range(l) \cup {e} \subseteq Range(r)
  <2>1. e \in Range(r)
    BY <1>2, <1>4, <1>5 DEF Range
  <2>2. ASSUME NEW i \in 1..Len(l)
        PROVE  l[i] \in Range(r)
    <3>1. i + 1 \in DOMAIN r /\ r[i + 1] = l[i]
      BY <1>2, <1>4, <1>5
    <3>2. QED
      BY <3>1 DEF Range
  <2>3. QED
    BY <2>1, <2>2, <1>2 DEF Range
<1>10. QED
  BY <1>2, <1>3, <1>4, <1>7, <1>8, <1>9 DEF r
-----------------------------------------------------------------------------
(***************************************************************************)
(* The sentinel is no page.                                                *)
(***************************************************************************)
LEMMA PageNumbers ==
  /\ RecordPage \subseteq Nat \ {0}
  /\ RM_NO_PAGE \notin RecordPage
  /\ \A p \in RecordPage : p <= MaxPageNo
BY RecordAssumption DEF RecordPage, RM_NO_PAGE, RM_FIRST_RECORD_PAGE

(***************************************************************************)
(* create_page_handle returns a page with room: the head of the free list, *)
(* or a new page when no page has room.                                    *)
(***************************************************************************)
LEMMA InsertPageHasRoom ==
  ASSUME Inv, InsertPage <= MaxPageNo
  PROVE  LET p == InsertPage IN
         /\ p \in RecordPage
         /\ num_records[p] \in 0..SlotsPerPage-1
         /\ FirstFreeSlot(bitmap[p]) \in Slot \ bitmap[p]
         /\ first_free_page_no = RM_NO_PAGE => p = num_pages /\ Rooms = {} /\ num_records[p] = 0
         /\ first_free_page_no # RM_NO_PAGE => HasRoom(p) /\ p < num_pages
<1>1. PICK fl \in Seq(RecordPage) : ListsRooms(fl)
  BY DEF Inv
<1>2. PICK p : p = InsertPage
  OBVIOUS
<1>3. /\ num_pages \in 1..MaxPageNo+1
      /\ num_records \in [RecordPage -> 0..SlotsPerPage]
      /\ bitmap \in [RecordPage -> SUBSET Slot]
  BY DEF Inv, TypeOK
<1>4. CASE first_free_page_no = RM_NO_PAGE
  <2>1. p = num_pages /\ p \in RecordPage
    BY <1>2, <1>3, <1>4, RecordAssumption DEF InsertPage, RecordPage, RM_FIRST_RECORD_PAGE
  <2>2. fl = << >>
    <3>1. SUFFICES ASSUME fl # << >>
                   PROVE  FALSE
      OBVIOUS
    <3>2. fl[1] \in RecordPage
      BY <1>1, <3>1, EmptySeq, ElementOfSeq
    <3>3. first_free_page_no = fl[1]
      BY <1>1, <3>1 DEF ListsRooms, IsFreeList
    <3>4. QED
      BY <1>4, <3>2, <3>3, PageNumbers
  <2>3. Rooms = {}
    BY <1>1, <2>2 DEF ListsRooms, Range
  <2>4. ~PageExists(p)
    BY <2>1, <1>3, RecordAssumption DEF PageExists
  <2>5. bitmap[p] = {} /\ num_records[p] = Cardinality(bitmap[p])
    BY <2>1, <2>4 DEF Inv, PagesConsistent
  <2>6. num_records[p] = 0
    BY <2>5, FS_EmptySet
  <2>7. bitmap[p] # Slot
    <3>1. 0 \in Slot
      BY RecordAssumption DEF Slot
    <3>2. QED
      BY <3>1, <2>5
  <2>8. FirstFreeSlot(bitmap[p]) \in Slot \ bitmap[p]
    BY <1>3, <2>1, <2>7, FreeSlotExists
  <2>9. QED
    BY <1>2, <1>4, <2>1, <2>3, <2>6, <2>8, RecordAssumption
<1>5. CASE first_free_page_no # RM_NO_PAGE
  <2>1. p = first_free_page_no
    BY <1>2, <1>5 DEF InsertPage
  <2>2. fl # << >> /\ fl[1] = p
    BY <1>1, <1>5, <2>1 DEF ListsRooms, IsFreeList
  <2>3. p \in Rooms
    <3>1. 1 \in DOMAIN fl
      BY <2>2, EmptySeq
    <3>2. QED
      BY <1>1, <2>2, <3>1 DEF ListsRooms, Range
  <2>4. p \in RecordPage /\ HasRoom(p)
    BY <2>3 DEF Rooms
  <2>5. num_records[p] # SlotsPerPage /\ p < num_pages
    BY <2>4 DEF HasRoom, IsFull, PageExists
  <2>6. num_records[p] \in 0..SlotsPerPage-1
    BY <1>3, <2>4, <2>5, RecordAssumption
  <2>7. num_records[p] = Cardinality(bitmap[p])
    BY <2>4 DEF Inv, PagesConsistent
  <2>8. bitmap[p] # Slot
    BY <1>3, <2>4, <2>5, <2>7, FullBitmap
  <2>9. FirstFreeSlot(bitmap[p]) \in Slot \ bitmap[p]
    BY <1>3, <2>4, <2>8, FreeSlotExists
  <2>10. QED
    BY <1>2, <1>5, <2>4, <2>5, <2>6, <2>9
<1>6. QED
  BY <1>4, <1>5

(***************************************************************************)
(* insert_record without a position keeps the invariant.                   *)
(***************************************************************************)
LEMMA InsertKeepsInv ==
  ASSUME Inv, NEW buf \in Value, insert_record(buf)
  PROVE  Inv'
<1>1. PICK p : p = InsertPage
  OBVIOUS
<1>2. PICK s : s = FirstFreeSlot(bitmap[p])
  OBVIOUS
<1>3. PICK n : n = num_records[p] + 1
  OBVIOUS
<1>4. /\ p <= MaxPageNo
      /\ num_pages' = IF p = num_pages THEN num_pages + 1 ELSE num_pages
      /\ bitmap' = [bitmap EXCEPT ![p] = @ \cup {s}]
      /\ slots' = [slots EXCEPT ![p][s] = buf]
      /\ num_records' = [num_records EXCEPT ![p] = n]
      /\ first_free_page_no' = IF IsFull(n) THEN next_free_page_no[p] ELSE p
      /\ next_free_page_no' = LinkAfterInsert(p, n)
  BY <1>1, <1>2, <1>3 DEF insert_record
<1>5. /\ p \in RecordPage
      /\ num_records[p] \in 0..SlotsPerPage-1
      /\ s \in Slot \ bitmap[p]
      /\ first_free_page_no = RM_NO_PAGE => p = num_pages /\ Rooms = {} /\ num_records[p] = 0
      /\ first_free_page_no # RM_NO_PAGE => HasRoom(p) /\ p < num_pages
  BY <1>1, <1>2, <1>4, InsertPageHasRoom
<1>6. TypeOK /\ PagesConsistent /\ Unlinked
  BY DEF Inv
<1>7. n \in 1..SlotsPerPage
  BY <1>3, <1>5, RecordAssumption
<1>8. \A q \in RecordPage : next_free_page_no'[q] =
        IF q = p /\ IsFull(n) THEN RM_NO_PAGE ELSE next_free_page_no[q]
  BY <1>4, <1>6 DEF TypeOK, LinkAfterInsert
<1>9. TypeOK'
  <2>1. num_pages' \in 1..MaxPageNo+1
    BY <1>4, <1>5, <1>6, PageNumbers, RecordAssumption DEF TypeOK
  <2>2. /\ next_free_page_no' \in [RecordPage -> RecordPage \cup {RM_NO_PAGE}]
        /\ first_free_page_no' \in RecordPage \cup {RM_NO_PAGE}
    BY <1>4, <1>5, <1>6 DEF TypeOK, LinkAfterInsert
  <2>3. num_records' \in [RecordPage -> 0..SlotsPerPage]
    <3>1. n \in 0..SlotsPerPage
      BY <1>7
    <3>2. num_records \in [RecordPage -> 0..SlotsPerPage]
      BY <1>6 DEF TypeOK
    <3>3. QED
      BY <3>1, <3>2, <1>4
  <2>4. bitmap' \in [RecordPage -> SUBSET Slot]
    BY <1>4, <1>5, <1>6 DEF TypeOK
  <2>5. slots' \in [RecordPage -> [Slot -> Value \cup {Erased}]]
    BY <1>4, <1>5, <1>6 DEF TypeOK
  <2>6. QED
    BY <2>1, <2>2, <2>3, <2>4, <2>5 DEF TypeOK
<1>10. \A q \in RecordPage : q # p => (PageExists(q)' <=> PageExists(q))
  <2>1. num_pages \in Nat
    BY <1>6, RecordAssumption DEF TypeOK
  <2>2. QED
    BY <2>1, <1>4, <1>5, PageNumbers DEF PageExists
<1>11. PageExists(p)'
  <2>1. num_pages \in Nat
    BY <1>6, RecordAssumption DEF TypeOK
  <2>2. p < num_pages'
    BY <2>1, <1>4, <1>5, PageNumbers
  <2>3. QED
    BY <2>2, <1>5, PageNumbers DEF PageExists, RM_FIRST_RECORD_PAGE
<1>12. PagesConsistent'
  <2>1. SUFFICES ASSUME NEW q \in RecordPage
                 PROVE  /\ num_records'[q] = Cardinality(bitmap'[q])
                        /\ \A t \in Slot : t \in bitmap'[q] <=> slots'[q][t] # Erased
                        /\ ~PageExists(q)' => bitmap'[q] = {}
    BY DEF PagesConsistent, PageExists
  <2>2. /\ num_records[q] = Cardinality(bitmap[q])
        /\ \A t \in Slot : t \in bitmap[q] <=> slots[q][t] # Erased
        /\ ~PageExists(q) => bitmap[q] = {}
    BY <1>6 DEF PagesConsistent
  <2>3. CASE q # p
    <3>1. num_records'[q] = num_records[q] /\ bitmap'[q] = bitmap[q] /\ slots'[q] = slots[q]
      BY <2>3, <1>4, <1>6 DEF TypeOK
    <3>2. QED
      BY <3>1, <2>2, <2>3, <1>10
  <2>4. CASE q = p
    <3>1. bitmap'[q] = bitmap[q] \cup {s} /\ num_records'[q] = num_records[q] + 1
      BY <2>4, <1>3, <1>4, <1>5, <1>6 DEF TypeOK
    <3>2. bitmap[q] \in SUBSET Slot
      BY <1>6 DEF TypeOK
    <3>3. IsFiniteSet(bitmap[q])
      BY <3>2, FullBitmap
    <3>4. s \notin bitmap[q] /\ s \in Slot
      BY <2>4, <1>5
    <3>5. Cardinality(bitmap[q] \cup {s}) = Cardinality(bitmap[q]) + 1
      BY <3>3, <3>4, FS_AddElement
    <3>6. \A t \in Slot : slots'[q][t] = IF t = s THEN buf ELSE slots[q][t]
      BY <2>4, <1>4, <1>5, <1>6 DEF TypeOK
    <3>7. buf # Erased
      BY RecordAssumption
    <3>8. \A t \in Slot : t \in bitmap'[q] <=> slots'[q][t] # Erased
      BY <3>1, <3>6, <3>7, <2>2
    <3>9. QED
      BY <3>1, <3>5, <3>8, <2>2, <2>4, <1>11
  <2>5. QED
    BY <2>3, <2>4
<1>13. \A q \in RecordPage : HasRoom(q)' <=> IF q = p THEN ~IsFull(n) ELSE HasRoom(q)
  <2>1. \A q \in RecordPage : num_records'[q] = IF q = p THEN n ELSE num_records[q]
    BY <1>4, <1>6 DEF TypeOK
  <2>2. QED
    BY <2>1, <1>5, <1>10, <1>11 DEF HasRoom, IsFull
<1>14. Unlinked'
  <2>1. SUFFICES ASSUME NEW q \in RecordPage, ~HasRoom(q)'
                 PROVE  next_free_page_no'[q] = RM_NO_PAGE
    BY DEF Unlinked, HasRoom, PageExists
  <2>2. QED
    BY <2>1, <1>6, <1>8, <1>13 DEF Unlinked
<1>15. \E fl \in Seq(RecordPage) : ListsRooms(fl)'
  <2>1. PICK fl \in Seq(RecordPage) : ListsRooms(fl)
    BY DEF Inv
  <2>2. IsInjective(fl) /\ Range(fl) = Rooms /\ IsFreeList(fl)
    BY <2>1 DEF ListsRooms
  <2>3. Rooms' = IF IsFull(n) THEN Rooms \ {p} ELSE Rooms \cup {p}
    BY <1>5, <1>13 DEF Rooms
  <2>4. CASE first_free_page_no = RM_NO_PAGE /\ IsFull(n)
    <3>1. ~HasRoom(p)
      BY <2>4, <1>5 DEF Rooms
    <3>2. first_free_page_no' = RM_NO_PAGE
      BY <3>1, <2>4, <1>4, <1>5, <1>6 DEF Unlinked
    <3>3. Rooms' = {}
      BY <2>3, <2>4, <1>5
    <3>4. << >> \in Seq(RecordPage) /\ IsInjective(<< >>) /\ Range(<< >>) = {}
      BY EmptySeq DEF IsInjective, Range
    <3>5. IsFreeList(<< >>)'
      BY <3>2 DEF IsFreeList
    <3>6. ListsRooms(<< >>)'
      BY <3>3, <3>4, <3>5 DEF ListsRooms
    <3>7. QED
      BY <3>4, <3>6
  <2>5. CASE first_free_page_no = RM_NO_PAGE /\ ~IsFull(n)
    <3>1. ~HasRoom(p)
      BY <2>5, <1>5 DEF Rooms
    <3>2. first_free_page_no' = p /\ next_free_page_no'[p] = RM_NO_PAGE
      BY <3>1, <2>5, <1>4, <1>5, <1>6, <1>8 DEF Unlinked
    <3>3. Rooms' = {p}
      BY <2>3, <2>5, <1>5
    <3>4. <<p>> \in Seq(RecordPage) /\ IsInjective(<<p>>) /\ Range(<<p>>) = {p}
      BY <1>5 DEF IsInjective, Range
    <3>5. IsFreeList(<<p>>)'
      <4>1. Len(<<p>>) = 1 /\ <<p>>[1] = p /\ DOMAIN <<p>> = {1} /\ <<p>> # << >>
        OBVIOUS
      <4>2. QED
        BY <3>2, <4>1 DEF IsFreeList
    <3>6. ListsRooms(<<p>>)'
      BY <3>3, <3>4, <3>5 DEF ListsRooms
    <3>7. QED
      BY <3>4, <3>6
  <2>6. CASE first_free_page_no # RM_NO_PAGE /\ ~IsFull(n)
    <3>1. p \in Rooms /\ Rooms' = Rooms
      BY <2>3, <2>6, <1>5 DEF Rooms
    <3>2. first_free_page_no' = first_free_page_no
      BY <2>6, <1>1, <1>4 DEF InsertPage
    <3>3. next_free_page_no' = next_free_page_no
      BY <2>6, <1>4 DEF LinkAfterInsert
    <3>4. ListsRooms(fl)'
      BY <3>1, <3>2, <3>3, <2>2 DEF ListsRooms, IsFreeList
    <3>5. QED
      BY <3>4
  <2>7. CASE first_free_page_no # RM_NO_PAGE /\ IsFull(n)
    <3>1. p = first_free_page_no
      BY <2>7, <1>1 DEF InsertPage
    <3>2. fl # << >> /\ fl[1] = p
      BY <3>1, <2>2, <2>7 DEF IsFreeList
    <3>3. Head(fl) = p
      BY <3>2
    <3>4. PICK rest : rest = Tail(fl)
      OBVIOUS
    <3>5. /\ rest \in Seq(RecordPage)
          /\ IsInjective(rest)
          /\ Range(rest) = Rooms \ {p}
      BY <3>2, <3>3, <3>4, <2>2, PopFront
    <3>6. /\ Len(fl) \in Nat \ {0}
          /\ Len(rest) = Len(fl) - 1
          /\ \A i \in 1..Len(rest) : rest[i] = fl[i+1]
      BY <3>2, <3>4, HeadTailProperties, EmptySeq
    <3>7. DOMAIN rest = 1..Len(rest) /\ DOMAIN fl = 1..Len(fl)
      BY <3>5
    <3>8. first_free_page_no' = next_free_page_no[p]
      BY <2>7, <1>4
    <3>9. next_free_page_no[p] = IF Len(fl) = 1 THEN RM_NO_PAGE ELSE fl[2]
      BY <3>2, <3>6, <3>7, <2>2 DEF IsFreeList
    <3>10. first_free_page_no' = IF rest = << >> THEN RM_NO_PAGE ELSE rest[1]
      BY <3>5, <3>6, <3>8, <3>9, EmptySeq
    <3>11. ASSUME NEW i \in DOMAIN rest
           PROVE  next_free_page_no'[rest[i]] =
                    IF i = Len(rest) THEN RM_NO_PAGE ELSE rest[i+1]
      <4>1. i \in 1..Len(rest) /\ i + 1 \in DOMAIN fl /\ rest[i] = fl[i+1]
        BY <3>6, <3>7
      <4>2. rest[i] \in RecordPage /\ rest[i] # p
        <5>1. rest[i] \in Range(rest)
          BY DEF Range
        <5>2. QED
          BY <5>1, <4>1, <3>5, ElementOfSeq
      <4>3. next_free_page_no'[rest[i]] = next_free_page_no[fl[i+1]]
        BY <4>1, <4>2, <1>8
      <4>4. next_free_page_no[fl[i+1]] = IF i + 1 = Len(fl) THEN RM_NO_PAGE ELSE fl[i+2]
        BY <4>1, <2>2 DEF IsFreeList
      <4>5. i # Len(rest) => rest[i+1] = fl[i+2]
        BY <4>1, <3>6
      <4>6. QED
        BY <4>1, <4>3, <4>4, <4>5, <3>6
    <3>12. IsFreeList(rest)'
      BY <3>10, <3>11 DEF IsFreeList
    <3>13. ListsRooms(rest)'
      BY <3>5, <3>12, <2>3, <2>7 DEF ListsRooms
    <3>14. QED
      BY <3>5, <3>13
  <2>8. QED
    BY <2>4, <2>5, <2>6, <2>7
<1>16. QED
  BY <1>9, <1>12, <1>14, <1>15 DEF Inv

(***************************************************************************)
(* delete_record keeps the invariant: a page that was full goes back to    *)
(* the front of the free list, where it was not.                           *)
(***************************************************************************)
LEMMA DeleteKeepsInv ==
  ASSUME Inv, NEW rid \in Rid, delete_record(rid)
  PROVE  Inv'
<1>1. PICK p \in RecordPage, s \in Slot : rid = <<p, s>>
  BY DEF Rid
<1>3. /\ rid \in Records
      /\ bitmap' = [bitmap EXCEPT ![p] = @ \ {s}]
      /\ slots' = [slots EXCEPT ![p][s] = Erased]
      /\ num_records' = [num_records EXCEPT ![p] = @ - 1]
      /\ IsFull(num_records[p]) =>
           /\ next_free_page_no' = [next_free_page_no EXCEPT ![p] = first_free_page_no]
           /\ first_free_page_no' = p
      /\ ~IsFull(num_records[p]) => UNCHANGED <<next_free_page_no, first_free_page_no>>
      /\ num_pages' = num_pages
  BY <1>1 DEF delete_record, MustRelease
<1>4. TypeOK /\ PagesConsistent /\ Unlinked
  BY DEF Inv
<1>5. PageExists(p) /\ s \in bitmap[p]
  BY <1>1, <1>3 DEF Records
<1>6. /\ bitmap[p] \in SUBSET Slot
      /\ num_records[p] = Cardinality(bitmap[p])
      /\ num_records[p] \in 0..SlotsPerPage
  BY <1>4 DEF TypeOK, PagesConsistent
<1>7. IsFiniteSet(bitmap[p])
  BY <1>6, FullBitmap
<1>8. /\ IsFiniteSet(bitmap[p] \ {s})
      /\ Cardinality(bitmap[p] \ {s}) = num_records[p] - 1
  BY <1>5, <1>6, <1>7, FS_RemoveElement
<1>9. num_records[p] - 1 \in 0..SlotsPerPage /\ num_records[p] - 1 # SlotsPerPage
  <2>1. Cardinality(bitmap[p] \ {s}) \in Nat
    BY <1>8, FS_CardinalityType
  <2>2. QED
    BY <2>1, <1>6, <1>8, RecordAssumption
<1>10. TypeOK'
  <2>1. num_records' \in [RecordPage -> 0..SlotsPerPage]
    <3>1. num_records \in [RecordPage -> 0..SlotsPerPage]
      BY <1>4 DEF TypeOK
    <3>2. QED
      BY <3>1, <1>3, <1>9
  <2>2. /\ next_free_page_no' \in [RecordPage -> RecordPage \cup {RM_NO_PAGE}]
        /\ first_free_page_no' \in RecordPage \cup {RM_NO_PAGE}
    BY <1>3, <1>4 DEF TypeOK
  <2>3. bitmap' \in [RecordPage -> SUBSET Slot]
    BY <1>3, <1>4 DEF TypeOK
  <2>4. slots' \in [RecordPage -> [Slot -> Value \cup {Erased}]]
    BY <1>3, <1>4 DEF TypeOK
  <2>5. QED
    BY <2>1, <2>2, <2>3, <2>4, <1>3, <1>4 DEF TypeOK
<1>11. \A q \in RecordPage : PageExists(q)' <=> PageExists(q)
  BY <1>3 DEF PageExists
<1>12. PagesConsistent'
  <2>1. SUFFICES ASSUME NEW q \in RecordPage
                 PROVE  /\ num_records'[q] = Cardinality(bitmap'[q])
                        /\ \A t \in Slot : t \in bitmap'[q] <=> slots'[q][t] # Erased
                        /\ ~PageExists(q)' => bitmap'[q] = {}
    BY DEF PagesConsistent, PageExists
  <2>2. /\ num_records[q] = Cardinality(bitmap[q])
        /\ \A t \in Slot : t \in bitmap[q] <=> slots[q][t] # Erased
        /\ ~PageExists(q) => bitmap[q] = {}
    BY <1>4 DEF PagesConsistent
  <2>3. CASE q # p
    <3>1. num_records'[q] = num_records[q] /\ bitmap'[q] = bitmap[q] /\ slots'[q] = slots[q]
      BY <2>3, <1>3, <1>4 DEF TypeOK
    <3>2. QED
      BY <3>1, <2>2, <1>11
  <2>4. CASE q = p
    <3>1. bitmap'[q] = bitmap[q] \ {s} /\ num_records'[q] = num_records[q] - 1
      BY <2>4, <1>3, <1>4 DEF TypeOK
    <3>2. \A t \in Slot : slots'[q][t] = IF t = s THEN Erased ELSE slots[q][t]
      BY <2>4, <1>3, <1>4 DEF TypeOK
    <3>3. \A t \in Slot : t \in bitmap'[q] <=> slots'[q][t] # Erased
      BY <3>1, <3>2, <2>2
    <3>4. QED
      BY <3>1, <3>3, <2>4, <1>5, <1>8, <1>11
  <2>5. QED
    BY <2>3, <2>4
<1>13. \A q \in RecordPage : HasRoom(q)' <=> q = p \/ HasRoom(q)
  <2>1. \A q \in RecordPage : num_records'[q] = IF q = p THEN num_records[p] - 1 ELSE num_records[q]
    BY <1>3, <1>4 DEF TypeOK
  <2>2. QED
    BY <2>1, <1>5, <1>9, <1>11 DEF HasRoom, IsFull
<1>14. Rooms' = Rooms \cup {p}
  BY <1>13 DEF Rooms
<1>15. Unlinked'
  <2>1. SUFFICES ASSUME NEW q \in RecordPage, ~HasRoom(q)'
                 PROVE  next_free_page_no'[q] = RM_NO_PAGE
    BY DEF Unlinked, HasRoom, PageExists
  <2>2. q # p /\ next_free_page_no[q] = RM_NO_PAGE
    BY <2>1, <1>4, <1>13 DEF Unlinked
  <2>3. QED
    BY <2>2, <1>3, <1>4 DEF TypeOK
<1>16. \E fl \in Seq(RecordPage) : ListsRooms(fl)'
  <2>1. PICK fl \in Seq(RecordPage) : ListsRooms(fl)
    BY DEF Inv
  <2>2. IsInjective(fl) /\ Range(fl) = Rooms /\ IsFreeList(fl)
    BY <2>1 DEF ListsRooms
  <2>3. CASE ~IsFull(num_records[p])
    <3>1. p \in Rooms
      BY <2>3, <1>5 DEF Rooms, HasRoom
    <3>2. Rooms' = Rooms
      BY <3>1, <1>14
    <3>3. ListsRooms(fl)'
      BY <3>2, <2>2, <2>3, <1>3 DEF ListsRooms, IsFreeList
    <3>4. QED
      BY <3>3
  <2>4. CASE IsFull(num_records[p])
    <3>1. p \notin Range(fl)
      BY <2>2, <2>4 DEF Rooms, HasRoom
    <3>2. PICK nl : nl = <<p>> \o fl
      OBVIOUS
    <3>3. /\ nl \in Seq(RecordPage)
          /\ Len(nl) = Len(fl) + 1
          /\ nl[1] = p
          /\ \A i \in 2..(Len(fl) + 1) : nl[i] = fl[i-1]
          /\ IsInjective(nl)
          /\ Range(nl) = Rooms \cup {p}
      BY <3>1, <3>2, <2>2, PushFront
    <3>4. /\ DOMAIN nl = 1..(Len(fl) + 1) /\ nl # << >>
          /\ DOMAIN fl = 1..Len(fl) /\ Len(fl) \in Nat
      BY <3>3
    <3>5. first_free_page_no' = nl[1]
      BY <3>3, <2>4, <1>3
    <3>6. \A q \in RecordPage : next_free_page_no'[q] =
            IF q = p THEN first_free_page_no ELSE next_free_page_no[q]
      BY <2>4, <1>3, <1>4 DEF TypeOK
    <3>7. ASSUME NEW i \in DOMAIN nl
          PROVE  next_free_page_no'[nl[i]] = IF i = Len(nl) THEN RM_NO_PAGE ELSE nl[i+1]
      <4>1. CASE i = 1
        <5>1. next_free_page_no'[nl[i]] = first_free_page_no
          BY <4>1, <3>3, <3>6
        <5>2. first_free_page_no = IF Len(fl) = 0 THEN RM_NO_PAGE ELSE fl[1]
          BY <2>2, EmptySeq DEF IsFreeList
        <5>3. Len(fl) # 0 => nl[2] = fl[1]
          BY <3>3, <3>4
        <5>4. QED
          BY <5>1, <5>2, <5>3, <4>1, <3>3, <3>4
      <4>2. CASE i # 1
        <5>1. i - 1 \in DOMAIN fl /\ nl[i] = fl[i-1]
          BY <4>2, <3>3, <3>4
        <5>2. fl[i-1] \in RecordPage /\ fl[i-1] # p
          <6>1. fl[i-1] \in Range(fl)
            BY <5>1 DEF Range
          <6>2. QED
            BY <6>1, <5>1, <3>1, <3>4, ElementOfSeq
        <5>3. next_free_page_no'[nl[i]] = next_free_page_no[fl[i-1]]
          BY <5>1, <5>2, <3>6
        <5>4. next_free_page_no[fl[i-1]] = IF i - 1 = Len(fl) THEN RM_NO_PAGE ELSE fl[(i-1)+1]
          BY <5>1, <2>2 DEF IsFreeList
        <5>5. i # Len(nl) => nl[i+1] = fl[i]
          BY <4>2, <3>3, <3>4
        <5>6. (i - 1) + 1 = i /\ (i - 1 = Len(fl) <=> i = Len(nl))
          BY <3>3, <3>4
        <5>7. QED
          BY <5>3, <5>4, <5>5, <5>6
      <4>3. QED
        BY <4>1, <4>2
    <3>8. IsFreeList(nl)'
      BY <3>4, <3>5, <3>7 DEF IsFreeList
    <3>9. ListsRooms(nl)'
      BY <3>3, <3>8, <1>14 DEF ListsRooms
    <3>10. QED
      BY <3>3, <3>9
  <2>5. QED
    BY <2>3, <2>4
<1>17. QED
  BY <1>10, <1>12, <1>15, <1>16 DEF Inv

(***************************************************************************)
(* update_record overwrites a record with a record.                        *)
(***************************************************************************)
LEMMA UpdateKeepsInv ==
  ASSUME Inv, NEW rid \in Rid, NEW buf \in Value, update_record(rid, buf)
  PROVE  Inv'
<1>1. PICK p \in RecordPage, s \in Slot : rid = <<p, s>>
  BY DEF Rid
<1>2. /\ rid \in Records
      /\ slots' = [slots EXCEPT ![p][s] = buf]
      /\ UNCHANGED <<num_pages, first_free_page_no, next_free_page_no, num_records, bitmap>>
  BY <1>1 DEF update_record
<1>3. TypeOK /\ PagesConsistent /\ Unlinked
  BY DEF Inv
<1>4. s \in bitmap[p] /\ buf # Erased
  BY <1>1, <1>2, RecordAssumption DEF Records
<1>5. TypeOK'
  BY <1>2, <1>3 DEF TypeOK
<1>6. PagesConsistent'
  <2>1. \A q \in RecordPage, t \in Slot :
          slots'[q][t] = IF q = p /\ t = s THEN buf ELSE slots[q][t]
    BY <1>2, <1>3 DEF TypeOK
  <2>2. \A q \in RecordPage, t \in Slot : t \in bitmap[q] <=> slots'[q][t] # Erased
    BY <2>1, <1>3, <1>4 DEF PagesConsistent
  <2>3. QED
    BY <2>2, <1>2, <1>3 DEF PagesConsistent, PageExists
<1>7. Unlinked'
  BY <1>2, <1>3 DEF Unlinked, HasRoom, PageExists
<1>8. Rooms' = Rooms
  BY <1>2 DEF Rooms, HasRoom, PageExists
<1>9. PICK fl \in Seq(RecordPage) : ListsRooms(fl)
  BY DEF Inv
<1>10. ListsRooms(fl)'
  BY <1>2, <1>8, <1>9 DEF ListsRooms, IsFreeList
<1>11. QED
  BY <1>5, <1>6, <1>7, <1>10 DEF Inv

(***************************************************************************)
(* A file that RmManager::create_file made has no record page and an empty *)
(* free list.                                                              *)
(***************************************************************************)
LEMMA InitInv == Init => Inv
<1>1. SUFFICES ASSUME Init
               PROVE  Inv
  OBVIOUS
<1>2. TypeOK
  BY <1>1, RecordAssumption DEF Init, TypeOK
<1>3. \A p \in RecordPage : ~PageExists(p)
  BY <1>1, PageNumbers DEF Init, PageExists, RM_FIRST_RECORD_PAGE
<1>4. PagesConsistent
  BY <1>1, FS_EmptySet DEF Init, PagesConsistent
<1>5. Unlinked
  BY <1>1 DEF Init, Unlinked
<1>6. Rooms = {}
  BY <1>3 DEF Rooms, HasRoom
<1>7. IsInjective(<< >>) /\ Range(<< >>) = {} /\ << >> \in Seq(RecordPage)
  BY EmptySeq DEF IsInjective, Range
<1>8. IsFreeList(<< >>)
  BY <1>1 DEF Init, IsFreeList
<1>9. ListsRooms(<< >>)
  BY <1>6, <1>7, <1>8 DEF ListsRooms
<1>10. QED
  BY <1>2, <1>4, <1>5, <1>7, <1>9 DEF Inv

(***************************************************************************)
(* Inv holds in every reachable state.                                     *)
(***************************************************************************)
\* A step that leaves the file alone keeps it right.
LEMMA StutterKeepsInv ==
  ASSUME Inv, UNCHANGED file_vars
  PROVE  Inv'
  BY ZenonT(60)
     DEF file_vars, page_vars, Inv, TypeOK, PagesConsistent, Unlinked, ListsRooms,
         Rooms, HasRoom, PageExists, IsFreeList

LEMMA InvHolds == Spec => []Inv
<1>1. Inv /\ [Next]_file_vars => Inv'
  <2>1. SUFFICES ASSUME Inv, [Next]_file_vars
                 PROVE  Inv'
    OBVIOUS
  <2>2. CASE \E buf \in Value : insert_record(buf)
    BY <2>1, <2>2, InsertKeepsInv
  <2>3. CASE \E rid \in Rid : delete_record(rid)
    BY <2>1, <2>3, DeleteKeepsInv
  <2>4. CASE \E rid \in Rid, buf \in Value : update_record(rid, buf)
    BY <2>1, <2>4, UpdateKeepsInv
  <2>5. CASE UNCHANGED file_vars
    BY <2>1, <2>5, StutterKeepsInv
  <2>6. QED
    BY <2>1, <2>2, <2>3, <2>4, <2>5 DEF Next
<1>2. QED
  BY InitInv, <1>1, PTL DEF Spec
-----------------------------------------------------------------------------
(***************************************************************************)
(* The headers, bitmaps and slots of a table file keep their types under   *)
(* insert_record, delete_record and update_record.                         *)
(***************************************************************************)
THEOREM RecordTypeCorrect == Spec => []TypeOK
<1>1. Inv => TypeOK
  BY DEF Inv
<1>2. QED
  BY <1>1, InvHolds, PTL

(***************************************************************************)
(* num_records counts the bitmap, and the bitmap marks the slots in use,   *)
(* in every page at all times.                                             *)
(***************************************************************************)
THEOREM RecordPagesConsistent == Spec => []PagesConsistent
<1>1. Inv => PagesConsistent
  BY DEF Inv
<1>2. QED
  BY <1>1, InvHolds, PTL

(***************************************************************************)
(* A list of distinct pages is no longer than the file.                    *)
(***************************************************************************)
LEMMA ListIsBounded ==
  ASSUME NEW fl \in Seq(RecordPage), IsInjective(fl)
  PROVE  fl \in PageLists /\ Len(fl) <= MaxPageNo
<1>1. Len(fl) \in Nat /\ fl \in [1..Len(fl) -> RecordPage]
  OBVIOUS
<1>2. fl \in Injection(1..Len(fl), RecordPage)
  BY <1>1 DEF Injection
<1>3. IsFiniteSet(RecordPage) /\ Cardinality(RecordPage) = MaxPageNo
  BY FS_Interval, RecordAssumption DEF RecordPage, RM_FIRST_RECORD_PAGE
<1>4. Cardinality(1..Len(fl)) = Len(fl)
  BY <1>1, FS_Interval
<1>5. Cardinality(1..Len(fl)) <= Cardinality(RecordPage)
  BY <1>2, <1>3, FS_Injection
<1>6. Len(fl) \in 0..MaxPageNo
  BY <1>1, <1>3, <1>4, <1>5, RecordAssumption
<1>7. fl \in PageLists
  BY <1>1, <1>6 DEF PageLists
<1>8. QED
  BY <1>6, <1>7

\* The invariant's list is one the model checker can enumerate.
LEMMA FreeListFromInv == Inv => FreeListIsPagesWithRoom
<1>1. SUFFICES ASSUME Inv
               PROVE  FreeListIsPagesWithRoom
  OBVIOUS
<1>2. PICK fl \in Seq(RecordPage) : ListsRooms(fl)
  BY <1>1 DEF Inv
<1>3. fl \in PageLists
  BY <1>2, ListIsBounded DEF ListsRooms
<1>4. QED
  BY <1>2, <1>3 DEF ListsRooms, Rooms, FreeListIsPagesWithRoom

(***************************************************************************)
(* The free list of a table file holds exactly the pages with room, each   *)
(* once, for every number of pages and slots: insert_record always finds a *)
(* slot, and delete_record never adds a page that is in the list.          *)
(***************************************************************************)
THEOREM FreeListIsRight == Spec => []FreeListIsPagesWithRoom
  BY FreeListFromInv, InvHolds, PTL
-----------------------------------------------------------------------------
(***************************************************************************)
(* What RmManager::create_file computes for a record of any length it      *)
(* accepts: the bitmap and all slots lie within the page, there is at      *)
(* least one slot, and every slot has a bit of its own.                    *)
(***************************************************************************)
THEOREM RecordsFitTheirPage ==
  \A record_size \in 1..RM_MAX_RECORD_SIZE :
    RecordsFit(RmFileHdr(record_size)) /\ BitsSuffice(RmFileHdr(record_size))
<1>a. RM_MAX_RECORD_SIZE \in Nat
  BY DEF RM_MAX_RECORD_SIZE
<1> SUFFICES ASSUME NEW r \in Nat, 1 <= r, r <= RM_MAX_RECORD_SIZE
             PROVE  RecordsFit(RmFileHdr(r)) /\ BitsSuffice(RmFileHdr(r))
  BY <1>a
<1>b. r <= 512
  BY DEF RM_MAX_RECORD_SIZE
<1> USE <1>b
<1> DEFINE n == num_records_per_page(r)
           d == 1 + r * 8
           b == bitmap_size(n)
<1>1. d \in Nat /\ 9 <= d /\ d <= 4097 /\ n = 32601 \div d
  BY DEF num_records_per_page, BITMAP_WIDTH, PAGE_SIZE, SizeofRmFileHdr
<1>2. n \in Nat /\ n * d <= 32601 /\ 32601 < (n + 1) * d
  <2> HIDE DEF n, d
  <2>1. n * d <= 32601
    BY <1>1, Z3
  <2>2. 32601 < (n + 1) * d
    BY <1>1, Z3
  <2>3. n \in Nat
    <3>1. \A y \in Nat \ {0} : 32601 \div y \in Nat
      BY Z3
    <3>2. d \in Nat \ {0}
      BY <1>1
    <3>3. 32601 \div d \in Nat
      BY <3>1, <3>2
    <3>4. QED
      BY <1>1, <3>3
  <2>4. QED
    BY <2>1, <2>2, <2>3
<1>3. n > 0
  <2> HIDE DEF n, d
  <2>1. CASE n = 0
    BY <1>1, <1>2, <2>1
  <2>2. QED
    BY <1>2, <2>1
<1>4. n + 8 * (n * r) <= 32601
  <2>1. n * d = n + 8 * (n * r)
    <3> HIDE DEF n
    <3>1. QED
      BY <1>2
  <2>2. QED
    BY <1>2, <2>1
<1>5. b \in Nat /\ n <= 8 * b /\ 8 * b <= n + 7
  <2> HIDE DEF n
  <2>1. b = (n + 8 - 1) \div 8
    BY DEF bitmap_size, BITMAP_WIDTH
  <2>2. QED
    BY <1>2, <2>1
<1>6. b + n * r <= 4076
  <2> DEFINE p == n * r
  <2>1. p \in Int
    <3> HIDE DEF n
    <3>1. QED
      BY <1>2
  <2>2. n + 8 * p <= 32601
    BY <1>4
  <2> HIDE DEF n, p, b
  <2>3. b + p <= 4076
    BY <1>2, <1>5, <2>1, <2>2
  <2>4. QED
    BY <2>3 DEF p
<1>7. RecordsFit(RmFileHdr(r))
  <2> DEFINE p == n * r
  <2>1. p \in Int /\ b + p <= 4076
    <3> HIDE DEF n, b
    <3>1. QED
      BY <1>2, <1>6
  <2>2. RecordsFit(RmFileHdr(r)) <=> 4 + 8 + b + p <= 4096
    BY DEF RecordsFit, RmFileHdr, OFFSET_PAGE_HDR, SizeofRmPageHdr, PAGE_SIZE
  <2> HIDE DEF p, b, n
  <2>3. QED
    BY <1>5, <2>1, <2>2
<1>8. BitsSuffice(RmFileHdr(r))
  <2>1. BitsSuffice(RmFileHdr(r)) <=> 0 < n /\ n <= 8 * b
    BY DEF BitsSuffice, RmFileHdr, BITMAP_WIDTH
  <2>2. QED
    BY <1>3, <1>5, <2>1
<1>9. QED
  BY <1>7, <1>8

(***************************************************************************)
(* What IxManager::create_index computes for a key of any length it        *)
(* accepts: a node can hold one key and rid more than its order, as an     *)
(* insertion before the split needs, and the asserted order is reached.    *)
(***************************************************************************)
THEOREM KeysFitTheirNode ==
  \A types, lens \in Seq(Nat), col_tot_len \in 0..IX_MAX_COL_LEN :
    LET hdr == IxFileHdr(types, lens, col_tot_len) IN KeysFit(hdr) /\ OrderSuffices(hdr)
<1>a. IX_MAX_COL_LEN \in Nat
  BY DEF IX_MAX_COL_LEN
<1> SUFFICES ASSUME NEW types, NEW lens, NEW l \in Nat, l <= IX_MAX_COL_LEN
             PROVE  KeysFit(IxFileHdr(types, lens, l)) /\ OrderSuffices(IxFileHdr(types, lens, l))
  BY <1>a
<1>b. l <= 512
  BY DEF IX_MAX_COL_LEN
<1> USE <1>b
<1> DEFINE o == btree_order(l)
           q == 4072 \div (l + 8)
<1>1. o = q - 1
  BY DEF btree_order, PAGE_SIZE, SizeofIxPageHdr, SizeofRid
<1>2. q \in Nat /\ q * (l + 8) <= 4072 /\ 4072 < (q + 1) * (l + 8)
  <2>1. q \in Nat
    BY Z3
  <2>2. q * (l + 8) <= 4072
    BY Z3
  <2>3. 4072 < (q + 1) * (l + 8)
    BY Z3
  <2>4. QED
    BY <2>1, <2>2, <2>3
<1>3. q > 3
  <2> HIDE DEF q
  <2>1. CASE q \in {0, 1, 2, 3}
    BY <1>2, <2>1
  <2>2. QED
    BY <1>2, <2>1
<1>4. q * l + q * 8 <= 4072
  <2> HIDE DEF q
  <2>1. QED
    BY <1>2
<1>5. KeysFit(IxFileHdr(types, lens, l))
  <2>1. KeysFit(IxFileHdr(types, lens, l)) <=> 24 + (o + 1) * l + (o + 1) * 8 <= 4096
    BY DEF KeysFit, IxFileHdr, SizeofIxPageHdr, SizeofRid, PAGE_SIZE
  <2> HIDE DEF o, q
  <2>2. o + 1 = q
    BY <1>1, <1>2
  <2>3. q * l \in Int
    BY <1>2
  <2>4. QED
    BY <1>2, <1>4, <2>1, <2>2, <2>3
<1>6. OrderSuffices(IxFileHdr(types, lens, l))
  <2>1. OrderSuffices(IxFileHdr(types, lens, l)) <=> o > 2
    BY DEF OrderSuffices, IxFileHdr
  <2> HIDE DEF o, q
  <2>2. QED
    BY <1>1, <1>2, <1>3, <2>1
<1>7. QED
  BY <1>5, <1>6
=============================================================================
