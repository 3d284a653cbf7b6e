----------------------------- MODULE RecordFile -----------------------------
(***************************************************************************)
(* RmFileHandle: the records of one table, in pages of SlotsPerPage slots. *)
(* The pages with room form a list: file_hdr_.first_free_page_no is its    *)
(* head and next_free_page_no in the page headers links it.                *)
(*                                                                         *)
(* Page contents are those PageStore promises: fetch_page finds what the   *)
(* last holder left.  Each operation is one action, a session at a time;   *)
(* RecordInsert has the steps of insert_record taken by several.           *)
(***************************************************************************)
EXTENDS FiniteSets, Functions, Layout

CONSTANTS
  SlotsPerPage,   \* file_hdr_.num_records_per_page, see Layout
  MaxPageNo,      \* bound: the largest page number
  Value,          \* record contents
  Erased          \* a slot of zeros

ASSUME RecordAssumption ==
  /\ SlotsPerPage \in Nat \ {0}
  /\ MaxPageNo \in Nat
  /\ Erased \notin Value

VARIABLES
  num_pages, first_free_page_no,     \* file_hdr_
  next_free_page_no, num_records,    \* the RmPageHdr of every page
  bitmap, slots                      \* the rest of every page

page_vars == <<next_free_page_no, num_records, bitmap, slots>>
file_vars == <<num_pages, first_free_page_no, page_vars>>

RM_FIRST_RECORD_PAGE == 1
RecordPage == RM_FIRST_RECORD_PAGE..MaxPageNo
Slot == 0..SlotsPerPage-1
Rid == RecordPage \X Slot

\* RmManager::create_file, then open_file.  A page not yet allocated is zeros.
Init ==
  /\ num_pages = 1
  /\ first_free_page_no = RM_NO_PAGE
  /\ next_free_page_no = [p \in RecordPage |-> RM_NO_PAGE]
  /\ num_records = [p \in RecordPage |-> 0]
  /\ bitmap = [p \in RecordPage |-> {}]
  /\ slots = [p \in RecordPage |-> [s \in Slot |-> Erased]]

\* fetch_page_handle throws PageNotExistError for any other page.
PageExists(p) == p >= RM_FIRST_RECORD_PAGE /\ p < num_pages

\* The records of the table.
Records == {rid \in Rid : PageExists(rid[1]) /\ rid[2] \in bitmap[rid[1]]}

\* Bitmap::first_bit(false, ...): the lowest slot not in use.
FirstFreeSlot(used) ==
  CHOOSE s \in Slot \ used : \A t \in Slot \ used : s <= t

IsFull(n) == n = SlotsPerPage

(***************************************************************************)
(* create_page_handle: the head of the free list or, when the list is      *)
(* empty, a new page, which becomes its only member.                       *)
(***************************************************************************)
InsertPage == IF first_free_page_no = RM_NO_PAGE THEN num_pages ELSE first_free_page_no

\* next_free_page_no of a page once it holds n records.
LinkAfterInsert(p, n) ==
  IF IsFull(n) THEN [next_free_page_no EXCEPT ![p] = RM_NO_PAGE] ELSE next_free_page_no

insert_record(buf) ==
  LET p == InsertPage
      s == FirstFreeSlot(bitmap[p])
      n == num_records[p] + 1
  IN
  /\ p <= MaxPageNo
  /\ num_pages' = IF p = num_pages THEN num_pages + 1 ELSE num_pages
  /\ bitmap' = [bitmap EXCEPT ![p] = @ \cup {s}]
  /\ slots' = [slots EXCEPT ![p][s] = buf]
  /\ num_records' = [num_records EXCEPT ![p] = n]
  /\ first_free_page_no' = IF IsFull(n) THEN next_free_page_no[p] ELSE p
  /\ next_free_page_no' = LinkAfterInsert(p, n)

\* Mutant: every delete puts the page on the free list.
AlwaysReleased(n) == TRUE

\* delete_record releases a page that was full.
MustRelease(n) == IsFull(n)

\* RecordNotFoundError, for a rid without a record, changes nothing.
delete_record(rid) ==
  LET p == rid[1] IN
  /\ rid \in Records
  /\ bitmap' = [bitmap EXCEPT ![p] = @ \ {rid[2]}]
  /\ slots' = [slots EXCEPT ![p][rid[2]] = Erased]
  /\ num_records' = [num_records EXCEPT ![p] = @ - 1]
  /\ IF MustRelease(num_records[p])
       THEN /\ next_free_page_no' = [next_free_page_no EXCEPT ![p] = first_free_page_no]
            /\ first_free_page_no' = p
       ELSE UNCHANGED <<next_free_page_no, first_free_page_no>>
  /\ UNCHANGED num_pages

update_record(rid, buf) ==
  /\ rid \in Records
  /\ slots' = [slots EXCEPT ![rid[1]][rid[2]] = buf]
  /\ UNCHANGED <<num_pages, first_free_page_no, next_free_page_no, num_records, bitmap>>

Next ==
  \/ \E buf \in Value : insert_record(buf)
  \/ \E rid \in Rid : delete_record(rid)
  \/ \E rid \in Rid, buf \in Value : update_record(rid, buf)

Spec == Init /\ [][Next]_file_vars
-----------------------------------------------------------------------------
\* The fields of RmFileHdr and of the pages keep the types they are given.
TypeOK ==
  /\ num_pages \in 1..MaxPageNo+1
  /\ first_free_page_no \in RecordPage \cup {RM_NO_PAGE}
  /\ next_free_page_no \in [RecordPage -> RecordPage \cup {RM_NO_PAGE}]
  /\ num_records \in [RecordPage -> 0..SlotsPerPage]
  /\ bitmap \in [RecordPage -> SUBSET Slot]
  /\ slots \in [RecordPage -> [Slot -> Value \cup {Erased}]]

(***************************************************************************)
(* The header of a page counts its bitmap, a slot holds a record exactly   *)
(* when its bit is set, and a page beyond the end of the file is empty.    *)
(***************************************************************************)
PagesConsistent ==
  \A p \in RecordPage :
    /\ num_records[p] = Cardinality(bitmap[p])
    /\ \A s \in Slot : s \in bitmap[p] <=> slots[p][s] # Erased
    /\ ~PageExists(p) => bitmap[p] = {}

HasRoom(p) == PageExists(p) /\ ~IsFull(num_records[p])

\* The sequences of pages, as long as the file may be.
PageLists == UNION {[1..n -> RecordPage] : n \in 0..MaxPageNo}

\* fl lists the pages of the free list from first_free_page_no on.
IsFreeList(fl) ==
  /\ first_free_page_no = IF fl = << >> THEN RM_NO_PAGE ELSE fl[1]
  /\ \A i \in DOMAIN fl :
       next_free_page_no[fl[i]] = IF i = Len(fl) THEN RM_NO_PAGE ELSE fl[i+1]

(***************************************************************************)
(* The free list holds exactly the pages with room, each once: a page      *)
(* leaves when an insert fills it and comes back when a delete from it     *)
(* makes room.  The list has no cycle, insert_record always finds a slot   *)
(* (its assertion), and no page with room is forgotten.                    *)
(***************************************************************************)
FreeListIsPagesWithRoom ==
  \E fl \in PageLists :
    /\ IsInjective(fl)
    /\ Range(fl) = {p \in RecordPage : HasRoom(p)}
    /\ IsFreeList(fl)
=============================================================================
