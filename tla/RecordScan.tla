----------------------------- MODULE RecordScan -----------------------------
(***************************************************************************)
(* RmScan over a table that other sessions change, and insert_record at a  *)
(* given rid.                                                              *)
(*                                                                         *)
(* A scan takes no lock.  Each iteration of the loop in RmScan::next looks *)
(* at one page, and SeqScanExecutor then calls is_end and get_record; the  *)
(* other sessions may insert, delete and update between any two of these.  *)
(***************************************************************************)
EXTENDS RecordFile

VARIABLES
  scan,     \* where the scan is, and what its executor does next
  stable,   \* the records that were there since the scan began
  seen      \* the records the scan has returned

scan_vars == <<scan, stable, seen>>
vars == <<file_vars, scan_vars>>

NoScan == [pc |-> "idle", page_no |-> RM_FIRST_RECORD_PAGE, slot_no |-> -1]

ScanInit == Init /\ scan = NoScan /\ stable = {} /\ seen = {}
-----------------------------------------------------------------------------
(***************************************************************************)
(* insert_record(rid, buf).  The loop adds pages up to the rid's, each one *)
(* the new head of the free list.                                          *)
(***************************************************************************)
\* Mutant: the loop stops one page early.
CreatedButLast(q) == num_pages..q-1

Created(q) == num_pages..q

FirstAfterCreate(q) == IF Created(q) = {} THEN first_free_page_no ELSE q
NextAfterCreate(q) ==
  [p \in RecordPage |->
     IF p \notin Created(q) THEN next_free_page_no[p]
     ELSE IF p = num_pages THEN first_free_page_no ELSE p - 1]

\* The pages the walk along next from page p comes to.
Walk(p, next) ==
  LET at[i \in 0..MaxPageNo] ==
        IF i = 0 THEN p
        ELSE IF at[i-1] = RM_NO_PAGE THEN RM_NO_PAGE ELSE next[at[i-1]]
  IN  {at[i] : i \in 0..MaxPageNo} \ {RM_NO_PAGE}

\* The links once q, now full, is taken out of the list.
Unlink(q, first, next) ==
  [p \in RecordPage |->
     IF p = q THEN RM_NO_PAGE
     ELSE IF first # q /\ p \in Walk(first, next) /\ next[p] = q THEN next[q]
     ELSE next[p]]

\* Mutant: a record written over is counted again.
CountedAgain(rid) == num_records[rid[1]] + 1

\* num_records of the page: a slot already in use counts once.
CountAfterInsertAt(rid) ==
  IF rid[2] \in bitmap[rid[1]] THEN num_records[rid[1]] ELSE num_records[rid[1]] + 1

insert_record_at(rid, buf) ==
  LET q == rid[1]
      first == FirstAfterCreate(q)
      next == NextAfterCreate(q)
  IN
  /\ num_pages' = IF Created(q) = {} THEN num_pages ELSE q + 1
  /\ bitmap' = [bitmap EXCEPT ![q] = @ \cup {rid[2]}]
  /\ slots' = [slots EXCEPT ![q][rid[2]] = buf]
  /\ num_records' = [num_records EXCEPT ![q] = CountAfterInsertAt(rid)]
  /\ IF IsFull(num_records'[q])
       THEN /\ first_free_page_no' = IF first = q THEN next[q] ELSE first
            /\ next_free_page_no' = Unlink(q, first, next)
       ELSE first_free_page_no' = first /\ next_free_page_no' = next

\* RecordNotFoundError for a slot out of range: the pages stay.
insert_record_bad_slot(q) ==
  /\ num_pages' = IF Created(q) = {} THEN num_pages ELSE q + 1
  /\ first_free_page_no' = FirstAfterCreate(q)
  /\ next_free_page_no' = NextAfterCreate(q)
  /\ UNCHANGED <<num_records, bitmap, slots>>
-----------------------------------------------------------------------------
scan_begin ==
  /\ scan.pc = "idle"
  /\ scan' = [NoScan EXCEPT !.pc = "next"]
  /\ stable' = Records
  /\ seen' = {}
  /\ UNCHANGED file_vars

\* Mutant: the search starts at the slot the scan is on.
SlotsFromHere == {s \in bitmap[scan.page_no] : s >= scan.slot_no}

\* Bitmap::next_bit(true, ...) finds a record after slot_no, or none.
SlotsAhead == {s \in bitmap[scan.page_no] : s > scan.slot_no}
NextSlot == CHOOSE s \in SlotsAhead : \A t \in SlotsAhead : s <= t

\* Mutant: the next page is searched from the old slot on.
SlotKept == scan.slot_no

\* slot_no when the loop moves on to the next page.
SlotOnNextPage == -1

scan_next ==
  /\ scan.pc = "next"
  /\ scan' = IF ~PageExists(scan.page_no)
               THEN [pc |-> "check", page_no |-> num_pages, slot_no |-> -1]
             ELSE IF SlotsAhead # {}
               THEN [scan EXCEPT !.pc = "check", !.slot_no = NextSlot]
             ELSE [scan EXCEPT !.page_no = @ + 1, !.slot_no = SlotOnNextPage]
  /\ UNCHANGED <<file_vars, stable, seen>>

(***************************************************************************)
(* is_end, then get_record, which throws RecordNotFoundError when the      *)
(* record is gone, or when the file has grown since next came to its end.  *)
(***************************************************************************)
scan_read ==
  LET rid == <<scan.page_no, scan.slot_no>> IN
  /\ scan.pc = "check"
  /\ \/ /\ ~PageExists(scan.page_no)
        /\ scan' = [scan EXCEPT !.pc = "end"]
        /\ UNCHANGED seen
     \/ /\ rid \in Records
        /\ scan' = [scan EXCEPT !.pc = "next"]
        /\ seen' = seen \cup {rid}
     \/ /\ PageExists(scan.page_no)
        /\ rid \notin Records
        /\ scan' = NoScan
        /\ UNCHANGED seen
  /\ UNCHANGED <<file_vars, stable>>

scan_done ==
  /\ scan.pc = "end"
  /\ scan' = NoScan
  /\ UNCHANGED <<file_vars, stable, seen>>

ScanNext ==
  \/ /\ \/ \E buf \in Value : insert_record(buf)
        \/ \E rid \in Rid, buf \in Value : update_record(rid, buf)
        \/ \E rid \in Rid, buf \in Value : insert_record_at(rid, buf)
        \/ \E q \in RecordPage : insert_record_bad_slot(q)
     /\ UNCHANGED scan_vars
  \/ \E rid \in Rid :
        /\ delete_record(rid)
        /\ stable' = stable \ {rid}
        /\ UNCHANGED <<scan, seen>>
  \/ scan_begin \/ scan_next \/ scan_read \/ scan_done

ScanSpec == ScanInit /\ [][ScanNext]_vars
-----------------------------------------------------------------------------
(***************************************************************************)
(* A scan misses nothing: when it ends, it has returned every record that  *)
(* was in the table from its beginning to its end, whatever was inserted,  *)
(* deleted and updated meanwhile.                                          *)
(***************************************************************************)
ScanIsComplete == scan.pc = "end" => stable \subseteq seen

(***************************************************************************)
(* A scan returns no rid twice: it moves forward in the order of pages and *)
(* slots, even when records are deleted behind it and inserted again.      *)
(***************************************************************************)
ScanMovesForward ==
  [][scan.pc = "check" /\ scan'.pc = "next" =>
       <<scan.page_no, scan.slot_no>> \notin seen]_vars
=============================================================================
