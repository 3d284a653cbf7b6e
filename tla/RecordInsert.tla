---------------------------- MODULE RecordInsert ----------------------------
(***************************************************************************)
(* RmFileHandle::insert_record as the sessions of the server run it: the   *)
(* threads share the file handle and the page, and neither file_hdr_ nor   *)
(* the page is latched, so one session's steps fall between another's.     *)
(***************************************************************************)
EXTENDS RecordFile

CONSTANT Session

VARIABLES
  insert,      \* where each session is in insert_record
  fd2pageno    \* DiskManager's next page number for the file

vars == <<file_vars, insert, fd2pageno>>

Idle == [pc |-> "start", page_no |-> RM_NO_PAGE, slot_no |-> -1]

InsertInit ==
  /\ Init
  /\ insert = [s \in Session |-> Idle]
  /\ fd2pageno = RM_FIRST_RECORD_PAGE

At(s, pc) == insert[s].pc = pc
Goto(s, pc) == insert' = [insert EXCEPT ![s].pc = pc]
-----------------------------------------------------------------------------
\* create_page_handle reads first_free_page_no; PageNotExistError ends the call.
Choose(s) ==
  /\ At(s, "start")
  /\ \/ first_free_page_no = RM_NO_PAGE /\ Goto(s, "new")
     \/ /\ PageExists(first_free_page_no)
        /\ insert' = [insert EXCEPT ![s].pc = "slot", ![s].page_no = first_free_page_no]
  /\ UNCHANGED <<file_vars, fd2pageno>>

\* new_page, the only step under the latch of the buffer pool.
NewPage(s) ==
  /\ At(s, "new")
  /\ fd2pageno <= MaxPageNo
  /\ fd2pageno' = fd2pageno + 1
  /\ insert' = [insert EXCEPT ![s].pc = "header", ![s].page_no = fd2pageno]
  /\ UNCHANGED file_vars

WriteHeader(s) ==
  /\ At(s, "header")
  /\ next_free_page_no' = [next_free_page_no EXCEPT ![insert[s].page_no] = first_free_page_no]
  /\ num_records' = [num_records EXCEPT ![insert[s].page_no] = 0]
  /\ bitmap' = [bitmap EXCEPT ![insert[s].page_no] = {}]
  /\ Goto(s, "publish")
  /\ UNCHANGED <<num_pages, first_free_page_no, slots, fd2pageno>>

Publish(s) ==
  /\ At(s, "publish")
  /\ num_pages' = num_pages + 1
  /\ first_free_page_no' = insert[s].page_no
  /\ Goto(s, "slot")
  /\ UNCHANGED <<page_vars, fd2pageno>>

\* first_bit returns num_records_per_page when every bit is set.
FindSlot(s) ==
  LET used == bitmap[insert[s].page_no] IN
  /\ At(s, "slot")
  /\ insert' = [insert EXCEPT ![s].pc = "store",
       ![s].slot_no = IF used = Slot THEN SlotsPerPage ELSE FirstFreeSlot(used)]
  /\ UNCHANGED <<file_vars, fd2pageno>>

Store(s, buf) ==
  LET p == insert[s].page_no IN
  /\ At(s, "store")
  /\ insert[s].slot_no \in Slot
  /\ bitmap' = [bitmap EXCEPT ![p] = @ \cup {insert[s].slot_no}]
  /\ slots' = [slots EXCEPT ![p][insert[s].slot_no] = buf]
  /\ num_records' = [num_records EXCEPT ![p] = @ + 1]
  /\ Goto(s, "unlink")
  /\ UNCHANGED <<num_pages, first_free_page_no, next_free_page_no, fd2pageno>>

Finish(s) ==
  LET p == insert[s].page_no IN
  /\ At(s, "unlink")
  /\ first_free_page_no' =
       IF IsFull(num_records[p]) THEN next_free_page_no[p] ELSE first_free_page_no
  /\ next_free_page_no' = LinkAfterInsert(p, num_records[p])
  /\ insert' = [insert EXCEPT ![s] = Idle]
  /\ UNCHANGED <<num_pages, num_records, bitmap, slots, fd2pageno>>

InsertNext ==
  \E s \in Session :
    \/ Choose(s) \/ NewPage(s) \/ WriteHeader(s) \/ Publish(s) \/ FindSlot(s)
    \/ \E buf \in Value : Store(s, buf)
    \/ Finish(s)

InsertSpec == InsertInit /\ [][InsertNext]_vars
-----------------------------------------------------------------------------
(***************************************************************************)
(* The assertion of insert_record: the page create_page_handle returned    *)
(* has a slot to spare.                                                    *)
(***************************************************************************)
PageHasSlot ==
  \A s \in Session : At(s, "store") => insert[s].slot_no < SlotsPerPage
=============================================================================
