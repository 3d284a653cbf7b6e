-------------------------- MODULE RecordScanProofs --------------------------
(***************************************************************************)
(* For every number of pages, slots and records: insert_record at a given  *)
(* rid keeps the table file consistent, and a scan that other sessions     *)
(* interrupt between any two of its steps returns every record that stays, *)
(* and none twice.                                                         *)
(***************************************************************************)
EXTENDS RecordScan, RecordFileProofs

(***************************************************************************)
(* Where a rid is with respect to the scan: behind it, or at it.           *)
(***************************************************************************)
Behind(rid) == \/ rid[1] < scan.page_no
               \/ rid[1] = scan.page_no /\ rid[2] < scan.slot_no
Reached(rid) == Behind(rid) \/ rid = <<scan.page_no, scan.slot_no>>

ScanType ==
  /\ scan \in [pc : {"idle", "next", "check", "end"}, page_no : 1..MaxPageNo+1,
               slot_no : Slot \cup {-1}]
  /\ stable \subseteq Records
  /\ seen \subseteq Rid

(***************************************************************************)
(* What a scan has done when its executor is about to call next, to call   *)
(* is_end and get_record, or has come to the end: it has returned only     *)
(* rids it has passed, and every record that stayed among them.  A page it *)
(* has come to exists or is the one after the last.                        *)
(***************************************************************************)
Progress ==
  /\ \A rid \in seen : PageExists(rid[1])
  /\ scan.pc = "next" =>
       /\ scan.page_no <= num_pages
       /\ \A rid \in seen : Reached(rid)
       /\ \A rid \in stable : Reached(rid) => rid \in seen
  /\ scan.pc = "check" =>
       /\ scan.page_no <= num_pages
       /\ \A rid \in seen : Behind(rid)
       /\ \A rid \in stable : Behind(rid) => rid \in seen
  /\ scan.pc = "end" => stable \subseteq seen

ScanInv == ScanType /\ Progress
-----------------------------------------------------------------------------
\* The pages and slots of a rid.
LEMMA RidParts ==
  ASSUME NEW rid \in Rid
  PROVE  /\ rid = <<rid[1], rid[2]>>
         /\ rid[1] \in RecordPage /\ rid[1] \in Int /\ rid[1] >= 1
         /\ rid[2] \in Slot /\ rid[2] \in Int /\ rid[2] >= 0
  BY RecordAssumption DEF Rid, RecordPage, Slot, RM_FIRST_RECORD_PAGE

\* A page exists when its number is below num_pages.
LEMMA RidExists ==
  ASSUME NEW rid \in Records
  PROVE  rid \in Rid /\ rid[1] < num_pages /\ rid[2] \in bitmap[rid[1]]
  BY DEF Records, PageExists

(***************************************************************************)
(* A session that adds pages and records, or deletes records that are not  *)
(* stable, leaves the scan where it is.                                    *)
(***************************************************************************)
LEMMA SessionKeepsScanInv ==
  ASSUME TypeOK, TypeOK', ScanInv, num_pages <= num_pages',
         scan' = scan, seen' = seen, stable' \subseteq stable,
         stable' \subseteq Records'
  PROVE  ScanInv'
<1>1. num_pages \in Int /\ num_pages' \in Int /\ MaxPageNo \in Int
  BY RecordAssumption DEF TypeOK
<1>2. ScanType'
  BY DEF ScanInv, ScanType
<1>3. \A rid \in seen : PageExists(rid[1])'
  <2>1. \A rid \in seen : PageExists(rid[1]) /\ rid[1] \in Int
    BY RidParts DEF ScanInv, ScanType, Progress
  <2>2. QED
    BY <1>1, <2>1 DEF PageExists
<1>4. \A rid : (Behind(rid)' <=> Behind(rid)) /\ (Reached(rid)' <=> Reached(rid))
  BY DEF Behind, Reached
<1>5. scan.page_no \in Int
  BY RecordAssumption DEF ScanInv, ScanType
<1>6. scan.page_no <= num_pages => scan.page_no <= num_pages'
  BY <1>1, <1>5
<1>7. Progress'
  BY <1>3, <1>4, <1>6 DEF ScanInv, Progress
<1>8. QED
  BY <1>2, <1>7 DEF ScanInv

\* Bitmap::next_bit(true, ...) finds the first record ahead, if there is one.
LEMMA NextSlotIsFirst ==
  ASSUME TypeOK, scan.page_no \in RecordPage, SlotsAhead # {}
  PROVE  NextSlot \in SlotsAhead /\ \A t \in SlotsAhead : NextSlot <= t
<1>1. SlotsAhead \in SUBSET Nat
  BY RecordAssumption DEF TypeOK, SlotsAhead, Slot
<1>2. \E x \in SlotsAhead : \A y \in SlotsAhead : x <= y
  BY <1>1, LeastElement
<1>3. QED
  BY <1>2 DEF NextSlot

(***************************************************************************)
(* One iteration of the loop in RmScan::next: it skips no stable record.   *)
(***************************************************************************)
LEMMA ScanNextKeepsScanInv ==
  ASSUME TypeOK, ScanInv, scan_next
  PROVE  ScanInv'
<1>1. /\ scan.pc = "next"
      /\ UNCHANGED <<num_pages, first_free_page_no, page_vars, stable, seen>>
  BY DEF scan_next, file_vars
<1>2. UNCHANGED <<next_free_page_no, num_records, bitmap, slots>>
  BY <1>1 DEF page_vars
<1>3. PICK p \in 1..MaxPageNo+1, s \in Slot \cup {-1} :
        p = scan.page_no /\ s = scan.slot_no
  BY DEF ScanInv, ScanType
<1>4. /\ p \in Int /\ p >= 1 /\ s \in Int /\ s >= -1
      /\ num_pages \in 1..MaxPageNo+1 /\ num_pages \in Int /\ MaxPageNo \in Nat
      /\ p <= num_pages
  BY <1>1, <1>3, RecordAssumption DEF TypeOK, Slot, ScanInv, Progress
<1>5. /\ scan \in [pc : {"idle", "next", "check", "end"}, page_no : 1..MaxPageNo+1,
                   slot_no : Slot \cup {-1}]
      /\ stable \subseteq Records
      /\ seen \subseteq Rid
  BY DEF ScanInv, ScanType
<1>6. Records' = Records /\ \A rid \in seen : PageExists(rid[1])' /\ PageExists(rid[1])
  BY <1>1, <1>2 DEF Records, PageExists, ScanInv, Progress
<1>7. /\ \A rid \in seen : Reached(rid)
      /\ \A rid \in stable : Reached(rid) => rid \in seen
  BY <1>1 DEF ScanInv, Progress
<1>8. \A rid \in Rid : Reached(rid) <=> rid[1] < p \/ (rid[1] = p /\ rid[2] <= s)
  BY <1>3, <1>4, RidParts DEF Reached, Behind
<1>9. \A rid \in seen : rid \in Rid /\ rid[1] < num_pages
  BY <1>5, <1>6 DEF PageExists
<1>10. \A rid \in stable : rid \in Rid /\ rid[1] < num_pages /\ rid[2] \in bitmap[rid[1]]
  BY <1>5, RidExists
<1>11. CASE ~PageExists(p)
  <2>1. p = num_pages
    BY <1>4, <1>11 DEF PageExists, RM_FIRST_RECORD_PAGE
  <2>2. scan' = [pc |-> "check", page_no |-> num_pages, slot_no |-> -1]
    BY <1>3, <1>11 DEF scan_next
  <2>3. ScanType'
    BY <1>1, <1>4, <1>5, <1>6, <2>2 DEF ScanType
  <2>4. \A rid \in Rid : rid[1] < num_pages => Reached(rid) /\ Behind(rid)'
    BY <1>8, <2>1, <2>2 DEF Behind
  <2>5. Progress'
    BY <1>1, <1>4, <1>6, <1>7, <1>9, <1>10, <2>2, <2>4 DEF Progress
  <2>6. QED
    BY <2>3, <2>5 DEF ScanInv
<1>12. CASE PageExists(p) /\ SlotsAhead # {}
  <2>1. p \in RecordPage
    BY <1>4, <1>12 DEF PageExists, RecordPage, RM_FIRST_RECORD_PAGE
  <2>2. PICK t \in SlotsAhead : t = NextSlot /\ \A u \in SlotsAhead : t <= u
    BY <1>3, <1>12, <2>1, NextSlotIsFirst
  <2>3. t \in Slot /\ t \in Int /\ t > s
    BY <1>3, <2>1, RecordAssumption DEF SlotsAhead, TypeOK, Slot
  <2>4. scan' = [pc |-> "check", page_no |-> p, slot_no |-> t]
    BY <1>3, <1>5, <1>12, <2>2 DEF scan_next
  <2>5. ScanType'
    BY <1>1, <1>5, <1>6, <2>3, <2>4 DEF ScanType
  <2>6. \A rid \in Rid : Behind(rid)' <=> rid[1] < p \/ (rid[1] = p /\ rid[2] < t)
    BY <2>4 DEF Behind
  <2>7. \A rid \in Rid : Reached(rid) => Behind(rid)'
    BY <1>4, <1>8, <2>3, <2>6, RidParts
  <2>8. \A rid \in stable : Behind(rid)' => Reached(rid)
    <3>1. SUFFICES ASSUME NEW rid \in stable, rid[1] = p, rid[2] < t
                   PROVE  rid[2] <= s
      BY <1>8, <1>10, <2>6
    <3>2. rid[2] \in Int /\ rid[2] \in bitmap[p]
      BY <1>10, <3>1, RidParts
    <3>3. rid[2] > s => rid[2] \in SlotsAhead
      BY <1>3, <3>2 DEF SlotsAhead
    <3>4. QED
      BY <1>4, <2>2, <2>3, <3>1, <3>2, <3>3
  <2>9. Progress'
    BY <1>1, <1>4, <1>5, <1>6, <1>7, <2>4, <2>7, <2>8 DEF Progress
  <2>10. QED
    BY <2>5, <2>9 DEF ScanInv
<1>13. CASE PageExists(p) /\ SlotsAhead = {}
  <2>1. p + 1 <= num_pages /\ p + 1 \in 1..MaxPageNo+1
    BY <1>4, <1>13 DEF PageExists
  <2>2. scan' = [pc |-> "next", page_no |-> p + 1, slot_no |-> -1]
    BY <1>1, <1>3, <1>5, <1>13 DEF scan_next, SlotOnNextPage
  <2>3. ScanType'
    BY <1>1, <1>5, <1>6, <2>1, <2>2 DEF ScanType
  <2>4. \A rid \in Rid : Reached(rid)' <=> rid[1] <= p
    BY <1>4, <2>2, RidParts DEF Reached, Behind
  <2>5. \A rid \in Rid : Reached(rid) => Reached(rid)'
    BY <1>4, <1>8, <2>4, RidParts
  <2>6. \A rid \in stable : Reached(rid)' => Reached(rid)
    <3>1. SUFFICES ASSUME NEW rid \in stable, rid[1] <= p
                   PROVE  rid[1] < p \/ (rid[1] = p /\ rid[2] <= s)
      BY <1>8, <1>10, <2>4
    <3>2. rid[1] \in Int /\ rid[2] \in Int /\ rid[2] \in bitmap[rid[1]]
      BY <1>10, RidParts
    <3>3. rid[1] = p => ~(rid[2] > s)
      BY <1>3, <1>13, <3>2 DEF SlotsAhead
    <3>4. QED
      BY <1>4, <3>1, <3>2, <3>3
  <2>7. Progress'
    BY <1>1, <1>5, <1>6, <1>7, <2>1, <2>2, <2>5, <2>6 DEF Progress
  <2>8. QED
    BY <2>3, <2>7 DEF ScanInv
<1>14. QED
  BY <1>11, <1>12, <1>13

\* A scan begins before the first slot, having returned nothing.
LEMMA ScanBeginKeepsScanInv ==
  ASSUME TypeOK, ScanInv, scan_begin
  PROVE  ScanInv'
<1>1. /\ scan' = [pc |-> "next", page_no |-> 1, slot_no |-> -1]
      /\ stable' = Records
      /\ seen' = {}
      /\ num_pages' = num_pages
      /\ Records' = Records
  BY DEF scan_begin, NoScan, file_vars, page_vars, Records, PageExists,
         RM_FIRST_RECORD_PAGE
<1>2. num_pages \in 1..MaxPageNo+1 /\ MaxPageNo \in Nat
  BY RecordAssumption DEF TypeOK
<1>3. ScanType'
  BY <1>1, <1>2 DEF ScanType
<1>4. \A rid \in Records : ~Reached(rid)'
  <2>1. \A rid \in Records : rid[1] >= 1 /\ rid[1] \in Int /\ rid[2] >= 0 /\ rid[2] \in Int
    BY RidParts DEF Records
  <2>2. QED
    BY <1>1, <2>1 DEF Reached, Behind
<1>5. Progress'
  BY <1>1, <1>2, <1>4 DEF Progress
<1>6. QED
  BY <1>3, <1>5 DEF ScanInv

(***************************************************************************)
(* is_end and get_record: the rid read is one the scan had not returned,   *)
(* and a scan that ends has passed every page.                             *)
(***************************************************************************)
LEMMA ScanReadKeepsScanInv ==
  ASSUME TypeOK, ScanInv, scan_read
  PROVE  /\ ScanInv'
         /\ <<scan.page_no, scan.slot_no>> \notin seen
<1>1. /\ scan.pc = "check"
      /\ UNCHANGED <<num_pages, bitmap, stable>>
  BY DEF scan_read, file_vars, page_vars
<1>2. PICK p \in 1..MaxPageNo+1, s \in Slot \cup {-1} :
        p = scan.page_no /\ s = scan.slot_no
  BY DEF ScanInv, ScanType
<1>3. /\ p \in Int /\ p >= 1 /\ s \in Int /\ s >= -1
      /\ num_pages \in 1..MaxPageNo+1 /\ num_pages \in Int /\ MaxPageNo \in Nat
      /\ p <= num_pages
  BY <1>1, <1>2, RecordAssumption DEF TypeOK, Slot, ScanInv, Progress
<1>4. /\ scan \in [pc : {"idle", "next", "check", "end"}, page_no : 1..MaxPageNo+1,
                   slot_no : Slot \cup {-1}]
      /\ stable \subseteq Records
      /\ seen \subseteq Rid
  BY DEF ScanInv, ScanType
<1>5. Records' = Records /\ \A q : PageExists(q)' <=> PageExists(q)
  BY <1>1 DEF Records, PageExists
<1>6. /\ \A rid \in seen : Behind(rid)
      /\ \A rid \in stable : Behind(rid) => rid \in seen
      /\ \A rid \in seen : PageExists(rid[1])
  BY <1>1 DEF ScanInv, Progress
<1>7. <<p, s>> \notin seen
  <2>1. ~Behind(<<p, s>>)
    BY <1>2, <1>3 DEF Behind
  <2>2. QED
    BY <1>6, <2>1
<1>8. CASE ~PageExists(p) /\ scan' = [scan EXCEPT !.pc = "end"] /\ UNCHANGED seen
  <2>1. scan' = [pc |-> "end", page_no |-> p, slot_no |-> s]
    BY <1>2, <1>4, <1>8
  <2>2. p >= num_pages
    BY <1>3, <1>8 DEF PageExists, RM_FIRST_RECORD_PAGE
  <2>3. \A rid \in stable : Behind(rid)
    <3>1. \A rid \in stable : rid[1] \in Int /\ rid[1] < num_pages
      BY <1>4, RidExists, RidParts
    <3>2. QED
      BY <1>2, <1>3, <2>2, <3>1 DEF Behind
  <2>4. ScanType'
    BY <1>1, <1>4, <1>5, <1>8, <2>1 DEF ScanType
  <2>5. Progress'
    BY <1>1, <1>5, <1>6, <1>8, <2>1, <2>3 DEF Progress
  <2>6. QED
    BY <1>2, <1>7, <2>4, <2>5 DEF ScanInv
<1>9. CASE /\ <<p, s>> \in Records
           /\ scan' = [scan EXCEPT !.pc = "next"]
           /\ seen' = seen \cup {<<p, s>>}
  <2>1. scan' = [pc |-> "next", page_no |-> p, slot_no |-> s]
    BY <1>2, <1>4, <1>9
  <2>2. <<p, s>> \in Rid /\ PageExists(p)
    BY <1>9 DEF Records
  <2>3. ScanType'
    BY <1>1, <1>4, <1>5, <1>9, <2>1, <2>2 DEF ScanType
  <2>4. \A rid : Reached(rid)' <=> Behind(rid) \/ rid = <<p, s>>
    BY <1>2, <2>1 DEF Reached, Behind
  <2>5. Progress'
    BY <1>1, <1>3, <1>5, <1>6, <1>9, <2>1, <2>2, <2>4 DEF Progress
  <2>6. QED
    BY <1>2, <1>7, <2>3, <2>5 DEF ScanInv
<1>10. CASE scan' = NoScan /\ UNCHANGED seen
  <2>1. scan' = [pc |-> "idle", page_no |-> 1, slot_no |-> -1]
    BY <1>10 DEF NoScan, RM_FIRST_RECORD_PAGE
  <2>2. ScanType'
    BY <1>1, <1>3, <1>4, <1>5, <1>10, <2>1 DEF ScanType
  <2>3. Progress'
    BY <1>1, <1>5, <1>6, <1>10, <2>1 DEF Progress
  <2>4. QED
    BY <1>2, <1>7, <2>2, <2>3 DEF ScanInv
<1>11. QED
  BY <1>2, <1>8, <1>9, <1>10 DEF scan_read

\* A scan that is over is forgotten.
LEMMA ScanDoneKeepsScanInv ==
  ASSUME TypeOK, ScanInv, scan_done
  PROVE  ScanInv'
<1>1. /\ scan' = [pc |-> "idle", page_no |-> 1, slot_no |-> -1]
      /\ UNCHANGED <<num_pages, bitmap, stable, seen>>
  BY DEF scan_done, NoScan, file_vars, page_vars, RM_FIRST_RECORD_PAGE
<1>2. Records' = Records /\ \A q : PageExists(q)' <=> PageExists(q)
  BY <1>1 DEF Records, PageExists
<1>3. ScanType'
  BY <1>1, <1>2, RecordAssumption DEF ScanInv, ScanType
<1>4. Progress'
  BY <1>1, <1>2 DEF ScanInv, Progress
<1>5. QED
  BY <1>3, <1>4 DEF ScanInv
-----------------------------------------------------------------------------
(***************************************************************************)
(* fl lists the pages that come one after the other from page first on.    *)
(***************************************************************************)
Links(fl, first, next) ==
  /\ first = IF fl = << >> THEN RM_NO_PAGE ELSE fl[1]
  /\ \A i \in DOMAIN fl : next[fl[i]] = IF i = Len(fl) THEN RM_NO_PAGE ELSE fl[i+1]

\* The type of the links, and: a page outside a list has no successor.
NextOf == [RecordPage -> RecordPage \cup {RM_NO_PAGE}]
NoneOutside(fl, next) == \A p \in RecordPage \ Range(fl) : next[p] = RM_NO_PAGE

(***************************************************************************)
(* The walk of insert_record along the free list comes to every page of    *)
(* it.  The least step at which it would not be at the page it should be   *)
(* cannot exist.                                                           *)
(***************************************************************************)
LEMMA WalkIsTheList ==
  ASSUME NEW fl \in Seq(RecordPage), IsInjective(fl), NEW first,
         NEW next \in NextOf, Links(fl, first, next)
  PROVE  Range(fl) \subseteq Walk(first, next)
<1> DEFINE Step(a) == [i \in 0..MaxPageNo |->
                         IF i = 0 THEN first
                         ELSE IF a[i-1] = RM_NO_PAGE THEN RM_NO_PAGE
                         ELSE next[a[i-1]]]
           at == CHOOSE a : a = Step(a)
           w == [i \in 0..MaxPageNo |-> IF i < Len(fl) THEN fl[i+1] ELSE RM_NO_PAGE]
<1>1. Walk(first, next) = {at[i] : i \in 0..MaxPageNo} \ {RM_NO_PAGE}
  BY DEF Walk
<1>2. /\ Len(fl) \in Nat
      /\ DOMAIN fl = 1..Len(fl)
      /\ \A i \in 1..Len(fl) : fl[i] \in RecordPage /\ fl[i] # RM_NO_PAGE
      /\ MaxPageNo \in Nat
  BY PageNumbers, RecordAssumption
<1>3. \A i \in 1..Len(fl) : next[fl[i]] = IF i = Len(fl) THEN RM_NO_PAGE ELSE fl[i+1]
  BY <1>2 DEF Links
<1>4. w = Step(w)
  <2>1. ASSUME NEW i \in 0..MaxPageNo
        PROVE  w[i] = Step(w)[i]
    <3>1. CASE i = 0
      <4>1. first = IF Len(fl) = 0 THEN RM_NO_PAGE ELSE fl[1]
        BY EmptySeq DEF Links
      <4>2. QED
        BY <1>2, <3>1, <4>1
    <3>2. CASE i # 0
      <4>1. /\ i - 1 \in 0..MaxPageNo
            /\ w[i-1] = IF i - 1 < Len(fl) THEN fl[i] ELSE RM_NO_PAGE
        BY <1>2, <3>2
      <4>2. CASE i - 1 < Len(fl)
        <5>1. i \in 1..Len(fl)
          BY <1>2, <3>2, <4>2
        <5>2. w[i] = IF i = Len(fl) THEN RM_NO_PAGE ELSE fl[i+1]
          <6>1. i < Len(fl) <=> i # Len(fl)
            BY <5>1
          <6>2. QED
            BY <6>1
        <5>3. w[i-1] # RM_NO_PAGE /\ next[w[i-1]] = w[i]
          BY <1>2, <1>3, <4>1, <4>2, <5>1, <5>2
        <5>4. QED
          BY <3>2, <5>3
      <4>3. CASE ~(i - 1 < Len(fl))
        <5>1. ~(i < Len(fl))
          BY <1>2, <3>2, <4>3
        <5>2. QED
          BY <3>2, <4>1, <4>3, <5>1
      <4>4. QED
        BY <4>2, <4>3
    <3>3. QED
      BY <3>1, <3>2
  <2>2. QED
    BY <2>1
<1> HIDE DEF w
<1>5. at = Step(at)
  <2>1. \E a : a = Step(a)
    BY <1>4
  <2> HIDE DEF Step
  <2>2. QED
    BY <2>1
<1> HIDE DEF at
<1>6. /\ at[0] = first
      /\ \A i \in 1..MaxPageNo :
           at[i] = IF at[i-1] = RM_NO_PAGE THEN RM_NO_PAGE ELSE next[at[i-1]]
  BY <1>2, <1>5
<1> HIDE DEF Step
<1>7. Len(fl) <= MaxPageNo
  BY ListIsBounded
<1>8. \A i \in 1..Len(fl) : at[i-1] = fl[i]
  <2>1. SUFFICES ASSUME {i \in 1..Len(fl) : at[i-1] # fl[i]} # {}
                 PROVE  FALSE
    OBVIOUS
  <2>2. PICK k \in 1..Len(fl) : /\ at[k-1] # fl[k]
                                /\ \A j \in 1..Len(fl) : at[j-1] # fl[j] => k <= j
    <3>1. {i \in 1..Len(fl) : at[i-1] # fl[i]} \in SUBSET Nat
      OBVIOUS
    <3>2. PICK k \in {i \in 1..Len(fl) : at[i-1] # fl[i]} :
            \A j \in {i \in 1..Len(fl) : at[i-1] # fl[i]} : k <= j
      BY <2>1, <3>1, LeastElement
    <3>3. QED
      BY <3>2
  <2>3. k # 1
    BY <1>6, <2>2, EmptySeq DEF Links
  <2>4. k - 1 \in 1..Len(fl) /\ ~(k <= k - 1) /\ k - 1 \in 1..MaxPageNo /\ k - 1 # Len(fl)
    BY <1>2, <1>7, <2>3
  <2>5. at[k-1-1] = fl[k-1]
    BY <2>2, <2>4
  <2>6. at[k-1] = next[fl[k-1]]
    BY <1>2, <1>6, <2>4, <2>5
  <2>7. next[fl[k-1]] = fl[k]
    BY <1>3, <2>4
  <2>8. QED
    BY <2>2, <2>6, <2>7
<1>9. QED
  <2>1. ASSUME NEW i \in 1..Len(fl)
        PROVE  fl[i] \in Walk(first, next)
    <3>1. i - 1 \in 0..MaxPageNo /\ at[i-1] = fl[i] /\ fl[i] # RM_NO_PAGE
      BY <1>2, <1>7, <1>8
    <3>2. QED
      BY <1>1, <3>1
  <2>2. QED
    BY <1>2, <2>1 DEF Range

(***************************************************************************)
(* Unlink takes page q out of the list, wherever it is, and changes        *)
(* nothing when q is not in the list.                                      *)
(***************************************************************************)
LEMMA UnlinkRemoves ==
  ASSUME NEW fl \in Seq(RecordPage), IsInjective(fl), NEW first,
         NEW next \in NextOf, Links(fl, first, next), NoneOutside(fl, next),
         NEW q \in RecordPage
  PROVE  /\ Unlink(q, first, next) \in NextOf
         /\ \E r \in Seq(RecordPage) :
              /\ IsInjective(r)
              /\ Range(r) = Range(fl) \ {q}
              /\ Links(r, IF first = q THEN next[q] ELSE first, Unlink(q, first, next))
              /\ NoneOutside(r, Unlink(q, first, next))
<1> DEFINE u == Unlink(q, first, next)
<1>len. Len(fl) \in Nat
  OBVIOUS
<1>1. /\ Len(fl) \in Nat
      /\ DOMAIN fl = 1..Len(fl)
      /\ \A i \in 1..Len(fl) : fl[i] \in RecordPage /\ fl[i] # RM_NO_PAGE
      /\ \A i, j \in 1..Len(fl) : fl[i] = fl[j] => i = j
  BY PageNumbers DEF IsInjective
<1>2. /\ \A p \in RecordPage : next[p] \in RecordPage \cup {RM_NO_PAGE}
      /\ q # RM_NO_PAGE
  BY PageNumbers DEF NextOf
<1>3. \A i \in 1..Len(fl) : next[fl[i]] = IF i = Len(fl) THEN RM_NO_PAGE ELSE fl[i+1]
  BY <1>1 DEF Links
<1>4. \A p \in RecordPage : next[p] = q => p \in Range(fl)
  BY <1>2 DEF NoneOutside
<1>5. \A i \in 1..Len(fl) : next[fl[i]] = q => first # q
  <2>1. SUFFICES ASSUME NEW i \in 1..Len(fl), next[fl[i]] = q, first = q
                 PROVE  FALSE
    OBVIOUS
  <2>2. i # Len(fl) /\ fl[i+1] = q
    BY <1>2, <1>3, <2>1
  <2>3. fl[1] = q
    BY <1>2, <2>1 DEF Links
  <2>4. 1 \in 1..Len(fl) /\ i + 1 \in 1..Len(fl) /\ i + 1 # 1
    BY <1>len, <2>2
  <2>5. QED
    BY <1>1, <2>2, <2>3, <2>4
<1>6. \A p \in RecordPage : u[p] = IF p = q THEN RM_NO_PAGE
                                   ELSE IF next[p] = q THEN next[q] ELSE next[p]
  <2>1. Range(fl) \subseteq Walk(first, next)
    BY WalkIsTheList
  <2>2. ASSUME NEW p \in RecordPage, next[p] = q
        PROVE  first # q /\ p \in Walk(first, next)
    <3>1. PICK i \in 1..Len(fl) : p = fl[i]
      BY <1>1, <1>4, <2>2 DEF Range
    <3>2. QED
      BY <1>4, <1>5, <2>1, <2>2, <3>1
  <2>3. QED
    BY <2>2 DEF Unlink
<1>7. u \in NextOf
  <2>1. u = [p \in RecordPage |-> u[p]]
    BY DEF Unlink
  <2>2. \A p \in RecordPage : u[p] \in RecordPage \cup {RM_NO_PAGE}
    BY <1>2, <1>6
  <2> HIDE DEF u
  <2>3. QED
    BY <2>1, <2>2 DEF NextOf
<1> HIDE DEF u
<1>8. CASE q \notin Range(fl)
  <2>1. \A i \in 1..Len(fl) : fl[i] # q
    BY <1>1, <1>8 DEF Range
  <2>2. ASSUME NEW i \in 1..Len(fl)
        PROVE  next[fl[i]] # q
    <3>1. i # Len(fl) => i + 1 \in 1..Len(fl)
      BY <1>len
    <3>2. QED
      BY <1>2, <1>3, <2>1, <3>1
  <2>3. first # q
    BY <1>1, <1>2, <2>1, EmptySeq DEF Links
  <2>4. \A i \in 1..Len(fl) : u[fl[i]] = next[fl[i]]
    BY <1>1, <1>6, <2>1, <2>2
  <2>5. Links(fl, first, u)
    BY <1>1, <1>3, <2>4 DEF Links
  <2>6. NoneOutside(fl, u)
    BY <1>2, <1>6 DEF NoneOutside
  <2>7. Range(fl) = Range(fl) \ {q}
    BY <1>8
  <2>8. QED
    BY <1>7, <2>3, <2>5, <2>6, <2>7 DEF u
<1>9. CASE q \in Range(fl)
  <2>1. PICK k \in 1..Len(fl) : fl[k] = q
    BY <1>1, <1>9 DEF Range
  <2>2. PICK r : r = Erase(fl, k)
    OBVIOUS
  <2>3. /\ r \in Seq(RecordPage)
        /\ Len(r) = Len(fl) - 1
        /\ \A i \in 1..(Len(fl) - 1) : r[i] = IF i < k THEN fl[i] ELSE fl[i+1]
    BY <2>2, EraseProperties
  <2>4. DOMAIN r = 1..(Len(fl) - 1)
    BY <2>3
  <2>len. Len(r) = Len(fl) - 1
    BY <2>3
  <2>5. \A i \in 1..Len(fl) : i # k => fl[i] # q
    BY <1>1, <2>1
  <2>6. IsInjective(r)
    <3>1. SUFFICES ASSUME NEW i \in 1..(Len(fl) - 1), NEW j \in 1..(Len(fl) - 1), r[i] = r[j]
                   PROVE  i = j
      BY <2>4 DEF IsInjective
    <3>2. PICK m \in 1..Len(fl) : m = IF i < k THEN i ELSE i + 1
      BY <1>1
    <3>3. PICK n \in 1..Len(fl) : n = IF j < k THEN j ELSE j + 1
      BY <1>1
    <3>4. fl[m] = fl[n]
      BY <2>3, <3>1, <3>2, <3>3
    <3>5. m = n
      BY <1>1, <3>4
    <3>6. QED
      BY <1>1, <3>2, <3>3, <3>5
  <2>7. Range(r) = Range(fl) \ {q}
    <3>1. ASSUME NEW i \in 1..(Len(fl) - 1)
          PROVE  r[i] \in Range(fl) \ {q}
      <4>1. PICK m \in 1..Len(fl) : m = IF i < k THEN i ELSE i + 1
        BY <1>1
      <4>2. r[i] = fl[m] /\ m # k
        BY <1>1, <2>3, <4>1
      <4>3. QED
        BY <1>1, <2>5, <4>2 DEF Range
    <3>2. ASSUME NEW m \in 1..Len(fl), fl[m] # q
          PROVE  fl[m] \in Range(r)
      <4>1. m # k
        BY <2>1, <3>2
      <4>2. PICK i \in 1..(Len(fl) - 1) : i = IF m < k THEN m ELSE m - 1
        BY <1>1, <4>1
      <4>3. r[i] = fl[m]
        BY <1>1, <2>3, <4>1, <4>2
      <4>4. QED
        BY <2>4, <4>3 DEF Range
    <3>3. QED
      BY <1>1, <2>4, <3>1, <3>2 DEF Range
  <2>8. (IF first = q THEN next[q] ELSE first) = IF r = << >> THEN RM_NO_PAGE ELSE r[1]
    <3>1. first = fl[1]
      BY <1>1, EmptySeq DEF Links
    <3>2. r = << >> <=> Len(fl) = 1
      BY <1>1, <2>3, EmptySeq
    <3>3. CASE k = 1
      <4>1. first = q /\ next[q] = IF Len(fl) = 1 THEN RM_NO_PAGE ELSE fl[2]
        <5>1. next[fl[k]] = IF k = Len(fl) THEN RM_NO_PAGE ELSE fl[k+1]
          BY <1>3
        <5>2. k + 1 = 2
          BY <3>3
        <5>3. QED
          BY <2>1, <3>1, <3>3, <5>1, <5>2
      <4>2. Len(fl) # 1 => r[1] = fl[2]
        BY <1>1, <2>3, <3>3
      <4>3. QED
        BY <3>2, <4>1, <4>2
    <3>4. CASE k # 1
      <4>1. first # q /\ Len(fl) # 1 /\ r[1] = fl[1]
        BY <1>1, <2>1, <2>3, <2>5, <3>1, <3>4
      <4>2. QED
        BY <3>1, <3>2, <4>1
    <3>5. QED
      BY <3>3, <3>4
  <2>9. ASSUME NEW i \in 1..(Len(fl) - 1)
        PROVE  u[r[i]] = IF i = Len(r) THEN RM_NO_PAGE ELSE r[i+1]
    <3>1. PICK m \in 1..Len(fl) : m = IF i < k THEN i ELSE i + 1
      BY <1>1
    <3>2. r[i] = fl[m] /\ m # k /\ fl[m] # q /\ fl[m] \in RecordPage
      BY <1>1, <2>3, <2>5, <3>1
    <3>3. next[fl[m]] = IF m = Len(fl) THEN RM_NO_PAGE ELSE fl[m+1]
      BY <1>3
    <3>4. u[r[i]] = IF next[fl[m]] = q THEN next[q] ELSE next[fl[m]]
      BY <1>6, <3>2
    <3>5. CASE m + 1 = k
      <4>1. /\ next[fl[m]] = q
            /\ next[q] = IF k = Len(fl) THEN RM_NO_PAGE ELSE fl[k+1]
        <5>1. m # Len(fl)
          BY <1>len, <3>5
        <5>2. QED
          BY <1>3, <2>1, <3>3, <3>5, <5>1
      <4>2. i = m /\ i + 1 = k
        BY <1>1, <3>1, <3>5
      <4>3. k # Len(fl) => r[k] = fl[k+1]
        <5>1. k # Len(fl) => k \in 1..(Len(fl) - 1)
          BY <1>len
        <5>2. QED
          BY <2>3, <5>1
      <4>4. k = Len(fl) <=> i = Len(r)
        BY <1>len, <2>len, <4>2
      <4>5. QED
        BY <3>4, <4>1, <4>2, <4>3, <4>4
    <3>6. CASE m + 1 # k
      <4>1. next[fl[m]] # q
        <5>1. m # Len(fl) => m + 1 \in 1..Len(fl)
          BY <1>len
        <5>2. m # Len(fl) => fl[m+1] # q
          BY <2>5, <3>6, <5>1
        <5>3. QED
          BY <1>2, <3>3, <5>2
      <4>2. m = Len(fl) <=> i = Len(r)
        BY <1>len, <2>len, <3>1, <3>6
      <4>3. m # Len(fl) => r[i+1] = fl[m+1]
        <5>1. SUFFICES ASSUME m # Len(fl)
                       PROVE  r[i+1] = fl[m+1]
          OBVIOUS
        <5>2. i + 1 \in 1..(Len(fl) - 1)
          BY <1>len, <2>len, <4>2, <5>1
        <5>3. r[i+1] = IF i + 1 < k THEN fl[i+1] ELSE fl[(i+1)+1]
          BY <2>3, <5>2
        <5>4. IF i + 1 < k THEN m + 1 = i + 1 ELSE m + 1 = (i+1)+1
          BY <1>1, <3>1, <3>6
        <5>5. QED
          BY <5>3, <5>4
      <4>4. QED
        BY <3>3, <3>4, <4>1, <4>2, <4>3
    <3>7. QED
      BY <3>5, <3>6
  <2>10. Links(r, IF first = q THEN next[q] ELSE first, u)
    BY <2>4, <2>8, <2>9 DEF Links
  <2>11. NoneOutside(r, u)
    <3>1. SUFFICES ASSUME NEW p \in RecordPage, p \notin Range(r), p # q
                   PROVE  u[p] = RM_NO_PAGE
      BY <1>6 DEF NoneOutside
    <3>2. next[p] = RM_NO_PAGE
      BY <2>7, <3>1 DEF NoneOutside
    <3>3. QED
      BY <1>2, <1>6, <3>1, <3>2
  <2>12. QED
    BY <1>7, <2>3, <2>6, <2>7, <2>10, <2>11 DEF u
<1>10. QED
  BY <1>8, <1>9

(***************************************************************************)
(* The loop of insert_record that adds the pages up to the rid's puts each *)
(* of them at the front of the free list.                                  *)
(***************************************************************************)
LEMMA CreatedIsListed ==
  ASSUME Inv, NEW q \in RecordPage
  PROVE  /\ NextAfterCreate(q) \in NextOf
         /\ \E l \in Seq(RecordPage) :
              /\ IsInjective(l)
              /\ Range(l) = Rooms \cup Created(q)
              /\ Links(l, FirstAfterCreate(q), NextAfterCreate(q))
              /\ NoneOutside(l, NextAfterCreate(q))
<1>1. PICK fl \in Seq(RecordPage) :
        /\ IsInjective(fl)
        /\ Range(fl) = Rooms
        /\ Links(fl, first_free_page_no, next_free_page_no)
  BY DEF Inv, ListsRooms, IsFreeList, Links
<1>2. /\ num_pages \in Int /\ num_pages >= 1
      /\ first_free_page_no \in RecordPage \cup {RM_NO_PAGE}
      /\ next_free_page_no \in NextOf
  BY RecordAssumption DEF Inv, TypeOK, NextOf
<1>3. q \in Int /\ q <= MaxPageNo /\ MaxPageNo \in Int
  BY PageNumbers, RecordAssumption
<1>4. \A p \in RecordPage \ Rooms : next_free_page_no[p] = RM_NO_PAGE
  BY DEF Inv, Unlinked, Rooms
<1>5. Created(q) \subseteq RecordPage
  BY <1>2, <1>3 DEF Created, RecordPage, RM_FIRST_RECORD_PAGE
<1> DEFINE next == NextAfterCreate(q)
<1>6. \A p \in RecordPage : next[p] = IF p \notin Created(q) THEN next_free_page_no[p]
                                      ELSE IF p = num_pages THEN first_free_page_no
                                      ELSE p - 1
  BY DEF NextAfterCreate
<1>7. next \in NextOf
  <2>1. ASSUME NEW p \in Created(q), p # num_pages
        PROVE  p - 1 \in RecordPage
    BY <1>2, <1>3, <2>1 DEF Created, RecordPage, RM_FIRST_RECORD_PAGE
  <2>2. \A p \in RecordPage : next[p] \in RecordPage \cup {RM_NO_PAGE}
    BY <1>2, <1>6, <2>1 DEF NextOf
  <2>3. next = [p \in RecordPage |-> next[p]]
    BY DEF NextAfterCreate
  <2> HIDE DEF next
  <2>4. QED
    BY <2>2, <2>3 DEF NextOf
<1> HIDE DEF next
<1>8. CASE Created(q) = {}
  <2>1. Links(fl, FirstAfterCreate(q), next)
    <3>1. \A i \in DOMAIN fl : fl[i] \in RecordPage
      OBVIOUS
    <3>2. QED
      BY <1>1, <1>6, <1>8, <3>1 DEF FirstAfterCreate, Links
  <2>2. NoneOutside(fl, next)
    BY <1>1, <1>4, <1>6, <1>8 DEF NoneOutside
  <2>3. QED
    BY <1>1, <1>7, <1>8, <2>1, <2>2 DEF next
<1>9. CASE Created(q) # {}
  <2>1. PICK k \in Nat : k = q - num_pages + 1 /\ k >= 1
    BY <1>2, <1>3, <1>9 DEF Created
  <2>2. PICK n \in Nat : n = Len(fl)
    OBVIOUS
  <2>3. /\ DOMAIN fl = 1..n
        /\ \A i \in 1..n : fl[i] \in RecordPage /\ fl[i] \in Rooms /\ fl[i] \notin Created(q)
        /\ \A i, j \in 1..n : fl[i] = fl[j] => i = j
    <3>1. DOMAIN fl = 1..n
      BY <2>2
    <3>2. \A i \in 1..n : fl[i] \in Rooms
      BY <1>1, <3>1 DEF Range
    <3>3. \A p \in Rooms : p \in RecordPage /\ p < num_pages /\ p \in Int
      BY PageNumbers DEF Rooms, HasRoom, PageExists
    <3>4. \A p \in Rooms : p \notin Created(q)
      BY <1>2, <3>3 DEF Created
    <3>5. QED
      BY <1>1, <3>1, <3>2, <3>3, <3>4 DEF IsInjective
  <2>4. PICK l : l = [i \in 1..(k + n) |-> IF i <= k THEN q + 1 - i ELSE fl[i - k]]
    OBVIOUS
  <2>5. \A i \in 1..(k + n) : i <= k => l[i] = q + 1 - i /\ q + 1 - i \in Created(q)
    <3>1. \A i \in 1..(k + n) : i <= k => q + 1 - i \in Created(q)
      BY <1>2, <1>3, <2>1 DEF Created
    <3>2. QED
      BY <2>4, <3>1
  <2>6. \A i \in 1..(k + n) : ~(i <= k) => l[i] = fl[i - k] /\ i - k \in 1..n
    BY <2>4
  <2>7. /\ l \in Seq(RecordPage)
        /\ Len(l) = k + n
        /\ DOMAIN l = 1..(k + n)
    <3>1. \A i \in 1..(k + n) : l[i] \in RecordPage
      BY <1>5, <2>3, <2>5, <2>6
    <3>2. l \in [1..(k + n) -> RecordPage]
      BY <2>4, <3>1
    <3>3. k + n \in Nat
      OBVIOUS
    <3>4. QED
      BY <3>2, <3>3
  <2>8. IsInjective(l)
    <3>1. SUFFICES ASSUME NEW i \in 1..(k + n), NEW j \in 1..(k + n), l[i] = l[j]
                   PROVE  i = j
      BY <2>7 DEF IsInjective
    <3>2. CASE i <= k /\ j <= k
      BY <1>3, <2>5, <3>1, <3>2
    <3>3. CASE ~(i <= k) /\ ~(j <= k)
      <4>1. i - k = j - k
        BY <2>3, <2>6, <3>1, <3>3
      <4>2. QED
        BY <4>1
    <3>4. CASE i <= k /\ ~(j <= k)
      BY <2>3, <2>5, <2>6, <3>1, <3>4
    <3>5. CASE ~(i <= k) /\ j <= k
      BY <2>3, <2>5, <2>6, <3>1, <3>5
    <3>6. QED
      BY <3>2, <3>3, <3>4, <3>5
  <2>9. Range(l) = Rooms \cup Created(q)
    <3>1. \A i \in 1..(k + n) : l[i] \in Rooms \cup Created(q)
      BY <2>3, <2>5, <2>6
    <3>2. ASSUME NEW p \in Created(q)
          PROVE  p \in Range(l)
      <4>1. PICK i \in 1..(k + n) : i = q + 1 - p /\ i <= k
        BY <1>2, <1>3, <2>1 DEF Created
      <4>2. l[i] = p
        BY <1>2, <1>3, <2>5, <4>1 DEF Created
      <4>3. QED
        BY <2>7, <4>2 DEF Range
    <3>3. ASSUME NEW p \in Rooms
          PROVE  p \in Range(l)
      <4>1. PICK j \in 1..n : fl[j] = p
        BY <1>1, <2>3 DEF Range
      <4>2. k + j \in 1..(k + n) /\ ~(k + j <= k) /\ (k + j) - k = j
        BY <2>1
      <4>3. l[k + j] = p
        BY <2>6, <4>1, <4>2
      <4>4. QED
        BY <2>7, <4>2, <4>3 DEF Range
    <3>4. QED
      BY <2>7, <3>1, <3>2, <3>3 DEF Range
  <2>10. FirstAfterCreate(q) = l[1] /\ l # << >>
    <3>1. 1 \in 1..(k + n) /\ 1 <= k
      BY <2>1
    <3>2. l[1] = q
      BY <1>3, <2>5, <3>1
    <3>3. QED
      BY <1>9, <2>7, <3>1, <3>2 DEF FirstAfterCreate
  <2>11. ASSUME NEW i \in 1..(k + n)
         PROVE  next[l[i]] = IF i = k + n THEN RM_NO_PAGE ELSE l[i+1]
    <3>1. CASE i < k
      <4>1. /\ l[i] = q + 1 - i
            /\ l[i] \in Created(q)
            /\ i + 1 \in 1..(k + n) /\ i + 1 <= k /\ i # k + n
        BY <2>5, <3>1
      <4>2. l[i+1] = q + 1 - (i + 1)
        BY <2>5, <4>1
      <4>3. l[i] # num_pages /\ l[i] - 1 = l[i+1]
        BY <1>2, <1>3, <2>1, <3>1, <4>1, <4>2
      <4>4. QED
        BY <1>5, <1>6, <4>1, <4>3
    <3>2. CASE i = k
      <4>1. l[i] = num_pages /\ l[i] \in Created(q)
        BY <1>2, <1>3, <2>1, <2>5, <3>2
      <4>2. next[l[i]] = first_free_page_no
        BY <1>5, <1>6, <4>1
      <4>3. first_free_page_no = IF n = 0 THEN RM_NO_PAGE ELSE fl[1]
        BY <1>1, <2>2, EmptySeq DEF Links
      <4>4. n # 0 => l[i+1] = fl[1]
        <5>1. n # 0 => i + 1 \in 1..(k + n) /\ ~(i + 1 <= k) /\ (i + 1) - k = 1
          BY <3>2
        <5>2. QED
          BY <2>6, <5>1
      <4>5. n = 0 <=> i = k + n
        BY <3>2
      <4>6. QED
        BY <4>2, <4>3, <4>4, <4>5
    <3>3. CASE i > k
      <4>1. PICK j \in 1..n : j = i - k
        BY <2>6, <3>3
      <4>2. l[i] = fl[j] /\ fl[j] \in RecordPage /\ fl[j] \notin Created(q)
        BY <2>3, <2>6, <3>3, <4>1
      <4>3. next[l[i]] = IF j = n THEN RM_NO_PAGE ELSE fl[j+1]
        BY <1>1, <1>6, <2>2, <2>3, <4>2 DEF Links
      <4>4. i # k + n => l[i+1] = fl[j+1]
        <5>1. i # k + n => i + 1 \in 1..(k + n) /\ ~(i + 1 <= k) /\ (i + 1) - k = j + 1
          BY <3>3, <4>1
        <5>2. QED
          BY <2>6, <5>1
      <4>5. j = n <=> i = k + n
        BY <4>1
      <4>6. QED
        BY <4>3, <4>4, <4>5
    <3>4. QED
      BY <3>1, <3>2, <3>3
  <2>12. Links(l, FirstAfterCreate(q), next)
    BY <2>7, <2>10, <2>11 DEF Links
  <2>13. NoneOutside(l, next)
    BY <1>4, <1>6, <2>9 DEF NoneOutside
  <2>14. QED
    BY <1>7, <2>7, <2>8, <2>9, <2>12, <2>13 DEF next
<1>10. QED
  BY <1>8, <1>9

\* The list and the links of the next state are those the invariant asks for.
LEMMA InvFromList ==
  ASSUME TypeOK', PagesConsistent', NEW l \in Seq(RecordPage), IsInjective(l),
         Range(l) = Rooms', Links(l, first_free_page_no', next_free_page_no'),
         NoneOutside(l, next_free_page_no')
  PROVE  Inv'
<1>1. Unlinked'
  BY DEF Unlinked, NoneOutside, Rooms
<1>2. ListsRooms(l)'
  BY DEF ListsRooms, IsFreeList, Links
<1>3. QED
  BY <1>1, <1>2 DEF Inv

\* The pages that insert_record adds are the only new ones, and are empty.
LEMMA FileGrows ==
  ASSUME Inv, NEW q \in RecordPage,
         num_pages' = IF Created(q) = {} THEN num_pages ELSE q + 1
  PROVE  /\ num_pages' \in 1..MaxPageNo+1
         /\ num_pages <= num_pages'
         /\ \A p \in RecordPage : PageExists(p)' <=> PageExists(p) \/ p \in Created(q)
         /\ \A p \in RecordPage : p \in Created(q) => num_records[p] = 0 /\ bitmap[p] = {}
         /\ PageExists(q)'
         /\ Created(q) \subseteq RecordPage
         /\ FirstAfterCreate(q) \in RecordPage \cup {RM_NO_PAGE}
<1>1. num_pages \in 1..MaxPageNo+1 /\ num_pages \in Int /\ MaxPageNo \in Int
  BY RecordAssumption DEF Inv, TypeOK
<1>2. q \in Int /\ q >= 1 /\ q <= MaxPageNo
  BY <1>1 DEF RecordPage, RM_FIRST_RECORD_PAGE
<1>3. Created(q) = {} <=> q < num_pages
  BY <1>1, <1>2 DEF Created
<1>4. num_pages' \in 1..MaxPageNo+1 /\ num_pages <= num_pages' /\ q < num_pages'
  BY <1>1, <1>2, <1>3
<1>5. \A p \in RecordPage : p \in Int /\ p >= 1
  BY <1>1 DEF RecordPage, RM_FIRST_RECORD_PAGE
<1>6. \A p \in RecordPage : p < num_pages' <=> p < num_pages \/ p \in Created(q)
  BY <1>1, <1>2, <1>3, <1>5 DEF Created
<1>7. \A p \in RecordPage : PageExists(p)' <=> PageExists(p) \/ p \in Created(q)
  BY <1>5, <1>6 DEF PageExists, RM_FIRST_RECORD_PAGE
<1>8. ASSUME NEW p \in RecordPage, p \in Created(q)
      PROVE  num_records[p] = 0 /\ bitmap[p] = {}
  <2>1. ~PageExists(p)
    BY <1>1, <1>2, <1>5, <1>8 DEF Created, PageExists
  <2>2. bitmap[p] = {} /\ num_records[p] = Cardinality(bitmap[p])
    BY <2>1 DEF Inv, PagesConsistent
  <2>3. QED
    BY <2>2, FS_EmptySet
<1>9. PageExists(q)'
  BY <1>2, <1>4 DEF PageExists, RM_FIRST_RECORD_PAGE
<1>10. Created(q) \subseteq RecordPage
  BY <1>1, <1>2 DEF Created, RecordPage, RM_FIRST_RECORD_PAGE
<1>11. FirstAfterCreate(q) \in RecordPage \cup {RM_NO_PAGE}
  BY DEF FirstAfterCreate, Inv, TypeOK
<1>12. QED
  BY <1>4, <1>7, <1>8, <1>9, <1>10, <1>11

(***************************************************************************)
(* insert_record at a slot out of range leaves the pages it has added, all *)
(* of them in the free list.                                               *)
(***************************************************************************)
LEMMA BadSlotKeepsInv ==
  ASSUME Inv, NEW q \in RecordPage, insert_record_bad_slot(q)
  PROVE  Inv' /\ num_pages <= num_pages' /\ Records \subseteq Records'
<1>1. /\ num_pages' = IF Created(q) = {} THEN num_pages ELSE q + 1
      /\ first_free_page_no' = FirstAfterCreate(q)
      /\ next_free_page_no' = NextAfterCreate(q)
      /\ num_records' = num_records /\ bitmap' = bitmap /\ slots' = slots
  BY DEF insert_record_bad_slot
<1>2. /\ num_pages' \in 1..MaxPageNo+1
      /\ num_pages <= num_pages'
      /\ \A p \in RecordPage : PageExists(p)' <=> PageExists(p) \/ p \in Created(q)
      /\ \A p \in RecordPage : p \in Created(q) => num_records[p] = 0 /\ bitmap[p] = {}
      /\ Created(q) \subseteq RecordPage
      /\ FirstAfterCreate(q) \in RecordPage \cup {RM_NO_PAGE}
  BY <1>1, FileGrows
<1>3. TypeOK'
  BY <1>1, <1>2, CreatedIsListed DEF Inv, TypeOK, NextOf
<1>4. PagesConsistent'
  BY <1>1, <1>2 DEF Inv, PagesConsistent
<1>5. Rooms' = Rooms \cup Created(q)
  <2>1. 0 # SlotsPerPage
    BY RecordAssumption
  <2>2. QED
    BY <1>1, <1>2, <2>1 DEF Rooms, HasRoom, IsFull
<1>6. PICK l \in Seq(RecordPage) :
        /\ IsInjective(l)
        /\ Range(l) = Rooms'
        /\ Links(l, first_free_page_no', next_free_page_no')
        /\ NoneOutside(l, next_free_page_no')
  BY <1>1, <1>5, CreatedIsListed
<1>7. Inv'
  BY <1>3, <1>4, <1>6, InvFromList
<1>8. Records \subseteq Records'
  BY <1>1, <1>2 DEF Records, Rid
<1>9. QED
  BY <1>2, <1>7, <1>8

(***************************************************************************)
(* insert_record at a rid: the pages it adds come into the free list, and  *)
(* the rid's page leaves it when it is full, wherever in the list it is,   *)
(* whether the slot was free or the record there is written over.          *)
(***************************************************************************)
LEMMA InsertAtKeepsInv ==
  ASSUME Inv, NEW rid \in Rid, NEW buf \in Value, insert_record_at(rid, buf)
  PROVE  Inv' /\ num_pages <= num_pages' /\ Records \subseteq Records'
<1>1. PICK q \in RecordPage, s \in Slot : rid = <<q, s>>
  BY DEF Rid
<1>2. PICK n : n = CountAfterInsertAt(rid)
  OBVIOUS
<1> DEFINE first == FirstAfterCreate(q)
           next == NextAfterCreate(q)
<1>3. TypeOK /\ PagesConsistent
  BY DEF Inv
<1>4. /\ num_pages' = IF Created(q) = {} THEN num_pages ELSE q + 1
      /\ bitmap' = [bitmap EXCEPT ![q] = @ \cup {s}]
      /\ slots' = [slots EXCEPT ![q][s] = buf]
      /\ num_records' = [num_records EXCEPT ![q] = n]
  BY <1>1, <1>2 DEF insert_record_at
<1>5. num_records'[q] = n
  BY <1>3, <1>4 DEF TypeOK
<1>6. IF IsFull(n)
        THEN /\ first_free_page_no' = IF first = q THEN next[q] ELSE first
             /\ next_free_page_no' = Unlink(q, first, next)
        ELSE first_free_page_no' = first /\ next_free_page_no' = next
  BY <1>1, <1>5 DEF insert_record_at
<1> HIDE DEF first, next
<1>7. /\ num_pages' \in 1..MaxPageNo+1
      /\ num_pages <= num_pages'
      /\ \A p \in RecordPage : PageExists(p)' <=> PageExists(p) \/ p \in Created(q)
      /\ \A p \in RecordPage : p \in Created(q) => num_records[p] = 0 /\ bitmap[p] = {}
      /\ PageExists(q)'
      /\ Created(q) \subseteq RecordPage
      /\ first \in RecordPage \cup {RM_NO_PAGE}
  BY <1>4, FileGrows DEF first
<1>8. \A p \in RecordPage : /\ bitmap'[p] = IF p = q THEN bitmap[q] \cup {s} ELSE bitmap[p]
                            /\ num_records'[p] = IF p = q THEN n ELSE num_records[p]
  BY <1>3, <1>4 DEF TypeOK
<1>9. n = Cardinality(bitmap[q] \cup {s}) /\ n \in 0..SlotsPerPage
  <2>1. n = IF s \in bitmap[q] THEN num_records[q] ELSE num_records[q] + 1
    BY <1>1, <1>2 DEF CountAfterInsertAt
  <2>2. bitmap[q] \in SUBSET Slot /\ bitmap[q] \cup {s} \in SUBSET Slot
    BY <1>3 DEF TypeOK
  <2>3. num_records[q] = Cardinality(bitmap[q])
    BY <1>3 DEF PagesConsistent
  <2>4. IsFiniteSet(bitmap[q]) /\ Cardinality(bitmap[q] \cup {s}) \in 0..SlotsPerPage
    BY <2>2, FullBitmap
  <2>5. CASE s \in bitmap[q]
    <3>1. bitmap[q] \cup {s} = bitmap[q]
      BY <2>5
    <3>2. QED
      BY <2>1, <2>3, <2>4, <2>5, <3>1
  <2>6. CASE s \notin bitmap[q]
    <3>1. Cardinality(bitmap[q] \cup {s}) = Cardinality(bitmap[q]) + 1
      BY <2>4, <2>6, FS_AddElement
    <3>2. QED
      BY <2>1, <2>3, <2>4, <2>6, <3>1
  <2>7. QED
    BY <2>5, <2>6
<1>10. PICK l \in Seq(RecordPage) :
         /\ IsInjective(l)
         /\ Range(l) = Rooms \cup Created(q)
         /\ Links(l, first, next)
         /\ NoneOutside(l, next)
  BY CreatedIsListed DEF first, next
<1>11. next \in NextOf
  BY CreatedIsListed DEF next
<1>12. PICK r \in Seq(RecordPage) :
         /\ IsInjective(r)
         /\ Range(r) = Range(l) \ {q}
         /\ Links(r, IF first = q THEN next[q] ELSE first, Unlink(q, first, next))
         /\ NoneOutside(r, Unlink(q, first, next))
  BY <1>10, <1>11, UnlinkRemoves
<1>13. Unlink(q, first, next) \in NextOf
  BY <1>10, <1>11, UnlinkRemoves
<1>14. TypeOK'
  <2>1. /\ first_free_page_no' \in RecordPage \cup {RM_NO_PAGE}
        /\ next_free_page_no' \in [RecordPage -> RecordPage \cup {RM_NO_PAGE}]
    BY <1>6, <1>7, <1>11, <1>13 DEF NextOf
  <2>2. num_records' \in [RecordPage -> 0..SlotsPerPage]
    BY <1>3, <1>4, <1>9 DEF TypeOK
  <2>3. bitmap' \in [RecordPage -> SUBSET Slot]
    BY <1>3, <1>4 DEF TypeOK
  <2>4. slots' \in [RecordPage -> [Slot -> Value \cup {Erased}]]
    BY <1>3, <1>4 DEF TypeOK
  <2>5. QED
    BY <1>7, <2>1, <2>2, <2>3, <2>4 DEF TypeOK
<1>15. PagesConsistent'
  <2>1. SUFFICES ASSUME NEW p \in RecordPage
                 PROVE  /\ num_records'[p] = Cardinality(bitmap'[p])
                        /\ \A t \in Slot : t \in bitmap'[p] <=> slots'[p][t] # Erased
                        /\ ~PageExists(p)' => bitmap'[p] = {}
    BY DEF PagesConsistent, PageExists
  <2>2. /\ num_records[p] = Cardinality(bitmap[p])
        /\ \A t \in Slot : t \in bitmap[p] <=> slots[p][t] # Erased
        /\ ~PageExists(p) => bitmap[p] = {}
    BY <1>3 DEF PagesConsistent
  <2>3. CASE p # q
    <3>1. num_records'[p] = num_records[p] /\ bitmap'[p] = bitmap[p] /\ slots'[p] = slots[p]
      BY <1>3, <1>4, <2>3 DEF TypeOK
    <3>2. QED
      BY <1>7, <2>2, <3>1
  <2>4. CASE p = q
    <3>1. num_records'[p] = Cardinality(bitmap'[p])
      BY <1>8, <1>9, <2>4
    <3>2. \A t \in Slot : slots'[p][t] = IF t = s THEN buf ELSE slots[p][t]
      BY <1>3, <1>4, <2>4 DEF TypeOK
    <3>3. \A t \in Slot : t \in bitmap'[p] <=> slots'[p][t] # Erased
      BY <1>8, <2>2, <2>4, <3>2, RecordAssumption
    <3>4. QED
      BY <1>7, <2>4, <3>1, <3>3
  <2>5. QED
    BY <2>3, <2>4
<1>16. Rooms' = IF IsFull(n) THEN (Rooms \cup Created(q)) \ {q} ELSE Rooms \cup Created(q)
  <2>1. ASSUME NEW p \in RecordPage, p # q
        PROVE  p \in Rooms' <=> p \in Rooms \cup Created(q)
    <3>1. 0 # SlotsPerPage
      BY RecordAssumption
    <3>2. QED
      BY <1>7, <1>8, <2>1, <3>1 DEF Rooms, HasRoom, IsFull
  <2>2. q \in Rooms' <=> ~IsFull(n)
    BY <1>7, <1>8 DEF Rooms, HasRoom, IsFull
  <2>3. ~IsFull(n) => q \in Rooms \cup Created(q)
    <3>1. SUFFICES ASSUME ~IsFull(n), q \notin Created(q)
                   PROVE  ~IsFull(num_records[q])
      BY <1>7 DEF Rooms, HasRoom
    <3>2. num_records[q] \in 0..SlotsPerPage
      BY <1>3 DEF TypeOK
    <3>3. SUFFICES ASSUME IsFull(num_records[q])
                   PROVE  FALSE
      OBVIOUS
    <3>4. n = SlotsPerPage \/ n = num_records[q] + 1
      BY <1>1, <1>2, <3>3 DEF CountAfterInsertAt, IsFull
    <3>5. QED
      BY <1>9, <3>1, <3>3, <3>4, RecordAssumption DEF IsFull
  <2>4. Rooms \subseteq RecordPage /\ Rooms' \subseteq RecordPage
    BY DEF Rooms
  <2>5. QED
    BY <1>7, <2>1, <2>2, <2>3, <2>4
<1>17. Inv'
  <2>1. CASE IsFull(n)
    <3>1. Range(r) = Rooms'
      BY <1>10, <1>12, <1>16, <2>1
    <3>2. /\ Links(r, first_free_page_no', next_free_page_no')
          /\ NoneOutside(r, next_free_page_no')
      BY <1>6, <1>12, <2>1
    <3>3. QED
      BY <1>12, <1>14, <1>15, <3>1, <3>2, InvFromList
  <2>2. CASE ~IsFull(n)
    <3>1. Range(l) = Rooms'
      BY <1>10, <1>16, <2>2
    <3>2. /\ Links(l, first_free_page_no', next_free_page_no')
          /\ NoneOutside(l, next_free_page_no')
      BY <1>6, <1>10, <2>2
    <3>3. QED
      BY <1>10, <1>14, <1>15, <3>1, <3>2, InvFromList
  <2>3. QED
    BY <2>1, <2>2
<1>18. Records \subseteq Records'
  BY <1>7, <1>8 DEF Records, Rid
<1>19. QED
  BY <1>7, <1>17, <1>18

-----------------------------------------------------------------------------
\* insert_record, update_record and delete_record take no page away.
LEMMA InsertOnlyAdds ==
  ASSUME TypeOK, NEW buf \in Value, insert_record(buf)
  PROVE  num_pages <= num_pages' /\ Records \subseteq Records'
<1>1. PICK p : p = InsertPage
  OBVIOUS
<1>2. PICK s : s = FirstFreeSlot(bitmap[p])
  OBVIOUS
<1>3. /\ num_pages' = IF p = num_pages THEN num_pages + 1 ELSE num_pages
      /\ bitmap' = [bitmap EXCEPT ![p] = @ \cup {s}]
  BY <1>1, <1>2 DEF insert_record
<1>4. num_pages \in Int
  BY RecordAssumption DEF TypeOK
<1>5. num_pages <= num_pages'
  BY <1>3, <1>4
<1>6. num_pages' \in Int
  BY <1>3, <1>4
<1>7. \A q \in RecordPage : PageExists(q) => PageExists(q)'
  BY <1>4, <1>5, <1>6, PageNumbers DEF PageExists
<1>8. \A q \in RecordPage : bitmap[q] \subseteq bitmap'[q]
  BY <1>3 DEF TypeOK
<1>9. QED
  BY <1>5, <1>7, <1>8 DEF Records, Rid

LEMMA DeleteKeepsOthers ==
  ASSUME TypeOK, NEW rid \in Rid, delete_record(rid)
  PROVE  num_pages' = num_pages /\ Records \ {rid} \subseteq Records'
<1>1. PICK p \in RecordPage, s \in Slot : rid = <<p, s>>
  BY DEF Rid
<1>2. num_pages' = num_pages /\ bitmap' = [bitmap EXCEPT ![p] = @ \ {s}]
  BY <1>1 DEF delete_record
<1>3. \A q \in RecordPage : PageExists(q) <=> PageExists(q)'
  BY <1>2 DEF PageExists
<1>4. \A q \in RecordPage, t \in Slot :
         t \in bitmap[q] /\ <<q, t>> # <<p, s>> => t \in bitmap'[q]
  BY <1>2 DEF TypeOK
<1>5. QED
  BY <1>1, <1>2, <1>3, <1>4 DEF Records, Rid

(***************************************************************************)
(* A step of a session, of the table file or of the scan, keeps both       *)
(* invariants.                                                             *)
(***************************************************************************)
LEMMA ScanStepKeepsInv ==
  ASSUME Inv, ScanInv, [ScanNext]_vars
  PROVE  Inv' /\ ScanInv'
<1>1. TypeOK /\ stable \subseteq Records /\ num_pages <= num_pages
  BY RecordAssumption DEF Inv, TypeOK, ScanInv, ScanType
<1>2. ASSUME Inv', num_pages <= num_pages', scan' = scan, seen' = seen,
             stable' \subseteq stable, stable' \subseteq Records'
      PROVE  ScanInv'
  BY <1>1, <1>2, SessionKeepsScanInv DEF Inv
<1>3. ASSUME Inv', num_pages <= num_pages', Records \subseteq Records', UNCHANGED scan_vars
      PROVE  ScanInv'
  BY <1>1, <1>2, <1>3 DEF scan_vars
<1>4. UNCHANGED file_vars => Inv'
  BY StutterKeepsInv
<1>5. UNCHANGED file_vars => num_pages' = num_pages /\ Records' = Records
  BY DEF file_vars, page_vars, Records, PageExists
<1>6. ASSUME NEW buf \in Value, insert_record(buf), UNCHANGED scan_vars
      PROVE  Inv' /\ ScanInv'
  BY <1>1, <1>3, <1>6, InsertKeepsInv, InsertOnlyAdds
<1>7. ASSUME NEW rid \in Rid, NEW buf \in Value, update_record(rid, buf), UNCHANGED scan_vars
      PROVE  Inv' /\ ScanInv'
  <2>1. num_pages' = num_pages /\ bitmap' = bitmap
    BY <1>7 DEF update_record
  <2>2. Records' = Records
    BY <2>1 DEF Records, PageExists
  <2>3. Inv'
    BY <1>7, UpdateKeepsInv
  <2>4. QED
    BY <1>1, <1>3, <1>7, <2>1, <2>2, <2>3
<1>8. ASSUME NEW rid \in Rid, NEW buf \in Value, insert_record_at(rid, buf), UNCHANGED scan_vars
      PROVE  Inv' /\ ScanInv'
  BY <1>3, <1>8, InsertAtKeepsInv
<1>9. ASSUME NEW q \in RecordPage, insert_record_bad_slot(q), UNCHANGED scan_vars
      PROVE  Inv' /\ ScanInv'
  BY <1>3, <1>9, BadSlotKeepsInv
<1>10. ASSUME NEW rid \in Rid, delete_record(rid), stable' = stable \ {rid},
              UNCHANGED <<scan, seen>>
       PROVE  Inv' /\ ScanInv'
  <2>1. num_pages' = num_pages /\ Records \ {rid} \subseteq Records'
    BY <1>1, <1>10, DeleteKeepsOthers
  <2>2. Inv'
    BY <1>10, DeleteKeepsInv
  <2>3. QED
    BY <1>1, <1>2, <1>10, <2>1, <2>2
<1>11. CASE scan_begin
  BY <1>1, <1>4, <1>11, ScanBeginKeepsScanInv DEF scan_begin
<1>12. CASE scan_next
  BY <1>1, <1>4, <1>12, ScanNextKeepsScanInv DEF scan_next, file_vars
<1>13. CASE scan_read
  BY <1>1, <1>4, <1>13, ScanReadKeepsScanInv DEF scan_read, file_vars
<1>14. CASE scan_done
  BY <1>1, <1>4, <1>14, ScanDoneKeepsScanInv DEF scan_done, file_vars
<1>15. CASE UNCHANGED vars
  <2>1. UNCHANGED file_vars /\ UNCHANGED scan_vars
    BY <1>15 DEF vars
  <2>2. QED
    BY <1>1, <1>3, <1>4, <1>5, <2>1
<1>16. QED
  BY <1>6, <1>7, <1>8, <1>9, <1>10, <1>11, <1>12, <1>13, <1>14, <1>15 DEF ScanNext

\* No scan runs when the file is opened.
LEMMA InitScanInv == ScanInit => Inv /\ ScanInv
<1>1. SUFFICES ASSUME ScanInit
               PROVE  Inv /\ ScanInv
  OBVIOUS
<1>2. Inv
  BY <1>1, InitInv DEF ScanInit
<1>3. /\ scan = [pc |-> "idle", page_no |-> 1, slot_no |-> -1]
      /\ stable = {} /\ seen = {}
  BY <1>1 DEF ScanInit, NoScan, RM_FIRST_RECORD_PAGE
<1>4. 1 \in 1..MaxPageNo+1
  BY RecordAssumption
<1>5. ScanInv
  BY <1>3, <1>4 DEF ScanInv, ScanType, Progress
<1>6. QED
  BY <1>2, <1>5

LEMMA ScanInvHolds == ScanSpec => [](Inv /\ ScanInv)
<1>1. (Inv /\ ScanInv) /\ [ScanNext]_vars => (Inv /\ ScanInv)'
  BY ScanStepKeepsInv
<1>2. QED
  BY InitScanInv, <1>1, PTL DEF ScanSpec
-----------------------------------------------------------------------------
(***************************************************************************)
(* The headers and bitmaps of a table file agree also when insert_record   *)
(* at a given rid is among the calls, over a record or beyond the end of   *)
(* the file.                                                               *)
(***************************************************************************)
THEOREM PagesConsistentWithInsertAt == ScanSpec => []PagesConsistent
<1>1. Inv /\ ScanInv => PagesConsistent
  BY DEF Inv
<1>2. QED
  BY <1>1, ScanInvHolds, PTL

(***************************************************************************)
(* The free list stays the list of the pages with room also when           *)
(* insert_record at a given rid adds pages to it and takes a page out of   *)
(* its middle.                                                             *)
(***************************************************************************)
THEOREM FreeListIsRightWithInsertAt == ScanSpec => []FreeListIsPagesWithRoom
  BY FreeListFromInv, ScanInvHolds, PTL

(***************************************************************************)
(* A scan misses nothing: when RmScan comes to its end it has returned     *)
(* every record that was there all along, whatever the sessions inserted,  *)
(* deleted and updated between any two of its steps.                       *)
(***************************************************************************)
THEOREM ScanMissesNothing == ScanSpec => []ScanIsComplete
<1>1. Inv /\ ScanInv => ScanIsComplete
  BY DEF ScanInv, Progress, ScanIsComplete
<1>2. QED
  BY <1>1, ScanInvHolds, PTL

(***************************************************************************)
(* A scan returns no rid twice: get_record is called only for a rid ahead  *)
(* of all those RmScan has been at.                                        *)
(***************************************************************************)
THEOREM ScanReturnsNothingTwice == ScanSpec => ScanMovesForward
<1>1. Inv /\ ScanInv /\ [ScanNext]_vars =>
        [scan.pc = "check" /\ scan'.pc = "next" =>
           <<scan.page_no, scan.slot_no>> \notin seen]_vars
  <2>1. SUFFICES ASSUME Inv, ScanInv, ScanNext, scan.pc = "check", scan'.pc = "next"
                 PROVE  <<scan.page_no, scan.slot_no>> \notin seen
    OBVIOUS
  <2>2. scan' # scan
    BY <2>1
  <2>3. ~scan_begin /\ ~scan_next /\ ~scan_done
    BY <2>1 DEF scan_begin, scan_next, scan_done
  <2>4. scan_read
    BY <2>1, <2>2, <2>3 DEF ScanNext, scan_vars
  <2>5. QED
    BY <2>1, <2>4, ScanReadKeepsScanInv DEF Inv
<1>2. QED
  BY <1>1, ScanInvHolds, PTL DEF ScanSpec, ScanMovesForward
=============================================================================
