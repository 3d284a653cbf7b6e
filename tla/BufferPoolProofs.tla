-------------------------- MODULE BufferPoolProofs --------------------------
(***************************************************************************)
(* For every pool size, set of files, of clients and of page contents, and *)
(* every number of I/O errors: the page table agrees with the frames, pins *)
(* count the holders, and no frame in use is handed out as a victim.       *)
(***************************************************************************)
EXTENDS BufferPool, LRUReplacerProofs, FiniteSetTheorems

\* A page that was never allocated is not cached, so new_page's id is fresh.
CachedIsAllocated == \A p \in PageId : page_table[p] # NoFrame => allocated(p)

\* The Page* of a client points into the pool.
HoldsFrame == \A c \in Client : held[c] # NoHold => held[c].frame \in Frame

(***************************************************************************)
(* The inductive invariant.  The last two conjuncts make it inductive: the *)
(* first keeps new_page from mapping one page to two frames, the second    *)
(* lets unpin_page find the frame whose pin it takes back.                 *)
(***************************************************************************)
Inv ==
  /\ TypeOK
  /\ PageTableSync
  /\ PinsAreHolders
  /\ VictimsUnused
  /\ CachedIsAllocated
  /\ HoldsFrame
-----------------------------------------------------------------------------
\* -1 is no frame and <<-1, -1>> no page of a file.
LEMMA Sentinels == NoFrame \notin Frame /\ InvalidPage \notin PageId
  BY PoolAssumption DEF NoFrame, Frame, InvalidPage, PageId

\* The clients that hold a frame are finitely many.
LEMMA HoldersFinite ==
  ASSUME NEW f
  PROVE  IsFiniteSet(Holders(f)) /\ Cardinality(Holders(f)) \in Nat
  BY PoolAssumption, FS_Subset, FS_CardinalityType DEF Holders

\* A frame with pin count 0 is the frame of no client.
LEMMA UnpinnedHasNoHolder ==
  ASSUME Inv, NEW f \in Frame, pages[f].pin_count = 0
  PROVE  \A c \in Client : held[c].frame # f
<1>1. Cardinality(Holders(f)) = 0
  BY DEF Inv, PinsAreHolders
<1>2. Holders(f) = {}
  BY <1>1, HoldersFinite, FS_EmptySet
<1>3. QED
  BY <1>2 DEF Holders

(***************************************************************************)
(* A client that held nothing and now holds f (fetch_page, new_page) adds  *)
(* one to the holders of f and changes those of no other frame.            *)
(***************************************************************************)
LEMMA HoldersAfterFetch ==
  ASSUME held \in [Client -> Hold], NEW c \in Client, held[c] = NoHold,
         NEW h \in Hold, h.frame \in Frame,
         held' = [held EXCEPT ![c] = h],
         NEW g \in Frame
  PROVE  Cardinality(Holders(g)') =
           Cardinality(Holders(g)) + (IF g = h.frame THEN 1 ELSE 0)
<1>1. c \notin Holders(g)
  BY Sentinels DEF Holders, NoHold
<1>2. CASE g = h.frame
  <2>1. Holders(g)' = Holders(g) \cup {c}
    BY <1>2 DEF Holders, Hold
  <2>2. QED
    BY <1>1, <1>2, <2>1, HoldersFinite, FS_AddElement
<1>3. CASE g # h.frame
  <2>1. Holders(g)' = Holders(g)
    BY <1>1, <1>3 DEF Holders, Hold
  <2>2. QED
    BY <1>3, <2>1, HoldersFinite
<1>4. QED
  BY <1>2, <1>3

(***************************************************************************)
(* A client that gives its frame back (unpin_page) takes one from the      *)
(* holders of that frame and changes those of no other frame.              *)
(***************************************************************************)
LEMMA HoldersAfterUnpin ==
  ASSUME held \in [Client -> Hold], NEW c \in Client, held[c].frame \in Frame,
         held' = [held EXCEPT ![c] = NoHold],
         NEW g \in Frame
  PROVE  Cardinality(Holders(g)') =
           Cardinality(Holders(g)) - (IF g = held[c].frame THEN 1 ELSE 0)
<1>1. CASE g = held[c].frame
  <2>1. Holders(g)' = Holders(g) \ {c} /\ c \in Holders(g)
    BY <1>1, Sentinels DEF Holders, Hold, NoHold
  <2>2. Cardinality(Holders(g) \ {c}) = Cardinality(Holders(g)) - 1
    BY <2>1, HoldersFinite, FS_RemoveElement
  <2>3. QED
    BY <1>1, <2>1, <2>2
<1>2. CASE g # held[c].frame
  <2>1. Holders(g)' = Holders(g)
    BY <1>2, Sentinels DEF Holders, Hold, NoHold
  <2>2. QED
    BY <1>2, <2>1, HoldersFinite
<1>3. QED
  BY <1>1, <1>2

(***************************************************************************)
(* find_victim_page hands out an unpinned frame and removes it from        *)
(* whichever list it was in.                                               *)
(***************************************************************************)
LEMMA VictimProperties ==
  ASSUME Inv, CanFindVictim
  PROVE  /\ Victim \in Frame
         /\ pages[Victim].pin_count = 0
         /\ FreeListAfterVictim \in Seq(Frame)
         /\ LRUAfterVictim \in Seq(Frame)
         /\ IsInjective(FreeListAfterVictim)
         /\ IsInjective(LRUAfterVictim)
         /\ Range(FreeListAfterVictim) = Range(free_list) \ {Victim}
         /\ Range(LRUAfterVictim) = Range(LRUlist) \ {Victim}
<1>1. /\ free_list \in Seq(Frame) /\ IsInjective(free_list)
      /\ LRUlist \in Seq(Frame) /\ IsInjective(LRUlist)
  BY DEF Inv, TypeOK, VictimsUnused
<1>2. Range(free_list) \subseteq Frame /\ Range(LRUlist) \subseteq Frame
  BY <1>1 DEF Range
<1>3. Range(free_list) \cap Range(LRUlist) = {}
  BY DEF Inv, VictimsUnused
<1>4. CASE free_list # << >>
  <2>1. Victim = Head(free_list)
    BY <1>4 DEF Victim
  <2>2. FreeListAfterVictim = Tail(free_list) /\ LRUAfterVictim = LRUlist
    BY <1>4 DEF FreeListAfterVictim, LRUAfterVictim
  <2>3. /\ Victim \in Range(free_list)
        /\ FreeListAfterVictim \in Seq(Frame)
        /\ IsInjective(FreeListAfterVictim)
        /\ Range(FreeListAfterVictim) = Range(free_list) \ {Victim}
    BY <1>1, <1>4, <2>1, <2>2, PopFront
  <2>4. pages[Victim].pin_count = 0
    BY <2>3 DEF Inv, VictimsUnused
  <2>5. QED
    BY <1>1, <1>2, <1>3, <2>2, <2>3, <2>4
<1>5. CASE free_list = << >>
  <2>1. Victim = Head(LRUlist) /\ LRUlist # << >>
    BY <1>5 DEF Victim, VictimFrame, CanFindVictim, HasVictim
  <2>2. FreeListAfterVictim = free_list /\ LRUAfterVictim = Tail(LRUlist)
    BY <1>5 DEF FreeListAfterVictim, LRUAfterVictim, VictimRest
  <2>3. /\ Victim \in Range(LRUlist)
        /\ LRUAfterVictim \in Seq(Frame)
        /\ IsInjective(LRUAfterVictim)
        /\ Range(LRUAfterVictim) = Range(LRUlist) \ {Victim}
    BY <1>1, <2>1, <2>2, PopFront
  <2>4. pages[Victim].pin_count = 0
    BY <2>3 DEF Inv, VictimsUnused
  <2>5. QED
    BY <1>1, <1>2, <1>3, <2>2, <2>3, <2>4
<1>6. QED
  BY <1>4, <1>5

(***************************************************************************)
(* update_page keeps the page table and the frames in agreement, provided  *)
(* the new page is not cached yet.                                         *)
(***************************************************************************)
LEMMA RemapKeepsSync ==
  ASSUME Inv, NEW f \in Frame, NEW new \in PageId \cup {InvalidPage},
         Lookup(new) = NoFrame,
         NEW r \in Page, r.id = new,
         page_table' = Remap(f, new),
         pages' = [pages EXCEPT ![f] = r]
  PROVE  /\ page_table' \in [PageId -> Frame \cup {NoFrame}]
         /\ pages' \in [Frame -> Page]
         /\ PageTableSync'
<1>1. /\ page_table \in [PageId -> Frame \cup {NoFrame}]
      /\ pages \in [Frame -> Page]
      /\ PageTableSync
  BY DEF Inv, TypeOK
<1>2. page_table' \in [PageId -> Frame \cup {NoFrame}]
  BY <1>1 DEF Remap
<1>3. pages' \in [Frame -> Page]
  BY <1>1
<1>4. ASSUME NEW p \in PageId, NEW g \in Frame
      PROVE  page_table'[p] = g <=> pages'[g].id = p
  <2>1. page_table[p] = g <=> pages[g].id = p
    BY <1>1 DEF PageTableSync
  <2>2. page_table[p] = f <=> pages[f].id = p
    BY <1>1 DEF PageTableSync
  <2>3. page_table'[p] = IF p = new THEN f
                         ELSE IF p = pages[f].id THEN NoFrame ELSE page_table[p]
    BY DEF Remap
  <2>4. pages'[g].id = IF g = f THEN new ELSE pages[g].id
    BY <1>1
  <2>5. p = new => page_table[p] = NoFrame
    BY DEF Lookup
  <2>6. QED
    BY <2>1, <2>2, <2>3, <2>4, <2>5, Sentinels
<1>5. QED
  BY <1>2, <1>3, <1>4 DEF PageTableSync

(***************************************************************************)
(* A remapped frame had no holder, so every client still holds the frame   *)
(* its page is mapped to.                                                  *)
(***************************************************************************)
LEMMA RemapKeepsHeld ==
  ASSUME Inv, NEW f \in Frame, pages[f].pin_count = 0,
         NEW new \in PageId \cup {InvalidPage}, Lookup(new) = NoFrame,
         page_table' = Remap(f, new),
         NEW c \in Client, held[c] # NoHold
  PROVE  /\ held[c].page \in PageId
         /\ page_table'[held[c].page] = held[c].frame
         /\ held[c].frame \in Frame \ {f}
<1>1. /\ held[c].page \in PageId
      /\ page_table[held[c].page] = held[c].frame
      /\ held[c].frame \in Frame
  BY DEF Inv, PinsAreHolders, HoldsFrame
<1>2. held[c].frame # f
  BY UnpinnedHasNoHolder
<1>3. held[c].page # pages[f].id
  BY <1>1, <1>2 DEF Inv, PageTableSync
<1>4. held[c].page # new
  BY <1>1, Sentinels DEF Lookup
<1>5. QED
  BY <1>1, <1>2, <1>3, <1>4 DEF Remap

(***************************************************************************)
(* The lists after a victim was taken hold the unpinned frames they held,  *)
(* without the victim: whatever happens to the victim's metadata, the      *)
(* other frames keep theirs and VictimsUnused holds.                       *)
(***************************************************************************)
LEMMA VictimsUnusedAfterVictim ==
  ASSUME Inv, CanFindVictim,
         free_list' = FreeListAfterVictim,
         LRUlist' = LRUAfterVictim \/ LRUlist' = ReplacerPin(LRUAfterVictim, Victim),
         \A g \in Frame \ {Victim} : pages'[g] = pages[g]
  PROVE  /\ VictimsUnused'
         /\ free_list' \in Seq(Frame)
         /\ LRUlist' \in Seq(Frame)
<1>1. /\ Victim \in Frame
      /\ FreeListAfterVictim \in Seq(Frame)
      /\ LRUAfterVictim \in Seq(Frame)
      /\ IsInjective(FreeListAfterVictim)
      /\ IsInjective(LRUAfterVictim)
      /\ Range(FreeListAfterVictim) = Range(free_list) \ {Victim}
      /\ Range(LRUAfterVictim) = Range(LRUlist) \ {Victim}
  BY VictimProperties
<1>2. /\ LRUlist' \in Seq(Frame)
      /\ IsInjective(LRUlist')
      /\ Range(LRUlist') = Range(LRUlist) \ {Victim}
  BY <1>1, PinRemoves
<1>3. Range(free_list) \subseteq Frame /\ Range(LRUlist) \subseteq Frame
  BY DEF Inv, TypeOK, Range
<1>4. /\ \A f \in Range(free_list) : pages[f].id = InvalidPage /\ pages[f].pin_count = 0
      /\ \A f \in Range(LRUlist) : pages[f].id # InvalidPage /\ pages[f].pin_count = 0
  BY DEF Inv, VictimsUnused
<1>5. /\ \A f \in Range(free_list') : pages'[f].id = InvalidPage /\ pages'[f].pin_count = 0
      /\ \A f \in Range(LRUlist') : pages'[f].id # InvalidPage /\ pages'[f].pin_count = 0
  BY <1>1, <1>2, <1>3, <1>4
<1>6. QED
  BY <1>1, <1>2, <1>5 DEF VictimsUnused

\* write_page writes pages of the type it is given.
LEMMA WriteBackType ==
  ASSUME TypeOK, NEW f \in Frame
  PROVE  WriteBack(f) \in [PageId -> Data \cup {Absent}]
  BY PoolAssumption DEF TypeOK, WriteBack, write_page, Page

(***************************************************************************)
(* Steps that remap the victim: a page is brought in for client c.         *)
(***************************************************************************)
LEMMA BringIn ==
  ASSUME Inv, CanFindVictim, NEW c \in Client, held[c] = NoHold,
         NEW p \in PageId, Lookup(p) = NoFrame, allocated(p)',
         NEW v \in Data, NEW d \in BOOLEAN,
         fd2pageno' \in [Fd -> 0..MaxPages],
         \A q \in PageId : allocated(q) => allocated(q)',
         disk' = WriteBack(Victim),
         page_table' = Remap(Victim, p),
         pages' = [pages EXCEPT ![Victim] =
                     [id |-> p, data |-> v, is_dirty |-> FALSE, pin_count |-> 1]],
         free_list' = FreeListAfterVictim,
         LRUlist' = ReplacerPin(LRUAfterVictim, Victim),
         held' = [held EXCEPT ![c] = [frame |-> Victim, page |-> p, dirty |-> d]],
         io_errors' = io_errors
  PROVE  Inv'
<1> DEFINE f == Victim
           h == [frame |-> f, page |-> p, dirty |-> d]
           r == [id |-> p, data |-> v, is_dirty |-> FALSE, pin_count |-> 1]
<1>1. f \in Frame /\ pages[f].pin_count = 0
  BY VictimProperties
<1> HIDE DEF f
<1>2. h \in Hold /\ r \in Page
  BY <1>1 DEF Hold, Page
<1>3. page_table' \in [PageId -> Frame \cup {NoFrame}]
      /\ pages' \in [Frame -> Page] /\ PageTableSync'
  <2>1. r.id = p
    OBVIOUS
  <2>2. QED
    BY <1>1, <1>2, <2>1, RemapKeepsSync DEF f
<1>4. VictimsUnused' /\ free_list' \in Seq(Frame) /\ LRUlist' \in Seq(Frame)
  <2>1. \A g \in Frame \ {Victim} : pages'[g] = pages[g]
    BY DEF Inv, TypeOK
  <2>2. QED
    BY <2>1, VictimsUnusedAfterVictim
<1>5. TypeOK'
  <2>1. held' \in [Client -> Hold]
    BY <1>2 DEF Inv, TypeOK, f
  <2>2. disk' \in [PageId -> Data \cup {Absent}]
    BY <1>1, WriteBackType DEF Inv, f
  <2>3. io_errors' \in 0..MaxIOErrors
    BY DEF Inv, TypeOK
  <2>4. QED
    BY <1>3, <1>4, <2>1, <2>2, <2>3 DEF TypeOK
<1>6. ASSUME NEW e \in Client, held'[e] # NoHold
      PROVE  /\ held'[e].frame \in Frame
             /\ held'[e].page \in PageId
             /\ page_table'[held'[e].page] = held'[e].frame
  <2>1. CASE e = c
    <3>1. held'[e] = h
      BY <2>1 DEF Inv, TypeOK, f
    <3>2. page_table'[p] = f
      BY DEF Remap, f
    <3>3. QED
      BY <1>1, <3>1, <3>2
  <2>2. CASE e # c
    <3>1. held'[e] = held[e]
      BY <2>2 DEF Inv, TypeOK
    <3>2. QED
      BY <1>1, <1>6, <3>1, RemapKeepsHeld DEF f
  <2>3. QED
    BY <2>1, <2>2
<1>7. ASSUME NEW g \in Frame
      PROVE  pages'[g].pin_count = Cardinality(Holders(g)')
  <2>1. Cardinality(Holders(g)') = Cardinality(Holders(g)) + (IF g = h.frame THEN 1 ELSE 0)
    BY <1>1, <1>2, HoldersAfterFetch DEF Inv, TypeOK, f
  <2>2. pages[g].pin_count = Cardinality(Holders(g))
    BY DEF Inv, PinsAreHolders
  <2>3. pages'[g].pin_count = IF g = f THEN 1 ELSE pages[g].pin_count
    BY <1>1 DEF Inv, TypeOK, f
  <2>4. pages[g].pin_count \in Nat
    BY DEF Inv, TypeOK, Page
  <2>5. QED
    BY <1>1, <2>1, <2>2, <2>3, <2>4
<1>8. PinsAreHolders' /\ HoldsFrame'
  BY <1>6, <1>7 DEF PinsAreHolders, HoldsFrame
<1>9. CachedIsAllocated'
  BY DEF CachedIsAllocated, Inv, Remap
<1>10. QED
  BY <1>3, <1>4, <1>5, <1>8, <1>9 DEF Inv

\* A miss of fetch_page brings in a page that no frame caches.
LEMMA FetchMissKeepsInv ==
  ASSUME Inv, NEW c \in Client, NEW p \in PageId,
         held[c] = NoHold, allocated(p), FetchMiss(c, p)
  PROVE  Inv'
<1>1. Victim \in Frame
  BY VictimProperties DEF FetchMiss
<1>2. WriteBack(Victim)[p] \in Data
  BY <1>1, WriteBackType DEF FetchMiss, Inv
<1>3. /\ fd2pageno' \in [Fd -> 0..MaxPages]
      /\ \A q \in PageId : allocated(q) => allocated(q)'
  BY DEF FetchMiss, Inv, TypeOK, allocated
<1>4. QED
  BY <1>2, <1>3, BringIn DEF FetchMiss

\* new_page brings in a page whose number was never handed out before.
LEMMA NewPageKeepsInv ==
  ASSUME Inv, NEW c \in Client, NEW fd \in Fd,
         held[c] = NoHold, fd2pageno[fd] < MaxPages, CanFindVictim, NewPage(c, fd)
  PROVE  Inv'
<1>1. fd2pageno \in [Fd -> 0..MaxPages] /\ MaxPages \in Nat
  BY PoolAssumption DEF Inv, TypeOK
<1>2. fd2pageno[fd] \in 0..MaxPages-1
  BY <1>1
<1>3. <<fd, fd2pageno[fd]>> \in PageId
  BY <1>2 DEF PageId
<1> PICK p \in PageId : p = <<fd, fd2pageno[fd]>>
  BY <1>3
<1>4. fd2pageno' = [fd2pageno EXCEPT ![fd] = @ + 1]
  BY DEF NewPage
<1>5. fd2pageno' \in [Fd -> 0..MaxPages]
  BY <1>1, <1>2, <1>4
<1>6. ~allocated(p) /\ allocated(p)'
  BY <1>1, <1>2, <1>4 DEF allocated
<1>7. \A q \in PageId : allocated(q) => allocated(q)'
  BY <1>1, <1>4 DEF allocated, PageId
<1>8. Lookup(p) = NoFrame
  BY <1>6 DEF Lookup, Inv, CachedIsAllocated
<1>9. /\ pages' = [pages EXCEPT ![Victim] =
                     [id |-> p, data |-> Zero, is_dirty |-> FALSE, pin_count |-> 1]]
      /\ disk' = WriteBack(Victim)
      /\ page_table' = Remap(Victim, p)
      /\ free_list' = FreeListAfterVictim
      /\ LRUlist' = ReplacerPin(LRUAfterVictim, Victim)
      /\ held' = [held EXCEPT ![c] = [frame |-> Victim, page |-> p, dirty |-> TRUE]]
      /\ io_errors' = io_errors
  BY DEF NewPage
<1>10. Zero \in Data
  BY PoolAssumption
<1>11. QED
  BY <1>5, <1>6, <1>7, <1>8, <1>9, <1>10, BringIn

(***************************************************************************)
(* A hit: the frame leaves the replacer, if it was there, and gains a pin. *)
(***************************************************************************)
LEMMA FetchHitKeepsInv ==
  ASSUME Inv, NEW c \in Client, NEW p \in PageId, held[c] = NoHold, FetchHit(c, p)
  PROVE  Inv'
<1> DEFINE f == page_table[p]
           h == [frame |-> f, page |-> p, dirty |-> FALSE]
<1>1. /\ f \in Frame
      /\ pages' = [pages EXCEPT ![f].pin_count = @ + 1]
      /\ LRUlist' = ReplacerPin(LRUlist, f)
      /\ held' = [held EXCEPT ![c] = h]
      /\ UNCHANGED <<page_table, free_list, fd2pageno, disk, io_errors>>
  BY DEF FetchHit, Lookup, Inv, TypeOK
<1>2. TypeOK /\ VictimsUnused
  BY DEF Inv
<1>3. h \in Hold
  BY <1>1 DEF Hold
<1>4. pages \in [Frame -> Page] /\ pages[f] \in Page
  BY <1>1, <1>2 DEF TypeOK
<1>5. \A g \in Frame : /\ pages'[g].id = pages[g].id
                        /\ pages'[g].pin_count =
                             pages[g].pin_count + (IF g = f THEN 1 ELSE 0)
  BY <1>1, <1>4 DEF Page
<1>6. pages' \in [Frame -> Page]
  BY <1>1, <1>4 DEF Page
<1>7. /\ LRUlist' \in Seq(Frame)
      /\ IsInjective(LRUlist')
      /\ Range(LRUlist') = Range(LRUlist) \ {f}
  BY <1>1, <1>2, PinRemoves DEF TypeOK, VictimsUnused
<1>8. TypeOK'
  BY <1>1, <1>2, <1>3, <1>6, <1>7 DEF TypeOK
<1>9. PageTableSync'
  BY <1>1, <1>5 DEF PageTableSync, Inv
<1>10. pages[f].id = p
  BY <1>1 DEF Inv, PageTableSync
<1>11. VictimsUnused'
  <2>1. Range(free_list) \subseteq Frame /\ Range(LRUlist) \subseteq Frame
    BY <1>2 DEF TypeOK, Range
  <2>2. f \notin Range(free_list)
    BY <1>2, <1>10, Sentinels DEF VictimsUnused
  <2>3. \A g \in Frame : pages[g].pin_count \in Nat
    BY <1>4 DEF Page
  <2>4. QED
    BY <1>1, <1>2, <1>5, <1>7, <2>1, <2>2, <2>3 DEF VictimsUnused
<1>12. ASSUME NEW e \in Client, held'[e] # NoHold
       PROVE  /\ held'[e].frame \in Frame
              /\ held'[e].page \in PageId
              /\ page_table'[held'[e].page] = held'[e].frame
  <2>1. held'[e] = IF e = c THEN h ELSE held[e]
    BY <1>1, <1>2 DEF TypeOK
  <2>2. QED
    BY <1>1, <1>12, <2>1 DEF Inv, PinsAreHolders, HoldsFrame
<1>13. ASSUME NEW g \in Frame
       PROVE  pages'[g].pin_count = Cardinality(Holders(g)')
  <2>1. Cardinality(Holders(g)') = Cardinality(Holders(g)) + (IF g = h.frame THEN 1 ELSE 0)
    <3>1. held \in [Client -> Hold] /\ h.frame \in Frame
      BY <1>1, <1>2 DEF TypeOK
    <3>2. QED
      BY <1>1, <1>3, <3>1, HoldersAfterFetch
  <2>2. pages[g].pin_count = Cardinality(Holders(g))
    BY DEF Inv, PinsAreHolders
  <2>3. QED
    BY <1>5, <2>1, <2>2
<1>14. PinsAreHolders' /\ HoldsFrame'
  BY <1>12, <1>13 DEF PinsAreHolders, HoldsFrame
<1>15. CachedIsAllocated'
  BY <1>1 DEF CachedIsAllocated, Inv, allocated
<1>16. QED
  BY <1>8, <1>9, <1>11, <1>14, <1>15 DEF Inv

(***************************************************************************)
(* read_page throws: the victim is mapped to p, unpinned, in no list.      *)
(***************************************************************************)
LEMMA FetchReadThrowsKeepsInv ==
  ASSUME Inv, NEW p \in PageId, allocated(p), FetchReadThrows(p)
  PROVE  Inv'
<1> DEFINE f == Victim
<1>1. CanFindVictim /\ Lookup(p) = NoFrame
  BY DEF FetchReadThrows
<1>2. f \in Frame /\ pages[f].pin_count = 0
  BY <1>1, VictimProperties
<1>3. /\ disk' = WriteBack(f)
      /\ page_table' = Remap(f, p)
      /\ pages' = [pages EXCEPT ![f] = ResetPage(p)]
      /\ free_list' = FreeListAfterVictim
      /\ LRUlist' = LRUAfterVictim
      /\ fd2pageno' = fd2pageno
      /\ held' = held
      /\ io_errors' = io_errors \/ (io_errors < MaxIOErrors /\ io_errors' = io_errors + 1)
  BY DEF FetchReadThrows, IOError
<1> HIDE DEF f
<1>4. ResetPage(p) \in Page /\ ResetPage(p).id = p /\ ResetPage(p).pin_count = 0
  BY PoolAssumption DEF ResetPage, Page
<1>5. /\ page_table' \in [PageId -> Frame \cup {NoFrame}]
      /\ pages' \in [Frame -> Page]
      /\ PageTableSync'
  BY <1>1, <1>2, <1>3, <1>4, RemapKeepsSync
<1>6. \A g \in Frame \ {f} : pages'[g] = pages[g]
  BY <1>3 DEF Inv, TypeOK
<1>7. VictimsUnused' /\ free_list' \in Seq(Frame) /\ LRUlist' \in Seq(Frame)
  BY <1>1, <1>3, <1>6, VictimsUnusedAfterVictim DEF f
<1>8. TypeOK'
  <2>1. disk' \in [PageId -> Data \cup {Absent}]
    BY <1>2, <1>3, WriteBackType DEF Inv
  <2>2. io_errors' \in 0..MaxIOErrors
    BY <1>3, PoolAssumption DEF Inv, TypeOK
  <2>3. QED
    BY <1>3, <1>5, <1>7, <2>1, <2>2 DEF Inv, TypeOK
<1>9. \A g \in Frame : Holders(g)' = Holders(g)
  BY <1>3 DEF Holders
<1>10. \A g \in Frame : pages'[g].pin_count = pages[g].pin_count
  BY <1>2, <1>3, <1>4, <1>6 DEF Inv, TypeOK
<1>11. PinsAreHolders' /\ HoldsFrame'
  <2>1. \A c \in Client : held'[c] # NoHold =>
           /\ held'[c].page \in PageId
           /\ page_table'[held'[c].page] = held'[c].frame
           /\ held'[c].frame \in Frame
    BY <1>1, <1>2, <1>3, RemapKeepsHeld
  <2>2. \A g \in Frame : pages'[g].pin_count = Cardinality(Holders(g)')
    BY <1>9, <1>10 DEF Inv, PinsAreHolders
  <2>3. QED
    BY <2>1, <2>2 DEF PinsAreHolders, HoldsFrame
<1>12. CachedIsAllocated'
  BY <1>3 DEF CachedIsAllocated, Inv, Remap, allocated
<1>13. QED
  BY <1>5, <1>7, <1>8, <1>11, <1>12 DEF Inv

(***************************************************************************)
(* write_page throws in update_page: only the lists lose the victim, and   *)
(* new_page has already taken a page number.                               *)
(***************************************************************************)
LEMMA VictimLostKeepsInv ==
  ASSUME Inv, CanFindVictim, IOError,
         free_list' = FreeListAfterVictim,
         LRUlist' = LRUAfterVictim,
         fd2pageno' \in [Fd -> 0..MaxPages],
         \A q \in PageId : allocated(q) => allocated(q)',
         UNCHANGED <<pages, page_table, disk, held>>
  PROVE  Inv'
<1>1. VictimsUnused' /\ free_list' \in Seq(Frame) /\ LRUlist' \in Seq(Frame)
  BY VictimsUnusedAfterVictim
<1>2. io_errors' \in 0..MaxIOErrors
  BY PoolAssumption DEF IOError, Inv, TypeOK
<1>3. TypeOK'
  BY <1>1, <1>2 DEF Inv, TypeOK
<1>4. PageTableSync' /\ PinsAreHolders' /\ HoldsFrame'
  BY DEF Inv, PageTableSync, PinsAreHolders, HoldsFrame, Holders
<1>5. CachedIsAllocated'
  BY DEF Inv, CachedIsAllocated
<1>6. QED
  BY <1>1, <1>3, <1>4, <1>5 DEF Inv

(***************************************************************************)
(* Steps that change neither the mapping nor the pins nor the lists: a     *)
(* flush, and a write through a client's pointer.                          *)
(***************************************************************************)
LEMMA ContentsOnlyKeepsInv ==
  ASSUME Inv, TypeOK',
         \A f \in Frame : pages'[f].id = pages[f].id
                         /\ pages'[f].pin_count = pages[f].pin_count,
         \A c \in Client : held'[c].frame = held[c].frame
                          /\ held'[c].page = held[c].page
                          /\ (held'[c] # NoHold => held[c] # NoHold),
         UNCHANGED <<page_table, free_list, LRUlist, fd2pageno>>
  PROVE  Inv'
<1>1. PageTableSync'
  BY DEF Inv, PageTableSync
<1>2. \A f \in Frame : Holders(f)' = Holders(f)
  BY DEF Holders
<1>3. PinsAreHolders' /\ HoldsFrame'
  BY <1>2 DEF Inv, PinsAreHolders, HoldsFrame
<1>4. Range(free_list) \subseteq Frame /\ Range(LRUlist) \subseteq Frame
  BY DEF Inv, TypeOK, Range
<1>5. VictimsUnused'
  BY <1>4 DEF Inv, VictimsUnused
<1>6. CachedIsAllocated'
  BY DEF Inv, CachedIsAllocated, allocated
<1>7. QED
  BY <1>1, <1>3, <1>5, <1>6 DEF Inv

\* A flush writes pages and clears their dirty marks, and no more.
LEMMA FlushKeepsInv ==
  ASSUME Inv, NEW S \in SUBSET PageId,
         \A p \in S : page_table[p] # NoFrame,
         FlushPages(S), io_errors' \in 0..MaxIOErrors
  PROVE  Inv'
<1>1. pages \in [Frame -> Page] /\ disk \in [PageId -> Data \cup {Absent}]
  BY DEF Inv, TypeOK
<1>2. \A f \in Frame : [pages[f] EXCEPT !.is_dirty = FALSE] \in Page
  BY <1>1 DEF Page
<1>3. pages' \in [Frame -> Page]
  BY <1>1, <1>2 DEF FlushPages
<1>4. \A f \in Frame : pages'[f].id = pages[f].id
                       /\ pages'[f].pin_count = pages[f].pin_count
  BY <1>1 DEF FlushPages, Page
<1>5. \A p \in S : pages[page_table[p]].data \in Data
  BY <1>1 DEF Inv, TypeOK, Page
<1>6. disk' \in [PageId -> Data \cup {Absent}]
  BY <1>1, <1>5, PoolAssumption DEF FlushPages, write_pages
<1>7. TypeOK'
  BY <1>3, <1>6 DEF FlushPages, Inv, TypeOK
<1>8. QED
  BY <1>4, <1>7, ContentsOnlyKeepsInv DEF FlushPages

\* A write through the pointer a client holds changes its frame only.
LEMMA WriteDataKeepsInv ==
  ASSUME Inv, NEW c \in Client, NEW v \in Data, WriteData(c, v)
  PROVE  Inv'
<1> DEFINE f == held[c].frame
<1>1. f \in Frame
  BY DEF WriteData, Inv, HoldsFrame
<1>2. pages \in [Frame -> Page] /\ held \in [Client -> Hold]
  BY DEF Inv, TypeOK
<1>3. pages' = [pages EXCEPT ![f].data = v] /\ held' = [held EXCEPT ![c].dirty = TRUE]
  BY DEF WriteData
<1>4. pages' \in [Frame -> Page]
  BY <1>1, <1>2, <1>3 DEF Page
<1>5. held' \in [Client -> Hold]
  BY <1>2, <1>3 DEF Hold
<1>6. TypeOK'
  BY <1>4, <1>5 DEF WriteData, Inv, TypeOK
<1>7. \A g \in Frame : pages'[g].id = pages[g].id
                       /\ pages'[g].pin_count = pages[g].pin_count
  BY <1>1, <1>2, <1>3 DEF Page
<1>8. \A e \in Client : held'[e].frame = held[e].frame
                        /\ held'[e].page = held[e].page
                        /\ (held'[e] # NoHold => held[e] # NoHold)
  BY <1>2, <1>3 DEF WriteData, Hold
<1>9. QED
  BY <1>6, <1>7, <1>8, ContentsOnlyKeepsInv DEF WriteData

(***************************************************************************)
(* unpin_page finds the caller's frame, whose pin count is not 0 because   *)
(* the caller holds it; the last holder makes the frame evictable.         *)
(***************************************************************************)
LEMMA UnpinKeepsInv ==
  ASSUME Inv, NEW c \in Client, unpin_page(c)
  PROVE  Inv'
<1> DEFINE f == held[c].frame
           n == pages[f].pin_count - 1
<1>1. TypeOK /\ VictimsUnused /\ PinsAreHolders
  BY DEF Inv
<1>2. /\ held[c] # NoHold
      /\ f \in Frame
      /\ held[c].page \in PageId
      /\ page_table[held[c].page] = f
  BY DEF unpin_page, Inv, HoldsFrame, PinsAreHolders
<1>3. pages[f].id = held[c].page
  BY <1>2 DEF Inv, PageTableSync
<1>4. Lookup(pages[f].id) = f
  BY <1>2, <1>3 DEF Lookup
<1>5. c \in Holders(f)
  BY DEF Holders
<1>6. n \in Nat
  <2>1. Cardinality(Holders(f)) # 0
    BY <1>5, HoldersFinite, FS_EmptySet
  <2>2. pages[f].pin_count = Cardinality(Holders(f)) /\ pages[f].pin_count \in Nat
    BY <1>1, <1>2, HoldersFinite DEF PinsAreHolders
  <2>3. QED
    BY <2>1, <2>2
<1>7. f # NoFrame /\ ~(n < 0)
  BY <1>2, <1>6, Sentinels
<1>8. /\ held' = [held EXCEPT ![c] = NoHold]
      /\ pages' = [pages EXCEPT ![f].is_dirty = @ \/ held[c].dirty,
                               ![f].pin_count = n]
      /\ LRUlist' = IF n = 0 THEN ReplacerUnpin(LRUlist, f, PoolSize) ELSE LRUlist
      /\ UNCHANGED <<page_table, free_list, fd2pageno, disk, io_errors>>
  BY <1>4, <1>7 DEF unpin_page, DirtyAfterUnpin
<1>9. pages \in [Frame -> Page] /\ held \in [Client -> Hold]
  BY <1>1 DEF TypeOK
<1>10. pages' \in [Frame -> Page]
  <2>1. held[c].dirty \in BOOLEAN /\ pages[f].is_dirty \in BOOLEAN
    BY <1>2, <1>9 DEF Hold, Page
  <2>2. (pages[f].is_dirty \/ held[c].dirty) \in BOOLEAN
    BY <2>1
  <2>3. QED
    BY <1>2, <1>6, <1>8, <1>9, <2>2 DEF Page
<1>11. \A g \in Frame : /\ pages'[g].id = pages[g].id
                         /\ pages'[g].pin_count = IF g = f THEN n ELSE pages[g].pin_count
  BY <1>2, <1>8, <1>9 DEF Page
<1> HIDE DEF n
<1>12. f \notin Range(LRUlist)
  BY <1>1, <1>6 DEF VictimsUnused, n
<1>13. /\ LRUlist' \in Seq(Frame)
       /\ IsInjective(LRUlist')
       /\ Range(LRUlist') \subseteq Range(LRUlist) \cup (IF n = 0 THEN {f} ELSE {})
  <2>1. LRUlist \in Seq(Frame) /\ IsInjective(LRUlist)
    BY <1>1 DEF TypeOK, VictimsUnused
  <2>2. CASE LRUlist' = LRUlist
    BY <2>1, <2>2
  <2>3. CASE n = 0 /\ LRUlist' = Append(LRUlist, f)
    BY <1>2, <1>12, <2>1, <2>3, PushBack
  <2>4. QED
    BY <1>8, <2>2, <2>3 DEF ReplacerUnpin
<1>14. NoHold \in Hold
  BY DEF NoHold, Hold
<1>15. TypeOK'
  BY <1>1, <1>8, <1>9, <1>10, <1>13, <1>14 DEF TypeOK
<1>16. PageTableSync'
  <2>1. page_table' = page_table
    BY <1>8
  <2>2. \A g \in Frame : pages'[g].id = pages[g].id
    BY <1>11
  <2>3. QED
    BY <2>1, <2>2 DEF Inv, PageTableSync
<1>17. VictimsUnused'
  <2>1. f \notin Range(free_list)
    BY <1>1, <1>6 DEF VictimsUnused, n
  <2>2. pages[f].id # InvalidPage
    BY <1>2, <1>3, Sentinels
  <2>3. Range(free_list) \subseteq Frame /\ Range(LRUlist) \subseteq Frame
    BY <1>1 DEF TypeOK, Range
  <2>4. \A g \in Range(free_list) : pages'[g].id = InvalidPage /\ pages'[g].pin_count = 0
    BY <1>1, <1>11, <2>1, <2>3 DEF VictimsUnused
  <2>5. \A g \in Range(LRUlist') : pages'[g].id # InvalidPage /\ pages'[g].pin_count = 0
    BY <1>1, <1>2, <1>11, <1>12, <1>13, <2>2, <2>3 DEF VictimsUnused
  <2>6. QED
    BY <1>1, <1>8, <1>13, <2>4, <2>5 DEF VictimsUnused
<1>18. PinsAreHolders' /\ HoldsFrame'
  <2>1. ASSUME NEW g \in Frame
        PROVE  pages'[g].pin_count = Cardinality(Holders(g)')
    <3>1. Cardinality(Holders(g)') = Cardinality(Holders(g)) - (IF g = f THEN 1 ELSE 0)
      BY <1>2, <1>8, <1>9, HoldersAfterUnpin
    <3>2. pages[g].pin_count = Cardinality(Holders(g)) /\ pages[g].pin_count \in Nat
      BY <1>1, HoldersFinite DEF PinsAreHolders
    <3>3. QED
      BY <1>11, <3>1, <3>2 DEF n
  <2>2. \A e \in Client : held'[e] # NoHold => held'[e] = held[e]
    BY <1>8, <1>9
  <2>3. QED
    BY <1>1, <1>8, <2>1, <2>2 DEF Inv, PinsAreHolders, HoldsFrame
<1>19. CachedIsAllocated'
  BY <1>8 DEF Inv, CachedIsAllocated, allocated
<1>20. QED
  BY <1>15, <1>16, <1>17, <1>18, <1>19 DEF Inv

(***************************************************************************)
(* delete_page moves an unpinned frame from the replacer to the free list. *)
(***************************************************************************)
LEMMA DeleteKeepsInv ==
  ASSUME Inv, NEW p \in PageId, delete_page(p)
  PROVE  Inv'
<1> DEFINE f == page_table[p]
<1>1. TypeOK /\ VictimsUnused
  BY DEF Inv
<1>2. f \in Frame /\ pages[f].pin_count = 0 /\ Lookup(p) = f
  BY <1>1 DEF delete_page, Lookup, TypeOK
<1>3. pages[f].id = p
  BY <1>2 DEF Inv, PageTableSync
<1>4. /\ LRUlist' = ReplacerPin(LRUlist, f)
      /\ fd2pageno' = fd2pageno
      /\ held' = held
  BY <1>2 DEF delete_page
<1>5. /\ LRUlist' \in Seq(Frame)
      /\ IsInjective(LRUlist')
      /\ Range(LRUlist') = Range(LRUlist) \ {f}
  BY <1>1, <1>4, PinRemoves DEF TypeOK, VictimsUnused
<1>6. Range(free_list) \subseteq Frame /\ Range(LRUlist) \subseteq Frame
  <2>1. free_list \in Seq(Frame) /\ LRUlist \in Seq(Frame)
    BY <1>1 DEF TypeOK
  <2>2. QED
    BY <2>1 DEF Range
<1>7. CASE /\ MustWriteBack(f)
           /\ IOError
           /\ UNCHANGED <<disk, page_table, pages, free_list>>
  <2>1. io_errors' \in 0..MaxIOErrors
    BY <1>1, <1>7, PoolAssumption DEF IOError, TypeOK
  <2>2. TypeOK'
    BY <1>1, <1>4, <1>5, <1>7, <2>1 DEF TypeOK
  <2>3. VictimsUnused'
    BY <1>1, <1>5, <1>7 DEF VictimsUnused
  <2>4. PageTableSync' /\ PinsAreHolders' /\ HoldsFrame'
    BY <1>4, <1>7 DEF Inv, PageTableSync, PinsAreHolders, HoldsFrame, Holders
  <2>5. CachedIsAllocated'
    BY <1>4, <1>7 DEF Inv, CachedIsAllocated, allocated
  <2>6. QED
    BY <2>2, <2>3, <2>4, <2>5 DEF Inv
<1>8. CASE /\ disk' = WriteBack(f)
           /\ page_table' = Remap(f, InvalidPage)
           /\ pages' = [pages EXCEPT ![f] = ResetPage(InvalidPage)]
           /\ free_list' = Append(free_list, f)
           /\ UNCHANGED io_errors
  <2>1. /\ ResetPage(InvalidPage) \in Page
        /\ ResetPage(InvalidPage).id = InvalidPage
        /\ ResetPage(InvalidPage).pin_count = 0
    BY PoolAssumption DEF ResetPage, Page
  <2>2. Lookup(InvalidPage) = NoFrame
    BY Sentinels DEF Lookup
  <2>3. /\ page_table' \in [PageId -> Frame \cup {NoFrame}]
        /\ pages' \in [Frame -> Page]
        /\ PageTableSync'
    BY <1>2, <1>8, <2>1, <2>2, RemapKeepsSync
  <2>4. /\ free_list' \in Seq(Frame)
        /\ IsInjective(free_list')
        /\ Range(free_list') = Range(free_list) \cup {f}
    <3>1. f \notin Range(free_list)
      BY <1>1, <1>3, Sentinels DEF VictimsUnused
    <3>2. QED
      BY <1>1, <1>2, <1>8, <3>1, PushBack DEF TypeOK, VictimsUnused
  <2>5. TypeOK'
    BY <1>1, <1>2, <1>4, <1>5, <1>8, <2>3, <2>4, WriteBackType DEF TypeOK
  <2>6. \A g \in Frame : pages'[g] = IF g = f THEN ResetPage(InvalidPage) ELSE pages[g]
    BY <1>1, <1>8 DEF TypeOK
  <2>7. VictimsUnused'
    BY <1>1, <1>2, <1>5, <1>6, <2>1, <2>4, <2>6 DEF VictimsUnused
  <2>8. PinsAreHolders' /\ HoldsFrame'
    <3>1. \A g \in Frame : Holders(g)' = Holders(g)
      BY <1>4 DEF Holders
    <3>2. \A g \in Frame : pages'[g].pin_count = Cardinality(Holders(g)')
      BY <1>2, <2>1, <2>6, <3>1 DEF Inv, PinsAreHolders
    <3>3. \A c \in Client : held'[c] # NoHold =>
             /\ held'[c].page \in PageId
             /\ page_table'[held'[c].page] = held'[c].frame
             /\ held'[c].frame \in Frame
      BY <1>2, <1>4, <1>8, <2>2, RemapKeepsHeld
    <3>4. QED
      BY <3>2, <3>3 DEF PinsAreHolders, HoldsFrame
  <2>9. CachedIsAllocated'
    BY <1>4, <1>8, Sentinels DEF Inv, CachedIsAllocated, allocated, Remap
  <2>10. QED
    BY <2>3, <2>5, <2>7, <2>8, <2>9 DEF Inv
<1>9. QED
  BY <1>2, <1>7, <1>8 DEF delete_page
-----------------------------------------------------------------------------
\* The constructor puts every frame on the free list, without a page.
LEMMA InitInv == Init => Inv
<1> SUFFICES ASSUME Init PROVE Inv
  OBVIOUS
<1>1. ResetPage(InvalidPage) \in Page /\ NoHold \in Hold
  BY PoolAssumption DEF ResetPage, Page, NoHold, Hold
<1>2. free_list \in Seq(Frame)
  <2>1. \A i \in 1..PoolSize : i - 1 \in Frame
    BY PoolAssumption DEF Frame
  <2>2. QED
    BY <2>1, PoolAssumption DEF Init, InitialFreeList
<1>3. TypeOK
  BY <1>1, <1>2, PoolAssumption DEF Init, TypeOK
<1>4. PageTableSync
  BY Sentinels DEF Init, PageTableSync, ResetPage
<1>5. IsInjective(free_list) /\ IsInjective(LRUlist) /\ Range(LRUlist) = {}
  BY PoolAssumption DEF Init, InitialFreeList, IsInjective, Range
<1>6. \A f \in Frame : pages[f].id = InvalidPage /\ pages[f].pin_count = 0
  BY DEF Init, ResetPage
<1>7. Range(free_list) \subseteq Frame
  BY <1>2 DEF Range
<1>8. VictimsUnused
  BY <1>5, <1>6, <1>7 DEF VictimsUnused
<1>9. PinsAreHolders /\ HoldsFrame
  <2>1. \A f \in Frame : Holders(f) = {}
    BY Sentinels DEF Init, Holders, NoHold
  <2>2. QED
    BY <1>6, <2>1, FS_EmptySet DEF Init, PinsAreHolders, HoldsFrame
<1>10. CachedIsAllocated
  BY DEF Init, CachedIsAllocated
<1>11. QED
  BY <1>3, <1>4, <1>8, <1>9, <1>10 DEF Inv

\* fetch_page keeps the invariant, whether it hits, misses or throws.
LEMMA FetchKeepsInv ==
  ASSUME Inv, NEW c \in Client, NEW p \in PageId, fetch_page(c, p)
  PROVE  Inv'
<1>1. held[c] = NoHold /\ allocated(p)
  BY DEF fetch_page
<1>2. CASE FetchHit(c, p)
  BY <1>1, <1>2, FetchHitKeepsInv
<1>3. CASE FetchMiss(c, p)
  BY <1>1, <1>3, FetchMissKeepsInv
<1>4. CASE FetchReadThrows(p)
  BY <1>1, <1>4, FetchReadThrowsKeepsInv
<1>5. CASE FetchWriteThrows(p)
  <2>1. fd2pageno' \in [Fd -> 0..MaxPages]
    BY <1>5 DEF FetchWriteThrows, Inv, TypeOK
  <2>2. \A q \in PageId : allocated(q) => allocated(q)'
    BY <1>5 DEF FetchWriteThrows, allocated
  <2>3. QED
    BY <1>5, <2>1, <2>2, VictimLostKeepsInv DEF FetchWriteThrows
<1>6. QED
  BY <1>2, <1>3, <1>4, <1>5 DEF fetch_page

\* new_page keeps the invariant, whether it returns or throws.
LEMMA NewKeepsInv ==
  ASSUME Inv, NEW c \in Client, NEW fd \in Fd, new_page(c, fd)
  PROVE  Inv'
<1>1. held[c] = NoHold /\ fd2pageno[fd] < MaxPages /\ CanFindVictim
  BY DEF new_page
<1>2. CASE NewPage(c, fd)
  BY <1>1, <1>2, NewPageKeepsInv
<1>3. CASE NewPageWriteThrows(fd)
  <2>1. fd2pageno \in [Fd -> 0..MaxPages] /\ MaxPages \in Nat
    BY PoolAssumption DEF Inv, TypeOK
  <2>2. fd2pageno' = [fd2pageno EXCEPT ![fd] = @ + 1]
    BY <1>3 DEF NewPageWriteThrows
  <2>3. fd2pageno' \in [Fd -> 0..MaxPages]
    BY <1>1, <2>1, <2>2
  <2>4. \A q \in PageId : allocated(q) => allocated(q)'
    BY <2>1, <2>2 DEF allocated, PageId
  <2>5. QED
    BY <1>1, <1>3, <2>3, <2>4, VictimLostKeepsInv DEF NewPageWriteThrows
<1>4. QED
  BY <1>2, <1>3 DEF new_page

\* flush_all_pages keeps the invariant, also when a write stops it.
LEMMA FlushAllKeepsInv ==
  ASSUME Inv, NEW fd \in Fd, flush_all_pages(fd)
  PROVE  Inv'
<1> DEFINE cached == {p \in PageId : p[1] = fd /\ Lookup(p) # NoFrame}
<1>1. PICK S \in SUBSET cached :
        FlushPages(S) /\ (UNCHANGED io_errors \/ IOError)
  BY DEF flush_all_pages
<1>2. \A p \in S : p \in PageId /\ page_table[p] # NoFrame
  BY DEF Lookup
<1>3. io_errors' \in 0..MaxIOErrors
  BY <1>1, PoolAssumption DEF IOError, Inv, TypeOK
<1>4. QED
  BY <1>1, <1>2, <1>3, FlushKeepsInv

(***************************************************************************)
(* Every operation of the pool, completed or abandoned at an I/O error,    *)
(* keeps the inductive invariant.                                          *)
(***************************************************************************)
LEMMA NextInv == Inv /\ [Next]_vars => Inv'
<1> SUFFICES ASSUME Inv, [Next]_vars PROVE Inv'
  OBVIOUS
<1>1. CASE \E c \in Client, p \in PageId : fetch_page(c, p)
  BY <1>1, FetchKeepsInv
<1>2. CASE \E c \in Client : unpin_page(c)
  BY <1>2, UnpinKeepsInv
<1>3. CASE \E c \in Client, fd \in Fd : new_page(c, fd)
  BY <1>3, NewKeepsInv
<1>4. CASE \E c \in Client, v \in Data : WriteData(c, v)
  BY <1>4, WriteDataKeepsInv
<1>5. CASE \E p \in PageId : delete_page(p)
  BY <1>5, DeleteKeepsInv
<1>6. CASE \E p \in PageId : flush_page(p)
  <2>1. PICK p \in PageId : flush_page(p)
    BY <1>6
  <2>2. {p} \in SUBSET PageId /\ \A q \in {p} : page_table[q] # NoFrame
    BY <2>1 DEF flush_page, Lookup
  <2>3. FlushPages({p}) /\ io_errors' \in 0..MaxIOErrors
    BY <2>1 DEF flush_page, Inv, TypeOK
  <2>4. QED
    BY <2>2, <2>3, FlushKeepsInv
<1>7. CASE \E fd \in Fd : flush_all_pages(fd)
  BY <1>7, FlushAllKeepsInv
<1>8. CASE UNCHANGED vars
  <2>1. TypeOK'
    BY <1>8 DEF vars, Inv, TypeOK
  <2>2. PageTableSync'
    BY <1>8 DEF vars, Inv, PageTableSync
  <2>3. PinsAreHolders'
    BY <1>8 DEF vars, Inv, PinsAreHolders, Holders
  <2>4. VictimsUnused'
    BY <1>8 DEF vars, Inv, VictimsUnused
  <2>5. CachedIsAllocated'
    BY <1>8 DEF vars, Inv, CachedIsAllocated, allocated
  <2>6. HoldsFrame'
    BY <1>8 DEF vars, Inv, HoldsFrame
  <2>7. QED
    BY <2>1, <2>2, <2>3, <2>4, <2>5, <2>6 DEF Inv
<1>9. QED
  BY <1>1, <1>2, <1>3, <1>4, <1>5, <1>6, <1>7, <1>8 DEF Next

\* Inv holds in every reachable state of the pool.
LEMMA InvHolds == Spec => []Inv
  BY InitInv, NextInv, PTL DEF Spec

(***************************************************************************)
(* The fields of the pool keep their types, whatever I/O fails.            *)
(***************************************************************************)
THEOREM PoolTypeCorrect == Spec => []TypeOK
  BY InvHolds, PTL DEF Inv

(***************************************************************************)
(* page_table_ and the ids in pages_ always agree, also after an exception *)
(* out of any read or write.                                               *)
(***************************************************************************)
THEOREM PageTableStaysInSync == Spec => []PageTableSync
  BY InvHolds, PTL DEF Inv

(***************************************************************************)
(* Pin counts count holders, and a held page stays in its frame.           *)
(***************************************************************************)
THEOREM PinnedPagesStay == Spec => []PinsAreHolders
  BY InvHolds, PTL DEF Inv

(***************************************************************************)
(* find_victim_page never returns a frame a client holds.                  *)
(***************************************************************************)
THEOREM VictimsAreUnused == Spec => []VictimsUnused
  BY InvHolds, PTL DEF Inv
=============================================================================
