--------------------------- MODULE PageStoreProofs ---------------------------
(***************************************************************************)
(* For every pool size, set of files, of clients and of page contents: as  *)
(* long as no read() or write() fails, no frame, page or update is lost,   *)
(* and the pool implements PageStore.                                      *)
(*                                                                         *)
(* The three invariants are inductive together with Inv: an eviction loses *)
(* no page because a clean frame without holders equals the page on disk,  *)
(* and a page is read back because an uncached page is on disk.            *)
(***************************************************************************)
EXTENDS BufferPoolProofs

\* The part of the inductive invariant that an I/O error may end.
DiskInv == NoFrameLost /\ UncachedOnDisk /\ CleanIsOnDisk

\* What the clients see: the variables of PageStore.
stored == [p \in PageId |-> Stored(p)]
opened == [c \in Client |-> held[c].page]
-----------------------------------------------------------------------------
\* A step after which no call has failed is not the step of a failing call.
LEMMA NoFailedCall ==
  ASSUME Inv, io_errors' = 0
  PROVE  ~IOError /\ (io_errors' = io_errors => io_errors = 0)
  BY PoolAssumption DEF Inv, TypeOK, IOError

(***************************************************************************)
(* update_page on an unpinned frame: what was on disk stays, except for    *)
(* the page of the frame, which is on disk afterwards as it was cached,    *)
(* whether or not it had to be written.                                    *)
(***************************************************************************)
LEMMA WriteBackIsSafe ==
  ASSUME Inv, CleanIsOnDisk, io_errors = 0,
         NEW f \in Frame, pages[f].pin_count = 0
  PROVE  /\ \A q \in PageId : disk[q] # Absent /\ q # pages[f].id
                                => WriteBack(f)[q] = disk[q]
         /\ pages[f].id # InvalidPage => WriteBack(f)[pages[f].id] = pages[f].data
<1>1. \A q \in PageId : disk[q] # Absent /\ q # pages[f].id
                          => WriteBack(f)[q] = disk[q]
  BY DEF WriteBack, write_page, InHole, Inv, TypeOK
<1>2. ASSUME pages[f].id # InvalidPage
      PROVE  WriteBack(f)[pages[f].id] = pages[f].data
  <2>1. pages[f].id \in PageId
    BY <1>2 DEF Inv, TypeOK, Page
  <2>2. CASE pages[f].is_dirty
    BY <1>2, <2>1, <2>2 DEF WriteBack, MustWriteBack, write_page
  <2>3. CASE ~pages[f].is_dirty
    <3>1. Holders(f) = {}
      BY UnpinnedHasNoHolder DEF Holders
    <3>2. disk[pages[f].id] = pages[f].data
      BY <1>2, <2>3, <3>1 DEF CleanIsOnDisk
    <3>3. QED
      BY <2>3, <3>2 DEF WriteBack, MustWriteBack
  <2>4. QED
    BY <2>2, <2>3
<1>3. QED
  BY <1>1, <1>2

(***************************************************************************)
(* The eviction of an unpinned frame f for a page that is not cached: the  *)
(* pages that are not cached afterwards are on disk, the clean pages of    *)
(* the other frames are still what is on disk, and no client can tell.     *)
(***************************************************************************)
LEMMA EvictionLosesNothing ==
  ASSUME Inv, DiskInv, io_errors = 0,
         NEW f \in Frame, pages[f].pin_count = 0,
         NEW new \in PageId \cup {InvalidPage}, Lookup(new) = NoFrame,
         disk' = WriteBack(f),
         page_table' = Remap(f, new),
         \A g \in Frame \ {f} : pages'[g] = pages[g]
  PROVE  /\ \A p \in PageId : allocated(p) /\ page_table'[p] = NoFrame
                                => disk'[p] # Absent
         /\ \A g \in Frame \ {f} :
              pages[g].id # InvalidPage /\ disk[pages[g].id] = pages[g].data
                => disk'[pages[g].id] = pages[g].data
         /\ \A p \in PageId : allocated(p) /\ allocated(p)' /\ p # new
                                => Stored(p)' = Stored(p)
         /\ new \in PageId /\ allocated(new)
              => WriteBack(f)[new] = Stored(new) /\ Stored(new) # Absent
<1>1. /\ pages \in [Frame -> Page]
      /\ page_table \in [PageId -> Frame \cup {NoFrame}]
      /\ PageTableSync
  BY DEF Inv, TypeOK
<1>2. \A g \in Frame : pages[g].data # Absent
  BY <1>1, PoolAssumption DEF Page
<1>3. /\ \A q \in PageId : disk[q] # Absent /\ q # pages[f].id => disk'[q] = disk[q]
      /\ pages[f].id # InvalidPage => disk'[pages[f].id] = pages[f].data
  BY WriteBackIsSafe DEF DiskInv
<1>4. \A p \in PageId : allocated(p) /\ page_table[p] = NoFrame => disk[p] # Absent
  BY DEF DiskInv, UncachedOnDisk
<1>5. \A p \in PageId : page_table'[p] = IF p = new THEN f
                          ELSE IF p = pages[f].id THEN NoFrame ELSE page_table[p]
  BY DEF Remap
<1>6. ASSUME NEW p \in PageId, allocated(p), p # new, page_table'[p] = NoFrame
      PROVE  disk'[p] = Stored(p) /\ disk'[p] # Absent
  <2>1. CASE p = pages[f].id
    <3>1. page_table[p] = f /\ pages[f].id # InvalidPage
      BY <1>1, <2>1, Sentinels DEF PageTableSync
    <3>2. Stored(p) = pages[f].data
      BY <1>6, <3>1, Sentinels DEF Stored
    <3>3. QED
      BY <1>2, <1>3, <2>1, <3>1, <3>2
  <2>2. CASE p # pages[f].id
    <3>1. page_table[p] = NoFrame
      BY <1>5, <1>6, <2>2
    <3>2. Stored(p) = disk[p]
      BY <1>6, <3>1 DEF Stored
    <3>3. QED
      BY <1>3, <1>4, <1>6, <2>2, <3>1, <3>2
  <2>3. QED
    BY <2>1, <2>2
<1>7. \A p \in PageId : allocated(p) /\ page_table'[p] = NoFrame => disk'[p] # Absent
  BY <1>5, <1>6, Sentinels
<1>8. ASSUME NEW g \in Frame \ {f}, pages[g].id # InvalidPage,
             disk[pages[g].id] = pages[g].data
      PROVE  disk'[pages[g].id] = pages[g].data
  <2>1. pages[g].id \in PageId /\ pages[g].id # pages[f].id
    BY <1>1, <1>8 DEF Page, PageTableSync
  <2>2. QED
    BY <1>2, <1>3, <1>8, <2>1
<1>9. ASSUME NEW p \in PageId, allocated(p), allocated(p)', p # new
      PROVE  Stored(p)' = Stored(p)
  <2>1. CASE page_table'[p] = NoFrame
    <3>1. Stored(p)' = disk'[p]
      BY <1>9, <2>1 DEF Stored
    <3>2. QED
      BY <1>6, <1>9, <2>1, <3>1
  <2>2. CASE page_table'[p] # NoFrame
    <3>1. page_table'[p] = page_table[p] /\ page_table[p] \in Frame /\ p # pages[f].id
      BY <1>1, <1>5, <1>9, <2>2
    <3>2. page_table[p] # f
      BY <1>1, <3>1 DEF PageTableSync
    <3>3. pages'[page_table'[p]] = pages[page_table[p]]
      BY <3>1, <3>2
    <3>4. QED
      BY <1>9, <2>2, <3>1, <3>3 DEF Stored
  <2>3. QED
    BY <2>1, <2>2
<1>10. ASSUME new \in PageId, allocated(new)
       PROVE  WriteBack(f)[new] = Stored(new) /\ Stored(new) # Absent
  <2>1. page_table[new] = NoFrame
    BY <1>10 DEF Lookup
  <2>2. new # pages[f].id
    BY <1>1, <1>10, <2>1, Sentinels DEF PageTableSync
  <2>3. Stored(new) = disk[new]
    BY <1>10, <2>1 DEF Stored
  <2>4. QED
    BY <1>3, <1>4, <1>10, <2>1, <2>2, <2>3
<1>11. QED
  BY <1>7, <1>8, <1>9, <1>10

(***************************************************************************)
(* A frame taken by find_victim_page and pinned leaves the others in the   *)
(* lists they were in.                                                     *)
(***************************************************************************)
LEMMA PinnedVictimLosesNoFrame ==
  ASSUME Inv, NoFrameLost, io_errors = 0, CanFindVictim,
         free_list' = FreeListAfterVictim,
         LRUlist' = ReplacerPin(LRUAfterVictim, Victim),
         \A g \in Frame \ {Victim} : pages'[g] = pages[g],
         pages'[Victim].pin_count = 1
  PROVE  NoFrameLost'
<1>1. /\ Victim \in Frame
      /\ Range(free_list') = Range(free_list) \ {Victim}
      /\ LRUAfterVictim \in Seq(Frame)
      /\ IsInjective(LRUAfterVictim)
      /\ Range(LRUAfterVictim) = Range(LRUlist) \ {Victim}
  BY VictimProperties
<1>2. Range(LRUlist') = Range(LRUlist) \ {Victim}
  BY <1>1, PinRemoves
<1>3. \A g \in Frame : g \in Range(free_list) \/ g \in Range(LRUlist)
                       \/ pages[g].pin_count > 0
  BY DEF NoFrameLost
<1>4. \A g \in Frame : g \in Range(free_list') \/ g \in Range(LRUlist')
                       \/ pages'[g].pin_count > 0
  BY <1>1, <1>2, <1>3
<1>5. QED
  BY <1>4 DEF NoFrameLost

(***************************************************************************)
(* A page is brought in for client c: a clean one as it is on disk, or a   *)
(* fresh one that the client will unpin as dirty.  The clients see the     *)
(* contents v of that page and what they saw before of every other.        *)
(***************************************************************************)
LEMMA BringInLosesNothing ==
  ASSUME Inv, DiskInv, io_errors = 0, io_errors' = 0, CanFindVictim,
         NEW c \in Client, held[c] = NoHold,
         NEW p \in PageId, Lookup(p) = NoFrame,
         NEW v \in Data, NEW d \in BOOLEAN,
         d \/ WriteBack(Victim)[p] = v,
         \A q \in PageId : allocated(q)' <=> (allocated(q) \/ q = p),
         disk' = WriteBack(Victim),
         page_table' = Remap(Victim, p),
         pages' = [pages EXCEPT ![Victim] =
                     [id |-> p, data |-> v, is_dirty |-> FALSE, pin_count |-> 1]],
         free_list' = FreeListAfterVictim,
         LRUlist' = ReplacerPin(LRUAfterVictim, Victim),
         held' = [held EXCEPT ![c] = [frame |-> Victim, page |-> p, dirty |-> d]]
  PROVE  /\ DiskInv'
         /\ stored' = [stored EXCEPT ![p] = v]
         /\ opened' = [opened EXCEPT ![c] = p]
<1>1. PICK f \in Frame : f = Victim
  BY VictimProperties
<1>2. pages[f].pin_count = 0
  BY <1>1, VictimProperties
<1>3. /\ pages \in [Frame -> Page]
      /\ held \in [Client -> Hold]
      /\ PageTableSync
  BY DEF Inv, TypeOK
<1>4. /\ \A g \in Frame \ {f} : pages'[g] = pages[g]
      /\ pages'[f] = [id |-> p, data |-> v, is_dirty |-> FALSE, pin_count |-> 1]
  BY <1>1, <1>3
<1>5. page_table'[p] = f
  BY <1>1 DEF Remap
<1>6. /\ \A q \in PageId : allocated(q) /\ page_table'[q] = NoFrame => disk'[q] # Absent
      /\ \A g \in Frame \ {f} :
           pages[g].id # InvalidPage /\ disk[pages[g].id] = pages[g].data
             => disk'[pages[g].id] = pages[g].data
      /\ \A q \in PageId : allocated(q) /\ allocated(q)' /\ q # p
                             => Stored(q)' = Stored(q)
  BY <1>1, <1>2, <1>4, EvictionLosesNothing
<1>7. NoFrameLost'
  BY <1>1, <1>4, PinnedVictimLosesNoFrame DEF DiskInv
<1>8. UncachedOnDisk'
  BY <1>5, <1>6, Sentinels DEF UncachedOnDisk
<1>9. CleanIsOnDisk'
  <2>1. SUFFICES ASSUME NEW g \in Frame
                 PROVE  \/ pages'[g].id = InvalidPage
                        \/ pages'[g].is_dirty
                        \/ \E e \in Holders(g)' : held'[e].dirty
                        \/ disk'[pages'[g].id] = pages'[g].data
    BY DEF CleanIsOnDisk
  <2>2. CASE g = f
    <3>1. c \in Holders(f)' /\ held'[c].dirty = d
      BY <1>1, <1>3 DEF Holders
    <3>2. QED
      BY <1>1, <1>4, <2>2, <3>1
  <2>3. CASE g # f
    <3>1. \/ pages[g].id = InvalidPage
          \/ pages[g].is_dirty
          \/ \E e \in Holders(g) : held[e].dirty
          \/ disk[pages[g].id] = pages[g].data
      BY DEF DiskInv, CleanIsOnDisk
    <3>2. \A e \in Holders(g) : e # c
      BY Sentinels DEF Holders, NoHold
    <3>3. \A e \in Holders(g) : e \in Holders(g)' /\ held'[e] = held[e]
      BY <1>3, <3>2 DEF Holders
    <3>4. QED
      BY <1>4, <1>6, <2>3, <3>1, <3>3
  <2>4. QED
    BY <2>2, <2>3
<1>10. \A q \in PageId : Stored(q)' = IF q = p THEN v ELSE Stored(q)
  <2>1. Stored(p)' = v
    BY <1>4, <1>5, Sentinels DEF Stored
  <2>2. \A q \in PageId : ~allocated(q) /\ q # p => Stored(q)' = Stored(q)
    BY DEF Stored
  <2>3. QED
    BY <1>6, <2>1, <2>2
<1>11. stored' = [stored EXCEPT ![p] = v]
  BY <1>10 DEF stored
<1>12. opened' = [opened EXCEPT ![c] = p]
  BY <1>3 DEF opened, Hold
<1>13. QED
  BY <1>7, <1>8, <1>9, <1>11, <1>12 DEF DiskInv

(***************************************************************************)
(* fetch_page, hit or miss, opens the page; a page that was allocated can  *)
(* be read back, so read_page does not throw unless read() fails.          *)
(***************************************************************************)
LEMMA FetchOpens ==
  ASSUME Inv, DiskInv, io_errors' = 0, NEW c \in Client, NEW p \in PageId,
         fetch_page(c, p)
  PROVE  DiskInv' /\ Store!Open(c, p)
<1>1. held[c] = NoHold /\ allocated(p) /\ opened[c] = InvalidPage
  BY DEF fetch_page, opened, NoHold
<1>2. ~IOError
  BY NoFailedCall
<1>3. CASE FetchHit(c, p)
  <2>1. PICK f \in Frame : f = Lookup(p)
    BY <1>3 DEF FetchHit, Lookup, Inv, TypeOK
  <2>2. /\ pages \in [Frame -> Page]
        /\ held \in [Client -> Hold]
        /\ io_errors = 0
    BY <1>3, NoFailedCall DEF FetchHit, Inv, TypeOK
  <2>3. /\ pages' = [pages EXCEPT ![f].pin_count = @ + 1]
        /\ LRUlist' = ReplacerPin(LRUlist, f)
        /\ held' = [held EXCEPT ![c] = [frame |-> f, page |-> p, dirty |-> FALSE]]
        /\ UNCHANGED <<page_table, free_list, fd2pageno, disk, io_errors>>
    BY <1>3, <2>1 DEF FetchHit
  <2>4. \A g \in Frame : /\ pages'[g].id = pages[g].id
                         /\ pages'[g].data = pages[g].data
                         /\ pages'[g].is_dirty = pages[g].is_dirty
                         /\ pages'[g].pin_count =
                              pages[g].pin_count + (IF g = f THEN 1 ELSE 0)
                         /\ pages[g].pin_count \in Nat
    BY <2>2, <2>3 DEF Page
  <2>5. NoFrameLost'
    <3>1. Range(LRUlist') = Range(LRUlist) \ {f}
      BY <2>3, PinRemoves DEF Inv, TypeOK, VictimsUnused
    <3>2. QED
      BY <2>3, <2>4, <3>1 DEF DiskInv, NoFrameLost
  <2>6. UncachedOnDisk'
    BY <2>3 DEF DiskInv, UncachedOnDisk, allocated
  <2>7. CleanIsOnDisk'
    <3>1. \A g \in Frame : \A e \in Holders(g) : e \in Holders(g)' /\ held'[e] = held[e]
      BY <1>1, <2>2, <2>3, Sentinels DEF Holders, NoHold
    <3>2. QED
      BY <2>2, <2>3, <2>4, <3>1 DEF DiskInv, CleanIsOnDisk
  <2>8. Stored(p) # Absent
    <3>1. page_table[p] = f
      BY <2>1 DEF Lookup
    <3>2. Stored(p) = pages[f].data
      BY <1>1, <3>1, Sentinels DEF Stored
    <3>3. QED
      BY <2>2, <3>2, PoolAssumption DEF Page
  <2>9. stored' = stored
    <3>1. \A q \in PageId : page_table[q] # NoFrame
                              => pages'[page_table[q]].data = pages[page_table[q]].data
      BY <2>4 DEF Inv, TypeOK
    <3>2. \A q \in PageId : Stored(q)' = Stored(q)
      BY <2>3, <3>1 DEF Stored, allocated
    <3>3. QED
      BY <3>2 DEF stored
  <2>10. opened' = [opened EXCEPT ![c] = p]
    BY <2>2, <2>3 DEF opened, Hold
  <2>11. Store!Open(c, p)
    BY <1>1, <2>8, <2>9, <2>10 DEF Store!Open, stored, opened
  <2>12. QED
    BY <2>5, <2>6, <2>7, <2>11 DEF DiskInv
<1>4. CASE FetchMiss(c, p)
  <2>1. /\ io_errors = 0
        /\ CanFindVictim
        /\ Lookup(p) = NoFrame
        /\ Victim \in Frame
        /\ pages[Victim].pin_count = 0
    BY <1>4, NoFailedCall, VictimProperties DEF FetchMiss
  <2>2. \A g \in Frame \ {Victim} : pages'[g] = pages[g]
    BY <1>4 DEF FetchMiss, Inv, TypeOK
  <2>3. WriteBack(Victim)[p] = Stored(p) /\ Stored(p) # Absent
    BY <1>1, <1>4, <2>1, <2>2, EvictionLosesNothing DEF FetchMiss
  <2>4. WriteBack(Victim)[p] \in Data
    BY <2>1, <2>3, WriteBackType DEF Inv
  <2>5. \A q \in PageId : allocated(q)' <=> (allocated(q) \/ q = p)
    BY <1>1, <1>4 DEF FetchMiss, allocated
  <2>6. /\ DiskInv'
        /\ stored' = [stored EXCEPT ![p] = WriteBack(Victim)[p]]
        /\ opened' = [opened EXCEPT ![c] = p]
    BY <1>1, <1>4, <2>1, <2>4, <2>5, BringInLosesNothing DEF FetchMiss
  <2>7. stored' = stored
    BY <2>3, <2>6 DEF stored
  <2>8. QED
    BY <1>1, <2>3, <2>6, <2>7 DEF Store!Open, stored, opened
<1>5. CASE FetchReadThrows(p)
  <2>1. /\ CanFindVictim
        /\ Lookup(p) = NoFrame
        /\ Victim \in Frame
        /\ pages[Victim].pin_count = 0
    BY <1>5, VictimProperties DEF FetchReadThrows
  <2>2. \A g \in Frame \ {Victim} : pages'[g] = pages[g]
    BY <1>5 DEF FetchReadThrows, Inv, TypeOK
  <2>3. WriteBack(Victim)[p] = Absent /\ io_errors = 0
    BY <1>2, <1>5, NoFailedCall DEF FetchReadThrows
  <2>4. WriteBack(Victim)[p] # Absent
    BY <1>1, <1>5, <2>1, <2>2, <2>3, EvictionLosesNothing DEF FetchReadThrows
  <2>5. QED
    BY <2>3, <2>4
<1>6. CASE FetchWriteThrows(p)
  BY <1>2, <1>6 DEF FetchWriteThrows
<1>7. QED
  BY <1>3, <1>4, <1>5, <1>6 DEF fetch_page

\* new_page allocates a page that no client has seen, and opens it.
LEMMA NewAllocates ==
  ASSUME Inv, DiskInv, io_errors' = 0, NEW c \in Client, NEW fd \in Fd,
         new_page(c, fd)
  PROVE  DiskInv' /\ \E p \in PageId : Store!Allocate(c, p)
<1>1. /\ held[c] = NoHold
      /\ fd2pageno[fd] < MaxPages
      /\ CanFindVictim
      /\ opened[c] = InvalidPage
  BY DEF new_page, opened, NoHold
<1>2. NewPage(c, fd)
  BY NoFailedCall DEF new_page, NewPageWriteThrows
<1>3. io_errors = 0
  BY <1>2, NoFailedCall DEF NewPage
<1>4. fd2pageno \in [Fd -> 0..MaxPages] /\ MaxPages \in Nat
  BY PoolAssumption DEF Inv, TypeOK
<1>5. PICK p \in PageId : p = <<fd, fd2pageno[fd]>>
  <2>1. fd2pageno[fd] \in 0..MaxPages-1
    BY <1>1, <1>4
  <2>2. QED
    BY <2>1 DEF PageId
<1>6. /\ fd2pageno' = [fd2pageno EXCEPT ![fd] = @ + 1]
      /\ disk' = WriteBack(Victim)
      /\ page_table' = Remap(Victim, p)
      /\ pages' = [pages EXCEPT ![Victim] =
                     [id |-> p, data |-> Zero, is_dirty |-> FALSE, pin_count |-> 1]]
      /\ free_list' = FreeListAfterVictim
      /\ LRUlist' = ReplacerPin(LRUAfterVictim, Victim)
      /\ held' = [held EXCEPT ![c] = [frame |-> Victim, page |-> p, dirty |-> TRUE]]
  BY <1>2, <1>5 DEF NewPage
<1>7. ~allocated(p)
  BY <1>4, <1>5 DEF allocated
<1>8. \A q \in PageId : allocated(q)' <=> (allocated(q) \/ q = p)
  <2>1. \A q \in PageId : /\ q = <<q[1], q[2]>>
                           /\ q[1] \in Fd
                           /\ q[2] \in Nat
    BY DEF PageId
  <2>2. ASSUME NEW q \in PageId, q[1] = fd
        PROVE  allocated(q)' <=> (allocated(q) \/ q = p)
    <3>1. q = p <=> q[2] = fd2pageno[fd]
      BY <1>5, <2>1, <2>2
    <3>2. fd2pageno'[fd] = fd2pageno[fd] + 1 /\ fd2pageno[fd] \in Nat
      BY <1>4, <1>6
    <3>3. QED
      BY <2>1, <2>2, <3>1, <3>2 DEF allocated
  <2>3. ASSUME NEW q \in PageId, q[1] # fd
        PROVE  allocated(q)' <=> (allocated(q) \/ q = p)
    BY <1>4, <1>5, <1>6, <2>1, <2>3 DEF allocated
  <2>4. QED
    BY <2>2, <2>3
<1>9. Lookup(p) = NoFrame
  BY <1>7 DEF Lookup, Inv, CachedIsAllocated
<1>10. /\ DiskInv'
       /\ stored' = [stored EXCEPT ![p] = Zero]
       /\ opened' = [opened EXCEPT ![c] = p]
  BY <1>1, <1>3, <1>6, <1>8, <1>9, BringInLosesNothing, PoolAssumption
<1>11. stored[p] = Absent
  BY <1>7 DEF stored, Stored
<1>12. Store!Allocate(c, p)
  BY <1>1, <1>10, <1>11 DEF Store!Allocate, stored, opened
<1>13. QED
  BY <1>10, <1>12

(***************************************************************************)
(* The replacer has room for a frame that is not in it, so the test of     *)
(* LRUReplacer::unpin against max_size never drops a frame.                *)
(***************************************************************************)
LEMMA ReplacerHasRoom ==
  ASSUME NEW l \in Seq(Frame), IsInjective(l), NEW f \in Frame, f \notin Range(l)
  PROVE  Len(l) < PoolSize
<1>1. IsFiniteSet(Frame) /\ Cardinality(Frame) = PoolSize
  BY PoolAssumption, FS_Interval DEF Frame
<1>2. IsFiniteSet(Frame \ {f}) /\ Cardinality(Frame \ {f}) = PoolSize - 1
  BY <1>1, FS_RemoveElement
<1>3. Len(l) \in Nat /\ DOMAIN l = 1..Len(l)
  OBVIOUS
<1>4. IsFiniteSet(1..Len(l)) /\ Cardinality(1..Len(l)) = Len(l)
  BY <1>3, FS_Interval
<1>5. l \in [1..Len(l) -> Frame \ {f}]
  BY <1>3 DEF Range
<1>6. ASSUME Len(l) >= PoolSize
      PROVE  FALSE
  <2>1. Cardinality(Frame \ {f}) < Cardinality(1..Len(l))
    BY <1>2, <1>3, <1>4, <1>6, PoolAssumption
  <2>2. \E x, y \in 1..Len(l) : x # y /\ l[x] = l[y]
    BY <1>2, <1>4, <1>5, <2>1, FS_PigeonHole
  <2>3. QED
    BY <1>3, <2>2 DEF IsInjective
<1>7. QED
  BY <1>3, <1>6, PoolAssumption

(***************************************************************************)
(* unpin_page closes the page: a change its caller made is remembered in   *)
(* is_dirty_, and the last caller to unpin makes the frame evictable.      *)
(***************************************************************************)
LEMMA UnpinCloses ==
  ASSUME Inv, DiskInv, io_errors' = 0, NEW c \in Client, unpin_page(c)
  PROVE  DiskInv' /\ Store!Close(c)
<1>1. PICK f \in Frame : f = held[c].frame
  BY DEF unpin_page, Inv, HoldsFrame
<1>2. /\ held[c] # NoHold
      /\ held[c].page \in PageId
      /\ page_table[held[c].page] = f
  BY <1>1 DEF unpin_page, Inv, PinsAreHolders
<1>3. pages[f].id = held[c].page /\ Lookup(pages[f].id) = f
  BY <1>2 DEF Inv, PageTableSync, Lookup
<1>4. /\ pages \in [Frame -> Page]
      /\ held \in [Client -> Hold]
      /\ io_errors = 0
  BY NoFailedCall DEF unpin_page, Inv, TypeOK
<1>5. pages[f].pin_count \in Nat \ {0}
  <2>1. c \in Holders(f)
    BY <1>1 DEF Holders
  <2>2. Cardinality(Holders(f)) \in Nat \ {0}
    BY <2>1, HoldersFinite, FS_EmptySet
  <2>3. QED
    BY <2>2 DEF Inv, PinsAreHolders
<1>6. PICK n \in Nat : n = pages[f].pin_count - 1
  BY <1>5
<1>7. /\ held' = [held EXCEPT ![c] = NoHold]
      /\ pages' = [pages EXCEPT ![f].is_dirty = @ \/ held[c].dirty,
                               ![f].pin_count = n]
      /\ LRUlist' = IF n = 0 THEN ReplacerUnpin(LRUlist, f, PoolSize) ELSE LRUlist
      /\ UNCHANGED <<page_table, free_list, fd2pageno, disk, io_errors>>
  <2>1. /\ Lookup(pages[held[c].frame].id) = f
        /\ f # NoFrame
        /\ pages[f].pin_count - 1 = n /\ ~(n < 0)
    BY <1>1, <1>3, <1>6, Sentinels
  <2>2. held' = [held EXCEPT ![c] = NoHold]
    BY DEF unpin_page
  <2>3. pages' = [pages EXCEPT ![f].is_dirty = @ \/ held[c].dirty, ![f].pin_count = n]
    BY <2>1, Zenon DEF unpin_page, DirtyAfterUnpin
  <2>4. LRUlist' = IF n = 0 THEN ReplacerUnpin(LRUlist, f, PoolSize) ELSE LRUlist
    BY <2>1, Zenon DEF unpin_page
  <2>5. UNCHANGED <<page_table, free_list, fd2pageno, disk, io_errors>>
    BY DEF unpin_page
  <2>6. QED
    BY <2>2, <2>3, <2>4, <2>5
<1>8. \A g \in Frame : /\ pages'[g].id = pages[g].id
                       /\ pages'[g].data = pages[g].data
                       /\ g # f => pages'[g] = pages[g]
  BY <1>4, <1>7 DEF Page
<1>9. pages'[f].pin_count = n /\ (pages'[f].is_dirty <=> pages[f].is_dirty \/ held[c].dirty)
  <2>1. pages[f] \in Page
    BY <1>4
  <2>2. QED
    BY <1>4, <1>7, <2>1 DEF Page
<1>10. NoFrameLost'
  <2>1. LRUlist \in Seq(Frame) /\ IsInjective(LRUlist)
    BY DEF Inv, TypeOK, VictimsUnused
  <2>2. f \notin Range(LRUlist)
    BY <1>5 DEF Inv, VictimsUnused
  <2>3. Range(LRUlist') = Range(LRUlist) \cup (IF n = 0 THEN {f} ELSE {})
    <3>1. Len(LRUlist) < PoolSize /\ Len(LRUlist) \in Nat
      BY <2>1, <2>2, ReplacerHasRoom
    <3>2. ReplacerUnpin(LRUlist, f, PoolSize) = Append(LRUlist, f)
      BY <2>2, <3>1, PoolAssumption DEF ReplacerUnpin
    <3>3. Range(Append(LRUlist, f)) = Range(LRUlist) \cup {f}
      BY <2>1, <2>2, PushBack
    <3>4. QED
      BY <1>7, <3>2, <3>3
  <2>4. \A g \in Frame : g \in Range(free_list) \/ g \in Range(LRUlist)
                         \/ pages[g].pin_count > 0
    BY <1>4 DEF DiskInv, NoFrameLost
  <2>5. \A g \in Frame : g \in Range(free_list') \/ g \in Range(LRUlist')
                         \/ pages'[g].pin_count > 0
    <3>1. n # 0 => n > 0
      OBVIOUS
    <3>2. f \in Range(LRUlist') \/ pages'[f].pin_count > 0
      BY <1>9, <2>3, <3>1
    <3>3. ASSUME NEW g \in Frame, g # f
          PROVE  g \in Range(free_list') \/ g \in Range(LRUlist')
                 \/ pages'[g].pin_count > 0
      BY <1>7, <1>8, <2>3, <2>4, <3>3
    <3>4. QED
      BY <3>2, <3>3
  <2>6. QED
    BY <2>5 DEF NoFrameLost
<1>11. UncachedOnDisk'
  BY <1>7 DEF DiskInv, UncachedOnDisk, allocated
<1>12. CleanIsOnDisk'
  <2>1. SUFFICES ASSUME NEW g \in Frame
                 PROVE  \/ pages'[g].id = InvalidPage
                        \/ pages'[g].is_dirty
                        \/ \E e \in Holders(g)' : held'[e].dirty
                        \/ disk'[pages'[g].id] = pages'[g].data
    BY DEF CleanIsOnDisk
  <2>2. \/ pages[g].id = InvalidPage
        \/ pages[g].is_dirty
        \/ \E e \in Holders(g) : held[e].dirty
        \/ disk[pages[g].id] = pages[g].data
    BY <1>4 DEF DiskInv, CleanIsOnDisk
  <2>3. \A e \in Holders(g) \ {c} : e \in Holders(g)' /\ held'[e] = held[e]
    BY <1>4, <1>7 DEF Holders
  <2>4. pages[g].is_dirty => pages'[g].is_dirty
    <3>1. CASE g = f
      BY <1>9, <3>1
    <3>2. CASE g # f
      BY <1>8, <3>2
    <3>3. QED
      BY <3>1, <3>2
  <2>5. c \in Holders(g) /\ held[c].dirty => pages'[g].is_dirty
    BY <1>1, <1>9 DEF Holders
  <2>6. /\ pages'[g].id = pages[g].id
        /\ pages'[g].data = pages[g].data
        /\ disk' = disk
    BY <1>7, <1>8
  <2>7. CASE \E e \in Holders(g) : held[e].dirty
    BY <2>3, <2>5, <2>7
  <2>8. QED
    BY <2>2, <2>4, <2>6, <2>7
<1>13. stored' = stored
  <2>1. \A q \in PageId : page_table[q] # NoFrame
                            => pages'[page_table[q]].data = pages[page_table[q]].data
    <3>1. page_table \in [PageId -> Frame \cup {NoFrame}]
      BY DEF Inv, TypeOK
    <3>2. QED
      BY <1>8, <3>1
  <2>2. \A q \in PageId : Stored(q)' = Stored(q)
    BY <1>7, <2>1 DEF Stored, allocated
  <2>3. QED
    BY <2>2 DEF stored
<1>14. opened' = [opened EXCEPT ![c] = InvalidPage] /\ opened[c] # InvalidPage
  BY <1>2, <1>4, <1>7, Sentinels DEF opened, Hold, NoHold
<1>15. Store!Close(c)
  BY <1>13, <1>14 DEF Store!Close, stored, opened
<1>16. QED
  BY <1>10, <1>11, <1>12, <1>15 DEF DiskInv

\* A change through a client's pointer is a write of the page it has open.
LEMMA WriteDataWrites ==
  ASSUME Inv, DiskInv, io_errors' = 0, NEW c \in Client, NEW v \in Data,
         WriteData(c, v)
  PROVE  DiskInv' /\ Store!Write(c, v)
<1>1. PICK f \in Frame : f = held[c].frame
  BY DEF WriteData, Inv, HoldsFrame
<1>2. PICK p \in PageId : p = held[c].page /\ page_table[p] = f
  BY <1>1 DEF WriteData, Inv, PinsAreHolders
<1>3. /\ pages \in [Frame -> Page]
      /\ held \in [Client -> Hold]
      /\ page_table \in [PageId -> Frame \cup {NoFrame}]
      /\ io_errors = 0
  BY NoFailedCall DEF WriteData, Inv, TypeOK
<1>4. /\ pages' = [pages EXCEPT ![f].data = v]
      /\ held' = [held EXCEPT ![c].dirty = TRUE]
      /\ UNCHANGED <<page_table, free_list, LRUlist, fd2pageno, disk, io_errors>>
  BY <1>1 DEF WriteData
<1>5. \A g \in Frame : /\ pages'[g].id = pages[g].id
                       /\ pages'[g].is_dirty = pages[g].is_dirty
                       /\ pages'[g].pin_count = pages[g].pin_count
                       /\ pages'[g].data = IF g = f THEN v ELSE pages[g].data
  BY <1>3, <1>4 DEF Page
<1>6. \A e \in Client : /\ held'[e].frame = held[e].frame
                        /\ held'[e].page = held[e].page
                        /\ e # c => held'[e] = held[e]
  BY <1>3, <1>4 DEF Hold
<1>7. NoFrameLost' /\ UncachedOnDisk'
  BY <1>4, <1>5 DEF DiskInv, NoFrameLost, UncachedOnDisk, allocated
<1>8. CleanIsOnDisk'
  <2>1. SUFFICES ASSUME NEW g \in Frame
                 PROVE  \/ pages'[g].id = InvalidPage
                        \/ pages'[g].is_dirty
                        \/ \E e \in Holders(g)' : held'[e].dirty
                        \/ disk'[pages'[g].id] = pages'[g].data
    BY DEF CleanIsOnDisk
  <2>2. c \in Holders(f)' /\ held'[c].dirty
    <3>1. held[c] \in Hold
      BY <1>3
    <3>2. held'[c].dirty = TRUE
      BY <1>3, <1>4, <3>1 DEF Hold
    <3>3. QED
      BY <1>1, <1>6, <3>2 DEF Holders
  <2>3. CASE g = f
    BY <2>2, <2>3
  <2>4. CASE g # f
    <3>1. \/ pages[g].id = InvalidPage
          \/ pages[g].is_dirty
          \/ \E e \in Holders(g) : held[e].dirty
          \/ disk[pages[g].id] = pages[g].data
      BY <1>3 DEF DiskInv, CleanIsOnDisk
    <3>2. \A e \in Holders(g) : e \in Holders(g)' /\ held'[e] = held[e]
      BY <1>1, <1>6, <2>4 DEF Holders
    <3>3. /\ pages'[g].id = pages[g].id
          /\ pages'[g].is_dirty = pages[g].is_dirty
          /\ pages'[g].data = pages[g].data
          /\ disk' = disk
      BY <1>4, <1>5, <2>4
    <3>4. QED
      BY <3>1, <3>2, <3>3
  <2>5. QED
    BY <2>3, <2>4
<1>9. \A q \in PageId : Stored(q)' = IF q = p THEN v ELSE Stored(q)
  <2>1. allocated(p)
    BY <1>2, Sentinels DEF Inv, CachedIsAllocated
  <2>2. \A q \in PageId : allocated(q)' <=> allocated(q)
    BY <1>4 DEF allocated
  <2>3. Stored(p)' = v
    BY <1>2, <1>4, <1>5, <2>1, <2>2, Sentinels DEF Stored
  <2>4. \A q \in PageId : q # p => page_table[q] # f
    BY <1>2 DEF Inv, PageTableSync
  <2>5. ASSUME NEW q \in PageId, q # p
        PROVE  Stored(q)' = Stored(q)
    <3>1. page_table[q] # NoFrame => pages'[page_table[q]].data = pages[page_table[q]].data
      BY <1>3, <1>5, <2>4, <2>5
    <3>2. QED
      BY <1>4, <2>2, <3>1 DEF Stored
  <2>6. QED
    BY <2>3, <2>5
<1>10. stored' = [stored EXCEPT ![opened[c]] = v]
  <2>1. opened[c] = p
    BY <1>2 DEF opened
  <2>2. QED
    BY <1>9, <2>1 DEF stored
<1>11. opened' = opened /\ opened[c] # InvalidPage
  BY <1>2, <1>6, Sentinels DEF opened
<1>12. Store!Write(c, v)
  BY <1>10, <1>11 DEF Store!Write, stored, opened
<1>13. QED
  BY <1>7, <1>8, <1>12 DEF DiskInv

(***************************************************************************)
(* delete_page drops a page from the pool, not from the file: its frame is *)
(* free again and the clients see what they saw.                           *)
(***************************************************************************)
LEMMA DeleteIsInvisible ==
  ASSUME Inv, DiskInv, io_errors' = 0, NEW p \in PageId, delete_page(p)
  PROVE  DiskInv' /\ stored' = stored /\ opened' = opened
<1>1. PICK f \in Frame : f = Lookup(p)
  BY DEF delete_page, Lookup, Inv, TypeOK
<1>2. /\ pages[f].pin_count = 0
      /\ LRUlist' = ReplacerPin(LRUlist, f)
      /\ fd2pageno' = fd2pageno
      /\ held' = held
      /\ disk' = WriteBack(f)
      /\ page_table' = Remap(f, InvalidPage)
      /\ pages' = [pages EXCEPT ![f] = ResetPage(InvalidPage)]
      /\ free_list' = Append(free_list, f)
      /\ io_errors' = io_errors
  BY <1>1, NoFailedCall DEF delete_page
<1>3. /\ io_errors = 0
      /\ pages \in [Frame -> Page]
      /\ \A g \in Frame \ {f} : pages'[g] = pages[g]
      /\ pages'[f].id = InvalidPage
  BY <1>2, NoFailedCall DEF Inv, TypeOK, ResetPage
<1>4. Lookup(InvalidPage) = NoFrame
  BY Sentinels DEF Lookup
<1>5. /\ \A q \in PageId : allocated(q) /\ page_table'[q] = NoFrame => disk'[q] # Absent
      /\ \A g \in Frame \ {f} :
           pages[g].id # InvalidPage /\ disk[pages[g].id] = pages[g].data
             => disk'[pages[g].id] = pages[g].data
      /\ \A q \in PageId : allocated(q) /\ allocated(q)' /\ q # InvalidPage
                             => Stored(q)' = Stored(q)
  BY <1>2, <1>3, <1>4, EvictionLosesNothing
<1>6. \A q \in PageId : allocated(q)' <=> allocated(q)
  BY <1>2 DEF allocated
<1>7. NoFrameLost'
  <2>1. Range(LRUlist') = Range(LRUlist) \ {f}
    BY <1>2, PinRemoves DEF Inv, TypeOK, VictimsUnused
  <2>2. Range(free_list') = Range(free_list) \cup {f}
    <3>1. pages[f].id = p
      BY <1>1 DEF Lookup, Inv, PageTableSync
    <3>2. f \notin Range(free_list)
      BY <3>1, Sentinels DEF Inv, VictimsUnused
    <3>3. QED
      BY <1>2, <3>2, PushBack DEF Inv, TypeOK, VictimsUnused
  <2>3. \A g \in Frame : g \in Range(free_list) \/ g \in Range(LRUlist)
                         \/ pages[g].pin_count > 0
    BY <1>3 DEF DiskInv, NoFrameLost
  <2>4. \A g \in Frame : g \in Range(free_list') \/ g \in Range(LRUlist')
                         \/ pages'[g].pin_count > 0
    BY <1>3, <2>1, <2>2, <2>3
  <2>5. QED
    BY <2>4 DEF NoFrameLost
<1>8. UncachedOnDisk'
  BY <1>5, <1>6 DEF UncachedOnDisk
<1>9. CleanIsOnDisk'
  <2>1. \A g \in Frame : Holders(g)' = Holders(g)
    BY <1>2 DEF Holders
  <2>2. \A g \in Frame \ {f} : \/ pages[g].id = InvalidPage
                               \/ pages[g].is_dirty
                               \/ \E e \in Holders(g) : held[e].dirty
                               \/ disk[pages[g].id] = pages[g].data
    BY <1>3 DEF DiskInv, CleanIsOnDisk
  <2>3. QED
    BY <1>2, <1>3, <1>5, <2>1, <2>2 DEF CleanIsOnDisk
<1>10. stored' = stored
  <2>1. \A q \in PageId : Stored(q)' = Stored(q)
    <3>1. \A q \in PageId : ~allocated(q) => Stored(q)' = Stored(q)
      BY <1>6 DEF Stored
    <3>2. QED
      BY <1>5, <1>6, <3>1, Sentinels
  <2>2. QED
    BY <2>1 DEF stored
<1>11. opened' = opened
  BY <1>2 DEF opened
<1>12. QED
  BY <1>7, <1>8, <1>9, <1>10, <1>11 DEF DiskInv

(***************************************************************************)
(* A flush of cached pages is invisible; a page it extends the file over   *)
(* was not on disk before and so is cached and dirty.                      *)
(***************************************************************************)
LEMMA FlushIsInvisible ==
  ASSUME Inv, DiskInv, io_errors = 0, io_errors' = 0,
         NEW S \in SUBSET PageId, \A p \in S : page_table[p] # NoFrame,
         FlushPages(S)
  PROVE  DiskInv' /\ stored' = stored /\ opened' = opened
<1>1. /\ pages \in [Frame -> Page]
      /\ page_table \in [PageId -> Frame \cup {NoFrame}]
      /\ PageTableSync
  BY DEF Inv, TypeOK
<1>2. UNCHANGED <<page_table, free_list, LRUlist, fd2pageno, held>>
  BY DEF FlushPages
<1>3. \A g \in Frame : /\ pages'[g].id = pages[g].id
                       /\ pages'[g].data = pages[g].data
                       /\ pages'[g].pin_count = pages[g].pin_count
                       /\ (\E p \in S : page_table[p] = g) \/ pages'[g] = pages[g]
  BY <1>1 DEF FlushPages, Page
<1>4. /\ \A q \in S : disk'[q] = pages[page_table[q]].data
      /\ \A q \in PageId \ S : disk[q] # Absent => disk'[q] = disk[q]
  BY DEF FlushPages, write_pages, InHole
<1>5. NoFrameLost'
  BY <1>2, <1>3 DEF DiskInv, NoFrameLost
<1>6. \A q \in PageId : allocated(q) /\ page_table[q] = NoFrame
                          => disk[q] # Absent /\ disk'[q] = disk[q]
  BY <1>4 DEF DiskInv, UncachedOnDisk
<1>7. UncachedOnDisk'
  BY <1>2, <1>6 DEF UncachedOnDisk, allocated
<1>8. CleanIsOnDisk'
  <2>1. SUFFICES ASSUME NEW g \in Frame
                 PROVE  \/ pages'[g].id = InvalidPage
                        \/ pages'[g].is_dirty
                        \/ \E e \in Holders(g)' : held'[e].dirty
                        \/ disk'[pages'[g].id] = pages'[g].data
    BY DEF CleanIsOnDisk
  <2>2. CASE \E p \in S : page_table[p] = g
    <3>1. PICK p \in S : page_table[p] = g
      BY <2>2
    <3>2. pages[g].id = p
      BY <1>1, <3>1 DEF PageTableSync
    <3>3. disk'[p] = pages[g].data
      BY <1>4, <3>1
    <3>4. QED
      BY <1>3, <3>2, <3>3
  <2>3. CASE ~\E p \in S : page_table[p] = g
    <3>1. pages'[g] = pages[g]
      BY <1>3, <2>3
    <3>2. \/ pages[g].id = InvalidPage
          \/ pages[g].is_dirty
          \/ \E e \in Holders(g) : held[e].dirty
          \/ disk[pages[g].id] = pages[g].data
      BY DEF DiskInv, CleanIsOnDisk
    <3>3. Holders(g)' = Holders(g) /\ held' = held
      BY <1>2 DEF Holders
    <3>4. ASSUME pages[g].id # InvalidPage, disk[pages[g].id] = pages[g].data
          PROVE  disk'[pages[g].id] = pages[g].data
      <4>1. pages[g].id \in PageId /\ page_table[pages[g].id] = g
        BY <1>1, <3>4 DEF PageTableSync, Page
      <4>2. pages[g].id \in PageId \ S
        BY <2>3, <4>1
      <4>3. pages[g].data # Absent
        BY <1>1, PoolAssumption DEF Page
      <4>4. QED
        BY <1>4, <3>4, <4>2, <4>3
    <3>5. QED
      BY <3>1, <3>2, <3>3, <3>4
  <2>4. QED
    BY <2>2, <2>3
<1>9. stored' = stored
  <2>1. ASSUME NEW q \in PageId
        PROVE  Stored(q)' = Stored(q)
    <3>1. allocated(q)' <=> allocated(q)
      BY <1>2 DEF allocated
    <3>2. page_table[q] # NoFrame => pages'[page_table[q]].data = pages[page_table[q]].data
      BY <1>1, <1>3
    <3>3. QED
      BY <1>2, <1>6, <3>1, <3>2 DEF Stored
  <2>2. QED
    BY <2>1 DEF stored
<1>10. opened' = opened
  BY <1>2 DEF opened
<1>11. QED
  BY <1>5, <1>7, <1>8, <1>9, <1>10 DEF DiskInv

-----------------------------------------------------------------------------
\* An empty pool over empty files has lost nothing, and stores nothing.
LEMMA InitDiskInv == Init => DiskInv /\ Store!Init
<1> SUFFICES ASSUME Init PROVE DiskInv /\ Store!Init
  OBVIOUS
<1>1. NoFrameLost
  <2>1. ASSUME NEW f \in Frame PROVE f \in Range(free_list)
    <3>1. f + 1 \in 1..PoolSize /\ (f + 1) - 1 = f
      BY PoolAssumption DEF Frame
    <3>2. f + 1 \in DOMAIN free_list /\ free_list[f + 1] = f
      BY <3>1 DEF Init, InitialFreeList
    <3>3. QED
      BY <3>2 DEF Range
  <2>2. QED
    BY <2>1 DEF NoFrameLost
<1>2. \A p \in PageId : ~allocated(p)
  <2>1. \A p \in PageId : p[1] \in Fd /\ p[2] \in Nat
    BY DEF PageId
  <2>2. QED
    BY <2>1 DEF Init, allocated
<1>3. UncachedOnDisk
  BY <1>2 DEF UncachedOnDisk
<1>4. CleanIsOnDisk
  BY DEF CleanIsOnDisk, Init, ResetPage
<1>5. Store!Init
  BY <1>2 DEF Store!Init, Stored, Init, NoHold
<1>6. QED
  BY <1>1, <1>3, <1>4, <1>5 DEF DiskInv

(***************************************************************************)
(* Every step of the pool after which no call has failed keeps DiskInv and *)
(* is a step of PageStore or invisible.                                    *)
(***************************************************************************)
LEMMA StepIsStoreStep ==
  ASSUME Inv, DiskInv, [Next]_vars
  PROVE  /\ DiskInv'
         /\ io_errors' = 0 => Store!Next \/ UNCHANGED <<stored, opened>>
<1>1. CASE io_errors' # 0
  BY <1>1 DEF DiskInv, NoFrameLost, UncachedOnDisk, CleanIsOnDisk
<1>2. CASE io_errors' = 0
  <2>1. CASE UNCHANGED vars
    BY <2>1 DEF vars, DiskInv, NoFrameLost, UncachedOnDisk, CleanIsOnDisk,
                allocated, Holders, stored, opened, Stored
  <2>2. ASSUME NEW c \in Client, NEW p \in PageId, fetch_page(c, p)
        PROVE  DiskInv' /\ Store!Next
    BY <1>2, <2>2, FetchOpens DEF Store!Next
  <2>3. ASSUME NEW c \in Client, unpin_page(c)
        PROVE  DiskInv' /\ Store!Next
    BY <1>2, <2>3, UnpinCloses DEF Store!Next
  <2>4. ASSUME NEW c \in Client, NEW fd \in Fd, new_page(c, fd)
        PROVE  DiskInv' /\ Store!Next
    BY <1>2, <2>4, NewAllocates DEF Store!Next
  <2>5. ASSUME NEW c \in Client, NEW v \in Data, WriteData(c, v)
        PROVE  DiskInv' /\ Store!Next
    BY <1>2, <2>5, WriteDataWrites DEF Store!Next
  <2>6. ASSUME NEW p \in PageId, delete_page(p)
        PROVE  DiskInv' /\ UNCHANGED <<stored, opened>>
    BY <1>2, <2>6, DeleteIsInvisible
  <2>7. ASSUME NEW p \in PageId, flush_page(p)
        PROVE  DiskInv' /\ UNCHANGED <<stored, opened>>
    <3>1. /\ FlushPages({p})
          /\ io_errors = 0
          /\ page_table[p] # NoFrame
      BY <1>2, <2>7, NoFailedCall DEF flush_page, Lookup
    <3>2. {p} \in SUBSET PageId /\ \A q \in {p} : page_table[q] # NoFrame
      BY <3>1
    <3>3. QED
      BY <1>2, <3>1, <3>2, FlushIsInvisible
  <2>8. ASSUME NEW fd \in Fd, flush_all_pages(fd)
        PROVE  DiskInv' /\ UNCHANGED <<stored, opened>>
    <3>1. PICK S \in SUBSET PageId : /\ \A p \in S : Lookup(p) # NoFrame
                                     /\ FlushPages(S)
                                     /\ io_errors' = io_errors
      BY <1>2, <2>8, NoFailedCall DEF flush_all_pages
    <3>2. (\A p \in S : page_table[p] # NoFrame) /\ io_errors = 0
      BY <1>2, <3>1, NoFailedCall DEF Lookup
    <3>3. QED
      BY <1>2, <3>1, <3>2, FlushIsInvisible
  <2>9. QED
    BY <2>1, <2>2, <2>3, <2>4, <2>5, <2>6, <2>7, <2>8 DEF Next
<1>3. QED
  BY <1>1, <1>2

\* The inductive invariant holds in every reachable state.
LEMMA DiskInvHolds == Spec => []DiskInv
<1>1. Inv /\ DiskInv /\ [Next]_vars => DiskInv'
  BY StepIsStoreStep
<1>2. QED
  BY <1>1, InitDiskInv, InvHolds, PTL DEF Spec

(***************************************************************************)
(* For every pool: while no call has failed, every frame is free,          *)
(* evictable or pinned (find_victim_page, unpin_page, delete_page).        *)
(***************************************************************************)
THEOREM FramesAreNotLost == Spec => []NoFrameLost
  BY DiskInvHolds, PTL DEF DiskInv

(***************************************************************************)
(* For every pool: while no call has failed, a page that new_page handed   *)
(* out is cached or on disk, so fetch_page finds it (update_page).         *)
(***************************************************************************)
THEOREM PagesAreNotLost == Spec => []UncachedOnDisk
  BY DiskInvHolds, PTL DEF DiskInv

(***************************************************************************)
(* For every pool: while no call has failed, a frame that would be evicted *)
(* without write-back equals the page on disk (update_page, unpin_page).   *)
(***************************************************************************)
THEOREM UpdatesAreNotLost == Spec => []CleanIsOnDisk
  BY DiskInvHolds, PTL DEF DiskInv

(***************************************************************************)
(* For every pool: up to the first call that fails, the clients of         *)
(* fetch_page, new_page and unpin_page cannot tell the pool from an array  *)
(* of pages without a cache.                                               *)
(***************************************************************************)
THEOREM PoolImplementsPageStore == Spec => ImplementsPageStore
<1>1. Init => Store!Init
  BY InitDiskInv
<1>2. Inv /\ DiskInv /\ [Next]_vars
        => [io_errors' = 0 => Store!Next]_(Store!store_vars)
  BY StepIsStoreStep DEF Store!store_vars, stored, opened
<1>3. QED
  BY <1>1, <1>2, InvHolds, DiskInvHolds, PTL DEF Spec, ImplementsPageStore
=============================================================================
