----------------------------- MODULE BufferPool -----------------------------
(***************************************************************************)
(* BufferPoolManager over DiskManager's paged files.                       *)
(*                                                                         *)
(* Every public operation of BufferPoolManager holds latch_ from its first *)
(* to its last line, so each one is a single action here.  The callers are *)
(* not latched: a client holds the frame it fetched, writes the page bytes *)
(* through the pointer at any time, and gives the frame back with          *)
(* unpin_page.  A caller of the code that holds several pages at once is   *)
(* several clients of the model.                                           *)
(*                                                                         *)
(* A call that returns nullptr or false leaves every variable unchanged    *)
(* and is a stuttering step.                                               *)
(***************************************************************************)
EXTENDS LRUReplacer, FiniteSets

CONSTANTS
  PoolSize,     \* pool_size_: the number of frames
  Fd,           \* the open file descriptors
  MaxPages,     \* bound: pages allocated per file
  Client,       \* the callers
  Data,         \* page contents, as far as they are told apart
  Zero,         \* the contents of a page after reset_memory()
  Absent,       \* "beyond the end of the file"
  MaxIOErrors   \* bound: read() and write() calls that fail

ASSUME PoolAssumption ==
  /\ PoolSize \in Nat \ {0}
  /\ Fd \subseteq Nat
  /\ MaxPages \in Nat
  /\ IsFiniteSet(Client)
  /\ Zero \in Data
  /\ Absent \notin Data
  /\ MaxIOErrors \in Nat

VARIABLES
  pages,        \* pages_: the frames, with their Page metadata
  page_table,   \* page_table_: PageId -> frame
  free_list,    \* free_list_
  LRUlist,      \* replacer_->LRUlist_
  fd2pageno,    \* DiskManager::fd2pageno_: the next page number per file
  disk,         \* the contents of the files
  held,         \* what each client has fetched and not yet unpinned
  io_errors     \* read() and write() calls that have failed so far

vars == <<pages, page_table, free_list, LRUlist, fd2pageno, disk, held, io_errors>>

Frame == 0..PoolSize-1
NoFrame == -1
PageId == Fd \X (0..MaxPages-1)
InvalidPage == <<-1, -1>>

Page == [id : PageId \cup {InvalidPage}, data : Data,
         is_dirty : BOOLEAN, pin_count : Nat]
ResetPage(page_id) ==
  [id |-> page_id, data |-> Zero, is_dirty |-> FALSE, pin_count |-> 0]

(***************************************************************************)
(* What a client holds: the frame its Page* points to, the page it asked   *)
(* for, and the is_dirty argument it will pass to unpin_page.              *)
(***************************************************************************)
Hold == [frame : Frame \cup {NoFrame}, page : PageId \cup {InvalidPage},
         dirty : BOOLEAN]
NoHold == [frame |-> NoFrame, page |-> InvalidPage, dirty |-> FALSE]
Holders(f) == {c \in Client : held[c].frame = f}

\* Mutant: the constructor's loop counts from 1.
FreeListFromOne == [i \in 1..PoolSize |-> i]

\* The constructor puts every frame on the free list.
InitialFreeList == [i \in 1..PoolSize |-> i - 1]

Init ==
  /\ pages = [f \in Frame |-> ResetPage(InvalidPage)]
  /\ page_table = [p \in PageId |-> NoFrame]
  /\ free_list = InitialFreeList
  /\ LRUlist = << >>
  /\ fd2pageno = [fd \in Fd |-> 0]
  /\ disk = [p \in PageId |-> Absent]
  /\ held = [c \in Client |-> NoHold]
  /\ io_errors = 0
-----------------------------------------------------------------------------
(***************************************************************************)
(* DiskManager.  A write beyond the end of the file extends it, and the    *)
(* pages skipped read as zeros.                                            *)
(***************************************************************************)
InHole(d, p, q) == q[1] = p[1] /\ q[2] < p[2] /\ d[q] = Absent

write_page(d, p, v) ==
  [q \in PageId |-> IF q = p THEN v ELSE IF InHole(d, p, q) THEN Zero ELSE d[q]]

\* The writes of the pages of a set of one file's pages, in any order.
write_pages(d, S, v) ==
  [q \in PageId |-> IF q \in S THEN v[q]
                    ELSE IF \E p \in S : InHole(d, p, q) THEN Zero ELSE d[q]]

allocated(p) == p[2] < fd2pageno[p[1]]

IOError == io_errors < MaxIOErrors /\ io_errors' = io_errors + 1
-----------------------------------------------------------------------------
\* page_table_.find(page_id): no entry for an id with INVALID_PAGE_ID.
Lookup(p) == IF p \in PageId THEN page_table[p] ELSE NoFrame

\* find_victim_page: the free list first, then the replacer.
CanFindVictim == free_list # << >> \/ HasVictim(LRUlist)
Victim == IF free_list # << >> THEN Head(free_list) ELSE VictimFrame(LRUlist)

\* Mutant: pop_front is forgotten.
FreeListNotPopped == free_list

FreeListAfterVictim == IF free_list # << >> THEN Tail(free_list) ELSE free_list
LRUAfterVictim == IF free_list # << >> THEN LRUlist ELSE VictimRest(LRUlist)

(***************************************************************************)
(* update_page(&pages_[f], new, f): a valid dirty page is written back     *)
(* first; then the entry of the frame's old page id is erased, whichever   *)
(* frame that entry names, and the new id, if valid, is mapped to f.       *)
(***************************************************************************)
MustWriteBack(f) == pages[f].id # InvalidPage /\ pages[f].is_dirty

\* Mutant: a dirty victim is not written back.
NoWriteBack(f) == disk

WriteBack(f) ==
  IF MustWriteBack(f) THEN write_page(disk, pages[f].id, pages[f].data) ELSE disk

\* Mutant: the entry of the old page id stays.
RemapKeepsOldId(f, new) == [q \in PageId |-> IF q = new THEN f ELSE page_table[q]]

Remap(f, new) ==
  [q \in PageId |-> IF q = new THEN f
                    ELSE IF q = pages[f].id THEN NoFrame ELSE page_table[q]]
-----------------------------------------------------------------------------
FetchHit(c, p) ==
  LET f == Lookup(p) IN
  /\ f # NoFrame
  /\ pages' = [pages EXCEPT ![f].pin_count = @ + 1]
  /\ LRUlist' = ReplacerPin(LRUlist, f)
  /\ held' = [held EXCEPT ![c] = [frame |-> f, page |-> p, dirty |-> FALSE]]
  /\ UNCHANGED <<page_table, free_list, fd2pageno, disk, io_errors>>

FetchMiss(c, p) ==
  LET f == Victim IN
  /\ Lookup(p) = NoFrame
  /\ CanFindVictim
  /\ WriteBack(f)[p] # Absent
  /\ disk' = WriteBack(f)
  /\ page_table' = Remap(f, p)
  /\ pages' = [pages EXCEPT ![f] = [id |-> p, data |-> WriteBack(f)[p],
                                    is_dirty |-> FALSE, pin_count |-> 1]]
  /\ free_list' = FreeListAfterVictim
  /\ LRUlist' = ReplacerPin(LRUAfterVictim, f)
  /\ held' = [held EXCEPT ![c] = [frame |-> f, page |-> p, dirty |-> FALSE]]
  /\ UNCHANGED <<fd2pageno, io_errors>>

(***************************************************************************)
(* read_page throws, for a failed or a short read, when the frame has left *)
(* the free list or the replacer and is already mapped to the page.        *)
(***************************************************************************)
FetchReadThrows(p) ==
  LET f == Victim IN
  /\ Lookup(p) = NoFrame
  /\ CanFindVictim
  /\ IF WriteBack(f)[p] = Absent THEN UNCHANGED io_errors ELSE IOError
  /\ disk' = WriteBack(f)
  /\ page_table' = Remap(f, p)
  /\ pages' = [pages EXCEPT ![f] = ResetPage(p)]
  /\ free_list' = FreeListAfterVictim
  /\ LRUlist' = LRUAfterVictim
  /\ UNCHANGED <<fd2pageno, held>>

\* write_page throws in update_page: the victim keeps its page, in no list.
FetchWriteThrows(p) ==
  /\ Lookup(p) = NoFrame
  /\ CanFindVictim
  /\ MustWriteBack(Victim)
  /\ IOError
  /\ free_list' = FreeListAfterVictim
  /\ LRUlist' = LRUAfterVictim
  /\ UNCHANGED <<pages, page_table, fd2pageno, disk, held>>

fetch_page(c, p) ==
  /\ held[c] = NoHold
  /\ allocated(p)
  /\ \/ FetchHit(c, p)
     \/ FetchMiss(c, p)
     \/ FetchReadThrows(p)
     \/ FetchWriteThrows(p)

\* Mutant: the last caller's argument wins.
DirtyOverwritten(is_dirty_, is_dirty) == is_dirty

\* is_dirty_ stays set once any holder has changed the page.
DirtyAfterUnpin(is_dirty_, is_dirty) == is_dirty_ \/ is_dirty

(***************************************************************************)
(* The callers pass page->get_page_id() of the frame they hold and ignore  *)
(* the result.                                                             *)
(***************************************************************************)
unpin_page(c) ==
  LET f == Lookup(pages[held[c].frame].id)
      n == pages[f].pin_count - 1
  IN
  /\ held[c] # NoHold
  /\ held' = [held EXCEPT ![c] = NoHold]
  /\ IF f = NoFrame \/ n < 0
       THEN UNCHANGED <<pages, LRUlist>>
       ELSE /\ pages' = [pages EXCEPT ![f].is_dirty = DirtyAfterUnpin(@, held[c].dirty),
                                      ![f].pin_count = n]
            /\ LRUlist' = IF n = 0 THEN ReplacerUnpin(LRUlist, f, PoolSize)
                                   ELSE LRUlist
  /\ UNCHANGED <<page_table, free_list, fd2pageno, disk, io_errors>>

NewPage(c, fd) ==
  LET f == Victim
      p == <<fd, fd2pageno[fd]>>
  IN
  /\ fd2pageno' = [fd2pageno EXCEPT ![fd] = @ + 1]
  /\ disk' = WriteBack(f)
  /\ page_table' = Remap(f, p)
  /\ pages' = [pages EXCEPT ![f] = [id |-> p, data |-> Zero,
                                    is_dirty |-> FALSE, pin_count |-> 1]]
  /\ free_list' = FreeListAfterVictim
  /\ LRUlist' = ReplacerPin(LRUAfterVictim, f)
  /\ held' = [held EXCEPT ![c] = [frame |-> f, page |-> p, dirty |-> TRUE]]
  /\ UNCHANGED io_errors

\* The page number is already taken when update_page throws.
NewPageWriteThrows(fd) ==
  /\ MustWriteBack(Victim)
  /\ IOError
  /\ fd2pageno' = [fd2pageno EXCEPT ![fd] = @ + 1]
  /\ free_list' = FreeListAfterVictim
  /\ LRUlist' = LRUAfterVictim
  /\ UNCHANGED <<pages, page_table, disk, held>>

(***************************************************************************)
(* Both callers of new_page (create_new_page_handle and create_node) write *)
(* a page header and unpin the page as dirty.                              *)
(***************************************************************************)
new_page(c, fd) ==
  /\ held[c] = NoHold
  /\ fd2pageno[fd] < MaxPages
  /\ CanFindVictim
  /\ NewPage(c, fd) \/ NewPageWriteThrows(fd)

delete_page(p) ==
  LET f == Lookup(p) IN
  /\ f # NoFrame
  /\ pages[f].pin_count = 0
  /\ LRUlist' = ReplacerPin(LRUlist, f)
  /\ \/ /\ disk' = WriteBack(f)
        /\ page_table' = Remap(f, InvalidPage)
        /\ pages' = [pages EXCEPT ![f] = ResetPage(InvalidPage)]
        /\ free_list' = Append(free_list, f)
        /\ UNCHANGED io_errors
     \/ /\ MustWriteBack(f)
        /\ IOError
        /\ UNCHANGED <<disk, page_table, pages, free_list>>
  /\ UNCHANGED <<fd2pageno, held>>

\* Write the pages of S to disk and mark them clean.
FlushPages(S) ==
  /\ disk' = write_pages(disk, S, [p \in S |-> pages[page_table[p]].data])
  /\ pages' = [f \in Frame |->
                 IF \E p \in S : page_table[p] = f
                   THEN [pages[f] EXCEPT !.is_dirty = FALSE] ELSE pages[f]]
  /\ UNCHANGED <<page_table, free_list, LRUlist, fd2pageno, held>>

flush_page(p) ==
  /\ Lookup(p) # NoFrame
  /\ FlushPages({p})
  /\ UNCHANGED io_errors

\* The walk over page_table_ stops at the first write that throws.
flush_all_pages(fd) ==
  LET cached == {p \in PageId : p[1] = fd /\ Lookup(p) # NoFrame} IN
  \/ FlushPages(cached) /\ UNCHANGED io_errors
  \/ \E S \in SUBSET cached : S # cached /\ FlushPages(S) /\ IOError

\* A client changes the page through its pointer; it will unpin it as dirty.
WriteData(c, v) ==
  /\ held[c] # NoHold
  /\ pages' = [pages EXCEPT ![held[c].frame].data = v]
  /\ held' = [held EXCEPT ![c].dirty = TRUE]
  /\ UNCHANGED <<page_table, free_list, LRUlist, fd2pageno, disk, io_errors>>

Next ==
  \/ \E c \in Client, p \in PageId : fetch_page(c, p)
  \/ \E c \in Client : unpin_page(c)
  \/ \E c \in Client, fd \in Fd : new_page(c, fd)
  \/ \E c \in Client, v \in Data : WriteData(c, v)
  \/ \E p \in PageId : delete_page(p)
  \/ \E p \in PageId : flush_page(p)
  \/ \E fd \in Fd : flush_all_pages(fd)

Spec == Init /\ [][Next]_vars
-----------------------------------------------------------------------------
(***************************************************************************)
(* The fields of BufferPoolManager, of its frames and of its clients keep  *)
(* the types their declarations give them.                                 *)
(***************************************************************************)
TypeOK ==
  /\ pages \in [Frame -> Page]
  /\ page_table \in [PageId -> Frame \cup {NoFrame}]
  /\ free_list \in Seq(Frame)
  /\ LRUlist \in Seq(Frame)
  /\ fd2pageno \in [Fd -> 0..MaxPages]
  /\ disk \in [PageId -> Data \cup {Absent}]
  /\ held \in [Client -> Hold]
  /\ io_errors \in 0..MaxIOErrors

(***************************************************************************)
(* The page table and the Page metadata agree: an id is mapped to a frame  *)
(* exactly when that frame caches the page (update_page erases the old id  *)
(* and enters the new one).  In particular no page is cached twice.        *)
(***************************************************************************)
PageTableSync ==
  \A p \in PageId, f \in Frame : page_table[p] = f <=> pages[f].id = p

(***************************************************************************)
(* A frame in use stays put: the pin count of a frame is the number of     *)
(* clients that hold it, and the page a client asked for is still mapped   *)
(* to the frame its pointer names (fetch_page, unpin_page, find_victim).   *)
(***************************************************************************)
PinsAreHolders ==
  /\ \A f \in Frame : pages[f].pin_count = Cardinality(Holders(f))
  /\ \A c \in Client :
       held[c] # NoHold => /\ held[c].page \in PageId
                           /\ page_table[held[c].page] = held[c].frame

(***************************************************************************)
(* find_victim_page never hands out a frame in use: the free list and the  *)
(* replacer hold each frame once, the free list frames without a page and  *)
(* the replacer unpinned frames with one.  Holds with I/O errors too.      *)
(***************************************************************************)
VictimsUnused ==
  /\ IsInjective(free_list)
  /\ IsInjective(LRUlist)
  /\ \A f \in Range(free_list) : pages[f].id = InvalidPage /\ pages[f].pin_count = 0
  /\ \A f \in Range(LRUlist) : pages[f].id # InvalidPage /\ pages[f].pin_count = 0

(***************************************************************************)
(* No frame is lost: a frame that is neither free nor evictable is pinned, *)
(* so fetch_page and new_page return nullptr only when every frame is.     *)
(* (An exception out of the write-back of a victim loses the victim.)      *)
(***************************************************************************)
NoFrameLost ==
  io_errors = 0 => \A f \in Frame :
    f \in Range(free_list) \/ f \in Range(LRUlist) \/ pages[f].pin_count > 0

(***************************************************************************)
(* No page is lost: an allocated page that is not cached is on disk, also  *)
(* when it was never written between new_page and its eviction.            *)
(***************************************************************************)
UncachedOnDisk ==
  io_errors = 0 => \A p \in PageId :
    allocated(p) /\ page_table[p] = NoFrame => disk[p] # Absent

(***************************************************************************)
(* No update is lost: a cached page is the page on disk unless it is       *)
(* marked dirty or a client that changed it has yet to unpin it, so an     *)
(* eviction without write-back drops nothing (update_page, unpin_page).    *)
(***************************************************************************)
CleanIsOnDisk ==
  io_errors = 0 => \A f \in Frame :
    \/ pages[f].id = InvalidPage
    \/ pages[f].is_dirty
    \/ \E c \in Holders(f) : held[c].dirty
    \/ disk[pages[f].id] = pages[f].data

(***************************************************************************)
(* The contents of a page as a client sees them: those of its frame, or    *)
(* what the next fetch_page reads.                                         *)
(***************************************************************************)
Stored(p) ==
  IF ~allocated(p) THEN Absent
  ELSE IF page_table[p] # NoFrame THEN pages[page_table[p]].data
  ELSE disk[p]

Store == INSTANCE PageStore WITH
  NoPage <- InvalidPage,
  store <- [p \in PageId |-> Stored(p)],
  open <- [c \in Client |-> held[c].page]

(***************************************************************************)
(* The pool implements PageStore: hits, misses, evictions, write-backs,    *)
(* flushes and deletions in the pool are invisible to the clients, up to   *)
(* the first read or write that fails.                                     *)
(***************************************************************************)
ImplementsPageStore == Store!Init /\ [][io_errors' = 0 => Store!Next]_(Store!store_vars)
=============================================================================
