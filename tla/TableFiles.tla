----------------------------- MODULE TableFiles -----------------------------
(***************************************************************************)
(* The files under the buffer pool: RmManager and IxManager create, open,  *)
(* close and destroy them through DiskManager, and SmManager::close_db     *)
(* closes them all when the server stops.                                  *)
(*                                                                         *)
(* The pool names a page by file descriptor and page number.  While a file *)
(* is open, disk holds its pages under its descriptor; the contents it has *)
(* at other times are in files.  Page 0, the file header, does not pass    *)
(* through the pool: what matters of it is num_pages.                      *)
(***************************************************************************)
EXTENDS BufferPool

CONSTANT Path   \* the names of tables

VARIABLES
  files,     \* the files of the database directory
  path2fd    \* DiskManager::path2fd_

all_vars == <<vars, files, path2fd>>

PageNo == 0..MaxPages-1
RM_FILE_HDR_PAGE == 0
NoFd == -1
NoFile == [num_pages |-> 0, pages |-> [n \in PageNo |-> Absent]]

OpenFds == {path2fd[t] : t \in Path} \ {NoFd}
PathOf(fd) == CHOOSE t \in Path : path2fd[t] = fd

FilesInit ==
  /\ Init
  /\ files = [t \in Path |-> NoFile]
  /\ path2fd = [t \in Path |-> NoFd]
-----------------------------------------------------------------------------
\* open(2) returns the lowest descriptor not in use.
FreshFd == CHOOSE fd \in Fd \ OpenFds : \A other \in Fd \ OpenFds : fd <= other

\* DiskManager::create_file, and the header written to page 0.
create_file(t) ==
  /\ files[t] = NoFile
  /\ files' = [files EXCEPT ![t] =
       [num_pages |-> 1, pages |-> [NoFile.pages EXCEPT ![RM_FILE_HDR_PAGE] = Zero]]]
  /\ UNCHANGED <<vars, path2fd>>

\* Mutant: page numbers start over when a file is opened.
CountFromOne(t) == 1

\* set_fd2pageno: allocation goes on where the file ends.
NextPageNo(t) == files[t].num_pages

open_file(t) ==
  LET fd == FreshFd IN
  /\ files[t] # NoFile
  /\ path2fd[t] = NoFd
  /\ Fd \ OpenFds # {}
  /\ path2fd' = [path2fd EXCEPT ![t] = fd]
  /\ fd2pageno' = [fd2pageno EXCEPT ![fd] = NextPageNo(t)]
  /\ disk' = [p \in PageId |-> IF p[1] = fd THEN files[t].pages[p[2]] ELSE disk[p]]
  /\ UNCHANGED <<pages, page_table, free_list, LRUlist, held, io_errors, files>>

Cached(fd) == {p \in PageId : p[1] = fd /\ page_table[p] # NoFrame}

\* Mutant: close_file does not flush.
FlushedNever(fd) == disk

\* The file once flush_all_pages(fd) has written its cached pages.
Flushed(fd) ==
  write_pages(disk, Cached(fd), [p \in Cached(fd) |-> pages[page_table[p]].data])

\* What close_file leaves in the file: the header and the flushed pages.
ClosedFile(t) ==
  [num_pages |-> fd2pageno[path2fd[t]],
   pages |-> [n \in PageNo |-> Flushed(path2fd[t])[<<path2fd[t], n>>]]]

InUse(fd) == \E c \in Client : held[c].page[1] = fd

(***************************************************************************)
(* What drop_table and drop_index do to a file while the server runs:      *)
(* close_file, then destroy_file.  The frames that cache its pages, now    *)
(* clean, keep them.                                                       *)
(***************************************************************************)
drop_file(t) ==
  LET fd == path2fd[t] IN
  /\ fd # NoFd
  /\ ~InUse(fd)
  /\ files' = [files EXCEPT ![t] = NoFile]
  /\ path2fd' = [path2fd EXCEPT ![t] = NoFd]
  /\ FlushPages(Cached(fd))
  /\ UNCHANGED io_errors

\* close_db, the end of the process, and a new one with an empty pool.
close_db ==
  /\ OpenFds # {}
  /\ \A c \in Client : held[c] = NoHold
  /\ files' = [t \in Path |-> IF path2fd[t] = NoFd THEN files[t] ELSE ClosedFile(t)]
  /\ path2fd' = [t \in Path |-> NoFd]
  /\ pages' = [f \in Frame |-> ResetPage(InvalidPage)]
  /\ page_table' = [p \in PageId |-> NoFrame]
  /\ free_list' = InitialFreeList
  /\ LRUlist' = << >>
  /\ fd2pageno' = [fd \in Fd |-> 0]
  /\ disk' = [p \in PageId |-> Absent]
  /\ UNCHANGED <<held, io_errors>>

\* The sessions use the pool for the pages of open files.
PoolStep ==
  /\ \/ \E c \in Client, fd \in OpenFds :
          \/ new_page(c, fd)
          \/ \E n \in PageNo \ {RM_FILE_HDR_PAGE} : fetch_page(c, <<fd, n>>)
     \/ \E c \in Client : unpin_page(c) \/ \E v \in Data : WriteData(c, v)
  /\ UNCHANGED <<files, path2fd>>

FilesNext ==
  \/ PoolStep
  \/ \E t \in Path : create_file(t) \/ open_file(t)
  \/ close_db

FilesSpec == FilesInit /\ [][FilesNext]_all_vars

DropSpec == FilesInit /\ [][FilesNext \/ \E t \in Path : drop_file(t)]_all_vars
-----------------------------------------------------------------------------
\* A page of a table, through the pool while the table's file is open.
Content(t, n) ==
  IF path2fd[t] # NoFd THEN Stored(<<path2fd[t], n>>)
  ELSE IF n < files[t].num_pages THEN files[t].pages[n]
  ELSE Absent

Tables == INSTANCE PageStore WITH
  NoPage <- InvalidPage,
  PageId <- Path \X (PageNo \ {RM_FILE_HDR_PAGE}),
  store <- [p \in Path \X (PageNo \ {RM_FILE_HDR_PAGE}) |-> Content(p[1], p[2])],
  open <- [c \in Client |-> IF held[c] = NoHold THEN InvalidPage
                            ELSE <<PathOf(held[c].page[1]), held[c].page[2]>>]

(***************************************************************************)
(* The pages of the tables outlive the descriptors they are cached under:  *)
(* with files created and opened at any time, and across close_db and a    *)
(* restart, the clients see one PageStore of (table, page) pairs.          *)
(***************************************************************************)
FilesImplementPageStore == Tables!Spec
=============================================================================
