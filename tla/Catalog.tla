------------------------------ MODULE Catalog ------------------------------
(***************************************************************************)
(* SmManager: the statements that change the catalog, and the files each   *)
(* of them creates, destroys and rewrites, one disk operation at a time,   *)
(* so that the process can be killed and the disk be full between any two. *)
(*                                                                         *)
(* Names are sequences of the parts between underscores, since an index    *)
(* file is named after its table and columns joined by underscores.  The   *)
(* rows of a table are not modelled: whether a new unique index meets a    *)
(* duplicate is open.  One session issues these statements at a time.      *)
(***************************************************************************)
EXTENDS DbMeta, Layout, FiniteSets, TLC

CONSTANTS
  Table,       \* names of tables
  Schemas,     \* what CREATE TABLE may say of each: sequences of [name, type, len]
  Keys,        \* what CREATE INDEX and DROP INDEX may say
  MaxIndexes,  \* bound on the indexes of a table
  MaxFaults    \* bound on kills and on writes that fail on a full disk

ASSUME CatalogAssumption ==
  /\ MaxIndexes \in Nat
  /\ MaxFaults \in Nat
  /\ \A t \in Table : \A s \in Schemas[t] : \A i \in DOMAIN s : s[i].len \in Nat

VARIABLES
  dir,         \* the directory of the database exists
  files,       \* its files and what is in their header page
  meta,        \* the words of db.meta
  proc,        \* down, creating (in create_db) or up
  db_, fhs_, ihs_,   \* SmManager's
  path2fd_,    \* the open files, DiskManager::path2fd_
  op,          \* the statement in progress and how far it is
  acked,       \* the catalogs the clients may see after a restart
  lost,        \* what is on disk need not be a catalog
  torn,        \* since the directory was made, a drop_table has thrown after
               \* it had removed an index
  clean,       \* since the directory was made, no statement was cut short
               \* and no catalog was lost
  faults

disk == <<dir, files, meta>>
memory == <<db_, fhs_, ihs_, path2fd_>>
history == <<acked, lost, torn, clean>>
vars == <<dir, files, meta, proc, db_, fhs_, ihs_, path2fd_, op, acked, lost, torn, clean, faults>>

Empty == [x \in {} |-> x]
Absent == <<"absent">>
Without(f, S) == [x \in DOMAIN f \ S |-> f[x]]

Blank == << >>
LOG_FILE_NAME == <<"db.log">>
get_index_name(t, col_names) == Append(t \o FlattenSeq(col_names), ".idx")

IndexKeys(tab) == [i \in DOMAIN tab.indexes |->
                     [j \in DOMAIN tab.indexes[i].cols |-> tab.indexes[i].cols[j].name]]
IndexFiles(tab) == {get_index_name(tab.name, IndexKeys(tab)[i]) : i \in DOMAIN tab.indexes}
FilesOf(tabs) == DOMAIN tabs \cup UNION {IndexFiles(tabs[t]) : t \in DOMAIN tabs}

NoOp == [stmt |-> "none", pc |-> "idle", tab |-> << >>, schema |-> << >>, key |-> << >>,
         todo |-> << >>]
Idle == proc = "up" /\ op = NoOp

\* The catalog as a client knows it: columns and keys of every table.
Visible(tabs) ==
  [t \in DOMAIN tabs |->
     [cols |-> [i \in DOMAIN tabs[t].cols |-> [name |-> tabs[t].cols[i].name,
                                               type |-> tabs[t].cols[i].type,
                                               len |-> tabs[t].cols[i].len]],
      keys |-> Range(IndexKeys(tabs[t]))]]

\* What the statement in progress does to it, once it is through.
Effect(c) ==
  CASE op.stmt = "create_table" -> (op.tab :> [cols |-> op.schema, keys |-> {}]) @@ c
    [] op.stmt = "drop_table" -> Without(c, {op.tab})
    [] op.stmt = "create_index" -> [c EXCEPT ![op.tab].keys = @ \cup {op.key}]
    [] op.stmt = "drop_index" -> [c EXCEPT ![op.tab].keys = @ \ {op.key}]
    [] OTHER -> c

Init ==
  /\ dir = FALSE
  /\ files = Empty
  /\ meta = Absent
  /\ proc = "down"
  /\ db_ = Empty /\ fhs_ = Empty /\ ihs_ = Empty
  /\ path2fd_ = {}
  /\ op = NoOp
  /\ acked = {Empty}
  /\ lost = FALSE
  /\ torn = FALSE
  /\ clean = TRUE
  /\ faults = 0
-----------------------------------------------------------------------------
At(pc) == proc # "down" /\ op.pc = pc
Goto(pc) == op' = [op EXCEPT !.pc = pc]

\* A thrown error: the statement is over.
Throw == op' = NoOp

\* A kill, or a write that fails on a full disk.
Fault == faults < MaxFaults /\ faults' = faults + 1

\* create_db: mkdir, db.meta opened (and written when ofs goes), db.log.
create_db ==
  /\ proc = "down" /\ ~dir
  /\ dir' = TRUE
  /\ proc' = "creating"
  /\ op' = [NoOp EXCEPT !.stmt = "create_db", !.pc = "cd_meta"]
  /\ UNCHANGED <<files, meta, memory, history, faults>>

create_db_meta ==
  /\ At("cd_meta")
  /\ meta' = << >>
  /\ Goto("cd_log")
  /\ UNCHANGED <<dir, files, proc, memory, history, faults>>

create_db_log ==
  /\ At("cd_log")
  /\ files' = (LOG_FILE_NAME :> Blank) @@ files
  /\ Goto("cd_write")
  /\ UNCHANGED <<dir, meta, proc, memory, history, faults>>

\* A failure to write db.meta is not noticed.
create_db_write ==
  /\ At("cd_write")
  /\ \/ meta' = DbWords("db", Empty) /\ UNCHANGED <<lost, faults>>
     \/ Fault /\ lost' = TRUE /\ UNCHANGED meta
  /\ proc' = "down"
  /\ op' = NoOp
  /\ UNCHANGED <<dir, files, memory, acked, torn, clean>>

\* rm -r; no statement of the server does it.
drop_db ==
  /\ proc = "down" /\ dir
  /\ dir' = FALSE
  /\ files' = Empty
  /\ meta' = Absent
  /\ acked' = {Empty}
  /\ lost' = FALSE
  /\ torn' = FALSE
  /\ clean' = TRUE
  /\ UNCHANGED <<proc, memory, op, faults>>

\* Opening every file succeeds: it has its header, and no name comes twice.
Openable(tabs) ==
  /\ \A f \in FilesOf(tabs) : f \in DOMAIN files /\ files[f] # Blank
  /\ \A t \in DOMAIN tabs : Cardinality(IndexFiles(tabs[t])) = Len(tabs[t].indexes)
  /\ \A t, u \in DOMAIN tabs : t # u => IndexFiles(tabs[t]) \cap IndexFiles(tabs[u]) = {}

\* What operator>> makes of db.meta.  The count read from an empty file is
\* indeterminate: no table, or a table without a name, whose file is missing.
Readings == IF meta = << >> THEN {Empty, << >> :> TabMeta(<< >>, << >>, << >>)}
            ELSE {ReadDb(meta)}

\* main, when the directory exists: open_db, or exit on an RMDBError.
open_db ==
  /\ proc = "down" /\ dir
  /\ IF meta = Absent THEN UNCHANGED vars
     ELSE \E tabs \in Readings :
       IF ~Openable(tabs) THEN UNCHANGED vars
       ELSE /\ proc' = "up"
            /\ db_' = tabs
            /\ fhs_' = [t \in DOMAIN tabs |-> RmHdrOf(files[t])]
            /\ ihs_' = [f \in FilesOf(tabs) \ DOMAIN tabs |-> deserialize(files[f])]
            /\ path2fd_' = FilesOf(tabs)
            /\ acked' = {Visible(tabs)}
            /\ clean' = (clean /\ ~lost)
            /\ UNCHANGED <<disk, op, lost, torn, faults>>
-----------------------------------------------------------------------------
ColMetas(t, schema) ==
  [i \in DOMAIN schema |-> ColMeta(t, schema[i].name, schema[i].type, schema[i].len,
                                   SumLens(SubSeq(schema, 1, i - 1)), FALSE)]

\* Checks of create_table, RmManager::create_file and DiskManager::create_file.
create_table(t, schema) ==
  /\ Idle
  /\ t \notin DOMAIN db_
  /\ SumLens(schema) \in 1..RM_MAX_RECORD_SIZE
  /\ t \notin DOMAIN files
  /\ files' = (t :> Blank) @@ files
  /\ op' = [NoOp EXCEPT !.stmt = "create_table", !.tab = t, !.schema = schema, !.pc = "ct_format"]
  /\ UNCHANGED <<dir, meta, proc, memory, history, faults>>

\* The header is written, and the file closed; then the catalog entry is made
\* and the file opened.  A failed write leaves the new file behind, open.
create_table_format ==
  /\ At("ct_format")
  /\ \/ LET hdr == RmHdrWords(RmFileHdr(SumLens(op.schema))) IN
        /\ files' = [files EXCEPT ![op.tab] = hdr]
        /\ db_' = (op.tab :> TabMeta(op.tab, ColMetas(op.tab, op.schema), << >>)) @@ db_
        /\ fhs_' = (op.tab :> RmHdrOf(hdr)) @@ fhs_
        /\ Goto("flush")
        /\ UNCHANGED <<clean, faults>>
     \/ Fault /\ Throw /\ clean' = FALSE /\ UNCHANGED <<files, db_, fhs_>>
  /\ path2fd_' = path2fd_ \cup {op.tab}
  /\ UNCHANGED <<dir, meta, proc, ihs_, acked, lost, torn>>

\* ofstream ofs(DB_META_NAME) empties the file.
flush_meta ==
  /\ At("flush")
  /\ meta' = << >>
  /\ Goto("flushing")
  /\ UNCHANGED <<dir, files, proc, memory, history, faults>>

\* It is written when ofs goes, and a failure to write is not noticed.  The
\* statement is answered, or the process ends.
flush_meta_write ==
  /\ At("flushing")
  /\ \/ meta' = DbWords("db", db_) /\ lost' = torn /\ UNCHANGED faults
     \/ Fault /\ lost' = TRUE /\ UNCHANGED meta
  /\ acked' = {Effect(c) : c \in acked}
  /\ op' = NoOp
  /\ IF op.stmt = "close_db"
       THEN proc' = "down" /\ db_' = Empty /\ path2fd_' = {} /\ UNCHANGED <<fhs_, ihs_>>
       ELSE UNCHANGED <<proc, memory>>
  /\ UNCHANGED <<dir, files, torn, clean>>
-----------------------------------------------------------------------------
\* The columns of the key as they are now.
KeyCols(tab, key) == [i \in DOMAIN key |-> tab.cols[get_col(tab, key[i])]]

\* The checks of create_index, and DiskManager::create_file.
create_index(t, key) ==
  /\ Idle
  /\ t \in DOMAIN db_
  /\ ~is_index(db_[t], key)
  /\ \A i \in DOMAIN key : is_col(db_[t], key[i])
  /\ Len(db_[t].indexes) < MaxIndexes
  /\ get_index_name(t, key) \notin DOMAIN files
  /\ files' = (get_index_name(t, key) :> Blank) @@ files
  /\ op' = [NoOp EXCEPT !.stmt = "create_index", !.tab = t, !.key = key, !.pc = "ci_format"]
  /\ UNCHANGED <<dir, meta, proc, memory, history, faults>>

\* IxManager::create_index: a key that is too long, or a failed write, leaves
\* the new file behind, open.
create_index_format ==
  LET f == get_index_name(op.tab, op.key)
      cols == KeyCols(db_[op.tab], op.key)
  IN
  /\ At("ci_format")
  /\ \/ /\ SumLens(cols) <= IX_MAX_COL_LEN
        /\ files' = [files EXCEPT ![f] =
             serialize(IxFileHdr([i \in DOMAIN cols |-> cols[i].type],
                                 [i \in DOMAIN cols |-> cols[i].len], SumLens(cols)))]
        /\ Goto("ci_build")
        /\ UNCHANGED <<path2fd_, clean, faults>>
     \/ /\ IF SumLens(cols) > IX_MAX_COL_LEN THEN UNCHANGED faults ELSE Fault
        /\ Throw
        /\ path2fd_' = path2fd_ \cup {f}
        /\ clean' = FALSE
        /\ UNCHANGED files
  /\ UNCHANGED <<dir, meta, proc, db_, fhs_, ihs_, acked, lost, torn>>

\* Mutant: the file of a failed index stays.
Kept(f) == files

\* destroy_index.
Destroyed(f) == Without(files, {f})

\* open_index and the loop over the table.  A duplicate key, or an insert_entry
\* that cannot write a page, closes and destroys the new file; a close_index that
\* throws in turn leaves it behind, open.
create_index_build ==
  LET f == get_index_name(op.tab, op.key)
      tab == db_[op.tab]
      cols == KeyCols(tab, op.key)
      marked == {get_col(tab, op.key[i]) : i \in DOMAIN op.key}
  IN
  /\ At("ci_build")
  /\ \/ /\ db_' = [db_ EXCEPT ![op.tab] =
                     TabMeta(op.tab,
                             [i \in DOMAIN tab.cols |->
                                IF i \in marked THEN [tab.cols[i] EXCEPT !.index = TRUE]
                                ELSE tab.cols[i]],
                             Append(tab.indexes, IndexMeta(op.tab, SumLens(cols), cols)))]
        /\ ihs_' = (f :> deserialize(files[f])) @@ ihs_
        /\ path2fd_' = path2fd_ \cup {f}
        /\ Goto("flush")
        /\ UNCHANGED <<files, clean, faults>>
     \/ /\ files' = Destroyed(f)
        /\ Throw
        /\ UNCHANGED <<db_, ihs_, path2fd_, clean, faults>>
     \/ /\ Fault /\ Throw
        /\ path2fd_' = path2fd_ \cup {f}
        /\ clean' = FALSE
        /\ UNCHANGED <<files, db_, ihs_>>
  /\ UNCHANGED <<dir, meta, proc, fhs_, acked, lost, torn>>
-----------------------------------------------------------------------------
drop_table(t) ==
  /\ Idle
  /\ t \in DOMAIN db_
  /\ op' = [NoOp EXCEPT !.stmt = "drop_table", !.tab = t, !.pc = "drop_ix",
                        !.todo = IndexKeys(db_[t])]
  /\ UNCHANGED <<disk, proc, memory, history, faults>>

\* close_index or close_file, which write the header and the pages, throw: the
\* handle stays, what is removed stays removed, and the catalog keeps its entry.
drop_table_throws ==
  LET begun == op.todo # IndexKeys(db_[op.tab]) IN
  /\ Fault /\ Throw
  /\ torn' = (torn \/ begun)
  /\ lost' = (lost \/ begun)
  /\ clean' = (clean /\ ~begun)
  /\ UNCHANGED <<files, db_, fhs_, ihs_, path2fd_>>

\* One index: close_index if it has a handle, then destroy_index, which throws
\* on a file that is missing or still open.
drop_table_index ==
  LET f == get_index_name(op.tab, Head(op.todo)) IN
  /\ At("drop_ix")
  /\ op.todo # << >>
  /\ \/ f \in DOMAIN ihs_ /\ drop_table_throws
     \/ /\ ihs_' = Without(ihs_, {f})
        /\ path2fd_' = IF f \in DOMAIN ihs_ THEN path2fd_ \ {f} ELSE path2fd_
        /\ IF f \in DOMAIN files \ path2fd_'
             THEN files' = Without(files, {f}) /\ op' = [op EXCEPT !.todo = Tail(@)]
             ELSE Throw /\ UNCHANGED files
        /\ UNCHANGED <<db_, fhs_, lost, torn, clean, faults>>
  /\ UNCHANGED <<dir, meta, proc, acked>>

\* The file of the table, and its entry.
drop_table_file ==
  /\ At("drop_ix")
  /\ op.todo = << >>
  /\ \/ op.tab \in DOMAIN fhs_ /\ drop_table_throws
     \/ /\ fhs_' = Without(fhs_, {op.tab})
        /\ path2fd_' = IF op.tab \in DOMAIN fhs_ THEN path2fd_ \ {op.tab} ELSE path2fd_
        /\ IF op.tab \in DOMAIN files \ path2fd_'
             THEN files' = Without(files, {op.tab}) /\ db_' = Without(db_, {op.tab}) /\ Goto("flush")
             ELSE Throw /\ UNCHANGED <<files, db_>>
        /\ UNCHANGED <<ihs_, lost, torn, clean, faults>>
  /\ UNCHANGED <<dir, meta, proc, acked>>

\* Mutant: the columns of the dropped index are unmarked, whatever else has them.
UnmarkKey(cols, indexes, key) ==
  [i \in DOMAIN cols |-> [cols[i] EXCEPT !.index = @ /\ cols[i].name \notin Range(key)]]

\* A column is marked as long as an index has it.
Remarked(cols, indexes, key) ==
  [i \in DOMAIN cols |->
     [cols[i] EXCEPT !.index = \E j \in DOMAIN indexes :
        \E k \in DOMAIN indexes[j].cols : indexes[j].cols[k].name = cols[i].name]]

\* drop_index up to flush_meta; the file goes before the entry.  A close_index
\* that throws has changed nothing.
drop_index(t, key) ==
  LET f == get_index_name(t, key)
      rest == RemoveAt(db_[t].indexes, get_index_meta(db_[t], key))
  IN
  /\ Idle
  /\ t \in DOMAIN db_
  /\ is_index(db_[t], key)
  /\ \/ f \in DOMAIN ihs_ /\ Fault /\ UNCHANGED <<files, db_, ihs_, path2fd_, op>>
     \/ /\ ihs_' = Without(ihs_, {f})
        /\ path2fd_' = IF f \in DOMAIN ihs_ THEN path2fd_ \ {f} ELSE path2fd_
        /\ IF f \in DOMAIN files \ path2fd_'
             THEN /\ files' = Without(files, {f})
                  /\ db_' = [db_ EXCEPT ![t] = TabMeta(t, Remarked(db_[t].cols, rest, key), rest)]
                  /\ op' = [NoOp EXCEPT !.stmt = "drop_index", !.tab = t, !.key = key, !.pc = "flush"]
             ELSE UNCHANGED <<files, db_, op>>
        /\ UNCHANGED faults
  /\ UNCHANGED <<dir, meta, proc, fhs_, history>>
-----------------------------------------------------------------------------
\* Mutant: the catalog is cleared with the handles, before it is written.
ClearedFirst ==
  /\ Idle
  /\ fhs_' = Empty /\ ihs_' = Empty /\ db_' = Empty
  /\ path2fd_' = path2fd_ \ (DOMAIN fhs_ \cup DOMAIN ihs_)
  /\ op' = [NoOp EXCEPT !.stmt = "close_db", !.pc = "flush"]
  /\ UNCHANGED <<disk, proc, history, faults>>

\* Closes every file, then writes db.meta a last time.  When closing a file
\* throws, main ends without that.
close_db ==
  /\ Idle
  /\ fhs_' = Empty /\ ihs_' = Empty
  /\ \/ /\ path2fd_' = path2fd_ \ (DOMAIN fhs_ \cup DOMAIN ihs_)
        /\ op' = [NoOp EXCEPT !.stmt = "close_db", !.pc = "flush"]
        /\ UNCHANGED <<proc, db_, faults>>
     \/ /\ DOMAIN fhs_ \cup DOMAIN ihs_ # {}
        /\ Fault
        /\ proc' = "down" /\ db_' = Empty /\ path2fd_' = {}
        /\ UNCHANGED op
  /\ UNCHANGED <<disk, history>>

\* A kill here leaves a db.meta that is missing, empty, or names files that
\* are gone.
Window ==
  \/ op.stmt = "create_db"
  \/ op.pc = "flushing"
  \/ op.stmt \in {"drop_table", "drop_index"} /\ ~(op.pc = "drop_ix" /\ op.todo = IndexKeys(db_[op.tab]))

\* The process is killed.
crash ==
  /\ proc # "down"
  /\ Fault
  /\ proc' = "down"
  /\ db_' = Empty /\ fhs_' = Empty /\ ihs_' = Empty
  /\ path2fd_' = {}
  /\ op' = NoOp
  /\ lost' = (lost \/ Window)
  /\ clean' = (clean /\ op = NoOp)
  /\ acked' = acked \cup {Effect(c) : c \in acked}
  /\ UNCHANGED <<disk, torn>>

Next ==
  \/ create_db \/ create_db_meta \/ create_db_log \/ create_db_write
  \/ drop_db \/ open_db \/ close_db \/ crash
  \/ \E t \in Table :
       \/ \E s \in Schemas[t] : create_table(t, s)
       \/ \E k \in Keys : create_index(t, k) \/ drop_index(t, k)
       \/ drop_table(t)
  \/ create_table_format \/ create_index_format \/ create_index_build
  \/ drop_table_index \/ drop_table_file
  \/ flush_meta \/ flush_meta_write

Spec == Init /\ [][Next]_vars
-----------------------------------------------------------------------------
(***************************************************************************)
(* Between statements the catalog is what the statements that were         *)
(* answered made it, statements that failed half way having changed        *)
(* nothing (create_index cleans up after a duplicate, the others change    *)
(* db_ only after what can fail).                                          *)
(***************************************************************************)
CatalogIsAcked == Idle => acked = {Visible(db_)}

(***************************************************************************)
(* Whenever the server is down, it can be started again, and has every     *)
(* statement that was answered; the one that was in progress is there or   *)
(* not.  The exceptions are a kill while db.meta is being rewritten or     *)
(* between the removal of a file and the end of its statement, a full disk *)
(* that create_db or flush_meta does not notice, and a drop_table that     *)
(* threw on a full disk after it had removed an index.                     *)
(***************************************************************************)
SurvivesCrash ==
  proc = "down" /\ dir /\ ~lost =>
    /\ meta # Absent /\ meta # << >>
    /\ Openable(ReadDb(meta))
    /\ Visible(ReadDb(meta)) \in acked

(***************************************************************************)
(* Between statements every table and index has its file and its handle,   *)
(* and db.meta, read back, is the catalog.  Files that no one owns, or     *)
(* that stay open, are left only by a statement that was cut short.  The   *)
(* exceptions are a db.meta that a full disk kept from being written, and  *)
(* the indexes once a drop_table has thrown after it had removed one.      *)
(***************************************************************************)
FilesMatchCatalog ==
  Idle =>
    /\ DOMAIN fhs_ = DOMAIN db_
    /\ DOMAIN db_ \subseteq DOMAIN files \cap path2fd_
    /\ ~torn => /\ DOMAIN ihs_ = FilesOf(db_) \ DOMAIN db_
                /\ DOMAIN ihs_ \subseteq DOMAIN files \cap path2fd_
    /\ ~lost => ReadDb(meta) = db_
    /\ clean => DOMAIN files = FilesOf(db_) \cup {LOG_FILE_NAME} /\ path2fd_ = FilesOf(db_)

(***************************************************************************)
(* The handle of every table and of every index was made for its columns:  *)
(* t(a_b), t(a, b) and t_a(b), which all want the file t_a_b.idx, never    *)
(* share it.  The records and keys of the header fit on a page.  The       *)
(* indexes are excepted once a drop_table has thrown after it had removed  *)
(* one: it has no handle, and its file name is free for another index,     *)
(* while the catalog still has it.                                         *)
(***************************************************************************)
HandlesMatchCatalog ==
  Idle => \A t \in DOMAIN db_ :
    /\ fhs_[t].record_size = SumLens(db_[t].cols)
    /\ RecordsFit(fhs_[t]) /\ BitsSuffice(fhs_[t])
    /\ ~torn => \A i \in DOMAIN db_[t].indexes :
         LET index == db_[t].indexes[i]
             hdr == ihs_[get_index_name(t, IndexKeys(db_[t])[i])]
         IN /\ hdr.col_lens = [j \in DOMAIN index.cols |-> index.cols[j].len]
            /\ hdr.col_types = [j \in DOMAIN index.cols |-> index.cols[j].type]
            /\ hdr.col_tot_len = index.col_tot_len
            /\ KeysFit(hdr) /\ OrderSuffices(hdr)

(***************************************************************************)
(* DESC says of a column that it is indexed exactly if an index has it,    *)
(* through any sequence of create_index and drop_index with common columns *)
(* and across restarts.                                                    *)
(***************************************************************************)
MarksAreRight ==
  Idle => \A t \in DOMAIN db_ : \A i \in DOMAIN db_[t].cols :
    db_[t].cols[i].index <=>
      \E k \in Range(IndexKeys(db_[t])) : db_[t].cols[i].name \in Range(k)
=============================================================================
