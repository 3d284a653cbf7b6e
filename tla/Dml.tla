-------------------------------- MODULE Dml --------------------------------
(***************************************************************************)
(* The insert, delete and update executors, and create_index/drop_index,   *)
(* over one table and its unique indexes.                                  *)
(*                                                                         *)
(* The record file is a function from rids to rows (RecordFile has its     *)
(* pages), and an index is a set of <<key, rid>> pairs (BPlusTree has its  *)
(* nodes).  Each call of a record or index operation is one step, and the  *)
(* steps of the sessions interleave: the executors take no lock.           *)
(*                                                                         *)
(* Work[s] is the workload of session s: the rows it inserts, the WHERE    *)
(* conditions (as sets of rows) and the SET clauses it uses.  Nothing      *)
(* keeps the sessions from the same rows and keys; raced records when they *)
(* meet there.  create_index and drop_index are steps between statements   *)
(* (Quiet): an executor whose index is dropped under it uses a freed       *)
(* handle, which has no outcome to model.                                  *)
(***************************************************************************)
EXTENDS Naturals, FiniteSets, Sequences, Functions

CONSTANTS
  Session, Rid,
  Column, Value,
  IndexCols,     \* the column lists an index may be created on
  Work,          \* [Session -> [rows, wheres, sets]]
  NoRow, NoRid

Row == [Column -> Value]

ASSUME DmlAssumption ==
  /\ Rid \subseteq Nat
  /\ NoRow \notin Row /\ NoRid \notin Rid
  /\ IndexCols \subseteq Seq(Column)
  /\ \A s \in Session :
       /\ Work[s].rows \subseteq Row
       /\ Work[s].wheres \subseteq SUBSET Row
       /\ \A set \in Work[s].sets : \A c \in DOMAIN set : set[c] \in Value

VARIABLES
  table,     \* rid -> the row in that slot, or NoRow
  indexes,   \* tab.indexes: column lists, in the order they were created
  ihs,       \* column list -> the entries of the index
  session,   \* session -> its statement and how far it has come
  torn,      \* history: an update has thrown after it changed an index
  touched,   \* history: session -> the rows its statement removes or stores
  raced      \* history: two statements in progress had a row or a key in common

code_vars == <<table, indexes, ihs, session>>
vars == <<table, indexes, ihs, session, torn, touched, raced>>

Idle == [pc |-> "idle", tab |-> << >>, i |-> 1, rid |-> NoRid, rids |-> {},
         old |-> NoRow, new |-> NoRow, set |-> << >>]

Init ==
  /\ table = [r \in Rid |-> NoRow]
  /\ indexes = << >>
  /\ ihs = << >>
  /\ session = [s \in Session |-> Idle]
  /\ torn = FALSE
  /\ touched = [s \in Session |-> {}]
  /\ raced = FALSE
-----------------------------------------------------------------------------
\* The key of a row: its bytes in the index's columns, one after the other.
KeyOf(cols, row) == [j \in DOMAIN cols |-> row[cols[j]]]

get_value(entries, key) == {e[2] : e \in {e \in entries : e[1] = key}}

\* IxIndexHandle::insert_entry throws when the key is there (KeyTaken).
insert_entry(entries, key, rid) == entries \cup {<<key, rid>>}

\* Mutant: the entry stays.
EntryKept(entries, key) == entries

delete_entry(entries, key) == {e \in entries : e[1] # key}

\* tab_ is copied when the executor is built; ihs_ is shared.
Stmt(s) == session[s]
Cols(s) == Stmt(s).tab[Stmt(s).i]
MoreIndexes(s) == Stmt(s).i <= Len(Stmt(s).tab)
At(s, pc) == Stmt(s).pc = pc
Become(s, stmt) == session' = [session EXCEPT ![s] = stmt]
OldKey(s) == KeyOf(Cols(s), Stmt(s).old)
NewKey(s) == KeyOf(Cols(s), Stmt(s).new)
KeyTaken(s) == get_value(ihs[Cols(s)], NewKey(s)) # {}
Quiet == \A s \in Session : At(s, "idle")
-----------------------------------------------------------------------------
\* Bound: the inserts that have begun fit into Rid (the file would grow).
HasSpace ==
  Cardinality({s \in Session : At(s, "check")}) < Cardinality({r \in Rid : table[r] = NoRow})

(***************************************************************************)
(* InsertExecutor::Next: all unique keys are checked, then the record is   *)
(* stored, then each index gets its entry.                                 *)
(***************************************************************************)
insert_begin(s, row) ==
  /\ At(s, "idle")
  /\ HasSpace
  /\ Become(s, [Idle EXCEPT !.pc = "check", !.tab = indexes, !.new = row])
  /\ UNCHANGED <<table, indexes, ihs>>

\* Mutant: the key is not looked up.
NoDuplicate(s) == FALSE

InsertDuplicate(s) == get_value(ihs[Cols(s)], NewKey(s)) # {}

insert_check(s) ==
  /\ At(s, "check") /\ MoreIndexes(s)
  /\ Become(s, IF InsertDuplicate(s) THEN Idle ELSE [Stmt(s) EXCEPT !.i = @ + 1])
  /\ UNCHANGED <<table, indexes, ihs>>

insert_record(s) ==
  /\ At(s, "check") /\ ~MoreIndexes(s)
  /\ \E r \in {r \in Rid : table[r] = NoRow} :
       /\ table' = [table EXCEPT ![r] = Stmt(s).new]
       /\ Become(s, [Stmt(s) EXCEPT !.pc = "entries", !.i = 1, !.rid = r])
  /\ UNCHANGED <<indexes, ihs>>

\* When insert_entry throws the record stays, without its entries.
insert_entries(s) ==
  /\ At(s, "entries")
  /\ IF MoreIndexes(s) /\ ~KeyTaken(s)
       THEN /\ ihs' = [ihs EXCEPT ![Cols(s)] = insert_entry(@, NewKey(s), Stmt(s).rid)]
            /\ Become(s, [Stmt(s) EXCEPT !.i = @ + 1])
       ELSE Become(s, Idle) /\ UNCHANGED ihs
  /\ UNCHANGED <<table, indexes>>
-----------------------------------------------------------------------------
(***************************************************************************)
(* Portal::start runs the scan and keeps the rids; DeleteExecutor and      *)
(* UpdateExecutor then read each record again.  The order of the rids is   *)
(* that of a table scan or of an index scan, here any order.  get_record,  *)
(* delete_record and update_record throw when the record is gone.          *)
(***************************************************************************)
Matching(where) == {r \in Rid : table[r] \in where}

delete_begin(s, where) ==
  /\ At(s, "idle")
  /\ Become(s, [Idle EXCEPT !.pc = "delete", !.tab = indexes, !.rids = Matching(where)])
  /\ UNCHANGED <<table, indexes, ihs>>

delete_read(s) ==
  /\ At(s, "delete")
  /\ \E r \in Stmt(s).rids :
       Become(s, IF table[r] = NoRow THEN Idle
                 ELSE [Stmt(s) EXCEPT !.pc = "unindex", !.i = 1, !.rid = r,
                                      !.rids = @ \ {r}, !.old = table[r]])
  /\ UNCHANGED <<table, indexes, ihs>>

delete_entries(s) ==
  /\ At(s, "unindex") /\ MoreIndexes(s)
  /\ ihs' = [ihs EXCEPT ![Cols(s)] = delete_entry(@, KeyOf(Cols(s), Stmt(s).old))]
  /\ Become(s, [Stmt(s) EXCEPT !.i = @ + 1])
  /\ UNCHANGED <<table, indexes>>

delete_record(s) ==
  LET r == Stmt(s).rid IN
  /\ At(s, "unindex") /\ ~MoreIndexes(s)
  /\ Become(s, IF table[r] = NoRow THEN Idle
               ELSE [Idle EXCEPT !.pc = "delete", !.tab = Stmt(s).tab, !.rids = Stmt(s).rids])
  /\ table' = [table EXCEPT ![r] = NoRow]
  /\ UNCHANGED <<indexes, ihs>>

update_begin(s, where, set) ==
  /\ At(s, "idle")
  /\ Become(s, [Idle EXCEPT !.pc = "update", !.tab = indexes, !.set = set,
                            !.rids = Matching(where)])
  /\ UNCHANGED <<table, indexes, ihs>>

\* The new record: the old one with the SET clauses copied over it.
Updated(row, set) == [c \in Column |-> IF c \in DOMAIN set THEN set[c] ELSE row[c]]

\* Mutant: the loop stays at the same row.
SameRowAgain(s) ==
  /\ At(s, "update")
  /\ \E r \in Stmt(s).rids :
       Become(s, IF table[r] = NoRow THEN Idle
                 ELSE [Stmt(s) EXCEPT !.pc = "recheck", !.i = 1, !.rid = r,
                         !.old = table[r], !.new = Updated(table[r], Stmt(s).set)])
  /\ UNCHANGED <<table, indexes, ihs>>

update_read(s) ==
  /\ At(s, "update")
  /\ \E r \in Stmt(s).rids :
       Become(s, IF table[r] = NoRow THEN Idle
                 ELSE [Stmt(s) EXCEPT !.pc = "recheck", !.i = 1, !.rid = r, !.rids = @ \ {r},
                         !.old = table[r], !.new = Updated(table[r], Stmt(s).set)])
  /\ UNCHANGED <<table, indexes, ihs>>

UpdateDuplicate(s) ==
  /\ OldKey(s) # NewKey(s)
  /\ \E r \in get_value(ihs[Cols(s)], NewKey(s)) : r # Stmt(s).rid

update_check(s) ==
  /\ At(s, "recheck") /\ MoreIndexes(s)
  /\ Become(s, IF UpdateDuplicate(s) THEN Idle ELSE [Stmt(s) EXCEPT !.pc = "remove"])
  /\ UNCHANGED <<table, indexes, ihs>>

update_remove(s) ==
  /\ At(s, "remove")
  /\ ihs' = [ihs EXCEPT ![Cols(s)] = delete_entry(@, OldKey(s))]
  /\ Become(s, [Stmt(s) EXCEPT !.pc = "add"])
  /\ UNCHANGED <<table, indexes>>

NextIndex(s) == Stmt(s).i + 1

\* When insert_entry throws the old entry is gone.
update_add(s) ==
  /\ At(s, "add")
  /\ IF KeyTaken(s)
       THEN Become(s, Idle) /\ UNCHANGED ihs
       ELSE /\ ihs' = [ihs EXCEPT ![Cols(s)] = insert_entry(@, NewKey(s), Stmt(s).rid)]
            /\ Become(s, [Stmt(s) EXCEPT !.pc = "recheck", !.i = NextIndex(s)])
  /\ UNCHANGED <<table, indexes>>

update_record(s) ==
  LET r == Stmt(s).rid IN
  /\ At(s, "recheck") /\ ~MoreIndexes(s)
  /\ IF table[r] = NoRow
       THEN Become(s, Idle) /\ UNCHANGED table
       ELSE /\ table' = [table EXCEPT ![r] = Stmt(s).new]
            /\ Become(s, [Idle EXCEPT !.pc = "update", !.tab = Stmt(s).tab,
                                      !.rids = Stmt(s).rids, !.set = Stmt(s).set])
  /\ UNCHANGED <<indexes, ihs>>

\* The loop over the rids is done.
statement_done(s) ==
  /\ At(s, "delete") \/ At(s, "update")
  /\ Stmt(s).rids = {}
  /\ Become(s, Idle)
  /\ UNCHANGED <<table, indexes, ihs>>
-----------------------------------------------------------------------------
(***************************************************************************)
(* create_index fills the new index from a scan of the table; on a         *)
(* duplicate key it destroys the index and throws, and nothing is changed. *)
(***************************************************************************)
Stored == {r \in Rid : table[r] # NoRow}
EntriesOf(cols) == {<<KeyOf(cols, table[r]), r>> : r \in Stored}
HasDuplicate(entries) == \E e, f \in entries : e # f /\ e[1] = f[1]

create_index(cols) ==
  /\ Quiet
  /\ cols \notin Range(indexes)
  /\ ~HasDuplicate(EntriesOf(cols))
  /\ indexes' = Append(indexes, cols)
  /\ ihs' = [c \in DOMAIN ihs \cup {cols} |-> IF c = cols THEN EntriesOf(cols) ELSE ihs[c]]
  /\ UNCHANGED <<table, session>>

Erase(list, i) == SubSeq(list, 1, i - 1) \o SubSeq(list, i + 1, Len(list))
IndexListWithout(cols) == Erase(indexes, CHOOSE i \in DOMAIN indexes : indexes[i] = cols)

drop_index(cols) ==
  /\ Quiet
  /\ cols \in Range(indexes)
  /\ indexes' = IndexListWithout(cols)
  /\ ihs' = [c \in DOMAIN ihs \ {cols} |-> ihs[c]]
  /\ UNCHANGED <<table, session>>

\* Bound: no statement begins after a torn update or a race, of which the properties
\* say nothing.
Begin(s) ==
  /\ ~torn /\ ~raced
  /\ \/ \E row \in Work[s].rows : insert_begin(s, row)
     \/ \E where \in Work[s].wheres : delete_begin(s, where)
     \/ \E where \in Work[s].wheres, set \in Work[s].sets : update_begin(s, where, set)

Step(s) ==
  \/ insert_check(s) \/ insert_record(s) \/ insert_entries(s)
  \/ delete_read(s) \/ delete_entries(s) \/ delete_record(s)
  \/ update_read(s) \/ update_check(s) \/ update_remove(s) \/ update_add(s)
  \/ update_record(s)
  \/ statement_done(s)

\* The update of session s throws at an index after the first: nothing undoes the first.
TornUpdate(s) == update_check(s) /\ UpdateDuplicate(s) /\ Stmt(s).i > 1

(***************************************************************************)
(* The rows that a statement removes or stores, known when it begins: the  *)
(* new row, or those at its rids and what the SET clause makes of them.    *)
(***************************************************************************)
Footprint(st) ==
  IF st.pc = "check" THEN {st.new}
  ELSE UNION {{table[r], Updated(table[r], st.set)} : r \in st.rids}

Touched(s) ==
  IF session'[s].pc = "idle" THEN {}
  ELSE IF At(s, "idle") THEN Footprint(session'[s])
  ELSE touched[s]

\* Rows that are the same, or have the same key in an index.
Conflict(x, y) == x = y \/ \E cols \in Range(indexes) : KeyOf(cols, x) = KeyOf(cols, y)

Race ==
  \E s, t \in Session : s # t /\ \E x \in touched'[s], y \in touched'[t] : Conflict(x, y)

Next ==
  /\ \/ \E s \in Session : Begin(s) \/ Step(s)
     \/ \E cols \in IndexCols : create_index(cols) \/ drop_index(cols)
  /\ torn' = (torn \/ \E s \in Session : TornUpdate(s))
  /\ touched' = [s \in Session |-> Touched(s)]
  /\ raced' = (raced \/ Race)

(***************************************************************************)
(* A client thread that executes a statement is scheduled again and again, *)
(* and nothing in it waits.                                                *)
(***************************************************************************)
Spec == Init /\ [][Next]_vars /\ \A s \in Session : WF_code_vars(Step(s))
-----------------------------------------------------------------------------
\* The rows a session has taken out of step with the indexes for a moment.
InFlight == {Stmt(s).rid : s \in Session}

(***************************************************************************)
(* Table and indexes agree: the entries of every index are exactly the     *)
(* keys of the rows, except for the rows that an executor is just working  *)
(* on.  In particular a statement that throws, on its first row or on a    *)
(* later one, leaves them in agreement.  There are two exceptions: an      *)
(* update that UpdateExecutor::Next gives up after it changed an index of  *)
(* the row; and two statements in progress at the same time that remove or *)
(* store the same row, or rows with the same key of an index, since the    *)
(* executors take no lock.                                                 *)
(***************************************************************************)
IndexMatchesTable ==
  ~torn /\ ~raced => \A cols \in Range(indexes) :
    {e \in ihs[cols] : e[2] \notin InFlight} =
      {e \in EntriesOf(cols) : e[2] \notin InFlight}

(***************************************************************************)
(* No two rows of the table have the same key of an index, whatever        *)
(* inserts, updates and failed statements came before, however the steps   *)
(* of InsertExecutor::Next and UpdateExecutor::Next interleave, short of   *)
(* an update given up after it changed an index of the row, and of two     *)
(* statements at the same time on one row or key: each may check the key   *)
(* before the other stores it.                                             *)
(***************************************************************************)
UniqueKeys ==
  ~torn /\ ~raced => \A cols \in Range(indexes) : ~HasDuplicate(EntriesOf(cols))

(***************************************************************************)
(* Every statement comes to its end, or to its exception, and the session  *)
(* can take the next one.                                                  *)
(***************************************************************************)
StatementEnds == \A s \in Session : ~At(s, "idle") ~> At(s, "idle")
=============================================================================
