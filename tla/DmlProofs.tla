----------------------------- MODULE DmlProofs -----------------------------
(***************************************************************************)
(* Table and indexes agree, and keys are unique, for every number of       *)
(* sessions, rows, columns and indexes: whatever statements run, wherever  *)
(* the steps of their executors interleave, and whichever of them throw,   *)
(* until an update is given up half-way through its indexes or two         *)
(* statements meet at a row or a key.                                      *)
(***************************************************************************)
EXTENDS DmlInvariant

(***************************************************************************)
(* InsertExecutor::Next looks a key up: it throws, or the key is free and  *)
(* stays free, for the other sessions touch other keys.                    *)
(***************************************************************************)
LEMMA InsertCheckIsGood ==
  ASSUME NEW Own, SeparateSessions(Own), Good(Own), NEW s \in Session, insert_check(s)
  PROVE  Good(Own)'
<1>1. /\ session[s].pc = "check" /\ MoreIndexes(s)
      /\ UNCHANGED <<table, indexes, ihs>>
      /\ Stmt(s) = session[s]
  BY DEF insert_check, At, Stmt
<1>2. /\ session[s] \in StmtType /\ session[s].i \in Nat
      /\ Fits(Own, s, session[s], table, indexes)
  BY StmtFacts
<1>3. session[s].rid = NoRid /\ session[s].new \in Own[s]
  BY <1>1, <1>2 DEF Fits, HoldsRid, HasNew
<1>4. CASE InsertDuplicate(s)
  <2>1. Become(s, Idle) /\ Idle.rid = NoRid
    BY <1>4 DEF insert_check, Idle
  <2>2. QED
    BY <1>1, <1>3, <2>1, IdleFits, StatementMoves, DmlAssumption
<1>5. CASE ~InsertDuplicate(s)
  <2>1. PICK st : st = [session[s] EXCEPT !.i = @ + 1]
    OBVIOUS
  <2>2. /\ st \in StmtType
        /\ st.pc = "check" /\ st.tab = session[s].tab /\ st.i = session[s].i + 1
        /\ st.rid = NoRid /\ st.rids = session[s].rids /\ st.new = session[s].new
    BY <1>1, <1>2, <1>3, <2>1 DEF StmtType
  <2>3. Become(s, st)
    BY <1>1, <1>5, <2>1 DEF insert_check
  <2>4. PICK j \in DOMAIN indexes : j = session[s].i /\ Cols(s) = indexes[j]
    BY <1>1, CurrentIndex
  <2>5. NoOther(table, NoRid, indexes[j], st.new)
    <3>1. get_value(ihs[indexes[j]], KeyOf(indexes[j], session[s].new)) = {}
      BY <1>1, <1>5, <2>4 DEF InsertDuplicate, NewKey
    <3>2. QED
      BY <1>1, <1>3, <2>2, <3>1, KeyIsFree
  <2>6. \A k \in DOMAIN indexes : k < st.i => NoOther(table, NoRid, indexes[k], st.new)
    <3>1. \A k \in DOMAIN indexes : k < session[s].i + 1 => k < session[s].i \/ k = j
      BY <1>2, <2>4, IndexColumns DEF Good
    <3>2. \A k \in DOMAIN indexes : k < session[s].i => NoOther(table, NoRid, indexes[k], st.new)
      BY <1>1, <1>2, <1>3, <2>2 DEF Fits
    <3>3. QED
      BY <2>2, <2>5, <3>1, <3>2
  <2>7. Fits(Own, s, st, table, indexes)
    BY <1>1, <1>2, <1>3, <2>2, <2>6 DEF Fits, HoldsRid, HasNew, HasOld, Updating
  <2>8. QED
    BY <1>1, <1>3, <2>2, <2>3, <2>7, StatementMoves, DmlAssumption
<1>6. QED
  BY <1>4, <1>5

(***************************************************************************)
(* The record is stored, with keys that are all free.                      *)
(***************************************************************************)
LEMMA InsertRecordIsGood ==
  ASSUME NEW Own, SeparateSessions(Own), Good(Own), NEW s \in Session, insert_record(s)
  PROVE  Good(Own)'
<1>1. /\ session[s].pc = "check" /\ ~MoreIndexes(s)
      /\ UNCHANGED <<indexes, ihs>>
      /\ Stmt(s) = session[s]
  BY DEF insert_record, At, Stmt
<1>2. PICK r \in Rid :
        /\ table[r] = NoRow
        /\ table' = [table EXCEPT ![r] = session[s].new]
        /\ Become(s, [session[s] EXCEPT !.pc = "entries", !.i = 1, !.rid = r])
  BY DEF insert_record, Stmt
<1>3. /\ session[s] \in StmtType
      /\ Fits(Own, s, session[s], table, indexes)
  BY StmtFacts
<1>4. session[s].rid = NoRid /\ session[s].new \in Own[s] /\ session[s].new \in Row
  BY <1>1, <1>3, OwnedRows DEF Fits, HoldsRid, HasNew
<1>5. PICK st : st = [session[s] EXCEPT !.pc = "entries", !.i = 1, !.rid = r]
  OBVIOUS
<1>6. /\ st \in StmtType
      /\ st.pc = "entries" /\ st.tab = session[s].tab /\ st.i = 1
      /\ st.rid = r /\ st.rids = session[s].rids /\ st.new = session[s].new
  <2>1. st = [pc |-> "entries", tab |-> session[s].tab, i |-> 1, rid |-> r,
              rids |-> session[s].rids, old |-> session[s].old, new |-> session[s].new,
              set |-> session[s].set]
    BY <1>3, <1>5 DEF StmtType
  <2>2. QED
    BY <1>3, <2>1, PcNames, SetNames DEF StmtType
<1>7. table \in [Rid -> Row \cup {NoRow}]
  BY DEF Good, Typed
<1>8. /\ table' \in [Rid -> Row \cup {NoRow}]
      /\ table'[r] = session[s].new
      /\ \A q \in Rid : q # r => table'[q] = table[q]
  BY <1>2, <1>4, <1>7
<1>9. r # NoRid
  BY DmlAssumption
<1>10. \A q \in st.rids : table'[q] \in Own[s] /\ q # st.rid
  <2>1. \A q \in session[s].rids : q \in Rid /\ table[q] \in Own[s]
    BY <1>3 DEF Fits, StmtType
  <2>2. QED
    BY <1>2, <1>6, <1>8, <2>1, OwnedRows
<1>11. Fits(Own, s, st, table', indexes)
  BY <1>1, <1>3, <1>4, <1>6, <1>8, <1>9, <1>10 DEF Fits, HoldsRid, HasNew, HasOld, Updating
<1>12. Unique'
  <2>1. ASSUME NEW c \in Range(indexes)
        PROVE  NoOther(table, r, c, session[s].new)
    <3>1. PICK j \in DOMAIN indexes : c = indexes[j]
      BY DEF Range
    <3>2. j < session[s].i
      BY <1>1, CurrentIndex
    <3>3. NoOther(table, NoRid, c, session[s].new)
      BY <1>1, <1>3, <1>4, <3>1, <3>2 DEF Fits
    <3>4. QED
      BY <3>3, DmlAssumption DEF NoOther
  <2>2. QED
    BY <1>1, <1>2, <2>1, StoreKeepsUnique DEF Good
<1>13. \A j \in DOMAIN indexes : ShownBy(st, j) = NoRow
  <2>1. \A j \in DOMAIN indexes : ~(j < 1)
    BY IndexColumns DEF Good
  <2>2. QED
    BY <1>6, <2>1 DEF ShownBy
<1>14. /\ session' = [session EXCEPT ![s] = st]
       /\ Stmt(s).rid \in {r, NoRid} /\ st.rid \in {r, NoRid}
  BY <1>1, <1>2, <1>4, <1>5, <1>6 DEF Become
<1>15. r \in Rid =>
        /\ table[r] \in Own[s] \cup {NoRow}
        /\ table'[r] \in Own[s] \cup {NoRow}
        /\ \A j \in DOMAIN indexes :
             (IF Stmt(s).rid = r THEN ShownBy(Stmt(s), j) ELSE table[r])
               = (IF st.rid = r THEN ShownBy(st, j) ELSE table'[r])
  BY <1>1, <1>2, <1>4, <1>6, <1>8, <1>9, <1>13
<1>16. QED
  BY <1>1, <1>6, <1>8, <1>11, <1>12, <1>14, <1>15, SessionMoves

(***************************************************************************)
(* Each index gets its entry: insert_entry does not throw.                 *)
(***************************************************************************)
LEMMA InsertEntriesIsGood ==
  ASSUME NEW Own, SeparateSessions(Own), Good(Own), NEW s \in Session, insert_entries(s)
  PROVE  Good(Own)'
<1>1. /\ session[s].pc = "entries"
      /\ UNCHANGED <<table, indexes>>
      /\ Stmt(s) = session[s]
  BY DEF insert_entries, At, Stmt
<1>2. /\ session[s] \in StmtType /\ session[s].i \in Nat
      /\ Fits(Own, s, session[s], table, indexes)
      /\ session[s].rid \in Rid
  BY <1>1, StmtFacts DEF HoldsRid
<1>3. table[session[s].rid] = session[s].new /\ session[s].new \in Own[s] /\ session[s].new \in Row
  BY <1>1, <1>2, OwnedRows DEF Fits, HasNew
<1>4. CASE MoreIndexes(s)
  <2>1. PICK st : st = [session[s] EXCEPT !.i = @ + 1]
    OBVIOUS
  <2>2. /\ st \in StmtType
        /\ st.pc = "entries" /\ st.tab = session[s].tab /\ st.i = session[s].i + 1
        /\ st.rid = session[s].rid /\ st.rids = session[s].rids /\ st.new = session[s].new
    BY <1>1, <1>2, <2>1 DEF StmtType
  <2>3. PICK j \in DOMAIN indexes : j = session[s].i /\ Cols(s) = indexes[j]
    BY <1>1, <1>4, CurrentIndex
  <2>4. PICK E : E = ihs[indexes[j]] \cup {<<KeyOf(indexes[j], session[s].new), session[s].rid>>}
    OBVIOUS
  <2>5. /\ \A k \in DOMAIN indexes : k # j => (k < st.i <=> k < session[s].i)
        /\ j < st.i /\ ~(j < session[s].i)
    BY <1>2, <2>2, <2>3, NextPosition
  <2>6. SameBut(st, session[s], j)
    BY <1>1, <2>2, <2>5 DEF ShownBy, SameBut
  <2>7. ShownBy(session[s], j) = NoRow /\ ShownBy(st, j) = session[s].new
    BY <1>1, <2>2, <2>5 DEF ShownBy
  <2>8. NoOther(table, session[s].rid, indexes[j], session[s].new)
    BY <1>2, <1>3, DmlAssumption, IndexColumns DEF Good, Unique
  <2>9. /\ get_value(ihs[indexes[j]], KeyOf(indexes[j], session[s].new)) = {}
         /\ \A e \in ihs[indexes[j]] : e[2] # session[s].rid
    <3>1. session[s].rid \in Rid /\ session[s].new \in Own[s] /\ ShownBy(session[s], j) = NoRow
      BY <1>2, <1>3, <2>7
    <3>2. QED
      BY <2>8, <3>1, InsertKeyIsFree
  <2>10. ihs' = [ihs EXCEPT ![indexes[j]] = E] /\ session' = [session EXCEPT ![s] = st]
    <3>1. NewKey(s) = KeyOf(indexes[j], session[s].new) /\ ~KeyTaken(s)
      BY <1>1, <2>3, <2>9 DEF NewKey, KeyTaken
    <3>2. QED
      BY <1>1, <1>4, <2>1, <2>3, <2>4, <3>1 DEF insert_entries, insert_entry, Become
  <2>11. Fits(Own, s, st, table, indexes)
    BY <1>1, <1>2, <2>2 DEF Fits, HoldsRid, HasNew, HasOld, Updating
  <2>12. RightEntries(E, st, j)
    BY <1>3, <2>2, <2>4, <2>7, <2>9 DEF RightEntries
  <2>13. QED
    BY <1>1, <1>2, <2>2, <2>10, <2>6, <2>11, <2>12, IndexMoves
<1>5. CASE ~MoreIndexes(s)
  <2>1. Become(s, Idle) /\ ihs' = ihs /\ Idle.rid = NoRid
    BY <1>5 DEF insert_entries, Idle
  <2>2. PICK r \in Rid : r = session[s].rid /\ r # NoRid
    BY <1>2, DmlAssumption
  <2>3. \A j \in DOMAIN indexes : ShownBy(session[s], j) = session[s].new
    BY <1>1, <1>5, CurrentIndex DEF ShownBy
  <2>4. Unique'
    BY <1>1 DEF Good, Unique, NoOther
  <2>5. table' \in [Rid -> Row \cup {NoRow}] /\ \A q \in Rid : q # r => table'[q] = table[q]
    BY <1>1 DEF Good, Typed
  <2>6. Idle \in StmtType /\ Fits(Own, s, Idle, table', indexes)
    BY IdleFits
  <2>7. table'[r] \in Own[s] \cup {NoRow} /\ \A j \in DOMAIN indexes : ShownBy(session[s], j) = table'[r]
    BY <1>1, <1>3, <2>2, <2>3
  <2>8. QED
    BY <1>1, <2>1, <2>2, <2>4, <2>5, <2>6, <2>7, RowIsReleased
<1>6. QED
  BY <1>4, <1>5

-----------------------------------------------------------------------------
(***************************************************************************)
(* DeleteExecutor::Next reads the record again: it is there, unchanged.    *)
(***************************************************************************)
LEMMA DeleteReadIsGood ==
  ASSUME NEW Own, SeparateSessions(Own), Good(Own), NEW s \in Session, delete_read(s)
  PROVE  Good(Own)'
<1>1. session[s].pc = "delete" /\ UNCHANGED <<table, indexes, ihs>>
  BY DEF delete_read, At, Stmt
<1>2. session[s] \in StmtType /\ Fits(Own, s, session[s], table, indexes)
  BY StmtFacts
<1>3. session[s].rid = NoRid
  BY <1>1, <1>2 DEF Fits, HoldsRid
<1>4. PICK r \in session[s].rids :
        Become(s, IF table[r] = NoRow THEN Idle
                  ELSE [session[s] EXCEPT !.pc = "unindex", !.i = 1, !.rid = r,
                                          !.rids = @ \ {r}, !.old = table[r]])
  BY DEF delete_read, Stmt
<1>5. r \in Rid /\ r # NoRid /\ table[r] \in Own[s] /\ table[r] # NoRow /\ table[r] \in Row
  BY <1>2, DmlAssumption, OwnedRows DEF Fits, StmtType
<1>6. PICK st : st = [session[s] EXCEPT !.pc = "unindex", !.i = 1, !.rid = r,
                                        !.rids = @ \ {r}, !.old = table[r]]
  OBVIOUS
<1>7. st = [pc |-> "unindex", tab |-> session[s].tab, i |-> 1, rid |-> r,
            rids |-> session[s].rids \ {r}, old |-> table[r], new |-> session[s].new,
            set |-> session[s].set]
  BY <1>2, <1>6 DEF StmtType
<1>8. st \in StmtType
  BY <1>2, <1>5, <1>7, PcNames, SetNames DEF StmtType
<1>9. Become(s, st)
  BY <1>4, <1>5, <1>6
<1>10. Fits(Own, s, st, table, indexes)
  BY <1>1, <1>2, <1>5, <1>7 DEF Fits, HoldsRid, HasNew, HasOld, Updating
<1>11. \A j \in DOMAIN indexes : ShownBy(st, j) = table[st.rid]
  <2>1. \A j \in DOMAIN indexes : ~(j < 1)
    BY IndexColumns DEF Good
  <2>2. QED
    BY <1>7, <2>1 DEF ShownBy
<1>12. QED
  BY <1>1, <1>3, <1>7, <1>8, <1>9, <1>10, <1>11, RowIsTaken

(***************************************************************************)
(* Each index loses the entry of the row.                                  *)
(***************************************************************************)
LEMMA DeleteEntriesIsGood ==
  ASSUME NEW Own, SeparateSessions(Own), Good(Own), NEW s \in Session, delete_entries(s)
  PROVE  Good(Own)'
<1>1. /\ session[s].pc = "unindex" /\ MoreIndexes(s)
      /\ UNCHANGED <<table, indexes>>
      /\ Stmt(s) = session[s]
  BY DEF delete_entries, At, Stmt
<1>2. /\ session[s] \in StmtType /\ session[s].i \in Nat
      /\ Fits(Own, s, session[s], table, indexes)
      /\ session[s].rid \in Rid
  BY <1>1, StmtFacts DEF HoldsRid
<1>3. table[session[s].rid] = session[s].old /\ session[s].old \in Own[s]
  BY <1>1, <1>2 DEF Fits, HasOld
<1>4. PICK st : st = [session[s] EXCEPT !.i = @ + 1]
  OBVIOUS
<1>5. /\ st \in StmtType
      /\ st.pc = "unindex" /\ st.tab = session[s].tab /\ st.i = session[s].i + 1
      /\ st.rid = session[s].rid /\ st.rids = session[s].rids /\ st.old = session[s].old
  BY <1>1, <1>2, <1>4 DEF StmtType
<1>6. PICK j \in DOMAIN indexes : j = session[s].i /\ Cols(s) = indexes[j]
  BY <1>1, CurrentIndex
<1>7. PICK E : E = delete_entry(ihs[indexes[j]], KeyOf(indexes[j], session[s].old))
  OBVIOUS
<1>8. ihs' = [ihs EXCEPT ![indexes[j]] = E] /\ session' = [session EXCEPT ![s] = st]
  BY <1>1, <1>4, <1>6, <1>7 DEF delete_entries, Become
<1>9. /\ \A k \in DOMAIN indexes : k # j => (k < st.i <=> k < session[s].i)
      /\ j < st.i /\ ~(j < session[s].i)
  BY <1>2, <1>5, <1>6, NextPosition
<1>10. SameBut(st, session[s], j)
  BY <1>1, <1>5, <1>6, <1>9 DEF ShownBy, SameBut
<1>11. ShownBy(session[s], j) = session[s].old /\ ShownBy(st, j) = NoRow
  BY <1>1, <1>5, <1>6, <1>9 DEF ShownBy
<1>12. NoOther(table, session[s].rid, indexes[j], session[s].old)
  BY <1>2, <1>3, OwnedRows, IndexColumns DEF Good, Unique
<1>13. E = {e \in ihs[indexes[j]] : e[2] # session[s].rid}
  <2>1. session[s].rid \in Rid /\ session[s].old \in Own[s]
    BY <1>2, <1>3
  <2>2. QED
    BY <1>7, <1>11, <1>12, <2>1, DeleteEntryRemoves
<1>14. Fits(Own, s, st, table, indexes)
  BY <1>1, <1>2, <1>5 DEF Fits, HoldsRid, HasNew, HasOld, Updating
<1>15. RightEntries(E, st, j)
  BY <1>5, <1>11, <1>13, DmlAssumption DEF RightEntries
<1>16. QED
  BY <1>1, <1>2, <1>5, <1>8, <1>10, <1>14, <1>15, IndexMoves

(***************************************************************************)
(* The record is removed once no index has an entry for it.                *)
(***************************************************************************)
LEMMA DeleteRecordIsGood ==
  ASSUME NEW Own, SeparateSessions(Own), Good(Own), NEW s \in Session, delete_record(s)
  PROVE  Good(Own)'
<1>1. /\ session[s].pc = "unindex" /\ ~MoreIndexes(s)
      /\ UNCHANGED <<indexes, ihs>>
      /\ Stmt(s) = session[s]
  BY DEF delete_record, At, Stmt
<1>2. session[s] \in StmtType /\ Fits(Own, s, session[s], table, indexes)
  BY StmtFacts
<1>3. PICK r \in Rid : r = session[s].rid /\ table[r] \in Own[s] /\ table[r] # NoRow
  <2>1. session[s].rid \in Rid /\ table[session[s].rid] \in Own[s]
    BY <1>1, StmtFacts DEF HoldsRid
  <2>2. QED
    BY <2>1, OwnedRows
<1>4. PICK st : st = [Idle EXCEPT !.pc = "delete", !.tab = session[s].tab, !.rids = session[s].rids]
  OBVIOUS
<1>5. st = [pc |-> "delete", tab |-> session[s].tab, i |-> 1, rid |-> NoRid,
            rids |-> session[s].rids, old |-> NoRow, new |-> NoRow, set |-> << >>]
  BY <1>4 DEF Idle
<1>6. Become(s, st) /\ table' = [table EXCEPT ![r] = NoRow]
  BY <1>1, <1>3, <1>4 DEF delete_record
<1>7. st \in StmtType
  BY <1>2, <1>5, PcNames, SetNames DEF StmtType
<1>8. table \in [Rid -> Row \cup {NoRow}] /\ Typed /\ Unique
  BY DEF Good, Typed
<1>9. /\ table' \in [Rid -> Row \cup {NoRow}] /\ table'[r] = NoRow
      /\ \A q \in Rid : q # r => table'[q] = table[q]
  BY <1>6, <1>8
<1>10. Fits(Own, s, st, table', indexes)
  <2>1. \A q \in st.rids : table'[q] \in Own[s] /\ q # st.rid
    <3>1. /\ st.rids = session[s].rids /\ st.rid = NoRid
          /\ st.rids \subseteq Rid
      BY <1>5, StmtFacts
    <3>2. \A q \in session[s].rids : table[q] \in Own[s] /\ q # r
      BY <1>2, <1>3 DEF Fits
    <3>3. NoRid \notin Rid
      BY DmlAssumption
    <3>4. QED
      BY <1>9, <3>1, <3>2, <3>3
  <2>2. QED
    BY <1>1, <1>2, <1>5, <2>1 DEF Fits, HoldsRid, HasNew, HasOld, Updating
<1>11. Unique'
  BY <1>1, <1>6, <1>8, StoreKeepsUnique
<1>12. \A j \in DOMAIN indexes : ShownBy(session[s], j) = table'[r]
  BY <1>1, <1>9, CurrentIndex DEF ShownBy
<1>13. /\ Become(s, st) /\ st.rid = NoRid /\ session[s].rid = r
       /\ table'[r] \in Own[s] \cup {NoRow}
  BY <1>3, <1>5, <1>6, <1>9
<1>14. QED
  BY <1>1, <1>7, <1>9, <1>10, <1>11, <1>12, <1>13, RowIsReleased

-----------------------------------------------------------------------------
(***************************************************************************)
(* UpdateExecutor::Next reads the record again and makes the new one.      *)
(***************************************************************************)
LEMMA UpdateReadIsGood ==
  ASSUME NEW Own, SeparateSessions(Own), Good(Own), NEW s \in Session, update_read(s)
  PROVE  Good(Own)'
<1>1. session[s].pc = "update" /\ UNCHANGED <<table, indexes, ihs>>
  BY DEF update_read, At, Stmt
<1>2. session[s] \in StmtType /\ Fits(Own, s, session[s], table, indexes)
  BY StmtFacts
<1>3. /\ session[s].rid = NoRid
      /\ \A q \in session[s].rids : Updated(table[q], session[s].set) \in Own[s]
  BY <1>1, <1>2 DEF Fits, HoldsRid, Updating
<1>4. PICK r \in session[s].rids :
        Become(s, IF table[r] = NoRow THEN Idle
                  ELSE [session[s] EXCEPT !.pc = "recheck", !.i = 1, !.rid = r, !.rids = @ \ {r},
                          !.old = table[r], !.new = Updated(table[r], session[s].set)])
  BY DEF update_read, Stmt
<1>5. r \in Rid /\ r # NoRid /\ table[r] \in Own[s] /\ table[r] # NoRow /\ table[r] \in Row
  BY <1>2, DmlAssumption, OwnedRows DEF Fits, StmtType
<1>6. PICK new : new = Updated(table[r], session[s].set)
  OBVIOUS
<1>7. new \in Own[s] /\ new \in Row
  BY <1>3, <1>6, OwnedRows
<1>8. PICK st : st = [session[s] EXCEPT !.pc = "recheck", !.i = 1, !.rid = r, !.rids = @ \ {r},
                                        !.old = table[r], !.new = new]
  OBVIOUS
<1>9. st = [pc |-> "recheck", tab |-> session[s].tab, i |-> 1, rid |-> r,
            rids |-> session[s].rids \ {r}, old |-> table[r], new |-> new,
            set |-> session[s].set]
  BY <1>2, <1>8 DEF StmtType
<1>10. st \in StmtType
  BY <1>2, <1>5, <1>7, <1>9, PcNames, SetNames DEF StmtType
<1>11. Become(s, st)
  BY <1>4, <1>5, <1>6, <1>8
<1>12. \A j \in DOMAIN indexes : ~(j < 1)
  BY IndexColumns DEF Good
<1>13. Fits(Own, s, st, table, indexes)
  BY <1>1, <1>2, <1>3, <1>5, <1>7, <1>9, <1>12 DEF Fits, HoldsRid, HasNew, HasOld, Updating
<1>14. \A j \in DOMAIN indexes : ShownBy(st, j) = table[st.rid]
  BY <1>9, <1>12 DEF ShownBy
<1>15. QED
  BY <1>1, <1>3, <1>9, <1>10, <1>11, <1>13, <1>14, RowIsTaken

(***************************************************************************)
(* The unique check of an update: at the first index it throws before it   *)
(* has changed anything, and otherwise the new key is free.                *)
(***************************************************************************)
LEMMA UpdateCheckIsGood ==
  ASSUME NEW Own, SeparateSessions(Own), Good(Own), NEW s \in Session, update_check(s),
         ~TornUpdate(s)
  PROVE  Good(Own)'
<1>1. /\ session[s].pc = "recheck" /\ MoreIndexes(s)
      /\ UNCHANGED <<table, indexes, ihs>>
      /\ Stmt(s) = session[s]
  BY DEF update_check, At, Stmt
<1>2. /\ session[s] \in StmtType /\ session[s].i \in Nat /\ session[s].i >= 1
      /\ Fits(Own, s, session[s], table, indexes)
  BY StmtFacts
<1>3. PICK r \in Rid :
        /\ r = session[s].rid /\ r # NoRid
        /\ table[r] = session[s].old
        /\ session[s].old \in Own[s] /\ session[s].old # NoRow /\ session[s].new \in Own[s]
  <2>1. session[s].rid \in Rid
    BY <1>1, StmtFacts DEF HoldsRid
  <2>2. /\ table[session[s].rid] = session[s].old
        /\ session[s].old \in Own[s] /\ session[s].new \in Own[s]
    BY <1>1, <1>2 DEF Fits, HasOld, HasNew
  <2>3. QED
    BY <2>1, <2>2, OwnedRows, DmlAssumption
<1>4. CASE UpdateDuplicate(s)
  <2>1. Become(s, Idle) /\ Idle.rid = NoRid
    BY <1>4 DEF update_check, Idle
  <2>2. session[s].i = 1
    <3>1. ~(session[s].i > 1)
      BY <1>1, <1>4 DEF TornUpdate
    <3>2. QED
      BY <1>2, <3>1
  <2>3. \A j \in DOMAIN indexes : ~(j < 1)
    BY IndexColumns DEF Good
  <2>4. \A j \in DOMAIN indexes : ShownBy(session[s], j) = table'[r]
    BY <1>1, <1>3, <2>2, <2>3 DEF ShownBy
  <2>5. Unique'
    BY <1>1 DEF Good, Unique, NoOther
  <2>6. /\ table' \in [Rid -> Row \cup {NoRow}] /\ table'[r] \in Own[s] \cup {NoRow}
        /\ \A q \in Rid : q # r => table'[q] = table[q]
    BY <1>1, <1>3 DEF Good, Typed
  <2>7. Idle \in StmtType /\ Fits(Own, s, Idle, table', indexes)
    BY IdleFits
  <2>8. session[s].rid = r /\ UNCHANGED <<indexes, ihs>>
    BY <1>1, <1>3
  <2>9. QED
    BY <2>1, <2>4, <2>5, <2>6, <2>7, <2>8, RowIsReleased
<1>5. CASE ~UpdateDuplicate(s)
  <2>1. PICK st : st = [session[s] EXCEPT !.pc = "remove"]
    OBVIOUS
  <2>2. /\ st \in StmtType
        /\ st.pc = "remove" /\ st.tab = session[s].tab /\ st.i = session[s].i
        /\ st.rid = session[s].rid /\ st.rids = session[s].rids /\ st.new = session[s].new
        /\ st.old = session[s].old /\ st.set = session[s].set
    BY <1>2, <2>1, PcNames, SetNames DEF StmtType
  <2>3. Become(s, st)
    BY <1>1, <1>5, <2>1 DEF update_check
  <2>4. PICK j \in DOMAIN indexes :
          /\ j = session[s].i /\ Cols(s) = indexes[j] /\ indexes[j] \in Range(indexes)
    BY <1>1, CurrentIndex
  <2>5. NoOther(table, session[s].rid, indexes[j], session[s].new)
    <3>1. CASE KeyOf(indexes[j], session[s].old) = KeyOf(indexes[j], session[s].new)
      <4>1. NoOther(table, session[s].rid, indexes[j], session[s].old)
        BY <1>3, <2>4 DEF Good, Unique
      <4>2. QED
        BY <3>1, <4>1 DEF NoOther
    <3>2. CASE KeyOf(indexes[j], session[s].old) # KeyOf(indexes[j], session[s].new)
      <4>1. \A q \in get_value(ihs[indexes[j]], KeyOf(indexes[j], session[s].new)) :
              q = Stmt(s).rid
        BY <1>1, <1>5, <2>4, <3>2 DEF UpdateDuplicate, OldKey, NewKey
      <4>2. QED
        BY <1>1, <1>3, <4>1, KeyIsFree
    <3>3. QED
      BY <3>1, <3>2
  <2>6. Fits(Own, s, st, table, indexes)
    <3>1. st.i \in DOMAIN indexes /\ NoOther(table, st.rid, indexes[st.i], st.new)
      BY <2>2, <2>4, <2>5
    <3>2. QED
      BY <1>1, <1>2, <2>2, <3>1 DEF Fits, HoldsRid, HasNew, HasOld, Updating
  <2>7. \A k \in DOMAIN indexes : ShownBy(session[s], k) = ShownBy(st, k)
    BY <1>1, <2>2 DEF ShownBy
  <2>8. QED
    BY <1>1, <2>2, <2>3, <2>6, <2>7, StatementMoves
<1>6. QED
  BY <1>4, <1>5

(***************************************************************************)
(* The old entry of the row is removed from the index.                     *)
(***************************************************************************)
LEMMA UpdateRemoveIsGood ==
  ASSUME NEW Own, SeparateSessions(Own), Good(Own), NEW s \in Session, update_remove(s)
  PROVE  Good(Own)'
<1>1. /\ session[s].pc = "remove"
      /\ UNCHANGED <<table, indexes>>
      /\ Stmt(s) = session[s]
  BY DEF update_remove, At, Stmt
<1>2. /\ session[s] \in StmtType /\ session[s].i \in Nat
      /\ Fits(Own, s, session[s], table, indexes)
      /\ session[s].rid \in Rid
  BY <1>1, StmtFacts DEF HoldsRid
<1>3. table[session[s].rid] = session[s].old /\ session[s].old \in Own[s]
  BY <1>1, <1>2 DEF Fits, HasOld
<1>4. PICK st : st = [session[s] EXCEPT !.pc = "add"]
  OBVIOUS
<1>5. /\ st \in StmtType
      /\ st.pc = "add" /\ st.tab = session[s].tab /\ st.i = session[s].i
      /\ st.rid = session[s].rid /\ st.rids = session[s].rids /\ st.old = session[s].old
      /\ st.new = session[s].new /\ st.set = session[s].set
  BY <1>2, <1>4, PcNames, SetNames DEF StmtType
<1>6. PICK j \in DOMAIN indexes : j = session[s].i /\ Cols(s) = indexes[j]
  BY <1>1, <1>2, CurrentIndex DEF Fits
<1>7. PICK E : E = delete_entry(ihs[indexes[j]], KeyOf(indexes[j], session[s].old))
  OBVIOUS
<1>8. ihs' = [ihs EXCEPT ![indexes[j]] = E] /\ session' = [session EXCEPT ![s] = st]
  BY <1>1, <1>4, <1>6, <1>7 DEF update_remove, Become, OldKey
<1>9. ~(j < session[s].i)
  BY <1>2, <1>6
<1>10. SameBut(st, session[s], j)
  BY <1>1, <1>5, <1>6 DEF ShownBy, SameBut
<1>11. ShownBy(session[s], j) = session[s].old /\ ShownBy(st, j) = NoRow
  BY <1>1, <1>5, <1>6, <1>9 DEF ShownBy
<1>12. NoOther(table, session[s].rid, indexes[j], session[s].old)
  BY <1>2, <1>3, OwnedRows, IndexColumns DEF Good, Unique
<1>13. E = {e \in ihs[indexes[j]] : e[2] # session[s].rid}
  <2>1. session[s].rid \in Rid /\ session[s].old \in Own[s]
    BY <1>2, <1>3
  <2>2. QED
    BY <1>7, <1>11, <1>12, <2>1, DeleteEntryRemoves
<1>14. Fits(Own, s, st, table, indexes)
  BY <1>1, <1>2, <1>5 DEF Fits, HoldsRid, HasNew, HasOld, Updating
<1>15. RightEntries(E, st, j)
  BY <1>5, <1>11, <1>13, DmlAssumption DEF RightEntries
<1>16. QED
  BY <1>1, <1>2, <1>5, <1>8, <1>10, <1>14, <1>15, IndexMoves

(***************************************************************************)
(* The new entry of the row is added to the index: insert_entry does not   *)
(* throw.                                                                  *)
(***************************************************************************)
LEMMA UpdateAddIsGood ==
  ASSUME NEW Own, SeparateSessions(Own), Good(Own), NEW s \in Session, update_add(s)
  PROVE  Good(Own)'
<1>1. /\ session[s].pc = "add"
      /\ UNCHANGED <<table, indexes>>
      /\ Stmt(s) = session[s]
  BY DEF update_add, At, Stmt
<1>2. /\ session[s] \in StmtType /\ session[s].i \in Nat
      /\ Fits(Own, s, session[s], table, indexes)
      /\ session[s].rid \in Rid
  BY <1>1, StmtFacts DEF HoldsRid
<1>3. session[s].new \in Own[s] /\ session[s].new \in Row
  BY <1>1, <1>2, OwnedRows DEF Fits, HasNew
<1>4. PICK st : st = [session[s] EXCEPT !.pc = "recheck", !.i = session[s].i + 1]
  OBVIOUS
<1>5. /\ st \in StmtType
      /\ st.pc = "recheck" /\ st.tab = session[s].tab /\ st.i = session[s].i + 1
      /\ st.rid = session[s].rid /\ st.rids = session[s].rids /\ st.old = session[s].old
      /\ st.new = session[s].new /\ st.set = session[s].set
  <2>1. st = [pc |-> "recheck", tab |-> session[s].tab, i |-> session[s].i + 1,
              rid |-> session[s].rid, rids |-> session[s].rids, old |-> session[s].old,
              new |-> session[s].new, set |-> session[s].set]
    BY <1>2, <1>4 DEF StmtType
  <2>2. QED
    BY <1>2, <2>1, PcNames, SetNames DEF StmtType
<1>6. PICK j \in DOMAIN indexes : j = session[s].i /\ Cols(s) = indexes[j]
  BY <1>1, <1>2, CurrentIndex DEF Fits
<1>7. PICK E : E = ihs[indexes[j]] \cup {<<KeyOf(indexes[j], session[s].new), session[s].rid>>}
  OBVIOUS
<1>8. /\ \A k \in DOMAIN indexes : k # j => (k < st.i <=> k < session[s].i)
      /\ j < st.i /\ ~(j < session[s].i)
  BY <1>2, <1>5, <1>6, NextPosition
<1>9. SameBut(st, session[s], j)
  BY <1>1, <1>5, <1>6, <1>8 DEF ShownBy, SameBut
<1>10. ShownBy(session[s], j) = NoRow /\ ShownBy(st, j) = session[s].new
  BY <1>1, <1>5, <1>6, <1>8 DEF ShownBy
<1>11. NoOther(table, session[s].rid, indexes[j], session[s].new)
  BY <1>1, <1>2, <1>6 DEF Fits
<1>12. /\ get_value(ihs[indexes[j]], KeyOf(indexes[j], session[s].new)) = {}
       /\ \A e \in ihs[indexes[j]] : e[2] # session[s].rid
  <2>1. session[s].rid \in Rid /\ session[s].new \in Own[s] /\ ShownBy(session[s], j) = NoRow
    BY <1>2, <1>3, <1>10
  <2>2. QED
    BY <1>11, <2>1, InsertKeyIsFree
<1>13. ihs' = [ihs EXCEPT ![indexes[j]] = E] /\ session' = [session EXCEPT ![s] = st]
  <2>1. NewKey(s) = KeyOf(indexes[j], session[s].new) /\ ~KeyTaken(s)
    BY <1>1, <1>6, <1>12 DEF NewKey, KeyTaken
  <2>2. QED
    BY <1>1, <1>4, <1>6, <1>7, <2>1 DEF update_add, insert_entry, Become, NextIndex
<1>14. Fits(Own, s, st, table, indexes)
  <2>1. \A k \in DOMAIN indexes : k < st.i => NoOther(table, st.rid, indexes[k], st.new)
    <3>1. \A k \in DOMAIN indexes : k < st.i => k < session[s].i \/ k = j
      BY <1>8
    <3>2. \A k \in DOMAIN indexes :
            k < session[s].i => NoOther(table, session[s].rid, indexes[k], session[s].new)
      BY <1>1, <1>2 DEF Fits
    <3>3. QED
      BY <1>5, <1>11, <3>1, <3>2
  <2>2. QED
    BY <1>1, <1>2, <1>5, <2>1 DEF Fits, HoldsRid, HasNew, HasOld, Updating
<1>15. RightEntries(E, st, j)
  BY <1>3, <1>5, <1>7, <1>10, <1>12 DEF RightEntries
<1>16. QED
  BY <1>1, <1>2, <1>5, <1>13, <1>9, <1>14, <1>15, IndexMoves

(***************************************************************************)
(* The record is written once every index has its new key.                 *)
(***************************************************************************)
LEMMA UpdateRecordIsGood ==
  ASSUME NEW Own, SeparateSessions(Own), Good(Own), NEW s \in Session, update_record(s)
  PROVE  Good(Own)'
<1>1. /\ session[s].pc = "recheck" /\ ~MoreIndexes(s)
      /\ UNCHANGED <<indexes, ihs>>
      /\ Stmt(s) = session[s]
  BY DEF update_record, At, Stmt
<1>2. session[s] \in StmtType /\ Fits(Own, s, session[s], table, indexes)
  BY StmtFacts
<1>3. PICK r \in Rid : r = session[s].rid /\ table[r] \in Own[s] /\ table[r] # NoRow
  <2>1. session[s].rid \in Rid /\ table[session[s].rid] \in Own[s]
    BY <1>1, StmtFacts DEF HoldsRid
  <2>2. QED
    BY <2>1, OwnedRows
<1>4. PICK new : new = session[s].new /\ new \in Own[s] /\ new \in Row
  BY <1>1, <1>2, OwnedRows DEF Fits, HasNew
<1>5. PICK st : st = [Idle EXCEPT !.pc = "update", !.tab = session[s].tab,
                                  !.rids = session[s].rids, !.set = session[s].set]
  OBVIOUS
<1>6. st = [pc |-> "update", tab |-> session[s].tab, i |-> 1, rid |-> NoRid,
            rids |-> session[s].rids, old |-> NoRow, new |-> NoRow, set |-> session[s].set]
  BY <1>5 DEF Idle
<1>7. Become(s, st) /\ table' = [table EXCEPT ![r] = new]
  BY <1>1, <1>3, <1>4, <1>5 DEF update_record
<1>8. st \in StmtType
  BY <1>2, <1>6, PcNames, SetNames DEF StmtType
<1>9. table \in [Rid -> Row \cup {NoRow}] /\ Typed /\ Unique
  BY DEF Good, Typed
<1>10. /\ table' \in [Rid -> Row \cup {NoRow}] /\ table'[r] = new
       /\ \A q \in Rid : q # r => table'[q] = table[q]
  BY <1>4, <1>7, <1>9
<1>11. Fits(Own, s, st, table', indexes)
  <2>1. \A q \in st.rids : table'[q] \in Own[s] /\ q # st.rid
    <3>1. /\ st.rids = session[s].rids /\ st.rid = NoRid
          /\ st.rids \subseteq Rid
      BY <1>6, StmtFacts
    <3>2. \A q \in session[s].rids : table[q] \in Own[s] /\ q # r
      BY <1>2, <1>3 DEF Fits
    <3>3. NoRid \notin Rid
      BY DmlAssumption
    <3>4. QED
      BY <1>10, <3>1, <3>2, <3>3
  <2>2. \A q \in st.rids : Updated(table'[q], st.set) \in Own[s]
    <3>1. /\ st.rids = session[s].rids /\ st.set = session[s].set
          /\ st.rids \subseteq Rid
      BY <1>6, StmtFacts
    <3>2. \A q \in session[s].rids : Updated(table[q], session[s].set) \in Own[s] /\ q # r
      BY <1>1, <1>2, <1>3 DEF Fits, Updating
    <3>3. QED
      BY <1>10, <3>1, <3>2
  <2>3. QED
    BY <1>1, <1>2, <1>6, <2>1, <2>2 DEF Fits, HoldsRid, HasNew, HasOld, Updating
<1>12. Unique'
  <2>1. ASSUME NEW c \in Range(indexes)
        PROVE  NoOther(table, r, c, new)
    <3>1. PICK j \in DOMAIN indexes : c = indexes[j]
      BY DEF Range
    <3>2. j < session[s].i
      BY <1>1, CurrentIndex
    <3>3. QED
      BY <1>1, <1>2, <1>3, <1>4, <3>1, <3>2 DEF Fits
  <2>2. QED
    BY <1>1, <1>7, <1>9, <2>1, StoreKeepsUnique
<1>13. \A j \in DOMAIN indexes : ShownBy(session[s], j) = table'[r]
  BY <1>1, <1>4, <1>10, CurrentIndex DEF ShownBy
<1>14. /\ Become(s, st) /\ st.rid = NoRid /\ session[s].rid = r
       /\ table'[r] \in Own[s] \cup {NoRow}
  BY <1>3, <1>4, <1>6, <1>7, <1>10
<1>15. QED
  BY <1>1, <1>8, <1>10, <1>11, <1>12, <1>13, <1>14, RowIsReleased

\* A statement that has no more rids.
LEMMA StatementDoneIsGood ==
  ASSUME NEW Own, SeparateSessions(Own), Good(Own), NEW s \in Session, statement_done(s)
  PROVE  Good(Own)'
<1>1. /\ session[s].pc \in {"delete", "update"}
      /\ Become(s, Idle) /\ UNCHANGED <<table, indexes, ihs>>
  BY DEF statement_done, At, Stmt
<1>2. session[s].rid = NoRid /\ Idle.rid = NoRid
  BY <1>1, StmtFacts DEF Fits, HoldsRid, Idle
<1>3. QED
  BY <1>1, <1>2, IdleFits, StatementMoves, DmlAssumption

(***************************************************************************)
(* A step of a statement, other than the exception of an update that has   *)
(* changed an index.                                                       *)
(***************************************************************************)
LEMMA StepIsGood ==
  ASSUME NEW Own, SeparateSessions(Own), Good(Own), NEW s \in Session, Step(s), ~TornUpdate(s)
  PROVE  Good(Own)'
  BY InsertCheckIsGood, InsertRecordIsGood, InsertEntriesIsGood, DeleteReadIsGood,
     DeleteEntriesIsGood, DeleteRecordIsGood, UpdateReadIsGood, UpdateCheckIsGood,
     UpdateRemoveIsGood, UpdateAddIsGood, UpdateRecordIsGood, StatementDoneIsGood
  DEF Step

-----------------------------------------------------------------------------
\* Between statements the indexes show the rows of the table.
LEMMA QuietShows ==
  ASSUME NEW Own, SeparateSessions(Own), Good(Own), Quiet, NEW j, NEW r \in Rid, NEW x
  PROVE  Shows(j, r, x) <=> x = table[r]
<1>1. \A s \in Session : Stmt(s).rid = NoRid
  BY StmtFacts DEF Quiet, At, Fits, HoldsRid
<1>2. QED
  BY <1>1, DmlAssumption DEF Shows, InFlight

LEMMA QuietShowsNext ==
  ASSUME NEW Own, SeparateSessions(Own), Good(Own), Quiet, UNCHANGED <<table, session>>,
         NEW j, NEW r \in Rid, NEW x
  PROVE  Shows(j, r, x)' <=> x = table[r]
<1>1. \A s \in Session : session'[s].rid = NoRid
  BY StmtFacts DEF Quiet, At, Fits, HoldsRid
<1>2. r \notin InFlight'
  BY <1>1, DmlAssumption DEF InFlight, Stmt
<1>3. Shows(j, r, x)' <=>
        \/ r \notin InFlight' /\ x = table'[r]
        \/ \E s \in Session : session'[s].rid = r /\ x = ShownBy(session'[s], j)
  BY DEF Shows, Stmt, ShownBy
<1>4. QED
  BY <1>1, <1>2, <1>3, DmlAssumption

\* Idle statements fit any table and list of indexes.
LEMMA QuietFits ==
  ASSUME NEW Own, SeparateSessions(Own), Good(Own), Quiet, UNCHANGED <<table, session>>
  PROVE  \A s \in Session : Fits(Own, s, session'[s], table', indexes')
<1>1. SUFFICES ASSUME NEW s \in Session
               PROVE  Fits(Own, s, session[s], table, indexes')
  OBVIOUS
<1>2. session[s].pc = "idle"
  BY DEF Quiet, At, Stmt
<1>3. Fits(Own, s, session[s], table, indexes)
  BY StmtFacts
<1>4. QED
  BY <1>2, <1>3 DEF Fits, HoldsRid, HasNew, HasOld, Updating

\* The entries of a new index.
LEMMA EntriesAreRows ==
  ASSUME Typed, NEW c
  PROVE  /\ \A e \in EntriesOf(c) : \E r \in Rid, x \in Row :
              x = table[r] /\ e = <<KeyOf(c, x), r>>
         /\ \A r \in Rid, x \in Row : x = table[r] => <<KeyOf(c, x), r>> \in EntriesOf(c)
  BY DmlAssumption DEF EntriesOf, Stored, Typed

(***************************************************************************)
(* create_index fills the new index from the table, if no key is there     *)
(* twice.                                                                  *)
(***************************************************************************)
LEMMA CreateIsGood ==
  ASSUME NEW Own, SeparateSessions(Own), Good(Own), NEW cols \in IndexCols, create_index(cols)
  PROVE  Good(Own)'
<1>1. /\ Quiet /\ UNCHANGED <<table, session>>
      /\ cols \notin Range(indexes)
      /\ ~HasDuplicate(EntriesOf(cols))
      /\ indexes' = Append(indexes, cols)
      /\ ihs' = [c \in DOMAIN ihs \cup {cols} |-> IF c = cols THEN EntriesOf(cols) ELSE ihs[c]]
  BY DEF create_index
<1>2. Typed /\ Unique /\ Matches
  BY DEF Good
<1>3. PICK n \in Nat : n = Len(indexes)
  BY <1>2 DEF Typed
<1>4. /\ indexes' \in Seq(IndexCols)
      /\ DOMAIN indexes = 1..n /\ DOMAIN indexes' = 1..(n + 1)
      /\ \A j \in 1..n : indexes'[j] = indexes[j]
      /\ indexes'[n + 1] = cols
  BY <1>1, <1>2, <1>3 DEF Typed
<1>5. \A j \in 1..(n + 1) : j \in 1..n \/ j = n + 1
  OBVIOUS
<1>6. \A j \in 1..n : indexes[j] # cols /\ indexes[j] \in Range(indexes)
  BY <1>1, <1>4 DEF Range
<1>7. Range(indexes') = Range(indexes) \cup {cols}
  BY <1>4, <1>5 DEF Range
<1>8. IsInjective(indexes')
  <2>1. \A i, j \in 1..n : indexes[i] = indexes[j] => i = j
    BY <1>2, <1>4 DEF Typed, IsInjective
  <2>2. \A i, j \in 1..(n + 1) : indexes'[i] = indexes'[j] => i = j
    BY <1>4, <1>5, <1>6, <2>1
  <2>3. QED
    BY <1>4, <2>2 DEF IsInjective
<1>9. Typed'
  BY <1>1, <1>2, <1>4, <1>7, <1>8 DEF Typed
<1>10. Unique'
  <2>1. ASSUME NEW r1 \in Rid, NEW r2 \in Rid, r1 # r2, table[r1] # NoRow, table[r2] # NoRow
        PROVE  KeyOf(cols, table[r1]) # KeyOf(cols, table[r2])
    <3>1. PICK e, f : e = <<KeyOf(cols, table[r1]), r1>> /\ f = <<KeyOf(cols, table[r2]), r2>>
      OBVIOUS
    <3>2. e \in EntriesOf(cols) /\ f \in EntriesOf(cols)
      BY <2>1, <3>1 DEF EntriesOf, Stored
    <3>3. e # f /\ e[1] = KeyOf(cols, table[r1]) /\ f[1] = KeyOf(cols, table[r2])
      BY <2>1, <3>1
    <3>4. QED
      BY <1>1, <3>2, <3>3 DEF HasDuplicate
  <2>2. \A c \in Range(indexes'), r \in Rid :
          table[r] # NoRow => NoOther(table, r, c, table[r])
    BY <1>2, <1>7, <2>1 DEF Unique, NoOther
  <2>3. QED
    BY <1>1, <2>2 DEF Unique, NoOther, KeyOf
<1>11. Matches'
  <2>1. SUFFICES ASSUME NEW j \in 1..(n + 1)
                 PROVE  /\ \A e \in ihs'[indexes'[j]] : \E r \in Rid, x \in Row :
                             Shows(j, r, x)' /\ e = <<KeyOf(indexes'[j], x), r>>
                        /\ \A r \in Rid, x \in Row :
                             Shows(j, r, x)' => <<KeyOf(indexes'[j], x), r>> \in ihs'[indexes'[j]]
    BY <1>4 DEF Matches, KeyOf
  <2>2. \A r \in Rid, x \in Row : /\ Shows(j, r, x)' <=> x = table[r]
                                  /\ Shows(j, r, x) <=> x = table[r]
    BY <1>1, QuietShows, QuietShowsNext
  <2>3. CASE j \in 1..n
    <3>1. indexes'[j] = indexes[j] /\ ihs'[indexes'[j]] = ihs[indexes[j]]
      BY <1>1, <1>2, <1>4, <1>6, <2>3 DEF Typed
    <3>2. QED
      BY <1>2, <1>4, <2>2, <2>3, <3>1 DEF Matches
  <2>4. CASE j = n + 1
    <3>1. indexes'[j] = cols /\ ihs'[cols] = EntriesOf(cols)
      BY <1>1, <1>4, <2>4
    <3>2. QED
      BY <1>2, <2>2, <3>1, EntriesAreRows
  <2>5. QED
    BY <1>5, <2>3, <2>4
<1>12. \A s \in Session : Fits(Own, s, session'[s], table', indexes')
  BY <1>1, QuietFits
<1>13. QED
  BY <1>9, <1>10, <1>11, <1>12 DEF Good

\* What is left of a sequence when the element at position k is taken out.
LEMMA ErasedAt ==
  ASSUME NEW S, NEW q \in Seq(S), NEW k \in 1..Len(q)
  PROVE  /\ Erase(q, k) \in Seq(S)
         /\ Len(Erase(q, k)) = Len(q) - 1
         /\ \A j \in 1..(Len(q) - 1) : Erase(q, k)[j] = IF j < k THEN q[j] ELSE q[j + 1]
<1>1. PICK n \in Nat : n = Len(q)
  OBVIOUS
<1>2. PICK a, b : a = SubSeq(q, 1, k - 1) /\ b = SubSeq(q, k + 1, n)
  OBVIOUS
<1>3. a \in Seq(S) /\ Len(a) = k - 1 /\ \A j \in 1..(k - 1) : a[j] = q[j]
  BY <1>1, <1>2
<1>4. b \in Seq(S) /\ Len(b) = n - k /\ \A j \in 1..(n - k) : b[j] = q[j + k]
  BY <1>1, <1>2
<1>5. Erase(q, k) = a \o b
  BY <1>1, <1>2 DEF Erase
<1>6. /\ a \o b \in Seq(S) /\ Len(a \o b) = n - 1
      /\ \A j \in 1..(n - 1) : (a \o b)[j] = IF j <= k - 1 THEN a[j] ELSE b[j - (k - 1)]
  <2>1. k \in Nat /\ k >= 1 /\ k <= n
    BY <1>1
  <2>2. a \o b \in Seq(S)
    BY <1>3, <1>4
  <2>3. Len(a \o b) = Len(a) + Len(b)
    BY <1>3, <1>4
  <2>4. \A j \in 1..(Len(a) + Len(b)) :
          (a \o b)[j] = IF j <= Len(a) THEN a[j] ELSE b[j - Len(a)]
    BY <1>3, <1>4
  <2>5. Len(a) + Len(b) = n - 1
    BY <1>3, <1>4, <2>1
  <2>6. QED
    BY <1>3, <2>2, <2>3, <2>4, <2>5
<1>7. ASSUME NEW j \in 1..(n - 1)
      PROVE  (a \o b)[j] = IF j < k THEN q[j] ELSE q[j + 1]
  <2>1. CASE j < k
    BY <1>1, <1>3, <1>6, <2>1
  <2>2. CASE ~(j < k)
    <3>1. j - (k - 1) \in 1..(n - k) /\ (j - (k - 1)) + k = j + 1
      BY <1>1, <2>2
    <3>2. (a \o b)[j] = b[j - (k - 1)]
      BY <1>1, <1>6, <2>2
    <3>3. QED
      BY <1>4, <2>2, <3>1, <3>2
  <2>3. QED
    BY <2>1, <2>2
<1>8. QED
  BY <1>1, <1>5, <1>6, <1>7

(***************************************************************************)
(* drop_index takes one index out of the list and of ihs_.                 *)
(***************************************************************************)
LEMMA DropIsGood ==
  ASSUME NEW Own, SeparateSessions(Own), Good(Own), NEW cols \in IndexCols, drop_index(cols)
  PROVE  Good(Own)'
<1>1. /\ Quiet /\ UNCHANGED <<table, session>>
      /\ cols \in Range(indexes)
      /\ indexes' = IndexListWithout(cols)
      /\ ihs' = [c \in DOMAIN ihs \ {cols} |-> ihs[c]]
  BY DEF drop_index
<1>2. Typed /\ Unique /\ Matches
  BY DEF Good
<1>3. PICK n \in Nat : n = Len(indexes) /\ DOMAIN indexes = 1..n
  BY <1>2, IndexColumns
<1>4. PICK k \in 1..n : indexes[k] = cols /\ indexes' = Erase(indexes, k)
  BY <1>1, <1>3 DEF Range, IndexListWithout
<1>5. /\ indexes' \in Seq(IndexCols) /\ DOMAIN indexes' = 1..(n - 1)
      /\ \A j \in 1..(n - 1) : indexes'[j] = IF j < k THEN indexes[j] ELSE indexes[j + 1]
  BY <1>2, <1>3, <1>4, ErasedAt DEF Typed
<1>6. \A i, j \in 1..n : indexes[i] = indexes[j] => i = j
  BY <1>2, <1>3 DEF Typed, IsInjective
<1>7. \A j \in 1..(n - 1) : \E i \in 1..n : i # k /\ indexes'[j] = indexes[i]
  <2>1. SUFFICES ASSUME NEW j \in 1..(n - 1)
                 PROVE  \E i \in 1..n : i # k /\ indexes'[j] = indexes[i]
    OBVIOUS
  <2>2. j \in 1..n /\ j + 1 \in 1..n
    OBVIOUS
  <2>3. CASE j < k
    BY <1>5, <2>2, <2>3
  <2>4. CASE ~(j < k)
    BY <1>5, <2>2, <2>4
  <2>5. QED
    BY <2>3, <2>4
<1>8. \A i \in 1..n : i # k => \E j \in 1..(n - 1) : indexes'[j] = indexes[i]
  <2>1. SUFFICES ASSUME NEW i \in 1..n, i # k
                 PROVE  \E j \in 1..(n - 1) : indexes'[j] = indexes[i]
    OBVIOUS
  <2>2. CASE i < k
    BY <1>5, <2>2
  <2>3. CASE i > k
    <3>1. i - 1 \in 1..(n - 1) /\ ~(i - 1 < k) /\ (i - 1) + 1 = i
      BY <2>3
    <3>2. QED
      BY <1>5, <3>1
  <2>4. QED
    BY <2>1, <2>2, <2>3
<1>9. Range(indexes') = Range(indexes) \ {cols}
  <2>1. \A i \in 1..n : i # k <=> indexes[i] # cols
    BY <1>4, <1>6
  <2>2. ASSUME NEW c \in Range(indexes')
        PROVE  c \in Range(indexes) /\ c # cols
    <3>1. PICK j \in 1..(n - 1) : c = indexes'[j]
      BY <1>5 DEF Range
    <3>2. PICK i \in 1..n : i # k /\ c = indexes[i]
      BY <1>7, <3>1
    <3>3. QED
      BY <1>3, <2>1, <3>2 DEF Range
  <2>3. ASSUME NEW c \in Range(indexes), c # cols
        PROVE  c \in Range(indexes')
    <3>1. PICK i \in 1..n : c = indexes[i]
      BY <1>3 DEF Range
    <3>2. PICK j \in 1..(n - 1) : indexes'[j] = c
      BY <1>8, <2>1, <2>3, <3>1
    <3>3. QED
      BY <1>5, <3>2 DEF Range
  <2>4. QED
    BY <2>2, <2>3
<1>10. IsInjective(indexes')
  <2>1. SUFFICES ASSUME NEW i \in 1..(n - 1), NEW j \in 1..(n - 1), indexes'[i] = indexes'[j]
                 PROVE  i = j
    BY <1>5 DEF IsInjective
  <2>2. i \in 1..n /\ i + 1 \in 1..n /\ j \in 1..n /\ j + 1 \in 1..n
    OBVIOUS
  <2>3. QED
    BY <1>5, <1>6, <2>1, <2>2
<1>11. Typed'
  BY <1>1, <1>2, <1>5, <1>9, <1>10 DEF Typed
<1>12. Unique'
  BY <1>1, <1>2, <1>9 DEF Unique, NoOther, KeyOf
<1>13. Matches'
  <2>1. SUFFICES ASSUME NEW j \in 1..(n - 1)
                 PROVE  /\ \A e \in ihs'[indexes'[j]] : \E r \in Rid, x \in Row :
                             Shows(j, r, x)' /\ e = <<KeyOf(indexes'[j], x), r>>
                        /\ \A r \in Rid, x \in Row :
                             Shows(j, r, x)' => <<KeyOf(indexes'[j], x), r>> \in ihs'[indexes'[j]]
    BY <1>5 DEF Matches, KeyOf
  <2>2. PICK i \in 1..n : i # k /\ indexes'[j] = indexes[i]
    BY <1>7
  <2>3. \A r \in Rid, x \in Row : /\ Shows(j, r, x)' <=> x = table[r]
                                  /\ Shows(i, r, x) <=> x = table[r]
    BY <1>1, QuietShows, QuietShowsNext
  <2>4. indexes[i] # cols /\ ihs'[indexes'[j]] = ihs[indexes[i]]
    BY <1>1, <1>2, <1>3, <1>4, <1>6, <2>2, IndexColumns DEF Typed
  <2>5. /\ \A e \in ihs[indexes[i]] : \E r \in Rid, x \in Row :
             Shows(i, r, x) /\ e = <<KeyOf(indexes[i], x), r>>
        /\ \A r \in Rid, x \in Row :
             Shows(i, r, x) => <<KeyOf(indexes[i], x), r>> \in ihs[indexes[i]]
    BY <1>2, <1>3 DEF Matches
  <2>6. QED
    BY <2>2, <2>3, <2>4, <2>5
<1>14. \A s \in Session : Fits(Own, s, session'[s], table', indexes')
  BY <1>1, QuietFits
<1>15. QED
  BY <1>11, <1>12, <1>13, <1>14 DEF Good

-----------------------------------------------------------------------------
LEMMA InitIsGood == Init => Inv
<1>1. SUFFICES ASSUME Init
               PROVE  Inv
  OBVIOUS
<1>2. /\ table = [r \in Rid |-> NoRow] /\ indexes = << >> /\ ihs = << >>
      /\ session = [s \in Session |-> Idle] /\ torn = FALSE
      /\ touched = [s \in Session |-> {}] /\ raced = FALSE
  BY <1>1 DEF Init
<1>3. /\ DOMAIN indexes = {} /\ DOMAIN ihs = {} /\ Range(indexes) = {}
      /\ indexes \in Seq(IndexCols)
  BY <1>2 DEF Range
<1>4. Idle \in StmtType
  BY IdleIsTyped
<1>5. Typed
  BY <1>2, <1>3, <1>4 DEF Typed, IsInjective
<1>6. Unique /\ Matches
  BY <1>3 DEF Unique, Matches
<1>7. \A s \in Session : Fits(touched, s, session[s], table, indexes)
  BY <1>2, IdleFits
<1>8. SeparateSessions(touched) /\ \A s \in Session : touched[s] = {}
  BY <1>2 DEF SeparateSessions
<1>9. QED
  BY <1>2, <1>5, <1>6, <1>7, <1>8 DEF Inv, Good

-----------------------------------------------------------------------------
\* The rows of Good(touched) in the next state, when a session that is idle there, and no
\* other, touches something else.
LEMMA GoodNext ==
  ASSUME NEW Own, Good(Own)', \A s \in Session : session'[s].pc = "idle" \/ touched'[s] = Own[s]
  PROVE  Good(touched)'
<1>1. Typed' /\ Unique' /\ Matches'
  BY DEF Good
<1>2. \A s \in Session : Fits(Own, s, session'[s], table', indexes')
  BY DEF Good
<1>3. \A s \in Session : Fits(touched', s, session'[s], table', indexes')
  BY <1>2, IdleMayOwn
<1>4. QED
  BY <1>1, <1>3 DEF Good

\* What is separate stays so while the indexes stay.
LEMMA StaySeparate ==
  ASSUME NEW Own, SeparateSessions(Own), indexes' = indexes, touched' = Own
  PROVE  SeparateSessions(touched)'
<1>1. \A x, y : Conflict(x, y)' <=> Conflict(x, y)
  BY DEF Conflict, KeyOf
<1>2. QED
  BY <1>1 DEF SeparateSessions

\* What a statement touches are rows, and no other statement touches them without a race.
LEMMA TouchedAreRows ==
  ASSUME Good(touched), SeparateSessions(touched), NEW s \in Session, Begin(s)
  PROVE  Footprint(session'[s]) \subseteq Row
<1>1. session \in [Session -> StmtType] /\ table \in [Rid -> Row \cup {NoRow}]
  BY DEF Good, Typed
<1>2. ASSUME NEW row \in Work[s].rows, insert_begin(s, row)
      PROVE  Footprint(session'[s]) \subseteq Row
  <2>1. session'[s].pc = "check" /\ session'[s].new = row
    BY <1>1, <1>2 DEF insert_begin, Become, Idle
  <2>2. QED
    BY <2>1, DmlAssumption DEF Footprint
<1>3. ASSUME NEW where \in Work[s].wheres, NEW r \in Matching(where),
             NEW set, \A c \in DOMAIN set : set[c] \in Value
      PROVE  table[r] \in Row /\ Updated(table[r], set) \in Row
  <2>1. table[r] \in Row
    BY <1>3, DmlAssumption DEF Matching
  <2>2. Updated(table[r], set) \in Row
    BY <1>3, <2>1 DEF Updated, Row
  <2>3. QED
    BY <2>1, <2>2
<1>4. ASSUME NEW where \in Work[s].wheres, delete_begin(s, where)
      PROVE  Footprint(session'[s]) \subseteq Row
  <2>1. /\ session'[s].pc = "delete" /\ session'[s].rids = Matching(where)
        /\ session'[s].set = << >>
    BY <1>1, <1>4 DEF delete_begin, Become, Idle
  <2>2. \A c \in DOMAIN << >> : << >>[c] \in Value
    OBVIOUS
  <2>3. QED
    BY <1>3, <2>1, <2>2 DEF Footprint
<1>5. ASSUME NEW where \in Work[s].wheres, NEW set \in Work[s].sets, update_begin(s, where, set)
      PROVE  Footprint(session'[s]) \subseteq Row
  <2>1. /\ session'[s].pc = "update" /\ session'[s].rids = Matching(where)
        /\ session'[s].set = set
    BY <1>1, <1>5 DEF update_begin, Become, Idle
  <2>2. \A c \in DOMAIN set : set[c] \in Value
    BY DmlAssumption
  <2>3. QED
    BY <1>3, <2>1, <2>2 DEF Footprint
<1>6. QED
  BY <1>2, <1>4, <1>5 DEF Begin

\* The other sessions go on as they were, and the idle ones touch nothing.
LEMMA OthersTouch ==
  ASSUME NEW s \in Session, session \in [Session -> StmtType], NEW st, Become(s, st),
         \A t \in Session : session[t].pc = "idle" => touched[t] = {},
         touched' = [t \in Session |-> Touched(t)], NEW t \in Session, t # s
  PROVE  session'[t] = session[t] /\ touched'[t] = touched[t]
  BY DEF Become, Touched, At, Stmt

\* What a statement in progress touches does not change until its end.
LEMMA StepTouches ==
  ASSUME NEW s \in Session, Good(touched), Step(s),
         \A t \in Session : session[t].pc = "idle" => touched[t] = {},
         touched' = [t \in Session |-> Touched(t)]
  PROVE  /\ indexes' = indexes
         /\ \A t \in Session : IF session'[t].pc = "idle" THEN touched'[t] = {}
                                 ELSE touched'[t] = touched[t]
<1>1. session \in [Session -> StmtType]
  BY DEF Good, Typed
<1>2. session[s].pc # "idle" /\ indexes' = indexes /\ \E st : Become(s, st)
  BY DEF Step, insert_check, insert_record, insert_entries, delete_read, delete_entries,
         delete_record, update_read, update_check, update_remove, update_add, update_record,
         statement_done, At, Stmt
<1>3. ASSUME NEW t \in Session
      PROVE  IF session'[t].pc = "idle" THEN touched'[t] = {} ELSE touched'[t] = touched[t]
  <2>1. CASE t = s
    BY <1>2, <2>1 DEF Touched, At, Stmt
  <2>2. CASE t # s
    BY <1>1, <1>2, <2>2, OthersTouch
  <2>3. QED
    BY <2>1, <2>2
<1>4. QED
  BY <1>2, <1>3

(***************************************************************************)
(* A statement begins and meets no other: what it touches is its own.      *)
(***************************************************************************)
LEMMA BeginKeepsInv ==
  ASSUME Good(touched), SeparateSessions(touched), NEW s \in Session, Begin(s), ~Race,
         \A t \in Session : session[t].pc = "idle" => touched[t] = {},
         touched' = [t \in Session |-> Touched(t)]
  PROVE  /\ Good(touched)' /\ SeparateSessions(touched)'
         /\ \A t \in Session : session'[t].pc = "idle" => touched'[t] = {}
<1>1. session \in [Session -> StmtType]
  BY DEF Good, Typed
<1>2. /\ session[s].pc = "idle" /\ indexes' = indexes
      /\ \E st : Become(s, st) /\ st.pc # "idle"
  <2>1. ASSUME NEW row \in Work[s].rows, insert_begin(s, row)
        PROVE  /\ session[s].pc = "idle" /\ indexes' = indexes
               /\ \E st : Become(s, st) /\ st.pc # "idle"
    <3>1. PICK st : st = [Idle EXCEPT !.pc = "check", !.tab = indexes, !.new = row]
      OBVIOUS
    <3>2. st.pc = "check"
      BY <3>1 DEF Idle
    <3>3. Become(s, st) /\ session[s].pc = "idle" /\ indexes' = indexes
      BY <2>1, <3>1 DEF insert_begin, At, Stmt
    <3>4. QED
      BY <3>2, <3>3
  <2>2. ASSUME NEW where \in Work[s].wheres, delete_begin(s, where)
        PROVE  /\ session[s].pc = "idle" /\ indexes' = indexes
               /\ \E st : Become(s, st) /\ st.pc # "idle"
    <3>1. PICK st : st = [Idle EXCEPT !.pc = "delete", !.tab = indexes, !.rids = Matching(where)]
      OBVIOUS
    <3>2. st.pc = "delete"
      BY <3>1 DEF Idle
    <3>3. Become(s, st) /\ session[s].pc = "idle" /\ indexes' = indexes
      BY <2>2, <3>1 DEF delete_begin, At, Stmt
    <3>4. QED
      BY <3>2, <3>3
  <2>3. ASSUME NEW where \in Work[s].wheres, NEW set \in Work[s].sets, update_begin(s, where, set)
        PROVE  /\ session[s].pc = "idle" /\ indexes' = indexes
               /\ \E st : Become(s, st) /\ st.pc # "idle"
    <3>1. PICK st : st = [Idle EXCEPT !.pc = "update", !.tab = indexes, !.set = set,
                                          !.rids = Matching(where)]
      OBVIOUS
    <3>2. st.pc = "update"
      BY <3>1 DEF Idle
    <3>3. Become(s, st) /\ session[s].pc = "idle" /\ indexes' = indexes
      BY <2>3, <3>1 DEF update_begin, At, Stmt
    <3>4. QED
      BY <3>2, <3>3
  <2>4. QED
    BY <2>1, <2>2, <2>3 DEF Begin
<1>3. \A t \in Session : t # s => session'[t] = session[t] /\ touched'[t] = touched[t]
  BY <1>1, <1>2, OthersTouch
<1>4. session'[s].pc # "idle" /\ touched'[s] = Footprint(session'[s])
  <2>1. session'[s].pc # "idle"
    BY <1>1, <1>2 DEF Become
  <2>2. QED
    BY <1>2, <2>1 DEF Touched, At, Stmt
<1>5. PICK own : own = touched'
  OBVIOUS
<1>6. own \in [Session -> SUBSET Row]
  <2>1. \A t \in Session : own[t] \subseteq Row
    BY <1>3, <1>4, <1>5, TouchedAreRows, OwnedRows
  <2>2. QED
    BY <1>5, <2>1
<1>7. SeparateSessions(own)
  BY <1>5, <1>6 DEF SeparateSessions, Race
<1>8. Good(own)
  <2>1. \A t \in Session : Fits(own, t, session[t], table, indexes)
    <3>1. \A t \in Session : session[t].pc = "idle" \/ own[t] = touched[t]
      BY <1>2, <1>3, <1>5
    <3>2. \A t \in Session : Fits(touched, t, session[t], table, indexes)
      BY DEF Good
    <3>3. QED
      BY <3>1, <3>2, IdleMayOwn
  <2>2. QED
    BY <2>1 DEF Good
<1>9. Good(own)'
  BY <1>4, <1>5, <1>7, <1>8, BeginIsGood
<1>10. Good(touched)'
  BY <1>5, <1>9, GoodNext
<1>11. SeparateSessions(touched)'
  BY <1>2, <1>5, <1>7, StaySeparate
<1>12. QED
  BY <1>3, <1>4, <1>10, <1>11

(***************************************************************************)
(* A statement goes on or ends, and touches no more than before.           *)
(***************************************************************************)
LEMMA StepKeepsInv ==
  ASSUME Good(touched), SeparateSessions(touched), NEW s \in Session, Step(s), ~TornUpdate(s),
         \A t \in Session : session[t].pc = "idle" => touched[t] = {},
         touched' = [t \in Session |-> Touched(t)]
  PROVE  /\ Good(touched)' /\ SeparateSessions(touched)'
         /\ \A t \in Session : session'[t].pc = "idle" => touched'[t] = {}
<1>1. PICK own : own = touched
  OBVIOUS
<1>2. Good(own) /\ SeparateSessions(own)
  BY <1>1
<1>3. Good(own)'
  BY <1>2, StepIsGood
<1>4. /\ indexes' = indexes
      /\ \A t \in Session : IF session'[t].pc = "idle" THEN touched'[t] = {}
                              ELSE touched'[t] = touched[t]
  BY StepTouches
<1>5. Good(touched)'
  BY <1>1, <1>3, <1>4, GoodNext
<1>6. SeparateSessions(touched)'
  <2>1. \A t \in Session : touched'[t] \subseteq own[t]
    BY <1>1, <1>4
  <2>2. touched' \in [Session -> SUBSET Row]
    BY <1>2, <2>1 DEF SeparateSessions
  <2>3. ASSUME NEW t \in Session, NEW u \in Session, t # u,
               NEW x \in touched'[t], NEW y \in touched'[u]
        PROVE  ~Conflict(x, y)'
    <3>1. ~Conflict(x, y)
      BY <1>2, <2>1, <2>3 DEF SeparateSessions
    <3>2. QED
      BY <1>4, <3>1 DEF Conflict, KeyOf
  <2>4. QED
    BY <2>2, <2>3 DEF SeparateSessions
<1>7. QED
  BY <1>4, <1>5, <1>6

(***************************************************************************)
(* Indexes come and go while no statement runs, and nothing is touched.    *)
(***************************************************************************)
LEMMA IndexStepKeepsInv ==
  ASSUME Good(touched), SeparateSessions(touched), NEW cols \in IndexCols,
         create_index(cols) \/ drop_index(cols),
         touched' = [t \in Session |-> Touched(t)]
  PROVE  /\ Good(touched)' /\ SeparateSessions(touched)'
         /\ \A t \in Session : session'[t].pc = "idle" => touched'[t] = {}
<1>1. PICK own : own = touched
  OBVIOUS
<1>2. Good(own) /\ SeparateSessions(own)
  BY <1>1
<1>3. Good(own)'
  BY <1>2, CreateIsGood, DropIsGood
<1>4. \A t \in Session : session'[t].pc = "idle" /\ touched'[t] = {}
  BY DEF create_index, drop_index, Quiet, At, Stmt, Touched
<1>5. Good(touched)'
  BY <1>3, <1>4, GoodNext
<1>6. SeparateSessions(touched)'
  BY <1>4 DEF SeparateSessions
<1>7. QED
  BY <1>4, <1>5, <1>6

\* Nothing changes.
LEMMA StutterKeepsInv ==
  ASSUME Inv, UNCHANGED vars
  PROVE  Inv'
<1>1. UNCHANGED <<table, indexes, ihs, session, torn, touched, raced>>
  BY DEF vars
<1>2. ASSUME Good(touched)
      PROVE  Good(touched)'
  <2>1. Typed /\ Unique /\ Matches
    BY <1>2 DEF Good
  <2>2. Typed'
    BY <1>1, <2>1 DEF Typed
  <2>3. Unique'
    BY <1>1, <2>1 DEF Unique, NoOther, KeyOf
  <2>4. \A j, r, x : Shows(j, r, x)' <=> Shows(j, r, x)
    BY <1>1 DEF Shows, InFlight, Stmt, ShownBy
  <2>5. Matches'
    BY <1>1, <2>1, <2>4 DEF Matches, KeyOf
  <2>6. \A s \in Session : Fits(touched', s, session'[s], table', indexes')
    BY <1>1, <1>2 DEF Good
  <2>7. QED
    BY <2>2, <2>3, <2>5, <2>6 DEF Good
<1>3. ASSUME SeparateSessions(touched)
      PROVE  SeparateSessions(touched)'
  <2>1. PICK own : own = touched
    OBVIOUS
  <2>2. SeparateSessions(own)
    BY <1>3, <2>1
  <2>3. QED
    BY <1>1, <2>1, <2>2, StaySeparate
<1>4. QED
  BY <1>1, <1>2, <1>3 DEF Inv

\* A step of Next keeps the invariant, or it is an update given up half-way or a race.
LEMMA NextIsGood == Inv /\ [Next]_vars => Inv'
<1>1. CASE Inv /\ UNCHANGED vars
  BY <1>1, StutterKeepsInv
<1>2. CASE Next /\ (torn = TRUE \/ raced = TRUE \/ Race \/ \E s \in Session : TornUpdate(s))
  <2>1. torn' = TRUE \/ raced' = TRUE
    BY <1>2 DEF Next
  <2>2. QED
    BY <2>1 DEF Inv
<1>3. CASE /\ Inv /\ Next /\ torn # TRUE /\ raced # TRUE
           /\ ~Race /\ \A s \in Session : ~TornUpdate(s)
  <2>1. /\ torn = FALSE /\ raced = FALSE
        /\ Good(touched) /\ SeparateSessions(touched)
        /\ \A s \in Session : session[s].pc = "idle" => touched[s] = {}
    BY <1>3 DEF Inv
  <2>2. torn' = FALSE /\ raced' = FALSE /\ touched' = [s \in Session |-> Touched(s)]
    BY <1>3, <2>1 DEF Next
  <2>3. \/ \E s \in Session : Begin(s) \/ Step(s)
        \/ \E cols \in IndexCols : create_index(cols) \/ drop_index(cols)
    BY <1>3 DEF Next
  <2>4. /\ Good(touched)' /\ SeparateSessions(touched)'
        /\ \A t \in Session : session'[t].pc = "idle" => touched'[t] = {}
    BY <1>3, <2>1, <2>2, <2>3, BeginKeepsInv, StepKeepsInv, IndexStepKeepsInv
  <2>5. QED
    BY <2>2, <2>4 DEF Inv
<1>4. QED
  BY <1>1, <1>2, <1>3

\* What the invariant says of the rows nobody works on.
LEMMA GoodIsRight ==
  ASSUME Inv
  PROVE  IndexMatchesTable /\ UniqueKeys
<1>1. SUFFICES ASSUME ~torn, ~raced, NEW cols \in Range(indexes)
               PROVE  /\ {e \in ihs[cols] : e[2] \notin InFlight} =
                           {e \in EntriesOf(cols) : e[2] \notin InFlight}
                      /\ ~HasDuplicate(EntriesOf(cols))
  BY DEF IndexMatchesTable, UniqueKeys
<1>2. Typed /\ Unique /\ Matches
  BY <1>1 DEF Inv, Good
<1>3. PICK j \in DOMAIN indexes : indexes[j] = cols
  BY DEF Range
<1>4. ASSUME NEW e \in ihs[cols], e[2] \notin InFlight
      PROVE  e \in EntriesOf(cols)
  <2>1. PICK r \in Rid, x \in Row : Shows(j, r, x) /\ e = <<KeyOf(cols, x), r>>
    BY <1>2, <1>3 DEF Matches
  <2>2. x = table[r]
    BY <1>4, <2>1 DEF Shows, InFlight
  <2>3. QED
    BY <1>2, <2>1, <2>2, EntriesAreRows
<1>5. ASSUME NEW e \in EntriesOf(cols), e[2] \notin InFlight
      PROVE  e \in ihs[cols]
  <2>1. PICK r \in Rid, x \in Row : x = table[r] /\ e = <<KeyOf(cols, x), r>>
    BY <1>2, EntriesAreRows
  <2>2. Shows(j, r, x)
    BY <1>5, <2>1 DEF Shows
  <2>3. QED
    BY <1>2, <1>3, <2>1, <2>2 DEF Matches
<1>6. ~HasDuplicate(EntriesOf(cols))
  <2>1. SUFFICES ASSUME NEW e \in EntriesOf(cols), NEW f \in EntriesOf(cols), e # f, e[1] = f[1]
                 PROVE  FALSE
    BY DEF HasDuplicate
  <2>2. PICK r \in Rid, x \in Row : x = table[r] /\ e = <<KeyOf(cols, x), r>>
    BY <1>2, EntriesAreRows
  <2>3. PICK q \in Rid, y \in Row : y = table[q] /\ f = <<KeyOf(cols, y), q>>
    BY <1>2, EntriesAreRows
  <2>4. r # q /\ KeyOf(cols, table[r]) = KeyOf(cols, table[q])
    BY <2>1, <2>2, <2>3
  <2>5. table[r] # NoRow /\ table[q] # NoRow
    BY <2>2, <2>3, DmlAssumption
  <2>6. QED
    BY <1>2, <2>4, <2>5 DEF Unique, NoOther
<1>7. QED
  BY <1>4, <1>5, <1>6

-----------------------------------------------------------------------------
(***************************************************************************)
(* The invariant holds throughout, for all sessions and workloads.         *)
(***************************************************************************)
THEOREM InvHolds == Spec => []Inv
  BY InitIsGood, NextIsGood, PTL DEF Spec

(***************************************************************************)
(* Table and indexes agree on every row that no executor is working on,    *)
(* whatever inserts, deletes, updates, create_index and drop_index ran,    *)
(* however their steps interleave and wherever an executor threw, for any  *)
(* sessions and statements: up to an update that UpdateExecutor::Next gave *)
(* up half-way, or two statements at the same time on one row or key.      *)
(***************************************************************************)
THEOREM IndexesMatchTable == Spec => []IndexMatchesTable
<1>1. Inv => IndexMatchesTable
  BY GoodIsRight
<1>2. QED
  BY <1>1, InvHolds, PTL

(***************************************************************************)
(* No two rows have one key: InsertExecutor::Next, UpdateExecutor::Next    *)
(* and create_index let no duplicate in, for any sessions and statements,  *)
(* up to an update given up half-way or two statements at the same time on *)
(* one row or key.                                                         *)
(***************************************************************************)
THEOREM KeysAreUnique == Spec => []UniqueKeys
<1>1. Inv => UniqueKeys
  BY GoodIsRight
<1>2. QED
  BY <1>1, InvHolds, PTL

(***************************************************************************)
(* A client alone never races: whatever rows, conditions and SET clauses   *)
(* it uses, the executors keep table and indexes in agreement and the keys *)
(* unique, up to an update UpdateExecutor::Next gave up half-way.          *)
(***************************************************************************)
THEOREM OneSessionIsSafe ==
  ASSUME NEW only, Session = {only}
  PROVE  Spec => [](~raced /\ IndexMatchesTable /\ UniqueKeys)
<1>1. Init => raced = FALSE
  BY DEF Init
<1>2. raced = FALSE /\ [Next]_vars => (raced = FALSE)'
  <2>1. ~Race
    BY DEF Race
  <2>2. QED
    BY <2>1 DEF Next, vars
<1>3. Inv /\ raced = FALSE => ~raced /\ IndexMatchesTable /\ UniqueKeys
  BY GoodIsRight
<1>4. QED
  BY <1>1, <1>2, <1>3, InvHolds, PTL DEF Spec
=============================================================================
