---------------------------- MODULE DmlInvariant ----------------------------
(***************************************************************************)
(* The inductive invariant of the executors, and what a step that moves    *)
(* one statement, one row or one entry must do to keep it.  It holds until *)
(* two sessions meet at a row or a key: Own[s] has the rows the statement  *)
(* of session s touches, and no two sessions have a conflict there         *)
(* (SeparateSessions).                                                     *)
(***************************************************************************)
EXTENDS Dml, TLAPS

Pc == {"idle", "check", "entries", "delete", "unindex", "update", "recheck", "remove", "add"}

\* Where an executor works on one row, its rid, and where it has a new row or an old one.
HoldsRid == {"entries", "unindex", "recheck", "remove", "add"}
HasNew == {"check", "entries", "recheck", "remove", "add"}
HasOld == {"unindex", "recheck", "remove", "add"}
Updating == {"update", "recheck", "remove", "add"}

\* The SET clauses of all sessions, and none.
SetClauses == {<< >>} \cup UNION {Work[s].sets : s \in Session}

StmtType ==
  [pc : Pc, tab : Seq(IndexCols), i : Nat \ {0}, rid : Rid \cup {NoRid},
   rids : SUBSET Rid, old : Row \cup {NoRow}, new : Row \cup {NoRow},
   set : SetClauses]

Typed ==
  /\ table \in [Rid -> Row \cup {NoRow}]
  /\ indexes \in Seq(IndexCols)
  /\ IsInjective(indexes)
  /\ DOMAIN ihs = Range(indexes)
  /\ session \in [Session -> StmtType]

\* No two sessions have rows that are the same or have the same key in an index.
SeparateSessions(Own) ==
  /\ Own \in [Session -> SUBSET Row]
  /\ \A s, t \in Session : s # t => \A x \in Own[s], y \in Own[t] : ~Conflict(x, y)

\* No row of tbl but the one at rid has row's key in index c.
NoOther(tbl, rid, c, row) ==
  \A r \in Rid : r # rid /\ tbl[r] # NoRow => KeyOf(c, tbl[r]) # KeyOf(c, row)

(***************************************************************************)
(* What is true of a statement st of session s, with the table tbl and the *)
(* list ixs of its indexes: the rows it works on are the session's own and *)
(* are as it read them, and the keys it has checked are still free.        *)
(***************************************************************************)
Fits(Own, s, st, tbl, ixs) ==
  /\ IF st.pc = "idle" THEN st.rids = {} ELSE st.tab = ixs
  /\ st.pc \in HoldsRid <=> st.rid # NoRid
  /\ \A r \in st.rids : tbl[r] \in Own[s] /\ r # st.rid
  /\ st.pc \in Updating => \A r \in st.rids : Updated(tbl[r], st.set) \in Own[s]
  /\ st.pc \in HasNew => st.new \in Own[s]
  /\ st.pc \in HasOld => st.old \in Own[s] /\ tbl[st.rid] = st.old
  /\ st.pc = "entries" => tbl[st.rid] = st.new
  /\ st.pc \in {"remove", "add"} => st.i \in DOMAIN ixs /\ NoOther(tbl, st.rid, ixs[st.i], st.new)
  /\ st.pc \in {"check", "recheck", "remove", "add"} =>
       \A j \in DOMAIN ixs : j < st.i => NoOther(tbl, st.rid, ixs[j], st.new)

Unique == \A c \in Range(indexes), r \in Rid : table[r] # NoRow => NoOther(table, r, c, table[r])

\* The row that the j-th index has for the row that statement st works on.
ShownBy(st, j) ==
  IF st.pc = "entries" THEN IF j < st.i THEN st.new ELSE NoRow
  ELSE IF st.pc = "unindex" THEN IF j < st.i THEN NoRow ELSE st.old
  ELSE IF j < st.i THEN st.new
  ELSE IF st.pc = "add" /\ j = st.i THEN NoRow
  ELSE st.old

\* The j-th index has row x for rid r.
Shows(j, r, x) ==
  \/ r \notin InFlight /\ x = table[r]
  \/ \E s \in Session : Stmt(s).rid = r /\ x = ShownBy(Stmt(s), j)

Matches ==
  \A j \in DOMAIN indexes :
    /\ \A e \in ihs[indexes[j]] : \E r \in Rid, x \in Row :
         Shows(j, r, x) /\ e = <<KeyOf(indexes[j], x), r>>
    /\ \A r \in Rid, x \in Row : Shows(j, r, x) => <<KeyOf(indexes[j], x), r>> \in ihs[indexes[j]]

(***************************************************************************)
(* The inductive invariant.  IndexMatchesTable is silent about rows in     *)
(* flight: Matches says which of the indexes already have their new key.   *)
(***************************************************************************)
Good(Own) ==
  /\ Typed
  /\ Unique
  /\ Matches
  /\ \A s \in Session : Fits(Own, s, session[s], table, indexes)

Inv ==
  \/ torn = TRUE
  \/ raced = TRUE
  \/ /\ torn = FALSE /\ raced = FALSE
     /\ Good(touched)
     /\ SeparateSessions(touched)
     /\ \A s \in Session : session[s].pc = "idle" => touched[s] = {}

-----------------------------------------------------------------------------
\* The members of the types of a statement.
LEMMA PcNames ==
  /\ "idle" \in Pc /\ "check" \in Pc /\ "entries" \in Pc /\ "delete" \in Pc /\ "unindex" \in Pc
  /\ "update" \in Pc /\ "recheck" \in Pc /\ "remove" \in Pc /\ "add" \in Pc
  BY DEF Pc

LEMMA SetNames ==
  << >> \in SetClauses /\ \A s \in Session : Work[s].sets \subseteq SetClauses
  BY DEF SetClauses

\* A statement that works on no row.
LEMMA StmtWithoutRow ==
  ASSUME NEW pc \in Pc, NEW tab \in Seq(IndexCols), NEW rids \in SUBSET Rid,
         NEW new \in Row \cup {NoRow}, NEW set \in SetClauses
  PROVE  [pc |-> pc, tab |-> tab, i |-> 1, rid |-> NoRid, rids |-> rids,
          old |-> NoRow, new |-> new, set |-> set] \in StmtType
  BY DEF StmtType

\* The facts about owned rows that the proofs use.
LEMMA OwnedRows ==
  ASSUME NEW Own, SeparateSessions(Own), NEW s \in Session
  PROVE  /\ Own[s] \subseteq Row
         /\ NoRow \notin Own[s]
         /\ \A t \in Session : t # s => \A x \in Own[s], y \in Own[t] :
              x # y /\ \A c \in Range(indexes) : KeyOf(c, x) # KeyOf(c, y)
<1>1. Own[s] \subseteq Row /\ NoRow \notin Own[s]
  BY DmlAssumption DEF SeparateSessions
<1>2. ASSUME NEW t \in Session, NEW x \in Own[s], NEW y \in Own[t], t # s
      PROVE  x # y /\ \A c \in Range(indexes) : KeyOf(c, x) # KeyOf(c, y)
  BY <1>2 DEF SeparateSessions, Conflict
<1>3. QED
  BY <1>1, <1>2

\* The columns of the indexes.
LEMMA IndexColumns ==
  ASSUME Typed
  PROVE  /\ Range(indexes) \subseteq IndexCols
         /\ \A j \in DOMAIN indexes : indexes[j] \in Range(indexes) /\ indexes[j] \in IndexCols
         /\ DOMAIN indexes = 1..Len(indexes) /\ Len(indexes) \in Nat
  BY DEF Typed, Range

\* No session but s works on the row at r.
NotHeldByOthers(s, r) == \A t \in Session : t # s => Stmt(t).rid # r

(***************************************************************************)
(* Only its owner holds the rid of a row, and nobody that of a free slot.  *)
(***************************************************************************)
LEMMA OnlyOwnerHolds ==
  ASSUME NEW Own, SeparateSessions(Own), Good(Own), NEW s \in Session,
         NEW r \in Rid, table[r] \in Own[s] \cup {NoRow}
  PROVE  NotHeldByOthers(s, r)
<1>1. SUFFICES ASSUME NEW t \in Session, t # s, Stmt(t).rid = r
               PROVE  FALSE
  BY DEF NotHeldByOthers
<1>2. session[t].pc \in HoldsRid /\ session[t].rid = r
  BY <1>1, DmlAssumption DEF Good, Fits, Stmt
<1>3. table[r] \in Own[t]
  BY <1>2 DEF Good, Fits, HoldsRid, HasOld, HasNew
<1>4. QED
  BY <1>1, <1>3, OwnedRows

(***************************************************************************)
(* What an index shows of a row in flight is the session's own.            *)
(***************************************************************************)
LEMMA ShownIsOwned ==
  ASSUME NEW Own, SeparateSessions(Own), Good(Own), NEW t \in Session,
         Stmt(t).rid # NoRid, NEW j \in DOMAIN indexes, ShownBy(Stmt(t), j) # NoRow
  PROVE  ShownBy(Stmt(t), j) \in Own[t]
<1>1. Fits(Own, t, session[t], table, indexes) /\ session[t].pc \in HoldsRid
  BY DEF Good, Fits, Stmt
<1>2. QED
  BY <1>1 DEF Fits, HoldsRid, HasOld, HasNew, ShownBy, Stmt

(***************************************************************************)
(* A row y of session s whose key no other row of the table has conflicts  *)
(* with no entry of the index either, other than that of its own rid.      *)
(***************************************************************************)
LEMMA NoConflict ==
  ASSUME NEW Own, SeparateSessions(Own), Good(Own), NEW s \in Session, NEW y \in Own[s],
         NEW j \in DOMAIN indexes, NoOther(table, Stmt(s).rid, indexes[j], y),
         NEW r \in Rid, r # Stmt(s).rid, NEW x \in Row, Shows(j, r, x)
  PROVE  KeyOf(indexes[j], x) # KeyOf(indexes[j], y)
<1>1. CASE r \notin InFlight /\ x = table[r]
  BY <1>1, DmlAssumption DEF NoOther
<1>2. ASSUME NEW t \in Session, Stmt(t).rid = r, x = ShownBy(Stmt(t), j)
      PROVE  KeyOf(indexes[j], x) # KeyOf(indexes[j], y)
  <2>1. t # s /\ r # NoRid /\ x # NoRow
    BY <1>2, DmlAssumption
  <2>2. x \in Own[t]
    BY <1>2, <2>1, ShownIsOwned
  <2>3. indexes[j] \in Range(indexes)
    BY IndexColumns DEF Good
  <2>4. QED
    BY <2>1, <2>2, <2>3, OwnedRows
<1>3. QED
  BY <1>1, <1>2 DEF Shows

(***************************************************************************)
(* The other way round: a key that no entry of the index has, but for that *)
(* of the session's own rid, is no key of another row.                     *)
(***************************************************************************)
LEMMA KeyIsFree ==
  ASSUME NEW Own, SeparateSessions(Own), Good(Own), NEW s \in Session, NEW y \in Own[s],
         NEW j \in DOMAIN indexes,
         \A q \in get_value(ihs[indexes[j]], KeyOf(indexes[j], y)) : q = Stmt(s).rid
  PROVE  NoOther(table, Stmt(s).rid, indexes[j], y)
<1>1. SUFFICES ASSUME NEW r \in Rid, r # Stmt(s).rid, table[r] # NoRow,
                      KeyOf(indexes[j], table[r]) = KeyOf(indexes[j], y)
               PROVE  FALSE
  BY DEF NoOther
<1>2. table[r] \in Row /\ indexes[j] \in Range(indexes)
  BY <1>1, IndexColumns DEF Good, Typed
<1>3. CASE r \notin InFlight
  <2>1. <<KeyOf(indexes[j], table[r]), r>> \in ihs[indexes[j]]
    BY <1>2, <1>3 DEF Good, Matches, Shows
  <2>2. r \in get_value(ihs[indexes[j]], KeyOf(indexes[j], y))
    <3>1. PICK e : e = <<KeyOf(indexes[j], table[r]), r>>
      OBVIOUS
    <3>2. e \in ihs[indexes[j]] /\ e[1] = KeyOf(indexes[j], y) /\ e[2] = r
      BY <1>1, <2>1, <3>1
    <3>3. QED
      BY <3>2 DEF get_value
  <2>3. QED
    BY <1>1, <2>2
<1>4. ASSUME NEW t \in Session, Stmt(t).rid = r
      PROVE  FALSE
  <2>1. t # s
    BY <1>1, <1>4
  <2>2. session[t].pc \in HoldsRid
    BY <1>4, DmlAssumption DEF Good, Fits, Stmt
  <2>3. table[r] \in Own[t]
    BY <1>4, <2>2 DEF Good, Fits, HoldsRid, HasOld, HasNew, Stmt
  <2>4. QED
    BY <1>1, <1>2, <2>1, <2>3, OwnedRows
<1>5. QED
  BY <1>3, <1>4 DEF InFlight

(***************************************************************************)
(* A step of session s that changes rows of its own only, leaves the       *)
(* statements of the others as they were.                                  *)
(***************************************************************************)
LEMMA OthersFit ==
  ASSUME NEW Own, SeparateSessions(Own), Good(Own), NEW s \in Session,
         indexes' = indexes, NEW r0,
         \A r \in Rid : r # r0 => table'[r] = table[r],
         r0 \in Rid => /\ table[r0] \in Own[s] \cup {NoRow}
                       /\ table'[r0] \in Own[s] \cup {NoRow},
         NEW t \in Session, t # s, session'[t] = session[t]
  PROVE  Fits(Own, t, session'[t], table', indexes')
<1> DEFINE st == session[t]
<1>1. Fits(Own, t, st, table, indexes)
  BY DEF Good
<1>2. st \in StmtType /\ Typed
  BY DEF Good, Typed
<1>3. \A r \in Rid : table[r] \in Own[t] => r # r0
  BY OwnedRows
<1>4. st.pc \in HoldsRid => st.rid \in Rid /\ table[st.rid] \in Own[t]
  BY <1>1, <1>2 DEF Fits, StmtType, HoldsRid, HasOld, HasNew
<1>5. st.pc \in HoldsRid => table'[st.rid] = table[st.rid]
  BY <1>3, <1>4
<1>6. \A r \in st.rids : table'[r] = table[r]
  BY <1>1, <1>2, <1>3 DEF Fits, StmtType
<1>7. ASSUME NEW j \in DOMAIN indexes, st.pc \in HasNew,
             NoOther(table, st.rid, indexes[j], st.new)
      PROVE  NoOther(table', st.rid, indexes[j], st.new)
  <2>1. st.new \in Own[t] /\ indexes[j] \in Range(indexes)
    BY <1>1, <1>2, <1>7, IndexColumns DEF Fits
  <2>2. r0 \in Rid /\ table'[r0] # NoRow => KeyOf(indexes[j], table'[r0]) # KeyOf(indexes[j], st.new)
    BY <2>1, OwnedRows
  <2>3. QED
    BY <1>7, <2>2 DEF NoOther
<1>8. /\ st.pc \in HasOld => st.pc \in HoldsRid
      /\ st.pc = "entries" => st.pc \in HoldsRid
      /\ st.pc \in {"check", "recheck", "remove", "add"} => st.pc \in HasNew
      /\ st.pc \in {"remove", "add"} => st.pc \in HasNew
  BY DEF HasOld, HoldsRid, HasNew
<1> HIDE DEF st
<1>9. Fits(Own, t, st, table', indexes)
  BY <1>1, <1>5, <1>6, <1>7, <1>8 DEF Fits
<1>10. QED
  BY <1>9 DEF st

\* What the indexes show of rid r that only s may hold, now and after a step.
LEMMA ShownRow ==
  ASSUME NEW s \in Session, NEW r, NotHeldByOthers(s, r), NEW j, NEW x
  PROVE  Shows(j, r, x) <=> \/ session[s].rid = r /\ x = ShownBy(session[s], j)
                            \/ session[s].rid # r /\ x = table[r]
<1>1. r \in InFlight <=> session[s].rid = r
  BY DEF InFlight, NotHeldByOthers, Stmt
<1>2. (\E t \in Session : session[t].rid = r /\ x = ShownBy(session[t], j))
        <=> session[s].rid = r /\ x = ShownBy(session[s], j)
  BY DEF NotHeldByOthers, Stmt
<1>3. QED
  BY <1>1, <1>2 DEF Shows, Stmt

LEMMA ShownRowNext ==
  ASSUME NEW s \in Session, NEW r, NotHeldByOthers(s, r)', NEW j, NEW x
  PROVE  Shows(j, r, x)' <=> \/ session'[s].rid = r /\ x = ShownBy(session'[s], j)
                             \/ session'[s].rid # r /\ x = table'[r]
<1>1. r \in InFlight' <=> session'[s].rid = r
  BY DEF InFlight, NotHeldByOthers, Stmt
<1>2. (\E t \in Session : session'[t].rid = r /\ x = ShownBy(session'[t], j))
        <=> session'[s].rid = r /\ x = ShownBy(session'[s], j)
  BY DEF NotHeldByOthers, Stmt
<1>3. Shows(j, r, x)' <=>
        \/ r \notin InFlight' /\ x = table'[r]
        \/ \E t \in Session : session'[t].rid = r /\ x = ShownBy(session'[t], j)
  BY DEF Shows, Stmt, ShownBy
<1>4. QED
  BY <1>1, <1>2, <1>3

\* And of the other rids.
LEMMA ShownElsewhere ==
  ASSUME session \in [Session -> StmtType], NEW s \in Session, NEW st,
         session' = [session EXCEPT ![s] = st],
         NEW r \in Rid, r # Stmt(s).rid, r # st.rid, table'[r] = table[r], NEW j, NEW x
  PROVE  Shows(j, r, x)' <=> Shows(j, r, x)
<1>1. session'[s] = st /\ \A t \in Session : t # s => session'[t] = session[t]
  OBVIOUS
<1>2. r \in InFlight' <=> r \in InFlight
  BY <1>1 DEF InFlight, Stmt
<1>3. Shows(j, r, x)' <=>
        \/ r \notin InFlight' /\ x = table'[r]
        \/ \E t \in Session : session'[t].rid = r /\ x = ShownBy(session'[t], j)
  BY DEF Shows, Stmt, ShownBy
<1>4. \A t \in Session : session'[t].rid = r /\ x = ShownBy(session'[t], j)
        <=> Stmt(t).rid = r /\ x = ShownBy(Stmt(t), j)
  BY <1>1 DEF Stmt
<1>5. QED
  BY <1>2, <1>3, <1>4 DEF Shows

(***************************************************************************)
(* A step of session s that changes no index: its statement becomes st,    *)
(* and of the table at most the row r0 it works on changes.  When the      *)
(* indexes show of r0 what they did, everything stays in agreement.        *)
(***************************************************************************)
LEMMA SessionMoves ==
  ASSUME NEW Own, SeparateSessions(Own), Good(Own), NEW s \in Session, NEW st \in StmtType,
         session' = [session EXCEPT ![s] = st], UNCHANGED <<indexes, ihs>>, NEW r0,
         table' \in [Rid -> Row \cup {NoRow}],
         \A r \in Rid : r # r0 => table'[r] = table[r],
         Stmt(s).rid \in {r0, NoRid}, st.rid \in {r0, NoRid},
         r0 \in Rid =>
           /\ table[r0] \in Own[s] \cup {NoRow}
           /\ table'[r0] \in Own[s] \cup {NoRow}
           /\ \A j \in DOMAIN indexes :
                (IF Stmt(s).rid = r0 THEN ShownBy(Stmt(s), j) ELSE table[r0])
                  = (IF st.rid = r0 THEN ShownBy(st, j) ELSE table'[r0]),
         Fits(Own, s, st, table', indexes), Unique'
  PROVE  Good(Own)'
<1>1. Typed /\ session \in [Session -> StmtType]
  BY DEF Good, Typed
<1>2. session' \in [Session -> StmtType]
  BY <1>1
<1>3. session'[s] = st /\ \A t \in Session : t # s => session'[t] = session[t]
  BY <1>1
<1>4. Typed'
  BY <1>1, <1>2 DEF Typed
<1>5. \A t \in Session : Fits(Own, t, session'[t], table', indexes')
  <2>1. ASSUME NEW t \in Session, t # s
        PROVE  Fits(Own, t, session'[t], table', indexes')
    BY <1>3, <2>1, OthersFit
  <2>2. QED
    BY <1>3, <2>1
<1>6. ASSUME NEW j \in DOMAIN indexes, NEW r \in Rid, NEW x \in Row
      PROVE  Shows(j, r, x)' <=> Shows(j, r, x)
  <2>1. CASE r # r0
    <3>1. r # Stmt(s).rid /\ r # st.rid /\ table'[r] = table[r]
      BY <2>1, DmlAssumption
    <3>2. QED
      BY <1>1, <3>1, ShownElsewhere
  <2>2. CASE r = r0
    <3>1. NotHeldByOthers(s, r)
      BY <2>2, OnlyOwnerHolds
    <3>2. NotHeldByOthers(s, r)'
      BY <1>3, <3>1 DEF NotHeldByOthers, Stmt
    <3>3. Shows(j, r, x) <=> \/ session[s].rid = r /\ x = ShownBy(session[s], j)
                             \/ session[s].rid # r /\ x = table[r]
      BY <3>1, ShownRow
    <3>4. Shows(j, r, x)' <=> \/ st.rid = r /\ x = ShownBy(st, j)
                              \/ st.rid # r /\ x = table'[r]
      BY <1>3, <3>2, ShownRowNext
    <3>5. QED
      BY <2>2, <3>3, <3>4 DEF Stmt
  <2>3. QED
    BY <2>1, <2>2
<1>7. Matches'
  BY <1>6 DEF Good, Matches
<1>8. QED
  BY <1>4, <1>5, <1>7 DEF Good

(***************************************************************************)
(* The entries E are right for the j-th index when a statement becomes st: *)
(* those of the other rows, and the one it now shows of the row in flight. *)
(***************************************************************************)
RightEntries(E, st, j) ==
  /\ \A e \in E :
       \/ e \in ihs[indexes[j]] /\ e[2] # st.rid
       \/ ShownBy(st, j) \in Row /\ e = <<KeyOf(indexes[j], ShownBy(st, j)), st.rid>>
  /\ \A e \in ihs[indexes[j]] : e[2] # st.rid => e \in E
  /\ ShownBy(st, j) \in Row => <<KeyOf(indexes[j], ShownBy(st, j)), st.rid>> \in E

\* The two statements differ in what the j-th index shows, at most.
SameBut(st1, st2, j) ==
  \A k \in DOMAIN indexes : k # j => ShownBy(st1, k) = ShownBy(st2, k)

(***************************************************************************)
(* A step of session s on the j-th index, with entries E afterwards, which *)
(* are right for the row it works on and as before for all others.         *)
(***************************************************************************)
LEMMA IndexMoves ==
  ASSUME NEW Own, SeparateSessions(Own), Good(Own), NEW s \in Session, NEW st \in StmtType,
         session' = [session EXCEPT ![s] = st], UNCHANGED <<table, indexes>>,
         Stmt(s).rid \in Rid, st.rid = Stmt(s).rid,
         NEW j \in DOMAIN indexes, NEW E, ihs' = [ihs EXCEPT ![indexes[j]] = E],
         SameBut(st, session[s], j), RightEntries(E, st, j),
         Fits(Own, s, st, table, indexes)
  PROVE  Good(Own)'
<1>1. Typed /\ session \in [Session -> StmtType]
  BY DEF Good, Typed
<1>2. session' \in [Session -> StmtType]
  BY <1>1
<1>3. session'[s] = st /\ \A t \in Session : t # s => session'[t] = session[t]
  BY <1>1
<1>4. Typed'
  BY <1>1, <1>2 DEF Typed
<1>5. \A t \in Session : Fits(Own, t, session'[t], table', indexes')
  <2>1. ASSUME NEW t \in Session, t # s
        PROVE  Fits(Own, t, session'[t], table', indexes')
    BY <1>3, <2>1 DEF Good
  <2>2. QED
    BY <1>3, <2>1
<1>6. Unique'
  BY DEF Good, Unique, NoOther
<1> DEFINE r0 == st.rid
<1>7. table[r0] \in Own[s]
  <2>1. session[s].pc \in HoldsRid
    BY DmlAssumption DEF Good, Fits, Stmt
  <2>2. QED
    BY <2>1 DEF Good, Fits, HoldsRid, HasOld, HasNew, Stmt
<1>8. \A k, x : /\ Shows(k, r0, x) <=> x = ShownBy(Stmt(s), k)
                /\ Shows(k, r0, x)' <=> x = ShownBy(st, k)
  <2>1. NotHeldByOthers(s, r0)
    BY <1>7, OnlyOwnerHolds
  <2>2. NotHeldByOthers(s, r0)'
    BY <1>3, <2>1 DEF NotHeldByOthers, Stmt
  <2>3. \A k, x : Shows(k, r0, x) <=> \/ session[s].rid = r0 /\ x = ShownBy(session[s], k)
                                      \/ session[s].rid # r0 /\ x = table[r0]
    BY <2>1, ShownRow
  <2>4. \A k, x : Shows(k, r0, x)' <=> \/ st.rid = r0 /\ x = ShownBy(st, k)
                                       \/ st.rid # r0 /\ x = table'[r0]
    BY <1>3, <2>2, ShownRowNext
  <2>5. QED
    BY <2>3, <2>4 DEF Stmt
<1>9. \A k, x : \A r \in Rid : r # r0 => (Shows(k, r, x)' <=> Shows(k, r, x))
  BY <1>1, ShownElsewhere
<1>10. ASSUME NEW k \in DOMAIN indexes, k # j
       PROVE  ihs'[indexes[k]] = ihs[indexes[k]]
  <2>1. indexes[k] # indexes[j] /\ indexes[k] \in DOMAIN ihs
    BY <1>1, <1>10 DEF Typed, IsInjective, Range
  <2>2. QED
    BY <2>1
<1>11. ihs'[indexes[j]] = E
  BY <1>1 DEF Typed, Range
<1>12. /\ \A e \in ihs[indexes[j]] : \E r \in Rid, x \in Row :
            Shows(j, r, x) /\ e = <<KeyOf(indexes[j], x), r>>
       /\ \A r \in Rid, x \in Row :
            Shows(j, r, x) => <<KeyOf(indexes[j], x), r>> \in ihs[indexes[j]]
  BY DEF Good, Matches
<1> HIDE DEF r0
<1>13. ASSUME NEW k \in DOMAIN indexes, k # j
       PROVE  /\ \A e \in ihs'[indexes[k]] : \E r \in Rid, x \in Row :
                   Shows(k, r, x)' /\ e = <<KeyOf(indexes[k], x), r>>
              /\ \A r \in Rid, x \in Row :
                   Shows(k, r, x)' => <<KeyOf(indexes[k], x), r>> \in ihs'[indexes[k]]
  <2>1. \A r \in Rid, x \in Row : Shows(k, r, x)' <=> Shows(k, r, x)
    BY <1>8, <1>9, <1>13 DEF SameBut, Stmt
  <2>2. QED
    BY <1>10, <1>13, <2>1 DEF Good, Matches
<1>14. \A e \in E : \E r \in Rid, x \in Row : Shows(j, r, x)' /\ e = <<KeyOf(indexes[j], x), r>>
  <2>1. SUFFICES ASSUME NEW e \in E
                 PROVE  \E r \in Rid, x \in Row :
                          Shows(j, r, x)' /\ e = <<KeyOf(indexes[j], x), r>>
    OBVIOUS
  <2>2. CASE e \in ihs[indexes[j]] /\ e[2] # r0
    <3>1. PICK r \in Rid, x \in Row : Shows(j, r, x) /\ e = <<KeyOf(indexes[j], x), r>>
      BY <1>12, <2>2
    <3>2. r # r0
      BY <2>2, <3>1
    <3>3. QED
      BY <1>9, <3>1, <3>2
  <2>3. CASE ShownBy(st, j) \in Row /\ e = <<KeyOf(indexes[j], ShownBy(st, j)), r0>>
    BY <1>8, <2>3 DEF r0
  <2>4. QED
    BY <2>2, <2>3 DEF r0, RightEntries
<1>15. \A r \in Rid, x \in Row : Shows(j, r, x)' => <<KeyOf(indexes[j], x), r>> \in E
  <2>1. SUFFICES ASSUME NEW r \in Rid, NEW x \in Row, Shows(j, r, x)'
                 PROVE  <<KeyOf(indexes[j], x), r>> \in E
    OBVIOUS
  <2>2. CASE r = r0
    BY <1>8, <2>1, <2>2 DEF r0, RightEntries
  <2>3. CASE r # r0
    <3>1. <<KeyOf(indexes[j], x), r>> \in ihs[indexes[j]]
      BY <1>9, <1>12, <2>1, <2>3
    <3>2. QED
      BY <2>3, <3>1 DEF r0, RightEntries
  <2>4. QED
    BY <2>2, <2>3
<1>16. Matches'
  <2>1. \A k \in DOMAIN indexes :
          /\ \A e \in ihs'[indexes[k]] : \E r \in Rid, x \in Row :
               Shows(k, r, x)' /\ e = <<KeyOf(indexes[k], x), r>>
          /\ \A r \in Rid, x \in Row :
               Shows(k, r, x)' => <<KeyOf(indexes[k], x), r>> \in ihs'[indexes[k]]
    <3>1. SUFFICES ASSUME NEW k \in DOMAIN indexes
                   PROVE  /\ \A e \in ihs'[indexes[k]] : \E r \in Rid, x \in Row :
                               Shows(k, r, x)' /\ e = <<KeyOf(indexes[k], x), r>>
                          /\ \A r \in Rid, x \in Row :
                               Shows(k, r, x)' => <<KeyOf(indexes[k], x), r>> \in ihs'[indexes[k]]
      OBVIOUS
    <3>2. CASE k = j
      BY <1>11, <1>14, <1>15, <3>2
    <3>3. CASE k # j
      BY <1>13, <3>3
    <3>4. QED
      BY <3>2, <3>3
  <2>2. \A k \in DOMAIN indexes' :
          /\ \A e \in ihs'[indexes'[k]] : \E r \in Rid, x \in Row :
               Shows(k, r, x)' /\ e = <<KeyOf(indexes'[k], x), r>>
          /\ \A r \in Rid, x \in Row :
               Shows(k, r, x)' => <<KeyOf(indexes'[k], x), r>> \in ihs'[indexes'[k]]
    BY <2>1
  <2>3. QED
    BY <2>2 DEF Matches, KeyOf
<1>17. QED
  BY <1>4, <1>5, <1>6, <1>16 DEF Good

-----------------------------------------------------------------------------
\* What the invariant says of the statement of session s.
LEMMA StmtFacts ==
  ASSUME NEW Own, SeparateSessions(Own), Good(Own), NEW s \in Session
  PROVE  /\ Stmt(s) = session[s]
         /\ session[s] \in StmtType
         /\ session[s].i \in Nat /\ session[s].i >= 1
         /\ session[s].rid \in Rid \cup {NoRid}
         /\ session[s].rids \subseteq Rid
         /\ Fits(Own, s, session[s], table, indexes)
         /\ session[s].pc \in HoldsRid => session[s].rid \in Rid /\ table[session[s].rid] \in Own[s]
<1>1. session[s] \in StmtType /\ Fits(Own, s, session[s], table, indexes)
  BY DEF Good, Typed
<1>2. /\ session[s].i \in Nat /\ session[s].i >= 1
      /\ session[s].rid \in Rid \cup {NoRid} /\ session[s].rids \subseteq Rid
  BY <1>1 DEF StmtType
<1>3. session[s].pc \in HoldsRid => session[s].rid \in Rid /\ table[session[s].rid] \in Own[s]
  <2>1. session[s].pc \in HoldsRid => session[s].rid \in Rid
    BY <1>1, <1>2 DEF Fits
  <2>2. session[s].pc \in HasOld => table[session[s].rid] \in Own[s]
    BY <1>1 DEF Fits
  <2>3. session[s].pc = "entries" => table[session[s].rid] \in Own[s]
    BY <1>1 DEF Fits, HasNew
  <2>4. QED
    BY <2>1, <2>2, <2>3 DEF HoldsRid, HasOld
<1>4. QED
  BY <1>1, <1>2, <1>3 DEF Stmt

LEMMA IdleIsTyped == Idle \in StmtType
<1>1. Idle.pc \in Pc /\ Idle.set \in SetClauses
  BY PcNames, SetNames DEF Idle
<1>2. /\ Idle.tab \in Seq(IndexCols) /\ Idle.i \in Nat \ {0} /\ Idle.rid \in Rid \cup {NoRid}
      /\ Idle.rids \in SUBSET Rid /\ Idle.old \in Row \cup {NoRow} /\ Idle.new \in Row \cup {NoRow}
  BY DEF Idle
<1>3. Idle = [pc |-> Idle.pc, tab |-> Idle.tab, i |-> Idle.i, rid |-> Idle.rid,
              rids |-> Idle.rids, old |-> Idle.old, new |-> Idle.new, set |-> Idle.set]
  BY DEF Idle
<1>4. QED
  BY <1>1, <1>2, <1>3 DEF StmtType

\* A session without a statement is never out of step.
LEMMA IdleFits ==
  ASSUME NEW Own, NEW s \in Session, NEW tbl, NEW ixs
  PROVE  Idle \in StmtType /\ Fits(Own, s, Idle, tbl, ixs)
<1>1. Idle \in StmtType
  BY IdleIsTyped
<1>2. Fits(Own, s, Idle, tbl, ixs)
  BY DEF Idle, Fits, HoldsRid, HasNew, HasOld, Updating
<1>3. QED
  BY <1>1, <1>2

(***************************************************************************)
(* A step that changes nothing but the statement, and not the row it works *)
(* on.                                                                     *)
(***************************************************************************)
LEMMA StatementMoves ==
  ASSUME NEW Own, SeparateSessions(Own), Good(Own), NEW s \in Session, NEW st \in StmtType,
         Become(s, st), UNCHANGED <<table, indexes, ihs>>, st.rid = session[s].rid,
         st.rid \in Rid =>
           \A j \in DOMAIN indexes : ShownBy(session[s], j) = ShownBy(st, j),
         Fits(Own, s, st, table, indexes)
  PROVE  Good(Own)'
<1>1. PICK r0 : r0 = session[s].rid
  OBVIOUS
<1>2. r0 \in Rid => table[r0] \in Own[s]
  BY <1>1, StmtFacts, DmlAssumption DEF Fits
<1>3. Unique'
  BY DEF Good, Unique, NoOther
<1>4. table' \in [Rid -> Row \cup {NoRow}] /\ \A r \in Rid : r # r0 => table'[r] = table[r]
  BY DEF Good, Typed
<1>5. Stmt(s) = session[s] /\ session' = [session EXCEPT ![s] = st]
  BY DEF Stmt, Become
<1>6. r0 \in Rid =>
        /\ table[r0] \in Own[s] \cup {NoRow}
        /\ table'[r0] \in Own[s] \cup {NoRow}
        /\ \A j \in DOMAIN indexes :
             (IF Stmt(s).rid = r0 THEN ShownBy(Stmt(s), j) ELSE table[r0])
               = (IF st.rid = r0 THEN ShownBy(st, j) ELSE table'[r0])
  BY <1>1, <1>2, <1>5
<1>7. Stmt(s).rid \in {r0, NoRid} /\ st.rid \in {r0, NoRid} /\ Fits(Own, s, st, table', indexes)
  BY <1>1, <1>5
<1>8. QED
  BY <1>3, <1>4, <1>5, <1>6, <1>7, SessionMoves

(***************************************************************************)
(* An executor comes to a row of its rids, or is done with the row that it *)
(* works on.                                                               *)
(***************************************************************************)
LEMMA RowIsTaken ==
  ASSUME NEW Own, SeparateSessions(Own), Good(Own), NEW s \in Session, NEW st \in StmtType,
         Become(s, st), UNCHANGED <<table, indexes, ihs>>, session[s].rid = NoRid,
         st.rid \in session[s].rids,
         \A j \in DOMAIN indexes : ShownBy(st, j) = table[st.rid],
         Fits(Own, s, st, table, indexes)
  PROVE  Good(Own)'
<1>1. PICK r \in Rid : r = st.rid /\ r # NoRid /\ table[r] \in Own[s]
  BY StmtFacts, DmlAssumption DEF Fits
<1>2. Unique'
  BY DEF Good, Unique, NoOther
<1>3. table' \in [Rid -> Row \cup {NoRow}] /\ \A q \in Rid : q # r => table'[q] = table[q]
  BY DEF Good, Typed
<1>4. /\ session' = [session EXCEPT ![s] = st] /\ Stmt(s) = session[s]
      /\ Stmt(s).rid \in {r, NoRid} /\ st.rid \in {r, NoRid}
  BY <1>1 DEF Become, Stmt
<1>5. r \in Rid =>
        /\ table[r] \in Own[s] \cup {NoRow}
        /\ table'[r] \in Own[s] \cup {NoRow}
        /\ \A j \in DOMAIN indexes :
             (IF Stmt(s).rid = r THEN ShownBy(Stmt(s), j) ELSE table[r])
               = (IF st.rid = r THEN ShownBy(st, j) ELSE table'[r])
  BY <1>1, <1>4
<1>6. Fits(Own, s, st, table', indexes)
  OBVIOUS
<1>7. QED
  BY <1>2, <1>3, <1>4, <1>5, <1>6, SessionMoves

LEMMA RowIsReleased ==
  ASSUME NEW Own, SeparateSessions(Own), Good(Own), NEW s \in Session, NEW st \in StmtType,
         Become(s, st), UNCHANGED <<indexes, ihs>>, st.rid = NoRid,
         NEW r \in Rid, session[s].rid = r, table' \in [Rid -> Row \cup {NoRow}],
         \A q \in Rid : q # r => table'[q] = table[q], table'[r] \in Own[s] \cup {NoRow},
         \A j \in DOMAIN indexes : ShownBy(session[s], j) = table'[r],
         Fits(Own, s, st, table', indexes), Unique'
  PROVE  Good(Own)'
<1>1. r # NoRid /\ table[r] \in Own[s]
  BY StmtFacts, DmlAssumption DEF Fits
<1>2. /\ session' = [session EXCEPT ![s] = st] /\ Stmt(s) = session[s]
      /\ Stmt(s).rid \in {r, NoRid} /\ st.rid \in {r, NoRid}
  BY <1>1 DEF Become, Stmt
<1>3. r \in Rid =>
        /\ table[r] \in Own[s] \cup {NoRow}
        /\ table'[r] \in Own[s] \cup {NoRow}
        /\ \A j \in DOMAIN indexes :
             (IF Stmt(s).rid = r THEN ShownBy(Stmt(s), j) ELSE table[r])
               = (IF st.rid = r THEN ShownBy(st, j) ELSE table'[r])
  BY <1>1, <1>2
<1>4. QED
  BY <1>2, <1>3, SessionMoves

(***************************************************************************)
(* The executors begin: they copy the list of indexes and, to delete or    *)
(* update, the rids of the rows that match.  What they touch is Own[s].    *)
(***************************************************************************)
LEMMA BeginIsGood ==
  ASSUME NEW Own, SeparateSessions(Own), Good(Own), NEW s \in Session, Begin(s),
         Footprint(session'[s]) \subseteq Own[s]
  PROVE  Good(Own)'
<1>1. Typed /\ Idle \in StmtType /\ IndexCols \subseteq Seq(Column)
  BY IdleFits, DmlAssumption DEF Good
<1>2. session[s].pc = "idle" => session[s].rid = NoRid
  BY StmtFacts DEF Fits, HoldsRid
<1>3. Own[s] \subseteq Row /\ session \in [Session -> StmtType]
  BY OwnedRows DEF Good, Typed
<1>4. \A j \in DOMAIN indexes : ~(j < 1)
  BY <1>1, IndexColumns
<1>5. ASSUME NEW row \in Work[s].rows, insert_begin(s, row)
      PROVE  Good(Own)'
  <2>1. PICK st : st = [Idle EXCEPT !.pc = "check", !.tab = indexes, !.new = row]
    OBVIOUS
  <2>2. st = [pc |-> "check", tab |-> indexes, i |-> 1, rid |-> NoRid, rids |-> {},
             old |-> NoRow, new |-> row, set |-> << >>]
    BY <2>1 DEF Idle
  <2>3. Become(s, st) /\ UNCHANGED <<table, indexes, ihs>> /\ session[s].pc = "idle"
    BY <1>5, <2>1 DEF insert_begin, At, Stmt
  <2>4. st \in StmtType
    <3>1. indexes \in Seq(IndexCols) /\ row \in Row
      BY <1>1, DmlAssumption DEF Typed
    <3>2. QED
      BY <2>2, <3>1, PcNames, SetNames, StmtWithoutRow
  <2>5. Fits(Own, s, st, table, indexes)
    <3>1. session'[s] = st
      BY <1>3, <2>3 DEF Become
    <3>2. row \in Own[s]
      BY <2>2, <3>1 DEF Footprint
    <3>3. QED
      BY <1>4, <2>2, <3>2 DEF Fits, HoldsRid, HasNew, HasOld, Updating
  <2>6. QED
    BY <1>2, <2>2, <2>3, <2>4, <2>5, StatementMoves, DmlAssumption
<1>6. ASSUME NEW where \in Work[s].wheres
      PROVE  Matching(where) \subseteq Rid /\ \A r \in Matching(where) : r # NoRid
  BY DmlAssumption DEF Matching
<1>7. ASSUME NEW where \in Work[s].wheres, delete_begin(s, where)
      PROVE  Good(Own)'
  <2>1. PICK st : st = [Idle EXCEPT !.pc = "delete", !.tab = indexes, !.rids = Matching(where)]
    OBVIOUS
  <2>2. st = [pc |-> "delete", tab |-> indexes, i |-> 1, rid |-> NoRid,
             rids |-> Matching(where), old |-> NoRow, new |-> NoRow, set |-> << >>]
    BY <2>1 DEF Idle
  <2>3. Become(s, st) /\ UNCHANGED <<table, indexes, ihs>> /\ session[s].pc = "idle"
    BY <1>7, <2>1 DEF delete_begin, At, Stmt
  <2>4. st \in StmtType
    <3>1. indexes \in Seq(IndexCols) /\ Matching(where) \in SUBSET Rid
      BY <1>1, <1>6 DEF Typed
    <3>2. QED
      BY <2>2, <3>1, PcNames, SetNames, StmtWithoutRow
  <2>5. Fits(Own, s, st, table, indexes)
    <3>1. session'[s] = st
      BY <1>3, <2>3 DEF Become
    <3>2. \A r \in st.rids : table[r] \in Own[s] /\ Updated(table[r], st.set) \in Own[s]
      BY <2>2, <3>1 DEF Footprint
    <3>3. QED
      BY <1>6, <2>2, <3>2 DEF Fits, HoldsRid, HasNew, HasOld, Updating
  <2>6. QED
    BY <1>2, <2>2, <2>3, <2>4, <2>5, StatementMoves, DmlAssumption
<1>8. ASSUME NEW where \in Work[s].wheres, NEW set \in Work[s].sets, update_begin(s, where, set)
      PROVE  Good(Own)'
  <2>1. PICK st : st = [Idle EXCEPT !.pc = "update", !.tab = indexes, !.set = set,
                                       !.rids = Matching(where)]
    OBVIOUS
  <2>2. st = [pc |-> "update", tab |-> indexes, i |-> 1, rid |-> NoRid,
             rids |-> Matching(where), old |-> NoRow, new |-> NoRow, set |-> set]
    BY <2>1 DEF Idle
  <2>3. Become(s, st) /\ UNCHANGED <<table, indexes, ihs>> /\ session[s].pc = "idle"
    BY <1>8, <2>1 DEF update_begin, At, Stmt
  <2>4. st \in StmtType
    <3>1. indexes \in Seq(IndexCols) /\ Matching(where) \in SUBSET Rid
      BY <1>1, <1>6 DEF Typed
    <3>2. "update" \in Pc /\ set \in SetClauses
      BY PcNames, SetNames
    <3>3. QED
      BY <2>2, <3>1, <3>2, StmtWithoutRow
  <2>5. Fits(Own, s, st, table, indexes)
    <3>1. session'[s] = st
      BY <1>3, <2>3 DEF Become
    <3>2. \A r \in st.rids : table[r] \in Own[s] /\ Updated(table[r], st.set) \in Own[s]
      BY <2>2, <3>1 DEF Footprint
    <3>3. QED
      BY <1>6, <2>2, <3>2 DEF Fits, HoldsRid, HasNew, HasOld, Updating
  <2>6. QED
    BY <1>2, <2>2, <2>3, <2>4, <2>5, StatementMoves, DmlAssumption
<1>9. QED
  BY <1>5, <1>7, <1>8 DEF Begin

\* The index a loop of an executor is at, and the end of the loop.
LEMMA CurrentIndex ==
  ASSUME NEW Own, SeparateSessions(Own), Good(Own), NEW s \in Session, session[s].pc # "idle"
  PROVE  /\ session[s].tab = indexes
         /\ Cols(s) = indexes[session[s].i]
         /\ MoreIndexes(s) => /\ session[s].i \in DOMAIN indexes
                              /\ indexes[session[s].i] \in Range(indexes)
                              /\ indexes[session[s].i] \in IndexCols
         /\ ~MoreIndexes(s) => \A j \in DOMAIN indexes : j < session[s].i
<1>1. session[s].tab = indexes /\ session[s].i \in Nat /\ session[s].i >= 1
  BY StmtFacts DEF Fits
<1>2. DOMAIN indexes = 1..Len(indexes) /\ Len(indexes) \in Nat
  BY IndexColumns DEF Good
<1>3. Cols(s) = indexes[session[s].i] /\ (MoreIndexes(s) <=> session[s].i <= Len(indexes))
  BY <1>1 DEF Cols, MoreIndexes, Stmt
<1>4. MoreIndexes(s) => session[s].i \in DOMAIN indexes
  BY <1>1, <1>2, <1>3
<1>5. ~MoreIndexes(s) => \A j \in DOMAIN indexes : j < session[s].i
  BY <1>1, <1>2, <1>3
<1>6. QED
  BY <1>1, <1>3, <1>4, <1>5, IndexColumns DEF Good

\* The loop goes from index j to the next one.
LEMMA NextPosition ==
  ASSUME NEW Own, Good(Own), NEW j \in DOMAIN indexes
  PROVE  /\ \A k \in DOMAIN indexes : k # j => (k < j + 1 <=> k < j)
         /\ j < j + 1 /\ ~(j < j)
<1>1. DOMAIN indexes = 1..Len(indexes) /\ Len(indexes) \in Nat
  BY IndexColumns DEF Good
<1>2. QED
  BY <1>1

\* The entries of an index that the row in flight has no part in.
LEMMA EntriesOfOthers ==
  ASSUME NEW Own, SeparateSessions(Own), Good(Own), NEW s \in Session,
         session[s].rid \in Rid, NEW j \in DOMAIN indexes, NEW y \in Own[s],
         NoOther(table, session[s].rid, indexes[j], y), NEW e \in ihs[indexes[j]]
  PROVE  IF e[2] = session[s].rid
           THEN /\ ShownBy(session[s], j) \in Row
                /\ e[1] = KeyOf(indexes[j], ShownBy(session[s], j))
           ELSE e[1] # KeyOf(indexes[j], y)
<1>1. PICK r \in Rid, x \in Row : Shows(j, r, x) /\ e = <<KeyOf(indexes[j], x), r>>
  BY DEF Good, Matches
<1>2. e[1] = KeyOf(indexes[j], x) /\ e[2] = r
  BY <1>1
<1>3. CASE r = session[s].rid
  <2>1. table[r] \in Own[s]
    BY <1>3, StmtFacts, DmlAssumption DEF Fits
  <2>2. NotHeldByOthers(s, r)
    BY <2>1, OnlyOwnerHolds
  <2>3. x = ShownBy(session[s], j)
    BY <1>1, <1>3, <2>2, ShownRow
  <2>4. QED
    BY <1>2, <1>3, <2>3
<1>4. CASE r # session[s].rid
  BY <1>1, <1>2, <1>4, NoConflict DEF Stmt
<1>5. QED
  BY <1>3, <1>4

(***************************************************************************)
(* insert_entry finds the key free, and delete_entry removes the entry of  *)
(* the row in flight and no other.                                         *)
(***************************************************************************)
LEMMA InsertKeyIsFree ==
  ASSUME NEW Own, SeparateSessions(Own), Good(Own), NEW s \in Session,
         session[s].rid \in Rid, NEW j \in DOMAIN indexes, NEW y \in Own[s],
         NoOther(table, session[s].rid, indexes[j], y), ShownBy(session[s], j) = NoRow
  PROVE  /\ get_value(ihs[indexes[j]], KeyOf(indexes[j], y)) = {}
         /\ \A e \in ihs[indexes[j]] : e[2] # session[s].rid
<1>1. \A e \in ihs[indexes[j]] : e[2] # session[s].rid /\ e[1] # KeyOf(indexes[j], y)
  BY EntriesOfOthers, DmlAssumption
<1>2. get_value(ihs[indexes[j]], KeyOf(indexes[j], y)) = {}
  BY <1>1 DEF get_value
<1>3. QED
  BY <1>1, <1>2

LEMMA DeleteEntryRemoves ==
  ASSUME NEW Own, SeparateSessions(Own), Good(Own), NEW s \in Session,
         session[s].rid \in Rid, NEW j \in DOMAIN indexes, NEW y \in Own[s],
         NoOther(table, session[s].rid, indexes[j], y), ShownBy(session[s], j) = y
  PROVE  delete_entry(ihs[indexes[j]], KeyOf(indexes[j], y))
           = {e \in ihs[indexes[j]] : e[2] # session[s].rid}
<1>1. \A e \in ihs[indexes[j]] : e[1] = KeyOf(indexes[j], y) <=> e[2] = session[s].rid
  BY EntriesOfOthers
<1>2. QED
  BY <1>1 DEF delete_entry

\* What a session without a statement touches does not matter.
LEMMA IdleMayOwn ==
  ASSUME NEW Own, NEW Other, NEW s \in Session, NEW st, NEW tbl, NEW ixs,
         Fits(Own, s, st, tbl, ixs), st.pc = "idle" \/ Other[s] = Own[s]
  PROVE  Fits(Other, s, st, tbl, ixs)
<1>1. CASE Other[s] = Own[s]
  BY <1>1 DEF Fits
<1>2. CASE st.pc = "idle"
  BY <1>2 DEF Fits, HoldsRid, HasNew, HasOld, Updating
<1>3. QED
  BY <1>1, <1>2

\* A row stored with keys that no other row has leaves the keys unique.
LEMMA StoreKeepsUnique ==
  ASSUME Typed, Unique, NEW r \in Rid, NEW y, table' = [table EXCEPT ![r] = y],
         indexes' = indexes, y # NoRow => \A c \in Range(indexes) : NoOther(table, r, c, y)
  PROVE  Unique'
<1>1. SUFFICES ASSUME NEW c \in Range(indexes), NEW r1 \in Rid, NEW r2 \in Rid,
                      r1 # r2, table'[r1] # NoRow, table'[r2] # NoRow
               PROVE  KeyOf(c, table'[r2]) # KeyOf(c, table'[r1])
  BY DEF Unique, NoOther, KeyOf
<1>2. \A q \in Rid : table'[q] = IF q = r THEN y ELSE table[q]
  BY DEF Typed
<1>3. CASE r1 = r
  BY <1>1, <1>2, <1>3 DEF NoOther
<1>4. CASE r2 = r
  BY <1>1, <1>2, <1>4 DEF NoOther
<1>5. CASE r1 # r /\ r2 # r
  BY <1>1, <1>2, <1>5 DEF Unique, NoOther
<1>6. QED
  BY <1>3, <1>4, <1>5
=============================================================================
