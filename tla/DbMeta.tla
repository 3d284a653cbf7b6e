------------------------------- MODULE DbMeta -------------------------------
(***************************************************************************)
(* The metadata of the database, and the file db.meta it is kept in: a     *)
(* stream of words that operator>> takes back apart by the counts in it.   *)
(***************************************************************************)
EXTENDS Integers, SequencesExt

ColMeta(t, n, type, len, offset, index) ==
  [tab_name |-> t, name |-> n, type |-> type, len |-> len, offset |-> offset, index |-> index]

IndexMeta(t, col_tot_len, cols) ==
  [tab_name |-> t, col_tot_len |-> col_tot_len, col_num |-> Len(cols), cols |-> cols]

TabMeta(t, cols, indexes) == [name |-> t, cols |-> cols, indexes |-> indexes]

SumLens(cols) == FoldLeft(LAMBDA n, col : n + col.len, 0, cols)

is_col(tab, name) == \E i \in DOMAIN tab.cols : tab.cols[i].name = name

\* The first column of the name.
get_col(tab, name) == SelectInSeq(tab.cols, LAMBDA col : col.name = name)

Matches(index, col_names) ==
  index.col_num = Len(col_names)
    /\ \A i \in DOMAIN col_names : index.cols[i].name = col_names[i]

is_index(tab, col_names) == \E i \in DOMAIN tab.indexes : Matches(tab.indexes[i], col_names)

\* Mutant: the names of the columns are not compared.
FirstOfLength(tab, col_names) ==
  SelectInSeq(tab.indexes, LAMBDA index : index.col_num = Len(col_names))

\* The position of the index in the table, 0 where get_index_meta throws.
get_index_meta(tab, col_names) ==
  SelectInSeq(tab.indexes, LAMBDA index : Matches(index, col_names))
-----------------------------------------------------------------------------
\* operator<<
ColWords(col) == <<col.tab_name, col.name, col.type, col.len, col.offset, col.index>>

ColsWords(cols) == FlattenSeq([i \in DOMAIN cols |-> ColWords(cols[i])])

IndexWords(index) ==
  <<index.tab_name, index.col_tot_len, index.col_num>> \o ColsWords(index.cols)

TabWords(tab) ==
  <<tab.name, Len(tab.cols)>> \o ColsWords(tab.cols) \o <<Len(tab.indexes)>>
    \o FlattenSeq([i \in DOMAIN tab.indexes |-> IndexWords(tab.indexes[i])])

DbWords(name, tabs) ==
  LET order == SetToSeq(DOMAIN tabs) IN
  <<name, Len(order)>> \o FlattenSeq([i \in DOMAIN order |-> TabWords(tabs[order[i]])])
-----------------------------------------------------------------------------
(***************************************************************************)
(* operator>>: what was read, and the words that are left.                 *)
(***************************************************************************)
After(s, n) == SubSeq(s, n + 1, Len(s))

ReadCols(s, n) ==
  [val |-> [i \in 1..n |-> LET c == After(s, 6 * (i - 1))
                           IN ColMeta(c[1], c[2], c[3], c[4], c[5], c[6])],
   rest |-> After(s, 6 * n)]

ReadIndex(s) ==
  LET cols == ReadCols(After(s, 3), s[3]) IN
  [val |-> IndexMeta(s[1], s[2], cols.val), rest |-> cols.rest]

ReadTab(s) ==
  LET cols == ReadCols(After(s, 2), s[2])
      Step(acc, i) == LET r == ReadIndex(acc.rest)
                      IN [val |-> Append(acc.val, r.val), rest |-> r.rest]
      indexes == FoldLeft(Step, [val |-> << >>, rest |-> After(cols.rest, 1)],
                          [i \in 1..cols.rest[1] |-> i])
  IN [val |-> TabMeta(s[1], cols.val, indexes.val), rest |-> indexes.rest]

\* The tables of a whole db.meta, in the order they were written.
ReadTabs(s) ==
  LET Step(acc, i) == LET r == ReadTab(acc.rest)
                      IN [val |-> Append(acc.val, r.val), rest |-> r.rest]
  IN FoldLeft(Step, [val |-> << >>, rest |-> After(s, 2)], [i \in 1..s[2] |-> i]).val

ReadDb(s) ==
  LET tabs == ReadTabs(s) IN
  [t \in {tabs[i].name : i \in DOMAIN tabs} |->
     tabs[CHOOSE i \in DOMAIN tabs : tabs[i].name = t]]
=============================================================================
