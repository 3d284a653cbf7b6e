------------------------------ MODULE Analyze ------------------------------
(***************************************************************************)
(* What Analyze::do_analyze lets through, and whether the executors can    *)
(* run it.  Nothing after the analyzer checks names or grouping again, and *)
(* the executors read the bytes of a value (Value::raw) in the type of the *)
(* column it is compared with.                                             *)
(*                                                                         *)
(* A value is its type, its size and whether its raw buffer has been made. *)
(* A name is the sequence of its parts between underscores.  An operator   *)
(* that throws returns Error.  The state is a statement that grows by one  *)
(* part per step; what is done with it is a matter of operators.           *)
(***************************************************************************)
EXTENDS Integers, SequencesExt

CONSTANTS
  Catalog,     \* table -> its columns, a sequence of [name, type, len]
  Froms,       \* the FROM lists
  Exprs,       \* the select items
  Columns,     \* the columns of GROUP BY
  Havings,     \* the conditions of HAVING
  Conds,       \* the conditions of WHERE
  SetClauses,  \* the SET clauses of an update
  MaxParts, MaxClauses,
  MaxRows      \* of a subquery

ASSUME AnalyzeAssumption == {MaxParts, MaxClauses, MaxRows} \subseteq Nat

VARIABLE stmt

Numeric == {"INT", "FLOAT"}
Error == [error |-> TRUE]
NumericLen == 4

Empty(tag, tabs) ==
  [tag |-> tag, tabs |-> tabs, exprs |-> << >>, group_bys |-> << >>, having |-> << >>,
   conds |-> << >>, sets |-> << >>]

Init ==
  \/ \E tabs \in Froms : stmt = Empty("Select", tabs)
  \/ \E tabs \in Froms, tag \in {"Update", "Delete", "Insert"} :
       Len(tabs) = 1 /\ stmt = Empty(tag, tabs)

\* The bounds.  The analyzer looks at each condition and SET clause by itself: they come
\* before the other parts, and there are few of them.
Clauses == Len(stmt.conds) + Len(stmt.sets)
Parts == Len(stmt.exprs) + Len(stmt.group_bys) + Len(stmt.having)
MoreClauses == Parts = 0 /\ Clauses < MaxClauses
MoreParts == IF Clauses = 0 THEN Parts < MaxParts ELSE Parts < 1

AddExpr(e) == stmt.tag = "Select" /\ stmt' = [stmt EXCEPT !.exprs = Append(@, e)]
AddGroupBy(c) == stmt.tag = "Select" /\ stmt' = [stmt EXCEPT !.group_bys = Append(@, c)]
\* HAVING is a disjunction of conjunctions; the analyzer goes through all its conditions.
AddHaving(h) == stmt.tag = "Select" /\ stmt' = [stmt EXCEPT !.having = Append(@, h)]
AddCond(c) == stmt.tag # "Insert" /\ stmt' = [stmt EXCEPT !.conds = Append(@, c)]
AddSet(s) == stmt.tag = "Update" /\ stmt' = [stmt EXCEPT !.sets = Append(@, s)]

Next ==
  \/ MoreParts /\ \/ \E e \in Exprs : AddExpr(e)
                  \/ \E c \in Columns : AddGroupBy(c)
                  \/ \E h \in Havings : AddHaving(h)
  \/ MoreClauses /\ \/ \E c \in Conds : AddCond(c)
                    \/ \E s \in SetClauses : AddSet(s)

Spec == Init /\ [][Next]_stmt
-----------------------------------------------------------------------------
get_all_cols(tabs) ==
  FlattenSeq([i \in DOMAIN tabs |->
    [j \in DOMAIN Catalog[tabs[i]] |->
       [tab |-> tabs[i], name |-> Catalog[tabs[i]][j].name,
        type |-> Catalog[tabs[i]][j].type, len |-> Catalog[tabs[i]][j].len]]])

Named(cols, target) ==
  {i \in DOMAIN cols : cols[i].name = target.col /\ target.tab \in {"", cols[i].tab}}

\* A name without a table must be that of one column only.
check_column(cols, target) ==
  LET found == Named(cols, target) IN
  IF found = {} \/ (target.tab = "" /\ Cardinality(found) > 1) THEN Error
  ELSE [tab |-> cols[Min(found)].tab, col |-> target.col]

ColMetaOf(cols, col) == cols[Min(Named(cols, col))]
-----------------------------------------------------------------------------
(***************************************************************************)
(* Select items: a column, an aggregate of a column or COUNT( * ), each    *)
(* perhaps with an alias.  The name of the n-th item with a name gets the  *)
(* suffix _n.                                                              *)
(***************************************************************************)
Counts == {"COUNT", "COUNT_STAR"}

NameOf(e) ==
  IF e.alias # << >> THEN e.alias
  ELSE IF e.agg = "NONE" THEN e.col.col
  ELSE IF e.agg = "COUNT_STAR" THEN <<"count", "star">>
  ELSE <<e.agg>> \o e.col.col

build_select_item_from_expr(cols, e) ==
  IF e.kind \notin {"col", "agg"} THEN Error
  ELSE LET col == IF e.agg = "COUNT_STAR" THEN e.col ELSE check_column(cols, e.col) IN
       IF col = Error THEN Error ELSE [agg |-> e.agg, col |-> col, output_name |-> NameOf(e)]

Numbered(items) ==
  [i \in DOMAIN items |->
     LET dup_count == Cardinality({j \in 1..i-1 : items[j].output_name = items[i].output_name}) IN
     IF dup_count = 0 THEN items[i]
     ELSE [items[i] EXCEPT !.output_name = Append(@, ToString(dup_count + 1))]]

AllBuilt(items) == \A i \in DOMAIN items : items[i] # Error

get_select_items(cols, exprs) ==
  LET items == [i \in DOMAIN exprs |-> build_select_item_from_expr(cols, exprs[i])] IN
  IF AllBuilt(items) THEN Numbered(items) ELSE << >>

validate_agg_type(cols, item) ==
  item.agg \in Counts \cup {"NONE"} \/ ColMetaOf(cols, item.col).type \in Numeric

get_group_bys(cols, group_bys) == [i \in DOMAIN group_bys |-> check_column(cols, group_bys[i])]

in_group_by(group_by, item) == item.col \in Range(group_by)

\* Every plain item must be a GROUP BY column; without GROUP BY there are no plain items
\* beside aggregates.
ItemsGrouped(items, group_by) ==
  IF group_by # << >>
    THEN items # << >> /\ \A i \in DOMAIN items : items[i].agg # "NONE" \/ in_group_by(group_by, items[i])
  ELSE (\E i \in DOMAIN items : items[i].agg # "NONE") => \A i \in DOMAIN items : items[i].agg # "NONE"

\* Mutant: HAVING may name any column.
HavingAnything(cols, group_by, item) == item # Error /\ validate_agg_type(cols, item)

HavingItem(cols, group_by, item) ==
  /\ item # Error
  /\ validate_agg_type(cols, item)
  /\ item.agg # "NONE" \/ group_by = << >> \/ in_group_by(group_by, item)

\* The sides of a HAVING condition that are expressions; a subquery or a list is refused.
HavingSides(h) == {h.lhs} \cup (IF h.rhs.kind = "value" THEN {} ELSE {h.rhs})
HavingItems(cols, having) ==
  {build_select_item_from_expr(cols, e) : e \in UNION {HavingSides(h) : h \in Range(having)}}
-----------------------------------------------------------------------------
(***************************************************************************)
(* Conditions.  The left side is a column or a value, the right side a     *)
(* value, a list of values, a column or a subquery.                        *)
(***************************************************************************)
Lhs(cols, e) ==
  LET col == IF e.kind = "col" THEN check_column(cols, e.col) ELSE Error IN
  IF e.kind = "value" THEN [is_val |-> TRUE, type |-> e.val.type, len |-> e.val.size]
  ELSE IF col = Error THEN Error
  ELSE [is_val |-> FALSE, type |-> ColMetaOf(cols, col).type, len |-> ColMetaOf(cols, col).len]

is_comparable_type(t, u) == t = u \/ {t, u} \subseteq Numeric

\* An integer for a float column becomes a float.
Converted(type, v) == IF type = "FLOAT" /\ v.type = "INT" THEN [v EXCEPT !.type = "FLOAT"] ELSE v

\* init_raw throws when the string is longer than the column.
Overflows(v, len) == v.type = "STRING" /\ v.size > len
init_raw(v) == [v EXCEPT !.raw = TRUE]

\* A converted value of a list, or of a subquery.
Ready(type, v) ==
  LET w == Converted(type, v) IN
  IF w.type = type /\ type # "STRING" THEN init_raw(w) ELSE w

Cond(lhs, op, kind, rhs) == [lhs |-> lhs, op |-> op, kind |-> kind, rhs |-> rhs]

ValueCond(lhs, op, v) ==
  LET w == Converted(lhs.type, v) IN
  IF lhs.is_val \/ w.type # lhs.type \/ Overflows(w, lhs.len) THEN Error
  ELSE Cond(lhs, op, "val", init_raw(w))

ListCond(lhs, op, vals) ==
  IF lhs.is_val \/ \E v \in vals : ~is_comparable_type(lhs.type, v.type) THEN Error
  ELSE Cond(lhs, op, "set", {Ready(lhs.type, v) : v \in vals})

ColumnCond(cols, lhs, op, target) ==
  LET col == check_column(cols, target) IN
  IF lhs.is_val \/ col = Error THEN Error
  ELSE IF ColMetaOf(cols, col).type # lhs.type THEN Error
  ELSE Cond(lhs, op, "col", ColMetaOf(cols, col))

RECURSIVE do_analyze(_)

check_clause(cols, c) ==
  LET lhs == Lhs(cols, c.lhs)
      query == IF c.rhs.kind = "subquery" THEN do_analyze(c.rhs.query) ELSE Error
  IN  IF lhs = Error THEN Error
      ELSE CASE c.rhs.kind = "value" -> ValueCond(lhs, c.op, c.rhs.val)
             [] c.rhs.kind = "list" -> ListCond(lhs, c.op, c.rhs.vals)
             [] c.rhs.kind = "col" -> ColumnCond(cols, lhs, c.op, c.rhs.col)
             [] c.rhs.kind = "agg" -> Error
             [] OTHER -> IF query = Error THEN Error ELSE Cond(lhs, c.op, "subquery", query)

\* A SET clause: the column, and the value that is copied over it.
set_clause(cols, s) ==
  LET col == check_column(cols, s.col)
      meta == ColMetaOf(cols, col)
      v == Converted(meta.type, s.val)
  IN  IF col = Error THEN Error
      ELSE IF v.type # meta.type \/ Overflows(v, meta.len) THEN Error
      ELSE [meta |-> meta, rhs |-> init_raw(v)]

SelectAccepted(cols, s) ==
  LET items == get_select_items(cols, s.exprs)
      group_by == get_group_bys(cols, s.group_bys)
  IN  /\ Len(items) = Len(s.exprs)
      /\ \A i \in DOMAIN items : validate_agg_type(cols, items[i])
      /\ \A i \in DOMAIN group_by : group_by[i] # Error
      /\ ItemsGrouped(items, group_by)
      /\ \A item \in HavingItems(cols, s.having) : HavingItem(cols, group_by, item)

do_analyze(s) ==
  LET cols == get_all_cols(s.tabs)
      conds == [i \in DOMAIN s.conds |-> check_clause(cols, s.conds[i])]
      sets == [i \in DOMAIN s.sets |-> set_clause(cols, s.sets[i])]
  IN  IF \E tab \in Range(s.tabs) : tab \notin DOMAIN Catalog THEN Error
      ELSE IF Error \in Range(conds) \cup Range(sets) THEN Error
      ELSE IF s.tag = "Select" /\ ~SelectAccepted(cols, s) THEN Error
      ELSE [cols |-> cols, items |-> get_select_items(cols, s.exprs), conds |-> conds,
            sets |-> sets, group_by |-> get_group_bys(cols, s.group_bys),
            having |-> HavingItems(cols, s.having)]
-----------------------------------------------------------------------------
(***************************************************************************)
(* generate_select_plan and the columns of its executor: those of the      *)
(* AggExecutor, which have the output names, or columns of the tables.     *)
(***************************************************************************)
NeedsAgg(q) == (\E i \in DOMAIN q.items : q.items[i].agg # "NONE") \/ q.group_by # << >> \/ q.having # {}

\* build_output_meta: the type and length of an item.
OutputMeta(q, item) ==
  CASE item.agg \in Counts -> [type |-> "INT", len |-> NumericLen]
    [] item.agg = "AVG" -> [type |-> "FLOAT", len |-> NumericLen]
    [] OTHER -> [type |-> ColMetaOf(q.cols, item.col).type, len |-> ColMetaOf(q.cols, item.col).len]

\* The columns projected from the tables: those of the items, or all of them for *.
sel_cols(q) ==
  IF q.items = << >> THEN [i \in DOMAIN q.cols |-> [tab |-> q.cols[i].tab, col |-> q.cols[i].name]]
  ELSE [i \in DOMAIN q.items |-> q.items[i].col]

ResultCols(q) ==
  IF NeedsAgg(q) THEN [i \in DOMAIN q.items |-> OutputMeta(q, q.items[i])]
  ELSE [i \in DOMAIN sel_cols(q) |->
          [type |-> ColMetaOf(q.cols, sel_cols(q)[i]).type, len |-> ColMetaOf(q.cols, sel_cols(q)[i]).len]]

\* The column of an AggExecutor that ProjectionExecutor takes for the i-th item.
Projected(q, i) == Min({j \in DOMAIN q.items : q.items[j].output_name = q.items[i].output_name})

(***************************************************************************)
(* materialize_subqueries: the condition when the subquery has n rows.     *)
(***************************************************************************)
value_from_record(meta) == [type |-> meta.type, size |-> meta.len, raw |-> FALSE]

\* Mutant: the values of a subquery get no raw buffer.
NeverReady(type, meta) == Converted(type, value_from_record(meta))

Fetched(type, meta) == Ready(type, value_from_record(meta))

materialized(c, n) ==
  LET cols == ResultCols(c.rhs)
      v == Fetched(c.lhs.type, cols[1])
  IN  IF c.kind # "subquery" THEN c
      ELSE IF Len(cols) # 1 THEN Error
      ELSE IF ~is_comparable_type(c.lhs.type, cols[1].type) THEN Error
      ELSE IF c.op = "IN" THEN [c EXCEPT !.kind = "set", !.rhs = IF n = 0 THEN {} ELSE {v}]
      ELSE IF n = 0 THEN [c EXCEPT !.kind = "null", !.rhs = v]
      ELSE IF n = 1 THEN [c EXCEPT !.kind = "val", !.rhs = v]
      ELSE Error

\* The assertions of init_raw for the value on the left: it is a number of four bytes.
LhsRawFits(c) ==
  LET cols == ResultCols(c.rhs) IN
  c.kind = "subquery" /\ c.lhs.is_val /\ c.lhs.type # "STRING" /\ Len(cols) = 1
    => cols[1].len = NumericLen

(***************************************************************************)
(* eval_cond.  It reads the bytes of both sides in the type of the left    *)
(* one, except that strings without a raw buffer are compared as strings   *)
(* and numbers of two types as doubles.                                    *)
(***************************************************************************)
eval_cond(c) ==
  CASE c.kind = "null" -> "false"
    [] c.kind = "set" /\ c.lhs.type = "STRING" -> "strings"
    [] c.kind = "set" /\ c.lhs.type # "STRING" ->
         IF \A v \in c.rhs : v.type \in Numeric THEN "doubles" ELSE "raw"
    [] c.kind = "val" /\ c.lhs.type = "STRING" /\ ~c.rhs.raw -> "strings"
    [] c.kind = "val" /\ c.lhs.type # c.rhs.type /\ {c.lhs.type, c.rhs.type} \subseteq Numeric -> "doubles"
    [] OTHER -> "raw"

\* What the right side has to be for the comparison eval_cond makes.
Meaningful(c) ==
  CASE eval_cond(c) = "false" -> TRUE
    [] eval_cond(c) = "strings" -> c.lhs.type = "STRING" /\
         IF c.kind = "set" THEN \A v \in c.rhs : v.type = "STRING" ELSE c.rhs.type = "STRING"
    [] eval_cond(c) = "doubles" -> c.lhs.type \in Numeric
    [] c.kind = "val" -> c.rhs.raw /\ c.rhs.type = c.lhs.type
    [] c.kind = "col" -> c.rhs.type = c.lhs.type /\ c.rhs.len = c.lhs.len
    [] OTHER -> FALSE
-----------------------------------------------------------------------------
Query == do_analyze(stmt)

\* Two CHAR columns of different lengths, which the analyzer takes for one type.
CharLengthsDiffer(c) == c.kind = "col" /\ c.rhs.len # c.lhs.len
\* A number on the left of a subquery that selects a CHAR column.
NumberInStrings(c) ==
  c.kind = "subquery" /\ c.lhs.is_val /\ c.lhs.type \in Numeric
    /\ Len(ResultCols(c.rhs)) = 1 /\ ResultCols(c.rhs)[1].type = "STRING"

(***************************************************************************)
(* No condition of an accepted statement makes eval_cond read a raw buffer *)
(* that was never made, or the bytes of one type as another, whatever the  *)
(* types on its sides, and whether the right side is written out or comes  *)
(* from a subquery with no, one or more rows; the raw buffers are made     *)
(* within the assertions of Value::init_raw.  A value written in a         *)
(* condition has its raw buffer, which an index scan copies, and so has    *)
(* the value an update stores.  Left out are two things check_clause lets  *)
(* through: CHAR columns of different lengths, and a number compared with  *)
(* a subquery of strings.                                                  *)
(***************************************************************************)
ComparisonsAreTyped ==
  Query # Error =>
    /\ \A i \in DOMAIN Query.conds :
         LET c == Query.conds[i] IN
         CharLengthsDiffer(c) \/ NumberInStrings(c) \/
           /\ LhsRawFits(c)
           /\ c.kind = "val" => c.rhs.raw
           /\ \A n \in 0..MaxRows : materialized(c, n) = Error \/ Meaningful(materialized(c, n))
    /\ \A i \in DOMAIN Query.sets :
         Query.sets[i].rhs.raw /\ Query.sets[i].rhs.type = Query.sets[i].meta.type

\* A name that was written with a number at its end, like the ones get_select_items makes.
WrittenNumber == \E i \in DOMAIN stmt.exprs : Last(NameOf(stmt.exprs[i])) \in {ToString(n) : n \in 2..MaxParts}

(***************************************************************************)
(* An accepted SELECT shows what it was asked for.  With aggregates or     *)
(* GROUP BY, AggExecutor finds every plain item of the select list and of  *)
(* HAVING among its group columns, sums only numbers, and the projection,  *)
(* which finds its columns by their output names, takes for each item the  *)
(* column of that item.  Without, there is one projected column per item.  *)
(* There is at least one column, as RecordPrinter asserts.  Left out are   *)
(* HAVING without GROUP BY, where do_analyze checks no columns, and names  *)
(* that were written with a number at their end.                           *)
(***************************************************************************)
OutputIsAsked ==
  LET q == Query
      all == Range(q.items) \cup q.having
  IN  stmt.tag = "Select" /\ q # Error /\ (q.having # {} => q.group_by # << >>) =>
        /\ ResultCols(q) # << >>
        /\ NeedsAgg(q) =>
             /\ \A item \in all : item.agg = "NONE" => in_group_by(q.group_by, item)
             /\ \A item \in all :
                  item.agg \in Counts \cup {"NONE"} \/ ColMetaOf(q.cols, item.col).type \in Numeric
             /\ WrittenNumber \/ \A i \in DOMAIN q.items : Projected(q, i) = i
        /\ ~NeedsAgg(q) => q.items = << >> \/ Len(sel_cols(q)) = Len(q.items)
=============================================================================
