------------------------------- MODULE Query -------------------------------
(***************************************************************************)
(* How a SELECT is planned and executed: Planner::make_one_rel places each *)
(* condition in a scan or a join, get_index_cols picks an index, and the   *)
(* scan and join executors produce the rows.                               *)
(*                                                                         *)
(* A condition has a column on its left and a value, a column, a set of    *)
(* values (IN), NULL (an empty scalar subquery) or a subquery on its       *)
(* right.  On the left of a subquery there may be a value, as check_clause *)
(* allows it nowhere else.  A subquery selects one column of one table.  A *)
(* tuple is a function from the tables it comes from to rows.  Planning    *)
(* and execution are operators; the state is the query they are applied    *)
(* to, which grows by one condition per step.                              *)
(***************************************************************************)
EXTENDS Integers, SequencesExt

CONSTANTS
  Tables,      \* the tables of the FROM clause, in its order
  Indexes,     \* table -> the column lists of its indexes
  Databases,   \* the contents tried: table -> sequence of rows
  Conds,       \* the conditions tried
  MaxConds,
  IntMin, IntMax

ASSUME QueryAssumption ==
  /\ IsInjective(Tables)
  /\ IntMin \in Int /\ IntMax \in Int /\ MaxConds \in Nat

VARIABLES db, conds

vars == <<db, conds>>

Init == db \in Databases /\ conds = << >>

AddCond(c) ==
  /\ Len(conds) < MaxConds
  /\ conds' = Append(conds, c)
  /\ UNCHANGED db

Next == \E c \in Conds : AddCond(c)

Spec == Init /\ [][Next]_vars
-----------------------------------------------------------------------------
(***************************************************************************)
(* eval_cond and eval_conds.  get_col throws ColumnNotFoundError for a     *)
(* column the tuple does not have.                                         *)
(***************************************************************************)
compare_result(x, op, y) ==
  CASE op = "EQ" -> x = y
    [] op = "NE" -> x # y
    [] op = "LT" -> x < y
    [] op = "GT" -> x > y
    [] op = "LE" -> x <= y
    [] op = "GE" -> x >= y

get_col(tuple, c) == tuple[c.tab][c.col]

\* A value on the left: lhs_col has no table and no column then.
is_lhs_val(c) == "val" \in DOMAIN c.lhs
LhsOf(tuple, c) == IF is_lhs_val(c) THEN c.lhs.val ELSE get_col(tuple, c.lhs)

Resolves(tuple, c) ==
  \/ c.kind = "null"
  \/ /\ is_lhs_val(c) \/ c.lhs.tab \in DOMAIN tuple
     /\ c.kind = "col" => c.rhs.tab \in DOMAIN tuple

eval_cond(tuple, c) ==
  CASE c.kind = "null" -> FALSE
    [] c.kind = "set" -> LhsOf(tuple, c) \in c.rhs
    [] c.kind = "val" -> compare_result(LhsOf(tuple, c), c.op, c.rhs)
    [] c.kind = "col" -> compare_result(LhsOf(tuple, c), c.op, get_col(tuple, c.rhs))

eval_conds(tuple, cs) == \A i \in DOMAIN cs : eval_cond(tuple, cs[i])

\* The conditions are evaluated in order, up to the first that does not hold.
Throws(tuple, cs) ==
  \E i \in DOMAIN cs :
    /\ ~Resolves(tuple, cs[i])
    /\ \A j \in 1..i-1 : Resolves(tuple, cs[j]) /\ eval_cond(tuple, cs[j])
-----------------------------------------------------------------------------
(***************************************************************************)
(* get_index_cols: the first index with the longest usable prefix, a run   *)
(* of columns with an equality and perhaps one more with a range.          *)
(***************************************************************************)
Range_ops == {"LT", "LE", "GT", "GE"}

On(cs, tab, col, ops) ==
  SelectSeq(cs, LAMBDA c : c.kind = "val" /\ c.lhs = [tab |-> tab, col |-> col] /\ c.op \in ops)
Has(cs, tab, col, ops) == On(cs, tab, col, ops) # << >>

EqPrefix(cs, tab, cols) ==
  Max({n \in 0..Len(cols) : \A i \in 1..n : Has(cs, tab, cols[i], {"EQ"})})

Matched(cs, tab, cols) ==
  LET n == EqPrefix(cs, tab, cols) IN
  IF n < Len(cols) /\ Has(cs, tab, cols[n + 1], Range_ops) THEN n + 1 ELSE n

get_index_cols(cs, tab) ==
  FoldLeft(LAMBDA best, cols :
             IF Matched(cs, tab, cols) > Matched(cs, tab, best) THEN cols ELSE best,
           << >>, Indexes[tab])
-----------------------------------------------------------------------------
(***************************************************************************)
(* Plans, and make_one_rel.  index = << >> is a T_SeqScan.                 *)
(***************************************************************************)
ScanPlan(tab, cs) ==
  [tag |-> "scan", tab |-> tab, conds |-> cs, index |-> get_index_cols(cs, tab)]
JoinPlan(left, right, cs) ==
  [tag |-> "join", left |-> left, right |-> right, conds |-> cs]

\* pop_conds takes a condition on values of this table, on values alone, or on two
\* columns of one table.
PoppedBy(tab, c) ==
  IF c.kind = "col" THEN c.lhs.tab = c.rhs.tab ELSE is_lhs_val(c) \/ c.lhs.tab = tab

pop_conds(cs, i) ==
  SelectSeq(cs, LAMBDA c : /\ PoppedBy(Tables[i], c)
                           /\ \A j \in 1..i-1 : ~PoppedBy(Tables[j], c))
JoinConds(cs) == SelectSeq(cs, LAMBDA c : \A i \in DOMAIN Tables : ~PoppedBy(Tables[i], c))

pop_scan(cs, tab) == ScanPlan(tab, pop_conds(cs, CHOOSE i \in DOMAIN Tables : Tables[i] = tab))

swap_op == [EQ |-> "EQ", NE |-> "NE", LT |-> "GT", GT |-> "LT", LE |-> "GE", GE |-> "LE"]

\* Mutant: the operator stays as it is.
ColumnsSwapped(c) == [c EXCEPT !.lhs = c.rhs, !.rhs = c.lhs]

Swapped(c) == [c EXCEPT !.lhs = c.rhs, !.rhs = c.lhs, !.op = swap_op[c.op]]

\* push_conds: res is 1 or 2 for the side of c that plan has, 3 when c was placed.
RECURSIVE push_conds(_, _)
push_conds(c, plan) ==
  IF plan.tag = "scan"
    THEN [plan |-> plan,
          res |-> IF plan.tab = c.lhs.tab THEN 1 ELSE IF plan.tab = c.rhs.tab THEN 2 ELSE 0]
  ELSE LET l == push_conds(c, plan.left)
           r == push_conds(c, plan.right)
           placed == IF l.res = 2 THEN Swapped(c) ELSE c
       IN  IF l.res = 3 THEN [plan |-> [plan EXCEPT !.left = l.plan], res |-> 3]
           ELSE IF r.res = 3 THEN [plan |-> [plan EXCEPT !.right = r.plan], res |-> 3]
           ELSE IF l.res = 0 \/ r.res = 0 THEN [plan |-> plan, res |-> l.res + r.res]
           ELSE [plan |-> [plan EXCEPT !.conds = Append(@, placed)], res |-> 3]

\* One more join condition: the tables it brings in are joined to the plan.
AddJoin(cs, at, c) ==
  LET newl == c.lhs.tab \notin at.joined
      newr == c.rhs.tab \notin at.joined
      left == pop_scan(cs, c.lhs.tab)
      right == pop_scan(cs, c.rhs.tab)
  IN  [joined |-> at.joined \cup {c.lhs.tab, c.rhs.tab},
       plan |->
         IF newl /\ newr THEN JoinPlan(JoinPlan(left, right, <<c>>), at.plan, << >>)
         ELSE IF newl THEN JoinPlan(left, at.plan, <<c>>)
         ELSE IF newr THEN JoinPlan(right, at.plan, <<Swapped(c)>>)
         ELSE push_conds(c, at.plan).plan]

FirstJoin(cs, c) ==
  [joined |-> {c.lhs.tab, c.rhs.tab},
   plan |-> JoinPlan(pop_scan(cs, c.lhs.tab), pop_scan(cs, c.rhs.tab), <<c>>)]

\* Tables no join condition mentions are joined last, without a condition.
JoinRest(cs, at) ==
  FoldLeft(LAMBDA plan, tab :
             IF tab \in at.joined THEN plan ELSE JoinPlan(plan, pop_scan(cs, tab), << >>),
           at.plan, Tables)

make_one_rel(cs) ==
  LET jc == JoinConds(cs) IN
  IF Len(Tables) = 1 THEN pop_scan(cs, Tables[1])
  ELSE IF jc = << >>
    THEN JoinRest(cs, [joined |-> {Tables[1]}, plan |-> pop_scan(cs, Tables[1])])
  ELSE JoinRest(cs, FoldLeft(LAMBDA at, c : AddJoin(cs, at, c), FirstJoin(cs, jc[1]), Tail(jc)))
-----------------------------------------------------------------------------
(***************************************************************************)
(* The key range of an index scan (make_scan_range).  Of several           *)
(* equalities on a column the last counts, of several bounds the first.    *)
(***************************************************************************)
Less(k, l) == \E i \in DOMAIN k : k[i] < l[i] /\ \A j \in 1..i-1 : k[j] = l[j]
KeyOf(row, cols) == [i \in DOMAIN cols |-> row[cols[i]]]

EqValue(cs, tab, col) == Last(On(cs, tab, col, {"EQ"})).rhs

\* The rest of a low key after the column with a lower bound.
LowFill == IntMax

low_key(cs, tab, cols) ==
  LET n == EqPrefix(cs, tab, cols)
      bounded == n < Len(cols) /\ Has(cs, tab, cols[n + 1], {"GT", "GE"})
  IN  [i \in DOMAIN cols |->
         IF i <= n THEN EqValue(cs, tab, cols[i])
         ELSE IF ~bounded THEN IntMin
         ELSE IF i = n + 1 THEN Head(On(cs, tab, cols[i], {"GT", "GE"})).rhs
         ELSE LowFill]

high_key(cs, tab, cols) ==
  LET n == EqPrefix(cs, tab, cols) IN
  [i \in DOMAIN cols |->
     IF i <= n THEN EqValue(cs, tab, cols[i])
     ELSE IF i = n + 1 /\ Has(cs, tab, cols[i], {"LT", "LE"})
       THEN Head(On(cs, tab, cols[i], {"LT", "LE"})).rhs
     ELSE IntMax]

\* Whether the first bound on the range column is a strict one.
Strict(cs, tab, cols, ops, strict) ==
  LET n == EqPrefix(cs, tab, cols) IN
  /\ n < Len(cols)
  /\ Has(cs, tab, cols[n + 1], ops)
  /\ Head(On(cs, tab, cols[n + 1], ops)).op = strict

\* Positions in the leaf chain: how many entries lie before the bound.
lower_bound(entries, cols, key) ==
  Len(SelectSeq(entries, LAMBDA row : Less(KeyOf(row, cols), key)))
upper_bound(entries, cols, key) ==
  Len(SelectSeq(entries, LAMBDA row : ~Less(key, KeyOf(row, cols))))

ScanFrom(entries, cs, tab, cols) ==
  LET key == low_key(cs, tab, cols) IN
  IF Strict(cs, tab, cols, {"GT", "GE"}, "GT")
    THEN upper_bound(entries, cols, key) ELSE lower_bound(entries, cols, key)

ScanTo(entries, cs, tab, cols) ==
  LET key == high_key(cs, tab, cols) IN
  IF Strict(cs, tab, cols, {"LT", "LE"}, "LT")
    THEN lower_bound(entries, cols, key) ELSE upper_bound(entries, cols, key)
-----------------------------------------------------------------------------
(***************************************************************************)
(* Execution.  A result is a sequence of tuples, or Failed when an         *)
(* executor throws.  An IxScan whose end lies before its beginning runs    *)
(* off the last leaf and throws.                                           *)
(***************************************************************************)
Failed == [ok |-> FALSE, rows |-> << >>]
Rows(rows) == [ok |-> TRUE, rows |-> rows]

Tuples(tab, rows) == [i \in DOMAIN rows |-> [t \in {tab} |-> rows[i]]]

Filter(tuples, cs) ==
  IF \E i \in DOMAIN tuples : Throws(tuples[i], cs) THEN Failed
  ELSE Rows(SelectSeq(tuples, LAMBDA tuple : eval_conds(tuple, cs)))

SeqScan(plan) == Filter(Tuples(plan.tab, db[plan.tab]), plan.conds)

IndexScan(plan) ==
  LET Before(r, s) == Less(KeyOf(r, plan.index), KeyOf(s, plan.index))
      entries == SortSeq(db[plan.tab], Before)
      from == ScanFrom(entries, plan.conds, plan.tab, plan.index)
      to == ScanTo(entries, plan.conds, plan.tab, plan.index)
  IN  IF from > to THEN Failed
      ELSE Filter(Tuples(plan.tab, SubSeq(entries, from + 1, to)), plan.conds)

\* NestedLoopJoinExecutor keeps the right rows and goes through them backwards.
NestedLoopJoin(left, right, cs) ==
  IF ~right.ok THEN Failed
  ELSE IF right.rows = << >> THEN right
  ELSE IF ~left.ok THEN Failed
  ELSE Filter(FlattenSeq([i \in DOMAIN left.rows |->
                [j \in DOMAIN right.rows |-> left.rows[i] @@ Reverse(right.rows)[j]]]), cs)

RECURSIVE Run(_)
Run(plan) ==
  IF plan.tag = "join" THEN NestedLoopJoin(Run(plan.left), Run(plan.right), plan.conds)
  ELSE IF plan.index = << >> THEN SeqScan(plan)
  ELSE IndexScan(plan)

(***************************************************************************)
(* materialize_subqueries runs each subquery before the query is planned.  *)
(* A scalar subquery with several rows is an error.                        *)
(***************************************************************************)
Subquery(c) == Run(ScanPlan(c.rhs.tab, c.rhs.conds))
SubqueryValues(c) ==
  LET rows == Subquery(c).rows IN [i \in DOMAIN rows |-> rows[i][c.rhs.tab][c.rhs.col]]

SubqueryThrows(c) ==
  /\ c.kind = "sub"
  /\ ~Subquery(c).ok \/ (c.op # "IN" /\ Len(SubqueryValues(c)) > 1)

Materialized(c) ==
  LET values == SubqueryValues(c) IN
  CASE c.kind # "sub" -> c
    [] c.kind = "sub" /\ c.op = "IN" -> [c EXCEPT !.kind = "set", !.rhs = Range(values)]
    [] c.kind = "sub" /\ c.op # "IN" /\ values = << >> -> [c EXCEPT !.kind = "null", !.rhs = 0]
    [] OTHER -> [c EXCEPT !.kind = "val", !.rhs = values[1]]

materialize_subqueries(cs) == [i \in DOMAIN cs |-> Materialized(cs[i])]

Result ==
  IF \E i \in DOMAIN conds : SubqueryThrows(conds[i]) THEN Failed
  ELSE Run(make_one_rel(materialize_subqueries(conds)))
-----------------------------------------------------------------------------
(***************************************************************************)
(* What SQL says: the combinations of rows for which every condition       *)
(* holds.  A condition on a subquery holds when it does for its row.       *)
(***************************************************************************)
SelectedBy(sub) ==
  {row[sub.col] : row \in {row \in Range(db[sub.tab]) :
                             eval_conds([t \in {sub.tab} |-> row], sub.conds)}}

Holds(tuple, c) ==
  IF c.kind # "sub" THEN eval_cond(tuple, c)
  ELSE \E v \in SelectedBy(c.rhs) :
         compare_result(LhsOf(tuple, c), IF c.op = "IN" THEN "EQ" ELSE c.op, v)

Reference ==
  {tuple \in [Range(Tables) -> UNION {Range(db[t]) : t \in Range(Tables)}] :
     /\ \A t \in Range(Tables) : tuple[t] \in Range(db[t])
     /\ \A i \in DOMAIN conds : Holds(tuple, conds[i])}

(***************************************************************************)
(* Whatever the order of the conditions, the joins they lead to and the    *)
(* indexes chosen, the plan returns every matching combination of rows     *)
(* once, and nothing else: no condition is lost when make_one_rel moves it *)
(* into a scan or a join or turns it round.  The only error is that of a   *)
(* scalar subquery with several rows.                                      *)
(***************************************************************************)
PlanIsExact ==
  IF Result.ok THEN IsInjective(Result.rows) /\ Range(Result.rows) = Reference
  ELSE \E i \in DOMAIN conds : SubqueryThrows(conds[i])
=============================================================================
