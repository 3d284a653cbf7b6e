----------------------------- MODULE Aggregate -----------------------------
(***************************************************************************)
(* AggExecutor: GROUP BY, aggregates and HAVING over the rows of a plan.   *)
(* A select is a record of select items, group-by columns and HAVING       *)
(* conditions, which are a disjunction of conjunctions.  An item is        *)
(* [agg, col], agg = "NONE" for a plain column.  AVG is the pair of sum    *)
(* and count, which the code divides as floats.                            *)
(***************************************************************************)
EXTENDS Query

CONSTANT Selects

\* AggValueState, and what a new one holds.
InitialState == [count |-> 0, sum |-> 0, min_set |-> FALSE, max_set |-> FALSE,
                 min |-> 0, max |-> 0]

Counts == {"COUNT", "COUNT_STAR"}
HavingConds(sel) == UNION {Range(g) : g \in Range(sel.having)}
Items(sel) ==
  Range(sel.items) \cup {c.lhs : c \in HavingConds(sel)}
    \cup {c.rhs : c \in {c \in HavingConds(sel) : ~c.is_rhs_val}}

\* prepare_agg_specs: one state per aggregate of the select list or of HAVING.
AggSpecs(sel) == {item \in Items(sel) : item.agg # "NONE"}

\* Mutant: the first value of a group competes with the initial zero.
MinFromZero(state, v) == IF v < state.min THEN v ELSE state.min

NewMin(state, v) == IF ~state.min_set \/ v < state.min THEN v ELSE state.min
NewMax(state, v) == IF ~state.max_set \/ v > state.max THEN v ELSE state.max

update_agg_state(state, spec, tuple) ==
  IF spec.agg \in Counts THEN [state EXCEPT !.count = @ + 1]
  ELSE LET v == get_col(tuple, spec.col) IN
       [count |-> IF spec.agg = "AVG" THEN state.count + 1 ELSE state.count,
        sum |-> IF spec.agg \in {"SUM", "AVG"} THEN state.sum + v ELSE state.sum,
        min_set |-> TRUE, max_set |-> TRUE,
        min |-> NewMin(state, v), max |-> NewMax(state, v)]

key_for_group(sel, tuple) == [i \in DOMAIN sel.group_by |-> get_col(tuple, sel.group_by[i])]

\* The loop of beginTuple: groups in the order of their first rows.
AddToGroups(sel, groups, tuple) ==
  LET key == key_for_group(sel, tuple)
      updated(states) == [a \in AggSpecs(sel) |-> update_agg_state(states[a], a, tuple)]
      new == [key |-> key, states |-> updated([a \in AggSpecs(sel) |-> InitialState])]
  IN  IF \E i \in DOMAIN groups : groups[i].key = key
        THEN [i \in DOMAIN groups |->
                IF groups[i].key = key
                  THEN [groups[i] EXCEPT !.states = updated(@)] ELSE groups[i]]
      ELSE Append(groups, new)

\* No rows and no GROUP BY: one group of zeros if all items are counts, else none.
OnlyCounts(sel) == \A i \in DOMAIN sel.items : sel.items[i].agg \in Counts

Groups(sel, tuples) ==
  IF tuples = << >> /\ sel.group_by = << >> /\ OnlyCounts(sel)
    THEN <<[key |-> << >>, states |-> [a \in AggSpecs(sel) |-> InitialState]]>>
  ELSE FoldLeft(LAMBDA groups, tuple : AddToGroups(sel, groups, tuple), << >>, tuples)

value_from_agg(item, state) ==
  CASE item.agg \in Counts -> state.count
    [] item.agg = "SUM" -> state.sum
    [] item.agg = "AVG" -> <<state.sum, state.count>>
    [] item.agg = "MIN" -> state.min
    [] item.agg = "MAX" -> state.max

\* Throws for a column that is not in GROUP BY; no such item is among Selects.
value_from_nonagg(sel, item, group) ==
  group.key[CHOOSE i \in DOMAIN sel.group_by : sel.group_by[i] = item.col]

eval_select_item(sel, item, group) ==
  IF item.agg = "NONE" THEN value_from_nonagg(sel, item, group)
  ELSE value_from_agg(item, group.states[item])

pass_having(sel, group) ==
  \/ sel.having = << >>
  \/ \E i \in DOMAIN sel.having : \A j \in DOMAIN sel.having[i] :
       LET c == sel.having[i][j]
           rhs == IF c.is_rhs_val THEN c.rhs ELSE eval_select_item(sel, c.rhs, group)
       IN  compare_result(eval_select_item(sel, c.lhs, group), c.op, rhs)

AggExecutor(sel, tuples) ==
  LET passing == SelectSeq(Groups(sel, tuples), LAMBDA g : pass_having(sel, g)) IN
  [i \in DOMAIN passing |->
     [j \in DOMAIN sel.items |-> eval_select_item(sel, sel.items[j], passing[i])]]

ProjectionExecutor(sel, tuples) ==
  [i \in DOMAIN tuples |-> [j \in DOMAIN sel.items |-> get_col(tuples[i], sel.items[j].col)]]

NeedsAgg(sel) ==
  (\E i \in DOMAIN sel.items : sel.items[i].agg # "NONE") \/ sel.group_by # << >> \/ sel.having # << >>

generate_select_plan(sel, tuples) ==
  IF NeedsAgg(sel) THEN AggExecutor(sel, tuples) ELSE ProjectionExecutor(sel, tuples)
-----------------------------------------------------------------------------
\* What SQL says of an item, over the rows S of one group.
Value(item, S) ==
  LET v(t) == get_col(t, item.col) IN
  CASE item.agg = "NONE" -> v(CHOOSE t \in S : TRUE)
    [] item.agg \in Counts -> Cardinality(S)
    [] item.agg = "SUM" -> MapThenSumSet(v, S)
    [] item.agg = "AVG" -> <<MapThenSumSet(v, S), Cardinality(S)>>
    [] item.agg = "MIN" -> Min({v(t) : t \in S})
    [] item.agg = "MAX" -> Max({v(t) : t \in S})

Having(sel, S) ==
  sel.having = << >> \/ \E g \in Range(sel.having) : \A c \in Range(g) :
    compare_result(Value(c.lhs, S), c.op, IF c.is_rhs_val THEN c.rhs ELSE Value(c.rhs, S))

ReferenceGroups(sel, S) ==
  IF ~NeedsAgg(sel) THEN {{t} : t \in S}
  ELSE IF S = {} /\ sel.group_by = << >> /\ OnlyCounts(sel) THEN {{}}
  ELSE {{t \in S : key_for_group(sel, t) = key_for_group(sel, u)} : u \in S}

(***************************************************************************)
(* AggExecutor builds its groups one row at a time, in whatever order the  *)
(* plan returns the rows.  The result has one row for each group that      *)
(* HAVING accepts, and its aggregates are those of the matching rows.      *)
(* Without aggregates it has one row for each matching row.                *)
(***************************************************************************)
GroupsAreExact ==
  Result.ok =>
    \A sel \in Selects :
      LET out == generate_select_plan(sel, Result.rows)
          expected == {S \in ReferenceGroups(sel, Reference) : Having(sel, S)}
      IN  /\ Len(out) = Cardinality(expected)
          /\ Range(out) = {[j \in DOMAIN sel.items |-> Value(sel.items[j], S)] : S \in expected}
=============================================================================
