----------------------------- MODULE MCAnalyze ------------------------------
\* Two tables with columns of each type: one column name is in both, one column name
\* looks like the name of an aggregate.
EXTENDS Analyze

ColumnOf(name, type, len) == [name |-> name, type |-> type, len |-> len]
TwoTables ==
  [t |-> <<ColumnOf(<<"a">>, "INT", 4), ColumnOf(<<"f">>, "FLOAT", 4), ColumnOf(<<"s">>, "STRING", 2)>>,
   u |-> <<ColumnOf(<<"a">>, "INT", 4), ColumnOf(<<"MIN", "a">>, "INT", 4), ColumnOf(<<"z">>, "STRING", 3)>>]

FromLists == {<<"t">>, <<"t", "u">>, <<"none">>}

TabCol(tab, col) == [tab |-> tab, col |-> col]
A == TabCol("t", <<"a">>)
F == TabCol("", <<"f">>)
S == TabCol("", <<"s">>)
Z == TabCol("", <<"z">>)
MinA == TabCol("", <<"MIN", "a">>)
Unqualified == TabCol("", <<"a">>)

Expr(kind, agg, col, alias) == [kind |-> kind, agg |-> agg, col |-> col, alias |-> alias]
Plain(col) == Expr("col", "NONE", col, << >>)
Agg(agg, col) == Expr("agg", agg, col, << >>)
CountStar == Agg("COUNT_STAR", TabCol("", << >>))
Val(type, size) == [type |-> type, size |-> size, raw |-> FALSE]
Lit(type, size) == [kind |-> "value", val |-> Val(type, size)]

SomeExprs ==
  {Plain(A), Plain(MinA), Plain(Unqualified), Plain(S), Agg("MIN", A), Agg("AVG", S),
   CountStar, Expr("col", "NONE", S, <<"a">>), Expr("agg", "COUNT", F, <<"a", "2">>), Lit("INT", 4)}

SomeColumns == {Unqualified, A, S}

HavingOf(lhs, rhs) == [lhs |-> lhs, op |-> "LT", rhs |-> rhs]
SomeHavings ==
  {HavingOf(CountStar, Lit("INT", 4)), HavingOf(Agg("SUM", F), Plain(A)), HavingOf(Plain(S), Plain(Z))}

Select(tabs, exprs, group_bys) ==
  [Empty("Select", tabs) EXCEPT !.exprs = exprs, !.group_bys = group_bys]
Sub(query) == [kind |-> "subquery", query |-> query]
Subqueries ==
  {Sub(Select(<<"u">>, <<Plain(Unqualified)>>, << >>)),
   Sub(Select(<<"u">>, <<Agg("MAX", MinA)>>, <<Z>>)),
   Sub(Select(<<"t">>, <<Agg("AVG", A)>>, << >>)),
   Sub(Select(<<"u">>, <<Plain(Z)>>, << >>)),
   Sub(Select(<<"t">>, << >>, << >>))}

CondOf(lhs, op, rhs) == [lhs |-> lhs, op |-> op, rhs |-> rhs]
Lists == {[kind |-> "list", vals |-> {Val("INT", 4), Val("FLOAT", 4)}],
          [kind |-> "list", vals |-> {Val("STRING", 3)}]}
Literals == {Lit("INT", 4), Lit("FLOAT", 4), Lit("STRING", 2), Lit("STRING", 3)}
Sides == {Plain(A), Plain(F), Plain(S)}

SomeConds ==
  {CondOf(l, "EQ", r) : l \in Sides, r \in Literals \cup {Plain(Z), Plain(MinA)}}
    \cup {CondOf(l, "IN", r) : l \in Sides, r \in Lists}
    \cup {CondOf(l, op, r) : l \in Sides \cup {Lit("INT", 4), Lit("STRING", 3)},
                             op \in {"LT", "IN"}, r \in Subqueries}
    \cup {CondOf(CountStar, "EQ", Lit("INT", 4)), CondOf(Plain(A), "EQ", CountStar)}

SomeSets == {[col |-> c, val |-> v.val] : c \in {Unqualified, F, S, Z}, v \in Literals}
=============================================================================
