------------------------------ MODULE MCQuery ------------------------------
EXTENDS Aggregate

FourTables == <<"t1", "t2", "t3", "t4">>

Row(a, b) == [a |-> a, b |-> b]
Col(t, c) == [tab |-> t, col |-> c]
ValCond(t, c, op, v) == [lhs |-> Col(t, c), op |-> op, kind |-> "val", rhs |-> v]
ColCond(t, c, op, u, d) == [lhs |-> Col(t, c), op |-> op, kind |-> "col", rhs |-> Col(u, d)]
InCond(t, c, S) == [lhs |-> Col(t, c), op |-> "IN", kind |-> "set", rhs |-> S]
SubCond(t, c, op, u, d, cs) ==
  [lhs |-> Col(t, c), op |-> op, kind |-> "sub", rhs |-> [tab |-> u, col |-> d, conds |-> cs]]
ValSubCond(v, op, u, d, cs) ==
  [lhs |-> [val |-> v], op |-> op, kind |-> "sub", rhs |-> [tab |-> u, col |-> d, conds |-> cs]]

\* t1 has two indexes, the longer of which is not the first.
SomeIndexes ==
  [t1 |-> << <<"b">>, <<"a", "b">> >>, t2 |-> << <<"a">> >>, t3 |-> << >>, t4 |-> << >>]

SomeDatabases ==
  { [t1 |-> <<Row(2, 1), Row(1, 2), Row(1, 3)>>, t2 |-> <<Row(3, 1), Row(1, 2)>>,
     t3 |-> <<Row(1, 3), Row(2, 2)>>, t4 |-> <<Row(2, 2), Row(1, 1)>>],
    [t1 |-> <<Row(1, 1), Row(2, 2)>>, t2 |-> <<Row(2, 1), Row(1, 3)>>,
     t3 |-> << >>, t4 |-> <<Row(3, 1)>>] }

\* Joins in both directions, and conditions for scans and index ranges.
SomeConds ==
  { ColCond("t1", "a", "EQ", "t2", "a"), ColCond("t3", "b", "GT", "t2", "b"),
    ColCond("t3", "a", "LE", "t4", "a"), ColCond("t4", "b", "LT", "t1", "b"),
    ColCond("t2", "b", "GE", "t4", "b"),
    ColCond("t1", "a", "LT", "t1", "b"),
    ValCond("t1", "a", "EQ", 1), ValCond("t1", "a", "LT", 2), ValCond("t1", "a", "GT", 1),
    ValCond("t1", "b", "GT", 1), ValCond("t1", "b", "LE", 2),
    ValCond("t2", "a", "GE", 2), ValCond("t3", "b", "NE", 2),
    InCond("t4", "a", {2, 3}),
    SubCond("t4", "b", "IN", "t1", "b", << >>),
    SubCond("t1", "a", "EQ", "t3", "a", <<ValCond("t3", "b", "GT", 2)>>),
    SubCond("t2", "a", "LT", "t3", "b", << >>),
    ValSubCond(3, "IN", "t1", "b", << >>),
    ValSubCond(2, "GT", "t3", "a", <<ValCond("t3", "b", "GT", 2)>>) }

Agg(agg, t, c) == [agg |-> agg, col |-> Col(t, c)]
Plain(t, c) == Agg("NONE", t, c)
CountStar == Agg("COUNT_STAR", "", "")
HavingCond(item, op, v) == [lhs |-> item, op |-> op, is_rhs_val |-> TRUE, rhs |-> v]
HavingItems(item, op, other) == [lhs |-> item, op |-> op, is_rhs_val |-> FALSE, rhs |-> other]

SomeSelects ==
  { [items |-> <<Plain("t1", "a"), Agg("MIN", "t4", "b"), Agg("MAX", "t3", "a"), CountStar>>,
     group_by |-> <<Col("t1", "a")>>, having |-> << >>],
    [items |-> <<Plain("t2", "b"), Plain("t1", "a"), Agg("SUM", "t4", "a"), Agg("AVG", "t1", "b")>>,
     group_by |-> <<Col("t1", "a"), Col("t2", "b")>>,
     having |-> <<<<HavingCond(Agg("MAX", "t1", "b"), "GT", 2), HavingCond(CountStar, "GE", 2)>>,
                  <<HavingItems(Agg("MIN", "t4", "a"), "LT", Plain("t1", "a"))>>>>],
    [items |-> <<CountStar, Agg("COUNT", "t1", "a")>>, group_by |-> << >>, having |-> << >>],
    [items |-> <<Agg("MIN", "t1", "a"), CountStar>>, group_by |-> << >>, having |-> << >>],
    [items |-> <<Plain("t4", "b"), Plain("t1", "b")>>, group_by |-> << >>, having |-> << >>] }
=============================================================================
