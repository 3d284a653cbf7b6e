------------------------------- MODULE MCDml -------------------------------
EXTENDS Dml

CONSTANTS s1, s2

Rids == 1..3
RowOf(a, b) == [a |-> a, b |-> b]
Columns == {"a", "b"}
OnA == <<"a">>
OnB == <<"b">>

SetOf(c, v) == [x \in {c} |-> v]

\* Two sessions that may insert rows with a key in common and update or delete the same
\* rows.  The updates of one session set one column, those of the other
\* the columns of two indexes.
SomeWork ==
  [s \in {s1, s2} |->
     IF s = s1
       THEN [rows |-> {RowOf(1, 1), RowOf(2, 2)},
             wheres |-> {[a : {1, 2, 4}, b : {1, 2}]},
             sets |-> {RowOf(4, 2)}]
       ELSE [rows |-> {RowOf(2, 3)},
             wheres |-> {[a : {1, 2}, b : {2, 3}]},
             sets |-> {SetOf("a", 1)}]]

OnAOnB == {OnA, OnB}
=============================================================================
