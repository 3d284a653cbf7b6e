----------------------------- MODULE MCCatalog -----------------------------
(***************************************************************************)
(* Two tables whose indexes compete for one file name: t(a_b), t(a, b) and *)
(* t_a(b).  A key that names a long column twice is too long, and a record *)
(* of 600 bytes too large.                                                 *)
(***************************************************************************)
EXTENDS Catalog

T == <<"t">>
TA == <<"t", "a">>
Names == {T, TA}

Field(n, type, len) == [name |-> n, type |-> type, len |-> len]
A == <<"a">>
B == <<"b">>
AB == <<"a", "b">>

Wide == <<Field(A, 0, 4), Field(B, 2, 300), Field(AB, 1, 4)>>
Narrow == <<Field(B, 0, 4)>>
TooWide == <<Field(A, 2, 300), Field(B, 2, 300)>>
Definitions == [t \in Names |-> IF t = T THEN {Wide, Narrow, TooWide} ELSE {Narrow}]
KeyLists == {<<A, B>>, <<AB>>, <<B>>, <<B, B>>}
=============================================================================
