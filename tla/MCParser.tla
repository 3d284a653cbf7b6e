------------------------------ MODULE MCParser ------------------------------
(***************************************************************************)
(* Texts for Parser: statements with every rule of the grammar, the        *)
(* product of the clauses of a select, comments, and short statements with *)
(* a lexeme dropped, doubled or exchanged.                                 *)
(***************************************************************************)
EXTENDS Parser

a == Col("", "a")
ta == Col("t", "a")
one == Lit("IntLit", "1")
Cond(l, op, r) == BinaryExpr(l, op, r)
All(t) == SelectStmt(<< >>, <<t>>, << >>, << >>, << >>, nullptr)
Sub(q) == SubqueryExpr(q)

Plain ==
  <<Node("Help"), Node("TxnBegin"), Node("TxnCommit"), Node("TxnAbort"),
    Node("TxnRollback"), Node("ShowTables"), TabNode("ShowIndex", "t"),
    SetStmt("EnableNestLoop", TRUE), SetStmt("EnableSortMerge", FALSE),
    CreateTable("t", <<ColDef("a", TypeLen("SV_TYPE_INT", "4"))>>),
    CreateTable("t", <<ColDef("a", TypeLen("SV_TYPE_FLOAT", "4")),
                       ColDef("b", TypeLen("SV_TYPE_STRING", "8")),
                       ColDef("c", TypeLen("SV_TYPE_INT", "4"))>>),
    TabNode("DropTable", "t"), TabNode("DescTable", "t"),
    IndexNode("CreateIndex", "t", <<"a", "b">>), IndexNode("DropIndex", "t", <<"a">>),
    InsertStmt("t", <<one, Lit("FloatLit", "1.5"), Lit("StringLit", "x"), Lit("BoolLit", TRUE)>>),
    DeleteStmt("t", << >>),
    DeleteStmt("t", <<Cond(ta, "SV_OP_NE", one), Cond(one, "SV_OP_EQ", Sub(All("u")))>>),
    UpdateStmt("t", <<SetClause("a", one)>>, << >>),
    UpdateStmt("t", <<SetClause("a", one), SetClause("b", Lit("BoolLit", FALSE))>>,
               <<Cond(a, "SV_OP_LE", ta)>>)>>

Selectors ==
  <<<< >>, <<a>>,
   <<AliasExpr(ta, "b"), AggExpr("AGG_SUM", a), AggExpr("AGG_COUNT_STAR", nullptr)>>,
   <<AggExpr("AGG_COUNT", ta), AliasExpr(AggExpr("AGG_AVG", a), "b"),
     AggExpr("AGG_MIN", a), AggExpr("AGG_MAX", a)>>>>

Ordered == SelectStmt(<<a>>, <<"u">>, << >>, << >>, << >>, OrderBy(a, "OrderBy_DESC"))

Wheres ==
  <<<< >>, <<Cond(a, "SV_OP_EQ", one)>>,
   <<Cond(ta, "SV_OP_LT", a), Cond(a, "SV_OP_GE", one)>>,
   <<Cond(a, "SV_OP_IN", ValueList(<<one, Lit("StringLit", "x")>>)), Cond(a, "SV_OP_GT", one)>>,
   <<Cond(a, "SV_OP_IN", Sub(Ordered)), Cond(a, "SV_OP_EQ", ta)>>,
   <<Cond(a, "SV_OP_GT", Sub(All("u"))), Cond(ta, "SV_OP_IN", Sub(Ordered))>>>>

Groups == <<<< >>, <<a>>, <<a, ta>>>>

Havings ==
  <<<< >>,
   <<<<Cond(AggExpr("AGG_SUM", ta), "SV_OP_GT", one), Cond(a, "SV_OP_EQ", one)>>,
     <<Cond(a, "SV_OP_LE", Sub(All("u")))>>>>>>

Orders == <<nullptr, OrderBy(ta, "OrderBy_ASC"), OrderBy(a, "OrderBy_DEFAULT")>>

Tables == <<<<"t">>, <<"t", "u">>>>

\* Every combination of the clauses: k counts through them.
Selects == 864
Select(k) ==
  LET Pick(s, i) == s[1 + (i % Len(s))] IN
  SelectStmt(Pick(Selectors, k), Pick(Tables, k \div 4), Pick(Wheres, k \div 8),
             Pick(Groups, k \div 48), Pick(Havings, k \div 144), Pick(Orders, k \div 288))

\* Three levels: more than the stack of the instance is sure to hold.
Deep ==
  LET Nest(q) == SelectStmt(<<a>>, <<"t">>, <<Cond(a, "SV_OP_EQ", one),
                                              Cond(ta, "SV_OP_IN", Sub(q))>>,
                            << >>, << >>, nullptr)
  IN <<Nest(Nest(All("t"))), Nest(Nest(Nest(All("t"))))>>
-----------------------------------------------------------------------------
Input(start, text_, tree) == [start |-> start, text |-> text_, tree |-> tree]
Statement(s) == Input("INITIAL", StatementText(s), s)

Blank == << <<"blank", " ">> >>
Comment == W("/*") \o W("SELECT") \o W(";") \o W("/*") \o W("*/")
Line == << <<"line", "--">>, <<"unexpected", "#">> >>

Commented ==
  LET t == StatementText(Select(1)) IN
  <<Input("INITIAL", Comment \o SubSeq(t, 1, 2) \o Blank \o Line \o Comment
                       \o SubSeq(t, 3, Len(t)) \o W("SELECT"), Select(1)),
    Input("STATE_COMMENT", W(";") \o W("*/") \o t \o W("/*"), Select(1)),
    Input("STATE_COMMENT", t, nullptr),
    Input("INITIAL", SubSeq(t, 1, 2) \o W("/*") \o SubSeq(t, 3, Len(t)), nullptr),
    Input("INITIAL", t \o W("/*"), Select(1)),
    Input("INITIAL", W("EXIT"), nullptr),
    Input("INITIAL", W("DELETE") \o W("FROM") \o Names(<<"t">>) \o W("WHERE") \o Names(<<"a">>)
                       \o W("<>") \o ValueText(one) \o W(";"),
          DeleteStmt("t", <<Cond(a, "SV_OP_NE", one)>>)),
    Input("INITIAL", W("SELECT") \o W("*") \o W("FROM") \o Names(<<"t">>) \o W("JOIN")
                       \o Names(<<"u">>) \o W(";"),
          SelectStmt(<< >>, <<"t", "u">>, << >>, << >>, << >>, nullptr))>>

\* Lexemes dropped, doubled, or replaced by another of the same text.
Damaged(t, k) ==
  LET n == Len(t)
      i == 1 + (k % n)
      j == 1 + ((k \div n) % n)
  IN IF k >= n * (n + 2) THEN << >>
     ELSE IF k < n THEN RemoveAt(t, i)
     ELSE IF k < 2 * n THEN InsertAt(t, i, t[i])
     ELSE ReplaceAt(t, i, t[j])

Bases == <<Plain[10], Plain[18], Plain[20],
           SelectStmt(<<AliasExpr(ta, "b")>>, <<"t">>, <<Cond(a, "SV_OP_EQ", one)>>,
                      <<a>>, << >>, OrderBy(ta, "OrderBy_ASC"))>>
PerBase == 500

Texts == Selects + 4 * PerBase + Len(Plain) + Len(Deep) + Len(Commented)
TextAt(k) ==
  LET d == k - Selects - 1
      m == d - 4 * PerBase + 1
      fixed == Plain \o Deep
  IN IF k <= Selects THEN Statement(Select(k))
     ELSE IF d < 4 * PerBase
       THEN Input("INITIAL", Damaged(StatementText(Bases[1 + (d \div PerBase)]), d % PerBase), nullptr)
     ELSE IF m <= Len(fixed) THEN Statement(fixed[m])
     ELSE Commented[m - Len(fixed)]
=============================================================================
