------------------------------ MODULE Grammar ------------------------------
(***************************************************************************)
(* The SQL of RMDB: the nodes of ast.h, and the statements of yacc.y as    *)
(* the sequences of lexemes that spell a tree.                             *)
(*                                                                         *)
(* A lexeme is a pair of its class and its text.  Identifiers and literals *)
(* are opaque: nothing in the grammar depends on their letters.            *)
(***************************************************************************)
EXTENDS Integers, SequencesExt

\* A null shared_ptr.
nullptr == [node |-> "nullptr"]

Node(name) == [node |-> name]
TabNode(name, t) == [node |-> name, tab_name |-> t]
IndexNode(name, t, cs) == [node |-> name, tab_name |-> t, col_names |-> cs]
SetStmt(knob, b) == [node |-> "SetStmt", set_knob_type |-> knob, bool_val |-> b]
TypeLen(t, n) == [node |-> "TypeLen", type |-> t, len |-> n]
ColDef(c, t) == [node |-> "ColDef", col_name |-> c, type_len |-> t]
CreateTable(t, fs) == [node |-> "CreateTable", tab_name |-> t, fields |-> fs]

Lit(name, v) == [node |-> name, val |-> v]
ValueList(vs) == [node |-> "ValueList", vals |-> vs]
Col(t, c) == [node |-> "Col", tab_name |-> t, col_name |-> c]
AggExpr(f, c) == [node |-> "AggExpr", agg_type |-> f, col |-> c]
AliasExpr(e, a) == [node |-> "AliasExpr", expr |-> e, alias |-> a]
SubqueryExpr(q) == [node |-> "SubqueryExpr", query |-> q]
SetClause(c, v) == [node |-> "SetClause", col_name |-> c, val |-> v]
BinaryExpr(l, op, r) == [node |-> "BinaryExpr", lhs |-> l, op |-> op, rhs |-> r]
OrderBy(c, d) == [node |-> "OrderBy", cols |-> c, orderby_dir |-> d]

InsertStmt(t, vs) == [node |-> "InsertStmt", tab_name |-> t, vals |-> vs]
DeleteStmt(t, cs) == [node |-> "DeleteStmt", tab_name |-> t, conds |-> cs]
UpdateStmt(t, ss, cs) ==
  [node |-> "UpdateStmt", tab_name |-> t, set_clauses |-> ss, conds |-> cs]

\* The plain columns among the select expressions, aliased or not.
PlainCols(es) ==
  LET Bare(e) == IF e.node = "AliasExpr" THEN e.expr ELSE e
      IsCol(e) == Bare(e).node = "Col"
      cols == SelectSeq(es, IsCol)
  IN [i \in DOMAIN cols |-> Bare(cols[i])]

SelectStmt(es, ts, cs, gs, hs, o) ==
  [node |-> "SelectStmt", select_exprs |-> es, tabs |-> ts, conds |-> cs,
   group_bys |-> gs, having |-> hs, order |-> o, cols |-> PlainCols(es),
   has_sort |-> o # nullptr]
-----------------------------------------------------------------------------
\* Keywords and signs; the other lexemes are pairs of their class and text.
W(text) == << <<"word", text>> >>

Separated(ss, sep) ==
  FlattenSeq([i \in 1..2 * Len(ss) - 1 |->
                IF i % 2 = 1 THEN ss[(i + 1) \div 2] ELSE sep])

\* A list of names, with commas.
Names(ns) == Separated([i \in DOMAIN ns |-> << <<"id", ns[i]>> >>], W(","))

ValueText(v) ==
  CASE v.node = "IntLit" -> << <<"int", v.val>> >>
    [] v.node = "FloatLit" -> << <<"float", v.val>> >>
    [] v.node = "StringLit" -> << <<"string", v.val>> >>
    [] v.node = "BoolLit" -> W(IF v.val THEN "TRUE" ELSE "FALSE")

ValuesText(vs) == Separated([i \in DOMAIN vs |-> ValueText(vs[i])], W(","))

ColText(c) ==
  (IF c.tab_name = "" THEN << >> ELSE << <<"id", c.tab_name>> >> \o W("."))
    \o << <<"id", c.col_name>> >>

AggText(e) ==
  IF e.agg_type = "AGG_COUNT_STAR" THEN W("COUNT") \o W("(") \o W("*") \o W(")")
  ELSE W([AGG_SUM |-> "SUM", AGG_COUNT |-> "COUNT", AGG_AVG |-> "AVG",
          AGG_MIN |-> "MIN", AGG_MAX |-> "MAX"][e.agg_type])
         \o W("(") \o ColText(e.col) \o W(")")

ExprText(e) ==
  CASE e.node = "Col" -> ColText(e)
    [] e.node = "AggExpr" -> AggText(e)
    [] OTHER -> ValueText(e)

OpText(op) ==
  W([SV_OP_EQ |-> "=", SV_OP_LT |-> "<", SV_OP_GT |-> ">", SV_OP_NE |-> "!=",
     SV_OP_LE |-> "<=", SV_OP_GE |-> ">=", SV_OP_IN |-> "IN"][op])

SelectItemText(e) ==
  IF e.node = "AliasExpr" THEN ExprText(e.expr) \o W("AS") \o << <<"id", e.alias>> >>
  ELSE ExprText(e)

SelectorText(es) ==
  IF es = << >> THEN W("*")
  ELSE Separated([i \in DOMAIN es |-> SelectItemText(es[i])], W(","))

GroupByText(gs) ==
  IF gs = << >> THEN << >>
  ELSE W("GROUP") \o W("BY") \o Separated([i \in DOMAIN gs |-> ColText(gs[i])], W(","))

OrderText(o) ==
  IF o = nullptr THEN << >>
  ELSE W("ORDER") \o W("BY") \o ColText(o.cols)
         \o [OrderBy_ASC |-> W("ASC"), OrderBy_DESC |-> W("DESC"),
             OrderBy_DEFAULT |-> << >>][o.orderby_dir]

RECURSIVE SelectText(_)

RhsText(r) ==
  CASE r.node = "SubqueryExpr" -> W("(") \o SelectText(r.query) \o W(")")
    [] r.node = "ValueList" -> W("(") \o ValuesText(r.vals) \o W(")")
    [] OTHER -> ExprText(r)

ConditionText(c) == ExprText(c.lhs) \o OpText(c.op) \o RhsText(c.rhs)

AndText(cs) == Separated([i \in DOMAIN cs |-> ConditionText(cs[i])], W("AND"))

WhereText(cs) == IF cs = << >> THEN << >> ELSE W("WHERE") \o AndText(cs)

HavingText(hs) ==
  IF hs = << >> THEN << >>
  ELSE W("HAVING") \o Separated([i \in DOMAIN hs |-> AndText(hs[i])], W("OR"))

SelectText(s) ==
  W("SELECT") \o SelectorText(s.select_exprs) \o W("FROM") \o Names(s.tabs)
    \o WhereText(s.conds) \o GroupByText(s.group_bys) \o HavingText(s.having)
    \o OrderText(s.order)
-----------------------------------------------------------------------------
TypeText(t) ==
  CASE t.type = "SV_TYPE_INT" -> W("INT")
    [] t.type = "SV_TYPE_FLOAT" -> W("FLOAT")
    [] t.type = "SV_TYPE_STRING" -> W("CHAR") \o W("(") \o << <<"int", t.len>> >> \o W(")")

FieldsText(fs) ==
  Separated([i \in DOMAIN fs |-> << <<"id", fs[i].col_name>> >> \o TypeText(fs[i].type_len)],
            W(","))

SetClausesText(ss) ==
  Separated([i \in DOMAIN ss |-> << <<"id", ss[i].col_name>> >> \o W("=")
                                   \o ValueText(ss[i].val)], W(","))

Parens(text) == W("(") \o text \o W(")")

DbText(s) ==
  CASE s.node = "ShowTables" -> W("SHOW") \o W("TABLES")
    [] s.node = "ShowIndex" -> W("SHOW") \o W("INDEX") \o W("FROM") \o Names(<<s.tab_name>>)

KnobText(s) ==
  W("SET") \o W([EnableNestLoop |-> "ENABLE_NESTLOOP",
                 EnableSortMerge |-> "ENABLE_SORTMERGE"][s.set_knob_type])
    \o W("=") \o W(IF s.bool_val THEN "TRUE" ELSE "FALSE")

DdlText(s) ==
  LET t == Names(<<s.tab_name>>) IN
  CASE s.node = "CreateTable" -> W("CREATE") \o W("TABLE") \o t \o Parens(FieldsText(s.fields))
    [] s.node = "DropTable" -> W("DROP") \o W("TABLE") \o t
    [] s.node = "DescTable" -> W("DESC") \o t
    [] s.node = "CreateIndex" -> W("CREATE") \o W("INDEX") \o t \o Parens(Names(s.col_names))
    [] s.node = "DropIndex" -> W("DROP") \o W("INDEX") \o t \o Parens(Names(s.col_names))

DmlText(s) ==
  CASE s.node = "InsertStmt" -> W("INSERT") \o W("INTO") \o Names(<<s.tab_name>>)
                                  \o W("VALUES") \o Parens(ValuesText(s.vals))
    [] s.node = "DeleteStmt" -> W("DELETE") \o W("FROM") \o Names(<<s.tab_name>>)
                                  \o WhereText(s.conds)
    [] s.node = "UpdateStmt" -> W("UPDATE") \o Names(<<s.tab_name>>) \o W("SET")
                                  \o SetClausesText(s.set_clauses) \o WhereText(s.conds)
    [] s.node = "SelectStmt" -> SelectText(s)

TxnText(s) ==
  W([TxnBegin |-> "BEGIN", TxnCommit |-> "COMMIT", TxnAbort |-> "ABORT",
     TxnRollback |-> "ROLLBACK"][s.node])

\* help is complete without a semicolon.
StatementText(s) ==
  CASE s.node = "Help" -> W("HELP")
    [] s.node \in {"TxnBegin", "TxnCommit", "TxnAbort", "TxnRollback"} -> TxnText(s) \o W(";")
    [] s.node \in {"ShowTables", "ShowIndex"} -> DbText(s) \o W(";")
    [] s.node = "SetStmt" -> KnobText(s) \o W(";")
    [] s.node \in {"CreateTable", "DropTable", "DescTable", "CreateIndex", "DropIndex"} ->
         DdlText(s) \o W(";")
    [] OTHER -> DmlText(s) \o W(";")
=============================================================================
