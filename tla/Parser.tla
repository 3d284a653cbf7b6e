------------------------------- MODULE Parser -------------------------------
(***************************************************************************)
(* One call of yyparse: the scanner that flex generated from lex.l feeds   *)
(* the table-driven parser that Bison generated from yacc.y.               *)
(*                                                                         *)
(* The value stack holds whole SemValue structs.  A shift copies yylval,   *)
(* whose fields keep what earlier tokens put there; a reduction copies the *)
(* struct of its first symbol and sets some fields of the copy; and the    *)
(* slots above the top keep what was in them.  A SemValue is therefore a   *)
(* function of the fields that have been set: a rule that reads a field no *)
(* one has set is an error of the model.                                   *)
(*                                                                         *)
(* What a call can inherit is the start condition of the scanner, a global *)
(* that yy_scan_string does not reset.                                     *)
(***************************************************************************)
EXTENDS Grammar, ParserTables, TLC

CONSTANTS
  InputCount,   \* how many texts there are to parse
  InputAt(_),   \* each of them: its lexemes, the start condition the scanner
                \* was left in, and the tree it spells, or nullptr
  YYINITDEPTH   \* the size of the parser's stacks

ASSUME ParserAssumption == InputCount \in Nat /\ YYINITDEPTH \in Nat \ {0, 1}

VARIABLES
  goal,         \* the tree the text spells, for the properties
  text,         \* the lexemes the scanner has not come to
  yy_start,     \* the start condition of the scanner
  yychar,       \* the lookahead token, or YYEMPTY
  yylval,       \* its semantic value
  yyss,         \* the state stack
  yyvs,         \* the slots of the value stack that have been used
  parse_tree,   \* the global the rules of start assign
  yyresult,     \* what yyparse returned, -1 while it runs
  read          \* the lexemes that became tokens, for the properties

vars == <<goal, text, yy_start, yychar, yylval, yyss, yyvs, parse_tree, yyresult, read>>

YYEMPTY == "YYEMPTY"
Running == yyresult = -1
yystate == Last(yyss)
yyn == yypact[yystate]

\* The only field that is read where no rule has set it: a null shared_ptr.
SemValue == [sv_orderby |-> nullptr]

Init ==
  /\ \E k \in 1..InputCount : LET i == InputAt(k) IN
       text = i.text /\ yy_start = i.start /\ goal = i.tree
  /\ yychar = YYEMPTY
  /\ yylval = SemValue
  /\ yyss = <<0>>
  /\ yyvs = << >>
  /\ parse_tree = nullptr
  /\ yyresult = -1
  /\ read = << >>
-----------------------------------------------------------------------------
\* The keywords and signs whose token has another name; "*/" outside of a
\* comment is a star and a character the scanner skips.
Renamed ==
  [BEGIN |-> "TXN_BEGIN", COMMIT |-> "TXN_COMMIT", ABORT |-> "TXN_ABORT", ROLLBACK |-> "TXN_ROLLBACK"]
    @@ ("TRUE" :> "VALUE_BOOL" @@ "FALSE" :> "VALUE_BOOL" @@ ">=" :> "GEQ" @@ "<=" :> "LEQ"
          @@ "!=" :> "NEQ" @@ "<>" :> "NEQ" @@ "*/" :> "*")

TokenOf(l) ==
  CASE l[1] = "id" -> "IDENTIFIER"
    [] l[1] = "int" -> "VALUE_INT"
    [] l[1] = "float" -> "VALUE_FLOAT"
    [] l[1] = "string" -> "VALUE_STRING"
    [] OTHER -> IF l[2] \in DOMAIN Renamed THEN Renamed[l[2]] ELSE l[2]

\* The fields of yylval the rule of a lexeme assigns.
ValueOf(l) ==
  CASE l[1] \in {"id", "string"} -> "sv_str" :> l[2]
    [] l[1] = "int" -> "sv_int" :> l[2]
    [] l[1] = "float" -> "sv_float" :> l[2]
    [] l[2] \in {"TRUE", "FALSE"} -> "sv_bool" :> (l[2] = "TRUE")
    [] OTHER -> << >>

\* White space, line comments and unexpected characters.
Skipped(l) == l[1] \in {"blank", "line", "unexpected"}

\* The start condition after a lexeme.
StartAfter(start, l) ==
  CASE l = <<"word", "*/">> -> "INITIAL"
    [] l = <<"word", "/*">> -> "STATE_COMMENT"
    [] OTHER -> start

\* Mutant: a token is read before the default reductions.
AlwaysNeedsToken == yychar = YYEMPTY

\* yybackup reads a token only in a state that needs one.
NeedsToken == yychar = YYEMPTY /\ yyn # YYPACT_NINF

\* Mutant: a skipped lexeme stays in the buffer.
SkippedKept == IF Skipped(Head(text)) THEN text ELSE Tail(text)

\* The text after the lexeme that was matched.
Rest == Tail(text)

\* One rule of the scanner: it returns a token or goes on.
yylex ==
  /\ Running
  /\ NeedsToken
  /\ IF text = << >>
       THEN yychar' = "T_EOF" /\ UNCHANGED <<text, yy_start, yylval, read>>
       ELSE LET l == Head(text) IN
            /\ text' = Rest
            /\ yy_start' = StartAfter(yy_start, l)
            /\ IF yy_start = "STATE_COMMENT" \/ l = <<"word", "/*">> \/ Skipped(l)
                 THEN UNCHANGED <<yychar, yylval, read>>
                 ELSE /\ yychar' = TokenOf(l)
                      /\ yylval' = ValueOf(l) @@ yylval
                      /\ read' = Append(read, l)
  /\ UNCHANGED <<goal, yyss, yyvs, parse_tree, yyresult>>
-----------------------------------------------------------------------------
\* The entry of yytable for the lookahead, if the state has one.
Entry == yyn + YYTRANSLATE(yychar)
HasEntry ==
  /\ yyn # YYPACT_NINF
  /\ Entry \in 0..YYLAST
  /\ yycheck[Entry] = YYTRANSLATE(yychar)

\* The rule to reduce by; 0 for an error, -1 to shift.
Decision ==
  IF HasEntry THEN IF yytable[Entry] > 0 THEN -1 ELSE -yytable[Entry]
  ELSE yydefact[yystate]

Decided == Running /\ ~NeedsToken

\* yysetstate gives up when the state it has pushed fills the stack.
ResultAt(top) == IF YYINITDEPTH - 1 <= top THEN 2 ELSE -1

\* A slot of the value stack, and the stack after an assignment to one.
Slot(i) == IF i \in DOMAIN yyvs THEN yyvs[i] ELSE SemValue
Stored(i, v) == IF i \in DOMAIN yyvs THEN [yyvs EXCEPT ![i] = v] ELSE Append(yyvs, v)

Shift ==
  /\ Decided
  /\ Decision = -1
  /\ yyss' = Append(yyss, yytable[Entry])
  /\ yyvs' = Stored(Len(yyss), yylval)
  /\ yychar' = YYEMPTY
  /\ yyresult' = ResultAt(Len(yyss))
  /\ UNCHANGED <<goal, text, yy_start, yylval, parse_tree, read>>
-----------------------------------------------------------------------------
(***************************************************************************)
(* The semantic actions, by rule number: the fields of yyval a rule sets.  *)
(* a[i] is the i-th symbol of the rule, v is yyval as copied from a[1].    *)
(***************************************************************************)
StatementAction(n, a) ==
  "sv_node" :>
    CASE n = 11 -> Node("TxnBegin")
      [] n = 12 -> Node("TxnCommit")
      [] n = 13 -> Node("TxnAbort")
      [] n = 14 -> Node("TxnRollback")
      [] n = 15 -> Node("ShowTables")
      [] n = 16 -> TabNode("ShowIndex", a[4].sv_str)
      [] n = 17 -> SetStmt(a[2].sv_setKnobType, a[4].sv_bool)
      [] n = 18 -> CreateTable(a[3].sv_str, a[5].sv_fields)
      [] n = 19 -> TabNode("DropTable", a[3].sv_str)
      [] n = 20 -> TabNode("DescTable", a[2].sv_str)
      [] n = 21 -> IndexNode("CreateIndex", a[3].sv_str, a[5].sv_strs)
      [] n = 22 -> IndexNode("DropIndex", a[3].sv_str, a[5].sv_strs)
      [] n = 23 -> InsertStmt(a[3].sv_str, a[6].sv_vals)
      [] n = 24 -> DeleteStmt(a[3].sv_str, a[4].sv_conds)
      [] n = 25 -> UpdateStmt(a[2].sv_str, a[4].sv_set_clauses, a[5].sv_conds)
      [] n = 26 -> a[1].sv_select_stmt

SelectAction(a) ==
  "sv_select_stmt" :> SelectStmt(a[2].sv_exprs, a[4].sv_strs, a[5].sv_conds,
                                 a[6].sv_groupby, a[7].sv_having_or, a[8].sv_orderby)

FieldAction(n, a, v) ==
  CASE n = 28 -> "sv_fields" :> <<a[1].sv_field>>
    [] n = 29 -> "sv_fields" :> Append(v.sv_fields, a[3].sv_field)
    [] n = 30 -> "sv_strs" :> <<a[1].sv_str>>
    [] n = 31 -> "sv_strs" :> Append(v.sv_strs, a[3].sv_str)
    [] n = 32 -> "sv_exprs" :> <<a[1].sv_col>>
    [] n = 33 -> "sv_exprs" :> Append(a[1].sv_exprs, a[3].sv_col)
    [] n = 34 -> "sv_field" :> ColDef(a[1].sv_str, a[2].sv_type_len)
    [] n = 35 -> "sv_type_len" :> TypeLen("SV_TYPE_INT", "4")
    [] n = 36 -> "sv_type_len" :> TypeLen("SV_TYPE_STRING", a[3].sv_int)
    [] n = 37 -> "sv_type_len" :> TypeLen("SV_TYPE_FLOAT", "4")

ValueAction(n, a, v) ==
  CASE n = 38 -> "sv_vals" :> <<a[1].sv_val>>
    [] n = 39 -> "sv_vals" :> Append(v.sv_vals, a[3].sv_val)
    [] n = 40 -> "sv_val" :> Lit("IntLit", a[1].sv_int)
    [] n = 41 -> "sv_val" :> Lit("FloatLit", a[1].sv_float)
    [] n = 42 -> "sv_val" :> Lit("StringLit", a[1].sv_str)
    [] n = 43 -> "sv_val" :> Lit("BoolLit", a[1].sv_bool)

\* Mutant: a comparison with a subquery takes the operator of the rule after it.
ConditionIn(n, a) ==
  CASE n = 44 -> "sv_cond" :> BinaryExpr(a[1].sv_expr, a[2].sv_comp_op, a[3].sv_expr)
    [] n \in {45, 46} -> "sv_cond" :> BinaryExpr(a[1].sv_expr, "SV_OP_IN",
                                                 SubqueryExpr(a[3].sv_select_stmt))
    [] n = 47 -> "sv_cond" :> BinaryExpr(a[1].sv_expr, "SV_OP_IN", ValueList(a[4].sv_vals))
    [] n = 48 -> "sv_select_stmt" :> a[2].sv_select_stmt

ConditionAction(n, a) ==
  CASE n = 44 -> "sv_cond" :> BinaryExpr(a[1].sv_expr, a[2].sv_comp_op, a[3].sv_expr)
    [] n = 45 -> "sv_cond" :> BinaryExpr(a[1].sv_expr, a[2].sv_comp_op,
                                         SubqueryExpr(a[3].sv_select_stmt))
    [] n = 46 -> "sv_cond" :> BinaryExpr(a[1].sv_expr, "SV_OP_IN",
                                         SubqueryExpr(a[3].sv_select_stmt))
    [] n = 47 -> "sv_cond" :> BinaryExpr(a[1].sv_expr, "SV_OP_IN", ValueList(a[4].sv_vals))
    [] n = 48 -> "sv_select_stmt" :> a[2].sv_select_stmt

ClauseAction(n, a, v) ==
  CASE n = 49 -> "sv_conds" :> << >>
    [] n = 50 -> "sv_conds" :> a[2].sv_conds
    [] n = 51 -> "sv_groupby" :> << >>
    [] n = 52 -> "sv_groupby" :> a[3].sv_exprs
    [] n = 53 -> "sv_having_or" :> << >>
    [] n = 54 -> "sv_having_or" :> a[2].sv_having_or
    [] n = 55 -> "sv_having_or" :> <<a[1].sv_having_and>>
    [] n = 56 -> "sv_having_or" :> Append(a[1].sv_having_or, a[3].sv_having_and)
    [] n = 57 -> "sv_having_and" :> <<a[1].sv_cond>>
    [] n = 58 -> "sv_having_and" :> Append(a[1].sv_having_and, a[3].sv_cond)
    [] n = 59 -> "sv_conds" :> <<a[1].sv_cond>>
    [] n = 60 -> "sv_conds" :> Append(v.sv_conds, a[3].sv_cond)

ExprAction(n, a) ==
  CASE n = 61 -> "sv_col" :> Col(a[1].sv_str, a[3].sv_str)
    [] n = 62 -> "sv_col" :> Col("", a[1].sv_str)
    [] n = 63 -> "sv_exprs" :> <<a[1].sv_expr>>
    [] n = 64 -> "sv_exprs" :> Append(a[1].sv_exprs, a[3].sv_expr)
    [] n = 65 -> "sv_expr" :> a[1].sv_expr
    [] n = 66 -> "sv_expr" :> AliasExpr(a[1].sv_expr, a[3].sv_str)
    [] n \in 67..72 -> "sv_comp_op" :> <<"SV_OP_EQ", "SV_OP_LT", "SV_OP_GT",
                                         "SV_OP_NE", "SV_OP_LE", "SV_OP_GE">>[n - 66]
    [] n = 73 -> "sv_expr" :> a[1].sv_val
    [] n = 74 -> "sv_expr" :> a[1].sv_col
    [] n \in 75..79 -> "sv_expr" :> AggExpr(<<"AGG_SUM", "AGG_COUNT", "AGG_AVG",
                                              "AGG_MIN", "AGG_MAX">>[n - 74], a[3].sv_col)
    [] n = 80 -> "sv_expr" :> AggExpr("AGG_COUNT_STAR", nullptr)

TailAction(n, a, v) ==
  CASE n = 81 -> "sv_set_clauses" :> <<a[1].sv_set_clause>>
    [] n = 82 -> "sv_set_clauses" :> Append(v.sv_set_clauses, a[3].sv_set_clause)
    [] n = 83 -> "sv_set_clause" :> SetClause(a[1].sv_str, a[3].sv_val)
    [] n = 84 -> "sv_exprs" :> << >>
    [] n = 86 -> "sv_strs" :> <<a[1].sv_str>>
    [] n \in {87, 88} -> "sv_strs" :> Append(v.sv_strs, a[3].sv_str)
    [] n = 89 -> "sv_orderby" :> a[3].sv_orderby
    [] n = 90 -> << >>
    [] n = 91 -> "sv_orderby" :> OrderBy(a[1].sv_col, a[2].sv_orderby_dir)
    [] n \in 92..94 -> "sv_orderby_dir" :>
                         <<"OrderBy_ASC", "OrderBy_DESC", "OrderBy_DEFAULT">>[n - 91]
    [] n = 95 -> "sv_setKnobType" :> "EnableNestLoop"
    [] n = 96 -> "sv_setKnobType" :> "EnableSortMerge"

SemanticAction(n, a, v) ==
  CASE n \in 11..26 -> StatementAction(n, a)
    [] n = 27 -> SelectAction(a)
    [] n \in 28..37 -> FieldAction(n, a, v)
    [] n \in 38..43 -> ValueAction(n, a, v)
    [] n \in 44..48 -> ConditionAction(n, a)
    [] n \in 49..60 -> ClauseAction(n, a, v)
    [] n \in 61..80 -> ExprAction(n, a)
    [] n \in 81..96 \ {85} -> TailAction(n, a, v)
    [] OTHER -> << >>
-----------------------------------------------------------------------------
\* Mutant: the column of the nonterminal is not checked.
GotoUnchecked(s, lhs) ==
  LET i == yypgoto[lhs] + s IN
  IF i \in 0..YYLAST THEN yytable[i] ELSE yydefgoto[lhs]

\* The state after reducing to the nonterminal lhs in state s.
Goto(s, lhs) ==
  LET i == yypgoto[lhs] + s IN
  IF i \in 0..YYLAST /\ yycheck[i] = s THEN yytable[i] ELSE yydefgoto[lhs]

Reduce ==
  LET n == Decision
      base == Len(yyss) - 1 - yyr2[n]
      a == [i \in 1..yyr2[n] |-> yyvs[base + i]]
      v == Slot(base + 1)
  IN
  /\ Decided
  /\ n > 5
  /\ yyss' = LET below == SubSeq(yyss, 1, base + 1)
             IN Append(below, Goto(Last(below), yyr1[n] - YYNTOKENS))
  /\ yyvs' = Stored(base + 1, SemanticAction(n, a, v) @@ v)
  /\ yyresult' = ResultAt(base + 1)
  /\ UNCHANGED <<goal, text, yy_start, yychar, yylval, parse_tree, read>>

\* The rules of start accept: stmt ';', HELP, EXIT and T_EOF.
Accept ==
  /\ Decided
  /\ Decision \in 2..5
  /\ parse_tree' = CASE Decision = 2 -> yyvs[Len(yyss) - 2].sv_node
                     [] Decision = 3 -> Node("Help")
                     [] OTHER -> nullptr
  /\ yyresult' = 0
  /\ UNCHANGED <<goal, text, yy_start, yychar, yylval, yyss, yyvs, read>>

\* No rule has an error token: yyerrlab1 pops every state and aborts.
Error ==
  /\ Decided
  /\ Decision = 0
  /\ yyresult' = 1
  /\ yyss' = <<0>>
  /\ UNCHANGED <<goal, text, yy_start, yychar, yylval, yyvs, parse_tree, read>>

Next == yylex \/ Shift \/ Reduce \/ Accept \/ Error

\* yyparse is a loop of one thread.
Spec == Init /\ [][Next]_vars /\ WF_vars(Next)
-----------------------------------------------------------------------------
\* Lexemes that mean the same: both spellings of NEQ, and a join for a comma.
Canonical(l) ==
  CASE l = <<"word", "<>">> -> <<"word", "!=">>
    [] l = <<"word", "JOIN">> -> <<"word", ",">>
    [] OTHER -> l

\* A subquery in what was read has an ORDER BY of its own.
OrderedSubquery ==
  \E i, j \in DOMAIN read : i < j /\ read[i] = <<"word", "ORDER">> /\ read[j] = <<"word", ")">>

(***************************************************************************)
(* yyparse accepts a statement only with the tree that spells it: writing  *)
(* the tree out gives back the lexemes read, whether the text was a        *)
(* statement or was cut, doubled or mixed up (the semantic actions, the    *)
(* default copy of $1, the left recursion of the lists, slots used again). *)
(* Where a subquery is ordered, the empty opt_order_clause leaves          *)
(* in sv_orderby what the slot had before, and a select without an order   *)
(* that is reduced later can take over the order of the subquery.          *)
(***************************************************************************)
TreeSpellsInput ==
  yyresult = 0 /\ parse_tree # nullptr /\ ~OrderedSubquery =>
    StatementText(parse_tree) = [i \in DOMAIN read |-> Canonical(read[i])]

RECURSIVE Nesting(_)

\* How deep the subqueries of a tree are nested.
Nesting(s) ==
  LET conds == (IF "conds" \in DOMAIN s THEN Range(s.conds) ELSE {})
                 \cup (IF "having" \in DOMAIN s THEN UNION {Range(h) : h \in Range(s.having)}
                       ELSE {})
      subqueries == {c.rhs.query : c \in {d \in conds : d.rhs.node = "SubqueryExpr"}}
  IN IF subqueries = {} THEN 0
     ELSE 1 + CHOOSE n \in {Nesting(q) : q \in subqueries} :
                \A q \in subqueries : Nesting(q) <= n

(***************************************************************************)
(* Every statement of the grammar is accepted, as long as its subqueries   *)
(* are not nested too deep: a select takes at most 14 slots before the     *)
(* next one starts, and 18 at its own deepest point (yysetstate gives up   *)
(* on a full stack, since a SemValue cannot be relocated).                 *)
(***************************************************************************)
StatementsAccepted ==
  ~Running /\ goal # nullptr /\ 14 * Nesting(goal) + 18 < YYINITDEPTH - 1 => yyresult = 0

(***************************************************************************)
(* A statement that is accepted leaves the scanner ready for the next one  *)
(* of any session: outside of a comment, with nothing read beyond the      *)
(* semicolon.  yy_start is a global no one resets; a text that ends inside *)
(* a comment is never accepted as a statement.                             *)
(***************************************************************************)
ScannerReady ==
  yyresult = 0 /\ parse_tree # nullptr =>
    yy_start = "INITIAL" /\ yychar = YYEMPTY /\ Last(read)[2] \in {";", "HELP"}

(***************************************************************************)
(* yyparse returns: no cycle of default reductions, and no lexeme the      *)
(* scanner matches without moving on.                                      *)
(***************************************************************************)
ParserReturns == <>~Running
=============================================================================
