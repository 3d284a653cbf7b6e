---------------------------- MODULE ParserTables ----------------------------
(***************************************************************************)
(* The tables Bison generated from yacc.y: 189 states, 98 rules, 64        *)
(* terminals and 39 nonterminals.  An array of the code is a function with *)
(* domain 0 .. n-1 here.                                                   *)
(***************************************************************************)
EXTENDS Integers, Sequences

YYLAST == 191
YYNTOKENS == 64
YYPACT_NINF == -98

FromZero(s) == [i \in 0..Len(s)-1 |-> s[i + 1]]

\* The symbols in the order of their numbers, the terminals first.
yytname == <<
  "end of file", "error", "invalid token", "SHOW", "TABLES", "CREATE",
  "TABLE", "DROP", "DESC", "INSERT", "INTO", "VALUES", "DELETE", "FROM",
  "ASC", "ORDER", "BY", "AS", "WHERE", "UPDATE", "SET", "SELECT", "INT",
  "CHAR", "FLOAT", "INDEX", "AND", "IN", "OR", "JOIN", "EXIT", "HELP",
  "TXN_BEGIN", "TXN_COMMIT", "TXN_ABORT", "TXN_ROLLBACK", "ORDER_BY",
  "ENABLE_NESTLOOP", "ENABLE_SORTMERGE", "GROUP", "HAVING", "COUNT", "SUM",
  "AVG", "MIN", "MAX", "LEQ", "NEQ", "GEQ", "T_EOF", "IDENTIFIER",
  "VALUE_STRING", "VALUE_INT", "VALUE_FLOAT", "VALUE_BOOL", ";", "=", "(",
  ")", ",", ".", "<", ">", "*", "$accept", "start", "stmt", "txnStmt",
  "dbStmt", "setStmt", "ddl", "dml", "selectStmt", "fieldList",
  "colNameList", "column_list", "field", "type", "valueList", "value",
  "condition", "subquery", "optWhereClause", "optGroupByClause",
  "optHavingClause", "havingOrClause", "havingAndClause", "whereClause",
  "col", "selectList", "selectItem", "op", "expr", "setClauses", "setClause",
  "selector", "tableList", "opt_order_clause", "order_clause",
  "opt_asc_desc", "set_knob_type", "tbName", "colName" >>

\* The number of a token.
YYTRANSLATE(token) ==
  (CHOOSE i \in 1..YYNTOKENS : yytname[i] = token) - 1

\* yypact[state]: where the row of a state starts in yytable.
yypact == FromZero(<<
  74, 8, 7, 12, -11, 25, 46, -11, -18, 84, -98, -98, -98, -98, -98, -98, -98,
  54, 16, -98, -98, -98, -98, -98, -98, -98, 51, -11, -11, -11, -11, -98,
  -98, -11, -11, 58, -98, -98, 24, 40, 45, 53, 55, 57, 32, -98, -98, -98,
  -98, -98, -98, -98, 42, -98, 86, 102, 59, -98, -98, -98, -11, 63, 64, -98,
  65, 100, 106, 80, 77, -29, 82, 82, 82, 82, 115, 80, -11, 80, -98, 80, 80,
  80, 87, 115, -98, -98, -7, -98, 89, -98, 88, 95, 96, 103, 104, 105, -98,
  -98, -15, -98, -98, -36, -98, 44, -8, -98, 11, 9, -98, 138, 28, 80, -98, 9,
  -98, -98, -98, -98, -98, -98, -11, -11, 131, -98, 80, -98, 114, -98, -98,
  -98, 80, -98, 29, -98, 115, 116, -98, -98, -98, -98, -98, -98, 98, -98,
  -98, -98, -98, 156, 134, -98, 123, -98, -98, 9, -98, -6, -98, 155, -98,
  -98, 82, 115, 162, 120, -98, 121, 41, 122, -98, -98, 152, 157, 166, -98,
  -98, -98, -98, 82, 115, 115, 82, -98, 157, -98, 35, -98, -98, -98, -98 >>)

\* yydefact[state]: the rule a state reduces by default; 0 is an error.
yydefact == FromZero(<<
  0, 0, 0, 0, 0, 0, 0, 0, 0, 0, 4, 3, 11, 12, 13, 14, 5, 0, 0, 9, 6, 10, 7,
  8, 26, 15, 0, 0, 0, 0, 0, 97, 20, 0, 0, 0, 95, 96, 0, 0, 0, 0, 0, 0, 98,
  42, 40, 41, 43, 84, 73, 74, 85, 63, 65, 0, 0, 62, 1, 2, 0, 0, 0, 19, 0, 0,
  49, 0, 0, 0, 0, 0, 0, 0, 0, 0, 0, 0, 16, 0, 0, 0, 0, 0, 24, 98, 49, 81, 0,
  17, 0, 0, 0, 0, 0, 0, 64, 66, 49, 86, 61, 0, 28, 0, 0, 30, 0, 0, 59, 50, 0,
  0, 25, 0, 80, 76, 75, 77, 78, 79, 0, 0, 51, 18, 0, 35, 0, 37, 34, 21, 0,
  22, 0, 38, 0, 0, 71, 70, 72, 67, 68, 69, 0, 82, 83, 88, 87, 0, 53, 29, 0,
  31, 23, 0, 60, 0, 46, 0, 45, 44, 0, 0, 90, 0, 39, 0, 0, 52, 32, 57, 54, 55,
  0, 27, 36, 48, 47, 0, 0, 0, 0, 33, 56, 58, 94, 89, 93, 92, 91 >>)

\* yypgoto[nonterminal]: where its column starts in yytable.
yypgoto == FromZero(<<
  -98, -98, -98, -98, -98, -98, -98, -98, 184, -98, 107, -98, 61, -98, 31,
  -97, -81, 47, -69, -98, -98, -98, 13, -98, -64, -98, 113, -98, -9, -98, 79,
  -98, -98, -98, -98, -98, -98, -3, -39 >>)

\* yydefgoto[nonterminal]: the state it usually leads to.
yydefgoto == FromZero(<<
  0, 17, 18, 19, 20, 21, 22, 23, 165, 101, 104, 167, 102, 128, 132, 50, 169,
  156, 84, 148, 162, 170, 171, 109, 51, 52, 53, 142, 110, 86, 87, 55, 98,
  173, 185, 188, 38, 56, 57 >>)

\* yytable: a state to shift to, or minus a rule to reduce.
yytable == FromZero(<<
  54, 32, 108, 83, 35, 91, 92, 93, 94, 95, 133, 83, 25, 27, 120, 9, 144, 112,
  29, 36, 37, 44, 123, 124, 61, 62, 63, 64, 88, 122, 65, 66, 28, 26, 90, 33,
  97, 30, 100, 31, 103, 105, 105, 186, 121, 45, 46, 47, 48, 187, 129, 130,
  111, 154, 58, 135, 164, 78, 133, 34, 45, 46, 47, 48, 60, 54, 125, 126, 127,
  131, 130, 59, 88, 99, 136, 137, 138, 1, 67, 2, 68, 3, 4, 5, 139, 103, 6,
  152, 153, 140, 141, 151, -97, 7, 8, 9, 168, 69, 183, 176, 153, 74, 70, 75,
  10, 11, 12, 13, 14, 15, 71, 82, 72, 181, 73, 76, 184, 145, 146, 77, 79, 80,
  81, 16, 83, 39, 40, 41, 42, 43, 85, 89, 44, 159, 44, 45, 46, 47, 48, 39,
  40, 41, 42, 43, 107, 113, 114, 49, 44, 45, 46, 47, 48, 115, 116, 157, 39,
  40, 41, 42, 43, 117, 118, 119, 134, 44, 45, 46, 47, 48, 147, 150, 160, 155,
  161, 163, 9, 172, 174, 175, 178, 177, 180, 179, 24, 149, 166, 96, 106, 158,
  143, 182 >>)

\* yycheck: the token, or the state, an entry of yytable is for.
yycheck == FromZero(<<
  9, 4, 83, 18, 7, 69, 70, 71, 72, 73, 107, 18, 4, 6, 29, 21, 113, 86, 6, 37,
  38, 50, 58, 59, 27, 28, 29, 30, 67, 98, 33, 34, 25, 25, 63, 10, 75, 25, 77,
  50, 79, 80, 81, 8, 59, 51, 52, 53, 54, 14, 58, 59, 59, 134, 0, 27, 153, 60,
  155, 13, 51, 52, 53, 54, 13, 74, 22, 23, 24, 58, 59, 55, 111, 76, 46, 47,
  48, 3, 20, 5, 56, 7, 8, 9, 56, 124, 12, 58, 59, 61, 62, 130, 60, 19, 20,
  21, 160, 57, 179, 58, 59, 59, 57, 17, 30, 31, 32, 33, 34, 35, 57, 11, 57,
  177, 57, 13, 180, 120, 121, 60, 57, 57, 57, 49, 18, 41, 42, 43, 44, 45, 50,
  54, 50, 142, 50, 51, 52, 53, 54, 41, 42, 43, 44, 45, 57, 56, 58, 63, 50,
  51, 52, 53, 54, 58, 58, 57, 41, 42, 43, 44, 45, 58, 58, 58, 26, 50, 51, 52,
  53, 54, 39, 57, 16, 57, 40, 52, 21, 15, 58, 58, 28, 59, 16, 26, 0, 124,
  155, 74, 81, 142, 111, 178 >>)

\* yyr1[rule]: the symbol a rule defines.
yyr1 == FromZero(<<
  0, 64, 65, 65, 65, 65, 66, 66, 66, 66, 66, 67, 67, 67, 67, 68, 68, 69, 70,
  70, 70, 70, 70, 71, 71, 71, 71, 72, 73, 73, 74, 74, 75, 75, 76, 77, 77, 77,
  78, 78, 79, 79, 79, 79, 80, 80, 80, 80, 81, 82, 82, 83, 83, 84, 84, 85, 85,
  86, 86, 87, 87, 88, 88, 89, 89, 90, 90, 91, 91, 91, 91, 91, 91, 92, 92, 92,
  92, 92, 92, 92, 92, 93, 93, 94, 95, 95, 96, 96, 96, 97, 97, 98, 99, 99, 99,
  100, 100, 101, 102 >>)

\* yyr2[rule]: the number of symbols a rule replaces.
yyr2 == FromZero(<<
  0, 2, 2, 1, 1, 1, 1, 1, 1, 1, 1, 1, 1, 1, 1, 2, 4, 4, 6, 3, 2, 6, 6, 7, 4,
  5, 1, 8, 1, 3, 1, 3, 1, 3, 2, 1, 4, 1, 1, 3, 1, 1, 1, 1, 3, 3, 3, 5, 3, 0,
  2, 0, 3, 0, 2, 1, 3, 1, 3, 1, 3, 3, 1, 1, 3, 1, 3, 1, 1, 1, 1, 1, 1, 1, 1,
  4, 4, 4, 4, 4, 4, 1, 3, 3, 1, 1, 1, 3, 3, 3, 0, 2, 1, 1, 0, 1, 1, 1, 1 >>)
=============================================================================
