---------------------------- MODULE ServerProofs ----------------------------
(***************************************************************************)
(* Proofs about Server, for any number of connections, of requests, and    *)
(* for every statement.  The inductive invariant says of each mutex what   *)
(* it protects while it is locked.                                         *)
(***************************************************************************)
EXTENDS Server, TLAPS

\* sockfd_mutex: it is locked from before accept until the new thread, and
\* there is at most one such thread, has copied sockfd.
SockInv ==
  /\ mpc \in {"accept", "create", "relock"} => sockfd_mutex
  /\ mpc = "create" => sockfd \in Client /\ pc[sockfd] = "none"
  /\ \A c \in Client :
       /\ pc[c] = "start" => sockfd = c /\ sockfd_mutex /\ mpc \in {"lock", "closing"}
       /\ pc[c] \notin {"none", "start"} => fd[c] = c

\* buffer_mutex: its holder owns the scanner and the tree.
ScanInv ==
  \A c \in Client :
    /\ pc[c] \in {"parse", "analyze", "unlock"} => buffer_mutex = c /\ yy_buffer = c
    /\ pc[c] \in {"begin", "lock", "parse", "analyze", "unlock", "run"} => request[c] \in Request
    /\ pc[c] = "analyze" => parse_tree \in Node /\ parse_tree = Statement(request[c])
    /\ pc[c] = "run" => query[c] \in Node /\ query[c] = Statement(request[c])

\* The transaction of a thread is its own, and the only unfinished one.
TxnInv ==
  \A c \in Client :
    /\ txn_id[c] # INVALID_TXN_ID =>
         txn_id[c] \in DOMAIN txns /\ txns[txn_id[c]].thread = c
    /\ pc[c] \in {"lock", "parse", "analyze", "unlock", "run"} =>
         txn_id[c] # INVALID_TXN_ID /\ txns[txn_id[c]].state = "GROWING"
    /\ pc[c] \in {"write", "commit"} => txn_id[c] # INVALID_TXN_ID
    /\ \A n \in DOMAIN txns :
         txns[n].thread = c /\ txns[n].state = "GROWING" => n = txn_id[c]

IInv == TypeOK /\ SockInv /\ ScanInv /\ TxnInv

\* The chain of plan_query, start and run ends in the right function for every
\* statement of the grammar.
LEMMA DispatchIsRight == \A node \in Node : FunctionFor(node) = Meaning[node]
<1> SUFFICES ASSUME NEW node \in Node
             PROVE  FunctionFor(node) = Meaning[node]
  OBVIOUS
<1>1. CASE node \in Utility
  <2>1. plan_query(node) = Plan("OtherPlan", OtherTag[node])
    BY <1>1 DEF plan_query
  <2>2. FunctionFor(node) = run_cmd_utility(Plan("OtherPlan", OtherTag[node]))
    BY <2>1 DEF FunctionFor, start, run, Plan
  <2>3. QED
    BY <1>1, <2>2 DEF Utility, OtherTag, run_cmd_utility, Plan, Meaning
<1>2. CASE node \in Ddl
  <2>1. plan_query(node) = Plan("DDLPlan", DdlTag[node])
    BY <1>2 DEF plan_query, do_planner, Utility, Ddl
  <2>2. FunctionFor(node) = run_mutli_query(Plan("DDLPlan", DdlTag[node]))
    BY <2>1 DEF FunctionFor, start, run, Plan
  <2>3. QED
    BY <1>2, <2>2 DEF Ddl, DdlTag, run_mutli_query, Plan, Meaning
<1>3. CASE node \in Dml
  <2>1. plan_query(node) = Plan("DMLPlan", DmlTag[node])
    BY <1>3 DEF plan_query, do_planner, Utility, Ddl, Dml
  <2>2. CASE node = "SelectStmt"
    BY <2>1, <2>2 DEF FunctionFor, start, run, DmlTag, Plan, Meaning
  <2>3. CASE node \in {"InsertStmt", "DeleteStmt", "UpdateStmt"}
    <3>1. FunctionFor(node) = run_dml(Plan("DMLPlan", DmlTag[node]))
      BY <2>1, <2>3 DEF FunctionFor, start, run, DmlTag, Plan
    <3>2. QED
      BY <2>3, <3>1 DEF DmlTag, run_dml, Plan, Meaning
  <2>4. QED
    BY <1>3, <2>2, <2>3 DEF Dml
<1>4. CASE node = "SetStmt"
  BY <1>4 DEF FunctionFor, plan_query, start, run, run_cmd_utility, Plan, Meaning, Utility
<1>5. QED
  BY <1>1, <1>2, <1>3, <1>4 DEF Node







\* The types, and what sockfd_mutex protects, are kept by every step.
LEMMA TypeStep == IInv /\ [Next]_vars => TypeOK' /\ SockInv'
<1> SUFFICES ASSUME IInv, [Next]_vars
             PROVE  TypeOK' /\ SockInv'
  OBVIOUS
<1> DEFINE Goal == TypeOK' /\ SockInv'
<1> USE ServerAssumption DEF IInv, INVALID_TXN_ID, nullptr, At, Goto, Up
<1>1. ASSUME NEW c \in Client, main_accept(c) PROVE Goal
  <2>1. TypeOK'
    BY <1>1 DEF main_accept, TypeOK, main_vars, scan_vars, txn_vars
  <2>2. SockInv'
    BY <1>1 DEF main_accept, TypeOK, SockInv, main_vars
  <2>3. QED
    BY <2>1, <2>2
<1>2. CASE main_lock
  <2>1. TypeOK'
    BY <1>2 DEF main_lock, LockSockfd, TypeOK, main_vars, scan_vars, txn_vars
  <2>2. SockInv'
    BY <1>2 DEF main_lock, LockSockfd, TypeOK, SockInv, main_vars
  <2>3. QED
    BY <2>1, <2>2
<1>3. CASE main_create
  <2>1. TypeOK'
    BY <1>3 DEF main_create, TypeOK, main_vars, scan_vars, txn_vars
  <2>2. SockInv'
    BY <1>3 DEF main_create, TypeOK, SockInv, main_vars
  <2>3. QED
    BY <2>1, <2>2
<1>4. CASE main_close
  <2>1. TypeOK'
    <3>1. txns' = [n \in {} |-> nullptr] /\ next_txn_id' = 0
      BY <1>4 DEF main_close, handler_crash, Ends
    <3>2. 0..(next_txn_id' - 1) = {}
      BY <3>1
    <3>3. txns' \in [0..(next_txn_id' - 1) -> Transaction]
      BY <3>1, <3>2
    <3>4. QED
      BY <1>4, <3>3 DEF main_close, Ends, TypeOK, main_vars, scan_vars, txn_vars
  <2>2. SockInv'
    BY <1>4 DEF main_close, Ends, TypeOK, SockInv, main_vars
  <2>3. QED
    BY <2>1, <2>2
<1>5. CASE main_accept_error
  <2>1. TypeOK'
    BY <1>5 DEF main_accept_error, TypeOK, main_vars, scan_vars, txn_vars
  <2>2. SockInv'
    BY <1>5 DEF main_accept_error, TypeOK, SockInv, main_vars
  <2>3. QED
    BY <2>1, <2>2
<1>6. CASE main_break
  <2>1. TypeOK'
    BY <1>6 DEF main_break, TypeOK, main_vars, scan_vars, txn_vars
  <2>2. SockInv'
    BY <1>6 DEF main_break, TypeOK, SockInv, main_vars
  <2>3. QED
    BY <2>1, <2>2
<1>7. ASSUME NEW c \in Client, handler_start(c) PROVE Goal
  <2>1. TypeOK'
    BY <1>7 DEF handler_start, TypeOK, main_vars, scan_vars, txn_vars
  <2>2. SockInv'
    BY <1>7 DEF handler_start, TypeOK, SockInv, main_vars
  <2>3. QED
    BY <2>1, <2>2
<1>8. ASSUME NEW c \in Client, SetTransaction(c) PROVE Goal
  <2>1. TypeOK'
    <3>1. txns \in [0..(next_txn_id - 1) -> Transaction] /\ next_txn_id \in Nat
      BY DEF TypeOK
    <3>2. CASE NeedsTxn(c)
      <4> DEFINE t == [state |-> "GROWING", txn_mode |-> FALSE, thread |-> c]
      <4>1. t \in Transaction
        BY DEF Transaction
      <4> HIDE DEF t
      <4>2. /\ txns' = [n \in DOMAIN txns \cup {next_txn_id} |->
                           IF n = next_txn_id THEN t ELSE txns[n]]
            /\ next_txn_id' = next_txn_id + 1
            /\ txn_id' = [txn_id EXCEPT ![c] = next_txn_id]
        BY <1>8, <3>2 DEF SetTransaction, t
      <4>3. 0..(next_txn_id' - 1) = DOMAIN txns \cup {next_txn_id}
        BY <3>1, <4>2
      <4>4. \A n \in DOMAIN txns : txns[n] \in Transaction
        BY <3>1
      <4>5. txns' \in [0..(next_txn_id' - 1) -> Transaction]
        BY <4>1, <4>2, <4>3, <4>4
      <4>6. QED
        BY <1>8, <3>1, <4>2, <4>5 DEF SetTransaction, TypeOK, main_vars, scan_vars
    <3>3. CASE ~NeedsTxn(c)
      BY <1>8, <3>3 DEF SetTransaction, TypeOK, main_vars, scan_vars, txn_vars
    <3>4. QED
      BY <3>2, <3>3
  <2>2. SockInv'
    BY <1>8 DEF SetTransaction, TypeOK, SockInv, main_vars
  <2>3. QED
    BY <2>1, <2>2
<1>9. ASSUME NEW c \in Client, handler_scan(c) PROVE Goal
  <2>1. TypeOK'
    BY <1>9 DEF handler_scan, TypeOK, main_vars, scan_vars, txn_vars, BufferFree
  <2>2. SockInv'
    BY <1>9 DEF handler_scan, TypeOK, SockInv, main_vars
  <2>3. QED
    BY <2>1, <2>2
<1>10. ASSUME NEW c \in Client, handler_parse(c) PROVE Goal
  <2>1. TypeOK'
    BY <1>10 DEF handler_parse, TypeOK, main_vars, scan_vars, txn_vars, ScanInv, Statement, Node, Utility
  <2>2. SockInv'
    BY <1>10 DEF handler_parse, TypeOK, SockInv, main_vars
  <2>3. QED
    BY <2>1, <2>2
<1>11. ASSUME NEW c \in Client, handler_analyze(c) PROVE Goal
  <2>1. TypeOK'
    BY <1>11 DEF handler_analyze, yy_delete_buffer, TypeOK, main_vars, scan_vars, txn_vars
  <2>2. SockInv'
    BY <1>11 DEF handler_analyze, yy_delete_buffer, TypeOK, SockInv, main_vars
  <2>3. QED
    BY <2>1, <2>2
<1>12. ASSUME NEW c \in Client, handler_unlock(c) PROVE Goal
  <2>1. TypeOK'
    BY <1>12 DEF handler_unlock, yy_delete_buffer, TypeOK, main_vars, scan_vars, txn_vars
  <2>2. SockInv'
    BY <1>12 DEF handler_unlock, yy_delete_buffer, TypeOK, SockInv, main_vars
  <2>3. QED
    BY <2>1, <2>2
<1>13. ASSUME NEW c \in Client, run_utility(c) PROVE Goal
  <2>1. TypeOK'
    <3>1. \A t \in Transaction :
            /\ [t EXCEPT !.state = "COMMITTED"] \in Transaction
            /\ [t EXCEPT !.state = "ABORTED"] \in Transaction
            /\ [t EXCEPT !.txn_mode = TRUE] \in Transaction
      BY DEF Transaction
    <3>2. txns \in [0..(next_txn_id - 1) -> Transaction] /\ next_txn_id' = next_txn_id
      BY <1>13 DEF run_utility, handler_commit, TypeOK
    <3>3. txns' \in [0..(next_txn_id' - 1) -> Transaction]
      BY <1>13, <3>1, <3>2 DEF run_utility, handler_commit, SetState
    <3>4. QED
      BY <1>13, <3>3 DEF run_utility, SetState, TypeOK, main_vars, scan_vars, txn_vars
  <2>2. SockInv'
    BY <1>13 DEF run_utility, SetState, TypeOK, SockInv, main_vars
  <2>3. QED
    BY <2>1, <2>2
<1>14. ASSUME NEW c \in Client, run_statement(c) PROVE Goal
  <2>1. TypeOK'
    BY <1>14 DEF run_statement, TypeOK, main_vars, scan_vars, txn_vars
  <2>2. SockInv'
    BY <1>14 DEF run_statement, TypeOK, SockInv, main_vars
  <2>3. QED
    BY <2>1, <2>2
<1>15. ASSUME NEW c \in Client, handler_write(c) PROVE Goal
  <2>1. TypeOK'
    BY <1>15 DEF handler_write, TypeOK, main_vars, scan_vars, txn_vars
  <2>2. SockInv'
    BY <1>15 DEF handler_write, TypeOK, SockInv, main_vars
  <2>3. QED
    BY <2>1, <2>2
<1>16. ASSUME NEW c \in Client, handler_commit(c) PROVE Goal
  <2>1. TypeOK'
    <3>1. \A t \in Transaction : [t EXCEPT !.state = "COMMITTED"] \in Transaction
      BY DEF Transaction
    <3>2. txns \in [0..(next_txn_id - 1) -> Transaction] /\ next_txn_id' = next_txn_id
      BY <1>16 DEF handler_commit, TypeOK
    <3>3. \/ txns' = [txns EXCEPT ![txn_id[c]] = [@ EXCEPT !.state = "COMMITTED"]]
          \/ txns' = txns
      BY <1>16 DEF handler_commit, SetState
    <3>4. txns' \in [0..(next_txn_id' - 1) -> Transaction]
      BY <3>1, <3>2, <3>3
    <3>5. QED
      BY <1>16, <3>4 DEF handler_commit, SetState, TypeOK, main_vars, scan_vars, txn_vars
  <2>2. SockInv'
    BY <1>16 DEF handler_commit, SetState, TypeOK, SockInv, main_vars
  <2>3. QED
    BY <2>1, <2>2
<1>17. ASSUME NEW c \in Client, handler_read(c) PROVE Goal
  <2>1. TypeOK'
    BY <1>17 DEF handler_read, TypeOK, main_vars, scan_vars, txn_vars
  <2>2. SockInv'
    BY <1>17 DEF handler_read, TypeOK, SockInv, main_vars
  <2>3. QED
    BY <2>1, <2>2
<1>18. ASSUME NEW c \in Client, handler_exit(c) PROVE Goal
  <2>1. TypeOK'
    BY <1>18 DEF handler_exit, TypeOK, main_vars, scan_vars, txn_vars
  <2>2. SockInv'
    BY <1>18 DEF handler_exit, TypeOK, SockInv, main_vars
  <2>3. QED
    BY <2>1, <2>2
<1>19. ASSUME NEW c \in Client, handler_crash(c) PROVE Goal
  <2>1. TypeOK'
    <3>1. txns' = [n \in {} |-> nullptr] /\ next_txn_id' = 0
      BY <1>19 DEF main_close, handler_crash, Ends
    <3>2. 0..(next_txn_id' - 1) = {}
      BY <3>1
    <3>3. txns' \in [0..(next_txn_id' - 1) -> Transaction]
      BY <3>1, <3>2
    <3>4. QED
      BY <1>19, <3>3 DEF handler_crash, Ends, TypeOK, main_vars, scan_vars, txn_vars
  <2>2. SockInv'
    BY <1>19 DEF handler_crash, Ends, TypeOK, SockInv, main_vars
  <2>3. QED
    BY <2>1, <2>2
<1>20. CASE UNCHANGED vars
  <2>1. TypeOK'
    BY <1>20 DEF vars, TypeOK
  <2>2. SockInv'
    BY <1>20 DEF vars, TypeOK, SockInv
  <2>3. QED
    BY <2>1, <2>2
<1>21. QED
  BY <1>1, <1>2, <1>3, <1>4, <1>5, <1>6, <1>7, <1>8, <1>9, <1>10, <1>11, <1>12, <1>13, <1>14, <1>15, <1>16, <1>17, <1>18, <1>19, <1>20
  DEF Next, main, Faults, Serve

\* The holder of buffer_mutex keeps the scanner and the tree to itself.
LEMMA ScanStep == IInv /\ [Next]_vars => ScanInv'
<1> SUFFICES ASSUME IInv, [Next]_vars
             PROVE  ScanInv'
  OBVIOUS
<1> DEFINE Goal == ScanInv'
<1> USE ServerAssumption DEF IInv, At, Goto, Up
<1>1. ASSUME NEW c \in Client, main_accept(c) PROVE Goal
  BY <1>1 DEF main_accept, TypeOK, ScanInv, scan_vars
<1>2. CASE main_lock
  BY <1>2 DEF main_lock, TypeOK, ScanInv, scan_vars
<1>3. CASE main_create
  BY <1>3 DEF main_create, SockInv, TypeOK, ScanInv, scan_vars
<1>4. CASE main_close
  BY <1>4 DEF main_close, Ends, TypeOK, ScanInv, scan_vars
<1>5. CASE main_accept_error
  BY <1>5 DEF main_accept_error, TypeOK, ScanInv, scan_vars
<1>6. CASE main_break
  BY <1>6 DEF main_break, TypeOK, ScanInv, scan_vars
<1>7. ASSUME NEW c \in Client, handler_start(c) PROVE Goal
  BY <1>7 DEF handler_start, TypeOK, ScanInv, scan_vars
<1>8. ASSUME NEW c \in Client, SetTransaction(c) PROVE Goal
  BY <1>8 DEF SetTransaction, TypeOK, ScanInv, scan_vars
<1>9. ASSUME NEW c \in Client, handler_scan(c) PROVE Goal
  BY <1>9 DEF handler_scan, BufferFree, TypeOK, ScanInv, scan_vars
<1>10. ASSUME NEW c \in Client, handler_parse(c) PROVE Goal
  BY <1>10 DEF handler_parse, Statement, Node, Utility, InComment, TypeOK, ScanInv, scan_vars
<1>11. ASSUME NEW c \in Client, handler_analyze(c) PROVE Goal
  BY <1>11 DEF handler_analyze, yy_delete_buffer, TypeOK, ScanInv, scan_vars
<1>12. ASSUME NEW c \in Client, handler_unlock(c) PROVE Goal
  BY <1>12 DEF handler_unlock, yy_delete_buffer, TypeOK, ScanInv, scan_vars
<1>13. ASSUME NEW c \in Client, run_utility(c) PROVE Goal
  BY <1>13 DEF run_utility, TypeOK, ScanInv, scan_vars
<1>14. ASSUME NEW c \in Client, run_statement(c) PROVE Goal
  BY <1>14 DEF run_statement, TypeOK, ScanInv, scan_vars
<1>15. ASSUME NEW c \in Client, handler_write(c) PROVE Goal
  BY <1>15 DEF handler_write, TypeOK, ScanInv, scan_vars
<1>16. ASSUME NEW c \in Client, handler_commit(c) PROVE Goal
  BY <1>16 DEF handler_commit, TypeOK, ScanInv, scan_vars
<1>17. ASSUME NEW c \in Client, handler_read(c) PROVE Goal
  BY <1>17 DEF handler_read, TypeOK, ScanInv, scan_vars
<1>18. ASSUME NEW c \in Client, handler_exit(c) PROVE Goal
  BY <1>18 DEF handler_exit, TypeOK, ScanInv, scan_vars
<1>19. ASSUME NEW c \in Client, handler_crash(c) PROVE Goal
  BY <1>19 DEF handler_crash, Ends, TypeOK, ScanInv, scan_vars
<1>20. CASE UNCHANGED vars
  BY <1>20 DEF vars, TypeOK, ScanInv
<1>21. QED
  BY <1>1, <1>2, <1>3, <1>4, <1>5, <1>6, <1>7, <1>8, <1>9, <1>10, <1>11, <1>12, <1>13, <1>14, <1>15, <1>16, <1>17, <1>18, <1>19, <1>20
  DEF Next, main, Faults, Serve

\* Every thread keeps its transaction to itself.
LEMMA TxnStep == IInv /\ [Next]_vars => TxnInv'
<1> SUFFICES ASSUME IInv, [Next]_vars
             PROVE  TxnInv'
  OBVIOUS
<1> DEFINE Goal == TxnInv'
<1> USE DEF IInv, INVALID_TXN_ID, At, Goto, Up
<1>1. ASSUME NEW c \in Client, main_accept(c) PROVE Goal
  BY <1>1 DEF main_accept, TypeOK, TxnInv, txn_vars
<1>2. CASE main_lock
  BY <1>2 DEF main_lock, TypeOK, TxnInv, txn_vars
<1>3. CASE main_create
  BY <1>3 DEF main_create, SockInv, TypeOK, TxnInv, txn_vars
<1>4. CASE main_close
  BY <1>4 DEF main_close, Ends, TypeOK, TxnInv, txn_vars
<1>5. CASE main_accept_error
  BY <1>5 DEF main_accept_error, TypeOK, TxnInv, txn_vars
<1>6. CASE main_break
  BY <1>6 DEF main_break, TypeOK, TxnInv, txn_vars
<1>7. ASSUME NEW c \in Client, handler_start(c) PROVE Goal
  BY <1>7 DEF handler_start, TypeOK, TxnInv, txn_vars
<1>8. ASSUME NEW c \in Client, SetTransaction(c) PROVE Goal
  <2>1. txns \in [0..(next_txn_id - 1) -> Transaction] /\ next_txn_id \in Nat
    BY DEF TypeOK
  <2>2. \A d \in Client : txn_id[d] \in Nat \cup {-1}
    BY DEF TypeOK
  <2>3. CASE NeedsTxn(c)
    <3>1. /\ next_txn_id \notin DOMAIN txns
          /\ next_txn_id # -1
          /\ DOMAIN txns' = DOMAIN txns \cup {next_txn_id}
          /\ \A n \in DOMAIN txns : txns'[n] = txns[n]
          /\ txns'[next_txn_id].thread = c
          /\ txns'[next_txn_id].state = "GROWING"
      BY <1>8, <2>1, <2>3 DEF SetTransaction
    <3>2. /\ txn_id'[c] = next_txn_id
          /\ pc'[c] = "lock"
          /\ \A d \in Client : d # c => pc'[d] = pc[d] /\ txn_id'[d] = txn_id[d]
      BY <1>8, <2>3 DEF SetTransaction, TypeOK
    <3>3. ~ \E n \in DOMAIN txns : txns[n].thread = c /\ txns[n].state = "GROWING"
      BY <2>1, <2>3 DEF NeedsTxn, Finished, TxnInv
    <3>4. QED
      BY <3>1, <3>2, <3>3 DEF TxnInv
  <2>4. CASE ~NeedsTxn(c)
    <3>1. txn_id[c] # -1 /\ txns[txn_id[c]].state = "GROWING"
      <4>1. txn_id[c] # -1 /\ txns[txn_id[c]] \in Transaction
        BY <2>1, <2>4 DEF NeedsTxn, TxnInv
      <4>2. QED
        BY <2>4, <4>1 DEF NeedsTxn, Finished, Transaction
    <3>2. QED
      BY <1>8, <2>4, <3>1 DEF SetTransaction, TypeOK, TxnInv, txn_vars
  <2>5. QED
    BY <2>3, <2>4
<1>9. ASSUME NEW c \in Client, handler_scan(c) PROVE Goal
  BY <1>9 DEF handler_scan, TypeOK, TxnInv, txn_vars
<1>10. ASSUME NEW c \in Client, handler_parse(c) PROVE Goal
  BY <1>10 DEF handler_parse, TypeOK, TxnInv, txn_vars
<1>11. ASSUME NEW c \in Client, handler_analyze(c) PROVE Goal
  BY <1>11 DEF handler_analyze, TypeOK, TxnInv, txn_vars
<1>12. ASSUME NEW c \in Client, handler_unlock(c) PROVE Goal
  BY <1>12 DEF handler_unlock, TypeOK, TxnInv, txn_vars
<1>13. ASSUME NEW c \in Client, run_utility(c) PROVE Goal
  <2>1. /\ txns \in [DOMAIN txns -> Transaction]
        /\ txn_id[c] \in DOMAIN txns
        /\ txn_id[c] # -1
        /\ txns[txn_id[c]].thread = c
    BY <1>13 DEF run_utility, TypeOK, TxnInv
  <2>2. PICK u \in Transaction :
          /\ txns' = [txns EXCEPT ![txn_id[c]] = u]
          /\ u.thread = c
          /\ u.state = "GROWING" => txns[txn_id[c]].state = "GROWING"
    <3> DEFINE t == txns[txn_id[c]]
    <3>1. t \in Transaction
      BY <2>1
    <3>2. \A s \in {"COMMITTED", "ABORTED"} :
            /\ [t EXCEPT !.state = s] \in Transaction
            /\ [t EXCEPT !.state = s].thread = t.thread
            /\ [t EXCEPT !.state = s].state = s
      BY <3>1 DEF Transaction
    <3>3. /\ [t EXCEPT !.txn_mode = TRUE] \in Transaction
          /\ [t EXCEPT !.txn_mode = TRUE].thread = t.thread
          /\ [t EXCEPT !.txn_mode = TRUE].state = t.state
      BY <3>1 DEF Transaction
    <3>4. \/ \E s \in {"COMMITTED", "ABORTED"} :
               txns' = [txns EXCEPT ![txn_id[c]] = [t EXCEPT !.state = s]]
          \/ txns' = [txns EXCEPT ![txn_id[c]] = [t EXCEPT !.txn_mode = TRUE]]
          \/ txns' = [txns EXCEPT ![txn_id[c]] = t]
      BY <1>13, <2>1 DEF run_utility, SetState
    <3> HIDE DEF t
    <3>5. QED
      BY <2>1, <3>1, <3>2, <3>3, <3>4 DEF t
  <2>3. /\ DOMAIN txns' = DOMAIN txns
        /\ \A n \in DOMAIN txns :
             /\ txns'[n].thread = txns[n].thread
             /\ txns'[n].state = "GROWING" => txns[n].state = "GROWING"
             /\ n # txn_id[c] => txns'[n] = txns[n]
    BY <2>1, <2>2
  <2>4. /\ txn_id' = txn_id
        /\ \A d \in Client : d # c => pc'[d] = pc[d]
        /\ pc'[c] \in {"write", "read"}
    BY <1>13 DEF run_utility, TypeOK
  <2>5. QED
    BY <2>1, <2>3, <2>4 DEF TxnInv
<1>14. ASSUME NEW c \in Client, run_statement(c) PROVE Goal
  BY <1>14 DEF run_statement, TypeOK, TxnInv, txn_vars
<1>15. ASSUME NEW c \in Client, handler_write(c) PROVE Goal
  BY <1>15 DEF handler_write, TypeOK, TxnInv, txn_vars
<1>16. ASSUME NEW c \in Client, handler_commit(c) PROVE Goal
  <2>1. /\ txns \in [DOMAIN txns -> Transaction]
        /\ txn_id[c] \in DOMAIN txns
        /\ txn_id[c] # -1
        /\ txns[txn_id[c]].thread = c
    BY <1>16 DEF handler_commit, TypeOK, TxnInv
  <2>2. PICK u \in Transaction :
          /\ txns' = [txns EXCEPT ![txn_id[c]] = u]
          /\ u.thread = c
          /\ u.state = "GROWING" => txns[txn_id[c]].state = "GROWING"
    <3> DEFINE t == txns[txn_id[c]]
    <3>1. t \in Transaction
      BY <2>1
    <3>2. \A s \in {"COMMITTED", "ABORTED"} :
            /\ [t EXCEPT !.state = s] \in Transaction
            /\ [t EXCEPT !.state = s].thread = t.thread
            /\ [t EXCEPT !.state = s].state = s
      BY <3>1 DEF Transaction
    <3>3. /\ [t EXCEPT !.txn_mode = TRUE] \in Transaction
          /\ [t EXCEPT !.txn_mode = TRUE].thread = t.thread
          /\ [t EXCEPT !.txn_mode = TRUE].state = t.state
      BY <3>1 DEF Transaction
    <3>4. \/ \E s \in {"COMMITTED", "ABORTED"} :
               txns' = [txns EXCEPT ![txn_id[c]] = [t EXCEPT !.state = s]]
          \/ txns' = [txns EXCEPT ![txn_id[c]] = [t EXCEPT !.txn_mode = TRUE]]
          \/ txns' = [txns EXCEPT ![txn_id[c]] = t]
      BY <1>16, <2>1 DEF handler_commit, SetState
    <3> HIDE DEF t
    <3>5. QED
      BY <2>1, <3>1, <3>2, <3>3, <3>4 DEF t
  <2>3. /\ DOMAIN txns' = DOMAIN txns
        /\ \A n \in DOMAIN txns :
             /\ txns'[n].thread = txns[n].thread
             /\ txns'[n].state = "GROWING" => txns[n].state = "GROWING"
             /\ n # txn_id[c] => txns'[n] = txns[n]
    BY <2>1, <2>2
  <2>4. /\ txn_id' = txn_id
        /\ \A d \in Client : d # c => pc'[d] = pc[d]
        /\ pc'[c] \in {"write", "read"}
    BY <1>16 DEF handler_commit, TypeOK
  <2>5. QED
    BY <2>1, <2>3, <2>4 DEF TxnInv
<1>17. ASSUME NEW c \in Client, handler_read(c) PROVE Goal
  BY <1>17 DEF handler_read, TypeOK, TxnInv, txn_vars
<1>18. ASSUME NEW c \in Client, handler_exit(c) PROVE Goal
  BY <1>18 DEF handler_exit, TypeOK, TxnInv, txn_vars
<1>19. ASSUME NEW c \in Client, handler_crash(c) PROVE Goal
  BY <1>19 DEF handler_crash, Ends, TypeOK, TxnInv, txn_vars
<1>20. CASE UNCHANGED vars
  BY <1>20 DEF vars, TypeOK, TxnInv
<1>21. QED
  BY <1>1, <1>2, <1>3, <1>4, <1>5, <1>6, <1>7, <1>8, <1>9, <1>10, <1>11, <1>12, <1>13, <1>14, <1>15, <1>16, <1>17, <1>18, <1>19, <1>20
  DEF Next, main, Faults, Serve

\* IInv holds in every reachable state of the server.
LEMMA InvHolds == Spec => []IInv
<1>1. Init => IInv
  <2> SUFFICES ASSUME Init PROVE IInv
    OBVIOUS
  <2> USE ServerAssumption DEF Init, INVALID_TXN_ID
  <2>1. 0..(next_txn_id - 1) = {}
    OBVIOUS
  <2>2. txns \in [0..(next_txn_id - 1) -> Transaction]
    BY <2>1
  <2>3. TypeOK
    BY <2>2 DEF TypeOK
  <2>4. SockInv /\ ScanInv /\ TxnInv
    BY DEF SockInv, ScanInv, TxnInv
  <2>5. QED
    BY <2>3, <2>4 DEF IInv
<1>2. IInv /\ [Next]_vars => IInv'
  BY TypeStep, ScanStep, TxnStep DEF IInv
<1>3. QED
  BY <1>1, <1>2, PTL DEF Spec

(***************************************************************************)
(* However many connections arrive, every thread of client_handler serves  *)
(* its own.                                                                *)
(***************************************************************************)
THEOREM SocketsAreOwn == Spec => []OwnSocket
<1>1. IInv => OwnSocket
  BY DEF IInv, SockInv, OwnSocket
<1>2. QED
  BY <1>1, InvHolds, PTL

(***************************************************************************)
(* However the threads interleave, each analyses and runs its own          *)
(* statement, by the function that every statement of the grammar means.   *)
(***************************************************************************)
THEOREM StatementsAreOwn == Spec => []StatementIsOwn
<1>1. IInv => StatementIsOwn
  BY DispatchIsRight DEF IInv, ScanInv, StatementIsOwn
<1>2. QED
  BY <1>1, InvHolds, PTL

(***************************************************************************)
(* The assertions of TransactionManager::get_transaction never fail, and   *)
(* no session has two open transactions.                                   *)
(***************************************************************************)
THEOREM TransactionsAreOwn == Spec => []SessionTransactions
<1>1. IInv => SessionTransactions
  BY DEF IInv, TxnInv, SessionTransactions
<1>2. QED
  BY <1>1, InvHolds, PTL

\* Only the statements that end a transaction commit or abort one.
LEMMA EndingStatements ==
  ASSUME NEW n \in Node
  PROVE  /\ Meaning[n] = "commit" => n = "TxnCommit"
         /\ Meaning[n] = "abort" => n \in {"TxnRollback", "TxnAbort"}
<1>1. CASE n \in Utility
  BY <1>1, SMTT(20) DEF Meaning, Utility
<1>2. CASE n \in Ddl
  BY <1>2, SMTT(20) DEF Meaning, Ddl
<1>3. CASE n \in Dml
  BY <1>3, SMTT(20) DEF Meaning, Dml
<1>4. CASE n = "SetStmt"
  BY <1>4, SMTT(20) DEF Meaning
<1>5. QED
  BY <1>1, <1>2, <1>3, <1>4 DEF Node

(***************************************************************************)
(* An explicit transaction ends once, by COMMIT, ROLLBACK or ABORT of its  *)
(* own session.                                                            *)
(***************************************************************************)
THEOREM ExplicitTransactionsEndOnce == Spec => ExplicitTransactionsEnd
<1> DEFINE Step ==
      \A n \in DOMAIN txns \cap DOMAIN txns' :
        txns[n].txn_mode /\ txns'[n] # txns[n] =>
          LET c == txns[n].thread IN
          /\ txns[n].state = "GROWING"
          /\ pc[c] = "run"
          /\ txns'[n].state = "COMMITTED" => request[c] = "TxnCommit"
          /\ txns'[n].state = "ABORTED" => request[c] \in {"TxnRollback", "TxnAbort"}
<1>1. IInv /\ [Next]_vars => [Step]_vars
  <2> SUFFICES ASSUME IInv, Next PROVE Step
    OBVIOUS
  <2>1. CASE txns' = txns
    BY <2>1
  <2>2. ASSUME NEW c \in Client, SetTransaction(c), NeedsTxn(c) PROVE Step
    <3>1. \A n \in DOMAIN txns : n # next_txn_id
      BY DEF IInv, TypeOK
    <3>2. \A n \in DOMAIN txns : txns'[n] = txns[n]
      BY <2>2, <3>1 DEF SetTransaction
    <3>3. QED
      BY <3>2
  <2>3. ASSUME NEW c \in Client, run_utility(c) PROVE Step
    <3>1. /\ txns \in [DOMAIN txns -> Transaction]
          /\ txn_id[c] \in DOMAIN txns
          /\ txns[txn_id[c]].thread = c
          /\ txns[txn_id[c]].state = "GROWING"
          /\ pc[c] = "run"
      BY <2>3 DEF run_utility, At, IInv, TypeOK, TxnInv
    <3>2. /\ query[c] \in Node
          /\ query[c] = Statement(request[c])
          /\ FunctionFor(query[c]) = Meaning[query[c]]
      BY <3>1, DispatchIsRight DEF IInv, ScanInv
    <3>3. CASE /\ FunctionFor(query[c]) = "set_txn_mode"
               /\ txns' = [txns EXCEPT ![txn_id[c]].txn_mode = TRUE]
      <4>1. txns[txn_id[c]].txn_mode => txns'[txn_id[c]] = txns[txn_id[c]]
        BY <3>1, <3>3 DEF Transaction
      <4>2. \A n \in DOMAIN txns : n # txn_id[c] => txns'[n] = txns[n]
        BY <3>1, <3>3
      <4>3. QED
        BY <4>1, <4>2
    <3>4. ASSUME NEW s \in {"COMMITTED", "ABORTED"}, SetState(txn_id[c], s),
                 s = "COMMITTED" => request[c] = "TxnCommit",
                 s = "ABORTED" => request[c] \in {"TxnRollback", "TxnAbort"}
          PROVE  Step
      <4>1. txns'[txn_id[c]].state = s
        BY <3>1, <3>4 DEF SetState, Transaction
      <4>2. \A n \in DOMAIN txns : n # txn_id[c] => txns'[n] = txns[n]
        BY <3>1, <3>4 DEF SetState
      <4>3. QED
        BY <3>1, <3>4, <4>1, <4>2
    <3>5. CASE FunctionFor(query[c]) = "commit" /\ SetState(txn_id[c], "COMMITTED")
      <4>1. query[c] = "TxnCommit"
        BY <3>2, <3>5, EndingStatements
      <4>2. request[c] = "TxnCommit"
        BY <3>2, <4>1 DEF Statement
      <4>3. QED
        BY <3>4, <3>5, <4>2
    <3>6. CASE FunctionFor(query[c]) = "abort" /\ SetState(txn_id[c], "ABORTED")
      <4>1. query[c] \in {"TxnRollback", "TxnAbort"}
        BY <3>2, <3>6, EndingStatements
      <4>2. request[c] \in {"TxnRollback", "TxnAbort"}
        BY <3>2, <4>1 DEF Statement
      <4>3. QED
        BY <3>4, <3>6, <4>2
    <3>7. QED
      BY <2>3, <3>3, <3>5, <3>6 DEF run_utility
  <2>4. ASSUME NEW c \in Client, handler_commit(c) PROVE Step
    <3>1. CASE CommitsAlone(c)
      <4>1. txns \in [DOMAIN txns -> Transaction] /\ txns[txn_id[c]].txn_mode = FALSE
        BY <3>1 DEF CommitsAlone, IInv, TypeOK
      <4>2. \A n \in DOMAIN txns : n # txn_id[c] => txns'[n] = txns[n]
        BY <2>4, <3>1, <4>1 DEF handler_commit, SetState
      <4>3. QED
        BY <4>1, <4>2
    <3>2. CASE ~CommitsAlone(c)
      BY <2>1, <2>4, <3>2 DEF handler_commit
    <3>3. QED
      BY <3>1, <3>2
  <2>5. ASSUME Ends PROVE Step
    BY <2>5 DEF Ends
  <2>6. ASSUME NEW c \in Client, SetTransaction(c), ~NeedsTxn(c) PROVE Step
    BY <2>1, <2>6 DEF SetTransaction, txn_vars
  <2>7. ASSUME NEW c \in Client,
               \/ main_accept(c) \/ handler_start(c) \/ handler_scan(c) \/ handler_parse(c)
               \/ handler_analyze(c) \/ handler_unlock(c) \/ run_statement(c)
               \/ handler_write(c) \/ handler_read(c) \/ handler_exit(c)
        PROVE  Step
    BY <2>1, <2>7 DEF main_accept, handler_start, handler_scan, handler_parse, handler_analyze,
       handler_unlock, run_statement, handler_write, handler_read, handler_exit, txn_vars
  <2>8. CASE main_lock \/ main_create \/ main_accept_error \/ main_break
    BY <2>1, <2>8 DEF main_lock, main_create, main_accept_error, main_break, txn_vars
  <2> HIDE DEF Step
  <2>9. QED
    BY <2>2, <2>3, <2>4, <2>5, <2>6, <2>7, <2>8
    DEF Next, main, Faults, Serve, main_close, handler_crash
<1>2. QED
  BY <1>1, InvHolds, PTL DEF Spec, ExplicitTransactionsEnd
=============================================================================
