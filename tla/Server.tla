------------------------------- MODULE Server -------------------------------
(***************************************************************************)
(* The server: the accept loop, one thread per connection, and what the    *)
(* threads share: the scanner and ast::parse_tree under buffer_mutex, and  *)
(* the transactions.                                                       *)
(*                                                                         *)
(* Every call that can block or that shares state is a step of its own.    *)
(* A request is the kind of its text.  What a statement does to the tables *)
(* is left out; it may throw an RMDBError.                                 *)
(***************************************************************************)
EXTENDS Integers, FiniteSets, Dispatch

CONSTANTS
  Client,       \* connections, each with its socket and its thread
  Request,      \* the texts clients send
  NoClient,     \* not a client: a free mutex
  MaxRequests   \* bound on the requests of all clients

ASSUME ServerAssumption ==
  /\ NoClient \notin Client
  /\ Request \subseteq Node \cup {"Exit", "Malformed", "OpenComment", "CloseComment"}
  /\ MaxRequests \in Nat

VARIABLES
  mpc,          \* where start_server is
  sockfd,       \* its local variable, which the new thread reads
  sockfd_mutex, \* locked or not: one thread locks it and another unlocks it
  buffer_mutex, \* its holder
  yy_buffer,    \* YY_CURRENT_BUFFER, by the thread that made it
  yy_start,     \* start condition of the scanner
  parse_tree,   \* ast::parse_tree
  pc, fd,       \* of each client_handler
  request,      \* data_recv
  txn_id,       \* its current transaction
  query,        \* the root of the tree it analysed
  txns,         \* txn_map
  next_txn_id,
  requests      \* how many requests have been read

main_vars == <<mpc, sockfd, sockfd_mutex>>
scan_vars == <<buffer_mutex, yy_buffer, yy_start, parse_tree>>
txn_vars == <<txns, next_txn_id>>
vars == <<mpc, sockfd, sockfd_mutex, buffer_mutex, yy_buffer, yy_start, parse_tree,
          pc, fd, request, txn_id, query, requests, txns, next_txn_id>>

nullptr == "nullptr"
INVALID_TXN_ID == -1

Init ==
  /\ mpc = "lock"
  /\ sockfd = NoClient
  /\ sockfd_mutex = FALSE
  /\ buffer_mutex = NoClient
  /\ yy_buffer = NoClient
  /\ yy_start = "INITIAL"
  /\ parse_tree = nullptr
  /\ pc = [c \in Client |-> "none"]
  /\ fd = [c \in Client |-> NoClient]
  /\ request = [c \in Client |-> nullptr]
  /\ txn_id = [c \in Client |-> INVALID_TXN_ID]
  /\ query = [c \in Client |-> nullptr]
  /\ requests = 0
  /\ txns = [n \in {} |-> nullptr]
  /\ next_txn_id = 0
-----------------------------------------------------------------------------
(***************************************************************************)
(* start_server.                                                           *)
(***************************************************************************)
Up == mpc # "done"

\* Mutant: the mutex is not taken.
LockNothing == TRUE

LockSockfd == ~sockfd_mutex

main_lock ==
  /\ mpc \in {"lock", "relock"}
  /\ LockSockfd
  /\ sockfd_mutex' = TRUE
  /\ mpc' = "accept"
  /\ UNCHANGED <<sockfd, scan_vars, pc, fd, request, txn_id, query, requests, txn_vars>>

main_accept(c) ==
  /\ mpc = "accept"
  /\ pc[c] = "none"
  /\ sockfd' = c
  /\ mpc' = "create"
  /\ UNCHANGED <<sockfd_mutex, scan_vars, pc, fd, request, txn_id, query, requests,
                 txn_vars>>

\* pthread_create, with the address of sockfd; the loop goes on.
main_create ==
  /\ mpc = "create"
  /\ pc' = [pc EXCEPT ![sockfd] = "start"]
  /\ mpc' = "lock"
  /\ UNCHANGED <<sockfd, sockfd_mutex, scan_vars, fd, request, txn_id, query,
                 requests, txn_vars>>

\* accept returns -1: continue to the lock, which is held.
main_accept_error ==
  /\ mpc = "accept"
  /\ mpc' = "relock"
  /\ UNCHANGED <<sockfd, sockfd_mutex, scan_vars, pc, fd, request, txn_id, query, requests, txn_vars>>

\* SIGINT, which longjmps out of whatever start_server is doing, or a thread
\* that could not be created.
main_break ==
  /\ mpc \in {"lock", "accept", "relock", "create"}
  /\ mpc' = "closing"
  /\ UNCHANGED <<sockfd, sockfd_mutex, scan_vars, pc, fd, request, txn_id, query,
                 requests, txn_vars>>

\* The process ends, with all its threads and what they know.
Ends ==
  /\ mpc' = "done"
  /\ sockfd' = NoClient
  /\ sockfd_mutex' = FALSE
  /\ buffer_mutex' = NoClient
  /\ yy_buffer' = NoClient
  /\ yy_start' = "INITIAL"
  /\ parse_tree' = nullptr
  /\ pc' = [c \in Client |-> "none"]
  /\ fd' = [c \in Client |-> NoClient]
  /\ request' = [c \in Client |-> nullptr]
  /\ txn_id' = [c \in Client |-> INVALID_TXN_ID]
  /\ query' = [c \in Client |-> nullptr]
  /\ txns' = [n \in {} |-> nullptr]
  /\ next_txn_id' = 0
  /\ requests' = 0

\* close_db and the return of main.
main_close == mpc = "closing" /\ Ends
-----------------------------------------------------------------------------
(***************************************************************************)
(* client_handler.                                                         *)
(***************************************************************************)
At(c, where) == Up /\ pc[c] = where
Goto(c, where) == pc' = [pc EXCEPT ![c] = where]

\* Mutant: the mutex stays locked.
StartLocked(c) ==
  /\ At(c, "start")
  /\ fd' = [fd EXCEPT ![c] = sockfd]
  /\ Goto(c, "read")
  /\ UNCHANGED <<mpc, sockfd, sockfd_mutex, scan_vars, request, txn_id, query, txn_vars, requests>>

\* The socket is read from the stack of start_server, then the mutex freed.
handler_start(c) ==
  /\ At(c, "start")
  /\ fd' = [fd EXCEPT ![c] = sockfd]
  /\ sockfd_mutex' = FALSE
  /\ Goto(c, "read")
  /\ UNCHANGED <<mpc, sockfd, scan_vars, request, txn_id, query, requests, txn_vars>>

handler_read(c) ==
  /\ At(c, "read")
  /\ requests < MaxRequests
  /\ \E r \in Request : request' = [request EXCEPT ![c] = r]
  /\ requests' = requests + 1
  /\ Goto(c, "begin")
  /\ UNCHANGED <<main_vars, scan_vars, fd, txn_id, query, txn_vars>>

\* The client has gone, or has sent "exit".
handler_exit(c) ==
  /\ At(c, "read")
  /\ Goto(c, "closed")
  /\ UNCHANGED <<main_vars, scan_vars, fd, request, txn_id, query, requests, txn_vars>>

\* "crash": exit(1).  And SIGPIPE, which nobody catches, when the client has
\* gone before its answer.
handler_crash(c) ==
  /\ At(c, "read") \/ At(c, "write")
  /\ Ends

Finished(state) == state \in {"COMMITTED", "ABORTED"}

\* Mutant: a session goes on in the transaction it has finished.
NeverHadTxn(c) == txn_id[c] = INVALID_TXN_ID

NeedsTxn(c) == txn_id[c] = INVALID_TXN_ID \/ Finished(txns[txn_id[c]].state)

SetTransaction(c) ==
  /\ At(c, "begin")
  /\ IF NeedsTxn(c)
       THEN /\ txns' = [n \in DOMAIN txns \cup {next_txn_id} |->
                          IF n = next_txn_id
                          THEN [state |-> "GROWING", txn_mode |-> FALSE, thread |-> c]
                          ELSE txns[n]]
            /\ txn_id' = [txn_id EXCEPT ![c] = next_txn_id]
            /\ next_txn_id' = next_txn_id + 1
       ELSE UNCHANGED <<txn_vars, txn_id>>
  /\ Goto(c, "lock")
  /\ UNCHANGED <<main_vars, scan_vars, fd, request, query, requests>>

\* Mutant: the scanner is used by whoever comes.
NoLock == TRUE

BufferFree == buffer_mutex = NoClient

\* pthread_mutex_lock and yy_scan_string.
handler_scan(c) ==
  /\ At(c, "lock")
  /\ BufferFree
  /\ buffer_mutex' = c
  /\ yy_buffer' = c
  /\ Goto(c, "parse")
  /\ UNCHANGED <<main_vars, yy_start, parse_tree, fd, request, txn_id, query, requests,
                 txn_vars>>

\* The statement a text spells, once the scanner is outside of a comment.
Statement(r) == IF r = "CloseComment" THEN "ShowTables" ELSE r
InComment == yy_start = "STATE_COMMENT"

\* yyparse: the end of the text, in a comment or not, and EXIT leave no tree,
\* a syntax error leaves the one before.
handler_parse(c) ==
  LET r == request[yy_buffer]
      empty == (InComment /\ r # "CloseComment") \/ r \in {"Exit", "OpenComment"}
      bad == ~InComment /\ r \in {"Malformed", "CloseComment"}
  IN
  /\ At(c, "parse")
  /\ parse_tree' = IF bad THEN parse_tree ELSE IF empty THEN nullptr ELSE Statement(r)
  /\ yy_start' = IF r = "OpenComment" THEN "STATE_COMMENT"
                 ELSE IF r = "CloseComment" THEN "INITIAL" ELSE yy_start
  /\ Goto(c, IF bad \/ empty THEN "unlock" ELSE "analyze")
  /\ UNCHANGED <<main_vars, buffer_mutex, yy_buffer, fd, request, txn_id, query, requests,
                 txn_vars>>

yy_delete_buffer(c) == yy_buffer' = IF yy_buffer = c THEN NoClient ELSE yy_buffer

\* do_analyze, yy_delete_buffer and the end of the critical section; or an
\* RMDBError, with the buffer and the mutex left to finish_analyze == false.
handler_analyze(c) ==
  /\ At(c, "analyze")
  /\ query' = [query EXCEPT ![c] = parse_tree]
  /\ \/ /\ yy_delete_buffer(c)
        /\ buffer_mutex' = NoClient
        /\ Goto(c, "run")
     \/ /\ Goto(c, "unlock")
        /\ UNCHANGED <<yy_buffer, buffer_mutex>>
  /\ UNCHANGED <<main_vars, yy_start, parse_tree, fd, request, txn_id, requests, txn_vars>>

\* Mutant: the buffer is deleted and the mutex kept.
UnlocksNothing(c) ==
  /\ At(c, "unlock")
  /\ yy_delete_buffer(c)
  /\ Goto(c, "write")
  /\ UNCHANGED <<main_vars, buffer_mutex, yy_start, parse_tree, fd, request, txn_id, query,
                 txn_vars, requests>>

handler_unlock(c) ==
  /\ At(c, "unlock")
  /\ yy_delete_buffer(c)
  /\ buffer_mutex' = NoClient
  /\ Goto(c, "write")
  /\ UNCHANGED <<main_vars, yy_start, parse_tree, fd, request, txn_id, query, requests,
                 txn_vars>>

SetState(n, state) == txns' = [txns EXCEPT ![n].state = state]

\* The functions that change what is modelled here.
run_utility(c) ==
  LET f == FunctionFor(query[c]) IN
  /\ At(c, "run")
  /\ \/ f = "set_txn_mode" /\ txns' = [txns EXCEPT ![txn_id[c]].txn_mode = TRUE]
     \/ f = "commit" /\ SetState(txn_id[c], "COMMITTED")
     \/ f = "abort" /\ SetState(txn_id[c], "ABORTED")
  /\ Goto(c, "write")
  /\ UNCHANGED <<main_vars, scan_vars, fd, request, txn_id, query, requests, next_txn_id>>

\* The others.  What they do or throw is the same to client_handler.
run_statement(c) ==
  /\ At(c, "run")
  /\ FunctionFor(query[c]) \notin {"set_txn_mode", "commit", "abort"}
  /\ Goto(c, "write")
  /\ UNCHANGED <<main_vars, scan_vars, fd, request, txn_id, query, requests, txn_vars>>

\* The answer, failure or not.  The write may fail, and ends the connection.
handler_write(c) ==
  /\ At(c, "write")
  /\ Goto(c, "commit") \/ Goto(c, "closed")
  /\ request' = [request EXCEPT ![c] = nullptr]
  /\ query' = [query EXCEPT ![c] = nullptr]
  /\ UNCHANGED <<main_vars, scan_vars, fd, txn_id, requests, txn_vars>>

\* Mutant: every statement commits.
CommitsAlways(c) == TRUE

CommitsAlone(c) == txns[txn_id[c]].txn_mode = FALSE

handler_commit(c) ==
  /\ At(c, "commit")
  /\ IF CommitsAlone(c) THEN SetState(txn_id[c], "COMMITTED") ELSE UNCHANGED txns
  /\ Goto(c, "read")
  /\ UNCHANGED <<main_vars, scan_vars, fd, request, txn_id, query, requests, next_txn_id>>
-----------------------------------------------------------------------------
main == main_lock \/ (\E c \in Client : main_accept(c)) \/ main_create \/ main_close
Faults == main_accept_error \/ main_break \/ \E c \in Client : handler_crash(c)

\* A thread with a request at hand; the client decides when to send one.
Serve(c) ==
  \/ handler_start(c) \/ SetTransaction(c) \/ handler_scan(c) \/ handler_parse(c)
  \/ handler_analyze(c) \/ handler_unlock(c) \/ run_utility(c) \/ run_statement(c)
  \/ handler_write(c) \/ handler_commit(c)

Next ==
  \/ main \/ Faults
  \/ \E c \in Client : Serve(c) \/ handler_read(c) \/ handler_exit(c)

\* Threads are scheduled, and connections that wait are accepted.  A mutex is
\* not fair: it is got when the others leave it alone.
Fairness == WF_vars(main) /\ \A c \in Client : WF_vars(Serve(c))

Spec == Init /\ [][Next]_vars /\ Fairness
-----------------------------------------------------------------------------
Transaction ==
  [state : {"GROWING", "COMMITTED", "ABORTED"}, txn_mode : BOOLEAN, thread : Client]

TypeOK ==
  /\ mpc \in {"lock", "accept", "relock", "create", "closing", "done"}
  /\ sockfd \in Client \cup {NoClient}
  /\ sockfd_mutex \in BOOLEAN
  /\ buffer_mutex \in Client \cup {NoClient}
  /\ yy_buffer \in Client \cup {NoClient}
  /\ yy_start \in {"INITIAL", "STATE_COMMENT"}
  /\ parse_tree \in Node \cup {nullptr}
  /\ pc \in [Client -> {"none", "start", "read", "begin", "lock", "parse", "analyze", "unlock",
                        "run", "write", "commit", "closed"}]
  /\ fd \in [Client -> Client \cup {NoClient}]
  /\ request \in [Client -> Request \cup {nullptr}]
  /\ txn_id \in [Client -> Nat \cup {INVALID_TXN_ID}]
  /\ query \in [Client -> Node \cup {nullptr}]
  /\ requests \in Nat
  /\ next_txn_id \in Nat
  /\ txns \in [0..(next_txn_id - 1) -> Transaction]

\* Every thread serves the connection it was made for.  The thread reads the
\* socket through a pointer into the frame of start_server, which goes on to
\* accept the next connection into the same variable: only sockfd_mutex,
\* locked by the one and unlocked by the other, keeps them apart
\* (rmdb.cpp:71-72, 248-256).
OwnSocket == \A c \in Client : pc[c] \notin {"none", "start"} => fd[c] = c

\* While a thread is between the lock and the unlock of buffer_mutex the
\* scanner reads its text, the tree it analyses is that of its own text, and
\* the function which is called in the end, through the tags of plan and
\* portal, is the one that means what the statement says (rmdb.cpp:124-139).
StatementIsOwn ==
  \A c \in Client :
    /\ pc[c] \in {"parse", "analyze", "unlock"} => buffer_mutex = c /\ yy_buffer = c
    /\ pc[c] = "analyze" => parse_tree = Statement(request[c])
    /\ pc[c] = "run" => /\ query[c] = Statement(request[c])
                       /\ FunctionFor(query[c]) = Meaning[query[c]]

\* A statement runs in a transaction that was begun by its own thread and that
\* is not finished (what get_transaction asserts, and more), and a thread has
\* no other unfinished transaction (rmdb.cpp:60-68, transaction_manager.h:52).
SessionTransactions ==
  \A c \in Client :
    /\ pc[c] \in {"lock", "parse", "analyze", "unlock", "run"} =>
         /\ txn_id[c] \in DOMAIN txns
         /\ txns[txn_id[c]].thread = c
         /\ txns[txn_id[c]].state = "GROWING"
    /\ \A n \in DOMAIN txns :
         txns[n].thread = c /\ txns[n].state = "GROWING" => n = txn_id[c]

\* The end of an explicit transaction is the statement that asks for it: only
\* COMMIT commits it, only ROLLBACK or ABORT aborts it, both from its own
\* session, and the commit after every statement leaves it alone, before its
\* end and after (execution_manager.cpp:103-126, rmdb.cpp:190).
ExplicitTransactionsEnd ==
  [][\A n \in DOMAIN txns \cap DOMAIN txns' :
       txns[n].txn_mode /\ txns'[n] # txns[n] =>
         LET c == txns[n].thread IN
         /\ txns[n].state = "GROWING"
         /\ pc[c] = "run"
         /\ txns'[n].state = "COMMITTED" => request[c] = "TxnCommit"
         /\ txns'[n].state = "ABORTED" => request[c] \in {"TxnRollback", "TxnAbort"}]_vars

\* Whoever has sent a request gets an answer, or the connection or the process
\* ends: no path through the parser and the errors of the analysis leaves
\* buffer_mutex locked (rmdb.cpp:124-188).
RequestsAnswered ==
  \A c \in Client : (pc[c] = "begin") ~> (pc[c] \in {"read", "closed"} \/ mpc = "done")

\* Every connection gets its thread, as long as accept does not fail: after
\* that start_server waits for the mutex it holds itself (rmdb.cpp:248-253).
ConnectionsServed ==
  \A c \in Client : <>(fd[c] = c \/ mpc \in {"relock", "done"})
=============================================================================
