SPECIFICATION Spec
CONSTANTS
  Client = {c1, c2}
  Request <- Texts
  NoClient = NoClient
  MaxRequests = 2
INVARIANTS
  OwnSocket
  StatementIsOwn
  SessionTransactions
PROPERTIES
  ExplicitTransactionsEnd
  RequestsAnswered
  ConnectionsServed
CHECK_DEADLOCK FALSE
