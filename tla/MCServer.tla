------------------------------ MODULE MCServer ------------------------------
(***************************************************************************)
(* Two connections.  The statements that end transactions, one that does   *)
(* not, and the two ends of a comment; the second is malformed by itself.  *)
(***************************************************************************)
EXTENDS Server

Texts == {"SelectStmt", "TxnBegin", "TxnCommit", "TxnAbort",
          "OpenComment", "CloseComment"}
=============================================================================
