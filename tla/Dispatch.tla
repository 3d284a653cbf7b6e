------------------------------ MODULE Dispatch ------------------------------
(***************************************************************************)
(* From the root of a parse tree to the function that carries it out:      *)
(* Optimizer::plan_query makes a plan of some class and tag, Portal::start *)
(* a portal of some tag, Portal::run calls QlManager, which switches on    *)
(* the tag of the plan.  The switches are tables here.                     *)
(***************************************************************************)
Plan(class, tag) == [class |-> class, tag |-> tag]

Utility == {"Help", "ShowTables", "ShowIndex", "DescTable",
            "TxnBegin", "TxnAbort", "TxnCommit", "TxnRollback"}
OtherTag == [
  Help |-> "T_Help", ShowTables |-> "T_ShowTable", ShowIndex |-> "T_ShowIndex",
  DescTable |-> "T_DescTable", TxnBegin |-> "T_Transaction_begin",
  TxnAbort |-> "T_Transaction_abort", TxnCommit |-> "T_Transaction_commit",
  TxnRollback |-> "T_Transaction_rollback"]

Ddl == {"CreateTable", "DropTable", "CreateIndex", "DropIndex"}
DdlTag == [
  CreateTable |-> "T_CreateTable", DropTable |-> "T_DropTable",
  CreateIndex |-> "T_CreateIndex", DropIndex |-> "T_DropIndex"]

Dml == {"InsertStmt", "DeleteStmt", "UpdateStmt", "SelectStmt"}
DmlTag == [
  InsertStmt |-> "T_Insert", DeleteStmt |-> "T_Delete", UpdateStmt |-> "T_Update",
  SelectStmt |-> "T_select"]

Node == Utility \cup Ddl \cup Dml \cup {"SetStmt"}

do_planner(node) ==
  IF node \in Ddl THEN Plan("DDLPlan", DdlTag[node])
  ELSE IF node \in Dml THEN Plan("DMLPlan", DmlTag[node])
  ELSE Plan("InternalError", "T_Invalid")

plan_query(node) ==
  IF node \in Utility THEN Plan("OtherPlan", OtherTag[node])
  ELSE IF node = "SetStmt" THEN Plan("SetKnobPlan", "T_SetKnob")
  ELSE do_planner(node)

\* Portal::start: the tag of the portal.
start(plan) ==
  IF plan.class \in {"OtherPlan", "SetKnobPlan"} THEN "PORTAL_CMD_UTILITY"
  ELSE IF plan.class = "DDLPlan" THEN "PORTAL_MULTI_QUERY"
  ELSE IF plan.class = "DMLPlan"
       THEN IF plan.tag = "T_select" THEN "PORTAL_ONE_SELECT" ELSE "PORTAL_DML_WITHOUT_SELECT"
  ELSE "PORTAL_Invalid_Query"

run_mutli_query(plan) ==
  [T_CreateTable |-> "create_table", T_DropTable |-> "drop_table",
   T_CreateIndex |-> "create_index", T_DropIndex |-> "drop_index"][plan.tag]

run_cmd_utility(plan) ==
  IF plan.class = "SetKnobPlan" THEN "set_enable_join" ELSE
  [T_Help |-> "help_info", T_ShowTable |-> "show_tables", T_ShowIndex |-> "show_index",
   T_DescTable |-> "desc_table", T_Transaction_begin |-> "set_txn_mode",
   T_Transaction_commit |-> "commit", T_Transaction_rollback |-> "abort",
   T_Transaction_abort |-> "abort"][plan.tag]

\* run_dml runs the executor that start made.
run_dml(plan) ==
  [T_Insert |-> "InsertExecutor", T_Delete |-> "DeleteExecutor",
   T_Update |-> "UpdateExecutor"][plan.tag]

run(portal, plan) ==
  IF portal = "PORTAL_ONE_SELECT" THEN "select_from"
  ELSE IF portal = "PORTAL_DML_WITHOUT_SELECT" THEN run_dml(plan)
  ELSE IF portal = "PORTAL_MULTI_QUERY" THEN run_mutli_query(plan)
  ELSE IF portal = "PORTAL_CMD_UTILITY" THEN run_cmd_utility(plan)
  ELSE "InternalError"

\* The function a statement is carried out by.
FunctionFor(node) == LET plan == plan_query(node) IN run(start(plan), plan)

\* What each statement means.
Meaning == [
  Help |-> "help_info", ShowTables |-> "show_tables", ShowIndex |-> "show_index",
  DescTable |-> "desc_table", TxnBegin |-> "set_txn_mode", TxnCommit |-> "commit",
  TxnAbort |-> "abort", TxnRollback |-> "abort", SetStmt |-> "set_enable_join",
  CreateTable |-> "create_table", DropTable |-> "drop_table",
  CreateIndex |-> "create_index", DropIndex |-> "drop_index",
  InsertStmt |-> "InsertExecutor", DeleteStmt |-> "DeleteExecutor",
  UpdateStmt |-> "UpdateExecutor", SelectStmt |-> "select_from"]
=============================================================================
