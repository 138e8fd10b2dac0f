---------------------------- MODULE MCProvisioning ----------------------------
(***************************************************************************)
(* Instances of ProvisioningQueue for TLC: two tasks, one of them with two *)
(* steps, that are enqueued or executed by an API call.                     *)
(***************************************************************************)
EXTENDS ProvisioningQueue

AllTasks == {"grant", "joiner"}
Steps == [t \in AllTasks |-> IF t = "joiner" THEN 2 ELSE 1]
Pool == {"w1", "w2"}
Caller == {"caller"}
Everybody == Pool \cup Caller
Urgency == [t \in AllTasks |-> IF t = "grant" THEN 1 ELSE 5]
=============================================================================
