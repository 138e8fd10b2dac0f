--------------------------- MODULE MCSyncScheduler ---------------------------
(***************************************************************************)
(* An instance of SyncScheduler for TLC: a risk analysis and a sync of     *)
(* usage data that compete for one slot.                                   *)
(***************************************************************************)
EXTENDS SyncScheduler

StandardPriority == [j \in Jobs |-> IF j = "risk" THEN 4 ELSE 1]

=============================================================================
