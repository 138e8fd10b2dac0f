-------------------------- MODULE MCApprovalWorkflow --------------------------
(***************************************************************************)
(* An instance of ApprovalWorkflow for TLC.  create_route keeps the        *)
(* duplicates that rules with the same approver type make.                 *)
(***************************************************************************)
EXTENDS ApprovalWorkflow

TwoInOneStage == << <<"ciso", "owner">> >>
ThreeStages == << <<"owner">>, <<"ciso">>, <<"owner", "ciso">> >>
ListedTwice == << <<"ciso", "ciso">>, <<"owner">> >>
AfterHours == << <<"owner">>, <<"ciso">> >>
SampleRoutes == {<<>>, TwoInOneStage, ThreeStages, ListedTwice, AfterHours}
AfterHoursRoutes == {AfterHours}

=============================================================================
