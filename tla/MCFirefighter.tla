---------------------------- MODULE MCFirefighter ----------------------------
(***************************************************************************)
(* Instances of Firefighter for TLC: two requests for one account, for two  *)
(* hours and for one.                                                       *)
(***************************************************************************)
EXTENDS Firefighter

SameAccount == [r \in Requests |-> "FF_EMERGENCY_01"]
Hours == [r \in Requests |-> IF r = "first" THEN 2 ELSE 1]
=============================================================================
