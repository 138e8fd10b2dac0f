--------------------------- MODULE MCCertification ---------------------------
(***************************************************************************)
(* An instance of Certification for TLC: two items, each of another        *)
(* manager; the managers may delegate to each other and back.              *)
(***************************************************************************)
EXTENDS Certification

TwoManagers == [a \in Access |-> IF a = "Z_PURCHASER" THEN "manager1" ELSE "manager2"]

=============================================================================
