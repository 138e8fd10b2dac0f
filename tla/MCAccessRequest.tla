--------------------------- MODULE MCAccessRequest ---------------------------
(***************************************************************************)
(* Instances of AccessRequest for TLC.  The rules are the manager rule and  *)
(* one or two rules with an approver list of their own; the reporting line  *)
(* is the one of _default_user_resolver, with a head who has no manager.    *)
(***************************************************************************)
EXTENDS AccessRequest

AllUsers == {"employee", "manager", "compliance", "boss"}

Line == [u \in AllUsers |-> CASE u = "employee"   -> "manager"
                              [] u = "manager"    -> "boss"
                              [] u = "compliance" -> "boss"
                              [] OTHER            -> "none"]

EveryTarget == [r \in Requests |-> "employee"]

ListRules == {"compliance_rule"}
AllRules == {"manager_rule"} \cup ListRules
ThreeRules == AllRules \cup {"owner_rule"}
TeamLead == [k \in ListRules |-> "compliance"]
Team == [k \in ListRules |-> {"compliance"}]
OrderOf(rules) == [k \in rules |-> CASE k = "manager_rule"    -> 10
                                     [] k = "compliance_rule" -> 25
                                     [] OTHER                 -> 30]
Order == OrderOf(AllRules)
OrderOfThree == OrderOf(ThreeRules)
=============================================================================
