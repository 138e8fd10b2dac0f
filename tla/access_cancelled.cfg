SPECIFICATION Spec
CONSTANTS
    Requests = {"r1"}
    Users <- AllUsers
    NoUser = "none"
    Target <- EveryTarget
    ManagerOf <- Line
    DefaultManager = "boss"
    RoleOwner = "boss"
    Delegates = {"employee"}
    Rules <- AllRules
    ManagerRule = "manager_rule"
    RiskRules <- ListRules
    SpecificRules <- ListRules
    SpecificLead <- TeamLead
    SpecificApprovers <- Team
    Priority <- Order
    MaxLevels = 5
    AutoApprove = FALSE
    Temporary = {"r1"}
    HandlerMayFail = TRUE
PROPERTIES
    CancelledStaysCancelled
CHECK_DEADLOCK FALSE
