SPECIFICATION FairSpec
CONSTANTS
    Requests = {"r1"}
    Users <- AllUsers
    NoUser = "none"
    Target <- EveryTarget
    ManagerOf <- Line
    DefaultManager = "boss"
    RoleOwner = "boss"
    Delegates = {"employee"}
    Rules <- ThreeRules
    ManagerRule = "manager_rule"
    RiskRules <- ListRules
    SpecificRules <- ListRules
    SpecificLead <- TeamLead
    SpecificApprovers <- Team
    Priority <- OrderOfThree
    MaxLevels = 2
    AutoApprove = FALSE
    Temporary = {"r1"}
    HandlerMayFail = TRUE
INVARIANTS
    TypeOK
    GrantNeedsEveryApproval
    GrantAtMostOnce
    StatusTellsAccess
    EndedAccessIsRevocable
PROPERTIES
    RejectionIsFinal
    ImplementsGrant
    ApprovedIsProvisioned
CHECK_DEADLOCK FALSE
