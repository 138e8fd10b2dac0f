SPECIFICATION Spec
CONSTANTS
    People = {"ciso", "owner", "stranger"}
    Routes <- SampleRoutes
    Observed <- AfterHoursRoutes
    MaxDecisions = 4
INVARIANTS
    TypeOK
    ApprovalNeedsEveryStage
PROPERTY
    ImplementsBallot
CHECK_DEADLOCK FALSE
