SPECIFICATION Spec
CONSTANTS
    People = {"ciso", "owner", "stranger"}
    Routes <- SampleRoutes
    Observed <- AfterHoursRoutes
    MaxDecisions = 4
INVARIANT
    ApprovedByAll
CHECK_DEADLOCK FALSE
