SPECIFICATION Spec
CONSTANTS
    People = {"ciso", "owner", "stranger"}
    Routes <- SampleRoutes
    Observed <- AfterHoursRoutes
    MaxDecisions = 4
INVARIANT
    ObserversDoNotBlock
CHECK_DEADLOCK FALSE
