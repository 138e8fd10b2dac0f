SPECIFICATION FairSpec
CONSTANTS
    Jobs = {"risk", "usage"}
    Priority <- StandardPriority
    MaxConcurrent = 1
    MaxCalls = 1
INVARIANTS
    TypeOK
    ScheduledRunsDoNotOverlap
    RunsAreCounted
PROPERTIES
    ImplementsRunSlots
    DueJobsRun
