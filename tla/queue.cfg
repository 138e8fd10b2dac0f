SPECIFICATION FairSpec
CONSTANTS
    Tasks <- AllTasks
    Runners <- Everybody
    NoTask = "none"
    StepsOf <- Steps
    MaxRetries = 2
    Workers <- Pool
    Callers <- Caller
    PriorityOf <- Urgency
    MaxWorkers = 1
    MaxQueueSize = 1
    MaxAttempts = 2
    MaxRequeues = 1
    MaxStarts = 2
INVARIANTS
    TypeOK
    OnePlace
    FiledTruthfully
    TriesBounded
PROPERTIES
    ImplementsLedger
    QueuedTasksSettle
CHECK_DEADLOCK FALSE
