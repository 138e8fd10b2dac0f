SPECIFICATION FairSpec
CONSTANTS
    MaxEvents = 3
    MaxStarts = 2
    MaxPoll = 2
    ResetToLatest = TRUE
    Unhandled <- Unparseable
INVARIANTS
    TypeOK
    CommittedIsNotRepeated
PROPERTIES
    ImplementsAtLeastOnce
    EventsAreHandled
CHECK_DEADLOCK FALSE
