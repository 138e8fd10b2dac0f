SPECIFICATION FairSpec
CONSTANTS
    Threads = {"t1", "t2", "t3"}
    Conns <- AllConnections
    NoConn = NoConn
    PoolSize = 1
    MaxCloses = 1
INVARIANTS
    TypeOK
    ConnectionsHaveOneOwner
PROPERTIES
    ImplementsLending
    AcquireReturns
