SPECIFICATION FairSpec

CONSTANTS
    t1 = t1
    t2 = t2
    t3 = t3
    Threads <- ThreeThreads
    None = None
    PoolSize = 3
    Orders = {"connection_first", "transaction_first"}

\* Nothing follows std::terminate.
CHECK_DEADLOCK FALSE

INVARIANTS
    TypeOK
    ConnectionsAreExclusive
    PoolIsNeverDry
    TerminatedOnlyBeforeAnAbort
PROPERTIES
    ImplementsConnectionPool
    SomebodyGetsOne
