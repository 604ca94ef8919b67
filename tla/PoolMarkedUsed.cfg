SPECIFICATION Spec

CONSTANTS
    t1 = t1
    t2 = t2
    t3 = t3
    Threads <- TwoThreads
    None = None
    PoolSize = 2
    Orders = {"connection_first", "transaction_first"}

\* Nothing follows std::terminate.
CHECK_DEADLOCK FALSE

INVARIANTS
    FalseMeansInUse
