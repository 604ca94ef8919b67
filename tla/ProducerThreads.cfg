SPECIFICATION FairSpec

CONSTANTS
    t1 = t1
    t2 = t2
    k1 = k1
    k2 = k2
    None = None
    Threads <- TwoThreads
    Topics <- TwoTopics
    QueueSize = 1
    MaxMessages = 2

\* A crash, and the end of close when everything is sent, stop the system.
CHECK_DEADLOCK FALSE

INVARIANTS
    TypeOK
    SafeUntilCleared
    CloseFlushes
PROPERTIES
    CallsReturn
