SPECIFICATION FairSpec

CONSTANTS
    TickLength = 2
    MapSizes <- MCMapSizes
    Compressed <- MCCompressed
    Decompressed <- MCDecompressed
    Arriving <- MCArriving
    MaxMessages = 1
    MaxLag = 3

\* The process ends.
CHECK_DEADLOCK FALSE

INVARIANTS
    TypeOK
    
    WhatIsSentIsRead
    TicksKeepTheSchedule
PROPERTIES
    ShutdownEnds
