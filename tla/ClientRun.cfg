SPECIFICATION Spec
CONSTANTS
    SpriteCount = 5
    Capacities <- MCCapacities
    ClipColumns = 3
    Interval = 2
    MaxTime = 10
    Wrap = 8
INVARIANTS
    TypeOK
    EverySpriteIsDrawn
    CrashesAreExplained
    ObjectsGoBeforeTheWindow
    TicksAreElapsedTime
CHECK_DEADLOCK FALSE
