SPECIFICATION FairSpec

CONSTANTS
    w1 = w1
    w2 = w2
    w3 = w3
    k1 = k1
    k2 = k2
    Sockets = {w1}
    Keys = {k1, k2}
    KeyOf <- TwoShareKey
    Slots = {s1}
    Free = Free
    Users = {u1, u2}
    NoUser = NoUser
    Admins = {u1}
    Names = {n1}
    Worlds = {"server-2"}
    Origin = "server-1"
    All = "all"
    Kinds = {"login", "quit"}
    MaxIds = 2
    MaxFrames = 2
    MaxLater = 2
    MaxRestarts = 1

\* Once main has returned, or the bounds are used up, nothing need happen.
CHECK_DEADLOCK FALSE

INVARIANTS
    QuitNeedsAdmin

PROPERTIES
    ImplementsSessions
    LoginIsAnswered
