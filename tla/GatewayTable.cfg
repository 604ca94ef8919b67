SPECIFICATION Spec

CONSTANTS
    w1 = w1
    w2 = w2
    w3 = w3
    k1 = k1
    k2 = k2
    Sockets = {w1, w2, w3}
    Keys = {k1, k2}
    KeyOf <- TwoShareKey
    Slots = {s1, s2}
    Free = Free
    Users = {u1}
    NoUser = NoUser
    Admins = {u1}
    Names = {n1}
    Worlds = {"server-2"}
    Origin = "server-1"
    All = "all"
    Kinds = {"register", "malformed", "chat_send", "create_character", "get_characters", "play_character"}
    MaxIds = 3
    MaxFrames = 3
    MaxLater = 2
    MaxRestarts = 0

SYMMETRY Symmetry

\* Once main has returned, or the bounds are used up, nothing need happen.
CHECK_DEADLOCK FALSE

INVARIANTS
    TypeOK
    TableMirrorsSockets
    LoggedInByOwnReply
    HalfLoggedInOnlyWhileWriting
    FramesReachTheAsker
    PrivilegedRequestsAreLoggedIn
