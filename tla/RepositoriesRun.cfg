SPECIFICATION Spec
CONSTANTS
    Null = Null
    Names = {n1, n2}
    Values = {v1, v2}
    Ips = {ip1}
    Times = {1, 2}
    UserIds = {u1}
    MaxId = 2
    MaxStatements = 4
INVARIANTS
    TypeOK
    BansAreFound
    ListsHoldFoundRows
PROPERTY IdsAreGivenOnce
CHECK_DEADLOCK FALSE
