SPECIFICATION Spec

CONSTANTS
    Backends = {b1}
    Worlds = {w1}
    Gateways = {g1}
    ANY = ANY
    MaxCrashes = 0
    UserNames = {"ann", "bob"}
    Stored <- OneStored
    Banned = {}
    Settings <- OneSetting
    Nothing = Nothing
    Players <- SomePlayers
    Clients = {c1}
    CharacterNames = {"ada"}
    Kinds = {"play_character"}
    MaxRequests = 1

\* Once the bounds are used up, nothing need happen.
CHECK_DEADLOCK FALSE

INVARIANTS
    WorldErrorsReachAGateway
