SPECIFICATION FairSpec

CONSTANTS
    Backends = {b1}
    Worlds = {w1, w2}
    Gateways = {g1, g2}
    ANY = ANY
    MaxCrashes = 1
    UserNames = {"ann", "bob", "eve"}
    Stored <- OneStored
    Banned = {"eve"}
    Settings <- ThreeSettings
    Nothing = Nothing
    Players <- SomePlayers
    Clients = {c1}
    CharacterNames = {"ada"}
    Kinds = {"login", "register", "create_character", "get_characters", "play_character"}
    MaxRequests = 2

\* Once the bounds are used up, nothing need happen.
CHECK_DEADLOCK FALSE

INVARIANTS
    TypeOK
    ForwardsWithinCount
    RegisteredIdsAreFresh
    AnswersReachTheAsker
    AnsweredOncePerDelivery
PROPERTIES
    RequestsAreSettled
