-------------------------- MODULE WorldRepositories --------------------------
(***************************************************************************)
(* maps_, map_tiles_, locations_, players_ and settings_repository of the  *)
(* world (world/src/repositories).  The coordinates of a location, and the *)
(* tile and the coordinates of a map tile, are one value.                  *)
(***************************************************************************)
EXTENDS Tables

CONSTANT UserIds \* user ids of the backend, to which the world has no foreign key

WorldTables == {"maps", "map_tiles", "locations", "players", Settings}

Maps == [map_name : Names]
MapTiles == [map_id : Nat, tile : Values]
Locations == [map_id : Nat, at : Values]
Players == [user_id : UserIds, location_id : Nat, player_name : Names]

InsertMap(map) == Insert("maps", map, TRUE)

UpdateMap(id, map) == Update("maps", id, map, TRUE)

(* get_map by name escapes the name and does not quote it: PostgreSQL reads*)
(* it as an expression, which throws if it is none, as the name of a column*)
(* that does not exist is, and finds other maps or none if it is one.      *)
GetMapByName(name) == Throw \/ Query

\* The foreign keys to maps.
OnAMap(row) == row.map_id \in Ids("maps")

InsertTile(tile) == Insert("map_tiles", tile, OnAMap(tile))

UpdateTile(id, tile) == Update("map_tiles", id, tile, OnAMap(tile))

InsertLocation(loc) == Insert("locations", loc, OnAMap(loc))

UpdateLocation(id, loc) == Update("locations", id, loc, OnAMap(loc))

OnMap(t, map_id) == {i \in Ids(t) : work[t][i].map_id = map_id}

(* get_tiles_for_map and get_locations_by_map_id return a vector with as   *)
(* many elements as the query has rows, and the loop over the rows copies  *)
(* result[0] into each.                                                    *)
CopiesOfTheFirst(t, ids) == {[i \in 1 .. Cardinality(ids) |-> row] : row \in FirstRows(t, ids)}

GetTilesForMap(map_id) ==
    LET found == OnMap("map_tiles", map_id) IN
    IF found = {} THEN {<<>>} ELSE CopiesOfTheFirst("map_tiles", found)

GetLocationsByMapId(map_id) ==
    LET found == OnMap("locations", map_id) IN
    IF found = {} THEN {<<>>} ELSE CopiesOfTheFirst("locations", found)

-----------------------------------------------------------------------------
Named(name) == {i \in Ids("players") : work["players"][i].player_name = name}

\* The foreign key to locations.
Located(location_id) == location_id \in Ids("locations")

\* A mutation: no ON CONFLICT, and no constraint on names.
InsertPlayerAlways(plyr) == Insert("players", plyr, Located(plyr.location_id))

(* ON CONFLICT (player_name) DO UPDATE: the player with this name, which   *)
(* may be another user's, gets the user and the location.                  *)
InsertOrUpdatePlayer(plyr) ==
    IF Named(plyr.player_name) = {} \/ ~Located(plyr.location_id)
    THEN Insert("players", plyr, Located(plyr.location_id))
    ELSE /\ Statement /\ serial["players"] <= MaxId
         /\ serial' = [serial EXCEPT !["players"] = @ + 1]
         /\ work' = [work EXCEPT !["players"] =
                [i \in DOMAIN @ |-> IF i \in Named(plyr.player_name) THEN plyr ELSE @[i]]]
         /\ UNCHANGED <<rows, open>>

\* The name of a player is not updated.
UpdatePlayer(id, plyr) ==
    LET row == [plyr EXCEPT !.player_name = work["players"][id].player_name] IN
    Update("players", id, IF id \in Ids("players") THEN row ELSE plyr, Located(plyr.location_id))

\* A mutation: maps are not joined on the map of the location.
JoinEveryMap(ids) ==
    {j \in ids \X Ids("locations") \X Ids("maps") : work["players"][j[1]].location_id = j[2]}

(* FROM players INNER JOIN locations INNER JOIN maps.                      *)
JoinLocation(ids) ==
    {j \in ids \X Ids("locations") \X Ids("maps") :
        /\ work["players"][j[1]].location_id = j[2]
        /\ work["locations"][j[2]].map_id = j[3]}

GetPlayerByName(name, location) ==
    IF location THEN {j[1] : j \in JoinLocation(Named(name))} ELSE Named(name)

OfUser(user_id) == {i \in Ids("players") : work["players"][i].user_id = user_id}

\* The vector has an element for every row: a player with two rows would be in it twice.
GetPlayersByUserId(user_id) == OfUser(user_id)
GetPlayersWithLocation(user_id) == JoinLocation(OfUser(user_id))

\* Other tables cannot be included: get_player by name and get_players_by_user_id throw.
GetPlayerWithItems(name) == Throw

WorldStatement ==
    \/ \E name \in Names :
        \/ InsertMap([map_name |-> name]) \/ GetMapByName(name) \/ GetPlayerWithItems(name)
        \/ \E id \in 1 .. MaxId : UpdateMap(id, [map_name |-> name])
        \/ \E value \in Values : InsertOrUpdateSetting(name, value)
    \/ \E map \in 1 .. MaxId, value \in Values :
        \/ InsertTile([map_id |-> map, tile |-> value])
        \/ InsertLocation([map_id |-> map, at |-> value])
        \/ \E id \in 1 .. MaxId :
            \/ UpdateTile(id, [map_id |-> map, tile |-> value])
            \/ UpdateLocation(id, [map_id |-> map, at |-> value])
    \/ \E user \in UserIds, loc \in 1 .. MaxId, name \in Names :
        LET plyr == [user_id |-> user, location_id |-> loc, player_name |-> name] IN
        \/ InsertOrUpdatePlayer(plyr)
        \/ \E id \in 1 .. MaxId : UpdatePlayer(id, plyr)
==============================================================================
