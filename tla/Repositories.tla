---------------------------- MODULE Repositories -----------------------------
(***************************************************************************)
(* A server with its database: handlers open a transaction, call           *)
(* repositories with it and commit, or leave without a commit.  The two    *)
(* servers have a database each, so a behaviour is of one of them.  The    *)
(* queries change nothing: they are operators, compared in every state with*)
(* what their names promise.                                               *)
(***************************************************************************)
EXTENDS BackendRepositories, WorldRepositories

VARIABLE server \* the server whose database this is

vars == <<server, dbVars>>

Init ==
    /\ server \in {"backend", "world"}
    /\ InitTables(IF server = "backend" THEN BackendTables ELSE WorldTables)

Next ==
    /\ \/ CreateTransaction \/ Commit \/ Abort
       \/ server = "backend" /\ BackendStatement
       \/ server = "world" /\ WorldStatement
    /\ UNCHANGED server

Spec == Init /\ [][Next]_vars

-----------------------------------------------------------------------------
RowsOf == [users |-> Users, banned_users |-> Bans, maps |-> Maps, map_tiles |-> MapTiles,
           locations |-> Locations, players |-> Players, settings |-> Values]

(* Rows are of their table's type, ids below the sequence, and what the    *)
(* handlers rely on holds in a transaction as well as after it: names of   *)
(* users and players are unique, and what a row refers to exists.          *)
TypeOK ==
    /\ open \in BOOLEAN /\ written \in 0 .. MaxStatements
    /\ open \/ work = rows
    /\ \A t \in DOMAIN work :
        /\ \A i \in Ids(t) : work[t][i] \in RowsOf[t]
        /\ t # Settings => Ids(t) \subseteq 1 .. serial[t] - 1
        /\ DOMAIN rows[t] \subseteq Ids(t)
    /\ server = "backend" =>
        /\ \A i, j \in Ids("users") : work["users"][i].username = work["users"][j].username => i = j
        /\ \A b \in Ids("banned_users") : UserExists(work["banned_users"][b])
    /\ server = "world" =>
        /\ \A t \in {"map_tiles", "locations"} : \A i \in Ids(t) : OnAMap(work[t][i])
        /\ \A name \in Names : Cardinality(Named(name)) <= 1
        /\ \A p \in Ids("players") : Located(work["players"][p].location_id)

(* An id names one row: a row that is new has an id that the sequence gave *)
(* to no row before, not even to one of a transaction that was aborted, and*)
(* it keeps its id until its transaction is aborted, or for ever once it   *)
(* is committed.  A statement writes to one table.                         *)
IdsAreGivenOnce ==
    [][/\ \A t \in DOMAIN work :
            /\ t # Settings => \A i \in DOMAIN work'[t] \ Ids(t) : i >= serial[t] /\ i < serial'[t]
            /\ DOMAIN rows[t] \subseteq DOMAIN rows'[t]
            /\ open' => Ids(t) \subseteq DOMAIN work'[t]
       /\ open /\ open' =>
            \A t, u \in DOMAIN work : work'[t] # work[t] /\ work'[u] # work[u] => t = u]_vars

(* is_username_or_ip_banned finds a ban exactly when one that has an end,  *)
(* and whose end is not over, is for the address or for the user of that   *)
(* name: a ban without an end is never found, and other users' bans are    *)
(* not, however the join pairs them with NULL.                             *)
Applies(ban, name, ip) ==
    \/ ip # Null /\ ban.ip = ip
    \/ /\ name # Null /\ ban.user_id # Null
       /\ work["users"][ban.user_id].username = name

BansAreFound ==
    server = "backend" =>
        \A name \in Names \cup {Null}, ip \in Ips \cup {Null}, now \in Times :
            name # Null \/ ip # Null =>
                IsUsernameOrIpBanned(name, ip, now) =
                    {b \in Ids("banned_users") :
                        LET ban == work["banned_users"][b] IN
                        ban.until # Null /\ ban.until >= now /\ Applies(ban, name, ip)}

(* The vector of a map's tiles or locations has as many elements as there  *)
(* are, and holds none of another map; the vectors of a user's players have*)
(* every player once, with the location joined or not.  That every tile is *)
(* in the vector is not said: the code copies one of them.                 *)
Holds(list, t, found) ==
    /\ DOMAIN list = 1 .. Cardinality(found)
    /\ \A k \in DOMAIN list : \E i \in found : list[k] = work[t][i]

ListsHoldFoundRows ==
    server = "world" =>
        /\ \A map \in Ids("maps") :
            /\ \A list \in GetTilesForMap(map) :
                Holds(list, "map_tiles", OnMap("map_tiles", map))
            /\ \A list \in GetLocationsByMapId(map) :
                Holds(list, "locations", OnMap("locations", map))
        /\ \A user \in UserIds :
            /\ {j[1] : j \in GetPlayersWithLocation(user)} = GetPlayersByUserId(user)
            /\ Cardinality(GetPlayersWithLocation(user)) = Cardinality(GetPlayersByUserId(user))
==============================================================================
