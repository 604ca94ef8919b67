-------------------------- MODULE RepositoriesProofs --------------------------
(***************************************************************************)
(* For any rows, sequences and statements of either database: what stays   *)
(* true in a transaction and after it, what a statement changes, and what  *)
(* the queries find.                                                       *)
(***************************************************************************)
EXTENDS Repositories, FiniteSetTheorems, TLAPS

TablesOf == IF server = "backend" THEN BackendTables ELSE WorldTables

-----------------------------------------------------------------------------
(* The rows of the database, and of the transaction.                       *)

RowsTyped(w) ==
    /\ DOMAIN w = TablesOf
    /\ \A t \in TablesOf : w[t] \in [DOMAIN w[t] -> RowsOf[t]]

UsersFit(w) ==
    /\ \A i, j \in DOMAIN w["users"] : w["users"][i].username = w["users"][j].username => i = j
    /\ \A b \in DOMAIN w["banned_users"] :
        LET user == w["banned_users"][b].user_id IN user = Null \/ user \in DOMAIN w["users"]

WorldFits(w) ==
    /\ \A t \in {"map_tiles", "locations"} : \A i \in DOMAIN w[t] : w[t][i].map_id \in DOMAIN w["maps"]
    /\ \A i, j \in DOMAIN w["players"] :
        w["players"][i].player_name = w["players"][j].player_name => i = j
    /\ \A p \in DOMAIN w["players"] : w["players"][p].location_id \in DOMAIN w["locations"]

Fits(w) ==
    /\ RowsTyped(w)
    /\ server = "backend" => UsersFit(w)
    /\ server = "world" => WorldFits(w)

(* What a statement or an abort changes nothing about: both copies of the  *)
(* rows fit, and the transaction has the committed rows.                   *)
IInv ==
    /\ server \in {"backend", "world"}
    /\ open \in BOOLEAN /\ written \in 0 .. MaxStatements
    /\ open \/ work = rows
    /\ serial \in [TablesOf -> Nat \ {0}]
    /\ Fits(rows) /\ Fits(work)
    /\ \A t \in TablesOf :
        /\ DOMAIN rows[t] \subseteq Ids(t)
        /\ t # Settings => Ids(t) \subseteq 1 .. serial[t] - 1

-----------------------------------------------------------------------------
(* What a statement does: it puts a row at ids of one table, or it is lost *)
(* with its transaction.                                                   *)

Puts(t, ids, row) ==
    /\ Statement /\ rows' = rows
    /\ open' = open
    /\ DOMAIN work' = DOMAIN work
    /\ \A u \in DOMAIN work \ {t} : work'[u] = work[u]
    /\ work'[t] = [i \in Ids(t) \cup ids |-> IF i \in ids THEN row ELSE work[t][i]]
    /\ \/ serial' = serial /\ (t = Settings \/ ids \subseteq Ids(t))
       \/ /\ t # Settings /\ ids \subseteq Ids(t) \cup {serial[t]}
          /\ serial' = [serial EXCEPT ![t] = @ + 1]

Loses(t) ==
    /\ Statement /\ rows' = rows
    /\ work' = rows /\ open' = FALSE
    /\ serial' = serial \/ (t # Settings /\ serial' = [serial EXCEPT ![t] = @ + 1])

\* The constraints of the tables on what is put.
Others(t, ids) == Ids(t) \ ids

Allowed(t, ids, row) ==
    /\ (\A i, j \in ids : i = j) \/ (t = "banned_users" /\ ids = Ids(t))
    /\ ids # {} =>
        /\ t = "users" => \A i \in Others(t, ids) : work[t][i].username # row.username
        /\ t = "banned_users" => row.user_id = Null \/ row.user_id \in Ids("users")
        /\ t \in {"map_tiles", "locations"} => row.map_id \in Ids("maps")
        /\ t = "players" =>
            /\ row.location_id \in Ids("locations")
            /\ \A i \in Others(t, ids) : work[t][i].player_name # row.player_name

Does(t) ==
    \/ Loses(t)
    \/ \E row \in RowsOf[t] : \E ids : Puts(t, ids, row) /\ Allowed(t, ids, row)

LEMMA WorkTyped ==
    ASSUME IInv
    PROVE  /\ DOMAIN work = TablesOf /\ DOMAIN rows = TablesOf
           /\ \A t \in TablesOf : work[t] = [i \in Ids(t) |-> work[t][i]]
           /\ \A t \in TablesOf : \A i \in Ids(t) : work[t][i] \in RowsOf[t]
  BY DEF IInv, Fits, RowsTyped, Ids

LEMMA InsertPuts ==
    ASSUME IInv, NEW t \in TablesOf \ {Settings}, NEW row, NEW allowed \in BOOLEAN,
           Insert(t, row, allowed)
    PROVE  Loses(t) \/ (allowed /\ serial[t] \notin Ids(t) /\ Puts(t, {serial[t]}, row))
<1>1. /\ Statement /\ rows' = rows
      /\ work' = IF allowed THEN [work EXCEPT ![t] = WithRow(work[t], serial[t], row)] ELSE rows
      /\ open' = allowed /\ open
      /\ serial' = [serial EXCEPT ![t] = @ + 1]
  BY DEF Insert, Statement
<1>2. t \in DOMAIN work
  BY WorkTyped
<1>3. CASE allowed
  <2>1. work' = [work EXCEPT ![t] = WithRow(work[t], serial[t], row)]
    BY <1>1, <1>3
  <2>2. work'[t] = WithRow(work[t], serial[t], row)
    BY <2>1, <1>2
  <2>3. WithRow(work[t], serial[t], row)
          = [i \in Ids(t) \cup {serial[t]} |-> IF i \in {serial[t]} THEN row ELSE work[t][i]]
    BY DEF WithRow, Ids
  <2>4. open' = open
    BY <1>1, <1>3, Zenon
  <2>5. Puts(t, {serial[t]}, row)
    BY <1>1, <2>1, <2>2, <2>3, <2>4 DEF Puts
  <2>6. serial[t] \notin Ids(t)
    BY DEF IInv
  <2>7. QED
    BY <2>5, <2>6, <1>3
<1>4. CASE ~allowed
  <2>1. work' = rows
    BY <1>1, <1>4
  <2>2. open' = FALSE
    BY <1>1, <1>4
  <2>3. QED
    BY <1>1, <2>1, <2>2 DEF Loses
<1>5. QED
  BY <1>3, <1>4

LEMMA WritePuts ==
    ASSUME IInv, NEW t \in TablesOf, NEW row, NEW ids,
           ids \subseteq Ids(t) \/ t = Settings,
           Write(t, [i \in Ids(t) \cup ids |-> IF i \in ids THEN row ELSE work[t][i]])
    PROVE  Puts(t, ids, row)
<1>1. t \in DOMAIN work
  BY WorkTyped
<1>2. QED
  BY <1>1 DEF Write, Puts

LEMMA ThrowLoses ==
    ASSUME Throw, NEW t
    PROVE  Loses(t)
  BY DEF Throw, Loses

LEMMA UpdatePuts ==
    ASSUME IInv, NEW t \in TablesOf \ {Settings}, NEW id, NEW row, NEW allowed \in BOOLEAN,
           Update(t, id, row, allowed)
    PROVE  \/ Loses(t)
           \/ id \notin Ids(t) /\ Puts(t, {}, row)
           \/ id \in Ids(t) /\ allowed /\ Puts(t, {id}, row)
<1> DEFINE table == [i \in Ids(t) |-> IF i = id THEN row ELSE work[t][i]]
           Put(ids) == [i \in Ids(t) \cup ids |-> IF i \in ids THEN row ELSE work[t][i]]
<1>1. Throw \/ (~(id \in Ids(t) /\ ~allowed) /\ Write(t, table))
  BY DEF Update
<1>2. CASE Throw
  BY <1>2, ThrowLoses
<1>3. CASE id \notin Ids(t) /\ Write(t, table)
  <2>1. table = Put({})
    BY <1>3
  <2>2. Write(t, Put({}))
    BY <2>1, <1>3
  <2>3. QED
    BY <2>2, <1>3, WritePuts
<1>4. CASE id \in Ids(t) /\ allowed /\ Write(t, table)
  <2>1. table = Put({id})
    BY <1>4
  <2>2. Write(t, Put({id}))
    BY <2>1, <1>4
  <2>3. QED
    BY <2>2, <1>4, WritePuts
<1>5. QED
  BY <1>1, <1>2, <1>3, <1>4

LEMMA DoesIt ==
    ASSUME NEW t, NEW row \in RowsOf[t], NEW ids, Puts(t, ids, row), Allowed(t, ids, row)
    PROVE  Does(t)
  BY DEF Does

LEMMA SettingDoes ==
    ASSUME IInv, NEW name \in Names, NEW value \in Values, InsertOrUpdateSetting(name, value)
    PROVE  Does(Settings)
<1>1. Settings \in TablesOf
  BY DEF IInv, TablesOf, BackendTables, WorldTables
<1>2. WithRow(work[Settings], name, value)
        = [i \in Ids(Settings) \cup {name} |-> IF i \in {name} THEN value ELSE work[Settings][i]]
  BY DEF WithRow, Ids
<1>3. Puts(Settings, {name}, value)
  BY <1>1, <1>2, WritePuts DEF InsertOrUpdateSetting
<1>4. Allowed(Settings, {name}, value)
  BY DEF Allowed, Settings
<1>5. value \in RowsOf[Settings]
  BY DEF RowsOf, Settings
<1>6. QED
  BY <1>3, <1>4, <1>5, DoesIt

-----------------------------------------------------------------------------
(* The backend's statements.                                               *)

LEMMA BackendTyped ==
    ASSUME IInv, server = "backend"
    PROVE  /\ TablesOf = BackendTables
           /\ "users" \in TablesOf \ {Settings} /\ "banned_users" \in TablesOf \ {Settings}
           /\ RowsOf["users"] = Users /\ RowsOf["banned_users"] = Bans
           /\ \A i \in Ids("users") : work["users"][i] \in Users
           /\ \A i \in Ids("banned_users") : work["banned_users"][i] \in Bans
<1>1. /\ TablesOf = BackendTables
      /\ "users" \in TablesOf \ {Settings} /\ "banned_users" \in TablesOf \ {Settings}
  BY DEF TablesOf, BackendTables, Settings
<1>2. RowsOf["users"] = Users /\ RowsOf["banned_users"] = Bans
  BY DEF RowsOf
<1>3. QED
  BY <1>1, <1>2, WorkTyped

LEMMA InsertUserDoes ==
    ASSUME IInv, server = "backend", NEW usr \in Users, InsertUserIfNotExists(usr)
    PROVE  Does("users")
<1> DEFINE t == "users"
           taken == Taken(usr.username, {})
<1>1. InsertUnlessTaken(t, usr, taken)
  BY DEF InsertUserIfNotExists
<1>2. taken \in BOOLEAN
  BY DEF Taken
<1>3. /\ t \in DOMAIN work /\ usr \in RowsOf[t]
      /\ DOMAIN work = TablesOf
  BY BackendTyped, WorkTyped
<1>4. CASE taken
  <2>1. Puts(t, {}, usr)
    <3>1. /\ Statement /\ rows' = rows
          /\ work' = work /\ open' = open /\ serial' = [serial EXCEPT ![t] = @ + 1] /\ t # Settings
      BY <1>1, <1>4 DEF InsertUnlessTaken, Settings
    <3>2. work[t] = [i \in Ids(t) \cup {} |-> IF i \in {} THEN usr ELSE work[t][i]]
      BY <1>3, WorkTyped
    <3>3. QED
      BY <3>1, <3>2 DEF Puts
  <2>2. Allowed(t, {}, usr)
    BY DEF Allowed
  <2>3. QED
    BY <2>1, <2>2, <1>3, DoesIt
<1>5. CASE ~taken
  <2>1. /\ Statement /\ rows' = rows
        /\ work' = [work EXCEPT ![t] = WithRow(work[t], serial[t], usr)] /\ open' = open
        /\ serial' = [serial EXCEPT ![t] = @ + 1] /\ t # Settings
    BY <1>1, <1>5 DEF InsertUnlessTaken, Settings
  <2>2. WithRow(work[t], serial[t], usr)
          = [i \in Ids(t) \cup {serial[t]} |-> IF i \in {serial[t]} THEN usr ELSE work[t][i]]
    BY DEF WithRow, Ids
  <2>3. Puts(t, {serial[t]}, usr)
    BY <2>1, <2>2, <1>3 DEF Puts
  <2>4. Allowed(t, {serial[t]}, usr)
    BY <1>5 DEF Allowed, Others, Taken
  <2>5. QED
    BY <2>3, <2>4, <1>3, DoesIt
<1>6. QED
  BY <1>2, <1>4, <1>5

LEMMA UpdateUserDoes ==
    ASSUME IInv, server = "backend", NEW usr \in Users, NEW id \in 1 .. MaxId, UpdateUser(id, usr)
    PROVE  Does("users")
<1>1. (~Taken(usr.username, {id})) \in BOOLEAN
  BY DEF Taken
<1>2. \/ Loses("users")
      \/ id \notin Ids("users") /\ Puts("users", {}, usr)
      \/ id \in Ids("users") /\ ~Taken(usr.username, {id}) /\ Puts("users", {id}, usr)
  <2> DEFINE free == ~Taken(usr.username, {id})
  <2>1. free \in BOOLEAN
    BY <1>1
  <2>2. Update("users", id, usr, free)
    BY DEF UpdateUser
  <2> HIDE DEF free
  <2>3. \/ Loses("users")
        \/ id \notin Ids("users") /\ Puts("users", {}, usr)
        \/ id \in Ids("users") /\ free /\ Puts("users", {id}, usr)
    BY <2>1, <2>2, UpdatePuts, BackendTyped
  <2>4. QED
    BY <2>3 DEF free
<1>3. Allowed("users", {}, usr)
  BY DEF Allowed
<1>4. ~Taken(usr.username, {id}) => Allowed("users", {id}, usr)
  BY DEF Allowed, Others, Taken
<1>5. usr \in RowsOf["users"]
  BY BackendTyped
<1>6. QED
  BY <1>2, <1>3, <1>4, <1>5, DoesIt DEF Does

LEMMA InsertBanDoes ==
    ASSUME IInv, server = "backend", NEW ban \in Bans, InsertBannedUser(ban)
    PROVE  Does("banned_users")
<1> DEFINE t == "banned_users"
           allowed == UserExists(ban)
<1>1. allowed \in BOOLEAN /\ Insert(t, ban, allowed)
  BY DEF InsertBannedUser, UserExists
<1>2. allowed => Allowed(t, {serial[t]}, ban)
  BY DEF Allowed, UserExists
<1> HIDE DEF allowed
<1>3. Loses(t) \/ (allowed /\ Puts(t, {serial[t]}, ban))
  BY <1>1, InsertPuts, BackendTyped
<1>4. ban \in RowsOf[t]
  BY BackendTyped
<1>5. QED
  BY <1>2, <1>3, <1>4, DoesIt DEF Does

LEMMA UpdateBanDoes ==
    ASSUME IInv, server = "backend", NEW ban \in Bans, UpdateBannedUser(ban)
    PROVE  Does("banned_users")
<1> DEFINE t == "banned_users"
<1>1. ban \in RowsOf[t] /\ t \in TablesOf
  BY BackendTyped
<1>2. CASE Throw
  BY <1>2, ThrowLoses DEF Does
<1>3. CASE /\ Ids(t) = {} \/ UserExists(ban)
           /\ Write(t, [i \in Ids(t) |-> ban])
  <2>1. [i \in Ids(t) |-> ban] = [i \in Ids(t) \cup Ids(t) |-> IF i \in Ids(t) THEN ban ELSE work[t][i]]
    OBVIOUS
  <2>2. Write(t, [i \in Ids(t) \cup Ids(t) |-> IF i \in Ids(t) THEN ban ELSE work[t][i]])
    BY <2>1, <1>3
  <2>3. Puts(t, Ids(t), ban)
    BY <1>1, <2>2, WritePuts
  <2>4. Allowed(t, Ids(t), ban)
    BY <1>3 DEF Allowed, UserExists
  <2>5. QED
    BY <1>1, <2>3, <2>4, DoesIt
<1>4. QED
  BY <1>2, <1>3 DEF UpdateBannedUser

LEMMA BackendDoes ==
    ASSUME IInv, server = "backend", BackendStatement
    PROVE  \E t \in TablesOf : Does(t)
<1>1. Settings \in TablesOf
  BY DEF IInv, TablesOf, BackendTables, WorldTables
<1>2. CASE \E usr \in Users : InsertUserIfNotExists(usr)
  BY <1>2, InsertUserDoes, BackendTyped
<1>3. CASE \E usr \in Users, id \in 1 .. MaxId : UpdateUser(id, usr)
  BY <1>3, UpdateUserDoes, BackendTyped
<1>4. CASE \E ip \in Ips \cup {Null}, user \in 1 .. MaxId \cup {Null}, until \in Times \cup {Null} :
        LET ban == [ip |-> ip, user_id |-> user, until |-> until] IN
        InsertBannedUser(ban) \/ UpdateBannedUser(ban)
  <2>1. PICK ip \in Ips \cup {Null}, user \in 1 .. MaxId \cup {Null}, until \in Times \cup {Null} :
        LET ban == [ip |-> ip, user_id |-> user, until |-> until] IN
        InsertBannedUser(ban) \/ UpdateBannedUser(ban)
    BY <1>4
  <2> DEFINE ban == [ip |-> ip, user_id |-> user, until |-> until]
  <2>2. ban \in Bans
    BY TablesAssumption DEF Bans
  <2>3. InsertBannedUser(ban) \/ UpdateBannedUser(ban)
    BY <2>1
  <2> HIDE DEF ban
  <2>4. QED
    BY <2>2, <2>3, InsertBanDoes, UpdateBanDoes, BackendTyped
<1>5. CASE \E name \in Names, value \in Values : InsertOrUpdateSetting(name, value)
  BY <1>1, <1>5, SettingDoes
<1>6. QED
  BY <1>2, <1>3, <1>4, <1>5 DEF BackendStatement

-----------------------------------------------------------------------------
(* The world's statements.                                                 *)

LEMMA WorldTyped ==
    ASSUME IInv, server = "world"
    PROVE  /\ TablesOf = WorldTables
           /\ {"maps", "map_tiles", "locations", "players"} \subseteq TablesOf \ {Settings}
           /\ RowsOf["maps"] = Maps /\ RowsOf["map_tiles"] = MapTiles
           /\ RowsOf["locations"] = Locations /\ RowsOf["players"] = Players
           /\ \A i \in Ids("players") : work["players"][i] \in Players
           /\ \A i, j \in Ids("players") :
                work["players"][i].player_name = work["players"][j].player_name => i = j
           /\ \A i \in Ids("players") : Located(work["players"][i].location_id)
           /\ \A t \in {"map_tiles", "locations"} : \A i \in Ids(t) : OnAMap(work[t][i])
<1>1. /\ TablesOf = WorldTables
      /\ {"maps", "map_tiles", "locations", "players"} \subseteq TablesOf \ {Settings}
  BY DEF TablesOf, WorldTables, Settings
<1>2. /\ RowsOf["maps"] = Maps /\ RowsOf["map_tiles"] = MapTiles
      /\ RowsOf["locations"] = Locations /\ RowsOf["players"] = Players
  BY DEF RowsOf
<1>3. \A i \in Ids("players") : work["players"][i] \in Players
  BY <1>1, <1>2, WorkTyped
<1>4. WorldFits(work)
  BY DEF IInv, Fits
<1>5. QED
  BY <1>1, <1>2, <1>3, <1>4 DEF WorldFits, Ids, Located, OnAMap

LEMMA InsertDoes ==
    ASSUME IInv, NEW t \in TablesOf \ {Settings}, NEW row \in RowsOf[t], NEW allowed \in BOOLEAN,
           Insert(t, row, allowed), allowed => Allowed(t, {serial[t]}, row)
    PROVE  Does(t)
  BY InsertPuts, DoesIt DEF Does

LEMMA UpdateDoes ==
    ASSUME IInv, NEW t \in TablesOf \ {Settings}, NEW row \in RowsOf[t], NEW id,
           NEW allowed \in BOOLEAN, Update(t, id, row, allowed),
           id \in Ids(t) /\ allowed => Allowed(t, {id}, row)
    PROVE  Does(t)
<1>1. Allowed(t, {}, row)
  BY DEF Allowed
<1>2. QED
  BY <1>1, UpdatePuts, DoesIt DEF Does

LEMMA MapsDo ==
    ASSUME IInv, server = "world", NEW name \in Names,
           \/ InsertMap([map_name |-> name])
           \/ \E id \in 1 .. MaxId : UpdateMap(id, [map_name |-> name])
    PROVE  Does("maps")
<1>1. "maps" \in TablesOf \ {Settings} /\ [map_name |-> name] \in RowsOf["maps"]
  BY WorldTyped DEF Maps
<1>2. \A id : Allowed("maps", {id}, [map_name |-> name])
  BY DEF Allowed
<1>3. CASE InsertMap([map_name |-> name])
  BY <1>1, <1>2, <1>3, InsertDoes DEF InsertMap
<1>4. CASE \E id \in 1 .. MaxId : UpdateMap(id, [map_name |-> name])
  BY <1>1, <1>2, <1>4, UpdateDoes DEF UpdateMap
<1>5. QED
  BY <1>3, <1>4

LEMMA OnMapsDo ==
    ASSUME IInv, server = "world", NEW t \in {"map_tiles", "locations"}, NEW row \in RowsOf[t],
           \/ Insert(t, row, OnAMap(row))
           \/ \E id \in 1 .. MaxId : Update(t, id, row, OnAMap(row))
    PROVE  Does(t)
<1> DEFINE allowed == OnAMap(row)
<1>1. t \in TablesOf \ {Settings}
  BY WorldTyped
<1>2. allowed \in BOOLEAN
  BY DEF OnAMap
<1>3. allowed => \A id : Allowed(t, {id}, row)
  BY DEF Allowed, OnAMap
<1>4. Insert(t, row, allowed) \/ \E id \in 1 .. MaxId : Update(t, id, row, allowed)
  OBVIOUS
<1> HIDE DEF allowed
<1>5. CASE Insert(t, row, allowed)
  BY <1>1, <1>2, <1>3, <1>5, InsertDoes
<1>6. CASE \E id \in 1 .. MaxId : Update(t, id, row, allowed)
  BY <1>1, <1>2, <1>3, <1>6, UpdateDoes
<1>7. QED
  BY <1>4, <1>5, <1>6

LEMMA PlayerDoes ==
    ASSUME IInv, server = "world", NEW plyr \in Players, InsertOrUpdatePlayer(plyr)
    PROVE  Does("players")
<1> DEFINE t == "players"
           name == plyr.player_name
           located == Located(plyr.location_id)
<1>1. t \in TablesOf \ {Settings} /\ plyr \in RowsOf[t] /\ t \in DOMAIN work
  BY WorldTyped, WorkTyped
<1>2. located \in BOOLEAN
  BY DEF Located
<1>3. CASE Insert(t, plyr, located) /\ (Named(name) = {} \/ ~located)
  <2>1. located => Allowed(t, {serial[t]}, plyr)
    BY <1>3 DEF Allowed, Others, Named, Located
  <2> HIDE DEF located
  <2>2. QED
    BY <1>1, <1>2, <1>3, <2>1, InsertDoes
<1>4. CASE /\ Named(name) # {} /\ located
           /\ Statement /\ rows' = rows
           /\ serial' = [serial EXCEPT ![t] = @ + 1]
           /\ work' = [work EXCEPT ![t] = [i \in DOMAIN @ |-> IF i \in Named(name) THEN plyr ELSE @[i]]]
           /\ open' = open
  <2>1. Named(name) \subseteq Ids(t)
    BY DEF Named
  <2>2. work'[t] = [i \in Ids(t) |-> IF i \in Named(name) THEN plyr ELSE work[t][i]]
    BY <1>1, <1>4 DEF Ids
  <2>3. Ids(t) = Ids(t) \cup Named(name)
    BY <2>1
  <2>4. Puts(t, Named(name), plyr)
    BY <1>1, <1>4, <2>1, <2>2, <2>3 DEF Puts
  <2>5. \A i, j \in Named(name) : i = j
    BY WorldTyped DEF Named
  <2>6. Allowed(t, Named(name), plyr)
    BY <1>4, <2>5 DEF Allowed, Others, Named, Located
  <2>7. QED
    BY <1>1, <2>4, <2>6, DoesIt
<1>5. QED
  BY <1>3, <1>4 DEF InsertOrUpdatePlayer

LEMMA UpdatePlayerDoes ==
    ASSUME IInv, server = "world", NEW plyr \in Players, NEW id \in 1 .. MaxId, UpdatePlayer(id, plyr)
    PROVE  Does("players")
<1> DEFINE t == "players"
           kept == [plyr EXCEPT !.player_name = work["players"][id].player_name]
           row == IF id \in Ids(t) THEN kept ELSE plyr
           located == Located(plyr.location_id)
<1>1. t \in TablesOf \ {Settings} /\ RowsOf[t] = Players
  BY WorldTyped
<1>2. located \in BOOLEAN
  BY DEF Located
<1>3. id \in Ids(t) => /\ kept \in Players
                       /\ kept.player_name = work[t][id].player_name
                       /\ kept.location_id = plyr.location_id
  BY WorldTyped DEF Players
<1>4. row \in RowsOf[t]
  BY <1>1, <1>3
<1>5. id \in Ids(t) /\ located => Allowed(t, {id}, row)
  <2>1. SUFFICES ASSUME id \in Ids(t), located
                 PROVE  Allowed(t, {id}, kept)
    OBVIOUS
  <2>2. kept.location_id \in Ids("locations")
    BY <1>3, <2>1 DEF Located
  <2>3. \A i \in Others(t, {id}) : work[t][i].player_name # kept.player_name
    BY <1>3, <2>1, WorldTyped DEF Others
  <2> HIDE DEF kept
  <2>4. QED
    BY <2>2, <2>3 DEF Allowed
<1>6. Update(t, id, row, located)
  BY DEF UpdatePlayer
<1> HIDE DEF row, located
<1>7. QED
  BY <1>1, <1>2, <1>4, <1>5, <1>6, UpdateDoes

LEMMA WorldDoes ==
    ASSUME IInv, server = "world", WorldStatement
    PROVE  Query \/ \E t \in TablesOf : Does(t)
<1>1. Settings \in TablesOf
  BY DEF IInv, TablesOf, BackendTables, WorldTables
<1>2. CASE Throw
  BY <1>1, <1>2, ThrowLoses DEF Does
<1>3. CASE \E name \in Names : \/ InsertMap([map_name |-> name])
                               \/ \E id \in 1 .. MaxId : UpdateMap(id, [map_name |-> name])
  BY <1>3, MapsDo, WorldTyped
<1>4. CASE \E name \in Names, value \in Values : InsertOrUpdateSetting(name, value)
  BY <1>1, <1>4, SettingDoes
<1>5. CASE \E map \in 1 .. MaxId, value \in Values :
        \/ InsertTile([map_id |-> map, tile |-> value])
        \/ \E id \in 1 .. MaxId : UpdateTile(id, [map_id |-> map, tile |-> value])
  <2>1. PICK map \in 1 .. MaxId, value \in Values :
        \/ InsertTile([map_id |-> map, tile |-> value])
        \/ \E id \in 1 .. MaxId : UpdateTile(id, [map_id |-> map, tile |-> value])
    BY <1>5
  <2>2. [map_id |-> map, tile |-> value] \in RowsOf["map_tiles"]
    <3>1. map \in Nat
      BY TablesAssumption
    <3>2. [map_id |-> map, tile |-> value] \in MapTiles
      BY <3>1 DEF MapTiles
    <3>3. QED
      BY <3>2, WorldTyped
  <2>3. QED
    BY <2>1, <2>2, OnMapsDo, WorldTyped DEF InsertTile, UpdateTile
<1>6. CASE \E map \in 1 .. MaxId, value \in Values :
        \/ InsertLocation([map_id |-> map, at |-> value])
        \/ \E id \in 1 .. MaxId : UpdateLocation(id, [map_id |-> map, at |-> value])
  <2>1. PICK map \in 1 .. MaxId, value \in Values :
        \/ InsertLocation([map_id |-> map, at |-> value])
        \/ \E id \in 1 .. MaxId : UpdateLocation(id, [map_id |-> map, at |-> value])
    BY <1>6
  <2>2. [map_id |-> map, at |-> value] \in RowsOf["locations"]
    <3>1. map \in Nat
      BY TablesAssumption
    <3>2. [map_id |-> map, at |-> value] \in Locations
      BY <3>1 DEF Locations
    <3>3. QED
      BY <3>2, WorldTyped
  <2>3. QED
    BY <2>1, <2>2, OnMapsDo, WorldTyped DEF InsertLocation, UpdateLocation
<1>7. CASE \E user \in UserIds, loc \in 1 .. MaxId, name \in Names :
        LET plyr == [user_id |-> user, location_id |-> loc, player_name |-> name] IN
        InsertOrUpdatePlayer(plyr) \/ \E id \in 1 .. MaxId : UpdatePlayer(id, plyr)
  <2>1. PICK user \in UserIds, loc \in 1 .. MaxId, name \in Names :
        LET plyr == [user_id |-> user, location_id |-> loc, player_name |-> name] IN
        InsertOrUpdatePlayer(plyr) \/ \E id \in 1 .. MaxId : UpdatePlayer(id, plyr)
    BY <1>7
  <2> DEFINE plyr == [user_id |-> user, location_id |-> loc, player_name |-> name]
  <2>2. plyr \in Players
    BY TablesAssumption DEF Players
  <2>3. InsertOrUpdatePlayer(plyr) \/ \E id \in 1 .. MaxId : UpdatePlayer(id, plyr)
    BY <2>1
  <2> HIDE DEF plyr
  <2>4. QED
    BY <2>2, <2>3, PlayerDoes, UpdatePlayerDoes, WorldTyped
<1>8. QED
  BY <1>2, <1>3, <1>4, <1>5, <1>6, <1>7 DEF WorldStatement, GetMapByName, GetPlayerWithItems

-----------------------------------------------------------------------------
(* The invariant.                                                          *)

LEMMA ServersDo ==
    ASSUME IInv, \/ server = "backend" /\ BackendStatement
                 \/ server = "world" /\ WorldStatement
    PROVE  Query \/ \E t \in TablesOf : Does(t)
  BY BackendDoes, WorldDoes

LEMMA PutRows ==
    ASSUME IInv, NEW t \in TablesOf, NEW row \in RowsOf[t], NEW ids, Puts(t, ids, row)
    PROVE  /\ DOMAIN work' = TablesOf
           /\ \A u \in TablesOf \ {t} : work'[u] = work[u]
           /\ DOMAIN work'[t] = Ids(t) \cup ids
           /\ \A i \in ids : work'[t][i] = row
           /\ \A i \in Others(t, ids) : work'[t][i] = work[t][i]
           /\ \A u \in TablesOf : Ids(u) \subseteq DOMAIN work'[u]
           /\ \A u \in TablesOf : work'[u] \in [DOMAIN work'[u] -> RowsOf[u]]
<1>1. /\ DOMAIN work' = TablesOf
      /\ \A u \in TablesOf \ {t} : work'[u] = work[u]
      /\ work'[t] = [i \in Ids(t) \cup ids |-> IF i \in ids THEN row ELSE work[t][i]]
  BY WorkTyped DEF Puts
<1>2. /\ DOMAIN work'[t] = Ids(t) \cup ids
      /\ \A i \in ids : work'[t][i] = row
      /\ \A i \in Others(t, ids) : work'[t][i] = work[t][i]
  BY <1>1 DEF Others
<1>3. \A u \in TablesOf : Ids(u) \subseteq DOMAIN work'[u]
  BY <1>1, <1>2 DEF Ids
<1>4. work'[t] \in [DOMAIN work'[t] -> RowsOf[t]]
  <2>1. \A i \in Ids(t) \cup ids : (IF i \in ids THEN row ELSE work[t][i]) \in RowsOf[t]
    BY WorkTyped
  <2>2. QED
    BY <1>1, <2>1
<1>5. \A u \in TablesOf \ {t} : work'[u] \in [DOMAIN work'[u] -> RowsOf[u]]
  BY <1>1 DEF IInv, Fits, RowsTyped
<1>6. QED
  BY <1>1, <1>2, <1>3, <1>4, <1>5

LEMMA PutsFitUsers ==
    ASSUME IInv, server = "backend", NEW t \in TablesOf, NEW row \in RowsOf[t], NEW ids,
           Puts(t, ids, row), Allowed(t, ids, row)
    PROVE  UsersFit(work')
<1>1. UsersFit(work) /\ {"users", "banned_users"} \subseteq TablesOf
  BY BackendTyped DEF IInv, Fits
<1>2. /\ \A u \in TablesOf \ {t} : work'[u] = work[u]
      /\ DOMAIN work'[t] = Ids(t) \cup ids
      /\ \A i \in ids : work'[t][i] = row
      /\ \A i \in Others(t, ids) : work'[t][i] = work[t][i]
      /\ \A u \in TablesOf : Ids(u) \subseteq DOMAIN work'[u]
  BY PutRows
<1>3. \A i, j \in DOMAIN work'["users"] :
        work'["users"][i].username = work'["users"][j].username => i = j
  <2>1. CASE t # "users"
    BY <1>1, <1>2, <2>1 DEF UsersFit
  <2>2. CASE t = "users"
    <3>1. /\ \A i, j \in ids : i = j
          /\ ids # {} => \A i \in Others(t, ids) : work[t][i].username # row.username
      BY <2>2 DEF Allowed
    <3>2. DOMAIN work'[t] = Others(t, ids) \cup ids
      BY <1>2 DEF Others
    <3>3. \A i, j \in Others(t, ids) : work[t][i].username = work[t][j].username => i = j
      BY <1>1, <2>2 DEF UsersFit, Others, Ids
    <3>4. QED
      BY <1>2, <2>2, <3>1, <3>2, <3>3
  <2>3. QED
    BY <2>1, <2>2
<1>4. ASSUME NEW b \in DOMAIN work'["banned_users"]
      PROVE  LET user == work'["banned_users"][b].user_id IN user = Null \/ user \in DOMAIN work'["users"]
  <2>1. CASE t # "banned_users"
    <3>1. work'["banned_users"] = work["banned_users"]
      BY <1>1, <1>2, <2>1
    <3>2. LET user == work["banned_users"][b].user_id IN user = Null \/ user \in Ids("users")
      BY <1>1, <1>4, <3>1 DEF UsersFit, Ids
    <3>3. QED
      BY <1>1, <1>2, <3>1, <3>2
  <2>2. CASE t = "banned_users" /\ b \in ids
    <3>1. work'["banned_users"][b] = row
      BY <1>2, <2>2
    <3>2. row.user_id = Null \/ row.user_id \in Ids("users")
      BY <2>2 DEF Allowed
    <3>3. QED
      BY <1>1, <1>2, <3>1, <3>2
  <2>3. CASE t = "banned_users" /\ b \notin ids
    <3>1. b \in Others(t, ids) /\ b \in Ids("banned_users")
      BY <1>2, <1>4, <2>3 DEF Others
    <3>2. work'["banned_users"][b] = work["banned_users"][b]
      BY <1>2, <2>3, <3>1
    <3>3. LET user == work["banned_users"][b].user_id IN user = Null \/ user \in Ids("users")
      BY <1>1, <3>1 DEF UsersFit, Ids
    <3>4. QED
      BY <1>1, <1>2, <3>2, <3>3
  <2>4. QED
    BY <2>1, <2>2, <2>3
<1>5. QED
  BY <1>3, <1>4 DEF UsersFit

LEMMA PutsFitWorld ==
    ASSUME IInv, server = "world", NEW t \in TablesOf, NEW row \in RowsOf[t], NEW ids,
           Puts(t, ids, row), Allowed(t, ids, row)
    PROVE  WorldFits(work')
<1>1. WorldFits(work) /\ {"maps", "map_tiles", "locations", "players"} \subseteq TablesOf
  BY WorldTyped DEF IInv, Fits
<1>2. /\ \A u \in TablesOf \ {t} : work'[u] = work[u]
      /\ DOMAIN work'[t] = Ids(t) \cup ids
      /\ \A i \in ids : work'[t][i] = row
      /\ \A i \in Others(t, ids) : work'[t][i] = work[t][i]
      /\ \A u \in TablesOf : Ids(u) \subseteq DOMAIN work'[u]
  BY PutRows
<1>3. DOMAIN work'[t] = Others(t, ids) \cup ids /\ Others(t, ids) \subseteq Ids(t)
  BY <1>2 DEF Others
<1>4. ASSUME NEW m \in {"map_tiles", "locations"}, NEW i \in DOMAIN work'[m]
      PROVE  work'[m][i].map_id \in DOMAIN work'["maps"]
  <2>1. \A k \in Ids(m) : work[m][k].map_id \in Ids("maps")
    BY <1>1 DEF WorldFits, Ids
  <2>2. CASE m # t
    <3>1. work'[m] = work[m]
      BY <1>1, <1>2, <2>2
    <3>2. work[m][i].map_id \in Ids("maps")
      BY <1>4, <2>1, <3>1 DEF Ids
    <3>3. QED
      BY <1>1, <1>2, <3>1, <3>2
  <2>3. CASE m = t /\ i \in ids
    <3>1. row.map_id \in Ids("maps")
      BY <2>3 DEF Allowed
    <3>2. QED
      BY <1>1, <1>2, <2>3, <3>1
  <2>4. CASE m = t /\ i \in Others(t, ids)
    <3>1. work'[m][i] = work[m][i] /\ i \in Ids(m)
      BY <1>2, <1>3, <2>4
    <3>2. QED
      BY <1>1, <1>2, <2>1, <3>1
  <2>5. QED
    BY <1>3, <1>4, <2>2, <2>3, <2>4
<1>5. \A i, j \in DOMAIN work'["players"] :
        work'["players"][i].player_name = work'["players"][j].player_name => i = j
  <2>1. CASE t # "players"
    BY <1>1, <1>2, <2>1 DEF WorldFits
  <2>2. CASE t = "players"
    <3>1. /\ \A i, j \in ids : i = j
          /\ ids # {} => \A i \in Others(t, ids) : work[t][i].player_name # row.player_name
      BY <2>2 DEF Allowed
    <3>2. \A i, j \in Others(t, ids) : work[t][i].player_name = work[t][j].player_name => i = j
      BY <1>1, <2>2 DEF WorldFits, Others, Ids
    <3>3. QED
      BY <1>2, <1>3, <2>2, <3>1, <3>2
  <2>3. QED
    BY <2>1, <2>2
<1>6. ASSUME NEW p \in DOMAIN work'["players"]
      PROVE  work'["players"][p].location_id \in DOMAIN work'["locations"]
  <2>1. \A k \in Ids("players") : work["players"][k].location_id \in Ids("locations")
    BY <1>1 DEF WorldFits, Ids
  <2>2. CASE "players" # t
    <3>1. work'["players"] = work["players"]
      BY <1>1, <1>2, <2>2
    <3>2. work["players"][p].location_id \in Ids("locations")
      BY <1>6, <2>1, <3>1 DEF Ids
    <3>3. QED
      BY <1>1, <1>2, <3>1, <3>2
  <2>3. CASE "players" = t /\ p \in ids
    <3>1. row.location_id \in Ids("locations")
      BY <2>3 DEF Allowed
    <3>2. QED
      BY <1>1, <1>2, <2>3, <3>1
  <2>4. CASE "players" = t /\ p \in Others(t, ids)
    <3>1. work'["players"][p] = work["players"][p] /\ p \in Ids("players")
      BY <1>2, <1>3, <2>4
    <3>2. QED
      BY <1>1, <1>2, <2>1, <3>1
  <2>5. QED
    BY <1>3, <1>6, <2>2, <2>3, <2>4
<1>7. QED
  BY <1>4, <1>5, <1>6 DEF WorldFits

LEMMA SerialGrows ==
    ASSUME IInv, NEW t \in TablesOf,
           serial' = serial \/ (t # Settings /\ serial' = [serial EXCEPT ![t] = @ + 1])
    PROVE  /\ serial' \in [TablesOf -> Nat \ {0}]
           /\ \A u \in TablesOf : serial'[u] \in Nat /\ serial[u] \in Nat /\ serial'[u] >= serial[u]
<1>1. serial \in [TablesOf -> Nat \ {0}]
  BY DEF IInv
<1>2. QED
  BY <1>1

LEMMA Counts ==
    ASSUME IInv, Statement
    PROVE  open /\ written' \in 0 .. MaxStatements
  BY TablesAssumption DEF IInv, Statement

LEMMA PutsFit ==
    ASSUME IInv, NEW t \in TablesOf, NEW row \in RowsOf[t], NEW ids,
           Puts(t, ids, row), Allowed(t, ids, row), UNCHANGED server
    PROVE  IInv'
<1>1. TablesOf' = TablesOf
  BY DEF TablesOf
<1>2. /\ open /\ open' = open /\ written' \in 0 .. MaxStatements /\ rows' = rows
  BY Counts DEF Puts
<1>3. Fits(rows)'
  BY <1>1, <1>2 DEF IInv, Fits, RowsTyped, UsersFit, WorldFits
<1>4. Fits(work)'
  <2>1. RowsTyped(work')
    BY PutRows DEF RowsTyped
  <2>2. (server = "backend" => UsersFit(work')) /\ (server = "world" => WorldFits(work'))
    BY PutsFitUsers, PutsFitWorld
  <2>3. Fits(work')
    BY <2>1, <2>2 DEF Fits
  <2>4. QED
    BY <1>1, <2>3 DEF Fits, RowsTyped, UsersFit, WorldFits
<1>5. serial' \in [TablesOf -> Nat \ {0}]
  BY SerialGrows DEF Puts
<1>6. ASSUME NEW u \in TablesOf
      PROVE  /\ DOMAIN rows'[u] \subseteq Ids(u)'
             /\ u # Settings => Ids(u)' \subseteq 1 .. serial'[u] - 1
  <2>1. DOMAIN rows'[u] \subseteq Ids(u)'
    BY <1>2, PutRows DEF IInv, Ids
  <2>2. /\ u # Settings => Ids(u) \subseteq 1 .. serial[u] - 1
        /\ serial'[u] \in Nat /\ serial[u] \in Nat /\ serial'[u] >= serial[u] /\ serial[u] >= 1
        /\ serial \in [TablesOf -> Nat \ {0}]
    BY SerialGrows DEF IInv, Puts
  <2>3. SUFFICES ASSUME u # Settings, NEW i \in DOMAIN work'[u]
                 PROVE  i \in 1 .. serial'[u] - 1
    BY <2>1 DEF Ids
  <2>4. CASE i \in Ids(u)
    <3>1. i \in 1 .. serial[u] - 1
      BY <2>2, <2>3, <2>4
    <3>2. QED
      BY <2>2, <3>1
  <2>5. CASE i \notin Ids(u)
    <3>1. u = t /\ i \in ids
      BY <2>3, <2>5, PutRows DEF Ids
    <3>2. i = serial[t] /\ serial'[t] = serial[t] + 1
      BY <2>2, <2>3, <2>5, <3>1 DEF Puts
    <3>3. QED
      BY <2>2, <3>1, <3>2
  <2>6. QED
    BY <2>4, <2>5
<1>7. QED
  BY <1>1, <1>2, <1>3, <1>4, <1>5, <1>6 DEF IInv

LEMMA LosesFit ==
    ASSUME IInv, NEW t \in TablesOf, Loses(t), UNCHANGED server
    PROVE  IInv'
<1>1. TablesOf' = TablesOf
  BY DEF TablesOf
<1>2. /\ open' = FALSE /\ written' \in 0 .. MaxStatements /\ rows' = rows /\ work' = rows
  BY Counts DEF Loses
<1>3. Fits(rows)' /\ Fits(work)'
  BY <1>1, <1>2 DEF IInv, Fits, RowsTyped, UsersFit, WorldFits
<1>4. serial' \in [TablesOf -> Nat \ {0}]
  BY SerialGrows DEF Loses
<1>5. \A u \in TablesOf :
        /\ serial'[u] \in Nat /\ serial[u] \in Nat /\ serial'[u] >= serial[u]
        /\ DOMAIN rows[u] \subseteq Ids(u)
        /\ u # Settings => Ids(u) \subseteq 1 .. serial[u] - 1
  BY SerialGrows DEF IInv, Loses
<1>6. \A u \in TablesOf :
        /\ DOMAIN rows'[u] \subseteq Ids(u)'
        /\ u # Settings => Ids(u)' \subseteq 1 .. serial'[u] - 1
  BY <1>2, <1>5 DEF Ids
<1>7. QED
  BY <1>1, <1>2, <1>3, <1>4, <1>6 DEF IInv

LEMMA Inductive == Spec => []IInv
<1>1. Init => IInv
  <2>1. SUFFICES ASSUME Init
                 PROVE  IInv
    OBVIOUS
  <2>2. /\ server \in {"backend", "world"} /\ rows = [t \in TablesOf |-> NoRows] /\ work = rows
        /\ open = FALSE /\ serial = [t \in TablesOf |-> 1] /\ written = 0
    BY <2>1 DEF Init, InitTables, TablesOf
  <2>3. DOMAIN rows = TablesOf /\ \A t \in TablesOf : rows[t] = [i \in {} |-> Null]
    BY <2>2 DEF NoRows
  <2>4. RowsTyped(rows)
    BY <2>3 DEF RowsTyped
  <2>5. server = "backend" => {"users", "banned_users"} \subseteq TablesOf
    BY DEF TablesOf, BackendTables
  <2>6. server = "world" => {"map_tiles", "locations", "players"} \subseteq TablesOf
    BY DEF TablesOf, WorldTables
  <2>7. (server = "backend" => UsersFit(rows)) /\ (server = "world" => WorldFits(rows))
    BY <2>3, <2>5, <2>6 DEF UsersFit, WorldFits
  <2>8. serial \in [TablesOf -> Nat \ {0}]
    BY <2>2
  <2>9. Fits(rows) /\ Fits(work)
    BY <2>2, <2>4, <2>7 DEF Fits
  <2>10. \A t \in TablesOf : DOMAIN rows[t] \subseteq Ids(t) /\ Ids(t) \subseteq 1 .. serial[t] - 1
    BY <2>2, <2>3 DEF Ids
  <2>11. written \in 0 .. MaxStatements
    BY <2>2, TablesAssumption
  <2>12. QED
    BY <2>2, <2>8, <2>9, <2>10, <2>11 DEF IInv
<1>2. IInv /\ [Next]_vars => IInv'
  <2>1. SUFFICES ASSUME IInv, [Next]_vars
                 PROVE  IInv'
    OBVIOUS
  <2>2. CASE UNCHANGED vars
    BY <2>1, <2>2 DEF IInv, Fits, RowsTyped, UsersFit, WorldFits, TablesOf, Ids, vars, dbVars
  <2>3. CASE CreateTransaction /\ UNCHANGED server
    BY <2>1, <2>3 DEF IInv, Fits, RowsTyped, UsersFit, WorldFits, TablesOf, Ids, CreateTransaction
  <2>4. CASE Commit /\ UNCHANGED server
    BY <2>1, <2>4 DEF IInv, Fits, RowsTyped, UsersFit, WorldFits, TablesOf, Ids, Commit
  <2>5. CASE Abort /\ UNCHANGED server
    BY <2>1, <2>5 DEF IInv, Fits, RowsTyped, UsersFit, WorldFits, TablesOf, Ids, Abort
  <2>6. CASE /\ \/ server = "backend" /\ BackendStatement
                \/ server = "world" /\ WorldStatement
             /\ UNCHANGED server
    <3>1. CASE Query
      BY <2>1, <2>6, <3>1 DEF IInv, Fits, RowsTyped, UsersFit, WorldFits, TablesOf, Ids, Query,
         dbVars
    <3>2. ASSUME NEW t \in TablesOf, Does(t) PROVE IInv'
      BY <2>1, <2>6, <3>2, PutsFit, LosesFit DEF Does
    <3>3. QED
      BY <2>1, <2>6, <3>1, <3>2, ServersDo
  <2>7. QED
    BY <2>1, <2>2, <2>3, <2>4, <2>5, <2>6 DEF Next
<1>3. QED
  BY <1>1, <1>2, PTL DEF Spec

LEMMA AtMostOne ==
    ASSUME NEW S, \A x, y \in S : x = y
    PROVE  Cardinality(S) \in Nat /\ Cardinality(S) <= 1
<1>1. CASE S = {}
  BY <1>1, FS_EmptySet
<1>2. CASE S # {}
  <2>1. PICK x \in S : S = {x}
    BY <1>2
  <2>2. QED
    BY <2>1, FS_Singleton
<1>3. QED
  BY <1>1, <1>2

(* For any number of rows and statements, and whatever is aborted: the     *)
(* names of users and of players are unique, what a row refers to exists,  *)
(* and ids are below their sequence.                                       *)
THEOREM RowsKeepTheirKeys == Spec => []TypeOK
<1>1. IInv => TypeOK
  <2>1. SUFFICES ASSUME IInv
                 PROVE  TypeOK
    OBVIOUS
  <2>2. \A t \in DOMAIN work :
        /\ \A i \in Ids(t) : work[t][i] \in RowsOf[t]
        /\ t # Settings => Ids(t) \subseteq 1 .. serial[t] - 1
        /\ DOMAIN rows[t] \subseteq Ids(t)
    BY <2>1, WorkTyped DEF IInv
  <2>3. ASSUME server = "backend"
        PROVE  /\ \A i, j \in Ids("users") :
                    work["users"][i].username = work["users"][j].username => i = j
               /\ \A b \in Ids("banned_users") : UserExists(work["banned_users"][b])
    BY <2>1, <2>3 DEF IInv, Fits, UsersFit, UserExists, Ids
  <2>4. ASSUME server = "world"
        PROVE  /\ \A t \in {"map_tiles", "locations"} : \A i \in Ids(t) : OnAMap(work[t][i])
               /\ \A name \in Names : Cardinality(Named(name)) <= 1
               /\ \A p \in Ids("players") : Located(work["players"][p].location_id)
    <3>1. \A name \in Names : \A i, j \in Named(name) : i = j
      BY <2>1, <2>4, WorldTyped DEF Named
    <3>2. QED
      BY <2>1, <2>4, <3>1, WorldTyped, AtMostOne
  <2>5. open \in BOOLEAN /\ written \in 0 .. MaxStatements /\ (open \/ work = rows)
    BY <2>1 DEF IInv
  <2>6. QED
    BY <2>2, <2>3, <2>4, <2>5 DEF TypeOK
<1>2. QED
  BY <1>1, Inductive, PTL

(* A row that is new has an id that was never given, it is kept, and a      *)
(* statement writes to one table: for any rows, statements and aborts.     *)
THEOREM IdsNameOneRow == Spec => IdsAreGivenOnce
<1> DEFINE Kept ==
        /\ \A t \in DOMAIN work :
            /\ t # Settings => \A i \in DOMAIN work'[t] \ Ids(t) : i >= serial[t] /\ i < serial'[t]
            /\ DOMAIN rows[t] \subseteq DOMAIN rows'[t]
            /\ open' => Ids(t) \subseteq DOMAIN work'[t]
        /\ open /\ open' =>
            \A t, u \in DOMAIN work : work'[t] # work[t] /\ work'[u] # work[u] => t = u
<1>1. ASSUME IInv, [Next]_vars
      PROVE  [Kept]_vars
  <2>1. SUFFICES ASSUME Next
                 PROVE  Kept
    BY <1>1
  <2>2. DOMAIN work = TablesOf /\ \A t \in TablesOf : DOMAIN rows[t] \subseteq Ids(t)
    BY <1>1, WorkTyped DEF IInv
  <2>3. CASE work' = work /\ (rows' = rows \/ rows' = work) /\ (open => ~open' \/ rows' = rows)
    BY <2>2, <2>3 DEF Ids
  <2>4. CASE work' = rows /\ rows' = rows /\ ~open'
    BY <2>2, <2>4 DEF Ids
  <2>5. ASSUME NEW t \in TablesOf, NEW row \in RowsOf[t], NEW ids,
               Puts(t, ids, row)
        PROVE  Kept
    <3>1. /\ rows' = rows
          /\ \A u \in TablesOf \ {t} : work'[u] = work[u]
          /\ DOMAIN work'[t] = Ids(t) \cup ids
          /\ \A u \in TablesOf : Ids(u) \subseteq DOMAIN work'[u]
      BY <1>1, <2>5, PutRows DEF Puts
    <3>2. t # Settings => \A i \in DOMAIN work'[t] \ Ids(t) : i >= serial[t] /\ i < serial'[t]
      <4>1. serial \in [TablesOf -> Nat \ {0}]
        BY <1>1 DEF IInv
      <4>2. t # Settings => \/ ids \subseteq Ids(t)
                            \/ /\ ids \subseteq Ids(t) \cup {serial[t]}
                               /\ serial' = [serial EXCEPT ![t] = @ + 1]
        BY <2>5 DEF Puts
      <4>3. QED
        BY <3>1, <4>1, <4>2
    <3>3. QED
      BY <2>2, <3>1, <3>2 DEF Ids
  <2>6. CASE CreateTransaction \/ Commit \/ Query
    BY <2>3, <2>6 DEF CreateTransaction, Commit, Query, dbVars
  <2>7. CASE Abort
    BY <2>4, <2>7 DEF Abort
  <2>8. CASE \/ server = "backend" /\ BackendStatement
             \/ server = "world" /\ WorldStatement
    <3>1. CASE Query
      BY <2>6, <3>1
    <3>2. ASSUME NEW t \in TablesOf, Does(t) PROVE Kept
      <4>1. CASE Loses(t)
        BY <2>4, <4>1 DEF Loses
      <4>2. QED
        BY <3>2, <4>1, <2>5 DEF Does
    <3>3. QED
      BY <1>1, <2>8, <3>1, <3>2, ServersDo
  <2>9. QED
    BY <2>1, <2>6, <2>7, <2>8 DEF Next
<1>2. QED
  BY <1>1, Inductive, PTL DEF Spec, IdsAreGivenOnce

-----------------------------------------------------------------------------
(* The queries.                                                            *)

LEMMA NullIsNoId ==
    ASSUME IInv, server = "backend"
    PROVE  Null \notin Ids("users")
<1>1. Ids("users") \subseteq Nat
  <2>1. Ids("users") \subseteq 1 .. serial["users"] - 1
    BY BackendTyped DEF IInv
  <2>2. QED
    BY <2>1
<1>2. QED
  BY <1>1, TablesAssumption

LEMMA JoinTellsTheUser ==
    ASSUME IInv, server = "backend", NEW name, NEW b \in Ids("banned_users")
    PROVE  LET user == work["banned_users"][b].user_id IN
           (IF user \in GetUserByName(name) THEN user ELSE Null) # Null
             <=> user # Null /\ work["users"][user].username = name
<1> DEFINE user == work["banned_users"][b].user_id
<1>1. user = Null \/ user \in Ids("users")
  BY DEF IInv, Fits, UsersFit, Ids
<1>2. user \in GetUserByName(name) <=> user \in Ids("users") /\ work["users"][user].username = name
  BY DEF GetUserByName
<1>3. QED
  BY <1>1, <1>2, NullIsNoId

(* is_username_or_ip_banned finds exactly the bans that last and are for   *)
(* the address or for the user of that name, for any bans, users and times.*)
THEOREM BansAreTheOnesFound == Spec => []BansAreFound
<1>1. IInv => BansAreFound
  <2>1. SUFFICES ASSUME IInv, server = "backend",
                        NEW name \in Names \cup {Null}, NEW ip \in Ips \cup {Null}, NEW now \in Times,
                        name # Null \/ ip # Null
                 PROVE  IsUsernameOrIpBanned(name, ip, now) =
                          {b \in Ids("banned_users") :
                              LET ban == work["banned_users"][b] IN
                              ban.until # Null /\ ban.until >= now /\ Applies(ban, name, ip)}
    BY DEF BansAreFound
  <2> DEFINE user(b) == work["banned_users"][b].user_id
             joined(b) == IF user(b) \in GetUserByName(name) THEN user(b) ELSE Null
             Her(b) == name # Null /\ user(b) # Null /\ work["users"][user(b)].username = name
             At(b) == ip # Null /\ work["banned_users"][b].ip = ip
  <2>2. {b \in Ids("banned_users") :
            LET ban == work["banned_users"][b] IN
            ban.until # Null /\ ban.until >= now /\ Applies(ban, name, ip)}
          = {b \in Ids("banned_users") : Lasts(b, now) /\ (At(b) \/ Her(b))}
    BY DEF Lasts, Applies
  <2>3. BansLeftJoinUsers(name) = {<<b, joined(b)>> : b \in Ids("banned_users")}
    BY DEF BansLeftJoinUsers
  <2> DEFINE L == BansLeftJoinUsers(name)
  <2>a. ASSUME NEW b \in Ids("banned_users")
        PROVE  \E q \in L : q[1] = b /\ q[2] = joined(b)
    <3> HIDE DEF joined
    <3>1. <<b, joined(b)>> \in L
      BY <2>3
    <3>2. <<b, joined(b)>>[1] = b /\ <<b, joined(b)>>[2] = joined(b)
      OBVIOUS
    <3> HIDE DEF L
    <3>3. QED
      BY <3>1, <3>2
  <2>b. \A q \in L : q[1] \in Ids("banned_users") /\ q[2] = joined(q[1])
    BY <2>3
  <2>4. \A b \in Ids("banned_users") : joined(b) # Null <=> user(b) # Null /\ work["users"][user(b)].username = name
    BY <2>1, JoinTellsTheUser
  <2>5. CASE name # Null /\ ip # Null
    <3>1. IsUsernameOrIpBanned(name, ip, now) = BannedByNameAndIp(name, ip, now)
      BY <2>5 DEF IsUsernameOrIpBanned
    <3>2. BannedByNameAndIp(name, ip, now)
            = {b \in Ids("banned_users") :
                 Lasts(b, now) /\ (joined(b) # Null \/ work["banned_users"][b].ip = ip)}
      BY <2>a, <2>b DEF BannedByNameAndIp
    <3>3. QED
      BY <2>2, <2>4, <2>5, <3>1, <3>2
  <2>6. CASE name # Null /\ ip = Null
    <3>1. IsUsernameOrIpBanned(name, ip, now) = BannedByName(name, now)
      BY <2>6 DEF IsUsernameOrIpBanned
    <3>2. BannedByName(name, now) = {b \in Ids("banned_users") : Lasts(b, now) /\ joined(b) # Null}
      BY <2>a, <2>b DEF BannedByName
    <3>3. QED
      BY <2>2, <2>4, <2>6, <3>1, <3>2
  <2>7. CASE name = Null /\ ip # Null
    <3>1. IsUsernameOrIpBanned(name, ip, now) = BannedByIp(ip, now)
      BY <2>7 DEF IsUsernameOrIpBanned
    <3>2. QED
      BY <2>2, <2>7, <3>1 DEF BannedByIp
  <2>8. QED
    BY <2>1, <2>5, <2>6, <2>7
<1>2. QED
  BY <1>1, Inductive, PTL

LEMMA CopiesHold ==
    ASSUME NEW t, NEW found, found # {}, NEW list \in CopiesOfTheFirst(t, found),
           Cardinality(found) \in Nat
    PROVE  Holds(list, t, found)
  BY DEF CopiesOfTheFirst, FirstRows, Holds

LEMMA IdsAreFinite ==
    ASSUME IInv, NEW t \in TablesOf, t # Settings, NEW S \in SUBSET Ids(t)
    PROVE  IsFiniteSet(S) /\ Cardinality(S) \in Nat
<1>1. Ids(t) \subseteq 1 .. serial[t] - 1 /\ serial[t] - 1 \in Int
  BY DEF IInv
<1>2. IsFiniteSet(1 .. serial[t] - 1)
  BY <1>1, FS_Interval
<1>3. S \subseteq 1 .. serial[t] - 1
  BY <1>1
<1>4. IsFiniteSet(S)
  BY <1>2, <1>3, FS_Subset
<1>5. QED
  BY <1>4, FS_CardinalityType

LEMMA ListsHold ==
    ASSUME IInv, server = "world", NEW t \in {"map_tiles", "locations"}, NEW map,
           NEW list \in (IF OnMap(t, map) = {} THEN {<<>>} ELSE CopiesOfTheFirst(t, OnMap(t, map)))
    PROVE  Holds(list, t, OnMap(t, map))
<1>1. OnMap(t, map) \in SUBSET Ids(t) /\ t \in TablesOf /\ t # Settings
  BY WorldTyped DEF OnMap
<1>2. Cardinality(OnMap(t, map)) \in Nat
  BY <1>1, IdsAreFinite
<1>3. CASE OnMap(t, map) = {}
  <2>1. list = <<>> /\ Cardinality(OnMap(t, map)) = 0
    BY <1>3, FS_EmptySet
  <2>2. DOMAIN list = 1 .. 0
    BY <2>1
  <2>3. QED
    BY <1>3, <2>1, <2>2 DEF Holds
<1>4. CASE OnMap(t, map) # {}
  BY <1>2, <1>4, CopiesHold
<1>5. QED
  BY <1>3, <1>4

(* Every player has one location, and every location one map.              *)
LEMMA JoinsEachOnce ==
    ASSUME IInv, server = "world", NEW S \in SUBSET Ids("players")
    PROVE  /\ {j[1] : j \in JoinLocation(S)} = S
           /\ Cardinality(JoinLocation(S)) = Cardinality(S)
<1> DEFINE loc(p) == work["players"][p].location_id
           map(p) == work["locations"][loc(p)].map_id
           f == [p \in S |-> <<p, loc(p), map(p)>>]
           J == JoinLocation(S)
<1>1. \A p \in S : loc(p) \in Ids("locations") /\ map(p) \in Ids("maps")
  BY WorldTyped DEF Located, OnAMap
<1>2. \A p \in S : f[p] = <<p, loc(p), map(p)>> /\ f[p] \in J
  BY <1>1 DEF JoinLocation
<1>3. \A j \in J : j[1] \in S /\ j = f[j[1]]
  BY DEF JoinLocation
<1>4. \A p \in S : f[p][1] = p
  BY <1>2
<1>5. f \in [S -> J]
  BY <1>2
<1> HIDE DEF f, J
<1>6. {j[1] : j \in J} = S
  <2>1. \A p \in S : p \in {j[1] : j \in J}
    BY <1>2, <1>4
  <2>2. QED
    BY <1>3, <2>1
<1>7. f \in Bijection(S, J)
  <2>1. \A p, q \in S : f[p] = f[q] => p = q
    BY <1>4
  <2>2. \A j \in J : \E p \in S : f[p] = j
    BY <1>3
  <2>3. f \in Injection(S, J)
    BY <1>5, <2>1 DEF Injection, IsInjective
  <2>4. f \in Surjection(S, J)
    BY <1>5, <2>2 DEF Surjection
  <2>5. QED
    BY <2>3, <2>4 DEF Bijection
<1>8. IsFiniteSet(S)
  BY IdsAreFinite, WorldTyped
<1>9. Cardinality(J) = Cardinality(S)
  BY <1>7, <1>8, FS_Bijection DEF ExistsBijection
<1>10. QED
  BY <1>6, <1>9 DEF J

(* The lists of a map have its number of tiles or locations and no others; *)
(* those of a user have each player once, for any rows.                    *)
THEOREM ListsHoldTheirRows == Spec => []ListsHoldFoundRows
<1>1. IInv => ListsHoldFoundRows
  <2>1. SUFFICES ASSUME IInv, server = "world"
                 PROVE  /\ \A map \in Ids("maps") :
                            /\ \A list \in GetTilesForMap(map) :
                                Holds(list, "map_tiles", OnMap("map_tiles", map))
                            /\ \A list \in GetLocationsByMapId(map) :
                                Holds(list, "locations", OnMap("locations", map))
                        /\ \A user \in UserIds :
                            /\ {j[1] : j \in GetPlayersWithLocation(user)} = GetPlayersByUserId(user)
                            /\ Cardinality(GetPlayersWithLocation(user)) = Cardinality(GetPlayersByUserId(user))
    BY DEF ListsHoldFoundRows
  <2>2. ASSUME NEW map
        PROVE  /\ \A list \in GetTilesForMap(map) :
                    Holds(list, "map_tiles", OnMap("map_tiles", map))
               /\ \A list \in GetLocationsByMapId(map) :
                    Holds(list, "locations", OnMap("locations", map))
    BY <2>1, ListsHold DEF GetTilesForMap, GetLocationsByMapId
  <2>3. ASSUME NEW user
        PROVE  /\ {j[1] : j \in GetPlayersWithLocation(user)} = GetPlayersByUserId(user)
               /\ Cardinality(GetPlayersWithLocation(user)) = Cardinality(GetPlayersByUserId(user))
    <3>1. OfUser(user) \in SUBSET Ids("players")
      BY DEF OfUser
    <3>2. QED
      BY <2>1, <3>1, JoinsEachOnce DEF GetPlayersWithLocation, GetPlayersByUserId
  <2>4. QED
    BY <2>2, <2>3
<1>2. QED
  BY <1>1, Inductive, PTL
===============================================================================
