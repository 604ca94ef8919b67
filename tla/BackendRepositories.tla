------------------------- MODULE BackendRepositories -------------------------
(***************************************************************************)
(* users_repository, banned_users_repository and settings_repository of    *)
(* the backend (backend/src/repositories).  Passwords, mail addresses and  *)
(* counters of a user are one value.                                       *)
(***************************************************************************)
EXTENDS Tables

CONSTANTS
    Ips,   \* addresses
    Times  \* seconds at which a ban can end, and at which one can be asked for

BackendTables == {"users", "banned_users", Settings}

Users == [username : Names, value : Values]
Bans == [ip : Ips \cup {Null}, user_id : Nat \cup {Null}, until : Times \cup {Null}]

Taken(name, except) == \E i \in Ids("users") \ except : work["users"][i].username = name

InsertUserIfNotExists(usr) == InsertUnlessTaken("users", usr, Taken(usr.username, {}))

UpdateUser(id, usr) == Update("users", id, usr, ~Taken(usr.username, {id}))

GetUserByName(name) == {i \in Ids("users") : work["users"][i].username = name}

\* The foreign key to users.
UserExists(ban) == ban.user_id = Null \/ ban.user_id \in Ids("users")

InsertBannedUser(ban) == Insert("banned_users", ban, UserExists(ban))

(* UPDATE banned_users SET ip = .., user_id = .., until = .. has no WHERE. *)
UpdateBannedUser(ban) ==
    IF Ids("banned_users") # {} /\ ~UserExists(ban) THEN Throw
    ELSE Write("banned_users", [i \in Ids("banned_users") |-> ban])

\* A mutation: the join is on the id alone.
BansJoinAnyUser(name) ==
    {<<b, work["banned_users"][b].user_id>> : b \in Ids("banned_users")}

(* banned_users LEFT JOIN users: the ban with the id of its user, if that  *)
(* is the user with this name, or with NULL.                               *)
BansLeftJoinUsers(name) ==
    {<<b, IF work["banned_users"][b].user_id \in GetUserByName(name)
          THEN work["banned_users"][b].user_id ELSE Null>> : b \in Ids("banned_users")}

\* bu.until >= now, which NULL is not.
Lasts(b, now) ==
    LET until == work["banned_users"][b].until IN until # Null /\ until >= now

BannedByNameAndIp(name, ip, now) ==
    {p[1] : p \in {q \in BansLeftJoinUsers(name) :
        Lasts(q[1], now) /\ (q[2] # Null \/ work["banned_users"][q[1]].ip = ip)}}

BannedByName(name, now) ==
    {p[1] : p \in {q \in BansLeftJoinUsers(name) : Lasts(q[1], now) /\ q[2] # Null}}

BannedByIp(ip, now) ==
    {b \in Ids("banned_users") : Lasts(b, now) /\ work["banned_users"][b].ip = ip}

(* The bans of which is_username_or_ip_banned returns one; it throws       *)
(* wrong_parameters_exception without a name and an address.               *)
IsUsernameOrIpBanned(name, ip, now) ==
    CASE name # Null /\ ip # Null -> BannedByNameAndIp(name, ip, now)
      [] name # Null /\ ip = Null -> BannedByName(name, now)
      [] name = Null /\ ip # Null -> BannedByIp(ip, now)

BackendStatement ==
    \/ \E usr \in Users : InsertUserIfNotExists(usr)
    \/ \E usr \in Users, id \in 1 .. MaxId : UpdateUser(id, usr)
    \/ \E ip \in Ips \cup {Null}, user \in 1 .. MaxId \cup {Null}, until \in Times \cup {Null} :
        LET ban == [ip |-> ip, user_id |-> user, until |-> until] IN
        InsertBannedUser(ban) \/ UpdateBannedUser(ban)
    \/ \E name \in Names, value \in Values : InsertOrUpdateSetting(name, value)
==============================================================================
