------------------------------- MODULE Backend -------------------------------
(***************************************************************************)
(* The backend servers and their database (backend/src): users log in,     *)
(* register and create characters.  Each server handles one message at a   *)
(* time; all of them share the tables.  A transaction is READ COMMITTED,   *)
(* and what it has not committed when its handler returns is rolled back.  *)
(***************************************************************************)
EXTENDS Kafka

CONSTANTS
    UserNames,      \* user names
    Stored,         \* the users in the table at first, in order of their ids
    Banned,         \* user names with a ban that has not ended
    Settings,       \* what the rows of settings may say
    Nothing         \* no message, no row, no number

VARIABLES
    settings,   \* the rows of settings, which no server writes
    users,      \* the committed rows of users, by id
    lastId,     \* the sequence behind users.id
    place,      \* where each backend is
    work,       \* the message it handles
    read,       \* the no_of_players it read
    inserted,   \* the row its open transaction inserted
    forwarded   \* history: create_character messages sent on, by user id

backendVars == <<settings, users, lastId, place, work, read, inserted, forwarded>>

ASSUME BackendAssumption ==
    /\ Stored \in Seq(UserNames)
    /\ \A i, j \in DOMAIN Stored : Stored[i] = Stored[j] => i = j
    /\ Banned \subseteq UserNames
    /\ Settings \subseteq [max : Nat \cup {Nothing}, world : Worlds \cup {ANY}]
    /\ Nothing \notin Nat

\* max_characters_per_user, Nothing if stoi refuses its text, and starting_world_id: the id
\* of a world or, as in the seed of the repository, 0.
MaxCharacters == settings.max
StartingWorld == settings.world

BackendInit ==
    /\ settings \in Settings
    /\ users = [i \in DOMAIN Stored |-> [username |-> Stored[i], players |-> 0]]
    /\ lastId = Len(Stored)
    /\ place = [b \in Backends |-> "idle"]
    /\ work = [b \in Backends |-> Nothing]
    /\ read = [b \in Backends |-> 0]
    /\ inserted = [b \in Backends |-> Nothing]
    /\ forwarded = [i \in DOMAIN Stored |-> 0]

\* users_repository::get_user, by name and by id.
Named(name) == {i \in DOMAIN users : users[i].username = name}
Known(id) == id \in DOMAIN users

Goto(b, to) == place' = [place EXCEPT ![b] = to]

\* The consumer thread's loop; what no handler is registered for is dropped.
BackendTake(b) ==
    /\ place[b] = "idle"
    /\ Consume(b)
    /\ work' = [work EXCEPT ![b] = Head(inbox[b])]
    /\ Goto(b, IF Head(inbox[b]).kind \in {"login", "register", "create_character"}
               THEN "handling" ELSE "idle")
    /\ UNCHANGED <<settings, users, lastId, read, inserted, forwarded>>

Handling(b, kind) == place[b] = "handling" /\ work[b].kind = kind

\* An answer to the gateway that asked, and the handler returns.
Reply(b, kind, user) ==
    /\ Publish(ServerTopic(work[b].origin), Answer(work[b], kind, b, user))
    /\ Goto(b, "idle")

Error(b) == Reply(b, "error_response", 0)

\* Mutant: a wrong password is not answered.
BackendLoginSilent(b) ==
    /\ Handling(b, "login")
    /\ \/ Goto(b, "idle") /\ UNCHANGED kafkaVars
       \/ /\ work[b].name \notin Banned
          /\ \E i \in Named(work[b].name) : Reply(b, "login_response", i)
    /\ UNCHANGED <<settings, users, lastId, work, read, inserted, forwarded>>

\* A ban, an unknown user, a wrong password and a failing database: an error.
BackendLogin(b) ==
    /\ Handling(b, "login")
    /\ \/ Error(b)
       \/ /\ work[b].name \notin Banned
          /\ \E i \in Named(work[b].name) : Reply(b, "login_response", i)
    /\ UNCHANGED <<settings, users, lastId, work, read, inserted, forwarded>>

\* Mutant: the id is one more than the greatest in the table.
BackendRegisterMaxId(b) ==
    /\ Handling(b, "register")
    /\ \/ Error(b) /\ UNCHANGED <<lastId, inserted>>
       \/ /\ work[b].name \notin Banned
          /\ Named(work[b].name) = {}
          /\ lastId' = Len(users) + 1
          /\ inserted' = [inserted EXCEPT ![b] =
                             [id |-> Len(users) + 1, username |-> work[b].name]]
          /\ Goto(b, "registered")
          /\ UNCHANGED kafkaVars
    /\ UNCHANGED <<settings, users, work, read, forwarded>>

(* The insert takes the next id, whether or not there is a conflict; it     *)
(* waits for a transaction that inserted the same name to end.             *)
BackendRegister(b) ==
    /\ Handling(b, "register")
    /\ \/ Error(b) /\ UNCHANGED <<lastId, inserted>>
       \/ /\ work[b].name \notin Banned
          /\ \A c \in Backends : inserted[c] # Nothing => inserted[c].username # work[b].name
          /\ lastId' = lastId + 1
          /\ \/ /\ Named(work[b].name) # {}
                /\ Error(b)
                /\ UNCHANGED inserted
             \/ /\ Named(work[b].name) = {}
                /\ inserted' = [inserted EXCEPT ![b] =
                                   [id |-> lastId + 1, username |-> work[b].name]]
                /\ Goto(b, "registered")
                /\ UNCHANGED kafkaVars
    /\ UNCHANGED <<settings, users, work, read, forwarded>>

\* The answer is sent; then the transaction, which nobody commits, ends.
BackendRegistered(b) ==
    /\ place[b] = "registered"
    /\ Reply(b, "register_response", inserted[b].id)
    /\ inserted' = [inserted EXCEPT ![b] = Nothing]
    /\ UNCHANGED <<settings, users, lastId, work, read, forwarded>>

(* The user's count of characters is read and compared with the limit.      *)
(* What stoi throws is no runtime_error: it leaves the handler, is caught   *)
(* and logged in main's loop, and nobody is answered ...                   *)
BackendCreateCharacter(b) ==
    /\ Handling(b, "create_character")
    /\ \/ Error(b) /\ UNCHANGED read
       \/ /\ Known(work[b].user) /\ MaxCharacters = Nothing
          /\ Goto(b, "idle")
          /\ UNCHANGED <<read, kafkaVars>>
       \/ /\ Known(work[b].user) /\ MaxCharacters # Nothing
          /\ users[work[b].user].players < MaxCharacters
          /\ read' = [read EXCEPT ![b] = users[work[b].user].players]
          /\ Goto(b, "counted")
          /\ UNCHANGED kafkaVars
    /\ UNCHANGED <<settings, users, lastId, work, inserted, forwarded>>

\* Mutant: the transaction is not committed.
CommitCountForgotten(b) ==
    /\ place[b] = "counted"
    /\ Goto(b, "committed")
    /\ UNCHANGED <<settings, users, kafkaVars, lastId, work, read, inserted, forwarded>>

(* ... written back with one more, and committed.  When a commit fails the  *)
(* client is told so, and the row may have changed or not.                 *)
CommitCount(b) ==
    /\ place[b] = "counted"
    /\ LET counted == [users EXCEPT ![work[b].user].players = read[b] + 1]
       IN  \/ users' = counted /\ Goto(b, "committed") /\ UNCHANGED kafkaVars
           \/ users' \in {users, counted} /\ Error(b)
    /\ UNCHANGED <<settings, lastId, work, read, inserted, forwarded>>

\* The message goes on to the starting world, with the gateway as destination.  A server
\* with the id 0 does not exist.
ForwardCharacter(b) ==
    /\ place[b] = "committed"
    /\ Publish(ServerTopic(StartingWorld),
               [work[b] EXCEPT !.origin = b, !.destination = work[b].origin])
    /\ forwarded' = [forwarded EXCEPT ![work[b].user] = @ + 1]
    /\ Goto(b, "idle")
    /\ UNCHANGED <<settings, users, lastId, work, read, inserted>>

\* Mutant: the transactions of a backend that died stay open.
BackendCrashKeepsInsert(b) ==
    /\ Redeliver(b)
    /\ Goto(b, "idle")
    /\ UNCHANGED <<settings, users, lastId, work, read, inserted, forwarded>>

\* The database ends the transactions of a backend that dies.
BackendCrash(b) ==
    /\ Redeliver(b)
    /\ Goto(b, "idle")
    /\ inserted' = [inserted EXCEPT ![b] = Nothing]
    /\ UNCHANGED <<settings, users, lastId, work, read, forwarded>>

BackendStep(b) ==
    \/ BackendTake(b) \/ BackendLogin(b) \/ BackendRegister(b) \/ BackendRegistered(b)
    \/ BackendCreateCharacter(b) \/ CommitCount(b) \/ ForwardCharacter(b)

=============================================================================
