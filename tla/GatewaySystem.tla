---------------------------- MODULE GatewaySystem ----------------------------
(***************************************************************************)
(* The gateway with its clients and with the services behind Kafka, which  *)
(* are reduced here to the replies their handlers may give.                *)
(***************************************************************************)
EXTENDS Gateway

(* A service consumes the next message of topic t, which is of kind k, ...  *)
Served(t, k) ==
    /\ topic[t] # <<>>
    /\ Head(topic[t]).kind = k
    /\ out' = {}
    /\ UNCHANGED <<open, slots, nextId, uws, cons, main, producer, quit, uncommitted,
                   frames, gen, signalled, adminSeen>>

\* ... and says nothing ...
Consumed(t) == [topic EXCEPT ![t] = Tail(@)]

Ignore(t, k) == Served(t, k) /\ topic' = Consumed(t)

\* ... or answers the gateway.
Reply(t, k, kind, server, body) ==
    /\ Served(t, k)
    /\ LET m == [Head(topic[t]) EXCEPT !.kind = kind, !.origin = server, !.body = body]
       IN  topic' = [Consumed(t) EXCEPT !["gateway"] = Append(@, m)]

Failed(t, k) == Reply(t, k, "error_response", Origin, <<"failed">>)
Banned(t, k) == Reply(t, k, "error_response", Origin, <<"banned">>)

\* Mutant: the handler swallows a failure.
BackendLoginSilent ==
    \/ Reply("backend_messages", "login", "login_response", Origin, <<>>)
    \/ Ignore("backend_messages", "login")
    \/ Banned("backend_messages", "login")

BackendLogin ==
    \/ Reply("backend_messages", "login", "login_response", Origin, <<>>)
    \/ Failed("backend_messages", "login")
    \/ Banned("backend_messages", "login")

BackendRegister ==
    \/ Reply("backend_messages", "register", "register_response", Origin, <<>>)
    \/ Failed("backend_messages", "register")
    \/ Banned("backend_messages", "register")

\* A success goes on to the starting world, which sends a map or an error; without such a
\* world, or when the limit is no number, nobody answers.
BackendCreateCharacter ==
    \/ Ignore("backend_messages", "create_character")
    \/ Failed("backend_messages", "create_character")
    \/ \E s \in Worlds : Reply("backend_messages", "create_character", "send_map", s, <<>>)

\* A world answers if its database fails or if the user has characters there.
WorldGetCharacters ==
    \/ Ignore("world_messages", "get_characters")
    \/ \E s \in Worlds :
          Reply("world_messages", "get_characters", "error_response", s, <<"failed">>)
    \/ \E s \in Worlds, n \in Names :
          Reply("world_messages", "get_characters", "get_characters_response", s, <<n>>)

\* An error is answered on server-0, which nobody reads.
WorldPlayCharacter(s) ==
    \/ Ignore(s, "play_character")
    \/ Failed(s, "play_character")
    \/ Reply(s, "play_character", "send_map", s, <<>>)

ServiceStep ==
    \/ BackendLogin \/ BackendRegister \/ BackendCreateCharacter \/ WorldGetCharacters
    \/ \E s \in Worlds : WorldPlayCharacter(s)

Next ==
    \/ ClientStep \/ UwsStep \/ ConsumerStep \/ MainStep
    \/ CommitOffsets \/ Sigint \/ Restart \/ ServiceStep

Spec == Init /\ [][Next]_vars

(* The threads and the services keep running; a client need not do anything *)
(* and a signal need not arrive.                                           *)
Fairness ==
    /\ WF_vars(UwsStep)
    /\ WF_vars(ConsumerStep)
    /\ WF_vars(MainStep)
    /\ WF_vars(ServiceStep)

FairSpec == Spec /\ Fairness

-----------------------------------------------------------------------------
(* Every variable keeps its type.                                          *)
TypeOK ==
    /\ open \subseteq Sockets
    /\ slots \in [Slots -> Connections \cup {Free}]
    /\ nextId \in 0 .. MaxIds
    /\ uws.pc \in {"poll", "handle", "stopped"}
    /\ uws.pc = "handle" =>
         uws.ws \in Sockets /\ uws.slot \in Slots /\ uws.conn \in Connections
    /\ cons.pc \in {"poll", "dispatch", "stopped"}
    /\ cons.pc = "dispatch" =>
         /\ cons.slot \in Slots
         /\ cons.msg \in Messages
         /\ cons.todo \subseteq ResponseFields
    /\ main \in {"poll", "closing_producer", "closing_consumer", "waiting",
                 "joining", "returned"}
    /\ producer \in {"open", "closing", "closed"}
    /\ topic \in [Topics -> Seq(Messages)]
    /\ uncommitted \in [Subscribed -> Seq(Messages)]
    /\ frames \in 0 .. MaxFrames /\ gen \in 0 .. MaxRestarts
    /\ {quit, signalled, adminSeen} \subseteq BOOLEAN

(* The table mirrors the sockets: its entries differ in id and in key and   *)
(* are those of open sockets, so that no handler that holds the lock meets *)
(* a closed one; and an open socket that shares its key with no other has  *)
(* an entry.  onConnection, onDisconnection, the error path of onMessage   *)
(* and the ban handler on the other thread keep this between them.         *)
TableMirrorsSockets ==
    /\ \A s \in UsedSlots :
          /\ slots[s].ws \in open
          /\ slots[s].connection_id < nextId
          /\ \A t \in UsedSlots \ {s} :
                /\ slots[s].connection_id # slots[t].connection_id
                /\ KeyOf[slots[s].ws] # KeyOf[slots[t].ws]
    /\ \A w \in open :
          (\A v \in Sockets \ {w} : KeyOf[v] # KeyOf[w])
             => \E s \in UsedSlots : slots[s].ws = w

(* A connection is logged in by the reply to its own request.  The code     *)
(* leaves two ways out: a connection accepted into a slot the consumer     *)
(* thread still refers to, and a reply from before the last restart, which *)
(* gave the ids out anew.                                                  *)
LoggedInByOwnReply ==
    \A s \in UsedSlots :
        LET c == slots[s]
        IN  LoggedIn(c) => \/ c.by = [client |-> c.connection_id, gen |-> gen]
                           \/ c.held
                           \/ c.by.gen < gen

(* A connection that is logged in but has no user id yet, which a request   *)
(* copied then would carry, is seen only while its reply is being written, *)
(* or if it was accepted into the slot meanwhile.                          *)
HalfLoggedInOnlyWhileWriting ==
    \A s \in UsedSlots :
        (LoggedIn(slots[s]) /\ slots[s].user = NoUser)
           => \/ slots[s].held
              \/ cons.pc = "dispatch" /\ cons.slot = s /\ "user" \in cons.todo

(* A frame that answers a request reaches the connection that made it, with *)
(* the same two exceptions; a chat is for whoever is logged in.            *)
FramesReachTheAsker ==
    \A f \in out : \/ f.kind = "chat_receive"
                   \/ f.to = f.for
                   \/ f.held
                   \/ f.for.gen < gen

(* A request that needs a login is on its way only for a connection that is *)
(* logged in, or gone: the guard read a copy, the reply may be half written *)
(* and the request waits in Kafka, but no session is ever taken back.      *)
Privileged == {"chat_send", "create_character", "get_characters", "play_character"}

PrivilegedRequestsAreLoggedIn ==
    \A t \in Topics : \A k \in DOMAIN topic[t] :
        LET m == topic[t][k]
        IN  (m.kind \in Privileged /\ m.gen = gen) =>
              \A s \in UsedSlots :
                 slots[s].connection_id = m.client => LoggedIn(slots[s])

(* The gateway quits on a signal or after an administrator logged in: the   *)
(* flag is the end of a path over admin_status, the client's message, the  *)
(* broadcast topic and a connection with the message's client_id.          *)
QuitNeedsAdmin == quit => signalled \/ adminSeen

(* The table and the id counter implement the life cycle of Sessions.       *)
StatusOf(i) ==
    LET held == {s \in UsedSlots : slots[s].connection_id = i}
    IN  IF i >= nextId THEN "absent"
        ELSE IF held = {} THEN "closed"
        ELSE IF \E s \in held : LoggedIn(slots[s]) THEN "logged_in" ELSE "open"

S == INSTANCE Sessions WITH
        next <- nextId, run <- gen, status <- [i \in 0 .. MaxIds - 1 |-> StatusOf(i)]

ImplementsSessions == S!Spec

(* A client that asks to log in is answered, unless it goes or the gateway  *)
(* quits or dies first.                                                    *)
Asked(i) ==
    \E k \in DOMAIN topic["backend_messages"] :
        LET m == topic["backend_messages"][k]
        IN  m.kind \in LoginKinds /\ m.client = i /\ m.gen = gen

Answered(i) ==
    \E f \in out : f.to.client = i /\ f.kind \in ResponseKinds \cup {"error"}

Present(i) == \E s \in UsedSlots : slots[s].connection_id = i

LoginIsAnswered ==
    \A i \in 0 .. MaxIds - 1 :
        Asked(i) /\ Present(i) ~> Answered(i) \/ ~Present(i) \/ quit

=============================================================================
