-------------------------------- MODULE Realm --------------------------------
(***************************************************************************)
(* The backends and the worlds together, between the gateways that send    *)
(* them requests and keep the answers.  (The module Gateway has the inside *)
(* of a gateway, and takes from here which answers a request may get.)     *)
(***************************************************************************)
EXTENDS Backend, World, FiniteSets

CONSTANTS
    Clients,         \* ids of connections
    CharacterNames,  \* names of characters
    Kinds,           \* the kinds of requests
    MaxRequests      \* bound: requests

VARIABLE
    asked   \* history: the kinds of the requests, in order

vars == <<kafkaVars, backendVars, worldVars, asked>>

ASSUME RealmAssumption == MaxRequests \in Nat /\ Worlds # {}

\* Nothing is no row, of whatever a message names.
ASSUME NothingAssumption ==
    Nothing \notin [id : Nat, username : UserNames \cup CharacterNames \cup {""}]

Init ==
    /\ KafkaInit /\ BackendInit /\ WorldInit(Nothing)
    /\ asked = <<>>

\* The user ids that gateway g was told for client c; 0 before a login.
ToldIds(g, c) ==
    {0} \cup {inbox[g][k].user : k \in {k \in DOMAIN inbox[g] :
                 /\ inbox[g][k].client = c
                 /\ inbox[g][k].kind \in {"login_response", "register_response"}}}

Request(kind, g, c, user, name, topic) ==
    /\ kind \in Kinds
    /\ Len(asked) < MaxRequests
    /\ asked' = Append(asked, kind)
    /\ Publish(topic, [kind |-> kind, number |-> Len(asked) + 1, gateway |-> g,
                       client |-> c, origin |-> g, destination |-> ANY,
                       user |-> user, name |-> name])
    /\ UNCHANGED <<backendVars, worldVars>>

GatewayRequest(g, c) ==
    \/ \E k \in {"login", "register"}, n \in UserNames :
          Request(k, g, c, 0, n, BackendMessages)
    \/ \E u \in ToldIds(g, c), n \in CharacterNames :
          \/ Request("create_character", g, c, u, n, BackendMessages)
          \/ \E w \in Worlds : Request("play_character", g, c, u, n, ServerTopic(w))
    \/ \E u \in ToldIds(g, c) : Request("get_characters", g, c, u, "", WorldMessages)

BackendAction(b) ==
    BackendStep(b) /\ UNCHANGED <<worldVars, asked>>

WorldAction(w) ==
    (WorldConsumerStep(w) \/ WorldTick(w)) /\ UNCHANGED <<backendVars, asked>>

Dies(s) ==
    /\ \/ s \in Backends /\ BackendCrash(s) /\ UNCHANGED worldVars
       \/ s \in Worlds /\ WorldCrash(s) /\ UNCHANGED backendVars
    /\ UNCHANGED asked

Next ==
    \/ \E g \in Gateways, c \in Clients : GatewayRequest(g, c)
    \/ \E b \in Backends : BackendAction(b)
    \/ \E w \in Worlds : WorldAction(w)
    \/ \E s \in Backends \cup Worlds :
          \/ Dies(s)
          \/ CommitOffsets(s) /\ UNCHANGED <<backendVars, worldVars, asked>>

Spec == Init /\ [][Next]_vars

\* Servers go on, thread by thread; nobody need ask, and nobody need die.
Fairness ==
    /\ \A b \in Backends : WF_vars(BackendAction(b))
    /\ \A w \in Worlds :
          /\ WF_vars(WorldConsumerStep(w) /\ UNCHANGED <<backendVars, asked>>)
          /\ WF_vars(WorldTick(w) /\ UNCHANGED <<backendVars, asked>>)

FairSpec == Spec /\ Fairness

-----------------------------------------------------------------------------
Message(m) ==
    /\ m.kind \in Kinds \cup AnswerKinds
    /\ m.number \in DOMAIN asked
    /\ m.gateway \in Gateways /\ m.client \in Clients
    /\ m.origin \in Servers /\ m.destination \in Servers \cup {ANY}
    /\ m.user \in 0 .. lastId

(* Every variable keeps its type, a transaction is open exactly between the *)
(* insert and the answer, and a count is read for a user that exists.      *)
TypeOK ==
    /\ \A s \in Servers :
          /\ \A k \in DOMAIN inbox[s] : Message(inbox[s][k])
          /\ \A k \in DOMAIN uncommitted[s] : Message(uncommitted[s][k])
    /\ \A m \in unread : Message(m)
    /\ crashes \in 0 .. MaxCrashes
    /\ \A i \in DOMAIN users : users[i].username \in UserNames
    /\ \A b \in Backends :
          /\ place[b] \in {"idle", "handling", "registered", "counted", "committed"}
          /\ place[b] # "idle" => Message(work[b])
          /\ place[b] = "registered" <=> inserted[b] # Nothing
          /\ place[b] \in {"counted", "committed"} => Known(work[b].user)
    /\ \A w \in Worlds :
          /\ wplace[w] = "handling" => Message(wwork[w])
          /\ \A k \in DOMAIN events[w] : Message(events[w][k].msg)

(* No user has more characters on their way to the starting world than the  *)
(* backend counted, or than the limit, though the count is read, written   *)
(* and sent on in three steps, a crash may come between any two of them    *)
(* and the request may then be handled again.  (For one backend.)          *)
ForwardsWithinCount ==
    \A i \in DOMAIN users :
        /\ forwarded[i] + Cardinality({b \in Backends : place[b] = "committed"
                                                      /\ work[b].user = i})
              <= users[i].players
        /\ users[i].players > 0 => MaxCharacters # Nothing /\ users[i].players <= MaxCharacters

(* The ids that clients are told after they registered are nobody else's,   *)
(* though the rows behind them are rolled back.                            *)
Registrations ==
    {m \in UNION {{inbox[g][k] : k \in DOMAIN inbox[g]} : g \in Gateways} :
        m.kind = "register_response"}

RegisteredIdsAreFresh ==
    /\ \A m \in Registrations : m.user \notin DOMAIN Stored
    /\ \A m, n \in Registrations : m.user = n.user => m = n

(* An answer is for the gateway that asked, whose id travels as the origin  *)
(* to a backend and as the destination from there to a world; and its kind *)
(* is one that the gateway's client waits for.                             *)
ResponseTo ==
    [login |-> "login_response", register |-> "register_response",
     get_characters |-> "get_characters_response",
     create_character |-> "send_map", play_character |-> "send_map"]

AnswersReachTheAsker ==
    \A s \in Servers : \A k \in DOMAIN inbox[s] :
        LET m == inbox[s][k]
        IN  m.kind \in AnswerKinds =>
              /\ s = m.gateway
              /\ m.kind \in {"error_response", ResponseTo[asked[m.number]]}

(* A request has one answer, from each world if it asks every world, and a  *)
(* crash may bring one more: what was not committed is delivered again.    *)
(* What a backend sends on is on its way twice: the i-th crash may bring   *)
(* as many answers as there were deliveries, i of them at most.            *)
AnswersTo(n, s) ==
    UNION {{<<g, k>> : k \in {k \in DOMAIN inbox[g] :
               inbox[g][k].number = n /\ inbox[g][k].origin = s}} : g \in Gateways}

AnsweredOncePerDelivery ==
    \A n \in DOMAIN asked :
        LET all == UNION {AnswersTo(n, s) : s \in Backends \cup Worlds}
        IN  CASE asked[n] = "get_characters" ->
                   \A s \in Backends \cup Worlds : Cardinality(AnswersTo(n, s)) <= 1 + crashes
              [] asked[n] = "create_character" ->
                   Cardinality(all) <= 1 + (crashes * (crashes + 1)) \div 2
              [] OTHER -> Cardinality(all) <= 1 + crashes

(* What is sent to a topic that no server reads: a world's error about       *)
(* play_character, for the destination of that request is ANY, and a        *)
(* create_character for a starting world that does not exist.              *)
Misdirected(m) ==
    \/ asked[m.number] = "play_character" /\ m.kind = "error_response"
    \/ asked[m.number] = "create_character" /\ m.kind = "create_character"
         /\ StartingWorld = ANY

(* A request is answered, unless what came of it was misdirected; a user    *)
(* without characters is told nothing, nor is anybody who creates one while *)
(* the limit is no number.  A server that dies may take a request with it   *)
(* whose offset is committed already.                                      *)
Settled(n) ==
    \/ \E s \in Backends \cup Worlds : AnswersTo(n, s) # {}
    \/ \E m \in unread : m.number = n /\ Misdirected(m)
    \/ asked[n] = "get_characters"
         /\ \A s \in Worlds : \A k \in DOMAIN inbox[s] : inbox[s][k].number # n
    \/ asked[n] = "create_character" /\ MaxCharacters = Nothing

RequestsAreSettled ==
    \A n \in 1 .. MaxRequests :
        n \in DOMAIN asked ~> n \in DOMAIN asked /\ (Settled(n) \/ crashes > 0)

(* database_transaction.h:45 asks for a commit after an insert; a client who *)
(* is told an id would then find its user in the table.                    *)
RegisteredUserIsStored == \A m \in Registrations : m.user \in DOMAIN users

(* world_play_character_handler.cpp:44 says of the errors of that handler    *)
(* that they are sent to the gateway; then a server would read each of them. *)
WorldErrorsReachAGateway == \A m \in unread : m.kind # "error_response"

=============================================================================
