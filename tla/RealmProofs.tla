----------------------------- MODULE RealmProofs ------------------------------
(***************************************************************************)
(* For any number of servers, clients, users, requests and crashes: where  *)
(* answers go, how many of them a request gets, which ids clients are told *)
(* and, for one backend, how many characters a user gets.                  *)
(***************************************************************************)
EXTENDS Realm, Functions, SequenceTheorems, FiniteSetTheorems, TLAPS

-----------------------------------------------------------------------------
(* Queues.                                                                 *)

LEMMA QueueAppend ==
    ASSUME NEW S, NEW q \in Seq(S), NEW x \in S
    PROVE  /\ Append(q, x) \in Seq(S)
           /\ Len(q) \in Nat /\ DOMAIN q = 1 .. Len(q) /\ DOMAIN Append(q, x) = 1 .. Len(q) + 1
           /\ \A k \in DOMAIN q : Append(q, x)[k] = q[k]
           /\ Append(q, x)[Len(q) + 1] = x
  OBVIOUS

LEMMA QueueHead ==
    ASSUME NEW S, NEW q \in Seq(S), q # <<>>
    PROVE  Head(q) \in S /\ Tail(q) \in Seq(S)
  BY HeadTailProperties

LEMMA QueueConcat ==
    ASSUME NEW S, NEW q \in Seq(S), NEW r \in Seq(S)
    PROVE  q \o r \in Seq(S)
  OBVIOUS

LEMMA QueueWider ==
    ASSUME NEW S, NEW T, S \subseteq T
    PROVE  Seq(S) \subseteq Seq(T)
  BY SeqMonotonic

-----------------------------------------------------------------------------
(* Messages, and the servers they may be on their way to.                  *)

RequestKinds == {"login", "register", "create_character", "play_character", "get_characters"}

AnyName == UserNames \cup CharacterNames \cup {""}

Envelope == [kind : RequestKinds \cup AnswerKinds, number : Nat, gateway : Gateways,
             client : Clients, origin : Servers, destination : Servers \cup {ANY},
             user : Nat, name : AnyName]

Numbered(m) == m \in Envelope /\ m.number \in DOMAIN asked

\* To a backend: from the gateway that asked.
ForBackend(m) == m.kind = asked[m.number] /\ m.origin = m.gateway

\* To a world: from the gateway, or from a backend on behalf of the gateway.
ForWorld(m) ==
    /\ m.kind = asked[m.number]
    /\ m.kind = "create_character" => m.destination = m.gateway
    /\ m.kind # "create_character" => m.origin = m.gateway
    /\ m.kind = "play_character" => m.destination = ANY

\* To a gateway: the answer to what it asked.
ForGateway(s, m) ==
    s = m.gateway /\ m.kind \in {"error_response", ResponseTo[asked[m.number]]}

Right(s) ==
    {m \in Envelope :
        /\ m.number \in DOMAIN asked
        /\ s \in Backends => ForBackend(m)
        /\ s \in Worlds => ForWorld(m)
        /\ s \in Gateways => ForGateway(s, m)}

QueuesRouted ==
    /\ asked \in Seq(RequestKinds)
    /\ inbox \in [Servers -> Seq(Envelope)] /\ uncommitted \in [Servers -> Seq(Envelope)]
    /\ \A s \in Servers : inbox[s] \in Seq(Right(s)) /\ uncommitted[s] \in Seq(Right(s))

\* A backend handles one of the requests it may get; what it does then depends on the kind.
BackendsRouted ==
    /\ place \in [Backends -> {"idle", "handling", "registered", "counted", "committed"}]
    /\ DOMAIN work = Backends
    /\ \A b \in Backends :
        /\ place[b] # "idle" => work[b] \in Right(b)
        /\ place[b] = "registered" => work[b].kind = "register"
        /\ place[b] \in {"counted", "committed"} => work[b].kind = "create_character"

\* An event remembers the gateway in a field of its own.
Awaited == {e \in [msg : Envelope, gateway : Gateways, maps : SUBSET BOOLEAN] :
               /\ e.msg.number \in DOMAIN asked /\ e.gateway = e.msg.gateway
               /\ asked[e.msg.number] \in {"play_character", "create_character"}}

WorldsRouted ==
    /\ wplace \in [Worlds -> {"idle", "handling"}]
    /\ DOMAIN wwork = Worlds
    /\ \A w \in Worlds : wplace[w] = "handling" => wwork[w] \in Right(w)
    /\ events \in [Worlds -> Seq(Awaited)]

\* Rows and sequences, as far as ids of users travel in messages.
IdsCounted ==
    /\ lastId \in Nat /\ Len(Stored) <= lastId
    /\ DOMAIN users = DOMAIN Stored
    /\ DOMAIN inserted = Backends
    /\ \A b \in Backends : place[b] = "registered" => inserted[b].id \in Len(Stored) + 1 .. lastId

UnreadRouted ==
    /\ \A m \in unread : m.number \in DOMAIN asked
    /\ \A m \in unread : Misdirected(m)
    /\ settings \in Settings

Routed == QueuesRouted /\ BackendsRouted /\ WorldsRouted /\ IdsCounted /\ UnreadRouted

-----------------------------------------------------------------------------
LEMMA StoredIds == Len(Stored) \in Nat /\ DOMAIN Stored = 1 .. Len(Stored)
  BY BackendAssumption

LEMMA ServersApart ==
    /\ \A g \in Gateways : g \in Servers /\ g \notin Backends /\ g \notin Worlds
    /\ \A b \in Backends : b \in Servers /\ b \notin Worlds /\ b \notin Gateways
    /\ \A w \in Worlds : w \in Servers /\ w \notin Backends /\ w \notin Gateways
    /\ ANY \notin Servers
  BY KafkaAssumption DEF Servers

\* Characters go to a world, or to the id of no server.
LEMMA WorldOfSettings == Routed => StartingWorld \in Worlds \cup {ANY}
  BY BackendAssumption DEF Routed, UnreadRouted, StartingWorld

LEMMA InitRouted == Init => Routed
<1> SUFFICES ASSUME Init PROVE Routed
  OBVIOUS
<1> USE DEF Init, KafkaInit, BackendInit, WorldInit
<1>1. \A S : <<>> \in Seq(S)
  OBVIOUS
<1>2. QueuesRouted
  BY <1>1 DEF QueuesRouted
<1>3. BackendsRouted
  BY DEF BackendsRouted
<1>4. WorldsRouted
  BY <1>1 DEF WorldsRouted
<1>5. IdsCounted
  BY StoredIds DEF IdsCounted
<1>6. UnreadRouted
  BY DEF UnreadRouted
<1>7. QED
  BY <1>2, <1>3, <1>4, <1>5, <1>6 DEF Routed

\* What was asked stays known, and with it what may be where.
Remembered ==
    /\ asked' \in Seq(RequestKinds) /\ settings' = settings
    /\ \A n \in DOMAIN asked : n \in DOMAIN asked' /\ asked'[n] = asked[n]

LEMMA RightStays ==
    ASSUME Remembered
    PROVE  /\ \A s : Right(s) \subseteq Right(s)'
           /\ Awaited \subseteq Awaited'
  BY DEF Remembered, Right, ForBackend, ForWorld, ForGateway, Awaited

LEMMA NothingAsked == QueuesRouted /\ UNCHANGED <<asked, settings>> => Remembered
  BY DEF QueuesRouted, Remembered

(* enqueue_message: every reader of the topic may get the message, and     *)
(* there is one, or the message is one of those that are misdirected.      *)
LEMMA PublishRoutes ==
    ASSUME QueuesRouted, UnreadRouted, Remembered, NEW topic, NEW m, Publish(topic, m),
           \A readers \in topic : \A s \in readers \cap Servers : m \in Right(s)',
           {} \in topic => m.number \in DOMAIN asked /\ Misdirected(m)
    PROVE  QueuesRouted' /\ UnreadRouted'
<1>1. PICK readers \in topic :
          /\ inbox' = [s \in Servers |->
                          IF s \in readers THEN Append(inbox[s], m) ELSE inbox[s]]
          /\ unread' = IF readers = {} THEN unread \cup {m} ELSE unread
  BY DEF Publish
<1>2. \A s : Right(s) \subseteq Right(s)'
  BY RightStays
<1>3. ASSUME NEW s \in Servers
      PROVE  /\ inbox'[s] \in Seq(Right(s)') /\ inbox'[s] \in Seq(Envelope)
             /\ uncommitted[s] \in Seq(Right(s)')
  <2>1. /\ inbox[s] \in Seq(Right(s)') /\ uncommitted[s] \in Seq(Right(s)')
        /\ Right(s)' \subseteq Envelope
    <3>1. inbox[s] \in Seq(Right(s)) /\ uncommitted[s] \in Seq(Right(s))
      BY DEF QueuesRouted
    <3>2. Right(s)' \subseteq Envelope
      BY DEF Right
    <3>3. QED
      BY <1>2, <3>1, <3>2, QueueWider
  <2>2. CASE s \in readers
    <3>1. m \in Right(s)'
      BY <1>1, <2>2
    <3>2. Append(inbox[s], m) \in Seq(Right(s)')
      BY <2>1, <3>1, QueueAppend
    <3>3. inbox'[s] = Append(inbox[s], m)
      BY <1>1, <2>2
    <3>4. QED
      BY <2>1, <3>2, <3>3, QueueWider
  <2>3. CASE s \notin readers
    <3>1. inbox'[s] = inbox[s]
      BY <1>1, <2>3
    <3>2. QED
      BY <2>1, <3>1, QueueWider
  <2>4. QED
    BY <2>1, <2>2, <2>3
<1>4. inbox' \in [Servers -> Seq(Envelope)]
  BY <1>1, <1>3
<1>5. uncommitted' = uncommitted
  BY DEF Publish
<1>6. QueuesRouted'
  BY <1>3, <1>4, <1>5 DEF QueuesRouted, Remembered
<1>7. UnreadRouted'
  BY <1>1 DEF UnreadRouted, Misdirected, StartingWorld, Remembered
<1>8. QED
  BY <1>6, <1>7

\* The topic of a server has that server for its reader, if there is one.
LEMMA TopicReaders ==
    ASSUME NEW s
    PROVE  /\ s \in Servers => {} \notin ServerTopic(s)
           /\ \A readers \in ServerTopic(s) : \A r \in readers \cap Servers : r = s
           /\ s = ANY => \A readers \in ServerTopic(s) : readers \cap Servers = {}
  BY ServersApart DEF ServerTopic

(* A message goes to the gateway that asked for what it is about.          *)
LEMMA AnswerRoutes ==
    ASSUME QueuesRouted, UnreadRouted, UNCHANGED <<asked, settings>>,
           NEW m, Numbered(m), NEW kind \in AnswerKinds, NEW o \in Servers, NEW u \in Nat,
           kind \in {"error_response", ResponseTo[asked[m.number]]},
           Publish(ServerTopic(m.gateway), Answer(m, kind, o, u))
    PROVE  QueuesRouted' /\ UnreadRouted'
<1> DEFINE a == Answer(m, kind, o, u)
<1>1. /\ a \in Envelope /\ a.kind = kind /\ a.number = m.number /\ a.gateway = m.gateway
  BY DEF Numbered, Envelope, Answer
<1>2. m.gateway \in Gateways /\ m.gateway \in Servers
  BY ServersApart DEF Numbered, Envelope
<1>3. a \in Right(m.gateway)
  <2> HIDE DEF a
  <2>1. QED
    BY <1>1, <1>2, ServersApart DEF Right, Numbered, ForGateway
<1> HIDE DEF a
<1>4. Publish(ServerTopic(m.gateway), a)
  BY DEF a
<1>5. Remembered
  BY NothingAsked
<1>6. a \in Right(m.gateway)'
  BY <1>3, <1>5, RightStays
<1>7. QED
  BY <1>2, <1>4, <1>5, <1>6, TopicReaders, PublishRoutes

LEMMA ConsumeRoutes ==
    ASSUME QueuesRouted, UnreadRouted, UNCHANGED <<asked, settings>>, NEW s \in Servers, Consume(s)
    PROVE  QueuesRouted' /\ UnreadRouted' /\ Head(inbox[s]) \in Right(s)
<1>1. /\ inbox[s] \in Seq(Right(s)) /\ inbox[s] # <<>> /\ Right(s) \subseteq Envelope
      /\ uncommitted[s] \in Seq(Right(s))
  BY DEF QueuesRouted, Consume, Right
<1>2. Head(inbox[s]) \in Right(s) /\ Tail(inbox[s]) \in Seq(Right(s))
  BY <1>1, QueueHead
<1>3. Append(uncommitted[s], Head(inbox[s])) \in Seq(Right(s))
  BY <1>1, <1>2, QueueAppend
<1>4. Tail(inbox[s]) \in Seq(Envelope)
      /\ Append(uncommitted[s], Head(inbox[s])) \in Seq(Envelope)
  BY <1>1, <1>2, <1>3, QueueWider
<1>5. \A t : Right(t)' = Right(t)
  BY DEF Right, ForBackend, ForWorld, ForGateway
<1>6. QueuesRouted'
  BY <1>2, <1>3, <1>4, <1>5 DEF QueuesRouted, Consume
<1>7. UnreadRouted'
  BY DEF UnreadRouted, Misdirected, StartingWorld, Consume
<1>8. QED
  BY <1>2, <1>6, <1>7

LEMMA RedeliverRoutes ==
    ASSUME QueuesRouted, UnreadRouted, UNCHANGED <<asked, settings>>, NEW s \in Servers,
           Redeliver(s) \/ CommitOffsets(s)
    PROVE  QueuesRouted' /\ UnreadRouted'
<1>1. inbox[s] \in Seq(Right(s)) /\ uncommitted[s] \in Seq(Right(s)) /\ Right(s) \subseteq Envelope
  BY DEF QueuesRouted, Right
<1>2. uncommitted[s] \o inbox[s] \in Seq(Right(s)) /\ <<>> \in Seq(Right(s))
  BY <1>1, QueueConcat
<1>3. uncommitted[s] \o inbox[s] \in Seq(Envelope) /\ <<>> \in Seq(Envelope)
  BY <1>1, <1>2, QueueWider
<1>4. \A t : Right(t)' = Right(t)
  BY DEF Right, ForBackend, ForWorld, ForGateway
<1>5. QueuesRouted'
  BY <1>2, <1>3, <1>4 DEF QueuesRouted, Redeliver, CommitOffsets
<1>6. UnreadRouted'
  BY DEF UnreadRouted, Misdirected, StartingWorld, Redeliver, CommitOffsets
<1>7. QED
  BY <1>5, <1>6

-----------------------------------------------------------------------------
(* The gateways.                                                           *)

LEMMA RequestRoutes ==
    ASSUME Routed, NEW kind \in RequestKinds, NEW g \in Gateways, NEW c \in Clients,
           NEW u \in Nat, NEW n \in AnyName, NEW topic,
           \/ kind \in {"login", "register", "create_character"} /\ topic = BackendMessages
           \/ kind = "get_characters" /\ topic = WorldMessages
           \/ kind = "play_character" /\ \E w \in Worlds : topic = ServerTopic(w),
           Request(kind, g, c, u, n, topic)
    PROVE  Routed'
<1> DEFINE m == [kind |-> kind, number |-> Len(asked) + 1, gateway |-> g,
                 client |-> c, origin |-> g, destination |-> ANY, user |-> u, name |-> n]
<1>1. /\ asked' = Append(asked, kind) /\ Publish(topic, m)
      /\ UNCHANGED <<backendVars, worldVars>>
  BY DEF Request
<1>2. /\ asked' \in Seq(RequestKinds)
      /\ Len(asked) + 1 \in Nat /\ Len(asked) + 1 \in DOMAIN asked'
      /\ asked'[Len(asked) + 1] = kind
      /\ \A k \in DOMAIN asked : k \in DOMAIN asked' /\ asked'[k] = asked[k]
  <2> HIDE DEF m
  <2>1. asked \in Seq(RequestKinds)
    BY DEF Routed, QueuesRouted
  <2>2. /\ Append(asked, kind) \in Seq(RequestKinds) /\ Len(asked) \in Nat
        /\ DOMAIN asked = 1 .. Len(asked) /\ DOMAIN Append(asked, kind) = 1 .. Len(asked) + 1
        /\ \A k \in DOMAIN asked : Append(asked, kind)[k] = asked[k]
        /\ Append(asked, kind)[Len(asked) + 1] = kind
    BY <2>1, QueueAppend
  <2>3. Len(asked) + 1 \in Nat /\ Len(asked) + 1 \in 1 .. Len(asked) + 1
    BY <2>2
  <2>4. \A k \in 1 .. Len(asked) : k \in 1 .. Len(asked) + 1
    BY <2>2
  <2>5. QED
    BY <1>1, <2>2, <2>3, <2>4, Zenon
<1>3. Remembered
  BY <1>1, <1>2, Zenon DEF Remembered, backendVars
<1>4. g \in Servers
  BY ServersApart
<1>5. /\ m \in Envelope /\ m.kind = kind /\ m.number = Len(asked) + 1 /\ m.gateway = g
      /\ m.origin = g /\ m.destination = ANY
  <2> DEFINE l == Len(asked) + 1
  <2>1. l \in Nat
    BY <1>2
  <2> HIDE DEF l
  <2>2. [kind |-> kind, number |-> l, gateway |-> g, client |-> c, origin |-> g,
         destination |-> ANY, user |-> u, name |-> n] \in Envelope
    BY <1>4, <2>1 DEF Envelope
  <2>3. QED
    BY <2>2 DEF l
<1> HIDE DEF m
<1>6. ASSUME NEW s \in Backends, kind \in {"login", "register", "create_character"}
      PROVE  m \in Right(s)'
  BY <1>2, <1>4, <1>5, <1>6, ServersApart DEF Right, ForBackend
<1>7. ASSUME NEW s \in Worlds, kind \in {"get_characters", "play_character"}
      PROVE  m \in Right(s)'
  BY <1>2, <1>4, <1>5, <1>7, ServersApart DEF Right, ForWorld
<1>8. /\ \A readers \in topic : \A s \in readers \cap Servers : m \in Right(s)'
      /\ {} \notin topic
  <2>1. CASE kind \in {"login", "register", "create_character"} /\ topic = BackendMessages
    BY <1>6, <2>1 DEF BackendMessages
  <2>2. CASE kind = "get_characters" /\ topic = WorldMessages
    BY <1>7, <2>2, RealmAssumption DEF WorldMessages
  <2>3. CASE kind = "play_character" /\ \E w \in Worlds : topic = ServerTopic(w)
    BY <1>7, <2>3, ServersApart, TopicReaders
  <2>4. QED
    BY <2>1, <2>2, <2>3
<1>9. QueuesRouted' /\ UnreadRouted'
  BY <1>1, <1>3, <1>8, PublishRoutes DEF Routed
<1>10. BackendsRouted' /\ WorldsRouted' /\ IdsCounted'
  <2>1. UNCHANGED <<place, work, inserted, users, lastId, wplace, wwork, events>>
    BY <1>1 DEF backendVars, worldVars
  <2>2. Awaited \subseteq Awaited' /\ \A s : Right(s) \subseteq Right(s)'
    BY <1>3, RightStays
  <2>3. BackendsRouted'
    BY <2>1, <2>2 DEF Routed, BackendsRouted
  <2>4. \A w \in Worlds : events[w] \in Seq(Awaited')
    BY <2>2, QueueWider DEF Routed, WorldsRouted
  <2>5. WorldsRouted'
    BY <2>1, <2>2, <2>4 DEF Routed, WorldsRouted
  <2>6. IdsCounted'
    BY <2>1 DEF Routed, IdsCounted
  <2>7. QED
    BY <2>3, <2>5, <2>6
<1>11. QED
  BY <1>9, <1>10 DEF Routed

\* The ids of users in messages are numbers.
LEMMA ToldTyped ==
    ASSUME Routed, NEW g \in Gateways, NEW c
    PROVE  ToldIds(g, c) \subseteq Nat
<1>1. inbox[g] \in Seq(Envelope)
  BY ServersApart DEF Routed, QueuesRouted
<1>2. \A e \in Envelope : e.user \in Nat
  BY DEF Envelope
<1>3. \A k \in DOMAIN inbox[g] : inbox[g][k] \in Envelope
  BY <1>1
<1>4. \A k \in DOMAIN inbox[g] : inbox[g][k].user \in Nat
  BY <1>2, <1>3
<1>5. QED
  BY <1>4 DEF ToldIds

LEMMA GatewayRoutes ==
    ASSUME Routed, NEW g \in Gateways, NEW c \in Clients, GatewayRequest(g, c)
    PROVE  Routed'
<1>1. ASSUME NEW k \in {"login", "register"}, NEW n \in UserNames,
             Request(k, g, c, 0, n, BackendMessages)
      PROVE  Routed'
  BY <1>1, RequestRoutes DEF RequestKinds, AnyName
<1>2. ASSUME NEW u \in ToldIds(g, c), NEW n \in CharacterNames,
             Request("create_character", g, c, u, n, BackendMessages)
      PROVE  Routed'
  BY <1>2, ToldTyped, RequestRoutes DEF RequestKinds, AnyName
<1>3. ASSUME NEW u \in ToldIds(g, c), NEW n \in CharacterNames, NEW w \in Worlds,
             Request("play_character", g, c, u, n, ServerTopic(w))
      PROVE  Routed'
  BY <1>3, ToldTyped, RequestRoutes DEF RequestKinds, AnyName
<1>4. ASSUME NEW u \in ToldIds(g, c),
             Request("get_characters", g, c, u, "", WorldMessages)
      PROVE  Routed'
  BY <1>4, ToldTyped, RequestRoutes DEF RequestKinds, AnyName
<1>5. QED
  BY <1>1, <1>2, <1>3, <1>4 DEF GatewayRequest

-----------------------------------------------------------------------------
(* The backends.                                                           *)

LEMMA RightSame ==
    ASSUME UNCHANGED asked
    PROVE  (\A s : Right(s)' = Right(s)) /\ Awaited' = Awaited
  BY DEF Right, ForBackend, ForWorld, ForGateway, Awaited

\* The settings are among the rows that stay when no backend goes on.
LEMMA SettingsStay == UNCHANGED backendVars => UNCHANGED settings
  BY DEF backendVars

LEMMA WorldsStay == WorldsRouted /\ UNCHANGED <<worldVars, asked>> => WorldsRouted'
  BY RightSame DEF WorldsRouted, worldVars

LEMMA BackendsStay ==
    /\ BackendsRouted /\ UNCHANGED <<backendVars, asked>> => BackendsRouted'
    /\ IdsCounted /\ UNCHANGED backendVars => IdsCounted'
  BY RightSame DEF BackendsRouted, IdsCounted, backendVars

\* One backend goes on, with the message it has.
LEMMA BackendGoes ==
    ASSUME BackendsRouted, NEW b \in Backends, UNCHANGED <<work, asked>>,
           NEW to \in {"idle", "handling", "registered", "counted", "committed"}, Goto(b, to),
           to # "idle" => work[b] \in Right(b),
           to = "registered" => work[b].kind = "register",
           to \in {"counted", "committed"} => work[b].kind = "create_character"
    PROVE  BackendsRouted'
<1>1. Right(b)' = Right(b) /\ \A c \in Backends : Right(c)' = Right(c)
  BY RightSame
<1>2. place' = [place EXCEPT ![b] = to]
  BY DEF Goto
<1>3. \A c \in Backends : place'[c] = IF c = b THEN to ELSE place[c]
  BY <1>2 DEF BackendsRouted
<1>4. place' \in [Backends -> {"idle", "handling", "registered", "counted", "committed"}]
  BY <1>2 DEF BackendsRouted
<1>5. QED
  BY <1>1, <1>3, <1>4 DEF BackendsRouted

LEMMA WorkRight ==
    ASSUME BackendsRouted, NEW b \in Backends, place[b] # "idle"
    PROVE  /\ work[b] \in Right(b) /\ Numbered(work[b])
           /\ work[b].kind = asked[work[b].number] /\ work[b].origin = work[b].gateway
           /\ work[b].gateway \in Gateways /\ work[b].user \in Nat
<1>1. work[b] \in Right(b)
  BY DEF BackendsRouted
<1>2. work[b] \in Envelope
  BY <1>1 DEF Right
<1>3. work[b].gateway \in Gateways /\ work[b].user \in Nat
  BY <1>2 DEF Envelope
<1>4. QED
  BY <1>1, <1>2, <1>3 DEF Right, ForBackend, Numbered

LEMMA ReplyRoutes ==
    ASSUME Routed, NEW b \in Backends, place[b] # "idle", NEW kind \in AnswerKinds, NEW u \in Nat,
           kind \in {"error_response", ResponseTo[work[b].kind]}, Reply(b, kind, u),
           UNCHANGED <<work, worldVars, asked, settings>>
    PROVE  QueuesRouted' /\ UnreadRouted' /\ BackendsRouted' /\ WorldsRouted'
<1>1. Publish(ServerTopic(work[b].gateway), Answer(work[b], kind, b, u))
  BY WorkRight DEF Reply, Routed
<1>2. QueuesRouted' /\ UnreadRouted'
  BY <1>1, WorkRight, ServersApart, AnswerRoutes DEF Routed
<1>3. BackendsRouted'
  BY BackendGoes DEF Routed, Reply
<1>4. QED
  BY <1>2, <1>3, WorldsStay DEF Routed

LEMMA ErrorRoutes ==
    ASSUME Routed, NEW b \in Backends, place[b] # "idle", Error(b),
           UNCHANGED <<work, worldVars, asked, settings>>
    PROVE  QueuesRouted' /\ UnreadRouted' /\ BackendsRouted' /\ WorldsRouted'
  BY ReplyRoutes DEF Error, AnswerKinds

LEMMA QuietRoutes ==
    ASSUME Routed, UNCHANGED <<kafkaVars, asked, settings>>
    PROVE  QueuesRouted' /\ UnreadRouted'
<1>1. \A s : Right(s)' = Right(s)
  BY RightSame
<1>2. UNCHANGED <<inbox, uncommitted, unread>>
  BY DEF kafkaVars
<1>3. QED
  BY <1>1, <1>2 DEF Routed, QueuesRouted, UnreadRouted, Misdirected, StartingWorld

LEMMA BackendTakeRoutes ==
    ASSUME Routed, NEW b \in Backends, BackendTake(b), UNCHANGED <<worldVars, asked>>
    PROVE  Routed'
<1>1. QueuesRouted' /\ UnreadRouted' /\ Head(inbox[b]) \in Right(b)
  BY ServersApart, ConsumeRoutes DEF Routed, BackendTake
<1>2. PICK to \in {"idle", "handling"} : place' = [place EXCEPT ![b] = to]
  BY DEF BackendTake, Goto
<1>3. BackendsRouted'
  <2>1. /\ \A c \in Backends : place'[c] = IF c = b THEN to ELSE place[c]
        /\ place' \in [Backends -> {"idle", "handling", "registered", "counted", "committed"}]
    BY <1>2 DEF Routed, BackendsRouted
  <2>2. /\ DOMAIN work' = Backends
        /\ \A c \in Backends : work'[c] = IF c = b THEN Head(inbox[b]) ELSE work[c]
    BY DEF Routed, BackendsRouted, BackendTake
  <2>3. \A c \in Backends : Right(c)' = Right(c)
    BY RightSame
  <2>4. QED
    BY <1>1, <2>1, <2>2, <2>3 DEF Routed, BackendsRouted
<1>4. IdsCounted'
  <2>1. \A c \in Backends : place'[c] = "registered" => place[c] = "registered"
    BY <1>2 DEF Routed, BackendsRouted
  <2>2. UNCHANGED <<users, lastId, inserted>>
    BY DEF BackendTake
  <2>3. QED
    BY <2>1, <2>2 DEF Routed, IdsCounted
<1>5. QED
  BY <1>1, <1>3, <1>4, WorldsStay DEF Routed

\* Ids stay counted when a backend goes on, and neither inserts nor takes an id.
LEMMA IdsStay ==
    ASSUME Routed, NEW b \in Backends, NEW to, Goto(b, to), to # "registered",
           UNCHANGED <<lastId, inserted>>, DOMAIN users' = DOMAIN users
    PROVE  IdsCounted'
<1>1. \A c \in Backends : place'[c] = "registered" => place[c] = "registered"
  BY DEF Routed, BackendsRouted, Goto
<1>2. QED
  BY <1>1 DEF Routed, IdsCounted

LEMMA BackendLoginRoutes ==
    ASSUME Routed, NEW b \in Backends, BackendLogin(b), UNCHANGED <<worldVars, asked>>
    PROVE  Routed'
<1>1. place[b] = "handling" /\ work[b].kind = "login" /\ UNCHANGED <<settings, users, lastId, work, inserted>>
  BY DEF BackendLogin, Handling
<1>2. CASE Error(b)
  <2>1. IdsCounted'
    BY <1>1, <1>2, IdsStay DEF Error, Reply
  <2>2. QED
    BY <1>1, <1>2, <2>1, ErrorRoutes DEF Routed
<1>3. CASE \E i \in Named(work[b].name) : Reply(b, "login_response", i)
  <2>1. PICK i \in Named(work[b].name) : Reply(b, "login_response", i)
    BY <1>3
  <2>2. i \in Nat
    BY StoredIds DEF Named, Routed, IdsCounted
  <2>3. IdsCounted'
    BY <1>1, <2>1, IdsStay DEF Reply
  <2>4. QED
    BY <1>1, <2>1, <2>2, <2>3, ReplyRoutes DEF Routed, AnswerKinds, ResponseTo
<1>4. QED
  BY <1>2, <1>3 DEF BackendLogin

LEMMA BackendRegisterRoutes ==
    ASSUME Routed, NEW b \in Backends, BackendRegister(b), UNCHANGED <<worldVars, asked>>
    PROVE  Routed'
<1>1. place[b] = "handling" /\ work[b].kind = "register" /\ UNCHANGED <<settings, users, work>>
  BY DEF BackendRegister, Handling
<1>2. CASE Error(b) /\ UNCHANGED inserted /\ lastId' \in {lastId, lastId + 1}
  <2>1. IdsCounted'
    <3>1. \A c \in Backends : place'[c] = "registered" => place[c] = "registered"
      BY <1>2 DEF Routed, BackendsRouted, Goto, Error, Reply
    <3>2. lastId' \in Nat /\ lastId <= lastId' /\ lastId \in Nat
      BY <1>2 DEF Routed, IdsCounted
    <3>3. \A c \in Backends : place'[c] = "registered" =>
                                  inserted'[c].id \in Len(Stored) + 1 .. lastId'
      BY <1>2, <3>1, <3>2, StoredIds DEF Routed, IdsCounted
    <3>4. QED
      BY <1>1, <1>2, <3>2, <3>3, StoredIds DEF Routed, IdsCounted
  <2>2. QED
    BY <1>1, <1>2, <2>1, ErrorRoutes DEF Routed
<1>3. CASE /\ lastId' = lastId + 1 /\ Goto(b, "registered") /\ UNCHANGED kafkaVars
           /\ inserted' = [inserted EXCEPT ![b] = [id |-> lastId + 1, username |-> work[b].name]]
  <2>1. QueuesRouted' /\ UnreadRouted' /\ WorldsRouted'
    BY <1>1, <1>3, QuietRoutes, WorldsStay DEF Routed
  <2>2. BackendsRouted'
    BY <1>1, <1>3, WorkRight, BackendGoes DEF Routed
  <2>3. lastId \in Nat /\ lastId' \in Nat /\ Len(Stored) <= lastId /\ lastId' = lastId + 1
    BY <1>3 DEF Routed, IdsCounted
  <2>4. \A c \in Backends : c # b => inserted'[c] = inserted[c] /\ place'[c] = place[c]
    BY <1>3 DEF Goto, Routed, BackendsRouted, IdsCounted
  <2>5. DOMAIN inserted' = Backends /\ inserted'[b].id = lastId + 1
    BY <1>3 DEF Routed, IdsCounted
  <2>6. \A c \in Backends : place'[c] = "registered" =>
                                inserted'[c].id \in Len(Stored) + 1 .. lastId'
    BY <2>3, <2>4, <2>5, StoredIds DEF Routed, IdsCounted
  <2>7. IdsCounted'
    BY <1>1, <2>3, <2>5, <2>6, StoredIds DEF Routed, IdsCounted
  <2>8. QED
    BY <2>1, <2>2, <2>7 DEF Routed
<1>4. QED
  BY <1>2, <1>3 DEF BackendRegister

LEMMA BackendRegisteredRoutes ==
    ASSUME Routed, NEW b \in Backends, BackendRegistered(b), UNCHANGED <<worldVars, asked>>
    PROVE  Routed'
<1>1. /\ place[b] = "registered" /\ work[b].kind = "register"
      /\ UNCHANGED <<settings, users, lastId, work>> /\ Reply(b, "register_response", inserted[b].id)
      /\ inserted' = [inserted EXCEPT ![b] = Nothing]
  BY DEF BackendRegistered, Routed, BackendsRouted
<1>2. inserted[b].id \in Nat
  BY <1>1, StoredIds DEF Routed, IdsCounted
<1>3. /\ \A c \in Backends : place'[c] = "registered" => c # b /\ place[c] = "registered"
      /\ \A c \in Backends : c # b => inserted'[c] = inserted[c]
      /\ DOMAIN inserted' = Backends
  BY <1>1 DEF Routed, BackendsRouted, IdsCounted, Goto, Reply
<1>4. IdsCounted'
  BY <1>1, <1>3 DEF Routed, IdsCounted
<1>5. QED
  BY <1>1, <1>2, <1>4, ReplyRoutes DEF Routed, AnswerKinds, ResponseTo

LEMMA BackendCreateRoutes ==
    ASSUME Routed, NEW b \in Backends, BackendCreateCharacter(b), UNCHANGED <<worldVars, asked>>
    PROVE  Routed'
<1>1. /\ place[b] = "handling" /\ work[b].kind = "create_character"
      /\ UNCHANGED <<settings, users, lastId, work, inserted>>
  BY DEF BackendCreateCharacter, Handling
<1>2. CASE Error(b)
  <2>1. IdsCounted'
    BY <1>1, <1>2, IdsStay DEF Error, Reply
  <2>2. QED
    BY <1>1, <1>2, <2>1, ErrorRoutes DEF Routed
<1>3. ASSUME NEW to \in {"idle", "counted"}, Goto(b, to), UNCHANGED kafkaVars
      PROVE  Routed'
  <2>1. QueuesRouted' /\ UnreadRouted' /\ WorldsRouted'
    BY <1>1, <1>3, QuietRoutes, WorldsStay DEF Routed
  <2>2. BackendsRouted'
    BY <1>1, <1>3, WorkRight, BackendGoes DEF Routed
  <2>3. IdsCounted'
    BY <1>1, <1>3, IdsStay
  <2>4. QED
    BY <2>1, <2>2, <2>3 DEF Routed
<1>4. QED
  BY <1>2, <1>3 DEF BackendCreateCharacter

LEMMA CommitCountRoutes ==
    ASSUME Routed, NEW b \in Backends, CommitCount(b), UNCHANGED <<worldVars, asked>>
    PROVE  Routed'
<1>1. /\ place[b] = "counted" /\ work[b].kind = "create_character"
      /\ UNCHANGED <<settings, lastId, work, inserted>>
  BY DEF CommitCount, Routed, BackendsRouted
<1>2. DOMAIN users' = DOMAIN users
  BY DEF CommitCount
<1>3. CASE Error(b)
  <2>1. IdsCounted'
    BY <1>1, <1>2, <1>3, IdsStay DEF Error, Reply
  <2>2. QED
    BY <1>1, <1>3, <2>1, ErrorRoutes DEF Routed
<1>4. CASE Goto(b, "committed") /\ UNCHANGED kafkaVars
  <2>1. QueuesRouted' /\ UnreadRouted' /\ WorldsRouted'
    BY <1>1, <1>4, QuietRoutes, WorldsStay DEF Routed
  <2>2. BackendsRouted'
    BY <1>1, <1>4, WorkRight, BackendGoes DEF Routed
  <2>3. IdsCounted'
    BY <1>1, <1>2, <1>4, IdsStay
  <2>4. QED
    BY <2>1, <2>2, <2>3 DEF Routed
<1>5. QED
  BY <1>3, <1>4 DEF CommitCount

\* Here the gateway becomes the destination.
LEMMA ForwardRoutes ==
    ASSUME Routed, NEW b \in Backends, ForwardCharacter(b), UNCHANGED <<worldVars, asked>>
    PROVE  Routed'
<1> DEFINE m == [work[b] EXCEPT !.origin = b, !.destination = work[b].origin]
<1>1. /\ place[b] = "committed" /\ work[b].kind = "create_character"
      /\ UNCHANGED <<settings, users, lastId, work, inserted>>
      /\ Publish(ServerTopic(StartingWorld), m) /\ Goto(b, "idle")
  BY DEF ForwardCharacter, Routed, BackendsRouted
<1>2. /\ work[b] \in Envelope /\ work[b].number \in DOMAIN asked
      /\ work[b].kind = asked[work[b].number]
      /\ work[b].origin = work[b].gateway /\ work[b].gateway \in Gateways
  BY <1>1, WorkRight DEF Routed, Numbered
<1>3. /\ m \in Envelope /\ m.kind = work[b].kind /\ m.number = work[b].number
      /\ m.gateway = work[b].gateway /\ m.destination = work[b].gateway
  BY <1>2, ServersApart DEF Envelope
<1> HIDE DEF m
<1>4. StartingWorld \in Worlds \cup {ANY}
  BY WorldOfSettings
<1>5. Remembered
  BY <1>1, NothingAsked DEF Routed
<1>6. ASSUME NEW s \in Worlds, s = StartingWorld PROVE m \in Right(s)'
  <2>1. m \in Right(s)
    BY <1>1, <1>2, <1>3, <1>6, ServersApart DEF Right, ForWorld
  <2>2. QED
    BY <1>5, <2>1, RightStays
<1>7. QueuesRouted' /\ UnreadRouted'
  <2>1. ASSUME NEW s \in Worlds, s = StartingWorld PROVE QueuesRouted' /\ UnreadRouted'
    <3>1. Publish(ServerTopic(s), m) /\ s \in Servers
      BY <1>1, <2>1, ServersApart
    <3>2. m \in Right(s)'
      BY <1>6, <2>1
    <3>3. QED
      BY <1>5, <3>1, <3>2, TopicReaders, PublishRoutes DEF Routed
  <2>2. CASE StartingWorld = ANY
    <3>1. m.number \in DOMAIN asked /\ Misdirected(m)
      BY <1>1, <1>2, <1>3, <2>2 DEF Misdirected
    <3>2. \A readers \in ServerTopic(StartingWorld) :
              \A s \in readers \cap Servers : m \in Right(s)'
      BY <2>2, TopicReaders
    <3>3. QED
      BY <1>1, <1>5, <3>1, <3>2, PublishRoutes DEF Routed
  <2>3. QED
    BY <1>4, <2>1, <2>2
<1>8. BackendsRouted'
  BY <1>1, BackendGoes DEF Routed
<1>9. IdsCounted'
  BY <1>1, IdsStay
<1>10. QED
  BY <1>7, <1>8, <1>9, WorldsStay DEF Routed

LEMMA BackendRoutes ==
    ASSUME Routed, NEW b \in Backends, BackendAction(b)
    PROVE  Routed'
  BY BackendTakeRoutes, BackendLoginRoutes, BackendRegisterRoutes, BackendRegisteredRoutes,
     BackendCreateRoutes, CommitCountRoutes, ForwardRoutes DEF BackendAction, BackendStep

-----------------------------------------------------------------------------
(* The worlds.                                                             *)

LEMMA WorkOfWorld ==
    ASSUME WorldsRouted, NEW w \in Worlds, wplace[w] = "handling"
    PROVE  /\ wwork[w] \in Right(w) /\ Numbered(wwork[w])
           /\ wwork[w].kind = asked[wwork[w].number]
           /\ wwork[w].kind = "create_character" => wwork[w].destination = wwork[w].gateway
           /\ wwork[w].kind # "create_character" => wwork[w].origin = wwork[w].gateway
           /\ wwork[w].kind = "play_character" => wwork[w].destination = ANY
           /\ wwork[w].user \in Nat
<1>1. wwork[w] \in Right(w)
  BY DEF WorldsRouted
<1>2. wwork[w] \in Envelope
  BY <1>1 DEF Right
<1>3. wwork[w].user \in Nat
  BY <1>2 DEF Envelope
<1>4. QED
  BY <1>1, <1>2, <1>3 DEF Right, ForWorld, Numbered

\* The consumer thread of a world is done with its message.
LEMMA WorldGoes ==
    ASSUME WorldsRouted, NEW w \in Worlds, UNCHANGED <<wwork, asked>>,
           wplace' = [wplace EXCEPT ![w] = "idle"],
           events' \in [Worlds -> Seq(Awaited)]
    PROVE  WorldsRouted'
<1>1. (\A s : Right(s)' = Right(s)) /\ Awaited' = Awaited
  BY RightSame
<1>2. /\ wplace' \in [Worlds -> {"idle", "handling"}]
      /\ \A v \in Worlds : wplace'[v] = "handling" => wplace[v] = "handling"
  BY DEF WorldsRouted
<1>3. QED
  BY <1>1, <1>2 DEF WorldsRouted

LEMMA WorldTakeRoutes ==
    ASSUME Routed, NEW w \in Worlds, WorldTake(w), UNCHANGED <<backendVars, asked>>
    PROVE  Routed'
<1>1. QueuesRouted' /\ UnreadRouted' /\ Head(inbox[w]) \in Right(w)
  BY SettingsStay, ServersApart, ConsumeRoutes DEF Routed, WorldTake
<1>2. PICK to \in {"idle", "handling"} : wplace' = [wplace EXCEPT ![w] = to]
  BY DEF WorldTake
<1>3. /\ \A v \in Worlds : wplace'[v] = IF v = w THEN to ELSE wplace[v]
      /\ wplace' \in [Worlds -> {"idle", "handling"}]
  BY <1>2 DEF Routed, WorldsRouted
<1>4. /\ DOMAIN wwork' = Worlds
      /\ \A v \in Worlds : wwork'[v] = IF v = w THEN Head(inbox[w]) ELSE wwork[v]
  BY DEF Routed, WorldsRouted, WorldTake
<1>5. (\A s : Right(s)' = Right(s)) /\ Awaited' = Awaited /\ events' = events
  BY RightSame DEF WorldTake
<1>6. WorldsRouted'
  BY <1>1, <1>3, <1>4, <1>5 DEF Routed, WorldsRouted
<1>7. QED
  BY <1>1, <1>6, BackendsStay DEF Routed

\* An event is put behind the others.
LEMMA EnqueuedRoutes ==
    ASSUME Routed, NEW w \in Worlds, wplace[w] = "handling",
           wwork[w].kind \in {"play_character", "create_character"},
           NEW maps \in SUBSET BOOLEAN, Enqueued(w, Event(wwork[w], wwork[w].gateway, maps)),
           UNCHANGED <<wwork, backendVars, asked, settings>>,
           wplace' = [wplace EXCEPT ![w] = "idle"]
    PROVE  Routed'
<1> DEFINE e == Event(wwork[w], wwork[w].gateway, maps)
<1>1. Numbered(wwork[w]) /\ wwork[w].kind = asked[wwork[w].number]
  BY WorkOfWorld DEF Routed
<1>2. wwork[w].gateway \in Gateways
  BY <1>1 DEF Numbered, Envelope
<1>3. e \in Awaited
  BY <1>1, <1>2 DEF Awaited, Event, Numbered
<1> HIDE DEF e
<1>4. events' = [events EXCEPT ![w] = Append(@, e)] /\ UNCHANGED kafkaVars
  BY DEF Enqueued, e
<1>5. events \in [Worlds -> Seq(Awaited)]
  BY DEF Routed, WorldsRouted
<1>6. Append(events[w], e) \in Seq(Awaited)
  BY <1>3, <1>5, QueueAppend
<1>7. events' \in [Worlds -> Seq(Awaited)]
  BY <1>4, <1>5, <1>6
<1>8. WorldsRouted'
  BY <1>7, WorldGoes DEF Routed
<1>9. QED
  BY <1>4, <1>8, QuietRoutes, BackendsStay DEF Routed

\* An error about play_character has no destination.
LEMMA WorldErrorRoutes ==
    ASSUME Routed, NEW w \in Worlds, wplace[w] = "handling",
           wwork[w].kind \in {"play_character", "create_character"}, WorldError(w),
           UNCHANGED <<wwork, backendVars, asked, settings>>,
           wplace' = [wplace EXCEPT ![w] = "idle"]
    PROVE  Routed'
<1> DEFINE a == Answer(wwork[w], "error_response", w, 0)
<1>1. /\ Numbered(wwork[w]) /\ wwork[w].kind = asked[wwork[w].number]
      /\ wwork[w].kind = "create_character" => wwork[w].destination = wwork[w].gateway
      /\ wwork[w].kind = "play_character" => wwork[w].destination = ANY
  BY WorkOfWorld DEF Routed
<1>2. Publish(ServerTopic(wwork[w].destination), a) /\ UNCHANGED events
  BY DEF WorldError
<1>3. QueuesRouted' /\ UnreadRouted'
  <2>1. CASE wwork[w].kind = "create_character"
    BY <1>1, <1>2, <2>1, ServersApart, AnswerRoutes DEF Routed, AnswerKinds
  <2>2. CASE wwork[w].kind = "play_character"
    <3>1. a.number = wwork[w].number /\ a.kind = "error_response"
      BY <1>1 DEF Numbered, Envelope, Answer
    <3> HIDE DEF a
    <3>2. Publish(ServerTopic(ANY), a)
      BY <1>1, <1>2, <2>2
    <3>3. Remembered
      BY NothingAsked DEF Routed
    <3>4. \A readers \in ServerTopic(ANY) : \A s \in readers \cap Servers : a \in Right(s)'
      BY TopicReaders
    <3>5. a.number \in DOMAIN asked /\ Misdirected(a)
      BY <1>1, <2>2, <3>1 DEF Numbered, Misdirected
    <3>6. QED
      BY <3>1, <3>2, <3>3, <3>4, <3>5, PublishRoutes DEF Routed
  <2>3. QED
    BY <2>1, <2>2
<1>4. WorldsRouted'
  BY <1>2, WorldGoes DEF Routed, WorldsRouted
<1>5. QED
  BY <1>3, <1>4, BackendsStay DEF Routed

LEMMA WorldGetCharactersRoutes ==
    ASSUME Routed, NEW w \in Worlds, WorldGetCharacters(w), UNCHANGED <<backendVars, asked>>
    PROVE  Routed'
<1>1. /\ wplace[w] = "handling" /\ wwork[w].kind = "get_characters"
      /\ UNCHANGED <<wwork, events>> /\ wplace' = [wplace EXCEPT ![w] = "idle"]
  BY DEF WorldGetCharacters, WorldHandles
<1>2. /\ Numbered(wwork[w]) /\ asked[wwork[w].number] = "get_characters"
      /\ wwork[w].origin = wwork[w].gateway /\ wwork[w].user \in Nat
  BY <1>1, WorkOfWorld DEF Routed
<1>3. \/ \E kind \in {"error_response", "get_characters_response"} :
            Publish(ServerTopic(wwork[w].gateway), Answer(wwork[w], kind, w, wwork[w].user))
      \/ UNCHANGED kafkaVars
  BY <1>2 DEF WorldGetCharacters
<1>4. QueuesRouted' /\ UnreadRouted'
  <2>1. ASSUME NEW kind \in {"error_response", "get_characters_response"},
               Publish(ServerTopic(wwork[w].gateway), Answer(wwork[w], kind, w, wwork[w].user))
        PROVE  QueuesRouted' /\ UnreadRouted'
    <3>1. kind \in AnswerKinds
          /\ kind \in {"error_response", ResponseTo[asked[wwork[w].number]]}
      BY <1>2, <2>1 DEF AnswerKinds, ResponseTo
    <3>2. QED
      BY <1>2, <2>1, <3>1, SettingsStay, ServersApart, AnswerRoutes DEF Routed
  <2>2. QED
    BY <1>3, <2>1, SettingsStay, QuietRoutes
<1>5. WorldsRouted'
  BY <1>1, WorldGoes DEF Routed, WorldsRouted
<1>6. QED
  BY <1>4, <1>5, BackendsStay DEF Routed

LEMMA WorldPlayCharacterRoutes ==
    ASSUME Routed, NEW w \in Worlds, WorldPlayCharacter(w), UNCHANGED <<backendVars, asked>>
    PROVE  Routed'
<1>1. /\ wplace[w] = "handling" /\ wwork[w].kind = "play_character"
      /\ UNCHANGED wwork /\ wplace' = [wplace EXCEPT ![w] = "idle"]
  BY DEF WorldPlayCharacter, WorldHandles
<1>2. wwork[w].origin = wwork[w].gateway
  BY <1>1, WorkOfWorld DEF Routed
<1>3. CASE WorldError(w)
  BY <1>1, <1>3, SettingsStay, WorldErrorRoutes
<1>4. ASSUME NEW p \in Players[w], Enqueued(w, Event(wwork[w], wwork[w].origin, {p.loaded}))
      PROVE  Routed'
  <2>1. {p.loaded} \in SUBSET BOOLEAN
    BY WorldAssumption
  <2>2. QED
    BY <1>1, <1>2, <1>4, <2>1, SettingsStay, EnqueuedRoutes
<1>5. QED
  BY <1>3, <1>4 DEF WorldPlayCharacter

LEMMA WorldCreateCharacterRoutes ==
    ASSUME Routed, NEW w \in Worlds, WorldCreateCharacter(w), UNCHANGED <<backendVars, asked>>
    PROVE  Routed'
<1>1. /\ wplace[w] = "handling" /\ wwork[w].kind = "create_character"
      /\ UNCHANGED wwork /\ wplace' = [wplace EXCEPT ![w] = "idle"]
  BY DEF WorldCreateCharacter, WorldHandles
<1>2. wwork[w].destination = wwork[w].gateway
  BY <1>1, WorkOfWorld DEF Routed
<1>3. CASE WorldError(w)
  BY <1>1, <1>3, SettingsStay, WorldErrorRoutes
<1>4. CASE Enqueued(w, Event(wwork[w], wwork[w].destination, BOOLEAN))
  BY <1>1, <1>2, <1>4, SettingsStay, EnqueuedRoutes
<1>5. QED
  BY <1>3, <1>4 DEF WorldCreateCharacter

LEMMA WorldTickRoutes ==
    ASSUME Routed, NEW w \in Worlds, WorldTick(w), UNCHANGED <<backendVars, asked>>
    PROVE  Routed'
<1> DEFINE e == Head(events[w])
<1>1. events \in [Worlds -> Seq(Awaited)]
  BY DEF Routed, WorldsRouted
<1>2. /\ events[w] # <<>> /\ events' = [events EXCEPT ![w] = Tail(@)]
      /\ UNCHANGED <<wplace, wwork>>
      /\ \E kind \in {"send_map", "error_response"} :
            Publish(ServerTopic(e.gateway), Answer(e.msg, kind, w, 0))
  BY DEF WorldTick
<1>3. e \in Awaited /\ Tail(events[w]) \in Seq(Awaited)
  BY <1>1, <1>2, QueueHead
<1> HIDE DEF e
<1>4. /\ Numbered(e.msg) /\ e.gateway = e.msg.gateway
      /\ asked[e.msg.number] \in {"play_character", "create_character"}
  BY <1>3 DEF Awaited, Numbered
<1>5. QueuesRouted' /\ UnreadRouted'
  <2>1. PICK kind \in {"send_map", "error_response"} :
            Publish(ServerTopic(e.msg.gateway), Answer(e.msg, kind, w, 0))
    BY <1>2, <1>4
  <2>2. kind \in AnswerKinds /\ kind \in {"error_response", ResponseTo[asked[e.msg.number]]}
    BY <1>4, <2>1 DEF AnswerKinds, ResponseTo
  <2>3. QED
    BY <1>4, <2>1, <2>2, SettingsStay, ServersApart, AnswerRoutes DEF Routed
<1>6. events' \in [Worlds -> Seq(Awaited)]
  BY <1>1, <1>2, <1>3
<1>7. WorldsRouted'
  BY <1>2, <1>6, RightSame DEF Routed, WorldsRouted
<1>8. QED
  BY <1>5, <1>7, BackendsStay DEF Routed

LEMMA WorldRoutes ==
    ASSUME Routed, NEW w \in Worlds, WorldAction(w)
    PROVE  Routed'
  BY WorldTakeRoutes, WorldGetCharactersRoutes, WorldPlayCharacterRoutes,
     WorldCreateCharacterRoutes, WorldTickRoutes DEF WorldAction, WorldConsumerStep

-----------------------------------------------------------------------------
(* A server that dies handles again what it had not committed.             *)

LEMMA BackendCrashRoutes ==
    ASSUME Routed, NEW b \in Backends, BackendCrash(b), UNCHANGED <<worldVars, asked>>
    PROVE  Routed'
<1>1. QueuesRouted' /\ UnreadRouted'
  BY ServersApart, RedeliverRoutes DEF Routed, BackendCrash
<1>2. BackendsRouted'
  BY BackendGoes DEF Routed, BackendCrash
<1>3. /\ \A c \in Backends : place'[c] = "registered" => c # b /\ place[c] = "registered"
      /\ \A c \in Backends : c # b => inserted'[c] = inserted[c]
      /\ DOMAIN inserted' = Backends /\ UNCHANGED <<users, lastId>>
  BY DEF Routed, BackendsRouted, IdsCounted, Goto, BackendCrash
<1>4. IdsCounted'
  BY <1>3 DEF Routed, IdsCounted
<1>5. QED
  BY <1>1, <1>2, <1>4, WorldsStay DEF Routed

LEMMA WorldCrashRoutes ==
    ASSUME Routed, NEW w \in Worlds, WorldCrash(w), UNCHANGED <<backendVars, asked>>
    PROVE  Routed'
<1>1. QueuesRouted' /\ UnreadRouted'
  BY SettingsStay, ServersApart, RedeliverRoutes DEF Routed, WorldCrash
<1>2. <<>> \in Seq(Awaited)
  OBVIOUS
<1>3. events' \in [Worlds -> Seq(Awaited)]
  BY <1>2 DEF Routed, WorldsRouted, WorldCrash
<1>4. WorldsRouted'
  BY <1>3, WorldGoes DEF Routed, WorldCrash
<1>5. QED
  BY <1>1, <1>4, BackendsStay DEF Routed

LEMMA CommitRoutes ==
    ASSUME Routed, NEW s \in Servers, CommitOffsets(s), UNCHANGED <<backendVars, worldVars, asked>>
    PROVE  Routed'
  BY SettingsStay, RedeliverRoutes, WorldsStay, BackendsStay DEF Routed

LEMMA StepRoutes == Routed /\ [Next]_vars => Routed'
<1> SUFFICES ASSUME Routed, [Next]_vars PROVE Routed'
  OBVIOUS
<1>1. ASSUME NEW s \in Backends \cup Worlds, Dies(s)
      PROVE  Routed'
  BY <1>1, BackendCrashRoutes, WorldCrashRoutes DEF Dies
<1>2. ASSUME NEW s \in Backends \cup Worlds, CommitOffsets(s),
             UNCHANGED <<backendVars, worldVars, asked>>
      PROVE  Routed'
  BY <1>2, CommitRoutes, ServersApart
<1>3. CASE UNCHANGED vars
  BY <1>3, SettingsStay, QuietRoutes, WorldsStay, BackendsStay DEF Routed, vars
<1>4. QED
  BY <1>1, <1>2, <1>3, GatewayRoutes, BackendRoutes, WorldRoutes DEF Next

LEMMA AlwaysRouted == Spec => []Routed
  BY InitRouted, StepRoutes, PTL DEF Spec

LEMMA RoutedAnswers == Routed => AnswersReachTheAsker
<1> SUFFICES ASSUME Routed, NEW s \in Servers, NEW k \in DOMAIN inbox[s],
                    inbox[s][k].kind \in AnswerKinds
             PROVE  /\ s = inbox[s][k].gateway
                    /\ inbox[s][k].kind \in
                          {"error_response", ResponseTo[asked[inbox[s][k].number]]}
  BY DEF AnswersReachTheAsker
<1> DEFINE m == inbox[s][k]
<1>1. m \in Right(s)
  BY DEF Routed, QueuesRouted
<1> HIDE DEF m
<1>2. m.number \in DOMAIN asked /\ asked \in Seq(RequestKinds) /\ m.kind \in AnswerKinds
  BY <1>1 DEF Right, Routed, QueuesRouted, m
<1>3. m.kind # asked[m.number]
  <2>1. asked[m.number] \in RequestKinds
    BY <1>2
  <2>2. QED
    BY <1>2, <2>1 DEF RequestKinds, AnswerKinds
<1>4. s \in Gateways
  BY <1>1, <1>3 DEF Servers, Right, ForBackend, ForWorld
<1>5. QED
  BY <1>1, <1>4 DEF Right, ForGateway, m

(* Every answer that waits at a server is for the gateway that asked, and of *)
(* a kind its client waits for, however many servers there are and however *)
(* often they die.                                                         *)
THEOREM AnswersAreRouted == Spec => []AnswersReachTheAsker
  BY AlwaysRouted, RoutedAnswers, PTL

(* What is sent where no server reads is an error about play_character or,  *)
(* with a starting world that does not exist, a create_character, and        *)
(* nothing else, however many servers there are and however often they die. *)
THEOREM OnlyMisdirectedGetLost == Spec => [](\A m \in unread : Misdirected(m))
<1>1. Routed => \A m \in unread : Misdirected(m)
  BY DEF Routed, UnreadRouted
<1>2. QED
  BY <1>1, AlwaysRouted, PTL

-----------------------------------------------------------------------------
(* The ids that clients are told when they register.  An id comes from the  *)
(* sequence, is held by one open transaction, and is told once: answers    *)
(* are never delivered again, as gateways are not in Dies.                 *)

Registering(b) == place[b] = "registered"

Fresh ==
    /\ \A m \in Registrations : m.user \in Len(Stored) + 1 .. lastId
    /\ \A m \in Registrations : \A b \in Backends :
          Registering(b) => m.user # inserted[b].id
    /\ \A b, c \in Backends :
          Registering(b) /\ Registering(c) /\ inserted[b].id = inserted[c].id => b = c
    /\ \A m, n \in Registrations : m.user = n.user => m = n

LEMMA RegistrationsAre ==
    \A m : m \in Registrations <=>
        /\ \E g \in Gateways : \E k \in DOMAIN inbox[g] : m = inbox[g][k]
        /\ m.kind = "register_response"
  BY DEF Registrations

LEMMA PublishRegisters ==
    ASSUME QueuesRouted, NEW topic, NEW m \in Envelope, Publish(topic, m)
    PROVE  \A r \in Registrations' : r \in Registrations \/ (r = m /\ m.kind = "register_response")
<1> SUFFICES ASSUME NEW g \in Gateways, NEW k \in DOMAIN inbox'[g],
                    inbox'[g][k].kind = "register_response"
             PROVE  \/ inbox'[g][k] \in Registrations
                    \/ inbox'[g][k] = m /\ m.kind = "register_response"
  BY RegistrationsAre DEF Registrations
<1>1. inbox[g] \in Seq(Envelope) /\ g \in Servers
  BY ServersApart DEF QueuesRouted
<1>2. inbox'[g] \in {inbox[g], Append(inbox[g], m)}
  BY <1>1 DEF Publish
<1>3. \/ k \in DOMAIN inbox[g] /\ inbox'[g][k] = inbox[g][k]
      \/ inbox'[g][k] = m
  <2>1. CASE inbox'[g] = inbox[g]
    BY <2>1
  <2>2. CASE inbox'[g] = Append(inbox[g], m)
    <3>1. /\ Len(inbox[g]) \in Nat /\ DOMAIN inbox[g] = 1 .. Len(inbox[g])
          /\ DOMAIN inbox'[g] = 1 .. Len(inbox[g]) + 1
          /\ \A j \in DOMAIN inbox[g] : inbox'[g][j] = inbox[g][j]
          /\ inbox'[g][Len(inbox[g]) + 1] = m
      BY <1>1, <2>2, QueueAppend
    <3>2. k \in 1 .. Len(inbox[g]) \/ k = Len(inbox[g]) + 1
      BY <3>1
    <3>3. QED
      BY <3>1, <3>2
  <2>3. QED
    BY <1>2, <2>1, <2>2
<1>4. QED
  BY <1>3, RegistrationsAre

LEMMA OthersRegisterNobody ==
    ASSUME QueuesRouted, NEW s \in Backends \cup Worlds,
           Consume(s) \/ Redeliver(s) \/ CommitOffsets(s)
    PROVE  Registrations' = Registrations
<1>1. \A g \in Gateways : g # s /\ g \in Servers
  BY ServersApart
<1>2. \A g \in Gateways : inbox'[g] = inbox[g]
  BY <1>1 DEF QueuesRouted, Consume, Redeliver, CommitOffsets
<1>3. QED
  BY <1>2 DEF Registrations

\* What keeps ids fresh without a look at the ids.
LEMMA FreshStays ==
    ASSUME Routed, Fresh, Registrations' \subseteq Registrations, lastId' \in {lastId, lastId + 1},
           \A b \in Backends : Registering(b)' => Registering(b) /\ inserted'[b] = inserted[b]
    PROVE  Fresh'
<1>1. \A i \in Len(Stored) + 1 .. lastId : i \in Len(Stored) + 1 .. lastId'
  BY StoredIds DEF Routed, IdsCounted
<1>2. QED
  BY <1>1 DEF Fresh

\* An answer that is no register_response registers nobody.
LEMMA PublishKeeps ==
    ASSUME QueuesRouted, NEW topic, NEW m \in Envelope, Publish(topic, m),
           m.kind # "register_response"
    PROVE  Registrations' \subseteq Registrations
  BY PublishRegisters

LEMMA AnswerInEnvelope ==
    ASSUME NEW m \in Envelope, NEW kind \in AnswerKinds, NEW o \in Servers, NEW u \in Nat
    PROVE  Answer(m, kind, o, u) \in Envelope /\ Answer(m, kind, o, u).kind = kind
           /\ Answer(m, kind, o, u).user = u
  BY DEF Envelope, Answer

LEMMA QuietRegisters == UNCHANGED kafkaVars => Registrations' = Registrations
  BY DEF kafkaVars, Registrations

LEMMA RequestRegistersNobody ==
    ASSUME Routed, NEW kind \in RequestKinds, NEW g \in Gateways, NEW c \in Clients,
           NEW u \in Nat, NEW n \in AnyName, NEW topic, Request(kind, g, c, u, n, topic)
    PROVE  Registrations' \subseteq Registrations
<1> DEFINE l == Len(asked) + 1
           m == [kind |-> kind, number |-> l, gateway |-> g, client |-> c, origin |-> g,
                 destination |-> ANY, user |-> u, name |-> n]
<1>1. l \in Nat
  BY DEF Routed, QueuesRouted
<1>2. Publish(topic, m)
  BY DEF Request
<1> HIDE DEF l
<1>3. m \in Envelope /\ m.kind = kind
  BY <1>1, ServersApart DEF Envelope
<1>4. kind # "register_response"
  BY DEF RequestKinds
<1> HIDE DEF m
<1>5. QED
  BY <1>2, <1>3, <1>4, PublishKeeps DEF Routed

LEMMA GatewayFresh ==
    ASSUME Routed, Fresh, NEW g \in Gateways, NEW c \in Clients, GatewayRequest(g, c)
    PROVE  Fresh'
<1>1. UNCHANGED backendVars
  BY DEF GatewayRequest, Request
<1>2. Registrations' \subseteq Registrations
  <2>1. ASSUME NEW k \in {"login", "register"}, NEW n \in UserNames,
               Request(k, g, c, 0, n, BackendMessages)
        PROVE  Registrations' \subseteq Registrations
    BY <2>1, RequestRegistersNobody DEF RequestKinds, AnyName
  <2>2. ASSUME NEW u \in ToldIds(g, c), NEW n \in CharacterNames,
               Request("create_character", g, c, u, n, BackendMessages)
        PROVE  Registrations' \subseteq Registrations
    BY <2>2, ToldTyped, RequestRegistersNobody DEF RequestKinds, AnyName
  <2>3. ASSUME NEW u \in ToldIds(g, c), NEW n \in CharacterNames, NEW w \in Worlds,
               Request("play_character", g, c, u, n, ServerTopic(w))
        PROVE  Registrations' \subseteq Registrations
    BY <2>3, ToldTyped, RequestRegistersNobody DEF RequestKinds, AnyName
  <2>4. ASSUME NEW u \in ToldIds(g, c),
               Request("get_characters", g, c, u, "", WorldMessages)
        PROVE  Registrations' \subseteq Registrations
    BY <2>4, ToldTyped, RequestRegistersNobody DEF RequestKinds, AnyName
  <2>5. QED
    BY <2>1, <2>2, <2>3, <2>4 DEF GatewayRequest
<1>3. QED
  BY <1>1, <1>2, FreshStays DEF backendVars, Registering

\* Where a backend that goes on does not begin to register.
LEMMA GoingOn ==
    ASSUME Routed, NEW b \in Backends, NEW to, to # "registered", Goto(b, to), UNCHANGED inserted
    PROVE  \A c \in Backends : Registering(c)' => Registering(c) /\ inserted'[c] = inserted[c]
  BY DEF Registering, Goto, Routed, BackendsRouted

LEMMA ReplyKeeps ==
    ASSUME Routed, NEW b \in Backends, place[b] # "idle", NEW u \in Nat,
           NEW kind \in AnswerKinds \ {"register_response"}, Reply(b, kind, u)
    PROVE  Registrations' \subseteq Registrations
<1>1. work[b] \in Envelope
  BY WorkRight DEF Routed, Numbered
<1>2. /\ Answer(work[b], kind, b, u) \in Envelope
      /\ Answer(work[b], kind, b, u).kind # "register_response"
  BY <1>1, ServersApart, AnswerInEnvelope
<1>3. QED
  BY <1>2, PublishKeeps DEF Routed, Reply

LEMMA ErrorKeeps ==
    ASSUME Routed, NEW b \in Backends, place[b] # "idle", Error(b)
    PROVE  Registrations' \subseteq Registrations
  BY ReplyKeeps DEF Error, AnswerKinds

LEMMA RegisterFresh ==
    ASSUME Routed, Fresh, NEW b \in Backends, BackendRegister(b)
    PROVE  Fresh'
<1>1. place[b] = "handling"
  BY DEF BackendRegister, Handling
<1>2. CASE Error(b) /\ UNCHANGED inserted /\ lastId' \in {lastId, lastId + 1}
  BY <1>1, <1>2, ErrorKeeps, GoingOn, FreshStays DEF Error, Reply
<1>3. CASE /\ lastId' = lastId + 1 /\ Goto(b, "registered") /\ UNCHANGED kafkaVars
           /\ inserted' = [inserted EXCEPT ![b] = [id |-> lastId + 1, username |-> work[b].name]]
  <2>1. Registrations' = Registrations
    BY <1>3, QuietRegisters
  <2>2. /\ lastId \in Nat /\ Len(Stored) \in Nat /\ Len(Stored) <= lastId
        /\ \A c \in Backends : Registering(c) => inserted[c].id \in Len(Stored) + 1 .. lastId
    BY StoredIds DEF Routed, IdsCounted, Registering
  <2>3. /\ \A c \in Backends : c # b => inserted'[c] = inserted[c] /\ (Registering(c)' <=> Registering(c))
        /\ inserted'[b].id = lastId + 1
    BY <1>3 DEF Goto, Routed, BackendsRouted, IdsCounted, Registering
  <2>4. \A i \in Len(Stored) + 1 .. lastId : i \in Len(Stored) + 1 .. lastId' /\ i # lastId + 1
    BY <1>3, <2>2
  <2>5. \A m \in Registrations : m.user \in Len(Stored) + 1 .. lastId
    BY DEF Fresh
  <2>6. \A m \in Registrations : \A c \in Backends : Registering(c)' => m.user # inserted'[c].id
    BY <2>3, <2>4, <2>5 DEF Fresh
  <2>7. \A c, d \in Backends :
          Registering(c)' /\ Registering(d)' /\ inserted'[c].id = inserted'[d].id => c = d
    BY <2>2, <2>3, <2>4 DEF Fresh
  <2>8. QED
    BY <2>1, <2>4, <2>5, <2>6, <2>7 DEF Fresh
<1>4. QED
  BY <1>2, <1>3 DEF BackendRegister

LEMMA RegisteredFresh ==
    ASSUME Routed, Fresh, NEW b \in Backends, BackendRegistered(b)
    PROVE  Fresh'
<1> DEFINE a == Answer(work[b], "register_response", b, inserted[b].id)
<1>1. /\ Registering(b) /\ Reply(b, "register_response", inserted[b].id)
      /\ inserted' = [inserted EXCEPT ![b] = Nothing] /\ UNCHANGED lastId
  BY DEF BackendRegistered, Registering
<1>2. work[b] \in Envelope /\ inserted[b].id \in Nat
      /\ inserted[b].id \in Len(Stored) + 1 .. lastId
  BY <1>1, WorkRight, StoredIds DEF Routed, Numbered, IdsCounted, Registering
<1>3. a \in Envelope /\ a.user = inserted[b].id
  <2>1. "register_response" \in AnswerKinds /\ b \in Servers
    BY ServersApart DEF AnswerKinds
  <2>2. QED
    BY <1>2, <2>1, AnswerInEnvelope
<1>4. Publish(ServerTopic(work[b].origin), a) /\ Goto(b, "idle")
  BY <1>1 DEF Reply
<1> HIDE DEF a
<1>5. \A r \in Registrations' : r \in Registrations \/ r = a
  BY <1>3, <1>4, PublishRegisters DEF Routed
<1>6. \A c \in Backends : Registering(c)' => c # b /\ Registering(c) /\ inserted'[c] = inserted[c]
  BY <1>1, <1>4 DEF Goto, Routed, BackendsRouted, IdsCounted, Registering
<1>7. \A m \in Registrations : m.user # a.user
  BY <1>1, <1>3 DEF Fresh
<1>8. \A c \in Backends : Registering(c)' => a.user # inserted'[c].id
  BY <1>1, <1>3, <1>6 DEF Fresh
<1>9. QED
  BY <1>1, <1>2, <1>3, <1>5, <1>6, <1>7, <1>8 DEF Fresh

LEMMA BackendFresh ==
    ASSUME Routed, Fresh, NEW b \in Backends, BackendAction(b)
    PROVE  Fresh'
<1>1. CASE BackendTake(b)
  <2>1. PICK to \in {"idle", "handling"} : Goto(b, to)
    BY <1>1 DEF BackendTake
  <2>2. UNCHANGED <<lastId, inserted>> /\ Consume(b)
    BY <1>1 DEF BackendTake
  <2>3. QED
    BY <2>1, <2>2, GoingOn, OthersRegisterNobody, FreshStays DEF Routed
<1>2. CASE BackendLogin(b)
  <2>1. place[b] = "handling" /\ UNCHANGED <<lastId, inserted>>
    BY <1>2 DEF BackendLogin, Handling
  <2>2. \A i \in Named(work[b].name) : i \in Nat
    BY StoredIds DEF Named, Routed, IdsCounted
  <2>3. PICK kind \in {"error_response", "login_response"}, u \in Nat : Reply(b, kind, u)
    BY <1>2, <2>2 DEF BackendLogin, Error
  <2>4. Registrations' \subseteq Registrations
    BY <2>1, <2>3, ReplyKeeps DEF AnswerKinds
  <2>5. QED
    BY <2>1, <2>3, <2>4, GoingOn, FreshStays DEF Reply
<1>3. CASE BackendCreateCharacter(b)
  <2>1. place[b] = "handling" /\ UNCHANGED <<lastId, inserted>>
    BY <1>3 DEF BackendCreateCharacter, Handling
  <2>2. CASE Error(b)
    BY <2>1, <2>2, ErrorKeeps, GoingOn, FreshStays DEF Error, Reply
  <2>3. ASSUME NEW to \in {"idle", "counted"}, Goto(b, to), UNCHANGED kafkaVars
        PROVE  Fresh'
    BY <2>1, <2>3, QuietRegisters, GoingOn, FreshStays
  <2>4. QED
    BY <1>3, <2>2, <2>3 DEF BackendCreateCharacter
<1>4. CASE CommitCount(b)
  <2>1. place[b] = "counted" /\ UNCHANGED <<lastId, inserted>>
    BY <1>4 DEF CommitCount
  <2>2. CASE Error(b)
    BY <2>1, <2>2, ErrorKeeps, GoingOn, FreshStays DEF Error, Reply
  <2>3. CASE Goto(b, "committed") /\ UNCHANGED kafkaVars
    BY <2>1, <2>3, QuietRegisters, GoingOn, FreshStays
  <2>4. QED
    BY <1>4, <2>2, <2>3 DEF CommitCount
<1>5. CASE ForwardCharacter(b)
  <2> DEFINE m == [work[b] EXCEPT !.origin = b, !.destination = work[b].origin]
  <2>1. /\ place[b] = "committed" /\ UNCHANGED <<lastId, inserted>> /\ Goto(b, "idle")
        /\ Publish(ServerTopic(StartingWorld), m)
    BY <1>5 DEF ForwardCharacter
  <2>2. work[b] \in Envelope /\ work[b].kind = "create_character" /\ work[b].origin \in Servers
    BY <2>1, WorkRight, ServersApart DEF Routed, BackendsRouted, Numbered
  <2>3. m \in Envelope /\ m.kind # "register_response"
    BY <2>2, ServersApart DEF Envelope
  <2> HIDE DEF m
  <2>4. Registrations' \subseteq Registrations
    BY <2>1, <2>3, PublishKeeps DEF Routed
  <2>5. QED
    BY <2>1, <2>4, GoingOn, FreshStays
<1>6. QED
  BY <1>1, <1>2, <1>3, <1>4, <1>5, RegisterFresh, RegisteredFresh DEF BackendAction, BackendStep

LEMMA WorldFresh ==
    ASSUME Routed, Fresh, NEW w \in Worlds, WorldAction(w)
    PROVE  Fresh'
<1>1. UNCHANGED backendVars
  BY DEF WorldAction
<1>2. CASE WorldTake(w)
  <2>1. Registrations' = Registrations
    BY <1>2, OthersRegisterNobody DEF Routed, WorldTake
  <2>2. QED
    BY <1>1, <2>1, FreshStays DEF backendVars, Registering
<1>3. ASSUME NEW topic, NEW m \in Envelope, NEW kind \in {"error_response", "get_characters_response", "send_map"},
             NEW u \in Nat, Publish(topic, Answer(m, kind, w, u))
      PROVE  Registrations' \subseteq Registrations
  BY <1>3, ServersApart, AnswerInEnvelope, PublishKeeps DEF AnswerKinds, Routed
<1>4. CASE WorldGetCharacters(w) \/ WorldPlayCharacter(w) \/ WorldCreateCharacter(w)
  <2>1. wwork[w] \in Envelope /\ wwork[w].user \in Nat
    BY <1>4, WorkOfWorld DEF Routed, Numbered, WorldGetCharacters, WorldPlayCharacter,
       WorldCreateCharacter, WorldHandles
  <2>2. ASSUME NEW topic, NEW kind \in {"error_response", "get_characters_response"},
               NEW u \in {0, wwork[w].user}, Publish(topic, Answer(wwork[w], kind, w, u))
        PROVE  Registrations' \subseteq Registrations
    BY <1>3, <2>1, <2>2
  <2>3. Registrations' \subseteq Registrations
    <3>1. CASE WorldGetCharacters(w)
      BY <2>2, <3>1, QuietRegisters DEF WorldGetCharacters
    <3>2. CASE UNCHANGED kafkaVars \/ WorldError(w)
      BY <2>2, <3>2, QuietRegisters DEF WorldError
    <3>3. QED
      BY <1>4, <3>1, <3>2 DEF WorldPlayCharacter, WorldCreateCharacter, Enqueued
  <2>4. QED
    BY <1>1, <2>3, FreshStays DEF backendVars, Registering
<1>5. CASE WorldTick(w)
  <2>1. Head(events[w]).msg \in Envelope
    <3>1. Head(events[w]) \in Awaited
      BY <1>5, QueueHead DEF Routed, WorldsRouted, WorldTick
    <3>2. QED
      BY <3>1 DEF Awaited
  <2> DEFINE e == Head(events[w])
  <2>2. \E kind \in {"error_response", "send_map"} :
            Publish(ServerTopic(e.gateway), Answer(e.msg, kind, w, 0))
    BY <1>5 DEF WorldTick
  <2> HIDE DEF e
  <2>3. Registrations' \subseteq Registrations
    BY <1>3, <2>1, <2>2 DEF e
  <2>4. QED
    BY <1>1, <2>3, FreshStays DEF backendVars, Registering
<1>6. QED
  BY <1>2, <1>4, <1>5 DEF WorldAction, WorldConsumerStep

LEMMA StepFresh == Routed /\ Fresh /\ [Next]_vars => Fresh'
<1> SUFFICES ASSUME Routed, Fresh, [Next]_vars PROVE Fresh'
  OBVIOUS
<1>1. ASSUME NEW b \in Backends, BackendCrash(b)
      PROVE  Fresh'
  <2>1. Registrations' = Registrations /\ UNCHANGED lastId
    BY <1>1, OthersRegisterNobody DEF BackendCrash, Routed
  <2>2. \A c \in Backends : Registering(c)' => Registering(c) /\ inserted'[c] = inserted[c]
    BY <1>1 DEF BackendCrash, Goto, Routed, BackendsRouted, IdsCounted, Registering
  <2>3. QED
    BY <2>1, <2>2, FreshStays
<1>2. ASSUME NEW w \in Worlds, WorldCrash(w), UNCHANGED backendVars
      PROVE  Fresh'
  BY <1>2, OthersRegisterNobody, FreshStays DEF WorldCrash, Routed, backendVars, Registering
<1>3. ASSUME NEW s \in Backends \cup Worlds, CommitOffsets(s), UNCHANGED backendVars
      PROVE  Fresh'
  BY <1>3, OthersRegisterNobody, FreshStays DEF Routed, backendVars, Registering
<1>4. CASE UNCHANGED vars
  BY <1>4, QuietRegisters, FreshStays DEF vars, backendVars, Registering
<1>5. QED
  BY <1>1, <1>2, <1>3, <1>4, GatewayFresh, BackendFresh, WorldFresh DEF Next, Dies

LEMMA InitFresh == Init => Fresh
<1> SUFFICES ASSUME Init PROVE Fresh
  OBVIOUS
<1>1. \A g \in Gateways : inbox[g] = <<>>
  BY ServersApart DEF Init, KafkaInit
<1>2. Registrations = {}
  BY <1>1, RegistrationsAre
<1>3. \A b \in Backends : ~Registering(b)
  BY DEF Init, BackendInit, Registering
<1>4. QED
  BY <1>2, <1>3 DEF Fresh

(* The ids that clients are told after they registered differ from each     *)
(* other and from those of all users in the table, for any number of       *)
(* backends, though the transactions are rolled back and backends die.     *)
THEOREM ToldIdsAreFresh == Spec => []RegisteredIdsAreFresh
<1>1. Fresh => RegisteredIdsAreFresh
  BY StoredIds DEF Fresh, RegisteredIdsAreFresh
<1>2. QED
  BY <1>1, AlwaysRouted, InitFresh, StepFresh, PTL DEF Spec

-----------------------------------------------------------------------------
(* One backend: nobody writes between its read and its write of a count.   *)

Counted ==
    /\ users \in [DOMAIN Stored -> [username : UserNames, players : Nat]]
    /\ forwarded \in [DOMAIN Stored -> Nat] /\ DOMAIN read = Backends /\ DOMAIN place = Backends
    /\ \A i \in DOMAIN Stored :
          /\ forwarded[i] <= users[i].players
          /\ users[i].players > 0 => MaxCharacters \in Nat /\ users[i].players <= MaxCharacters
    /\ settings \in Settings
    /\ \A b \in Backends :
          /\ place[b] = "counted" =>
                /\ work[b].user \in DOMAIN Stored
                /\ read[b] = users[work[b].user].players
                /\ MaxCharacters \in Nat /\ read[b] < MaxCharacters
          /\ place[b] = "committed" =>
                /\ work[b].user \in DOMAIN Stored
                /\ forwarded[work[b].user] < users[work[b].user].players

LEMMA InitCounted == Init => Counted
<1> SUFFICES ASSUME Init PROVE Counted
  OBVIOUS
<1>1. \A i \in DOMAIN Stored : Stored[i] \in UserNames
  BY BackendAssumption
<1>2. \A i \in DOMAIN Stored : users[i].players = 0 /\ forwarded[i] = 0
  BY DEF Init, BackendInit
<1>3. \A b \in Backends : place[b] = "idle"
  BY DEF Init, BackendInit
<1>4. /\ users \in [DOMAIN Stored -> [username : UserNames, players : Nat]]
      /\ forwarded \in [DOMAIN Stored -> Nat] /\ DOMAIN read = Backends
      /\ DOMAIN place = Backends /\ settings \in Settings
  BY <1>1 DEF Init, BackendInit
<1>5. QED
  BY <1>2, <1>3, <1>4 DEF Counted

\* A backend is where no count is under way.
LEMMA Uncounted ==
    ASSUME Counted, NEW b \in Backends, Backends = {b},
           UNCHANGED <<settings, users, read, forwarded>>,
           NEW to, to \notin {"counted", "committed"}, Goto(b, to)
    PROVE  Counted'
<1>1. place'[b] = to /\ DOMAIN place' = Backends
  BY DEF Counted, Goto
<1>2. MaxCharacters' = MaxCharacters
  BY DEF MaxCharacters
<1>3. QED
  BY <1>1, <1>2 DEF Counted

LEMMA BackendCounts ==
    ASSUME Counted, NEW b \in Backends, Backends = {b}, BackendStep(b)
    PROVE  Counted'
<1>0. settings' = settings /\ MaxCharacters' = MaxCharacters
  BY DEF BackendStep, BackendTake, BackendLogin, BackendRegister, BackendRegistered,
     BackendCreateCharacter, CommitCount, ForwardCharacter, MaxCharacters
<1>1. CASE BackendTake(b)
  <2>1. PICK to \in {"idle", "handling"} : Goto(b, to)
    BY <1>1 DEF BackendTake
  <2>2. QED
    BY <1>1, <2>1, Uncounted DEF BackendTake
<1>2. CASE BackendLogin(b) \/ BackendRegister(b) \/ BackendRegistered(b)
  <2>1. PICK to \in {"idle", "registered"} : Goto(b, to)
    BY <1>2 DEF BackendLogin, BackendRegister, BackendRegistered, Error, Reply
  <2>2. QED
    BY <1>2, <2>1, Uncounted DEF BackendLogin, BackendRegister, BackendRegistered
<1>3. CASE BackendCreateCharacter(b)
  <2>1. CASE (Error(b) \/ Goto(b, "idle")) /\ UNCHANGED read
    BY <1>3, <2>1, Uncounted DEF BackendCreateCharacter, Error, Reply
  <2>2. CASE /\ Known(work[b].user) /\ MaxCharacters # Nothing
             /\ users[work[b].user].players < MaxCharacters
             /\ read' = [read EXCEPT ![b] = users[work[b].user].players]
             /\ Goto(b, "counted")
    <3>1. UNCHANGED <<users, work, forwarded>>
      BY <1>3 DEF BackendCreateCharacter
    <3>2. /\ place'[b] = "counted" /\ DOMAIN place' = Backends
          /\ read'[b] = users[work[b].user].players /\ DOMAIN read' = Backends
      BY <2>2 DEF Counted, Goto
    <3>3. work[b].user \in DOMAIN Stored
      BY <2>2 DEF Known, Counted
    <3>4. MaxCharacters \in Nat
      BY <2>2, BackendAssumption DEF Counted, MaxCharacters
    <3>5. QED
      BY <1>0, <2>2, <3>1, <3>2, <3>3, <3>4 DEF Counted
  <2>3. QED
    BY <1>3, <2>1, <2>2 DEF BackendCreateCharacter
<1>4. CASE CommitCount(b)
  <2> DEFINE u == work[b].user
             counted == [users EXCEPT ![u].players = read[b] + 1]
  <2>1. /\ u \in DOMAIN Stored /\ read[b] = users[u].players /\ read[b] < MaxCharacters
        /\ MaxCharacters \in Nat
        /\ UNCHANGED <<work, read, forwarded>>
    BY <1>4 DEF CommitCount, Counted
  <2>2. /\ \A i \in DOMAIN Stored : /\ users[i].players \in Nat /\ forwarded[i] \in Nat
                                     /\ forwarded[i] <= users[i].players
                                     /\ users[i].players <= MaxCharacters
    BY <2>1 DEF Counted
  <2>3. counted \in [DOMAIN Stored -> [username : UserNames, players : Nat]]
    BY <2>1, <2>2 DEF Counted
  <2>4. /\ counted[u].players = users[u].players + 1
        /\ \A i \in DOMAIN Stored : i # u => counted[i] = users[i]
    BY <2>1 DEF Counted
  <2> HIDE DEF counted
  <2>5. \A i \in DOMAIN Stored : /\ forwarded[i] <= counted[i].players
                                  /\ counted[i].players <= MaxCharacters
    BY <2>1, <2>2, <2>4
  <2>6. CASE users' = counted /\ Goto(b, "committed")
    <3>1. place'[b] = "committed" /\ DOMAIN place' = Backends
      BY <2>6 DEF Counted, Goto
    <3>2. forwarded[u] < counted[u].players
      BY <2>1, <2>2, <2>4
    <3>3. QED
      BY <1>0, <2>1, <2>3, <2>5, <2>6, <3>1, <3>2 DEF Counted
  <2>7. CASE users' \in {users, counted} /\ Goto(b, "idle")
    <3>1. place'[b] = "idle" /\ DOMAIN place' = Backends
      BY <2>7 DEF Counted, Goto
    <3>2. QED
      BY <1>0, <2>1, <2>3, <2>5, <2>7, <3>1 DEF Counted
  <2>8. QED
    BY <1>4, <2>6, <2>7 DEF CommitCount, Error, Reply, counted
<1>5. CASE ForwardCharacter(b)
  <2> DEFINE u == work[b].user
  <2>1. /\ u \in DOMAIN Stored /\ forwarded[u] < users[u].players
        /\ forwarded' = [forwarded EXCEPT ![u] = @ + 1]
        /\ UNCHANGED <<users, work, read>> /\ Goto(b, "idle")
    BY <1>5 DEF ForwardCharacter, Counted
  <2>2. place'[b] = "idle" /\ DOMAIN place' = Backends
    BY <2>1 DEF Counted, Goto
  <2>3. \A i \in DOMAIN Stored : users[i].players \in Nat /\ forwarded[i] \in Nat
    BY DEF Counted
  <2>4. /\ forwarded' \in [DOMAIN Stored -> Nat]
        /\ forwarded'[u] = forwarded[u] + 1
        /\ \A i \in DOMAIN Stored : i # u => forwarded'[i] = forwarded[i]
    BY <2>1, <2>3 DEF Counted
  <2>5. \A i \in DOMAIN Stored : forwarded'[i] <= users[i].players
    BY <2>1, <2>3, <2>4 DEF Counted
  <2>6. QED
    BY <1>0, <2>1, <2>2, <2>4, <2>5 DEF Counted
<1>6. QED
  BY <1>1, <1>2, <1>3, <1>4, <1>5 DEF BackendStep

LEMMA StepCounts ==
    ASSUME \A b, c \in Backends : b = c
    PROVE  Counted /\ [Next]_vars => Counted'
<1> SUFFICES ASSUME Counted, [Next]_vars PROVE Counted'
  OBVIOUS
<1>1. CASE UNCHANGED backendVars
  BY <1>1 DEF backendVars, Counted, MaxCharacters
<1>2. ASSUME NEW b \in Backends, BackendCrash(b)
      PROVE  Counted'
  <2>1. Backends = {b}
    OBVIOUS
  <2>2. QED
    BY <1>2, <2>1, Uncounted DEF BackendCrash
<1>3. ASSUME NEW b \in Backends, BackendStep(b)
      PROVE  Counted'
  <2>1. Backends = {b}
    OBVIOUS
  <2>2. QED
    BY <1>3, <2>1, BackendCounts
<1>4. QED
  BY <1>1, <1>2, <1>3, ZenonT(40) DEF Next, GatewayRequest, Request, BackendAction, WorldAction, Dies, vars

LEMMA CountedForwards ==
    ASSUME \A b, c \in Backends : b = c
    PROVE  Counted => ForwardsWithinCount
<1> SUFFICES ASSUME Counted, NEW i \in DOMAIN users
             PROVE  /\ forwarded[i] + Cardinality({b \in Backends : place[b] = "committed"
                                                                  /\ work[b].user = i})
                          <= users[i].players
                    /\ users[i].players > 0 =>
                          MaxCharacters # Nothing /\ users[i].players <= MaxCharacters
  BY DEF ForwardsWithinCount
<1> DEFINE sending == {b \in Backends : place[b] = "committed" /\ work[b].user = i}
<1>1. /\ i \in DOMAIN Stored /\ forwarded[i] \in Nat /\ users[i].players \in Nat
      /\ forwarded[i] <= users[i].players
      /\ users[i].players > 0 => MaxCharacters # Nothing /\ users[i].players <= MaxCharacters
  BY BackendAssumption DEF Counted
<1>2. CASE sending = {}
  <2>1. Cardinality(sending) = 0
    BY <1>2, FS_EmptySet
  <2>2. QED
    BY <1>1, <2>1
<1>3. ASSUME NEW b \in sending
      PROVE  Cardinality(sending) = 1 /\ forwarded[i] < users[i].players
  <2>1. sending = {b} /\ forwarded[i] < users[i].players
    BY <1>3 DEF Counted
  <2>2. QED
    BY <2>1, FS_Singleton
<1>4. forwarded[i] + Cardinality(sending) <= users[i].players
  <2>1. CASE sending # {}
    <3>1. PICK b : b \in sending
      BY <2>1
    <3>2. Cardinality(sending) = 1 /\ forwarded[i] < users[i].players
      BY <1>3, <3>1
    <3> HIDE DEF sending
    <3>3. QED
      BY <1>1, <3>2
  <2>2. QED
    BY <1>2, <2>1
<1>5. QED
  BY <1>1, <1>4

(* With one backend, the characters of a user that are on their way to the  *)
(* starting world stay within the user's count, and the count within the   *)
(* limit, however often the backend dies between reading the count,        *)
(* writing it and sending the character on.                                *)
THEOREM OneBackendCountsRight ==
    (\A b, c \in Backends : b = c) => (Spec => []ForwardsWithinCount)
<1> SUFFICES ASSUME \A b, c \in Backends : b = c
             PROVE  Spec => []ForwardsWithinCount
  OBVIOUS
<1>1. Counted /\ [Next]_vars => Counted'
  BY StepCounts
<1>2. Counted => ForwardsWithinCount
  BY CountedForwards
<1>3. QED
  BY <1>1, <1>2, InitCounted, PTL DEF Spec

-----------------------------------------------------------------------------
(* Types.  Beyond what is routed, a message has one of the kinds that are   *)
(* asked or answered and a user id that was given out.                     *)

Meant == {m \in Envelope : Message(m)}

QueuesTyped ==
    /\ \A s \in Servers : inbox[s] \in Seq(Meant) /\ uncommitted[s] \in Seq(Meant)
    /\ unread \subseteq Meant
    /\ crashes \in 0 .. MaxCrashes

BackendsTyped ==
    /\ users \in [DOMAIN Stored -> [username : UserNames, players : Nat]]
    /\ read \in [Backends -> Nat]
    /\ \A b \in Backends :
        /\ place[b] # "idle" => work[b] \in Meant
        /\ place[b] = "registered" <=> inserted[b] # Nothing
        /\ place[b] \in {"counted", "committed"} => work[b].user \in DOMAIN Stored

WorldsTyped ==
    \A w \in Worlds :
        /\ wplace[w] = "handling" => wwork[w] \in Meant
        /\ \A k \in DOMAIN events[w] : events[w][k].msg \in Meant

Typed == QueuesTyped /\ BackendsTyped /\ WorldsTyped

\* Nothing is forgotten: neither requests nor ids.
Wider == Meant \subseteq Meant'

LEMMA NothingForgotten ==
    ASSUME \A n \in DOMAIN asked : n \in DOMAIN asked',
           lastId \in Nat, lastId' \in Nat, lastId <= lastId'
    PROVE  Wider
<1>1. 0 .. lastId \subseteq 0 .. lastId'
  OBVIOUS
<1>2. QED
  BY <1>1 DEF Wider, Meant, Message

LEMMA SameIds == Routed /\ UNCHANGED <<asked, lastId>> => Wider
  BY NothingForgotten DEF Routed, IdsCounted

LEMMA PublishTypes ==
    ASSUME Routed, QueuesTyped, Wider, NEW topic, NEW m \in Meant', Publish(topic, m)
    PROVE  QueuesTyped'
<1>1. PICK readers \in topic :
          /\ inbox' = [s \in Servers |->
                          IF s \in readers THEN Append(inbox[s], m) ELSE inbox[s]]
          /\ unread' = IF readers = {} THEN unread \cup {m} ELSE unread
  BY DEF Publish
<1>2. ASSUME NEW s \in Servers
      PROVE  inbox'[s] \in Seq(Meant') /\ uncommitted'[s] \in Seq(Meant')
  <2>1. inbox[s] \in Seq(Meant') /\ uncommitted'[s] \in Seq(Meant')
    BY QueueWider DEF QueuesTyped, Wider, Publish
  <2>2. Append(inbox[s], m) \in Seq(Meant')
    BY <2>1, QueueAppend
  <2>3. QED
    BY <1>1, <2>1, <2>2
<1>3. unread' \subseteq Meant'
  BY <1>1 DEF QueuesTyped, Wider
<1>4. QED
  BY <1>2, <1>3 DEF QueuesTyped, Publish

LEMMA QuietTypes ==
    ASSUME QueuesTyped, Wider, UNCHANGED kafkaVars
    PROVE  QueuesTyped'
<1>1. \A s \in Servers : inbox[s] \in Seq(Meant') /\ uncommitted[s] \in Seq(Meant')
  BY QueueWider DEF QueuesTyped, Wider
<1>2. QED
  BY <1>1 DEF QueuesTyped, Wider, kafkaVars

LEMMA ConsumeTypes ==
    ASSUME Routed, QueuesTyped, Wider, NEW s \in Servers, Consume(s)
    PROVE  QueuesTyped' /\ Head(inbox[s]) \in Meant'
<1>1. \A t \in Servers : inbox[t] \in Seq(Meant') /\ uncommitted[t] \in Seq(Meant')
  BY QueueWider DEF QueuesTyped, Wider
<1>2. Head(inbox[s]) \in Meant' /\ Tail(inbox[s]) \in Seq(Meant')
  BY <1>1, QueueHead DEF Consume
<1>3. Append(uncommitted[s], Head(inbox[s])) \in Seq(Meant')
  BY <1>1, <1>2, QueueAppend
<1>4. DOMAIN inbox = Servers /\ DOMAIN uncommitted = Servers
  BY DEF Routed, QueuesRouted
<1>5. \A t \in Servers : inbox'[t] \in Seq(Meant') /\ uncommitted'[t] \in Seq(Meant')
  BY <1>1, <1>2, <1>3, <1>4 DEF Consume
<1>6. QED
  BY <1>2, <1>5 DEF QueuesTyped, Wider, Consume

LEMMA RedeliverTypes ==
    ASSUME Routed, QueuesTyped, Wider, NEW s \in Servers, Redeliver(s) \/ CommitOffsets(s)
    PROVE  QueuesTyped'
<1>1. \A t \in Servers : inbox[t] \in Seq(Meant') /\ uncommitted[t] \in Seq(Meant')
  BY QueueWider DEF QueuesTyped, Wider
<1>2. uncommitted[s] \o inbox[s] \in Seq(Meant') /\ <<>> \in Seq(Meant')
  BY <1>1, QueueConcat
<1>3. DOMAIN inbox = Servers /\ DOMAIN uncommitted = Servers
  BY DEF Routed, QueuesRouted
<1>4. \A t \in Servers : inbox'[t] \in Seq(Meant') /\ uncommitted'[t] \in Seq(Meant')
  BY <1>1, <1>2, <1>3 DEF Redeliver, CommitOffsets
<1>5. crashes' \in 0 .. MaxCrashes
  <2>1. crashes \in 0 .. MaxCrashes /\ MaxCrashes \in Nat
    BY KafkaAssumption DEF QueuesTyped
  <2>2. crashes' = crashes \/ (crashes < MaxCrashes /\ crashes' = crashes + 1)
    BY DEF Redeliver, CommitOffsets
  <2>3. QED
    BY <2>1, <2>2
<1>6. QED
  BY <1>4, <1>5 DEF QueuesTyped, Wider, Redeliver, CommitOffsets

LEMMA AnswerMeant ==
    ASSUME NEW m \in Meant, Wider, NEW kind \in AnswerKinds, NEW o \in Servers,
           NEW u \in 0 .. lastId, UNCHANGED asked, lastId \in Nat, lastId' \in Nat, lastId <= lastId'
    PROVE  Answer(m, kind, o, u) \in Meant'
<1> DEFINE a == Answer(m, kind, o, u)
<1>1. /\ m \in Envelope /\ m.number \in DOMAIN asked
      /\ m.gateway \in Gateways /\ m.client \in Clients /\ u \in Nat
  BY DEF Meant, Message
<1>2. /\ a \in Envelope /\ a.kind = kind /\ a.number = m.number /\ a.gateway = m.gateway
      /\ a.client = m.client /\ a.origin = o /\ a.destination = ANY /\ a.user = u
  BY <1>1 DEF Envelope, Answer
<1> HIDE DEF a
<1>3. u \in 0 .. lastId'
  OBVIOUS
<1>4. a \in Meant'
  BY <1>1, <1>2, <1>3 DEF Meant, Message
<1>5. QED
  BY <1>4 DEF a

-----------------------------------------------------------------------------
LEMMA InitTyped == Init => Typed
<1> SUFFICES ASSUME Init PROVE Typed
  OBVIOUS
<1> USE DEF Init, KafkaInit, BackendInit, WorldInit
<1>1. QueuesTyped
  BY KafkaAssumption DEF QueuesTyped
<1>2. BackendsTyped
  BY BackendAssumption DEF BackendsTyped
<1>3. WorldsTyped
  BY DEF WorldsTyped
<1>4. QED
  BY <1>1, <1>2, <1>3 DEF Typed

LEMMA BackendsKeep == BackendsTyped /\ Wider /\ UNCHANGED backendVars => BackendsTyped'
  BY DEF BackendsTyped, Wider, backendVars

LEMMA WorldsKeep == WorldsTyped /\ Wider /\ UNCHANGED worldVars => WorldsTyped'
  BY DEF WorldsTyped, Wider, worldVars

LEMMA RequestTyped ==
    ASSUME Routed, Typed, NEW kind \in RequestKinds, NEW g \in Gateways, NEW c \in Clients,
           NEW u \in 0 .. lastId, NEW n \in AnyName, NEW topic, Request(kind, g, c, u, n, topic)
    PROVE  Typed'
<1> DEFINE l == Len(asked) + 1
           m == [kind |-> kind, number |-> l, gateway |-> g, client |-> c, origin |-> g,
                 destination |-> ANY, user |-> u, name |-> n]
<1>1. /\ kind \in Kinds /\ asked' = Append(asked, kind) /\ Publish(topic, m)
      /\ UNCHANGED <<backendVars, worldVars>>
  BY DEF Request
<1>2. /\ asked \in Seq(RequestKinds) /\ lastId \in Nat
  BY DEF Routed, QueuesRouted, IdsCounted
<1>3. /\ asked' \in Seq(RequestKinds) /\ l \in Nat /\ l \in DOMAIN asked'
      /\ \A k \in DOMAIN asked : k \in DOMAIN asked' /\ asked'[k] = asked[k]
  <2> HIDE DEF m
  <2>1. /\ Append(asked, kind) \in Seq(RequestKinds) /\ Len(asked) \in Nat
        /\ DOMAIN asked = 1 .. Len(asked) /\ DOMAIN Append(asked, kind) = 1 .. Len(asked) + 1
        /\ \A k \in DOMAIN asked : Append(asked, kind)[k] = asked[k]
    BY <1>2, QueueAppend
  <2>2. l \in Nat /\ l \in 1 .. Len(asked) + 1
    BY <2>1
  <2>3. \A k \in 1 .. Len(asked) : k \in 1 .. Len(asked) + 1
    BY <2>1
  <2> HIDE DEF l
  <2>4. QED
    BY <1>1, <2>1, <2>2, <2>3, Zenon
<1>4. Wider
  <2>1. \A k \in DOMAIN asked : k \in DOMAIN asked'
    BY <1>3, Zenon
  <2>2. lastId' = lastId
    BY <1>1 DEF backendVars
  <2>3. QED
    BY <1>2, <2>1, <2>2, NothingForgotten
<1> HIDE DEF l
<1>5. m \in Meant'
  <2>1. g \in Servers /\ u \in Nat
    BY <1>2, ServersApart
  <2>2. m \in Envelope
    BY <1>3, <2>1 DEF Envelope
  <2>3. lastId' = lastId
    BY <1>1 DEF backendVars
  <2>4. QED
    BY <1>1, <1>3, <2>1, <2>2, <2>3 DEF Meant, Message
<1> HIDE DEF m
<1>6. QueuesTyped'
  BY <1>1, <1>4, <1>5, PublishTypes DEF Typed
<1>7. QED
  BY <1>1, <1>4, <1>6, BackendsKeep, WorldsKeep DEF Typed

LEMMA ToldIdsGiven ==
    ASSUME Routed, Typed, NEW g \in Gateways, NEW c
    PROVE  ToldIds(g, c) \subseteq 0 .. lastId /\ 0 \in 0 .. lastId
<1>1. inbox[g] \in Seq(Meant) /\ lastId \in Nat
  BY ServersApart DEF Typed, QueuesTyped, Routed, IdsCounted
<1>2. \A m \in Meant : m.user \in 0 .. lastId
  BY DEF Meant, Message
<1>3. \A k \in DOMAIN inbox[g] : inbox[g][k].user \in 0 .. lastId
  BY <1>1, <1>2
<1>4. QED
  BY <1>1, <1>3 DEF ToldIds

LEMMA GatewayTyped ==
    ASSUME Routed, Typed, NEW g \in Gateways, NEW c \in Clients, GatewayRequest(g, c)
    PROVE  Typed'
<1>1. ASSUME NEW k \in {"login", "register"}, NEW n \in UserNames,
             Request(k, g, c, 0, n, BackendMessages)
      PROVE  Typed'
  BY <1>1, ToldIdsGiven, RequestTyped DEF RequestKinds, AnyName
<1>2. ASSUME NEW u \in ToldIds(g, c), NEW n \in CharacterNames,
             Request("create_character", g, c, u, n, BackendMessages)
      PROVE  Typed'
  BY <1>2, ToldIdsGiven, RequestTyped DEF RequestKinds, AnyName
<1>3. ASSUME NEW u \in ToldIds(g, c), NEW n \in CharacterNames, NEW w \in Worlds,
             Request("play_character", g, c, u, n, ServerTopic(w))
      PROVE  Typed'
  BY <1>3, ToldIdsGiven, RequestTyped DEF RequestKinds, AnyName
<1>4. ASSUME NEW u \in ToldIds(g, c),
             Request("get_characters", g, c, u, "", WorldMessages)
      PROVE  Typed'
  BY <1>4, ToldIdsGiven, RequestTyped DEF RequestKinds, AnyName
<1>5. QED
  BY <1>1, <1>2, <1>3, <1>4 DEF GatewayRequest

-----------------------------------------------------------------------------
\* One backend goes on, with the message it has.
LEMMA BackendGoesTyped ==
    ASSUME Routed, Typed, Wider, NEW b \in Backends, UNCHANGED work,
           NEW to \in {"idle", "handling", "registered", "counted", "committed"}, Goto(b, to),
           to # "idle" => place[b] # "idle",
           users' \in [DOMAIN Stored -> [username : UserNames, players : Nat]],
           read' \in [Backends -> Nat],
           \A c \in Backends \ {b} : inserted'[c] = inserted[c],
           to = "registered" <=> inserted'[b] # Nothing,
           to \in {"counted", "committed"} => work[b].user \in DOMAIN Stored
    PROVE  BackendsTyped'
<1>1. \A c \in Backends : place'[c] = IF c = b THEN to ELSE place[c]
  BY DEF Goto, Routed, BackendsRouted
<1>2. /\ place'[b] # "idle" => work'[b] \in Meant'
      /\ place'[b] = "registered" <=> inserted'[b] # Nothing
      /\ place'[b] \in {"counted", "committed"} => work'[b].user \in DOMAIN Stored
  BY <1>1 DEF Typed, BackendsTyped, Wider
<1>3. ASSUME NEW c \in Backends \ {b}
      PROVE  /\ place'[c] # "idle" => work'[c] \in Meant'
             /\ place'[c] = "registered" <=> inserted'[c] # Nothing
             /\ place'[c] \in {"counted", "committed"} => work'[c].user \in DOMAIN Stored
  <2>1. place'[c] = place[c] /\ inserted'[c] = inserted[c] /\ work'[c] = work[c]
    BY <1>1
  <2>2. QED
    BY <2>1 DEF Typed, BackendsTyped, Wider
<1>4. QED
  BY <1>2, <1>3 DEF BackendsTyped

LEMMA ReplyTyped ==
    ASSUME Routed, Typed, Wider, NEW b \in Backends, place[b] # "idle", NEW kind \in AnswerKinds,
           NEW u \in 0 .. lastId, Reply(b, kind, u), lastId' \in {lastId, lastId + 1}, UNCHANGED asked
    PROVE  QueuesTyped'
<1>1. lastId \in Nat
  BY DEF Routed, IdsCounted
<1>2. work[b] \in Meant /\ b \in Servers
  BY ServersApart DEF Typed, BackendsTyped
<1>3. Answer(work[b], kind, b, u) \in Meant'
  BY <1>1, <1>2, AnswerMeant
<1>4. QED
  BY <1>3, PublishTypes DEF Reply, Typed

LEMMA ErrorTyped ==
    ASSUME Routed, Typed, Wider, NEW b \in Backends, place[b] # "idle", place[b] # "registered",
           Error(b), lastId' \in {lastId, lastId + 1}, UNCHANGED <<asked, work, inserted, worldVars>>,
           users' \in [DOMAIN Stored -> [username : UserNames, players : Nat]],
           read' \in [Backends -> Nat]
    PROVE  Typed'
<1>1. 0 \in 0 .. lastId
  BY DEF Routed, IdsCounted
<1>2. QueuesTyped'
  BY <1>1, ReplyTyped DEF Error, AnswerKinds
<1>3. inserted'[b] = Nothing
  BY DEF Typed, BackendsTyped
<1>4. BackendsTyped'
  BY <1>3, BackendGoesTyped DEF Error, Reply
<1>5. QED
  BY <1>2, <1>4, WorldsKeep DEF Typed

LEMMA TableTyped ==
    ASSUME Routed, Typed
    PROVE  /\ users \in [DOMAIN Stored -> [username : UserNames, players : Nat]]
           /\ read \in [Backends -> Nat]
           /\ DOMAIN users = DOMAIN Stored
           /\ \A i \in DOMAIN users : i \in 0 .. lastId
<1>1. /\ users \in [DOMAIN Stored -> [username : UserNames, players : Nat]]
      /\ read \in [Backends -> Nat] /\ DOMAIN users = DOMAIN Stored
  BY DEF Typed, BackendsTyped
<1>2. lastId \in Nat /\ Len(Stored) <= lastId
  BY DEF Routed, IdsCounted
<1>3. QED
  BY <1>1, <1>2, StoredIds

LEMMA BackendTakeTyped ==
    ASSUME Routed, Typed, NEW b \in Backends, BackendTake(b), UNCHANGED <<worldVars, asked>>
    PROVE  Typed'
<1>1. Wider
  BY SameIds DEF BackendTake
<1>2. QueuesTyped' /\ Head(inbox[b]) \in Meant'
  BY <1>1, ServersApart, ConsumeTypes DEF Typed, BackendTake
<1>3. PICK to \in {"idle", "handling"} : place' = [place EXCEPT ![b] = to]
  BY DEF BackendTake, Goto
<1>4. /\ \A c \in Backends : place'[c] = IF c = b THEN to ELSE place[c]
      /\ \A c \in Backends : work'[c] = IF c = b THEN Head(inbox[b]) ELSE work[c]
      /\ place[b] = "idle" /\ UNCHANGED <<users, read, inserted>>
  BY <1>3 DEF Routed, BackendsRouted, BackendTake
<1>5. ASSUME NEW c \in Backends
      PROVE  /\ place'[c] # "idle" => work'[c] \in Meant'
             /\ place'[c] = "registered" <=> inserted'[c] # Nothing
             /\ place'[c] \in {"counted", "committed"} => work'[c].user \in DOMAIN Stored
  <2>1. CASE c = b
    BY <1>2, <1>4, <2>1 DEF Typed, BackendsTyped
  <2>2. CASE c # b
    <3>1. place'[c] = place[c] /\ work'[c] = work[c] /\ inserted'[c] = inserted[c]
      BY <1>4, <2>2
    <3>2. QED
      BY <1>1, <3>1 DEF Typed, BackendsTyped, Wider
  <2>3. QED
    BY <2>1, <2>2
<1>6. BackendsTyped'
  BY <1>4, <1>5 DEF Typed, BackendsTyped
<1>7. QED
  BY <1>1, <1>2, <1>6, WorldsKeep DEF Typed

LEMMA BackendLoginTyped ==
    ASSUME Routed, Typed, NEW b \in Backends, BackendLogin(b), UNCHANGED <<worldVars, asked>>
    PROVE  Typed'
<1>1. place[b] = "handling" /\ UNCHANGED <<users, lastId, work, read, inserted>>
  BY DEF BackendLogin, Handling
<1>2. Wider
  BY <1>1, SameIds
<1>3. CASE Error(b)
  BY <1>1, <1>2, <1>3, ErrorTyped, TableTyped
<1>4. CASE \E i \in Named(work[b].name) : Reply(b, "login_response", i)
  <2>1. PICK i \in Named(work[b].name) : Reply(b, "login_response", i)
    BY <1>4
  <2>2. i \in 0 .. lastId
    BY TableTyped DEF Named
  <2>3. QueuesTyped'
    BY <1>1, <1>2, <2>1, <2>2, ReplyTyped DEF AnswerKinds
  <2>4. inserted'[b] = Nothing /\ Goto(b, "idle")
    BY <1>1, <2>1 DEF Typed, BackendsTyped, Reply
  <2>5. BackendsTyped'
    BY <1>1, <1>2, <2>4, BackendGoesTyped, TableTyped
  <2>6. QED
    BY <1>2, <2>3, <2>5, WorldsKeep DEF Typed
<1>5. QED
  BY <1>3, <1>4 DEF BackendLogin

LEMMA BackendRegisterTyped ==
    ASSUME Routed, Typed, NEW b \in Backends, BackendRegister(b), UNCHANGED <<worldVars, asked>>
    PROVE  Typed'
<1>1. place[b] = "handling" /\ work[b].kind = "register" /\ UNCHANGED <<users, work, read>>
  BY DEF BackendRegister, Handling
<1>2. lastId' \in {lastId, lastId + 1}
  BY DEF BackendRegister
<1>3. lastId \in Nat /\ lastId' \in Nat /\ lastId <= lastId'
  BY <1>2 DEF Routed, IdsCounted
<1>4. Wider
  BY <1>3, NothingForgotten
<1>5. CASE Error(b) /\ UNCHANGED inserted
  BY <1>1, <1>2, <1>4, <1>5, ErrorTyped, TableTyped
<1>6. CASE /\ inserted' = [inserted EXCEPT ![b] = [id |-> lastId + 1, username |-> work[b].name]]
           /\ Goto(b, "registered") /\ UNCHANGED kafkaVars
  <2>1. QueuesTyped'
    BY <1>4, <1>6, QuietTypes DEF Typed
  <2>2. DOMAIN inserted = Backends
    BY DEF Routed, IdsCounted
  <2>3. work[b].name \in AnyName
    BY <1>1, WorkRight DEF Routed, Numbered, Envelope
  <2>4. inserted'[b] # Nothing /\ \A c \in Backends \ {b} : inserted'[c] = inserted[c]
    <3>1. lastId + 1 \in Nat
      BY <1>3
    <3>2. [id |-> lastId + 1, username |-> work[b].name]
            \in [id : Nat, username : UserNames \cup CharacterNames \cup {""}]
      BY <2>3, <3>1 DEF AnyName
    <3>3. [id |-> lastId + 1, username |-> work[b].name] # Nothing
      BY <3>2, NothingAssumption, Zenon
    <3>4. QED
      BY <1>6, <2>2, <3>3
  <2>5. BackendsTyped'
    BY <1>1, <1>4, <1>6, <2>4, BackendGoesTyped, TableTyped
  <2>6. QED
    BY <1>4, <2>1, <2>5, WorldsKeep DEF Typed
<1>7. QED
  BY <1>5, <1>6 DEF BackendRegister

LEMMA BackendRegisteredTyped ==
    ASSUME Routed, Typed, NEW b \in Backends, BackendRegistered(b), UNCHANGED <<worldVars, asked>>
    PROVE  Typed'
<1>1. /\ place[b] = "registered" /\ UNCHANGED <<users, lastId, work, read>>
      /\ Reply(b, "register_response", inserted[b].id)
      /\ inserted' = [inserted EXCEPT ![b] = Nothing]
  BY DEF BackendRegistered
<1>2. Wider
  BY <1>1, SameIds
<1>3. inserted[b].id \in 0 .. lastId
  BY <1>1, StoredIds DEF Routed, IdsCounted
<1>4. QueuesTyped'
  BY <1>1, <1>2, <1>3, ReplyTyped DEF AnswerKinds
<1>5. inserted'[b] = Nothing /\ \A c \in Backends \ {b} : inserted'[c] = inserted[c]
  BY <1>1 DEF Routed, IdsCounted
<1>6. BackendsTyped'
  BY <1>1, <1>2, <1>5, BackendGoesTyped, TableTyped DEF Reply
<1>7. QED
  BY <1>2, <1>4, <1>6, WorldsKeep DEF Typed

LEMMA BackendCreateTyped ==
    ASSUME Routed, Typed, NEW b \in Backends, BackendCreateCharacter(b), UNCHANGED <<worldVars, asked>>
    PROVE  Typed'
<1>1. /\ place[b] = "handling" /\ UNCHANGED <<users, lastId, work, inserted>>
  BY DEF BackendCreateCharacter, Handling
<1>2. Wider
  BY <1>1, SameIds
<1>3. CASE Error(b) /\ UNCHANGED read
  BY <1>1, <1>2, <1>3, ErrorTyped, TableTyped
<1>4. CASE /\ Known(work[b].user) /\ read' = [read EXCEPT ![b] = users[work[b].user].players]
           /\ Goto(b, "counted") /\ UNCHANGED kafkaVars
  <2>1. work[b].user \in DOMAIN Stored /\ users[work[b].user].players \in Nat
    BY <1>4, TableTyped DEF Known
  <2>2. read' \in [Backends -> Nat]
    BY <1>4, <2>1, TableTyped
  <2>3. inserted'[b] = Nothing
    BY <1>1 DEF Typed, BackendsTyped
  <2>4. BackendsTyped'
    BY <1>1, <1>2, <1>4, <2>1, <2>2, <2>3, BackendGoesTyped, TableTyped
  <2>5. QED
    BY <1>2, <1>4, <2>4, QuietTypes, WorldsKeep DEF Typed
<1>5. CASE Goto(b, "idle") /\ UNCHANGED <<read, kafkaVars>>
  <2>1. inserted'[b] = Nothing
    BY <1>1 DEF Typed, BackendsTyped
  <2>2. BackendsTyped'
    BY <1>1, <1>2, <1>5, <2>1, BackendGoesTyped, TableTyped
  <2>3. QED
    BY <1>2, <1>5, <2>2, QuietTypes, WorldsKeep DEF Typed, kafkaVars
<1>6. QED
  BY <1>3, <1>4, <1>5 DEF BackendCreateCharacter

LEMMA CommitCountTyped ==
    ASSUME Routed, Typed, NEW b \in Backends, CommitCount(b), UNCHANGED <<worldVars, asked>>
    PROVE  Typed'
<1> DEFINE counted == [users EXCEPT ![work[b].user].players = read[b] + 1]
<1>1. /\ place[b] = "counted" /\ UNCHANGED <<lastId, work, read, inserted>>
  BY DEF CommitCount
<1>2. Wider
  BY <1>1, SameIds
<1>3. work[b].user \in DOMAIN Stored
  BY <1>1 DEF Typed, BackendsTyped
<1>4. counted \in [DOMAIN Stored -> [username : UserNames, players : Nat]]
  BY <1>3, TableTyped
<1> HIDE DEF counted
<1>5. /\ users' \in {users, counted}
      /\ \/ Goto(b, "committed") /\ UNCHANGED kafkaVars
         \/ Error(b)
  BY DEF CommitCount, counted
<1>6. users' \in [DOMAIN Stored -> [username : UserNames, players : Nat]]
  BY <1>4, <1>5, TableTyped
<1>7. CASE Error(b)
  BY <1>1, <1>2, <1>6, <1>7, ErrorTyped, TableTyped
<1>8. CASE Goto(b, "committed") /\ UNCHANGED kafkaVars
  <2>1. inserted'[b] = Nothing
    BY <1>1 DEF Typed, BackendsTyped
  <2>2. BackendsTyped'
    BY <1>1, <1>2, <1>3, <1>6, <1>8, <2>1, BackendGoesTyped, TableTyped
  <2>3. QED
    BY <1>2, <1>8, <2>2, QuietTypes, WorldsKeep DEF Typed
<1>9. QED
  BY <1>5, <1>7, <1>8

LEMMA ForwardTyped ==
    ASSUME Routed, Typed, NEW b \in Backends, ForwardCharacter(b), UNCHANGED <<worldVars, asked>>
    PROVE  Typed'
<1> DEFINE m == [work[b] EXCEPT !.origin = b, !.destination = work[b].origin]
<1>1. /\ place[b] = "committed" /\ UNCHANGED <<users, lastId, work, read, inserted>>
      /\ Publish(ServerTopic(StartingWorld), m) /\ Goto(b, "idle")
  BY DEF ForwardCharacter
<1>2. Wider
  BY <1>1, SameIds
<1>3. work[b] \in Meant' /\ b \in Servers
  BY <1>1, <1>2, ServersApart DEF Typed, BackendsTyped, Wider
<1>4. m \in Meant'
  <2>1. work[b] \in Envelope
    BY <1>3 DEF Meant
  <2>2. /\ m \in Envelope /\ m.kind = work[b].kind /\ m.number = work[b].number
        /\ m.gateway = work[b].gateway /\ m.client = work[b].client /\ m.origin = b
        /\ m.destination = work[b].origin /\ m.user = work[b].user /\ work[b].origin \in Servers
    BY <1>3, <2>1 DEF Envelope
  <2> HIDE DEF m
  <2>3. QED
    BY <1>3, <2>2 DEF Meant, Message
<1> HIDE DEF m
<1>5. QueuesTyped'
  BY <1>1, <1>2, <1>4, PublishTypes DEF Typed
<1>6. inserted'[b] = Nothing
  BY <1>1 DEF Typed, BackendsTyped
<1>7. BackendsTyped'
  BY <1>1, <1>2, <1>6, BackendGoesTyped, TableTyped
<1>8. QED
  BY <1>2, <1>5, <1>7, WorldsKeep DEF Typed

LEMMA BackendTyped ==
    ASSUME Routed, Typed, NEW b \in Backends, BackendAction(b)
    PROVE  Typed'
  BY BackendTakeTyped, BackendLoginTyped, BackendRegisterTyped, BackendRegisteredTyped,
     BackendCreateTyped, CommitCountTyped, ForwardTyped DEF BackendAction, BackendStep

-----------------------------------------------------------------------------
\* A world goes on; its queue of events keeps, loses or gets messages that are meant.
LEMMA WorldGoesTyped ==
    ASSUME Routed, Typed, Wider, NEW w \in Worlds, UNCHANGED wwork,
           \A v \in Worlds : wplace'[v] = "handling" => wplace[v] = "handling",
           \A v \in Worlds \ {w} : events'[v] = events[v],
           \A k \in DOMAIN events'[w] : events'[w][k].msg \in Meant
    PROVE  WorldsTyped'
<1>1. ASSUME NEW v \in Worlds
      PROVE  /\ wplace'[v] = "handling" => wwork'[v] \in Meant'
             /\ \A k \in DOMAIN events'[v] : events'[v][k].msg \in Meant'
  <2>1. wplace'[v] = "handling" => wwork'[v] \in Meant'
    BY DEF Typed, WorldsTyped, Wider
  <2>2. CASE v = w
    BY <2>1, <2>2 DEF Wider
  <2>3. CASE v # w
    BY <2>1, <2>3 DEF Typed, WorldsTyped, Wider
  <2>4. QED
    BY <2>2, <2>3
<1>2. QED
  BY <1>1 DEF WorldsTyped

LEMMA WorldTakeTyped ==
    ASSUME Routed, Typed, NEW w \in Worlds, WorldTake(w), UNCHANGED <<backendVars, asked>>
    PROVE  Typed'
<1>1. Wider
  BY SameIds DEF backendVars
<1>2. QueuesTyped' /\ Head(inbox[w]) \in Meant'
  BY <1>1, ServersApart, ConsumeTypes DEF Typed, WorldTake
<1>3. PICK to \in {"idle", "handling"} : wplace' = [wplace EXCEPT ![w] = to]
  BY DEF WorldTake
<1>4. /\ \A v \in Worlds : wplace'[v] = IF v = w THEN to ELSE wplace[v]
      /\ \A v \in Worlds : wwork'[v] = IF v = w THEN Head(inbox[w]) ELSE wwork[v]
      /\ events' = events
  BY <1>3 DEF Routed, WorldsRouted, WorldTake
<1>5. WorldsTyped'
  BY <1>1, <1>2, <1>4 DEF Typed, WorldsTyped, Wider
<1>6. QED
  BY <1>1, <1>2, <1>5, BackendsKeep DEF Typed

\* The consumer thread is done with its message: an answer is sent, an event is put, or neither.
LEMMA WorldHandlesTyped ==
    ASSUME Routed, Typed, NEW w \in Worlds, wplace[w] = "handling",
           wplace' = [wplace EXCEPT ![w] = "idle"], UNCHANGED <<wwork, backendVars, asked>>,
           \/ /\ \E topic : \E kind \in AnswerKinds, u \in {0, wwork[w].user} :
                    Publish(topic, Answer(wwork[w], kind, w, u))
              /\ UNCHANGED events
           \/ \E to, maps : Enqueued(w, Event(wwork[w], to, maps))
           \/ UNCHANGED <<kafkaVars, events>>
    PROVE  Typed'
<1>1. Wider /\ lastId' = lastId /\ lastId \in Nat
  BY SameIds DEF backendVars, Routed, IdsCounted
<1>2. wwork[w] \in Meant /\ w \in Servers
  BY ServersApart DEF Typed, WorldsTyped
<1>3. wwork[w].user \in 0 .. lastId /\ 0 \in 0 .. lastId
  BY <1>1, <1>2 DEF Meant, Message
<1>4. \A v \in Worlds : wplace'[v] = "handling" => wplace[v] = "handling"
  BY DEF Routed, WorldsRouted
<1>5. \A k \in DOMAIN events[w] : events[w][k].msg \in Meant
  BY DEF Typed, WorldsTyped
<1>6. CASE /\ \E topic : \E kind \in AnswerKinds, u \in {0, wwork[w].user} :
                Publish(topic, Answer(wwork[w], kind, w, u))
           /\ UNCHANGED events
  <2>1. QueuesTyped'
    <3>a. PICK topic : \E kind \in AnswerKinds, u \in {0, wwork[w].user} :
                Publish(topic, Answer(wwork[w], kind, w, u))
      BY <1>6
    <3>1. PICK kind \in AnswerKinds, u \in {0, wwork[w].user} :
                Publish(topic, Answer(wwork[w], kind, w, u))
      BY <3>a
    <3>2. Answer(wwork[w], kind, w, u) \in Meant'
      BY <1>1, <1>2, <1>3, AnswerMeant
    <3>3. QED
      BY <1>1, <3>1, <3>2, PublishTypes DEF Typed
  <2>2. WorldsTyped'
    BY <1>1, <1>4, <1>5, <1>6, WorldGoesTyped
  <2>3. QED
    BY <1>1, <2>1, <2>2, BackendsKeep DEF Typed
<1>7. CASE \E to, maps : Enqueued(w, Event(wwork[w], to, maps))
  <2>1. PICK e : e.msg = wwork[w] /\ Enqueued(w, e)
    BY <1>7 DEF Event
  <2>2. events \in [Worlds -> Seq(Awaited)]
    BY DEF Routed, WorldsRouted
  <2>3. events'[w] = Append(events[w], e) /\ \A v \in Worlds \ {w} : events'[v] = events[v]
    BY <2>1, <2>2 DEF Enqueued
  <2>4. \A k \in DOMAIN events'[w] : events'[w][k].msg \in Meant
    <3>1. events[w] \in Seq(Awaited)
      BY <2>2
    <3>2. DOMAIN events'[w] = 1 .. Len(events[w]) + 1 /\ Len(events[w]) \in Nat
          /\ DOMAIN events[w] = 1 .. Len(events[w])
          /\ events'[w][Len(events[w]) + 1] = e
          /\ \A k \in DOMAIN events[w] : events'[w][k] = events[w][k]
      BY <2>3, <3>1
    <3>3. QED
      BY <1>2, <1>5, <2>1, <3>2
  <2>5. WorldsTyped'
    BY <1>1, <1>4, <2>3, <2>4, WorldGoesTyped
  <2>6. QueuesTyped'
    BY <1>1, <2>1, QuietTypes DEF Typed, Enqueued
  <2>7. QED
    BY <1>1, <2>5, <2>6, BackendsKeep DEF Typed
<1>8. CASE UNCHANGED <<kafkaVars, events>>
  <2>1. WorldsTyped'
    BY <1>1, <1>4, <1>5, <1>8, WorldGoesTyped
  <2>2. QED
    BY <1>1, <1>8, <2>1, QuietTypes, BackendsKeep DEF Typed
<1>9. QED
  BY <1>6, <1>7, <1>8

LEMMA WorldConsumerTyped ==
    ASSUME Routed, Typed, NEW w \in Worlds, UNCHANGED <<backendVars, asked>>,
           WorldGetCharacters(w) \/ WorldPlayCharacter(w) \/ WorldCreateCharacter(w)
    PROVE  Typed'
<1>1. /\ wplace[w] = "handling" /\ UNCHANGED wwork
      /\ wplace' = [wplace EXCEPT ![w] = "idle"]
  BY DEF WorldGetCharacters, WorldPlayCharacter, WorldCreateCharacter, WorldHandles
<1>2. \/ /\ \E topic : \E kind \in AnswerKinds, u \in {0, wwork[w].user} :
                Publish(topic, Answer(wwork[w], kind, w, u))
         /\ UNCHANGED events
      \/ \E to, maps : Enqueued(w, Event(wwork[w], to, maps))
      \/ UNCHANGED <<kafkaVars, events>>
  <2>1. CASE WorldGetCharacters(w)
    BY <2>1 DEF WorldGetCharacters, AnswerKinds
  <2>2. CASE WorldError(w)
    BY <2>2 DEF WorldError, AnswerKinds
  <2>3. CASE \E to, maps : Enqueued(w, Event(wwork[w], to, maps))
    BY <2>3
  <2>4. QED
    BY <2>1, <2>2, <2>3 DEF WorldPlayCharacter, WorldCreateCharacter
<1>3. QED
  BY <1>1, <1>2, WorldHandlesTyped

LEMMA WorldTickTyped ==
    ASSUME Routed, Typed, NEW w \in Worlds, WorldTick(w), UNCHANGED <<backendVars, asked>>
    PROVE  Typed'
<1> DEFINE e == Head(events[w])
<1>1. Wider /\ lastId' = lastId /\ lastId \in Nat
  BY SameIds DEF backendVars, Routed, IdsCounted
<1>2. /\ events[w] # <<>> /\ events' = [events EXCEPT ![w] = Tail(@)]
      /\ UNCHANGED <<wplace, wwork>>
      /\ \E kind \in {"send_map", "error_response"} :
            Publish(ServerTopic(e.gateway), Answer(e.msg, kind, w, 0))
  BY DEF WorldTick
<1>3. events \in [Worlds -> Seq(Awaited)]
  BY DEF Routed, WorldsRouted
<1>4. /\ 1 \in DOMAIN events[w] /\ e = events[w][1]
      /\ \A k \in DOMAIN Tail(events[w]) : k + 1 \in DOMAIN events[w]
                                            /\ Tail(events[w])[k] = events[w][k + 1]
  <2>1. events[w] \in Seq(Awaited)
    BY <1>3
  <2>2. QED
    BY <1>2, <2>1
<1>5. e.msg \in Meant /\ \A k \in DOMAIN Tail(events[w]) : Tail(events[w])[k].msg \in Meant
  BY <1>4 DEF Typed, WorldsTyped
<1> HIDE DEF e
<1>6. QueuesTyped'
  <2>1. PICK kind \in AnswerKinds : Publish(ServerTopic(e.gateway), Answer(e.msg, kind, w, 0))
    BY <1>2 DEF AnswerKinds
  <2>2. w \in Servers /\ 0 \in 0 .. lastId
    BY <1>1, ServersApart
  <2>3. Answer(e.msg, kind, w, 0) \in Meant'
    BY <1>1, <1>5, <2>2, AnswerMeant
  <2>4. QED
    BY <1>1, <2>1, <2>3, PublishTypes DEF Typed
<1>7. events'[w] = Tail(events[w]) /\ \A v \in Worlds \ {w} : events'[v] = events[v]
  BY <1>2, <1>3
<1>8. WorldsTyped'
  BY <1>1, <1>2, <1>5, <1>7, WorldGoesTyped
<1>9. QED
  BY <1>1, <1>6, <1>8, BackendsKeep DEF Typed

LEMMA WorldTyped ==
    ASSUME Routed, Typed, NEW w \in Worlds, WorldAction(w)
    PROVE  Typed'
  BY WorldTakeTyped, WorldConsumerTyped, WorldTickTyped DEF WorldAction, WorldConsumerStep

LEMMA BackendCrashTyped ==
    ASSUME Routed, Typed, NEW b \in Backends, BackendCrash(b), UNCHANGED <<worldVars, asked>>
    PROVE  Typed'
<1>1. /\ Redeliver(b) /\ Goto(b, "idle") /\ inserted' = [inserted EXCEPT ![b] = Nothing]
      /\ UNCHANGED <<users, lastId, work, read>>
  BY DEF BackendCrash
<1>2. Wider
  BY <1>1, SameIds
<1>3. inserted'[b] = Nothing /\ \A c \in Backends \ {b} : inserted'[c] = inserted[c]
  BY <1>1 DEF Routed, IdsCounted
<1>4. BackendsTyped'
  BY <1>1, <1>2, <1>3, BackendGoesTyped, TableTyped
<1>5. QED
  BY <1>1, <1>2, <1>4, RedeliverTypes, WorldsKeep, ServersApart DEF Typed

LEMMA WorldCrashTyped ==
    ASSUME Routed, Typed, NEW w \in Worlds, WorldCrash(w), UNCHANGED <<backendVars, asked>>
    PROVE  Typed'
<1>1. Wider
  BY SameIds DEF backendVars
<1>2. /\ wplace' = [wplace EXCEPT ![w] = "idle"] /\ events' = [events EXCEPT ![w] = <<>>]
      /\ UNCHANGED wwork /\ Redeliver(w)
  BY DEF WorldCrash
<1>3. /\ \A v \in Worlds : wplace'[v] = "handling" => wplace[v] = "handling"
      /\ \A v \in Worlds \ {w} : events'[v] = events[v]
      /\ events'[w] = <<>>
  BY <1>2 DEF Routed, WorldsRouted
<1>4. WorldsTyped'
  BY <1>1, <1>2, <1>3, WorldGoesTyped
<1>5. QED
  BY <1>1, <1>2, <1>4, RedeliverTypes, BackendsKeep, ServersApart DEF Typed

LEMMA StepTyped == Routed /\ Typed /\ [Next]_vars => Typed'
<1> SUFFICES ASSUME Routed, Typed, [Next]_vars PROVE Typed'
  OBVIOUS
<1>1. ASSUME NEW s \in Backends \cup Worlds, Dies(s)
      PROVE  Typed'
  BY <1>1, BackendCrashTyped, WorldCrashTyped DEF Dies
<1>2. ASSUME NEW s \in Backends \cup Worlds, CommitOffsets(s),
             UNCHANGED <<backendVars, worldVars, asked>>
      PROVE  Typed'
  <2>1. Wider
    BY <1>2, SameIds DEF backendVars
  <2>2. QED
    BY <1>2, <2>1, RedeliverTypes, BackendsKeep, WorldsKeep, ServersApart DEF Typed
<1>3. CASE UNCHANGED vars
  <2>1. UNCHANGED <<kafkaVars, backendVars, worldVars, asked>>
    BY <1>3 DEF vars
  <2>2. Wider
    BY <2>1, SameIds DEF backendVars
  <2>3. QED
    BY <2>1, <2>2, QuietTypes, BackendsKeep, WorldsKeep DEF Typed
<1>4. QED
  BY <1>1, <1>2, <1>3, GatewayTyped, BackendTyped, WorldTyped DEF Next

(* Every variable of the backends and the worlds keeps its type, a          *)
(* transaction is open exactly between the insert and the answer, and a    *)
(* count is read for a user that exists, for any number of servers,        *)
(* requests and crashes.                                                   *)
THEOREM RealmTypes == Spec => []TypeOK
<1>1. Routed /\ Typed => TypeOK
  <2>1. SUFFICES ASSUME Routed, Typed
                 PROVE  TypeOK
    OBVIOUS
  <2>2. \A m \in Meant : Message(m)
    BY DEF Meant
  <2>3. ASSUME NEW s \in Servers
        PROVE  /\ \A k \in DOMAIN inbox[s] : Message(inbox[s][k])
               /\ \A k \in DOMAIN uncommitted[s] : Message(uncommitted[s][k])
    <3>1. inbox[s] \in Seq(Meant) /\ uncommitted[s] \in Seq(Meant)
      BY <2>1 DEF Typed, QueuesTyped
    <3>2. QED
      BY <2>2, <3>1
  <2>4. /\ \A m \in unread : Message(m)
        /\ crashes \in 0 .. MaxCrashes
    BY <2>1, <2>2 DEF Typed, QueuesTyped
  <2>5. \A i \in DOMAIN users : users[i].username \in UserNames
    BY <2>1, TableTyped
  <2>6. \A b \in Backends :
          /\ place[b] \in {"idle", "handling", "registered", "counted", "committed"}
          /\ place[b] # "idle" => Message(work[b])
          /\ place[b] = "registered" <=> inserted[b] # Nothing
          /\ place[b] \in {"counted", "committed"} => Known(work[b].user)
    BY <2>1, <2>2, TableTyped DEF Typed, BackendsTyped, Known, Routed, BackendsRouted
  <2>7. \A w \in Worlds :
          /\ wplace[w] = "handling" => Message(wwork[w])
          /\ \A k \in DOMAIN events[w] : Message(events[w][k].msg)
    BY <2>1, <2>2 DEF Typed, WorldsTyped
  <2>8. QED
    BY <2>3, <2>4, <2>5, <2>6, <2>7 DEF TypeOK
<1>2. QED
  BY <1>1, AlwaysRouted, InitTyped, StepTyped, PTL DEF Spec

-----------------------------------------------------------------------------
(* How many answers a request gets.  A message about it waits for a server *)
(* ("queue"), may have to be taken again ("taken"), is handled ("work"),   *)
(* is an event ("event") or an answer ("answer"): each of these is a lane  *)
(* of a server.  The invariant counts the messages about a request in some *)
(* of the lanes: what may yet be delivered, and what may yet be answered.  *)

Stages == {"queue", "taken", "work", "event", "answer"}

Lanes == Stages \X Servers

Lane(stage, s) ==
    CASE stage = "queue" /\ s \notin Gateways -> inbox[s]
      [] stage = "answer" /\ s \in Gateways -> inbox[s]
      [] stage = "taken" -> uncommitted[s]
      [] stage = "work" /\ s \in Backends /\ place[s] # "idle" -> <<work[s]>>
      [] stage = "work" /\ s \in Worlds /\ wplace[s] = "handling" -> <<wwork[s]>>
      [] stage = "event" /\ s \in Worlds -> [k \in DOMAIN events[s] |-> events[s][k].msg]
      [] OTHER -> <<>>

lanes == [l \in Lanes |-> Lane(l[1], l[2])]

\* Whose a message is: an answer is that of the server which gave it.
Holder(l, m) == IF l[1] = "answer" THEN m.origin ELSE l[2]

\* The messages about request n that are in one of the stages and of one of the servers of F.
Tokens(L, n, F) ==
    UNION {{<<l, k>> : k \in {k \in DOMAIN L[l] :
               /\ L[l][k].number = n
               /\ <<l[1], Holder(l, L[l][k])>> \in F}} : l \in Lanes}

\* What a crash may deliver, what may come to an answer, and what may be sent on to a world.
Deliveries(D) == {"queue", "taken"} \X D
Outcomes(D) == {"queue", "work", "event", "answer"} \X D
Forwards ==
    ({"queue"} \X (Backends \cup Worlds)) \cup ({"taken"} \X Worlds) \cup ({"work"} \X Backends)

Few(S, b) == IsFiniteSet(S) /\ Cardinality(S) <= b

\* A request to every world is one to each of them.
Groups(kind) ==
    IF kind = "get_characters" THEN {{s} : s \in Backends \cup Worlds}
    ELSE {Backends \cup Worlds}

AnsweredDirectly(L, c, kind, n) ==
    \A D \in Groups(kind) :
        /\ Few(Tokens(L, n, Deliveries(D)), 1)
        /\ Few(Tokens(L, n, Outcomes(D)), 1 + c)

\* The sum of the first c numbers.
Sum1To(c) == (c * (c + 1)) \div 2

AnsweredFromAfar(L, c, n) ==
    /\ Few(Tokens(L, n, Deliveries(Backends)), 1)
    /\ Few(Tokens(L, n, Forwards), 1 + c)
    /\ Few(Tokens(L, n, Outcomes(Backends \cup Worlds)), 1 + Sum1To(c))

Bounded(L, c, kind, n) ==
    IF kind = "create_character" THEN AnsweredFromAfar(L, c, n)
    ELSE AnsweredDirectly(L, c, kind, n)

AnswersCounted == \A n \in DOMAIN asked : Bounded(lanes, crashes, asked[n], n)
-----------------------------------------------------------------------------
(* Tokens, and what becomes of a number of them when a lane changes.       *)

LEMMA TokenIs ==
    ASSUME NEW L, NEW n, NEW F, NEW t
    PROVE  t \in Tokens(L, n, F) <=>
               \E l \in Lanes : \E k \in DOMAIN L[l] :
                  /\ t = <<l, k>> /\ L[l][k].number = n
                  /\ <<l[1], Holder(l, L[l][k])>> \in F
  BY DEF Tokens

LEMMA TokenOf ==
    ASSUME NEW L, NEW n, NEW F, NEW t \in Tokens(L, n, F)
    PROVE  \E l \in Lanes : \E k \in DOMAIN L[l] :
              /\ t = <<l, k>> /\ L[l][k].number = n
              /\ <<l[1], Holder(l, L[l][k])>> \in F
  BY TokenIs

\* Token t is at place k of lane l.
Seated(M, n, F, t, l, k) ==
    /\ t = <<l, k>> /\ k \in DOMAIN M[l]
    /\ M[l][k].number = n /\ <<l[1], Holder(l, M[l][k])>> \in F

LEMMA TokenSeat ==
    ASSUME NEW M \in [Lanes -> Seq(Envelope)], NEW n, NEW F, NEW t \in Tokens(M, n, F)
    PROVE  \E l \in Lanes : \E k \in Nat : Seated(M, n, F, t, l, k)
<1>1. PICK l \in Lanes : \E k \in DOMAIN M[l] :
                  /\ t = <<l, k>> /\ M[l][k].number = n
                  /\ <<l[1], Holder(l, M[l][k])>> \in F
  BY TokenOf
<1>2. DOMAIN M[l] \subseteq Nat
  <2>1. M[l] \in Seq(Envelope)
    OBVIOUS
  <2>2. QED
    BY <2>1
<1>3. QED
  BY <1>1, <1>2 DEF Seated

LEMMA TokenIn ==
    ASSUME NEW L, NEW n, NEW F, NEW l \in Lanes, NEW k \in DOMAIN L[l],
           L[l][k].number = n, <<l[1], Holder(l, L[l][k])>> \in F
    PROVE  <<l, k>> \in Tokens(L, n, F)
  BY DEF Tokens

LEMMA Fewer ==
    ASSUME NEW S, NEW T, NEW b \in Nat, Few(T, b), NEW f \in [S -> T],
           \A x, y \in S : f[x] = f[y] => x = y
    PROVE  Few(S, b)
<1>1. f \in Injection(S, T)
  BY DEF Injection, IsInjective
<1>2. IsFiniteSet(S) /\ Cardinality(S) <= Cardinality(T)
  BY <1>1, FS_Injection DEF Few
<1>3. Cardinality(S) \in Nat /\ Cardinality(T) \in Nat
  BY <1>2, FS_CardinalityType DEF Few
<1>4. QED
  BY <1>2, <1>3 DEF Few

LEMMA FewWithin ==
    ASSUME NEW T, NEW S, S \subseteq T, NEW b \in Nat, Few(T, b)
    PROVE  Few(S, b)
<1>1. IsFiniteSet(S) /\ Cardinality(S) <= Cardinality(T)
  BY FS_Subset DEF Few
<1>2. Cardinality(S) \in Nat /\ Cardinality(T) \in Nat
  BY <1>1, FS_CardinalityType DEF Few
<1>3. QED
  BY <1>1, <1>2 DEF Few

LEMMA FewTogether ==
    ASSUME NEW S, NEW T, NEW a \in Nat, NEW b \in Nat, Few(S, a), Few(T, b)
    PROVE  Few(S \cup T, a + b)
<1>1. /\ IsFiniteSet(S \cup T)
      /\ Cardinality(S \cup T) = Cardinality(S) + Cardinality(T) - Cardinality(S \cap T)
  BY FS_Union DEF Few
<1>2. IsFiniteSet(S \cap T)
  BY FS_Subset DEF Few
<1>3. /\ Cardinality(S) \in Nat /\ Cardinality(T) \in Nat /\ Cardinality(S \cap T) \in Nat
      /\ Cardinality(S \cup T) \in Nat
  BY <1>1, <1>2, FS_CardinalityType DEF Few
<1>4. QED
  BY <1>1, <1>3 DEF Few

LEMMA FewOne == ASSUME NEW x PROVE Few({x}, 1)
<1>1. IsFiniteSet({x}) /\ Cardinality({x}) = 1
  BY FS_Singleton
<1>2. QED
  BY <1>1 DEF Few

LEMMA FewNone == \A b \in Nat : Few({}, b)
  BY FS_EmptySet DEF Few

LEMMA FewMore ==
    ASSUME NEW S, NEW a \in Nat, NEW b \in Nat, a <= b, Few(S, a)
    PROVE  Few(S, b)
  BY FS_CardinalityType DEF Few

\* Nothing is new in the lanes that matter.
LEMMA Dropped ==
    ASSUME NEW L, NEW M, NEW n, NEW F, NEW b \in Nat, Few(Tokens(L, n, F), b),
           \A l \in Lanes : M[l] = L[l] \/ M[l] = <<>> \/ (l[1] # "answer" /\ l \notin F)
    PROVE  Few(Tokens(M, n, F), b)
<1>1. Tokens(M, n, F) \subseteq Tokens(L, n, F)
  <2>1. SUFFICES ASSUME NEW t \in Tokens(M, n, F)
                 PROVE  t \in Tokens(L, n, F)
    OBVIOUS
  <2>2. PICK l \in Lanes : \E k \in DOMAIN M[l] :
                  /\ t = <<l, k>> /\ M[l][k].number = n
                  /\ <<l[1], Holder(l, M[l][k])>> \in F
    BY TokenIs
  <2>3. PICK k \in DOMAIN M[l] :
                  /\ t = <<l, k>> /\ M[l][k].number = n
                  /\ <<l[1], Holder(l, M[l][k])>> \in F
    BY <2>2
  <2>4. M[l] # <<>>
    BY <2>3
  <2>5. M[l] = L[l]
    BY <2>3, <2>4 DEF Holder, Lanes
  <2>6. QED
    BY <2>3, <2>5, TokenIs
<1>2. QED
  BY <1>1, FewWithin

\* The first message of one lane goes on, changed perhaps, to the end of another one.
LEMMA Remaining ==
    ASSUME NEW a \in Nat, NEW b \in Nat, NEW k \in 1 .. a + b, ~ (k <= a)
    PROVE  k - a \in 1 .. b
  OBVIOUS

LEMMA QueuesJoined ==
    ASSUME NEW S, NEW q \in Seq(S), NEW r \in Seq(S)
    PROVE  /\ Len(q) \in Nat /\ DOMAIN q = 1 .. Len(q)
           /\ Len(r) \in Nat /\ DOMAIN r = 1 .. Len(r)
           /\ DOMAIN (q \o r) = 1 .. Len(q) + Len(r)
           /\ \A k \in DOMAIN (q \o r) :
                 (q \o r)[k] = IF k <= Len(q) THEN q[k] ELSE r[k - Len(q)]
  BY ConcatProperties

Carries(L, M, n, F, from, to, m) ==
    /\ from # to /\ L[from] # <<>> /\ M[from] = Tail(L[from])
    /\ M[to] \in {<<>>, L[to], Append(L[to], m)}
    /\ m.number = n /\ <<to[1], Holder(to, m)>> \in F =>
          /\ Head(L[from]).number = n
          /\ <<from[1], Holder(from, Head(L[from]))>> \in F
    /\ \A l \in Lanes \ {from, to} :
          M[l] = L[l] \/ M[l] = <<>> \/ (l[1] # "answer" /\ l \notin F)

LEMMA Carried ==
    ASSUME NEW L \in [Lanes -> Seq(Envelope)], NEW M \in [Lanes -> Seq(Envelope)],
           NEW n, NEW F, NEW b \in Nat, Few(Tokens(L, n, F), b),
           NEW from \in Lanes, NEW to \in Lanes, NEW m, Carries(L, M, n, F, from, to, m)
    PROVE  Few(Tokens(M, n, F), b)
<1> DEFINE S == Tokens(M, n, F)
           T == Tokens(L, n, F)
           image(t) == IF t[1] = from THEN <<from, t[2] + 1>>
                       ELSE IF t[1] = to /\ t[2] = Len(L[to]) + 1 THEN <<from, 1>>
                       ELSE t
           f == [t \in S |-> image(t)]
<1>a. /\ from # to /\ L[from] # <<>> /\ M[from] = Tail(L[from])
      /\ M[to] \in {<<>>, L[to], Append(L[to], m)}
      /\ m.number = n /\ <<to[1], Holder(to, m)>> \in F =>
            /\ Head(L[from]).number = n
            /\ <<from[1], Holder(from, Head(L[from]))>> \in F
      /\ \A l \in Lanes \ {from, to} :
            M[l] = L[l] \/ M[l] = <<>> \/ (l[1] # "answer" /\ l \notin F)
  BY DEF Carries
<1>1. /\ Len(L[from]) \in Nat \ {0} /\ DOMAIN L[from] = 1 .. Len(L[from])
      /\ DOMAIN M[from] = 1 .. Len(L[from]) - 1
      /\ \A k \in DOMAIN M[from] : M[from][k] = L[from][k + 1]
      /\ Head(L[from]) = L[from][1]
  BY <1>a
<1>2. /\ Len(L[to]) \in Nat /\ DOMAIN L[to] = 1 .. Len(L[to])
      /\ \A k \in DOMAIN M[to] : \/ k \in DOMAIN L[to] /\ M[to][k] = L[to][k]
                                 \/ k = Len(L[to]) + 1 /\ M[to][k] = m
  <2>1. L[to] \in Seq(Envelope)
    OBVIOUS
  <2>2. CASE M[to] = <<>>
    BY <2>1, <2>2
  <2>3. CASE M[to] = L[to]
    BY <2>1, <2>3
  <2>4. CASE M[to] = Append(L[to], m)
    BY <2>1, <2>4
  <2>5. QED
    BY <1>a, <2>2, <2>3, <2>4
<1>3. ASSUME NEW t \in Tokens(M, n, F)
      PROVE  \E l \in Lanes : \E k \in Nat : Seated(M, n, F, t, l, k)
  BY TokenSeat, Zenon
<1>4. ASSUME NEW t \in S
      PROVE  image(t) \in T
  <2>1. PICK l \in Lanes : \E k \in Nat : Seated(M, n, F, t, l, k)
    BY <1>3, Zenon
  <2>2. PICK k \in Nat :
              /\ t = <<l, k>> /\ k \in DOMAIN M[l]
              /\ M[l][k].number = n /\ <<l[1], Holder(l, M[l][k])>> \in F
    BY <2>1 DEF Seated
  <2>3. t[1] = l /\ t[2] = k
    BY <2>2
  <2>4. CASE l = from
    <3>1. k + 1 \in DOMAIN L[from] /\ M[from][k] = L[from][k + 1]
      BY <1>1, <1>a, <2>2, <2>4
    <3>2. <<from, k + 1>> \in T
      BY <2>2, <2>4, <3>1, TokenIn
    <3>3. QED
      BY <2>3, <2>4, <3>2
  <2>5. CASE l = to /\ k = Len(L[to]) + 1
    <3>1. M[to][k] = m
      BY <1>2, <2>2, <2>5
    <3>2. 1 \in DOMAIN L[from] /\ L[from][1].number = n
          /\ <<from[1], Holder(from, L[from][1])>> \in F
      BY <1>1, <1>a, <2>2, <2>5, <3>1
    <3>3. <<from, 1>> \in T
      BY <3>2, TokenIn
    <3>4. QED
      BY <1>a, <2>3, <2>5, <3>3
  <2>6. CASE l # from /\ ~ (l = to /\ k = Len(L[to]) + 1)
    <3>1. k \in DOMAIN L[l] /\ L[l][k] = M[l][k]
      <4>1. CASE l = to
        BY <1>2, <2>2, <2>6, <4>1
      <4>2. CASE l # to
        <5>1. M[l] # <<>>
          BY <2>2
        <5>2. l[1] # "answer" => l \in F
          <6>1. l = <<l[1], l[2]>>
            BY DEF Lanes
          <6>2. QED
            BY <2>2, <6>1 DEF Holder
        <5>3. M[l] = L[l]
          BY <1>a, <2>6, <4>2, <5>1, <5>2
        <5>4. QED
          BY <2>2, <5>3
      <4>3. QED
        BY <4>1, <4>2
    <3>2. t \in T
      BY <2>2, <3>1, TokenIn
    <3>3. QED
      BY <2>3, <2>6, <3>2
  <2>7. QED
    BY <2>4, <2>5, <2>6
<1>5. f \in [S -> T]
  BY <1>4
<1>6. ASSUME NEW x \in S, NEW y \in S, f[x] = f[y]
      PROVE  x = y
  <2>1. image(x) = image(y)
    BY <1>6
  <2>2. PICK l \in Lanes : \E k \in Nat : Seated(M, n, F, x, l, k)
    BY <1>3, Zenon
  <2>3. PICK k \in Nat : x = <<l, k>> /\ k \in DOMAIN M[l]
    BY <2>2 DEF Seated
  <2>4. PICK h \in Lanes : \E j \in Nat : Seated(M, n, F, y, h, j)
    BY <1>3, Zenon
  <2>5. PICK j \in Nat : y = <<h, j>> /\ j \in DOMAIN M[h]
    BY <2>4 DEF Seated
  <2>6. x[1] = l /\ x[2] = k /\ y[1] = h /\ y[2] = j
    BY <2>3, <2>5
  <2>7. (l = from => k \in 1 .. Len(L[from]) - 1) /\ (h = from => j \in 1 .. Len(L[from]) - 1)
    BY <1>1, <2>3, <2>5
  <2> HIDE DEF S, f
  <2>8. CASE l = from
    BY <1>1, <1>a, <2>1, <2>3, <2>5, <2>6, <2>7, <2>8
  <2>9. CASE h = from
    BY <1>1, <1>a, <2>1, <2>3, <2>5, <2>6, <2>7, <2>9
  <2>10. CASE l # from /\ h # from
    BY <2>1, <2>3, <2>5, <2>6, <2>10
  <2>11. QED
    BY <2>8, <2>9, <2>10
<1>7. QED
  <2> HIDE DEF f
  <2>1. QED
    BY <1>5, <1>6, Fewer

\* What a server took and did not commit comes before what waits for it.
LEMMA Redelivered ==
    ASSUME NEW L \in [Lanes -> Seq(Envelope)], NEW M \in [Lanes -> Seq(Envelope)],
           NEW n, NEW F, NEW G, F \subseteq G, NEW b \in Nat, Few(Tokens(L, n, G), b),
           NEW s \in Servers, <<"taken", s>> \in G,
           M[<<"queue", s>>] = L[<<"taken", s>>] \o L[<<"queue", s>>],
           M[<<"taken", s>>] = <<>>,
           \A l \in Lanes \ {<<"queue", s>>, <<"taken", s>>} : M[l] \in {<<>>, L[l]}
    PROVE  Few(Tokens(M, n, F), b)
<1> DEFINE q == <<"queue", s>>
           u == <<"taken", s>>
           S == Tokens(M, n, F)
           T == Tokens(L, n, G)
           image(t) == IF t[1] = q
                       THEN IF t[2] <= Len(L[u]) THEN <<u, t[2]>> ELSE <<q, t[2] - Len(L[u])>>
                       ELSE t
           f == [t \in S |-> image(t)]
<1>1. q \in Lanes /\ u \in Lanes /\ q # u /\ q[1] = "queue" /\ u[1] = "taken" /\ u[2] = s
  BY DEF Lanes, Stages
<1>a. u \in G /\ M[q] = L[u] \o L[q] /\ M[u] = <<>>
      /\ \A l \in Lanes \ {q, u} : M[l] \in {<<>>, L[l]}
  OBVIOUS
<1> HIDE DEF q, u
<1>2. /\ Len(L[u]) \in Nat /\ DOMAIN L[u] = 1 .. Len(L[u])
      /\ Len(L[q]) \in Nat /\ DOMAIN L[q] = 1 .. Len(L[q])
      /\ DOMAIN M[q] = 1 .. Len(L[u]) + Len(L[q])
      /\ \A k \in DOMAIN M[q] :
            M[q][k] = IF k <= Len(L[u]) THEN L[u][k] ELSE L[q][k - Len(L[u])]
  <2>1. L[u] \in Seq(Envelope) /\ L[q] \in Seq(Envelope)
    BY <1>1
  <2>2. M[q] = L[u] \o L[q]
    BY <1>a
  <2>3. /\ Len(L[u]) \in Nat /\ DOMAIN L[u] = 1 .. Len(L[u])
        /\ Len(L[q]) \in Nat /\ DOMAIN L[q] = 1 .. Len(L[q])
        /\ DOMAIN (L[u] \o L[q]) = 1 .. Len(L[u]) + Len(L[q])
        /\ \A k \in DOMAIN (L[u] \o L[q]) :
              (L[u] \o L[q])[k] = IF k <= Len(L[u]) THEN L[u][k] ELSE L[q][k - Len(L[u])]
    BY <2>1, QueuesJoined, ZenonT(30)
  <2>4. QED
    BY <2>2, <2>3, Zenon
<1>3. ASSUME NEW t \in Tokens(M, n, F)
      PROVE  \E l \in Lanes : \E k \in Nat : Seated(M, n, F, t, l, k) /\ l # u
  <2>1. PICK l \in Lanes : \E k \in Nat : Seated(M, n, F, t, l, k)
    BY TokenSeat, Zenon
  <2>2. l # u
    BY <1>a, <2>1 DEF Seated
  <2>3. QED
    BY <2>1, <2>2
<1>4. ASSUME NEW t \in S
      PROVE  image(t) \in T
  <2>1. PICK l \in Lanes : \E k \in Nat : Seated(M, n, F, t, l, k) /\ l # u
    BY <1>3, Zenon
  <2>2. PICK k \in Nat :
              /\ t = <<l, k>> /\ k \in DOMAIN M[l] /\ l # u
              /\ M[l][k].number = n /\ <<l[1], Holder(l, M[l][k])>> \in F
    BY <2>1 DEF Seated
  <2>3. t[1] = l /\ t[2] = k
    BY <2>2
  <2>4. CASE l = q /\ k <= Len(L[u])
    <3>1. k \in DOMAIN L[u] /\ M[q][k] = L[u][k]
      <4>1. k \in 1 .. Len(L[u]) + Len(L[q]) /\ Len(L[u]) \in Nat /\ k <= Len(L[u])
        BY <1>2, <2>2, <2>4
      <4>2. k \in 1 .. Len(L[u])
        BY <4>1
      <4>3. QED
        BY <1>2, <2>2, <2>4, <4>2
    <3>2. <<u[1], Holder(u, L[u][k])>> \in G
      BY <1>1, <1>a DEF Holder, u
    <3>3. <<u, k>> \in T
      BY <1>1, <2>2, <2>4, <3>1, <3>2, TokenIn
    <3>4. QED
      BY <2>3, <2>4, <3>3
  <2>5. CASE l = q /\ ~ (k <= Len(L[u]))
    <3>1. k - Len(L[u]) \in DOMAIN L[q] /\ M[q][k] = L[q][k - Len(L[u])]
      <4>1. /\ k \in 1 .. Len(L[u]) + Len(L[q]) /\ ~ (k <= Len(L[u]))
            /\ Len(L[u]) \in Nat /\ Len(L[q]) \in Nat
        BY <1>2, <2>2, <2>5
      <4>2. k - Len(L[u]) \in 1 .. Len(L[q])
        BY <4>1, Remaining
      <4>3. QED
        BY <1>2, <2>2, <2>5, <4>2
    <3>2. <<q, k - Len(L[u])>> \in T
      BY <1>1, <2>2, <2>5, <3>1, TokenIn
    <3>3. QED
      BY <2>3, <2>5, <3>2
  <2>6. CASE l # q
    <3>1. M[l] = L[l]
      BY <1>a, <2>2, <2>6
    <3>2. t \in T
      BY <2>2, <3>1, TokenIn
    <3>3. QED
      BY <2>3, <2>6, <3>2
  <2>7. QED
    BY <2>4, <2>5, <2>6
<1>5. f \in [S -> T]
  BY <1>4
<1>6. ASSUME NEW x \in S, NEW y \in S, f[x] = f[y]
      PROVE  x = y
  <2>1. image(x) = image(y)
    BY <1>6
  <2>2. PICK l \in Lanes : \E k \in Nat : Seated(M, n, F, x, l, k) /\ l # u
    BY <1>3, Zenon
  <2>3. PICK k \in Nat : x = <<l, k>> /\ k \in DOMAIN M[l] /\ l # u
    BY <2>2 DEF Seated
  <2>4. PICK h \in Lanes : \E j \in Nat : Seated(M, n, F, y, h, j) /\ h # u
    BY <1>3, Zenon
  <2>5. PICK j \in Nat : y = <<h, j>> /\ j \in DOMAIN M[h] /\ h # u
    BY <2>4 DEF Seated
  <2>6. x[1] = l /\ x[2] = k /\ y[1] = h /\ y[2] = j
    BY <2>3, <2>5
  <2> HIDE DEF S, f
  <2>7. CASE l = q
    BY <1>1, <1>2, <2>1, <2>3, <2>5, <2>6, <2>7, SMTT(20)
  <2>8. CASE h = q
    BY <1>1, <1>2, <2>1, <2>3, <2>5, <2>6, <2>8, SMTT(20)
  <2>9. CASE l # q /\ h # q
    BY <2>1, <2>3, <2>5, <2>6, <2>9
  <2>10. QED
    BY <2>7, <2>8, <2>9
<1>7. QED
  <2> HIDE DEF f
  <2>1. QED
    BY <1>5, <1>6, Fewer

LEMMA TokensTogether ==
    ASSUME NEW L, NEW n, NEW F, NEW G
    PROVE  Tokens(L, n, F \cup G) = Tokens(L, n, F) \cup Tokens(L, n, G)
<1>1. \A t : t \in Tokens(L, n, F \cup G) <=> t \in Tokens(L, n, F) \cup Tokens(L, n, G)
  BY TokenIs
<1>2. QED
  BY <1>1

LEMMA TokensWithin ==
    ASSUME NEW L, NEW n, NEW F, NEW G, F \subseteq G
    PROVE  Tokens(L, n, F) \subseteq Tokens(L, n, G)
  BY TokenIs

-----------------------------------------------------------------------------
(* What the lanes are, and what the steps of the servers make of them.      *)

LanesShow ==
    /\ \A s \in Servers \ Gateways : lanes[<<"queue", s>>] = inbox[s]
    /\ \A g \in Gateways : lanes[<<"queue", g>>] = <<>>
    /\ \A g \in Gateways : lanes[<<"answer", g>>] = inbox[g]
    /\ \A s \in Servers \ Gateways : lanes[<<"answer", s>>] = <<>>
    /\ \A s \in Servers : lanes[<<"taken", s>>] = uncommitted[s]
    /\ \A b \in Backends :
          /\ lanes[<<"work", b>>] = IF place[b] # "idle" THEN <<work[b]>> ELSE <<>>
          /\ lanes[<<"event", b>>] = <<>>
    /\ \A w \in Worlds :
          /\ lanes[<<"work", w>>] = IF wplace[w] = "handling" THEN <<wwork[w]>> ELSE <<>>
          /\ lanes[<<"event", w>>] = [k \in DOMAIN events[w] |-> events[w][k].msg]
    /\ \A g \in Gateways : lanes[<<"work", g>>] = <<>> /\ lanes[<<"event", g>>] = <<>>

LEMMA LanesAre == LanesShow
<1>1. \A stage \in Stages, s \in Servers : lanes[<<stage, s>>] = Lane(stage, s)
  BY DEF lanes, Lanes
<1>2. \A s \in Servers : Lane("taken", s) = uncommitted[s]
  BY DEF Lane
<1>3. \A s \in Servers \ Gateways : Lane("queue", s) = inbox[s] /\ Lane("answer", s) = <<>>
  BY DEF Lane
<1>4. \A g \in Gateways :
          /\ Lane("answer", g) = inbox[g] /\ Lane("queue", g) = <<>>
          /\ Lane("work", g) = <<>> /\ Lane("event", g) = <<>>
  BY ServersApart DEF Lane
<1>5. \A b \in Backends :
          /\ Lane("work", b) = IF place[b] # "idle" THEN <<work[b]>> ELSE <<>>
          /\ Lane("event", b) = <<>>
  BY ServersApart DEF Lane
<1>6. \A w \in Worlds :
          /\ Lane("work", w) = IF wplace[w] = "handling" THEN <<wwork[w]>> ELSE <<>>
          /\ Lane("event", w) = [k \in DOMAIN events[w] |-> events[w][k].msg]
  BY ServersApart DEF Lane
<1>7. QED
  BY <1>1, <1>2, <1>3, <1>4, <1>5, <1>6, ServersApart DEF Stages, LanesShow

\* A lane is one of five of a server.
LEMMA LaneOf ==
    ASSUME NEW l \in Lanes
    PROVE  \E s \in Servers : \/ l = <<"queue", s>> \/ l = <<"answer", s>> \/ l = <<"taken", s>>
                              \/ l = <<"work", s>> \/ l = <<"event", s>>
  BY DEF Lanes, Stages

LEMMA AreLanes ==
    ASSUME NEW s \in Servers
    PROVE  /\ <<"queue", s>> \in Lanes /\ <<"answer", s>> \in Lanes /\ <<"taken", s>> \in Lanes
           /\ <<"work", s>> \in Lanes /\ <<"event", s>> \in Lanes
  BY DEF Lanes, Stages

LEMMA EventsTyped ==
    ASSUME Routed, NEW w \in Worlds
    PROVE  /\ [k \in DOMAIN events[w] |-> events[w][k].msg] \in Seq(Envelope)
           /\ events[w] \in Seq(Awaited)
<1>1. events[w] \in Seq(Awaited)
  BY DEF Routed, WorldsRouted
<1>2. \A k \in DOMAIN events[w] : events[w][k] \in Awaited
  BY <1>1
<1>3. \A k \in DOMAIN events[w] : events[w][k].msg \in Envelope
  BY <1>2 DEF Awaited
<1>4. Len(events[w]) \in Nat /\ DOMAIN events[w] = 1 .. Len(events[w])
  BY <1>1
<1>5. [k \in 1 .. Len(events[w]) |-> events[w][k].msg] \in Seq(Envelope)
  BY <1>3, <1>4
<1>6. QED
  BY <1>1, <1>4, <1>5

LEMMA LanesTyped == Routed => lanes \in [Lanes -> Seq(Envelope)]
<1> SUFFICES ASSUME Routed, NEW l \in Lanes
             PROVE  lanes[l] \in Seq(Envelope)
  BY DEF lanes
<1>1. PICK s \in Servers : \/ l = <<"queue", s>> \/ l = <<"answer", s>> \/ l = <<"taken", s>>
                           \/ l = <<"work", s>> \/ l = <<"event", s>>
  BY LaneOf
<1>2. <<>> \in Seq(Envelope) /\ inbox[s] \in Seq(Envelope) /\ uncommitted[s] \in Seq(Envelope)
  BY DEF Routed, QueuesRouted
<1>3. CASE s \in Gateways
  <2>1. /\ lanes[<<"queue", s>>] = <<>> /\ lanes[<<"answer", s>>] = inbox[s]
        /\ lanes[<<"taken", s>>] = uncommitted[s]
        /\ lanes[<<"work", s>>] = <<>> /\ lanes[<<"event", s>>] = <<>>
    BY <1>3, LanesAre DEF LanesShow
  <2>2. QED
    BY <1>1, <1>2, <2>1
<1>4. CASE s \in Backends
  <2>1. place[s] # "idle" => work[s] \in Envelope
    BY <1>4 DEF Routed, BackendsRouted, Right
  <2>2. place[s] # "idle" => <<work[s]>> \in Seq(Envelope)
    BY <2>1
  <2>3. /\ lanes[<<"queue", s>>] = inbox[s] /\ lanes[<<"answer", s>>] = <<>>
        /\ lanes[<<"taken", s>>] = uncommitted[s] /\ lanes[<<"event", s>>] = <<>>
        /\ lanes[<<"work", s>>] = IF place[s] # "idle" THEN <<work[s]>> ELSE <<>>
    BY <1>4, LanesAre, ServersApart DEF LanesShow
  <2>4. QED
    BY <1>1, <1>2, <2>2, <2>3
<1>5. CASE s \in Worlds
  <2>1. wplace[s] = "handling" => wwork[s] \in Envelope
    BY <1>5 DEF Routed, WorldsRouted, Right
  <2>2. wplace[s] = "handling" => <<wwork[s]>> \in Seq(Envelope)
    BY <2>1
  <2>3. /\ lanes[<<"queue", s>>] = inbox[s] /\ lanes[<<"answer", s>>] = <<>>
        /\ lanes[<<"taken", s>>] = uncommitted[s]
        /\ lanes[<<"event", s>>] = [k \in DOMAIN events[s] |-> events[s][k].msg]
        /\ lanes[<<"work", s>>] = IF wplace[s] = "handling" THEN <<wwork[s]>> ELSE <<>>
    BY <1>5, LanesAre, ServersApart DEF LanesShow
  <2>4. lanes[<<"event", s>>] \in Seq(Envelope)
    BY <1>5, <2>3, EventsTyped
  <2>5. QED
    BY <1>1, <1>2, <2>2, <2>3, <2>4
<1>6. QED
  BY <1>3, <1>4, <1>5 DEF Servers

LEMMA LanesAfter == LanesShow'
  BY LanesAre, PTL

LEMMA LanesTypedAfter == Routed' => (lanes \in [Lanes -> Seq(Envelope)])'
  BY LanesTyped, PTL

-----------------------------------------------------------------------------
(* What a step may make of the lanes.                                      *)

\* A server goes on with what it handles: an answer, an event, or a message to the starting world.
Advances ==
    \E from \in Lanes : \E to \in Lanes : \E m \in Envelope :
        /\ from # to /\ lanes[from] # <<>> /\ lanes'[from] = Tail(lanes[from])
        /\ lanes'[to] \in {lanes[to], Append(lanes[to], m)}
        /\ m.number = Head(lanes[from]).number
        /\ \A l \in Lanes \ {from, to} : lanes'[l] = lanes[l]
        /\ \/ /\ from[1] \in {"work", "event"} /\ from[2] \in Backends \cup Worlds
              /\ to[1] = "answer" /\ m.origin = from[2]
           \/ from[1] = "work" /\ to = <<"event", from[2]>>
           \/ /\ from[1] = "work" /\ from[2] \in Backends
              /\ to = <<"queue", StartingWorld>> /\ asked[m.number] = "create_character"

\* A server takes the next message, and may have to take it again.
Takes(s) ==
    LET q == <<"queue", s>>
        u == <<"taken", s>>
        v == <<"work", s>>
    IN  /\ lanes[q] # <<>> /\ lanes'[q] = Tail(lanes[q])
        /\ lanes[v] = <<>> /\ lanes'[v] \in {<<>>, <<Head(lanes[q])>>}
        /\ lanes'[u] \in {lanes[u], Append(lanes[u], Head(lanes[q]))}
        /\ \A l \in Lanes \ {q, u, v} : lanes'[l] = lanes[l]

\* A server dies and is started again.
Restarts(s) ==
    LET q == <<"queue", s>>
        u == <<"taken", s>>
    IN  /\ lanes'[q] = lanes[u] \o lanes[q] /\ lanes'[u] = <<>>
        /\ \A l \in Lanes \ {q, u} : lanes'[l] \in {<<>>, lanes[l]}

LEMMA LanesStill ==
    ASSUME NEW t \in Servers
    PROVE  /\ inbox'[t] = inbox[t] =>
                 /\ lanes'[<<"queue", t>>] = lanes[<<"queue", t>>]
                 /\ lanes'[<<"answer", t>>] = lanes[<<"answer", t>>]
           /\ uncommitted'[t] = uncommitted[t] => lanes'[<<"taken", t>>] = lanes[<<"taken", t>>]
           /\ /\ t \in Backends => /\ work'[t] = work[t]
                                   /\ place'[t] # "idle" <=> place[t] # "idle"
              /\ t \in Worlds => /\ wwork'[t] = wwork[t] /\ wplace'[t] = wplace[t]
                                 /\ events'[t] = events[t]
              => /\ lanes'[<<"work", t>>] = lanes[<<"work", t>>]
                 /\ lanes'[<<"event", t>>] = lanes[<<"event", t>>]
<1>1. CASE t \in Gateways
  BY <1>1, LanesAre, LanesAfter, ServersApart DEF LanesShow
<1>2. CASE t \in Backends
  <2>1. /\ t \in Servers \ Gateways /\ t \notin Worlds
        /\ lanes[<<"queue", t>>] = inbox[t] /\ lanes[<<"answer", t>>] = <<>>
        /\ lanes[<<"taken", t>>] = uncommitted[t] /\ lanes[<<"event", t>>] = <<>>
        /\ lanes[<<"work", t>>] = IF place[t] # "idle" THEN <<work[t]>> ELSE <<>>
    BY <1>2, LanesAre, ServersApart DEF LanesShow
  <2>2. /\ lanes'[<<"queue", t>>] = inbox'[t] /\ lanes'[<<"answer", t>>] = <<>>
        /\ lanes'[<<"taken", t>>] = uncommitted'[t] /\ lanes'[<<"event", t>>] = <<>>
        /\ lanes'[<<"work", t>>] = IF place'[t] # "idle" THEN <<work'[t]>> ELSE <<>>
    BY <1>2, <2>1, LanesAfter DEF LanesShow
  <2>3. QED
    BY <1>2, <2>1, <2>2
<1>3. CASE t \in Worlds
  <2>1. /\ t \in Servers \ Gateways /\ t \notin Backends
        /\ lanes[<<"queue", t>>] = inbox[t] /\ lanes[<<"answer", t>>] = <<>>
        /\ lanes[<<"taken", t>>] = uncommitted[t]
        /\ lanes[<<"event", t>>] = [k \in DOMAIN events[t] |-> events[t][k].msg]
        /\ lanes[<<"work", t>>] = IF wplace[t] = "handling" THEN <<wwork[t]>> ELSE <<>>
    BY <1>3, LanesAre, ServersApart DEF LanesShow
  <2>2. /\ lanes'[<<"queue", t>>] = inbox'[t] /\ lanes'[<<"answer", t>>] = <<>>
        /\ lanes'[<<"taken", t>>] = uncommitted'[t]
        /\ lanes'[<<"event", t>>] = [k \in DOMAIN events'[t] |-> events'[t][k].msg]
        /\ lanes'[<<"work", t>>] = IF wplace'[t] = "handling" THEN <<wwork'[t]>> ELSE <<>>
    BY <1>3, <2>1, LanesAfter DEF LanesShow
  <2>3. events'[t] = events[t] => lanes'[<<"event", t>>] = lanes[<<"event", t>>]
    BY <2>1, <2>2
  <2>4. QED
    BY <1>3, <2>1, <2>2, <2>3
<1>4. QED
  BY <1>1, <1>2, <1>3 DEF Servers

\* Where the threads of the servers are, as the lanes have it.
RestStays(from) ==
    \A l \in Lanes \ {from} : l[1] \in {"work", "event"} => lanes'[l] = lanes[l]

LEMMA BackendMoves ==
    ASSUME Routed, NEW b \in Backends, NEW to, Goto(b, to), UNCHANGED <<work, worldVars>>
    PROVE  /\ RestStays(<<"work", b>>)
           /\ lanes'[<<"work", b>>] = IF to # "idle" THEN <<work[b]>> ELSE <<>>
<1>1. \A c \in Backends : place'[c] = IF c = b THEN to ELSE place[c]
  BY DEF Goto, Routed, BackendsRouted
<1>2. ASSUME NEW l \in Lanes \ {<<"work", b>>}, l[1] \in {"work", "event"}
      PROVE  lanes'[l] = lanes[l]
  <2>1. PICK s \in Servers : l = <<"work", s>> \/ l = <<"event", s>>
    BY <1>2 DEF Lanes
  <2>2. CASE s = b
    <3>1. l = <<"event", b>>
      BY <2>1, <2>2
    <3>2. QED
      BY <3>1, LanesAre, LanesAfter DEF LanesShow
  <2>3. CASE s # b
    BY <1>1, <2>1, <2>3, LanesStill DEF worldVars
  <2>4. QED
    BY <2>2, <2>3
<1>3. lanes'[<<"work", b>>] = IF to # "idle" THEN <<work[b]>> ELSE <<>>
  BY <1>1, LanesAfter DEF LanesShow
<1>4. QED
  BY <1>2, <1>3 DEF RestStays

LEMMA WorldMoves ==
    ASSUME Routed, NEW w \in Worlds, wplace' = [wplace EXCEPT ![w] = "idle"],
           UNCHANGED <<wwork, events, place, work>>
    PROVE  RestStays(<<"work", w>>) /\ lanes'[<<"work", w>>] = <<>>
<1>1. \A v \in Worlds : wplace'[v] = IF v = w THEN "idle" ELSE wplace[v]
  BY DEF Routed, WorldsRouted
<1>2. ASSUME NEW l \in Lanes \ {<<"work", w>>}, l[1] \in {"work", "event"}
      PROVE  lanes'[l] = lanes[l]
  <2>1. PICK s \in Servers : l = <<"work", s>> \/ l = <<"event", s>>
    BY <1>2 DEF Lanes
  <2>2. CASE s = w
    <3>1. l = <<"event", w>>
      BY <2>1, <2>2
    <3>2. /\ lanes[l] = [k \in DOMAIN events[w] |-> events[w][k].msg]
          /\ lanes'[l] = [k \in DOMAIN events'[w] |-> events'[w][k].msg]
      BY <3>1, LanesAre, LanesAfter, Zenon DEF LanesShow
    <3>3. QED
      BY <3>2
  <2>3. CASE s # w
    BY <1>1, <2>1, <2>3, LanesStill
  <2>4. QED
    BY <2>2, <2>3
<1>3. lanes'[<<"work", w>>] = <<>>
  <2>1. lanes'[<<"work", w>>] = IF wplace'[w] = "handling" THEN <<wwork'[w]>> ELSE <<>>
    BY LanesAfter, Zenon DEF LanesShow
  <2>2. QED
    BY <1>1, <2>1
<1>4. QED
  BY <1>2, <1>3 DEF RestStays

LEMMA PublishedTo ==
    ASSUME Routed, NEW s, NEW m, Publish(ServerTopic(s), m)
    PROVE  /\ \A t \in Servers : inbox'[t] = IF t = s THEN Append(inbox[t], m) ELSE inbox[t]
           /\ UNCHANGED <<uncommitted, crashes>>
  BY DEF Publish, ServerTopic

\* An answer about what a server handles, or about an event, is put at the gateway.
LEMMA Answered ==
    ASSUME Routed, NEW s \in Backends \cup Worlds, NEW from \in {<<"work", s>>, <<"event", s>>},
           NEW g \in Gateways, NEW m \in Envelope, Publish(ServerTopic(g), m), m.origin = s,
           lanes[from] # <<>>, lanes'[from] = Tail(lanes[from]),
           m.number = Head(lanes[from]).number, RestStays(from)
    PROVE  Advances
<1> DEFINE to == <<"answer", g>>
<1>1. s \in Servers /\ g \in Servers
  BY ServersApart
<1>2. from \in Lanes /\ to \in Lanes /\ from # to /\ from[1] \in {"work", "event"} /\ from[2] = s
  <2>1. from \in Lanes /\ to \in Lanes
    BY <1>1, AreLanes
  <2>2. from[1] \in {"work", "event"} /\ from[2] = s /\ to[1] = "answer"
    OBVIOUS
  <2>3. QED
    BY <2>1, <2>2
<1>3. lanes'[to] = Append(lanes[to], m)
  <2>1. lanes[to] = inbox[g] /\ lanes'[to] = inbox'[g]
    BY LanesAre, LanesAfter DEF LanesShow
  <2>2. inbox'[g] = Append(inbox[g], m)
    BY <1>1, PublishedTo
  <2>3. QED
    BY <2>1, <2>2
<1>4. ASSUME NEW l \in Lanes \ {from, to}
      PROVE  lanes'[l] = lanes[l]
  <2>1. CASE l[1] \in {"work", "event"}
    BY <2>1 DEF RestStays
  <2>2. CASE l[1] \notin {"work", "event"}
    <3>1. PICK t \in Servers : l = <<"queue", t>> \/ l = <<"answer", t>> \/ l = <<"taken", t>>
      BY <2>2, LaneOf
    <3>2. t # g => inbox'[t] = inbox[t]
      BY PublishedTo
    <3>3. uncommitted'[t] = uncommitted[t]
      BY PublishedTo
    <3>4. t = g => lanes'[<<"queue", t>>] = lanes[<<"queue", t>>]
      BY LanesAre, LanesAfter DEF LanesShow
    <3>5. QED
      BY <3>1, <3>2, <3>3, <3>4, LanesStill
  <2>3. QED
    BY <2>1, <2>2
<1>5. to[1] = "answer"
  OBVIOUS
<1> HIDE DEF to
<1>6. QED
  BY <1>2, <1>3, <1>4, <1>5 DEF Advances

\* Nothing is put anywhere.
Silent == \A l \in Lanes : lanes'[l] \in {<<>>, lanes[l]}

LEMMA SilentStep ==
    ASSUME NEW from, lanes'[from] = <<>>, RestStays(from),
           \A t \in Servers : inbox'[t] = inbox[t] /\ uncommitted'[t] = uncommitted[t]
    PROVE  Silent
<1> SUFFICES ASSUME NEW l \in Lanes
             PROVE  lanes'[l] \in {<<>>, lanes[l]}
  BY DEF Silent
<1>1. CASE l[1] \in {"work", "event"}
  BY <1>1 DEF RestStays
<1>2. CASE l[1] \notin {"work", "event"}
  <2>1. PICK t \in Servers : l = <<"queue", t>> \/ l = <<"answer", t>> \/ l = <<"taken", t>>
    BY <1>2, LaneOf
  <2>2. QED
    BY <2>1, LanesStill
<1>3. QED
  BY <1>1, <1>2

-----------------------------------------------------------------------------
(* Each step of a server is one of them.                                   *)

LEMMA ConsumeTakes ==
    ASSUME Routed, NEW s \in Backends \cup Worlds, Consume(s), RestStays(<<"work", s>>),
           lanes[<<"work", s>>] = <<>>, lanes'[<<"work", s>>] \in {<<>>, <<Head(inbox[s])>>}
    PROVE  Takes(s) /\ crashes' = crashes
<1> DEFINE q == <<"queue", s>>
           u == <<"taken", s>>
           v == <<"work", s>>
<1>1. /\ s \in Servers \ Gateways
      /\ lanes[q] = inbox[s] /\ lanes[u] = uncommitted[s]
      /\ lanes'[q] = inbox'[s] /\ lanes'[u] = uncommitted'[s]
  BY ServersApart, LanesAre, LanesAfter DEF LanesShow
<1>2. inbox \in [Servers -> Seq(Envelope)] /\ uncommitted \in [Servers -> Seq(Envelope)]
  BY DEF Routed, QueuesRouted
<1>3. /\ inbox[s] # <<>> /\ inbox'[s] = Tail(inbox[s])
      /\ uncommitted'[s] \in {uncommitted[s], Append(uncommitted[s], Head(inbox[s]))}
      /\ \A t \in Servers \ {s} : inbox'[t] = inbox[t] /\ uncommitted'[t] = uncommitted[t]
      /\ crashes' = crashes
  BY <1>1, <1>2 DEF Consume
<1>4. ASSUME NEW l \in Lanes \ {q, u, v}
      PROVE  lanes'[l] = lanes[l]
  <2>1. CASE l[1] \in {"work", "event"}
    BY <2>1 DEF RestStays
  <2>2. CASE l[1] \notin {"work", "event"}
    <3>1. PICK t \in Servers : l = <<"queue", t>> \/ l = <<"answer", t>> \/ l = <<"taken", t>>
      BY <2>2, LaneOf
    <3>2. CASE t = s
      <4>1. l = <<"answer", s>>
        BY <3>1, <3>2
      <4>2. QED
        BY <1>1, <4>1, LanesAre, LanesAfter DEF LanesShow
    <3>3. CASE t # s
      BY <1>3, <3>1, <3>3, LanesStill
    <3>4. QED
      BY <3>2, <3>3
  <2>3. QED
    BY <2>1, <2>2
<1>5. lanes[v] = <<>> /\ lanes'[v] \in {<<>>, <<Head(lanes[q])>>}
  BY <1>1
<1> HIDE DEF q, u, v
<1>6. /\ lanes[q] # <<>> /\ lanes'[q] = Tail(lanes[q])
      /\ lanes'[u] \in {lanes[u], Append(lanes[u], Head(lanes[q]))}
  BY <1>1, <1>3
<1>7. QED
  BY <1>3, <1>4, <1>5, <1>6 DEF Takes, q, u, v

LEMMA BackendTakes ==
    ASSUME Routed, NEW b \in Backends, BackendTake(b), UNCHANGED <<worldVars, asked>>
    PROVE  Takes(b) /\ crashes' = crashes
<1>1. PICK to \in {"idle", "handling"} : place' = [place EXCEPT ![b] = to]
  BY DEF BackendTake, Goto
<1>2. /\ \A c \in Backends : place'[c] = IF c = b THEN to ELSE place[c]
      /\ \A c \in Backends : work'[c] = IF c = b THEN Head(inbox[b]) ELSE work[c]
      /\ place[b] = "idle" /\ Consume(b)
  BY <1>1 DEF Routed, BackendsRouted, BackendTake
<1>3. RestStays(<<"work", b>>)
  <2>1. SUFFICES ASSUME NEW l \in Lanes \ {<<"work", b>>}, l[1] \in {"work", "event"}
                 PROVE  lanes'[l] = lanes[l]
    BY DEF RestStays
  <2>2. PICK s \in Servers : l = <<"work", s>> \/ l = <<"event", s>>
    BY <2>1 DEF Lanes
  <2>3. CASE s = b
    <3>1. l = <<"event", b>>
      BY <2>2, <2>3
    <3>2. QED
      BY <3>1, LanesAre, LanesAfter DEF LanesShow
  <2>4. CASE s # b
    BY <1>2, <2>2, <2>4, LanesStill DEF worldVars
  <2>5. QED
    BY <2>3, <2>4
<1>4. /\ lanes[<<"work", b>>] = IF place[b] # "idle" THEN <<work[b]>> ELSE <<>>
      /\ lanes'[<<"work", b>>] = IF place'[b] # "idle" THEN <<work'[b]>> ELSE <<>>
  BY LanesAre, LanesAfter, Zenon DEF LanesShow
<1>5. /\ lanes[<<"work", b>>] = <<>>
      /\ lanes'[<<"work", b>>] \in {<<>>, <<Head(inbox[b])>>}
  BY <1>2, <1>4
<1>6. QED
  BY <1>2, <1>3, <1>5, ConsumeTakes

LEMMA WorldTakes ==
    ASSUME Routed, NEW w \in Worlds, WorldTake(w), UNCHANGED <<backendVars, asked>>
    PROVE  Takes(w) /\ crashes' = crashes
<1>1. PICK to \in {"idle", "handling"} : wplace' = [wplace EXCEPT ![w] = to]
  BY DEF WorldTake
<1>2. /\ \A v \in Worlds : wplace'[v] = IF v = w THEN to ELSE wplace[v]
      /\ \A v \in Worlds : wwork'[v] = IF v = w THEN Head(inbox[w]) ELSE wwork[v]
      /\ wplace[w] = "idle" /\ Consume(w) /\ events' = events
  BY <1>1 DEF Routed, WorldsRouted, WorldTake
<1>3. RestStays(<<"work", w>>)
  <2>1. SUFFICES ASSUME NEW l \in Lanes \ {<<"work", w>>}, l[1] \in {"work", "event"}
                 PROVE  lanes'[l] = lanes[l]
    BY DEF RestStays
  <2>2. PICK s \in Servers : l = <<"work", s>> \/ l = <<"event", s>>
    BY <2>1 DEF Lanes
  <2>3. CASE s = w
    <3>1. l = <<"event", w>>
      BY <2>2, <2>3
    <3>2. /\ lanes[l] = [k \in DOMAIN events[w] |-> events[w][k].msg]
          /\ lanes'[l] = [k \in DOMAIN events'[w] |-> events'[w][k].msg]
      BY <3>1, LanesAre, LanesAfter, Zenon DEF LanesShow
    <3>3. QED
      BY <1>2, <3>2
  <2>4. CASE s # w
    BY <1>2, <2>2, <2>4, LanesStill DEF backendVars
  <2>5. QED
    BY <2>3, <2>4
<1>4. /\ lanes[<<"work", w>>] = IF wplace[w] = "handling" THEN <<wwork[w]>> ELSE <<>>
      /\ lanes'[<<"work", w>>] = IF wplace'[w] = "handling" THEN <<wwork'[w]>> ELSE <<>>
  BY LanesAre, LanesAfter, Zenon DEF LanesShow
<1>5. /\ lanes[<<"work", w>>] = <<>>
      /\ lanes'[<<"work", w>>] \in {<<>>, <<Head(inbox[w])>>}
  BY <1>2, <1>4
<1>6. QED
  BY <1>2, <1>3, <1>5, ConsumeTakes

\* What a backend handles is alone in its lane, and gone when it is done.
LEMMA BackendWorks ==
    ASSUME Routed, NEW b \in Backends, place[b] # "idle"
    PROVE  /\ lanes[<<"work", b>>] = <<work[b]>> /\ lanes[<<"work", b>>] # <<>>
           /\ Head(lanes[<<"work", b>>]) = work[b] /\ Tail(lanes[<<"work", b>>]) = <<>>
           /\ work[b] \in Envelope
<1>1. lanes[<<"work", b>>] = IF place[b] # "idle" THEN <<work[b]>> ELSE <<>>
  BY LanesAre, Zenon DEF LanesShow
<1>2. work[b] \in Envelope
  BY DEF Routed, BackendsRouted, Right
<1>3. QED
  BY <1>1, <1>2

LEMMA WorldWorks ==
    ASSUME Routed, NEW w \in Worlds, wplace[w] = "handling"
    PROVE  /\ lanes[<<"work", w>>] = <<wwork[w]>> /\ lanes[<<"work", w>>] # <<>>
           /\ Head(lanes[<<"work", w>>]) = wwork[w] /\ Tail(lanes[<<"work", w>>]) = <<>>
           /\ wwork[w] \in Envelope
<1>1. lanes[<<"work", w>>] = IF wplace[w] = "handling" THEN <<wwork[w]>> ELSE <<>>
  BY LanesAre, Zenon DEF LanesShow
<1>2. wwork[w] \in Envelope
  BY DEF Routed, WorldsRouted, Right
<1>3. QED
  BY <1>1, <1>2

LEMMA AnswerIs ==
    ASSUME NEW m \in Envelope, NEW kind \in AnswerKinds, NEW o \in Servers, NEW u \in Nat
    PROVE  /\ Answer(m, kind, o, u) \in Envelope
           /\ Answer(m, kind, o, u).number = m.number /\ Answer(m, kind, o, u).origin = o
  BY DEF Answer, Envelope

LEMMA ReplyAdvances ==
    ASSUME Routed, NEW b \in Backends, place[b] # "idle", NEW kind \in AnswerKinds, NEW u \in Nat,
           Reply(b, kind, u), UNCHANGED <<work, worldVars>>
    PROVE  Advances /\ crashes' = crashes
<1> DEFINE a == Answer(work[b], kind, b, u)
<1>1. work[b].origin \in Gateways
  BY WorkRight DEF Routed
<1>2. a \in Envelope /\ a.number = work[b].number /\ a.origin = b
  <2>1. work[b] \in Envelope /\ b \in Servers
    BY BackendWorks, ServersApart
  <2>2. QED
    BY <2>1, AnswerIs
<1>3. Publish(ServerTopic(work[b].origin), a) /\ Goto(b, "idle")
  BY DEF Reply
<1> HIDE DEF a
<1>4. RestStays(<<"work", b>>) /\ lanes'[<<"work", b>>] = <<>>
  BY <1>3, BackendMoves
<1>5. crashes' = crashes
  BY <1>3 DEF Publish
<1>6. QED
  BY <1>1, <1>2, <1>3, <1>4, <1>5, BackendWorks, Answered

LEMMA BackendQuiet ==
    ASSUME Routed, NEW b \in Backends, NEW to, to # "idle", place[b] # "idle", Goto(b, to),
           UNCHANGED <<kafkaVars, work, worldVars>>
    PROVE  Silent /\ crashes' = crashes
<1>1. RestStays(<<"work", b>>) /\ lanes'[<<"work", b>>] = <<work[b]>>
  BY BackendMoves
<1>2. lanes'[<<"work", b>>] = lanes[<<"work", b>>]
  BY <1>1, BackendWorks
<1>3. UNCHANGED <<inbox, uncommitted, crashes>>
  BY DEF kafkaVars
<1>4. ASSUME NEW l \in Lanes
      PROVE  lanes'[l] = lanes[l]
  <2>1. CASE l[1] \in {"work", "event"}
    BY <1>1, <1>2, <2>1 DEF RestStays
  <2>2. CASE l[1] \notin {"work", "event"}
    <3>1. PICK t \in Servers : l = <<"queue", t>> \/ l = <<"answer", t>> \/ l = <<"taken", t>>
      BY <2>2, LaneOf
    <3>2. QED
      BY <1>3, <3>1, LanesStill
  <2>3. QED
    BY <2>1, <2>2
<1>5. QED
  BY <1>3, <1>4 DEF Silent

\* The handler ends, and no message is sent.
LEMMA BackendDrops ==
    ASSUME Routed, NEW b \in Backends, Goto(b, "idle"), UNCHANGED <<kafkaVars, work, worldVars>>
    PROVE  Silent /\ crashes' = crashes
<1>1. RestStays(<<"work", b>>) /\ lanes'[<<"work", b>>] = <<>>
  BY BackendMoves
<1>2. UNCHANGED <<inbox, uncommitted, crashes>>
  BY DEF kafkaVars
<1>3. QED
  BY <1>1, <1>2, SilentStep

\* A message for a starting world that does not exist is nowhere.
LEMMA ForwardDrops ==
    ASSUME Routed, NEW b \in Backends, ForwardCharacter(b), UNCHANGED <<worldVars, asked>>,
           StartingWorld \notin Servers
    PROVE  Silent /\ crashes' = crashes
<1> DEFINE m == [work[b] EXCEPT !.origin = b, !.destination = work[b].origin]
<1>1. UNCHANGED work /\ Goto(b, "idle") /\ Publish(ServerTopic(StartingWorld), m)
  BY DEF ForwardCharacter
<1> HIDE DEF m
<1>2. RestStays(<<"work", b>>) /\ lanes'[<<"work", b>>] = <<>>
  BY <1>1, BackendMoves
<1>3. /\ \A t \in Servers : inbox'[t] = inbox[t]
      /\ UNCHANGED <<uncommitted, crashes>>
  BY <1>1, PublishedTo
<1>4. QED
  BY <1>2, <1>3, SilentStep

LEMMA ForwardAdvances ==
    ASSUME Routed, NEW b \in Backends, ForwardCharacter(b), UNCHANGED <<worldVars, asked>>,
           StartingWorld \in Worlds
    PROVE  Advances /\ crashes' = crashes
<1> DEFINE m == [work[b] EXCEPT !.origin = b, !.destination = work[b].origin]
           from == <<"work", b>>
           to == <<"queue", StartingWorld>>
<1>1. /\ place[b] = "committed" /\ UNCHANGED work /\ Goto(b, "idle")
      /\ Publish(ServerTopic(StartingWorld), m)
  BY DEF ForwardCharacter
<1>2. /\ work[b] \in Envelope /\ work[b].kind = "create_character"
      /\ asked[work[b].number] = "create_character" /\ work[b].origin \in Servers
  BY <1>1, WorkRight, BackendWorks, ServersApart DEF Routed, BackendsRouted
<1>3. m \in Envelope /\ m.number = work[b].number
  BY <1>2, ServersApart DEF Envelope
<1> HIDE DEF m
<1>4. RestStays(from) /\ lanes'[from] = <<>>
  BY <1>1, BackendMoves
<1>5. /\ lanes[from] # <<>> /\ Head(lanes[from]) = work[b] /\ Tail(lanes[from]) = <<>>
  BY <1>1, BackendWorks
<1>6. b \in Servers /\ StartingWorld \in Servers \ Gateways
  BY ServersApart
<1>7. from \in Lanes /\ to \in Lanes /\ from # to /\ from[1] = "work" /\ from[2] = b
  <2>1. from \in Lanes /\ to \in Lanes
    BY <1>6, AreLanes
  <2>2. from[1] = "work" /\ from[2] = b /\ to[1] = "queue"
    OBVIOUS
  <2>3. QED
    BY <2>1, <2>2
<1>8. lanes'[to] = Append(lanes[to], m)
  <2>1. lanes[to] = inbox[StartingWorld] /\ lanes'[to] = inbox'[StartingWorld]
    BY <1>6, LanesAre, LanesAfter DEF LanesShow
  <2>2. inbox'[StartingWorld] = Append(inbox[StartingWorld], m)
    BY <1>1, <1>6, PublishedTo
  <2>3. QED
    BY <2>1, <2>2
<1>9. ASSUME NEW l \in Lanes \ {from, to}
      PROVE  lanes'[l] = lanes[l]
  <2>1. CASE l[1] \in {"work", "event"}
    BY <1>4, <2>1 DEF RestStays
  <2>2. CASE l[1] \notin {"work", "event"}
    <3>1. PICK t \in Servers : l = <<"queue", t>> \/ l = <<"answer", t>> \/ l = <<"taken", t>>
      BY <2>2, LaneOf
    <3>2. t # StartingWorld => inbox'[t] = inbox[t]
      BY <1>1, PublishedTo
    <3>3. uncommitted'[t] = uncommitted[t]
      BY <1>1, PublishedTo
    <3>4. t = StartingWorld => lanes'[<<"answer", t>>] = lanes[<<"answer", t>>]
      BY <1>6, LanesAre, LanesAfter DEF LanesShow
    <3>5. QED
      BY <3>1, <3>2, <3>3, <3>4, LanesStill
  <2>3. QED
    BY <2>1, <2>2
<1>10. crashes' = crashes
  BY <1>1 DEF Publish
<1>11. from[2] \in Backends /\ to = <<"queue", StartingWorld>>
  OBVIOUS
<1>12. Advances
  <2> HIDE DEF from, to
  <2>1. lanes'[from] = Tail(lanes[from]) /\ m.number = Head(lanes[from]).number
        /\ asked[m.number] = "create_character"
    BY <1>2, <1>3, <1>4, <1>5
  <2>2. QED
    BY <1>3, <1>5, <1>7, <1>8, <1>9, <1>11, <2>1 DEF Advances
<1>13. QED
  BY <1>10, <1>12

LEMMA BackendLanes ==
    ASSUME Routed, NEW b \in Backends, BackendAction(b)
    PROVE  (Silent \/ Advances \/ Takes(b)) /\ crashes' = crashes
<1> USE DEF BackendAction
<1>1. ASSUME place[b] # "idle", Error(b), UNCHANGED <<work, worldVars>>
      PROVE  Advances /\ crashes' = crashes
  BY <1>1, ReplyAdvances DEF Error, AnswerKinds
<1>2. CASE BackendLogin(b)
  <2>1. place[b] = "handling" /\ UNCHANGED work
    BY <1>2 DEF BackendLogin, Handling
  <2>2. CASE \E i \in Named(work[b].name) : Reply(b, "login_response", i)
    <3>1. PICK i \in Named(work[b].name) : Reply(b, "login_response", i)
      BY <2>2
    <3>2. i \in Nat
      BY StoredIds DEF Named, Routed, IdsCounted
    <3>3. QED
      BY <2>1, <3>1, <3>2, ReplyAdvances DEF AnswerKinds
  <2>3. QED
    BY <1>1, <1>2, <2>1, <2>2 DEF BackendLogin
<1>3. CASE BackendRegister(b)
  BY <1>1, <1>3, BackendQuiet DEF BackendRegister, Handling
<1>4. CASE BackendRegistered(b)
  <2>1. place[b] = "registered" /\ UNCHANGED work /\ Reply(b, "register_response", inserted[b].id)
    BY <1>4 DEF BackendRegistered
  <2>2. inserted[b].id \in Nat
    BY <2>1, StoredIds DEF Routed, IdsCounted
  <2>3. QED
    BY <2>1, <2>2, ReplyAdvances DEF AnswerKinds
<1>5. CASE BackendCreateCharacter(b)
  BY <1>1, <1>5, BackendQuiet, BackendDrops DEF BackendCreateCharacter, Handling
<1>6. CASE CommitCount(b)
  BY <1>1, <1>6, BackendQuiet DEF CommitCount
<1>7. CASE ForwardCharacter(b)
  BY <1>7, WorldOfSettings, ServersApart, ForwardAdvances, ForwardDrops
<1>8. QED
  BY <1>2, <1>3, <1>4, <1>5, <1>6, <1>7, BackendTakes DEF BackendStep

-----------------------------------------------------------------------------
\* The consumer thread of a world puts an event behind the others.
LEMMA EnqueueAdvances ==
    ASSUME Routed, NEW w \in Worlds, wplace[w] = "handling", NEW to, NEW maps,
           Enqueued(w, Event(wwork[w], to, maps)), wplace' = [wplace EXCEPT ![w] = "idle"],
           UNCHANGED <<wwork, backendVars>>
    PROVE  Advances /\ crashes' = crashes
<1> DEFINE e == Event(wwork[w], to, maps)
           from == <<"work", w>>
           into == <<"event", w>>
<1>1. /\ events' = [events EXCEPT ![w] = Append(@, e)]
      /\ UNCHANGED <<inbox, uncommitted, crashes, place, work>> /\ e.msg = wwork[w]
  BY DEF Enqueued, Event, kafkaVars, backendVars
<1> HIDE DEF e
<1>2. /\ lanes[from] # <<>> /\ Head(lanes[from]) = wwork[w] /\ Tail(lanes[from]) = <<>>
      /\ wwork[w] \in Envelope
  BY WorldWorks
<1>3. /\ events'[w] = Append(events[w], e)
      /\ \A v \in Worlds : v # w => events'[v] = events[v] /\ wplace'[v] = wplace[v]
      /\ wplace'[w] = "idle"
  BY <1>1 DEF Routed, WorldsRouted
<1>4. lanes'[from] = <<>>
  <2>1. lanes'[from] = IF wplace'[w] = "handling" THEN <<wwork'[w]>> ELSE <<>>
    BY LanesAfter, Zenon DEF LanesShow
  <2>2. QED
    BY <1>3, <2>1
<1>5. lanes'[into] = Append(lanes[into], wwork[w])
  <2>1. /\ lanes[into] = [k \in DOMAIN events[w] |-> events[w][k].msg]
        /\ lanes'[into] = [k \in DOMAIN events'[w] |-> events'[w][k].msg]
    BY LanesAre, LanesAfter, Zenon DEF LanesShow
  <2>2. events[w] \in Seq(Awaited)
    BY EventsTyped
  <2>3. /\ Len(events[w]) \in Nat /\ DOMAIN events[w] = 1 .. Len(events[w])
        /\ DOMAIN events'[w] = 1 .. Len(events[w]) + 1
        /\ \A k \in 1 .. Len(events[w]) : events'[w][k] = events[w][k]
        /\ events'[w][Len(events[w]) + 1] = e
    BY <1>3, <2>2
  <2>4. [k \in DOMAIN events[w] |-> events[w][k].msg] \in Seq(Envelope)
    BY EventsTyped
  <2> DEFINE c == Len(events[w])
             f == [k \in 1 .. c |-> events[w][k].msg]
  <2>5. lanes[into] = f /\ f \in Seq(Envelope) /\ c \in Nat
    BY <2>1, <2>3, <2>4
  <2>6. lanes'[into] = [k \in 1 .. c + 1 |-> IF k = c + 1 THEN wwork[w] ELSE events[w][k].msg]
    BY <1>1, <2>1, <2>3
  <2>7. Append(f, wwork[w]) = [k \in 1 .. c + 1 |-> IF k = c + 1 THEN wwork[w] ELSE events[w][k].msg]
    BY <2>5
  <2>8. QED
    BY <2>5, <2>6, <2>7
<1>6. w \in Servers
  BY ServersApart
<1>7. from \in Lanes /\ into \in Lanes /\ from # into /\ from[1] = "work" /\ from[2] = w
  <2>1. from \in Lanes /\ into \in Lanes
    BY <1>6, AreLanes
  <2>2. from[1] = "work" /\ from[2] = w /\ into[1] = "event"
    OBVIOUS
  <2>3. QED
    BY <2>1, <2>2
<1>8. ASSUME NEW l \in Lanes \ {from, into}
      PROVE  lanes'[l] = lanes[l]
  <2>1. PICK t \in Servers : \/ l = <<"queue", t>> \/ l = <<"answer", t>> \/ l = <<"taken", t>>
                             \/ l = <<"work", t>> \/ l = <<"event", t>>
    BY LaneOf
  <2>2. CASE l = <<"queue", t>> \/ l = <<"answer", t>> \/ l = <<"taken", t>>
    BY <1>1, <2>2, LanesStill
  <2>3. CASE l = <<"work", t>> \/ l = <<"event", t>>
    <3>1. t # w
      BY <2>3
    <3>2. QED
      BY <1>1, <1>3, <2>3, <3>1, LanesStill
  <2>4. QED
    BY <2>1, <2>2, <2>3
<1>9. into = <<"event", from[2]>>
  BY <1>7
<1>10. Advances
  <2> HIDE DEF from, into
  <2>1. lanes'[from] = Tail(lanes[from])
    BY <1>2, <1>4
  <2>2. QED
    BY <1>2, <1>5, <1>7, <1>8, <1>9, <2>1 DEF Advances
<1>11. QED
  BY <1>1, <1>10

\* It answers, at the gateway or at nobody.
LEMMA WorldAnswerLanes ==
    ASSUME Routed, NEW w \in Worlds, wplace[w] = "handling", NEW kind \in AnswerKinds,
           NEW u \in Nat, NEW g \in Gateways \cup {ANY},
           Publish(ServerTopic(g), Answer(wwork[w], kind, w, u)),
           wplace' = [wplace EXCEPT ![w] = "idle"], UNCHANGED <<wwork, events, backendVars>>
    PROVE  (Advances \/ Silent) /\ crashes' = crashes
<1> DEFINE a == Answer(wwork[w], kind, w, u)
<1>1. a \in Envelope /\ a.number = wwork[w].number /\ a.origin = w
  <2>1. wwork[w] \in Envelope /\ w \in Servers
    BY WorldWorks, ServersApart
  <2>2. QED
    BY <2>1, AnswerIs
<1>2. Publish(ServerTopic(g), a)
  OBVIOUS
<1> HIDE DEF a
<1>3. RestStays(<<"work", w>>) /\ lanes'[<<"work", w>>] = <<>>
  BY WorldMoves DEF backendVars
<1>4. crashes' = crashes
  BY <1>2 DEF Publish
<1>5. CASE g \in Gateways
  BY <1>1, <1>2, <1>3, <1>4, <1>5, WorldWorks, Answered
<1>6. CASE g = ANY
  <2>1. \A t \in Servers : inbox'[t] = inbox[t] /\ uncommitted'[t] = uncommitted[t]
    BY <1>2, <1>6, ServersApart, PublishedTo
  <2>2. QED
    BY <1>3, <1>4, <2>1, SilentStep
<1>7. QED
  BY <1>5, <1>6

LEMMA TickAdvances ==
    ASSUME Routed, NEW w \in Worlds, WorldTick(w), UNCHANGED <<backendVars, asked>>
    PROVE  Advances /\ crashes' = crashes
<1> DEFINE e == Head(events[w])
           from == <<"event", w>>
<1>1. /\ events[w] # <<>> /\ events' = [events EXCEPT ![w] = Tail(@)]
      /\ UNCHANGED <<wplace, wwork>>
  BY DEF WorldTick
<1>2. PICK kind \in AnswerKinds : Publish(ServerTopic(e.gateway), Answer(e.msg, kind, w, 0))
  BY DEF WorldTick, AnswerKinds
<1>3. events[w] \in Seq(Awaited)
  BY EventsTyped
<1>4. e \in Awaited
  BY <1>1, <1>3
<1>5. e.msg \in Envelope /\ e.gateway \in Gateways
  BY <1>4 DEF Awaited
<1>6. /\ Len(events[w]) \in Nat \ {0} /\ DOMAIN events[w] = 1 .. Len(events[w])
      /\ e = events[w][1] /\ DOMAIN Tail(events[w]) = 1 .. Len(events[w]) - 1
      /\ \A k \in 1 .. Len(events[w]) - 1 : Tail(events[w])[k] = events[w][k + 1]
  BY <1>1, <1>3
<1> HIDE DEF e
<1> DEFINE a == Answer(e.msg, kind, w, 0)
           c == Len(events[w])
           f == [k \in 1 .. c |-> events[w][k].msg]
<1>7. a \in Envelope /\ a.number = e.msg.number /\ a.origin = w
  BY <1>5, AnswerIs, ServersApart
<1>8. events'[w] = Tail(events[w]) /\ \A v \in Worlds : v # w => events'[v] = events[v]
  BY <1>1 DEF Routed, WorldsRouted
<1>9. lanes[from] = f /\ f \in Seq(Envelope) /\ lanes'[from] = Tail(f) /\ f # <<>>
      /\ Head(f) = e.msg
  <2>1. /\ lanes[from] = [k \in DOMAIN events[w] |-> events[w][k].msg]
        /\ lanes'[from] = [k \in DOMAIN events'[w] |-> events'[w][k].msg]
    BY LanesAre, LanesAfter, Zenon DEF LanesShow
  <2>2. [k \in DOMAIN events[w] |-> events[w][k].msg] \in Seq(Envelope)
    BY EventsTyped
  <2>3. lanes[from] = f /\ f \in Seq(Envelope) /\ c \in Nat \ {0}
    BY <1>6, <2>1, <2>2
  <2>4. lanes'[from] = [k \in 1 .. c - 1 |-> events[w][k + 1].msg]
    BY <1>6, <1>8, <2>1
  <2>5. Tail(f) = [k \in 1 .. c - 1 |-> events[w][k + 1].msg] /\ f # <<>> /\ Head(f) = f[1]
    BY <2>3, SMTT(20)
  <2>6. f[1] = e.msg
    BY <1>6
  <2>7. QED
    BY <2>3, <2>4, <2>5, <2>6
<1> HIDE DEF f, a
<1>10. RestStays(from)
  <2>1. SUFFICES ASSUME NEW l \in Lanes \ {from}, l[1] \in {"work", "event"}
                 PROVE  lanes'[l] = lanes[l]
    BY DEF RestStays
  <2>2. PICK s \in Servers : l = <<"work", s>> \/ l = <<"event", s>>
    BY <2>1 DEF Lanes
  <2>3. CASE s = w
    <3>1. l = <<"work", w>>
      BY <2>2, <2>3
    <3>2. /\ lanes[l] = IF wplace[w] = "handling" THEN <<wwork[w]>> ELSE <<>>
          /\ lanes'[l] = IF wplace'[w] = "handling" THEN <<wwork'[w]>> ELSE <<>>
      BY <3>1, LanesAre, LanesAfter, Zenon DEF LanesShow
    <3>3. QED
      BY <1>1, <3>2
  <2>4. CASE s # w
    BY <1>1, <1>8, <2>2, <2>4, LanesStill DEF backendVars
  <2>5. QED
    BY <2>3, <2>4
<1>11. Publish(ServerTopic(e.gateway), a) /\ crashes' = crashes
  BY <1>2 DEF Publish, a
<1>12. QED
  BY <1>5, <1>7, <1>9, <1>10, <1>11, Answered

LEMMA WorldLanes ==
    ASSUME Routed, NEW w \in Worlds, WorldAction(w)
    PROVE  (Silent \/ Advances \/ Takes(w)) /\ crashes' = crashes
<1>1. UNCHANGED <<backendVars, asked>>
  BY DEF WorldAction
<1>2. CASE WorldGetCharacters(w) \/ WorldPlayCharacter(w) \/ WorldCreateCharacter(w)
  <2>1. /\ wplace[w] = "handling" /\ UNCHANGED wwork
        /\ wplace' = [wplace EXCEPT ![w] = "idle"]
    BY <1>2 DEF WorldGetCharacters, WorldPlayCharacter, WorldCreateCharacter, WorldHandles
  <2>2. /\ wwork[w].user \in Nat
        /\ wwork[w].gateway \in Gateways
        /\ wwork[w].kind = "create_character" => wwork[w].destination = wwork[w].gateway
        /\ wwork[w].kind # "create_character" => wwork[w].origin = wwork[w].gateway
        /\ wwork[w].kind = "play_character" => wwork[w].destination = ANY
    BY <2>1, WorkOfWorld DEF Routed, Numbered, Envelope
  <2>3. CASE WorldGetCharacters(w)
    <3>1. /\ wwork[w].kind = "get_characters" /\ UNCHANGED events
          /\ \/ \E kind \in AnswerKinds :
                   Publish(ServerTopic(wwork[w].origin), Answer(wwork[w], kind, w, wwork[w].user))
             \/ UNCHANGED kafkaVars
      BY <2>3 DEF WorldGetCharacters, WorldHandles, AnswerKinds
    <3>2. CASE UNCHANGED kafkaVars
      <4>1. RestStays(<<"work", w>>) /\ lanes'[<<"work", w>>] = <<>>
        BY <1>1, <2>1, <3>1, WorldMoves DEF backendVars
      <4>2. QED
        BY <3>2, <4>1, SilentStep DEF kafkaVars
    <3>3. QED
      BY <1>1, <2>1, <2>2, <3>1, <3>2, WorldAnswerLanes
  <2>4. ASSUME WorldError(w), wwork[w].kind \in {"play_character", "create_character"}
        PROVE  (Silent \/ Advances) /\ crashes' = crashes
    <3>1. /\ Publish(ServerTopic(wwork[w].destination), Answer(wwork[w], "error_response", w, 0))
          /\ UNCHANGED events
      BY <2>4 DEF WorldError
    <3>2. wwork[w].destination \in Gateways \cup {ANY}
      BY <2>2, <2>4
    <3>3. QED
      BY <1>1, <2>1, <3>1, <3>2, WorldAnswerLanes DEF AnswerKinds
  <2>5. CASE WorldPlayCharacter(w)
    BY <1>1, <2>1, <2>4, <2>5, EnqueueAdvances DEF WorldPlayCharacter, WorldHandles
  <2>6. CASE WorldCreateCharacter(w)
    BY <1>1, <2>1, <2>4, <2>6, EnqueueAdvances DEF WorldCreateCharacter, WorldHandles
  <2>7. QED
    BY <1>2, <2>3, <2>5, <2>6
<1>3. QED
  BY <1>1, <1>2, WorldTakes, TickAdvances DEF WorldAction, WorldConsumerStep

-----------------------------------------------------------------------------
(* A crash, a commit, a request.                                           *)

LEMMA CrashRestarts ==
    ASSUME Routed, NEW s \in Backends \cup Worlds, Dies(s)
    PROVE  Restarts(s) /\ crashes' = crashes + 1
<1> DEFINE q == <<"queue", s>>
           u == <<"taken", s>>
<1>1. /\ s \in Servers \ Gateways
      /\ lanes[q] = inbox[s] /\ lanes[u] = uncommitted[s]
      /\ lanes'[q] = inbox'[s] /\ lanes'[u] = uncommitted'[s]
  BY ServersApart, LanesAre, LanesAfter DEF LanesShow
<1>2. Redeliver(s)
  BY DEF Dies, BackendCrash, WorldCrash
<1>3. /\ inbox'[s] = uncommitted[s] \o inbox[s] /\ uncommitted'[s] = <<>>
      /\ \A t \in Servers \ {s} : inbox'[t] = inbox[t] /\ uncommitted'[t] = uncommitted[t]
      /\ crashes' = crashes + 1
  BY <1>1, <1>2 DEF Redeliver, Routed, QueuesRouted
<1>4. /\ \A b \in Backends : b # s => place'[b] = place[b] /\ work'[b] = work[b]
      /\ \A w \in Worlds : w # s => wplace'[w] = wplace[w] /\ events'[w] = events[w]
                                                          /\ wwork'[w] = wwork[w]
      /\ s \in Backends => place'[s] = "idle"
      /\ s \in Worlds => wplace'[s] = "idle" /\ events'[s] = <<>>
  <2>1. CASE s \in Backends
    BY <2>1, ServersApart
       DEF Dies, BackendCrash, WorldCrash, Goto, worldVars, Routed, BackendsRouted
  <2>2. CASE s \in Worlds
    BY <2>2, ServersApart DEF Dies, BackendCrash, WorldCrash, backendVars, Routed, WorldsRouted
  <2>3. QED
    BY <2>1, <2>2
<1>5. ASSUME NEW l \in Lanes \ {q, u}
      PROVE  lanes'[l] \in {<<>>, lanes[l]}
  <2>1. PICK t \in Servers : \/ l = <<"queue", t>> \/ l = <<"answer", t>> \/ l = <<"taken", t>>
                             \/ l = <<"work", t>> \/ l = <<"event", t>>
    BY LaneOf
  <2>2. CASE t # s
    BY <1>3, <1>4, <2>1, <2>2, LanesStill
  <2>3. CASE t = s
    <3>1. l = <<"answer", s>> \/ l = <<"work", s>> \/ l = <<"event", s>>
      BY <2>1, <2>3
    <3>2. lanes'[<<"answer", s>>] = <<>>
      BY <1>1, LanesAfter DEF LanesShow
    <3>3. CASE s \in Backends
      <4>1. /\ lanes'[<<"work", s>>] = IF place'[s] # "idle" THEN <<work'[s]>> ELSE <<>>
            /\ lanes'[<<"event", s>>] = <<>>
        BY <3>3, LanesAfter, Zenon DEF LanesShow
      <4>2. QED
        BY <1>4, <3>1, <3>2, <3>3, <4>1
    <3>4. CASE s \in Worlds
      <4>1. /\ lanes'[<<"work", s>>] = IF wplace'[s] = "handling" THEN <<wwork'[s]>> ELSE <<>>
            /\ lanes'[<<"event", s>>] = [k \in DOMAIN events'[s] |-> events'[s][k].msg]
        BY <3>4, LanesAfter, Zenon DEF LanesShow
      <4>2. lanes'[<<"event", s>>] = <<>>
        BY <1>4, <3>4, <4>1
      <4>3. QED
        BY <1>4, <3>1, <3>2, <3>4, <4>1, <4>2
    <3>5. QED
      BY <3>3, <3>4
  <2>4. QED
    BY <2>2, <2>3
<1>6. lanes'[q] = lanes[u] \o lanes[q] /\ lanes'[u] = <<>>
  BY <1>1, <1>3
<1> HIDE DEF q, u
<1>7. QED
  BY <1>3, <1>5, <1>6 DEF Restarts, q, u

LEMMA CommitSilent ==
    ASSUME Routed, NEW s \in Backends \cup Worlds, CommitOffsets(s),
           UNCHANGED <<backendVars, worldVars, asked>>
    PROVE  Silent /\ crashes' = crashes
<1>1. /\ s \in Servers /\ inbox' = inbox /\ crashes' = crashes
      /\ \A t \in Servers : uncommitted'[t] = IF t = s THEN <<>> ELSE uncommitted[t]
  BY ServersApart DEF CommitOffsets, Routed, QueuesRouted
<1>2. UNCHANGED <<place, work, wplace, wwork, events>>
  BY DEF backendVars, worldVars
<1>3. ASSUME NEW l \in Lanes
      PROVE  lanes'[l] \in {<<>>, lanes[l]}
  <2>1. PICK t \in Servers : \/ l = <<"queue", t>> \/ l = <<"answer", t>> \/ l = <<"taken", t>>
                             \/ l = <<"work", t>> \/ l = <<"event", t>>
    BY LaneOf
  <2>2. CASE l = <<"taken", t>>
    <3>1. t = s => lanes'[l] = <<>>
      BY <1>1, <2>2, LanesAfter DEF LanesShow
    <3>2. QED
      BY <1>1, <2>2, <3>1, LanesStill
  <2>3. CASE l # <<"taken", t>>
    BY <1>1, <1>2, <2>1, <2>3, LanesStill
  <2>4. QED
    BY <2>2, <2>3
<1>4. QED
  BY <1>1, <1>3 DEF Silent

LEMMA StutterSilent ==
    ASSUME UNCHANGED vars
    PROVE  Silent /\ crashes' = crashes
<1>1. UNCHANGED <<inbox, uncommitted, place, work, wplace, wwork, events, crashes>>
  BY DEF vars, kafkaVars, backendVars, worldVars
<1>2. ASSUME NEW l \in Lanes
      PROVE  lanes'[l] = lanes[l]
  <2>1. PICK t \in Servers : \/ l = <<"queue", t>> \/ l = <<"answer", t>> \/ l = <<"taken", t>>
                             \/ l = <<"work", t>> \/ l = <<"event", t>>
    BY LaneOf
  <2>2. QED
    BY <1>1, <2>1, LanesStill
<1>3. QED
  BY <1>1, <1>2 DEF Silent

\* A request is put into queues, under a number of its own: one queue, or that of every world.
Enters(n) ==
    \E S \in SUBSET (Backends \cup Worlds) : \E m \in Envelope :
        /\ m.number = n
        /\ asked'[n] # "get_characters" => \A s, t \in S : s = t
        /\ \A l \in Lanes :
              lanes'[l] = IF l[1] = "queue" /\ l[2] \in S THEN Append(lanes[l], m) ELSE lanes[l]

LEMMA RequestEnters ==
    ASSUME Routed, NEW kind \in RequestKinds, NEW g \in Gateways, NEW c \in Clients,
           NEW u \in Nat, NEW name \in AnyName, NEW topic,
           \/ kind \in {"login", "register", "create_character"} /\ topic = BackendMessages
           \/ kind = "get_characters" /\ topic = WorldMessages
           \/ kind = "play_character" /\ \E w \in Worlds : topic = ServerTopic(w),
           Request(kind, g, c, u, name, topic)
    PROVE  Enters(Len(asked) + 1) /\ asked' = Append(asked, kind) /\ crashes' = crashes
<1> DEFINE m == [kind |-> kind, number |-> Len(asked) + 1, gateway |-> g,
                 client |-> c, origin |-> g, destination |-> ANY, user |-> u, name |-> name]
<1>1. /\ asked' = Append(asked, kind) /\ Publish(topic, m)
      /\ UNCHANGED <<place, work, wplace, wwork, events>>
  BY DEF Request, backendVars, worldVars
<1>2. asked \in Seq(RequestKinds) /\ Len(asked) \in Nat
  BY DEF Routed, QueuesRouted
<1>3. m.number = Len(asked) + 1 /\ m \in Envelope
  <2> DEFINE n == Len(asked) + 1
  <2>1. n \in Nat /\ g \in Servers
    BY <1>2, ServersApart
  <2> HIDE DEF n
  <2>2. [kind |-> kind, number |-> n, gateway |-> g, client |-> c, origin |-> g,
         destination |-> ANY, user |-> u, name |-> name] \in Envelope
    BY <2>1 DEF Envelope
  <2>3. QED
    BY <2>2 DEF n
<1> HIDE DEF m
<1>4. PICK readers \in topic :
          inbox' = [s \in Servers |-> IF s \in readers THEN Append(inbox[s], m) ELSE inbox[s]]
  BY <1>1 DEF Publish
<1>5. uncommitted' = uncommitted /\ crashes' = crashes
  BY <1>1 DEF Publish
<1>6. /\ readers \subseteq Backends \cup Worlds
      /\ kind # "get_characters" => \A s, t \in readers : s = t
  <2>1. CASE kind \in {"login", "register", "create_character"} /\ topic = BackendMessages
    BY <1>4, <2>1 DEF BackendMessages
  <2>2. CASE kind = "get_characters" /\ topic = WorldMessages
    BY <1>4, <2>2 DEF WorldMessages
  <2>3. CASE kind = "play_character" /\ \E w \in Worlds : topic = ServerTopic(w)
    BY <1>4, <2>3, ServersApart DEF ServerTopic
  <2>4. QED
    BY <2>1, <2>2, <2>3
<1>7. asked'[Len(asked) + 1] = kind
  BY <1>1, <1>2
<1>8. ASSUME NEW l \in Lanes
      PROVE  lanes'[l] = IF l[1] = "queue" /\ l[2] \in readers THEN Append(lanes[l], m)
                         ELSE lanes[l]
  <2>1. PICK t \in Servers : \/ l = <<"queue", t>> \/ l = <<"answer", t>> \/ l = <<"taken", t>>
                             \/ l = <<"work", t>> \/ l = <<"event", t>>
    BY LaneOf
  <2>2. CASE l = <<"queue", t>>
    <3>1. l[1] = "queue" /\ l[2] = t
      BY <2>2
    <3>2. CASE t \in readers
      <4>1. t \in Servers \ Gateways
        BY <1>6, <3>2, ServersApart
      <4>2. lanes[l] = inbox[t] /\ lanes'[l] = inbox'[t]
        BY <2>2, <4>1, LanesAre, LanesAfter DEF LanesShow
      <4>3. inbox'[t] = Append(inbox[t], m)
        BY <1>4, <3>2
      <4>4. QED
        BY <3>1, <3>2, <4>2, <4>3
    <3>3. CASE t \notin readers
      BY <1>4, <2>2, <3>1, <3>3, LanesStill
    <3>4. QED
      BY <3>2, <3>3
  <2>3. CASE l = <<"answer", t>>
    <3>1. l[1] # "queue"
      BY <2>3
    <3>2. CASE t \in readers
      <4>1. t \in Servers \ Gateways
        BY <1>6, <3>2, ServersApart
      <4>2. QED
        BY <2>3, <3>1, <4>1, LanesAre, LanesAfter DEF LanesShow
    <3>3. CASE t \notin readers
      BY <1>4, <2>3, <3>1, <3>3, LanesStill
    <3>4. QED
      BY <3>2, <3>3
  <2>4. CASE l = <<"taken", t>> \/ l = <<"work", t>> \/ l = <<"event", t>>
    <3>1. l[1] # "queue"
      BY <2>4
    <3>2. QED
      BY <1>1, <1>5, <2>4, <3>1, LanesStill
  <2>5. QED
    BY <2>1, <2>2, <2>3, <2>4
<1>9. readers \in SUBSET (Backends \cup Worlds)
  BY <1>6
<1>10. Enters(Len(asked) + 1)
  <2> DEFINE n == Len(asked) + 1
  <2>1. m.number = n /\ asked'[n] = kind
    BY <1>3, <1>7
  <2> HIDE DEF n
  <2>2. Enters(n)
    BY <1>3, <1>6, <1>8, <1>9, <2>1 DEF Enters
  <2>3. QED
    BY <2>2 DEF n
<1>11. QED
  BY <1>1, <1>5, <1>10

LEMMA GatewayEnters ==
    ASSUME Routed, NEW g \in Gateways, NEW c \in Clients, GatewayRequest(g, c)
    PROVE  /\ Enters(Len(asked) + 1) /\ crashes' = crashes
           /\ \E kind \in RequestKinds : asked' = Append(asked, kind)
<1>1. ASSUME NEW k \in {"login", "register"}, NEW n \in UserNames,
             Request(k, g, c, 0, n, BackendMessages)
      PROVE  /\ Enters(Len(asked) + 1) /\ crashes' = crashes
             /\ \E kind \in RequestKinds : asked' = Append(asked, kind)
  BY <1>1, RequestEnters DEF RequestKinds, AnyName
<1>2. ASSUME NEW u \in ToldIds(g, c), NEW n \in CharacterNames,
             Request("create_character", g, c, u, n, BackendMessages)
      PROVE  /\ Enters(Len(asked) + 1) /\ crashes' = crashes
             /\ \E kind \in RequestKinds : asked' = Append(asked, kind)
  BY <1>2, ToldTyped, RequestEnters DEF RequestKinds, AnyName
<1>3. ASSUME NEW u \in ToldIds(g, c), NEW n \in CharacterNames, NEW w \in Worlds,
             Request("play_character", g, c, u, n, ServerTopic(w))
      PROVE  /\ Enters(Len(asked) + 1) /\ crashes' = crashes
             /\ \E kind \in RequestKinds : asked' = Append(asked, kind)
  BY <1>3, ToldTyped, RequestEnters DEF RequestKinds, AnyName
<1>4. ASSUME NEW u \in ToldIds(g, c),
             Request("get_characters", g, c, u, "", WorldMessages)
      PROVE  /\ Enters(Len(asked) + 1) /\ crashes' = crashes
             /\ \E kind \in RequestKinds : asked' = Append(asked, kind)
  BY <1>4, ToldTyped, RequestEnters DEF RequestKinds, AnyName
<1>5. QED
  BY <1>1, <1>2, <1>3, <1>4 DEF GatewayRequest

-----------------------------------------------------------------------------
(* Which stages and servers may be counted together: what is in F now was   *)
(* in F before, and of a message that is taken one trace is in F at most.  *)
Closed(F) ==
    \A s \in Servers :
        /\ <<"answer", s>> \in F => <<"work", s>> \in F /\ <<"event", s>> \in F
        /\ <<"event", s>> \in F => <<"work", s>> \in F
        /\ <<"work", s>> \in F \/ <<"taken", s>> \in F => <<"queue", s>> \in F
        /\ ~ (<<"work", s>> \in F /\ <<"taken", s>> \in F)

ClosedFromAfar(F) ==
    <<"queue", StartingWorld>> \in F => \A b \in Backends : <<"work", b>> \in F

LEMMA SilentKeeps ==
    ASSUME Silent, NEW n, NEW F, NEW b \in Nat, Few(Tokens(lanes, n, F), b)
    PROVE  Few(Tokens(lanes', n, F), b)
<1>1. \A l \in Lanes : lanes'[l] = lanes[l] \/ lanes'[l] = <<>> \/ (l[1] # "answer" /\ l \notin F)
  BY DEF Silent
<1>2. QED
  BY <1>1, Dropped

LEMMA AdvanceKeeps ==
    ASSUME Routed, Routed', Advances, NEW n, NEW F, NEW b \in Nat, Few(Tokens(lanes, n, F), b),
           Closed(F), asked[n] = "create_character" => ClosedFromAfar(F)
    PROVE  Few(Tokens(lanes', n, F), b)
<1>1. PICK from \in Lanes : \E to \in Lanes : \E m \in Envelope :
        /\ from # to /\ lanes[from] # <<>> /\ lanes'[from] = Tail(lanes[from])
        /\ lanes'[to] \in {lanes[to], Append(lanes[to], m)}
        /\ m.number = Head(lanes[from]).number
        /\ \A l \in Lanes \ {from, to} : lanes'[l] = lanes[l]
        /\ \/ /\ from[1] \in {"work", "event"} /\ from[2] \in Backends \cup Worlds
              /\ to[1] = "answer" /\ m.origin = from[2]
           \/ from[1] = "work" /\ to = <<"event", from[2]>>
           \/ /\ from[1] = "work" /\ from[2] \in Backends
              /\ to = <<"queue", StartingWorld>> /\ asked[m.number] = "create_character"
  BY DEF Advances
<1>2. PICK to \in Lanes : \E m \in Envelope :
        /\ from # to /\ lanes[from] # <<>> /\ lanes'[from] = Tail(lanes[from])
        /\ lanes'[to] \in {lanes[to], Append(lanes[to], m)}
        /\ m.number = Head(lanes[from]).number
        /\ \A l \in Lanes \ {from, to} : lanes'[l] = lanes[l]
        /\ \/ /\ from[1] \in {"work", "event"} /\ from[2] \in Backends \cup Worlds
              /\ to[1] = "answer" /\ m.origin = from[2]
           \/ from[1] = "work" /\ to = <<"event", from[2]>>
           \/ /\ from[1] = "work" /\ from[2] \in Backends
              /\ to = <<"queue", StartingWorld>> /\ asked[m.number] = "create_character"
  BY <1>1
<1>3. PICK m \in Envelope :
        /\ from # to /\ lanes[from] # <<>> /\ lanes'[from] = Tail(lanes[from])
        /\ lanes'[to] \in {lanes[to], Append(lanes[to], m)}
        /\ m.number = Head(lanes[from]).number
        /\ \A l \in Lanes \ {from, to} : lanes'[l] = lanes[l]
        /\ \/ /\ from[1] \in {"work", "event"} /\ from[2] \in Backends \cup Worlds
              /\ to[1] = "answer" /\ m.origin = from[2]
           \/ from[1] = "work" /\ to = <<"event", from[2]>>
           \/ /\ from[1] = "work" /\ from[2] \in Backends
              /\ to = <<"queue", StartingWorld>> /\ asked[m.number] = "create_character"
  BY <1>2
<1> DEFINE h == Head(lanes[from])
<1>4. from[2] \in Servers
  BY DEF Lanes
<1>5. ASSUME m.number = n, <<to[1], Holder(to, m)>> \in F
      PROVE  h.number = n /\ <<from[1], Holder(from, h)>> \in F
  <2>1. h.number = n
    BY <1>3, <1>5
  <2> HIDE DEF h
  <2>2. CASE from[1] \in {"work", "event"} /\ to[1] = "answer" /\ m.origin = from[2]
    <3>1. <<"answer", from[2]>> \in F
      BY <1>5, <2>2 DEF Holder
    <3>2. <<"work", from[2]>> \in F /\ <<"event", from[2]>> \in F
      BY <1>4, <3>1 DEF Closed
    <3>3. QED
      BY <2>1, <2>2, <3>2 DEF Holder
  <2>3. CASE from[1] = "work" /\ to = <<"event", from[2]>>
    <3>1. to[1] = "event" /\ to[2] = from[2]
      BY <2>3
    <3>2. <<"event", from[2]>> \in F
      BY <1>5, <3>1 DEF Holder
    <3>3. <<"work", from[2]>> \in F
      BY <1>4, <3>2 DEF Closed
    <3>4. QED
      BY <2>1, <2>3, <3>3 DEF Holder
  <2>4. CASE /\ from[1] = "work" /\ from[2] \in Backends
             /\ to = <<"queue", StartingWorld>> /\ asked[m.number] = "create_character"
    <3>1. to[1] = "queue" /\ to[2] = StartingWorld
      BY <2>4
    <3>2. <<"queue", StartingWorld>> \in F
      BY <1>5, <3>1 DEF Holder
    <3>3. <<"work", from[2]>> \in F
      BY <1>5, <2>4, <3>2 DEF ClosedFromAfar
    <3>4. QED
      BY <2>1, <2>4, <3>3 DEF Holder
  <2>5. QED
    BY <1>3, <2>2, <2>3, <2>4
<1>6. /\ lanes \in [Lanes -> Seq(Envelope)] /\ lanes' \in [Lanes -> Seq(Envelope)]
  BY LanesTyped, LanesTypedAfter
<1>7. /\ lanes'[to] \in {<<>>, lanes[to], Append(lanes[to], m)}
      /\ \A l \in Lanes \ {from, to} :
            lanes'[l] = lanes[l] \/ lanes'[l] = <<>> \/ (l[1] # "answer" /\ l \notin F)
  BY <1>3
<1>8. m.number = n /\ <<to[1], Holder(to, m)>> \in F =>
         /\ Head(lanes[from]).number = n
         /\ <<from[1], Holder(from, Head(lanes[from]))>> \in F
  BY <1>5
<1>9. from # to /\ lanes[from] # <<>> /\ lanes'[from] = Tail(lanes[from])
  BY <1>3
<1>10. Carries(lanes, lanes', n, F, from, to, m)
  BY <1>7, <1>8, <1>9 DEF Carries
<1>11. QED
  BY <1>6, <1>10, Carried

LEMMA TakesKeeps ==
    ASSUME Routed, Routed', NEW s \in Servers, Takes(s),
           NEW n, NEW F, NEW b \in Nat, Few(Tokens(lanes, n, F), b), Closed(F)
    PROVE  Few(Tokens(lanes', n, F), b)
<1> DEFINE q == <<"queue", s>>
           u == <<"taken", s>>
           v == <<"work", s>>
           h == Head(lanes[q])
<1>1. /\ lanes[q] # <<>> /\ lanes'[q] = Tail(lanes[q])
      /\ lanes[v] = <<>> /\ lanes'[v] \in {<<>>, <<h>>}
      /\ lanes'[u] \in {lanes[u], Append(lanes[u], h)}
      /\ \A l \in Lanes \ {q, u, v} : lanes'[l] = lanes[l]
  BY DEF Takes
<1>2. q \in Lanes /\ u \in Lanes /\ v \in Lanes /\ q # u /\ q # v /\ u # v
      /\ q[1] = "queue" /\ q[2] = s /\ u[1] = "taken" /\ u[2] = s /\ v[1] = "work" /\ v[2] = s
  BY AreLanes
<1>3. /\ u \in F \/ v \in F => q \in F
      /\ ~ (u \in F /\ v \in F)
  BY DEF Closed
<1>4. /\ lanes \in [Lanes -> Seq(Envelope)] /\ lanes' \in [Lanes -> Seq(Envelope)]
  BY LanesTyped, LanesTypedAfter
<1>5. Append(lanes[v], h) = <<h>>
  BY <1>1
<1>6. <<q[1], Holder(q, h)>> = q /\ <<u[1], Holder(u, h)>> = u /\ <<v[1], Holder(v, h)>> = v
  BY <1>2 DEF Holder
<1>a. lanes[q] # <<>> /\ lanes'[q] = Tail(lanes[q])
  BY <1>1
<1> HIDE DEF q, u, v
<1>7. CASE u \in F
  <2>1. \A l \in Lanes \ {q, u} :
            lanes'[l] = lanes[l] \/ lanes'[l] = <<>> \/ (l[1] # "answer" /\ l \notin F)
    BY <1>1, <1>2, <1>3, <1>7
  <2>2. lanes'[u] \in {<<>>, lanes[u], Append(lanes[u], h)}
    BY <1>1
  <2>3. h.number = n /\ <<u[1], Holder(u, h)>> \in F =>
              Head(lanes[q]).number = n /\ <<q[1], Holder(q, Head(lanes[q]))>> \in F
    BY <1>3, <1>6
  <2> HIDE DEF h
  <2>4. Carries(lanes, lanes', n, F, q, u, h)
    BY <1>a, <1>2, <2>1, <2>2, <2>3 DEF Carries
  <2>5. QED
    BY <1>2, <1>4, <2>4, Carried
<1>8. CASE u \notin F
  <2>1. \A l \in Lanes \ {q, v} :
            lanes'[l] = lanes[l] \/ lanes'[l] = <<>> \/ (l[1] # "answer" /\ l \notin F)
    BY <1>1, <1>2, <1>8
  <2>2. lanes'[v] \in {<<>>, lanes[v], Append(lanes[v], h)}
    BY <1>1, <1>5
  <2>3. h.number = n /\ <<v[1], Holder(v, h)>> \in F =>
              Head(lanes[q]).number = n /\ <<q[1], Holder(q, Head(lanes[q]))>> \in F
    BY <1>3, <1>6
  <2> HIDE DEF h
  <2>4. Carries(lanes, lanes', n, F, q, v, h)
    BY <1>a, <1>2, <2>1, <2>2, <2>3 DEF Carries
  <2>5. QED
    BY <1>2, <1>4, <2>4, Carried
<1>9. QED
  BY <1>7, <1>8

\* A crash adds what was taken and not committed, if that is not counted already.
LEMMA CrashKeeps ==
    ASSUME Routed, Routed', NEW s \in Servers, Restarts(s),
           NEW n, NEW F, NEW G, F \subseteq G, <<"taken", s>> \in G,
           NEW b \in Nat, Few(Tokens(lanes, n, G), b)
    PROVE  Few(Tokens(lanes', n, F), b)
<1>1. /\ lanes'[<<"queue", s>>] = lanes[<<"taken", s>>] \o lanes[<<"queue", s>>]
      /\ lanes'[<<"taken", s>>] = <<>>
      /\ \A l \in Lanes \ {<<"queue", s>>, <<"taken", s>>} : lanes'[l] \in {<<>>, lanes[l]}
  BY DEF Restarts
<1>2. /\ lanes \in [Lanes -> Seq(Envelope)] /\ lanes' \in [Lanes -> Seq(Envelope)]
  BY LanesTyped, LanesTypedAfter
<1>3. QED
  BY <1>1, <1>2, Redelivered, Zenon

LEMMA CrashAdds ==
    ASSUME Routed, Routed', NEW s \in Servers, Restarts(s), NEW n, NEW F,
           NEW a \in Nat, NEW b \in Nat,
           Few(Tokens(lanes, n, F), a), Few(Tokens(lanes, n, {<<"taken", s>>}), b)
    PROVE  Few(Tokens(lanes', n, F), a + b)
<1> DEFINE G == F \cup {<<"taken", s>>}
<1>1. Tokens(lanes, n, G) = Tokens(lanes, n, F) \cup Tokens(lanes, n, {<<"taken", s>>})
  BY TokensTogether
<1>2. Few(Tokens(lanes, n, F) \cup Tokens(lanes, n, {<<"taken", s>>}), a + b)
  BY FewTogether
<1>a. Few(Tokens(lanes, n, G), a + b)
  BY <1>1, <1>2, Zenon
<1>3. F \subseteq G /\ <<"taken", s>> \in G /\ a + b \in Nat
  OBVIOUS
<1> HIDE DEF G
<1>4. QED
  BY <1>a, <1>3, CrashKeeps, Zenon

LEMMA CrashElsewhere ==
    ASSUME NEW s \in Servers, Restarts(s), NEW n, NEW F, <<"queue", s>> \notin F,
           NEW b \in Nat, Few(Tokens(lanes, n, F), b)
    PROVE  Few(Tokens(lanes', n, F), b)
<1>1. ASSUME NEW l \in Lanes
      PROVE  lanes'[l] = lanes[l] \/ lanes'[l] = <<>> \/ (l[1] # "answer" /\ l \notin F)
  <2>1. CASE l = <<"queue", s>>
    BY <2>1
  <2>2. CASE l # <<"queue", s>>
    BY <2>2 DEF Restarts
  <2>3. QED
    BY <2>1, <2>2
<1>2. QED
  BY <1>1, Dropped

-----------------------------------------------------------------------------
LEMMA LanesNumbered ==
    ASSUME Routed, NEW l \in Lanes, NEW k \in DOMAIN lanes[l]
    PROVE  lanes[l][k].number \in DOMAIN asked
<1>1. PICK s \in Servers : \/ l = <<"queue", s>> \/ l = <<"answer", s>> \/ l = <<"taken", s>>
                           \/ l = <<"work", s>> \/ l = <<"event", s>>
  BY LaneOf
<1>2. \A m \in Right(s) : m.number \in DOMAIN asked
  BY DEF Right
<1>3. inbox[s] \in Seq(Right(s)) /\ uncommitted[s] \in Seq(Right(s))
  BY DEF Routed, QueuesRouted
<1>4. /\ \A j \in DOMAIN inbox[s] : inbox[s][j].number \in DOMAIN asked
      /\ \A j \in DOMAIN uncommitted[s] : uncommitted[s][j].number \in DOMAIN asked
  BY <1>2, <1>3
<1>5. CASE l = <<"queue", s>> \/ l = <<"answer", s>>
  <2>1. lanes[l] \in {<<>>, inbox[s]}
    <3>1. CASE s \in Gateways
      BY <1>5, <3>1, LanesAre DEF LanesShow
    <3>2. CASE s \notin Gateways
      BY <1>5, <3>2, LanesAre DEF LanesShow
    <3>3. QED
      BY <3>1, <3>2
  <2>2. QED
    BY <1>4, <2>1
<1>6. CASE l = <<"taken", s>>
  <2>1. lanes[l] = uncommitted[s]
    BY <1>6, LanesAre DEF LanesShow
  <2>2. QED
    BY <1>4, <2>1
<1>7. CASE l = <<"work", s>>
  <2>1. CASE s \in Backends
    <3>1. lanes[l] = IF place[s] # "idle" THEN <<work[s]>> ELSE <<>>
      BY <1>7, <2>1, LanesAre, Zenon DEF LanesShow
    <3>2. place[s] # "idle" => work[s].number \in DOMAIN asked
      BY <1>2, <2>1 DEF Routed, BackendsRouted
    <3>3. QED
      BY <3>1, <3>2
  <2>2. CASE s \in Worlds
    <3>1. lanes[l] = IF wplace[s] = "handling" THEN <<wwork[s]>> ELSE <<>>
      BY <1>7, <2>2, LanesAre, Zenon DEF LanesShow
    <3>2. wplace[s] = "handling" => wwork[s].number \in DOMAIN asked
      BY <1>2, <2>2 DEF Routed, WorldsRouted
    <3>3. QED
      BY <3>1, <3>2
  <2>3. CASE s \in Gateways
    <3>1. lanes[l] = <<>>
      BY <1>7, <2>3, LanesAre DEF LanesShow
    <3>2. QED
      BY <3>1
  <2>4. QED
    BY <2>1, <2>2, <2>3 DEF Servers
<1>8. CASE l = <<"event", s>>
  <2>1. CASE s \in Worlds
    <3>1. lanes[l] = [j \in DOMAIN events[s] |-> events[s][j].msg]
      BY <1>8, <2>1, LanesAre, Zenon DEF LanesShow
    <3>2. events[s] \in Seq(Awaited)
      BY <2>1, EventsTyped
    <3>3. k \in DOMAIN events[s] /\ lanes[l][k] = events[s][k].msg
      BY <3>1
    <3>4. events[s][k] \in Awaited
      BY <3>2, <3>3
    <3>5. QED
      BY <3>3, <3>4 DEF Awaited
  <2>2. CASE s \notin Worlds
    <3>1. lanes[l] = <<>>
      BY <1>8, <2>2, LanesAre DEF LanesShow, Servers
    <3>2. QED
      BY <3>1
  <2>3. QED
    BY <2>1, <2>2
<1>9. QED
  BY <1>1, <1>5, <1>6, <1>7, <1>8

\* Earlier requests are where they were.
LEMMA EntersKeeps ==
    ASSUME Routed, NEW n \in DOMAIN asked, Enters(Len(asked) + 1),
           NEW F, NEW b \in Nat, Few(Tokens(lanes, n, F), b)
    PROVE  Few(Tokens(lanes', n, F), b)
<1>1. asked \in Seq(RequestKinds)
  BY DEF Routed, QueuesRouted
<1>2. Len(asked) \in Nat /\ n \in 1 .. Len(asked)
  BY <1>1
<1>3. PICK S \in SUBSET (Backends \cup Worlds) : \E m \in Envelope :
        /\ m.number = Len(asked) + 1
        /\ \A l \in Lanes :
              lanes'[l] = IF l[1] = "queue" /\ l[2] \in S THEN Append(lanes[l], m) ELSE lanes[l]
  BY DEF Enters
<1>4. PICK m \in Envelope :
        /\ m.number = Len(asked) + 1
        /\ \A l \in Lanes :
              lanes'[l] = IF l[1] = "queue" /\ l[2] \in S THEN Append(lanes[l], m) ELSE lanes[l]
  BY <1>3
<1>5. m.number # n
  BY <1>2, <1>4
<1>6. lanes \in [Lanes -> Seq(Envelope)]
  BY LanesTyped
<1>7. Tokens(lanes', n, F) \subseteq Tokens(lanes, n, F)
  <2>1. SUFFICES ASSUME NEW t \in Tokens(lanes', n, F)
                 PROVE  t \in Tokens(lanes, n, F)
    OBVIOUS
  <2>2. PICK l \in Lanes : \E k \in DOMAIN lanes'[l] :
              /\ t = <<l, k>> /\ lanes'[l][k].number = n
              /\ <<l[1], Holder(l, lanes'[l][k])>> \in F
    BY TokenOf
  <2>3. PICK k \in DOMAIN lanes'[l] :
              /\ t = <<l, k>> /\ lanes'[l][k].number = n
              /\ <<l[1], Holder(l, lanes'[l][k])>> \in F
    BY <2>2
  <2>4. k \in DOMAIN lanes[l] /\ lanes[l][k] = lanes'[l][k]
    <3>1. CASE lanes'[l] = lanes[l]
      BY <3>1
    <3>2. CASE lanes'[l] = Append(lanes[l], m)
      <4>1. /\ Len(lanes[l]) \in Nat /\ DOMAIN lanes[l] = 1 .. Len(lanes[l])
            /\ DOMAIN Append(lanes[l], m) = 1 .. Len(lanes[l]) + 1
            /\ \A j \in DOMAIN lanes[l] : Append(lanes[l], m)[j] = lanes[l][j]
            /\ Append(lanes[l], m)[Len(lanes[l]) + 1] = m
        BY <1>6, QueueAppend
      <4>2. k # Len(lanes[l]) + 1
        BY <1>5, <2>3, <3>2, <4>1
      <4>3. k \in 1 .. Len(lanes[l])
        BY <2>3, <3>2, <4>1, <4>2
      <4>4. QED
        BY <3>2, <4>1, <4>3
    <3>3. QED
      BY <1>4, <3>1, <3>2
  <2>5. QED
    BY <2>3, <2>4, TokenIn
<1>8. QED
  BY <1>7, FewWithin

\* The new request is in one queue of those that F counts.
LEMMA EntersOnce ==
    ASSUME Routed, Routed', NEW n, n = Len(asked) + 1, Enters(n), NEW F,
           \/ asked'[n] # "get_characters"
           \/ \A s, t \in Servers : <<"queue", s>> \in F /\ <<"queue", t>> \in F => s = t
    PROVE  Few(Tokens(lanes', n, F), 1)
<1>1. asked \in Seq(RequestKinds)
  BY DEF Routed, QueuesRouted
<1>2. n \notin DOMAIN asked
  BY <1>1
<1>3. PICK S \in SUBSET (Backends \cup Worlds) : \E m \in Envelope :
        /\ m.number = n
        /\ asked'[n] # "get_characters" => \A s, t \in S : s = t
        /\ \A l \in Lanes :
              lanes'[l] = IF l[1] = "queue" /\ l[2] \in S THEN Append(lanes[l], m) ELSE lanes[l]
  BY DEF Enters
<1>4. PICK m \in Envelope :
        /\ m.number = n
        /\ asked'[n] # "get_characters" => \A s, t \in S : s = t
        /\ \A l \in Lanes :
              lanes'[l] = IF l[1] = "queue" /\ l[2] \in S THEN Append(lanes[l], m) ELSE lanes[l]
  BY <1>3
<1>5. lanes \in [Lanes -> Seq(Envelope)]
  BY LanesTyped
<1>6. ASSUME NEW t \in Tokens(lanes', n, F)
      PROVE  \E s \in S : /\ <<"queue", s>> \in F
                          /\ t = <<<<"queue", s>>, Len(lanes[<<"queue", s>>]) + 1>>
  <2>1. PICK l \in Lanes : \E k \in DOMAIN lanes'[l] :
              /\ t = <<l, k>> /\ lanes'[l][k].number = n
              /\ <<l[1], Holder(l, lanes'[l][k])>> \in F
    BY TokenOf
  <2>2. PICK k \in DOMAIN lanes'[l] :
              /\ t = <<l, k>> /\ lanes'[l][k].number = n
              /\ <<l[1], Holder(l, lanes'[l][k])>> \in F
    BY <2>1
  <2>3. \A j \in DOMAIN lanes[l] : lanes[l][j].number # n
    BY <1>2, LanesNumbered
  <2>4. lanes'[l] # lanes[l]
    BY <2>2, <2>3
  <2>5. l[1] = "queue" /\ l[2] \in S /\ lanes'[l] = Append(lanes[l], m)
    BY <1>4, <2>4
  <2>6. /\ Len(lanes[l]) \in Nat /\ DOMAIN lanes[l] = 1 .. Len(lanes[l])
        /\ DOMAIN Append(lanes[l], m) = 1 .. Len(lanes[l]) + 1
        /\ \A j \in DOMAIN lanes[l] : Append(lanes[l], m)[j] = lanes[l][j]
    BY <1>5, QueueAppend
  <2>7. k \notin 1 .. Len(lanes[l])
    BY <2>2, <2>3, <2>5, <2>6
  <2>8. k = Len(lanes[l]) + 1
    BY <2>2, <2>5, <2>6, <2>7
  <2>9. l = <<"queue", l[2]>>
    BY <2>5 DEF Lanes
  <2>10. l \in F
    BY <2>2, <2>5, <2>9 DEF Holder
  <2>11. QED
    BY <2>2, <2>5, <2>8, <2>9, <2>10
<1>7. \A s, t \in S : <<"queue", s>> \in F /\ <<"queue", t>> \in F => s = t
  BY <1>4 DEF Servers
<1>8. \A x, y \in Tokens(lanes', n, F) : x = y
  BY <1>6, <1>7
<1>9. CASE Tokens(lanes', n, F) = {}
  BY <1>9, FewNone
<1>10. CASE Tokens(lanes', n, F) # {}
  <2>1. PICK x : x \in Tokens(lanes', n, F)
    BY <1>10
  <2>2. Tokens(lanes', n, F) = {x}
    BY <1>8, <2>1
  <2>3. QED
    BY <2>2, FewOne
<1>11. QED
  BY <1>9, <1>10

-----------------------------------------------------------------------------
(* The invariant.                                                          *)

LEMMA GroupsClosed ==
    ASSUME NEW D, D \subseteq Backends \cup Worlds
    PROVE  /\ Closed(Deliveries(D)) /\ Closed(Outcomes(D)) /\ Closed(Forwards)
<1>1. Closed(Deliveries(D))
  BY DEF Closed, Deliveries
<1>2. Closed(Outcomes(D))
  BY DEF Closed, Outcomes
<1>3. Closed(Forwards)
  BY ServersApart DEF Closed, Forwards
<1>4. QED
  BY <1>1, <1>2, <1>3

LEMMA AfarClosed ==
    ASSUME Routed
    PROVE  /\ ClosedFromAfar(Deliveries(Backends)) /\ ClosedFromAfar(Forwards)
           /\ ClosedFromAfar(Outcomes(Backends \cup Worlds))
<1>1. StartingWorld \notin Backends
  BY WorldOfSettings, ServersApart
<1>2. ClosedFromAfar(Deliveries(Backends))
  BY <1>1 DEF ClosedFromAfar, Deliveries
<1>3. ClosedFromAfar(Forwards)
  BY DEF ClosedFromAfar, Forwards
<1>4. ClosedFromAfar(Outcomes(Backends \cup Worlds))
  BY DEF ClosedFromAfar, Outcomes
<1>5. QED
  BY <1>2, <1>3, <1>4

GoesOn == Silent \/ Advances \/ \E s \in Servers : Takes(s)

LEMMA GoingOnKeeps ==
    ASSUME Routed, Routed', GoesOn, NEW n, NEW F, NEW b \in Nat, Few(Tokens(lanes, n, F), b),
           Closed(F), asked[n] = "create_character" => ClosedFromAfar(F)
    PROVE  Few(Tokens(lanes', n, F), b)
<1>1. CASE Silent
  BY <1>1, SilentKeeps
<1>2. CASE Advances
  BY <1>2, AdvanceKeeps
<1>3. ASSUME NEW s \in Servers, Takes(s)
      PROVE  Few(Tokens(lanes', n, F), b)
  BY <1>3, TakesKeeps
<1>4. QED
  BY <1>1, <1>2, <1>3 DEF GoesOn

LEMMA Sums ==
    /\ \A c \in Nat : Sum1To(c) \in Nat /\ Sum1To(c + 1) = Sum1To(c) + (c + 1)
    /\ Sum1To(0) = 0
<1>1. ASSUME NEW c \in Nat
      PROVE  (c + 1) * ((c + 1) + 1) = c * (c + 1) + 2 * (c + 1)
  OBVIOUS
<1>2. ASSUME NEW c \in Nat
      PROVE  c * (c + 1) \in Nat
  OBVIOUS
<1>3. ASSUME NEW x \in Nat, NEW y \in Nat
      PROVE  (x + 2 * y) \div 2 = (x \div 2) + y /\ x \div 2 \in Nat
  OBVIOUS
<1>4. ASSUME NEW c \in Nat
      PROVE  Sum1To(c) \in Nat /\ Sum1To(c + 1) = Sum1To(c) + (c + 1)
  <2>1. (c * (c + 1) + 2 * (c + 1)) \div 2 = ((c * (c + 1)) \div 2) + (c + 1)
        /\ (c * (c + 1)) \div 2 \in Nat
    BY <1>2, <1>3
  <2>2. QED
    BY <1>1, <2>1 DEF Sum1To
<1>5. Sum1To(0) = 0
  BY DEF Sum1To
<1>6. QED
  BY <1>4, <1>5

LEMMA GoingOnCounts ==
    ASSUME Routed, Routed', GoesOn, crashes \in Nat, NEW n, Bounded(lanes, crashes, asked[n], n)
    PROVE  Bounded(lanes', crashes, asked[n], n)
<1>1. CASE asked[n] = "create_character"
  <2>1. /\ Few(Tokens(lanes, n, Deliveries(Backends)), 1)
        /\ Few(Tokens(lanes, n, Forwards), 1 + crashes)
        /\ Few(Tokens(lanes, n, Outcomes(Backends \cup Worlds)), 1 + Sum1To(crashes))
    BY <1>1 DEF Bounded, AnsweredFromAfar
  <2>2. 1 \in Nat /\ 1 + crashes \in Nat /\ 1 + Sum1To(crashes) \in Nat
    BY Sums
  <2>3. Few(Tokens(lanes', n, Deliveries(Backends)), 1)
    BY <2>1, <2>2, GoingOnKeeps, AfarClosed, GroupsClosed
  <2>4. Few(Tokens(lanes', n, Forwards), 1 + crashes)
    BY <2>1, <2>2, GoingOnKeeps, AfarClosed, GroupsClosed
  <2>5. Few(Tokens(lanes', n, Outcomes(Backends \cup Worlds)), 1 + Sum1To(crashes))
    BY <2>1, <2>2, GoingOnKeeps, AfarClosed, GroupsClosed
  <2>6. QED
    BY <1>1, <2>3, <2>4, <2>5 DEF Bounded, AnsweredFromAfar
<1>2. CASE asked[n] # "create_character"
  <2>1. ASSUME NEW D \in Groups(asked[n])
        PROVE  /\ Few(Tokens(lanes', n, Deliveries(D)), 1)
               /\ Few(Tokens(lanes', n, Outcomes(D)), 1 + crashes)
    <3>1. /\ Few(Tokens(lanes, n, Deliveries(D)), 1)
          /\ Few(Tokens(lanes, n, Outcomes(D)), 1 + crashes)
      BY <1>2 DEF Bounded, AnsweredDirectly
    <3>2. Closed(Deliveries(D)) /\ Closed(Outcomes(D))
      BY GroupsClosed DEF Groups
    <3>3. 1 \in Nat /\ 1 + crashes \in Nat
      OBVIOUS
    <3>4. Few(Tokens(lanes', n, Deliveries(D)), 1)
      BY <1>2, <3>1, <3>2, <3>3, GoingOnKeeps
    <3>5. Few(Tokens(lanes', n, Outcomes(D)), 1 + crashes)
      BY <1>2, <3>1, <3>2, <3>3, GoingOnKeeps
    <3>6. QED
      BY <3>4, <3>5
  <2>2. QED
    BY <1>2, <2>1 DEF Bounded, AnsweredDirectly
<1>3. QED
  BY <1>1, <1>2

\* The i-th crash may deliver once more what waited for its offset: once, or i times from afar.
LEMMA CrashCounts ==
    ASSUME Routed, Routed', NEW s \in Backends \cup Worlds, Restarts(s), crashes \in Nat,
           NEW n, Bounded(lanes, crashes, asked[n], n)
    PROVE  Bounded(lanes', crashes + 1, asked[n], n)
<1> DEFINE u == {<<"taken", s>>}
<1>a. s \in Servers
  BY ServersApart
<1>b. 1 \in Nat /\ 1 + crashes \in Nat /\ 1 + Sum1To(crashes) \in Nat
      /\ (1 + crashes) + 1 = 1 + (crashes + 1)
      /\ (1 + Sum1To(crashes)) + (1 + crashes) = 1 + Sum1To(crashes + 1)
      /\ (1 + Sum1To(crashes)) + 1 <= 1 + Sum1To(crashes + 1)
      /\ (1 + Sum1To(crashes)) + 1 \in Nat /\ 1 + Sum1To(crashes + 1) \in Nat
      /\ 1 + crashes <= 1 + (crashes + 1) /\ 1 + (crashes + 1) \in Nat
  BY Sums
<1>1. CASE asked[n] = "create_character"
  <2>1. /\ Few(Tokens(lanes, n, Deliveries(Backends)), 1)
        /\ Few(Tokens(lanes, n, Forwards), 1 + crashes)
        /\ Few(Tokens(lanes, n, Outcomes(Backends \cup Worlds)), 1 + Sum1To(crashes))
    BY <1>1 DEF Bounded, AnsweredFromAfar
  <2>2. CASE s \in Backends
    <3>1. u \subseteq Deliveries(Backends) /\ <<"taken", s>> \in Deliveries(Backends)
      BY <2>2 DEF Deliveries
    <3>2. Few(Tokens(lanes, n, u), 1)
      BY <2>1, <3>1, <1>b, TokensWithin, FewWithin
    <3>3. Few(Tokens(lanes', n, Deliveries(Backends)), 1)
      BY <1>a, <1>b, <2>1, <3>1, CrashKeeps
    <3>4. Few(Tokens(lanes', n, Forwards), (1 + crashes) + 1)
      BY <1>a, <1>b, <2>1, <3>2, CrashAdds
    <3>5. Few(Tokens(lanes', n, Outcomes(Backends \cup Worlds)), (1 + Sum1To(crashes)) + 1)
      BY <1>a, <1>b, <2>1, <3>2, CrashAdds
    <3>6. Few(Tokens(lanes', n, Outcomes(Backends \cup Worlds)), 1 + Sum1To(crashes + 1))
      BY <1>b, <3>5, FewMore
    <3>7. QED
      BY <1>1, <1>b, <3>3, <3>4, <3>6 DEF Bounded, AnsweredFromAfar
  <2>3. CASE s \in Worlds
    <3>1. u \subseteq Forwards /\ <<"taken", s>> \in Forwards
      BY <2>3 DEF Forwards
    <3>2. Few(Tokens(lanes, n, u), 1 + crashes)
      BY <2>1, <3>1, <1>b, TokensWithin, FewWithin
    <3>3. Few(Tokens(lanes', n, Deliveries(Backends)), 1)
      <4>1. <<"queue", s>> \notin Deliveries(Backends)
        BY <2>3, ServersApart DEF Deliveries
      <4>2. QED
        BY <1>a, <1>b, <2>1, <4>1, CrashElsewhere
    <3>4. Few(Tokens(lanes', n, Forwards), 1 + crashes)
      BY <1>a, <1>b, <2>1, <3>1, CrashKeeps
    <3>5. Few(Tokens(lanes', n, Forwards), 1 + (crashes + 1))
      BY <1>b, <3>4, FewMore
    <3>6. Few(Tokens(lanes', n, Outcomes(Backends \cup Worlds)),
              (1 + Sum1To(crashes)) + (1 + crashes))
      BY <1>a, <1>b, <2>1, <3>2, CrashAdds
    <3>7. QED
      BY <1>1, <1>b, <3>3, <3>5, <3>6 DEF Bounded, AnsweredFromAfar
  <2>4. QED
    BY <2>2, <2>3
<1>2. CASE asked[n] # "create_character"
  <2>1. ASSUME NEW D \in Groups(asked[n])
        PROVE  /\ Few(Tokens(lanes', n, Deliveries(D)), 1)
               /\ Few(Tokens(lanes', n, Outcomes(D)), 1 + (crashes + 1))
    <3>1. /\ Few(Tokens(lanes, n, Deliveries(D)), 1)
          /\ Few(Tokens(lanes, n, Outcomes(D)), 1 + crashes)
      BY <1>2 DEF Bounded, AnsweredDirectly
    <3>2. CASE s \in D
      <4>1. u \subseteq Deliveries(D) /\ <<"taken", s>> \in Deliveries(D)
        BY <3>2 DEF Deliveries
      <4>2. Few(Tokens(lanes, n, u), 1)
        BY <3>1, <4>1, <1>b, TokensWithin, FewWithin
      <4>3. Few(Tokens(lanes', n, Deliveries(D)), 1)
        BY <1>a, <1>b, <3>1, <4>1, CrashKeeps
      <4>4. Few(Tokens(lanes', n, Outcomes(D)), (1 + crashes) + 1)
        BY <1>a, <1>b, <3>1, <4>2, CrashAdds
      <4>5. QED
        BY <1>b, <4>3, <4>4
    <3>3. CASE s \notin D
      <4>1. <<"queue", s>> \notin Deliveries(D) /\ <<"queue", s>> \notin Outcomes(D)
        BY <3>3 DEF Deliveries, Outcomes
      <4>2. Few(Tokens(lanes', n, Deliveries(D)), 1)
        BY <1>a, <1>b, <3>1, <4>1, CrashElsewhere
      <4>3. Few(Tokens(lanes', n, Outcomes(D)), 1 + crashes)
        BY <1>a, <1>b, <3>1, <4>1, CrashElsewhere
      <4>4. QED
        BY <1>b, <4>2, <4>3, FewMore
    <3>4. QED
      BY <3>2, <3>3
  <2>2. QED
    BY <1>2, <2>1 DEF Bounded, AnsweredDirectly
<1>3. QED
  BY <1>1, <1>2

LEMMA RequestKeepsCounts ==
    ASSUME Routed, Enters(Len(asked) + 1), crashes \in Nat,
           NEW n \in DOMAIN asked, Bounded(lanes, crashes, asked[n], n)
    PROVE  Bounded(lanes', crashes, asked[n], n)
<1>a. Sum1To(crashes) \in Nat
  BY Sums
<1>1. 1 \in Nat /\ 1 + crashes \in Nat /\ 1 + Sum1To(crashes) \in Nat
  BY <1>a
<1>2. \A F : \A b \in Nat : Few(Tokens(lanes, n, F), b) => Few(Tokens(lanes', n, F), b)
  BY EntersKeeps
<1>3. CASE asked[n] = "create_character"
  BY <1>1, <1>2, <1>3 DEF Bounded, AnsweredFromAfar
<1>4. CASE asked[n] # "create_character"
  BY <1>1, <1>2, <1>4 DEF Bounded, AnsweredDirectly
<1>5. QED
  BY <1>3, <1>4

LEMMA NewRequestCounts ==
    ASSUME Routed, Routed', NEW n, n = Len(asked) + 1, Enters(n), crashes \in Nat
    PROVE  Bounded(lanes', crashes, asked'[n], n)
<1>a. Sum1To(crashes) \in Nat
  BY Sums
<1>1. 1 \in Nat /\ 1 + crashes \in Nat /\ 1 <= 1 + crashes
      /\ 1 + Sum1To(crashes) \in Nat /\ 1 <= 1 + Sum1To(crashes)
  BY <1>a
<1>2. CASE asked'[n] = "create_character"
  <2>1. \A F : Few(Tokens(lanes', n, F), 1)
    BY <1>2, EntersOnce
  <2>2. \A F : Few(Tokens(lanes', n, F), 1 + crashes)
    BY <1>1, <2>1, FewMore
  <2>3. \A F : Few(Tokens(lanes', n, F), 1 + Sum1To(crashes))
    BY <1>1, <2>1, FewMore
  <2>4. QED
    BY <1>2, <2>1, <2>2, <2>3 DEF Bounded, AnsweredFromAfar
<1>3. CASE asked'[n] # "create_character"
  <2>1. ASSUME NEW D \in Groups(asked'[n])
        PROVE  Few(Tokens(lanes', n, Deliveries(D)), 1) /\ Few(Tokens(lanes', n, Outcomes(D)), 1)
    <3>1. CASE asked'[n] # "get_characters"
      BY <3>1, EntersOnce
    <3>2. CASE asked'[n] = "get_characters"
      <4>1. PICK d \in Backends \cup Worlds : D = {d}
        BY <3>2 DEF Groups
      <4>2. \A s, t \in Servers :
               <<"queue", s>> \in Deliveries(D) /\ <<"queue", t>> \in Deliveries(D) => s = t
        BY <4>1 DEF Deliveries
      <4>3. \A s, t \in Servers :
               <<"queue", s>> \in Outcomes(D) /\ <<"queue", t>> \in Outcomes(D) => s = t
        BY <4>1 DEF Outcomes
      <4>4. Few(Tokens(lanes', n, Deliveries(D)), 1)
        BY <4>2, EntersOnce
      <4>5. Few(Tokens(lanes', n, Outcomes(D)), 1)
        BY <4>3, EntersOnce
      <4>6. QED
        BY <4>4, <4>5
    <3>3. QED
      BY <3>1, <3>2
  <2>2. ASSUME NEW D \in Groups(asked'[n])
        PROVE  Few(Tokens(lanes', n, Outcomes(D)), 1 + crashes)
    BY <1>1, <2>1, FewMore
  <2>3. QED
    BY <1>3, <2>1, <2>2 DEF Bounded, AnsweredDirectly
<1>4. QED
  BY <1>2, <1>3

-----------------------------------------------------------------------------
(* Every step keeps it.                                                    *)

LEMMA StepLanes ==
    ASSUME Routed, [Next]_vars
    PROVE  \/ GoesOn /\ crashes' = crashes /\ asked' = asked
           \/ /\ Enters(Len(asked) + 1) /\ crashes' = crashes
              /\ \E kind \in RequestKinds : asked' = Append(asked, kind)
           \/ /\ \E s \in Backends \cup Worlds : Restarts(s)
              /\ crashes' = crashes + 1 /\ asked' = asked
<1>1. ASSUME NEW g \in Gateways, NEW c \in Clients, GatewayRequest(g, c)
      PROVE  /\ Enters(Len(asked) + 1) /\ crashes' = crashes
             /\ \E kind \in RequestKinds : asked' = Append(asked, kind)
  BY <1>1, GatewayEnters
<1>2. ASSUME NEW b \in Backends, BackendAction(b)
      PROVE  GoesOn /\ crashes' = crashes /\ asked' = asked
  BY <1>2, BackendLanes, ServersApart DEF GoesOn, BackendAction
<1>3. ASSUME NEW w \in Worlds, WorldAction(w)
      PROVE  GoesOn /\ crashes' = crashes /\ asked' = asked
  BY <1>3, WorldLanes, ServersApart DEF GoesOn, WorldAction
<1>4. ASSUME NEW s \in Backends \cup Worlds, Dies(s)
      PROVE  Restarts(s) /\ crashes' = crashes + 1 /\ asked' = asked
  BY <1>4, CrashRestarts DEF Dies
<1>5. ASSUME NEW s \in Backends \cup Worlds, CommitOffsets(s),
             UNCHANGED <<backendVars, worldVars, asked>>
      PROVE  GoesOn /\ crashes' = crashes /\ asked' = asked
  BY <1>5, CommitSilent DEF GoesOn
<1>6. CASE UNCHANGED vars
  BY <1>6, StutterSilent DEF GoesOn, vars
<1>7. CASE Next
  BY <1>1, <1>2, <1>3, <1>4, <1>5, <1>7 DEF Next
<1>8. QED
  BY <1>6, <1>7

LEMMA BoundedAfter ==
    (\A n \in DOMAIN asked' : Bounded(lanes', crashes', asked'[n], n)) => AnswersCounted'
  BY DEF AnswersCounted, Bounded, AnsweredDirectly, AnsweredFromAfar, Few, Tokens, Holder

LEMMA EachCounts ==
    ASSUME Routed, crashes \in Nat, AnswersCounted, [Next]_vars, NEW n \in DOMAIN asked'
    PROVE  Bounded(lanes', crashes', asked'[n], n)
<1>a. Routed'
  BY StepRoutes
<1>1. \A k \in DOMAIN asked : Bounded(lanes, crashes, asked[k], k)
  BY DEF AnswersCounted
<1>2. CASE GoesOn /\ crashes' = crashes /\ asked' = asked
  BY <1>1, <1>2, <1>a, GoingOnCounts
<1>3. ASSUME Enters(Len(asked) + 1), crashes' = crashes,
             NEW kind \in RequestKinds, asked' = Append(asked, kind)
      PROVE  Bounded(lanes', crashes', asked'[n], n)
  <2>1. asked \in Seq(RequestKinds)
    BY DEF Routed, QueuesRouted
  <2>2. /\ Len(asked) \in Nat /\ DOMAIN asked = 1 .. Len(asked)
        /\ DOMAIN asked' = 1 .. Len(asked) + 1
        /\ \A k \in DOMAIN asked : asked'[k] = asked[k]
    BY <1>3, <2>1
  <2>3. CASE n \in DOMAIN asked
    BY <1>1, <1>3, <2>2, <2>3, RequestKeepsCounts
  <2>4. CASE n = Len(asked) + 1
    BY <1>3, <2>4, <1>a, NewRequestCounts
  <2>5. n \in DOMAIN asked \/ n = Len(asked) + 1
    BY <2>2
  <2>6. QED
    BY <2>3, <2>4, <2>5
<1>4. ASSUME NEW s \in Backends \cup Worlds, Restarts(s), crashes' = crashes + 1, asked' = asked
      PROVE  Bounded(lanes', crashes', asked'[n], n)
  BY <1>1, <1>4, <1>a, CrashCounts
<1>5. CASE /\ Enters(Len(asked) + 1) /\ crashes' = crashes
           /\ \E kind \in RequestKinds : asked' = Append(asked, kind)
  BY <1>3, <1>5
<1>6. CASE /\ \E s \in Backends \cup Worlds : Restarts(s)
           /\ crashes' = crashes + 1 /\ asked' = asked
  BY <1>4, <1>6
<1>7. QED
  BY <1>2, <1>5, <1>6, StepLanes, Zenon

LEMMA AnswersStayCounted ==
    Routed /\ crashes \in Nat /\ AnswersCounted /\ [Next]_vars => AnswersCounted'
<1>1. ASSUME Routed, crashes \in Nat, AnswersCounted, [Next]_vars
      PROVE  AnswersCounted'
  <2>1. \A n \in DOMAIN asked' : Bounded(lanes', crashes', asked'[n], n)
    BY <1>1, EachCounts
  <2>2. QED
    BY <2>1, BoundedAfter
<1>2. QED
  BY <1>1

LEMMA InitAnswersCounted == Init => AnswersCounted
  BY DEF Init, AnswersCounted

-----------------------------------------------------------------------------
(* The answers that a gateway may still read are among what is counted.    *)

LEMMA AnswersShown ==
    ASSUME NEW n, NEW D \in SUBSET (Backends \cup Worlds), NEW F, {"answer"} \X D \subseteq F,
           NEW b \in Nat, Few(Tokens(lanes, n, F), b)
    PROVE  Few(UNION {AnswersTo(n, s) : s \in D}, b)
<1> DEFINE S == UNION {AnswersTo(n, s) : s \in D}
           T == Tokens(lanes, n, F)
           f == [t \in S |-> <<<<"answer", t[1]>>, t[2]>>]
<1>1. ASSUME NEW t \in S
      PROVE  t = <<t[1], t[2]>> /\ <<<<"answer", t[1]>>, t[2]>> \in T
  <2>1. PICK s \in D : t \in AnswersTo(n, s)
    OBVIOUS
  <2>2. PICK g \in Gateways : \E k \in DOMAIN inbox[g] :
           t = <<g, k>> /\ inbox[g][k].number = n /\ inbox[g][k].origin = s
    BY <2>1 DEF AnswersTo
  <2>3. PICK k \in DOMAIN inbox[g] :
           t = <<g, k>> /\ inbox[g][k].number = n /\ inbox[g][k].origin = s
    BY <2>2
  <2>4. lanes[<<"answer", g>>] = inbox[g]
    BY LanesAre DEF LanesShow
  <2> DEFINE l == <<"answer", g>>
  <2>5. l \in Lanes /\ l[1] = "answer"
    BY ServersApart, AreLanes
  <2>6. lanes[l] = inbox[g]
    BY <2>4
  <2> HIDE DEF l
  <2>7. <<l[1], Holder(l, lanes[l][k])>> \in F
    BY <2>3, <2>5, <2>6 DEF Holder
  <2>8. <<l, k>> \in T
    BY <2>3, <2>5, <2>6, <2>7, TokenIn
  <2>9. QED
    BY <2>3, <2>8 DEF l
<1>2. f \in [S -> T]
  BY <1>1
<1>3. ASSUME NEW x \in S, NEW y \in S, f[x] = f[y]
      PROVE  x = y
  <2>1. x[1] = y[1] /\ x[2] = y[2]
    <3>1. <<<<"answer", x[1]>>, x[2]>> = <<<<"answer", y[1]>>, y[2]>>
      BY <1>3
    <3>2. QED
      BY <3>1
  <2>2. QED
    BY <1>1, <2>1
<1> HIDE DEF f
<1>4. QED
  BY <1>2, <1>3, Fewer

LEMMA BoundedAnswers == crashes \in Nat /\ AnswersCounted => AnsweredOncePerDelivery
<1> SUFFICES ASSUME crashes \in Nat, AnswersCounted, NEW n \in DOMAIN asked
             PROVE  LET all == UNION {AnswersTo(n, s) : s \in Backends \cup Worlds}
                    IN  CASE asked[n] = "get_characters" ->
                               \A s \in Backends \cup Worlds :
                                  Cardinality(AnswersTo(n, s)) <= 1 + crashes
                          [] asked[n] = "create_character" ->
                               Cardinality(all) <= 1 + (crashes * (crashes + 1)) \div 2
                          [] OTHER -> Cardinality(all) <= 1 + crashes
  BY DEF AnsweredOncePerDelivery
<1> DEFINE all == UNION {AnswersTo(n, s) : s \in Backends \cup Worlds}
<1>1. Bounded(lanes, crashes, asked[n], n)
  BY DEF AnswersCounted
<1>2. \A D : {"answer"} \X D \subseteq Outcomes(D)
  BY DEF Outcomes
<1>3. 1 + crashes \in Nat /\ 1 + Sum1To(crashes) \in Nat
  BY Sums
<1>4. asked[n] = "create_character" => Cardinality(all) <= 1 + (crashes * (crashes + 1)) \div 2
  <2>1. SUFFICES ASSUME asked[n] = "create_character"
                 PROVE  Cardinality(all) <= 1 + (crashes * (crashes + 1)) \div 2
    OBVIOUS
  <2>2. Few(Tokens(lanes, n, Outcomes(Backends \cup Worlds)), 1 + Sum1To(crashes))
    BY <1>1, <2>1 DEF Bounded, AnsweredFromAfar
  <2>3. Few(all, 1 + Sum1To(crashes))
    BY <1>2, <1>3, <2>2, AnswersShown
  <2>4. QED
    BY <2>3 DEF Few, Sum1To
<1>5. asked[n] \notin {"create_character", "get_characters"} => Cardinality(all) <= 1 + crashes
  <2>1. SUFFICES ASSUME asked[n] \notin {"create_character", "get_characters"}
                 PROVE  Cardinality(all) <= 1 + crashes
    OBVIOUS
  <2>2. Few(Tokens(lanes, n, Outcomes(Backends \cup Worlds)), 1 + crashes)
    BY <1>1, <2>1 DEF Bounded, AnsweredDirectly, Groups
  <2>3. Few(all, 1 + crashes)
    BY <1>2, <1>3, <2>2, AnswersShown
  <2>4. QED
    BY <2>3 DEF Few
<1>6. ASSUME asked[n] = "get_characters", NEW s \in Backends \cup Worlds
      PROVE  Cardinality(AnswersTo(n, s)) <= 1 + crashes
  <2>1. {s} \in Groups(asked[n])
    BY <1>6 DEF Groups
  <2>2. Few(Tokens(lanes, n, Outcomes({s})), 1 + crashes)
    BY <1>1, <1>6, <2>1 DEF Bounded, AnsweredDirectly
  <2>3. Few(UNION {AnswersTo(n, t) : t \in {s}}, 1 + crashes)
    BY <1>2, <1>3, <2>2, AnswersShown
  <2>4. UNION {AnswersTo(n, t) : t \in {s}} = AnswersTo(n, s)
    OBVIOUS
  <2>5. QED
    BY <2>3, <2>4 DEF Few
<1>7. QED
  BY <1>4, <1>5, <1>6

(* A request is answered once, by each server if it asks every world, and  *)
(* once more for each crash; what a backend sends on to a world can be     *)
(* delivered twice over, so that the i-th crash may add i answers: for any *)
(* number of servers, requests and crashes.                                *)
THEOREM RealmAnswersCounted == Spec => []AnsweredOncePerDelivery
<1>1. Typed => crashes \in Nat
  BY KafkaAssumption DEF Typed, QueuesTyped
<1>2. Spec => [](crashes \in Nat)
  BY <1>1, AlwaysRouted, InitTyped, StepTyped, PTL DEF Spec
<1>3. Spec => []AnswersCounted
  BY <1>2, AlwaysRouted, InitAnswersCounted, AnswersStayCounted, PTL DEF Spec
<1>4. QED
  BY <1>2, <1>3, BoundedAnswers, PTL

-----------------------------------------------------------------------------
(* What was asked is not forgotten while no server dies.  A request is in  *)
(* the queue of a server that has a handler for it, in the hands of a      *)
(* server, in an event, or in what the gateways hear; only two end in      *)
(* silence: get_characters, for a user without characters, and             *)
(* create_character, while the limit of the settings is no number.         *)

\* The kinds that the servers have handlers for.
Handled(s) ==
    IF s \in Backends THEN {"login", "register", "create_character"}
                      ELSE {"get_characters", "play_character", "create_character"}

Fits(s, m) ==
    /\ s \in Backends \cup Worlds => m.kind \in Handled(s)
    /\ s \in Gateways => m.origin \in Backends \cup Worlds

QueuesFit == \A s \in Servers : \A k \in DOMAIN inbox[s] : Fits(s, inbox[s][k])

Shown(n) ==
    \/ \E s \in Servers : \E k \in DOMAIN inbox[s] : inbox[s][k].number = n
    \/ \E m \in unread : m.number = n

AtBackends(n) == \E b \in Backends : place[b] # "idle" /\ work[b].number = n

AtWorlds(n) ==
    \E w \in Worlds :
        \/ wplace[w] = "handling" /\ wwork[w].number = n
        \/ \E k \in DOMAIN events[w] : events[w][k].msg.number = n

Traced(n) == Shown(n) \/ AtBackends(n) \/ AtWorlds(n)

Forgotten(n) == asked[n] = "create_character" /\ MaxCharacters = Nothing

Kept ==
    crashes = 0 =>
        /\ QueuesFit
        /\ \A n \in DOMAIN asked : asked[n] = "get_characters" \/ Traced(n) \/ Forgotten(n)

\* What a step on behalf of the requests so far leaves as it should be.
Keeps ==
    /\ QueuesFit'
    /\ \A n \in DOMAIN asked :
          asked[n] # "get_characters" /\ Traced(n) => Traced(n)' \/ Forgotten(n)

LEMMA InitKept == Init => Kept
<1> SUFFICES ASSUME Init PROVE Kept
  OBVIOUS
<1>1. asked = <<>> /\ \A s \in Servers : inbox[s] = <<>>
  BY DEF Init, KafkaInit
<1>2. DOMAIN asked = {} /\ \A s \in Servers : DOMAIN inbox[s] = {}
  BY <1>1
<1>3. QED
  BY <1>2 DEF Kept, QueuesFit

LEMMA PublishShows ==
    ASSUME QueuesRouted, NEW topic, \A readers \in topic : readers \subseteq Servers,
           NEW m, Publish(topic, m)
    PROVE  /\ \A n : Shown(n) => Shown(n)'
           /\ \A n : n = m.number => Shown(n)'
           /\ QueuesFit /\ (\A readers \in topic : \A s \in readers : Fits(s, m)) => QueuesFit'
<1>1. PICK readers \in topic :
          /\ inbox' = [s \in Servers |->
                          IF s \in readers THEN Append(inbox[s], m) ELSE inbox[s]]
          /\ unread' = IF readers = {} THEN unread \cup {m} ELSE unread
  BY DEF Publish
<1>2. ASSUME NEW s \in Servers
      PROVE  /\ \A k \in DOMAIN inbox[s] : k \in DOMAIN inbox'[s] /\ inbox'[s][k] = inbox[s][k]
             /\ s \in readers => \E k \in DOMAIN inbox'[s] : inbox'[s][k] = m
             /\ \A k \in DOMAIN inbox'[s] :
                   \/ k \in DOMAIN inbox[s] /\ inbox'[s][k] = inbox[s][k]
                   \/ s \in readers /\ inbox'[s][k] = m
  <2>1. inbox[s] \in Seq(Envelope)
    BY DEF QueuesRouted
  <2>2. CASE s \notin readers
    BY <1>1, <2>2
  <2>3. CASE s \in readers
    <3>1. inbox'[s] = Append(inbox[s], m)
      BY <1>1, <2>3
    <3>2. /\ Len(inbox[s]) \in Nat /\ DOMAIN inbox[s] = 1 .. Len(inbox[s])
          /\ DOMAIN inbox'[s] = 1 .. Len(inbox[s]) + 1
          /\ \A k \in DOMAIN inbox[s] : inbox'[s][k] = inbox[s][k]
          /\ inbox'[s][Len(inbox[s]) + 1] = m
      BY <2>1, <3>1
    <3>3. Len(inbox[s]) + 1 \in DOMAIN inbox'[s]
      BY <3>2
    <3>4. \A k \in DOMAIN inbox'[s] : k \in DOMAIN inbox[s] \/ k = Len(inbox[s]) + 1
      BY <3>2
    <3>5. \A k \in DOMAIN inbox[s] : k \in DOMAIN inbox'[s]
      BY <3>2
    <3>6. QED
      BY <2>3, <3>2, <3>3, <3>4, <3>5
  <2>4. QED
    BY <2>2, <2>3
<1>3. ASSUME NEW n, Shown(n)
      PROVE  Shown(n)'
  <2>1. unread \subseteq unread'
    BY <1>1
  <2>2. QED
    BY <1>2, <1>3, <2>1 DEF Shown
<1>4. \A n : n = m.number => Shown(n)'
  <2>1. CASE readers = {}
    BY <1>1, <2>1 DEF Shown
  <2>2. CASE readers # {}
    <3>1. PICK s \in readers : s \in Servers
      BY <2>2
    <3>2. QED
      BY <1>2, <3>1 DEF Shown
  <2>3. QED
    BY <2>1, <2>2
<1>5. ASSUME QueuesFit, \A r \in topic : \A s \in r : Fits(s, m)
      PROVE  QueuesFit'
  <2>1. ASSUME NEW s \in Servers, NEW k \in DOMAIN inbox'[s]
        PROVE  Fits(s, inbox'[s][k])
    BY <1>1, <1>2, <1>5, <2>1 DEF QueuesFit
  <2>2. QED
    BY <2>1 DEF QueuesFit, Fits, Handled
<1>6. QED
  BY <1>3, <1>4, <1>5

LEMMA ConsumeShows ==
    ASSUME QueuesRouted, QueuesFit, NEW s \in Servers, Consume(s)
    PROVE  /\ \A n : Shown(n) => Shown(n)' \/ n = Head(inbox[s]).number
           /\ QueuesFit' /\ Fits(s, Head(inbox[s]))
<1>1. /\ inbox[s] \in Seq(Envelope) /\ inbox[s] # <<>>
      /\ inbox' = [inbox EXCEPT ![s] = Tail(@)] /\ unread' = unread
      /\ inbox \in [Servers -> Seq(Envelope)]
  BY DEF Consume, QueuesRouted
<1>2. /\ inbox'[s] = Tail(inbox[s])
      /\ \A t \in Servers : t # s => inbox'[t] = inbox[t]
  BY <1>1
<1>3. /\ 1 \in DOMAIN inbox[s] /\ Head(inbox[s]) = inbox[s][1]
      /\ \A k \in DOMAIN inbox[s] : k = 1 \/ (k - 1 \in DOMAIN inbox'[s] /\ inbox'[s][k - 1] = inbox[s][k])
      /\ \A k \in DOMAIN inbox'[s] : k + 1 \in DOMAIN inbox[s] /\ inbox'[s][k] = inbox[s][k + 1]
  BY <1>1, <1>2
<1>4. Fits(s, Head(inbox[s]))
  BY <1>3 DEF QueuesFit
<1>5. ASSUME NEW t \in Servers, NEW k \in DOMAIN inbox'[t]
      PROVE  Fits(t, inbox'[t][k])
  <2>1. CASE t = s
    <3>1. k + 1 \in DOMAIN inbox[s] /\ inbox'[s][k] = inbox[s][k + 1]
      BY <1>3, <1>5, <2>1
    <3>2. Fits(s, inbox[s][k + 1])
      BY <3>1 DEF QueuesFit
    <3>3. QED
      BY <2>1, <3>1, <3>2
  <2>2. CASE t # s
    BY <1>2, <1>5, <2>2 DEF QueuesFit
  <2>3. QED
    BY <2>1, <2>2
<1>6. QueuesFit'
  BY <1>5 DEF QueuesFit, Fits, Handled
<1>7. ASSUME NEW n, Shown(n), n # Head(inbox[s]).number
      PROVE  Shown(n)'
  <2>1. CASE \E m \in unread : m.number = n
    BY <1>1, <2>1 DEF Shown
  <2>2. ASSUME NEW t \in Servers, NEW k \in DOMAIN inbox[t], inbox[t][k].number = n
        PROVE  Shown(n)'
    <3>1. CASE t = s
      <4>1. k # 1
        BY <1>3, <1>7, <2>2, <3>1
      <4>2. k - 1 \in DOMAIN inbox'[s] /\ inbox'[s][k - 1] = inbox[s][k]
        BY <1>3, <2>2, <3>1, <4>1
      <4>3. QED
        BY <2>2, <3>1, <4>2 DEF Shown
    <3>2. CASE t # s
      <4>1. inbox'[t] = inbox[t]
        BY <1>2, <2>2, <3>2
      <4>2. QED
        BY <2>2, <4>1 DEF Shown
    <3>3. QED
      BY <3>1, <3>2
  <2>3. QED
    BY <1>7, <2>1, <2>2 DEF Shown
<1>8. QED
  BY <1>4, <1>6, <1>7

LEMMA QuietShows ==
    UNCHANGED <<inbox, unread>> => (\A n : Shown(n) => Shown(n)') /\ (QueuesFit => QueuesFit')
  BY DEF Shown, QueuesFit, Fits, Handled

-----------------------------------------------------------------------------
\* A backend sends what it has in hand, and is done with it.
LEMMA BackendSends ==
    ASSUME Routed, QueuesFit, NEW b \in Backends, place[b] # "idle", NEW topic, NEW m,
           \A readers \in topic : readers \subseteq Servers /\ \A s \in readers : Fits(s, m),
           Publish(topic, m), m.number = work[b].number,
           Goto(b, "idle"), UNCHANGED <<work, worldVars>>
    PROVE  Keeps
<1>1. QueuesFit' /\ (\A n : Shown(n) => Shown(n)') /\ \A n : n = work[b].number => Shown(n)'
  BY PublishShows DEF Routed
<1>2. \A c \in Backends : c # b => place'[c] = place[c]
  BY DEF Goto, Routed, BackendsRouted
<1>3. \A n : AtBackends(n) => AtBackends(n)' \/ n = work[b].number
  BY <1>2 DEF AtBackends
<1>4. \A n : AtWorlds(n) => AtWorlds(n)'
  BY DEF AtWorlds, worldVars
<1>5. QED
  BY <1>1, <1>3, <1>4 DEF Keeps, Traced

LEMMA ReplyKept ==
    ASSUME Routed, QueuesFit, NEW b \in Backends, place[b] # "idle", NEW kind, NEW u,
           Reply(b, kind, u), UNCHANGED <<work, worldVars>>
    PROVE  Keeps
<1> DEFINE a == Answer(work[b], kind, b, u)
<1>1. work[b] \in Envelope /\ work[b].origin = work[b].gateway /\ work[b].gateway \in Gateways
  BY WorkRight DEF Routed, Numbered
<1>2. a.number = work[b].number /\ a.origin = b
  BY <1>1 DEF Answer, Envelope
<1>3. Publish(ServerTopic(work[b].gateway), a) /\ Goto(b, "idle")
  BY <1>1 DEF Reply
<1> HIDE DEF a
<1>4. Fits(work[b].gateway, a)
  BY <1>1, <1>2, ServersApart DEF Fits
<1>5. \A readers \in ServerTopic(work[b].gateway) :
          readers \subseteq Servers /\ \A s \in readers : Fits(s, a)
  BY <1>4 DEF ServerTopic
<1>6. QED
  BY <1>2, <1>3, <1>5, BackendSends

\* It goes on with what it has in hand.
LEMMA BackendGoesOn ==
    ASSUME Routed, QueuesFit, NEW b \in Backends, place[b] # "idle", NEW to, to # "idle",
           Goto(b, to), UNCHANGED <<work, kafkaVars, worldVars>>
    PROVE  Keeps
<1>1. QueuesFit' /\ \A n : Shown(n) => Shown(n)'
  BY QuietShows DEF kafkaVars
<1>2. \A c \in Backends : place'[c] = IF c = b THEN to ELSE place[c]
  BY DEF Goto, Routed, BackendsRouted
<1>3. \A n : AtBackends(n) => AtBackends(n)'
  BY <1>2 DEF AtBackends
<1>4. \A n : AtWorlds(n) => AtWorlds(n)'
  BY DEF AtWorlds, worldVars
<1>5. QED
  BY <1>1, <1>3, <1>4 DEF Keeps, Traced

\* It is done with a request that nobody hears of again.
LEMMA BackendForgets ==
    ASSUME QueuesFit, Routed, NEW b \in Backends, Goto(b, "idle"),
           asked[work[b].number] = "create_character", MaxCharacters = Nothing,
           UNCHANGED <<work, kafkaVars, worldVars>>
    PROVE  Keeps
<1>1. QueuesFit' /\ \A n : Shown(n) => Shown(n)'
  BY QuietShows DEF kafkaVars
<1>2. \A c \in Backends : c # b => place'[c] = place[c]
  BY DEF Goto, Routed, BackendsRouted
<1>3. \A n : AtBackends(n) => AtBackends(n)' \/ n = work[b].number
  BY <1>2 DEF AtBackends
<1>4. \A n : AtWorlds(n) => AtWorlds(n)'
  BY DEF AtWorlds, worldVars
<1>5. QED
  BY <1>1, <1>3, <1>4 DEF Keeps, Traced, Forgotten

LEMMA BackendTakeKept ==
    ASSUME Routed, QueuesFit, NEW b \in Backends, BackendTake(b), UNCHANGED worldVars
    PROVE  Keeps
<1>1. /\ \A n : Shown(n) => Shown(n)' \/ n = Head(inbox[b]).number
      /\ QueuesFit' /\ Fits(b, Head(inbox[b]))
  BY ServersApart, ConsumeShows DEF Routed, BackendTake
<1>2. Head(inbox[b]).kind \in {"login", "register", "create_character"}
  BY <1>1 DEF Fits, Handled
<1>3. /\ place[b] = "idle" /\ Goto(b, "handling")
      /\ work' = [work EXCEPT ![b] = Head(inbox[b])]
  BY <1>2 DEF BackendTake
<1>4. /\ \A c \in Backends : place'[c] = IF c = b THEN "handling" ELSE place[c]
      /\ \A c \in Backends : work'[c] = IF c = b THEN Head(inbox[b]) ELSE work[c]
  BY <1>3 DEF Goto, Routed, BackendsRouted
<1>5. \A n : n = Head(inbox[b]).number => AtBackends(n)'
  BY <1>4 DEF AtBackends
<1>6. \A n : AtBackends(n) => AtBackends(n)'
  BY <1>3, <1>4 DEF AtBackends
<1>7. \A n : AtWorlds(n) => AtWorlds(n)'
  BY DEF AtWorlds, worldVars
<1>8. QED
  BY <1>1, <1>5, <1>6, <1>7 DEF Keeps, Traced

LEMMA ForwardKept ==
    ASSUME Routed, QueuesFit, NEW b \in Backends, ForwardCharacter(b), UNCHANGED worldVars
    PROVE  Keeps
<1> DEFINE m == [work[b] EXCEPT !.origin = b, !.destination = work[b].origin]
<1>1. place[b] = "committed" /\ work[b] \in Envelope /\ work[b].kind = "create_character"
  BY WorkRight DEF ForwardCharacter, Routed, BackendsRouted, Numbered
<1>2. m.number = work[b].number /\ m.kind = "create_character"
  BY <1>1 DEF Envelope
<1>3. Publish(ServerTopic(StartingWorld), m) /\ Goto(b, "idle") /\ UNCHANGED work
  BY DEF ForwardCharacter
<1> HIDE DEF m
<1>4. \A s \in Worlds : Fits(s, m)
  BY <1>2, ServersApart DEF Fits, Handled
<1>5. \A readers \in ServerTopic(StartingWorld) :
          readers \subseteq Servers /\ \A s \in readers : Fits(s, m)
  BY <1>4, WorldOfSettings, ServersApart DEF ServerTopic
<1>6. QED
  BY <1>1, <1>2, <1>3, <1>5, BackendSends

LEMMA BackendKept ==
    ASSUME Routed, QueuesFit, NEW b \in Backends, BackendStep(b), UNCHANGED worldVars
    PROVE  Keeps
<1>1. CASE BackendTake(b)
  BY <1>1, BackendTakeKept
<1>2. CASE BackendLogin(b)
  BY <1>2, ReplyKept DEF BackendLogin, Error, Handling
<1>3. CASE BackendRegister(b)
  <2>1. place[b] # "idle" /\ UNCHANGED work
    BY <1>3 DEF BackendRegister, Handling
  <2>2. Error(b) \/ (Goto(b, "registered") /\ UNCHANGED kafkaVars)
    BY <1>3 DEF BackendRegister
  <2>3. QED
    BY <2>1, <2>2, ReplyKept, BackendGoesOn DEF Error
<1>4. CASE BackendRegistered(b)
  BY <1>4, ReplyKept DEF BackendRegistered
<1>5. CASE BackendCreateCharacter(b)
  <2>1. place[b] # "idle" /\ UNCHANGED work
    BY <1>5 DEF BackendCreateCharacter, Handling
  <2>2. \/ Error(b)
        \/ MaxCharacters = Nothing /\ Goto(b, "idle") /\ UNCHANGED kafkaVars
        \/ Goto(b, "counted") /\ UNCHANGED kafkaVars
    BY <1>5 DEF BackendCreateCharacter
  <2>3. CASE MaxCharacters = Nothing /\ Goto(b, "idle") /\ UNCHANGED kafkaVars
    <3>1. asked[work[b].number] = "create_character"
      BY <1>5, <2>1, WorkRight DEF BackendCreateCharacter, Handling, Routed, Numbered
    <3>2. QED
      BY <2>1, <2>3, <3>1, BackendForgets
  <2>4. QED
    BY <2>1, <2>2, <2>3, ReplyKept, BackendGoesOn DEF Error
<1>6. CASE CommitCount(b)
  <2>1. place[b] # "idle" /\ UNCHANGED work
    BY <1>6 DEF CommitCount
  <2>2. Error(b) \/ (Goto(b, "committed") /\ UNCHANGED kafkaVars)
    BY <1>6 DEF CommitCount
  <2>3. QED
    BY <2>1, <2>2, ReplyKept, BackendGoesOn DEF Error
<1>7. CASE ForwardCharacter(b)
  BY <1>7, ForwardKept
<1>8. QED
  BY <1>1, <1>2, <1>3, <1>4, <1>5, <1>6, <1>7 DEF BackendStep

-----------------------------------------------------------------------------
\* The consumer thread of a world is done with its message, which the gateways hear of.
LEMMA WorldSends ==
    ASSUME Routed, QueuesFit, NEW w \in Worlds, wplace[w] = "handling", NEW topic, NEW kind, NEW u,
           \A readers \in topic : readers \subseteq Gateways,
           Publish(topic, Answer(wwork[w], kind, w, u)),
           wplace' = [wplace EXCEPT ![w] = "idle"], UNCHANGED <<wwork, events, backendVars>>
    PROVE  Keeps
<1> DEFINE a == Answer(wwork[w], kind, w, u)
<1>1. wwork[w] \in Envelope
  BY WorkOfWorld DEF Routed, Numbered
<1>2. a.number = wwork[w].number /\ a.origin = w
  BY <1>1 DEF Answer, Envelope
<1>3. Publish(topic, a)
  OBVIOUS
<1> HIDE DEF a
<1>4. \A readers \in topic : readers \subseteq Servers /\ \A s \in readers : Fits(s, a)
  BY <1>2, ServersApart DEF Fits
<1>5. QueuesFit' /\ (\A n : Shown(n) => Shown(n)') /\ \A n : n = wwork[w].number => Shown(n)'
  BY <1>2, <1>3, <1>4, PublishShows DEF Routed
<1>6. \A v \in Worlds : v # w => wplace'[v] = wplace[v]
  BY DEF Routed, WorldsRouted
<1>7. \A n : AtWorlds(n) => AtWorlds(n)' \/ n = wwork[w].number
  BY <1>6 DEF AtWorlds
<1>8. \A n : AtBackends(n) => AtBackends(n)'
  BY DEF AtBackends, backendVars
<1>9. QED
  BY <1>5, <1>7, <1>8 DEF Keeps, Traced

\* The topic of a gateway, and of nobody.
LEMMA TopicsOfGateways ==
    ASSUME NEW s \in Gateways \cup {ANY}
    PROVE  \A readers \in ServerTopic(s) : readers \subseteq Gateways
  BY ServersApart DEF ServerTopic

LEMMA WorldErrorKept ==
    ASSUME Routed, QueuesFit, NEW w \in Worlds, wplace[w] = "handling",
           wwork[w].kind \in {"play_character", "create_character"}, WorldError(w),
           wplace' = [wplace EXCEPT ![w] = "idle"], UNCHANGED <<wwork, backendVars>>
    PROVE  Keeps
<1>1. wwork[w].destination \in Gateways \cup {ANY}
  BY WorkOfWorld DEF Routed, Numbered, Envelope
<1>2. Publish(ServerTopic(wwork[w].destination), Answer(wwork[w], "error_response", w, 0))
      /\ UNCHANGED events
  BY DEF WorldError
<1>3. QED
  BY <1>1, <1>2, TopicsOfGateways, WorldSends

LEMMA EnqueuedKept ==
    ASSUME Routed, QueuesFit, NEW w \in Worlds, wplace[w] = "handling", NEW to, NEW maps,
           Enqueued(w, Event(wwork[w], to, maps)),
           wplace' = [wplace EXCEPT ![w] = "idle"], UNCHANGED <<wwork, backendVars>>
    PROVE  Keeps
<1> DEFINE e == Event(wwork[w], to, maps)
<1>1. events' = [events EXCEPT ![w] = Append(@, e)] /\ UNCHANGED kafkaVars
      /\ e.msg = wwork[w]
  BY DEF Enqueued, Event
<1> HIDE DEF e
<1>2. QueuesFit' /\ \A n : Shown(n) => Shown(n)'
  BY <1>1, QuietShows DEF kafkaVars
<1>3. events[w] \in Seq(Awaited) /\ events \in [Worlds -> Seq(Awaited)]
  BY DEF Routed, WorldsRouted
<1>4. /\ events'[w] = Append(events[w], e)
      /\ \A v \in Worlds : v # w => events'[v] = events[v] /\ wplace'[v] = wplace[v]
  BY <1>1, <1>3 DEF Routed, WorldsRouted
<1>5. /\ \A k \in DOMAIN events[w] : k \in DOMAIN events'[w] /\ events'[w][k] = events[w][k]
      /\ \E k \in DOMAIN events'[w] : events'[w][k] = e
  <2>1. /\ Len(events[w]) \in Nat /\ DOMAIN events[w] = 1 .. Len(events[w])
        /\ DOMAIN events'[w] = 1 .. Len(events[w]) + 1
        /\ \A k \in DOMAIN events[w] : events'[w][k] = events[w][k]
        /\ events'[w][Len(events[w]) + 1] = e
    BY <1>3, <1>4
  <2>2. Len(events[w]) + 1 \in DOMAIN events'[w]
    BY <2>1
  <2>3. \A k \in DOMAIN events[w] : k \in DOMAIN events'[w]
    BY <2>1
  <2>4. QED
    BY <2>1, <2>2, <2>3
<1>6. \A n : AtWorlds(n) => AtWorlds(n)'
  BY <1>1, <1>4, <1>5 DEF AtWorlds
<1>7. \A n : AtBackends(n) => AtBackends(n)'
  BY DEF AtBackends, backendVars
<1>8. QED
  BY <1>2, <1>6, <1>7 DEF Keeps, Traced

LEMMA WorldTakeKept ==
    ASSUME Routed, QueuesFit, NEW w \in Worlds, WorldTake(w), UNCHANGED backendVars
    PROVE  Keeps
<1>1. /\ \A n : Shown(n) => Shown(n)' \/ n = Head(inbox[w]).number
      /\ QueuesFit' /\ Fits(w, Head(inbox[w]))
  BY ServersApart, ConsumeShows DEF Routed, WorldTake
<1>2. Head(inbox[w]).kind \in {"get_characters", "play_character", "create_character"}
  BY <1>1, ServersApart DEF Fits, Handled
<1>3. /\ wplace[w] = "idle" /\ wplace' = [wplace EXCEPT ![w] = "handling"]
      /\ wwork' = [wwork EXCEPT ![w] = Head(inbox[w])] /\ events' = events
  BY <1>2 DEF WorldTake
<1>4. /\ \A v \in Worlds : wplace'[v] = IF v = w THEN "handling" ELSE wplace[v]
      /\ \A v \in Worlds : wwork'[v] = IF v = w THEN Head(inbox[w]) ELSE wwork[v]
  BY <1>3 DEF Routed, WorldsRouted
<1>5. \A n : n = Head(inbox[w]).number => AtWorlds(n)'
  BY <1>4 DEF AtWorlds
<1>6. \A n : AtWorlds(n) => AtWorlds(n)'
  BY <1>3, <1>4 DEF AtWorlds
<1>7. \A n : AtBackends(n) => AtBackends(n)'
  BY DEF AtBackends, backendVars
<1>8. QED
  BY <1>1, <1>5, <1>6, <1>7 DEF Keeps, Traced

\* Here a request may end in silence.
LEMMA WorldGetCharactersKept ==
    ASSUME Routed, QueuesFit, NEW w \in Worlds, WorldGetCharacters(w), UNCHANGED backendVars
    PROVE  Keeps
<1>1. /\ wplace[w] = "handling" /\ wwork[w].kind = "get_characters"
      /\ wplace' = [wplace EXCEPT ![w] = "idle"] /\ UNCHANGED <<wwork, events>>
  BY DEF WorldGetCharacters, WorldHandles
<1>2. /\ asked[wwork[w].number] = "get_characters"
      /\ wwork[w].origin \in Gateways
  BY <1>1, WorkOfWorld DEF Routed, Numbered, Envelope
<1>3. ASSUME NEW kind, Publish(ServerTopic(wwork[w].origin), Answer(wwork[w], kind, w, wwork[w].user))
      PROVE  Keeps
  BY <1>1, <1>2, <1>3, TopicsOfGateways, WorldSends
<1>4. CASE UNCHANGED kafkaVars
  <2>1. QueuesFit' /\ \A n : Shown(n) => Shown(n)'
    BY <1>4, QuietShows DEF kafkaVars
  <2>2. \A v \in Worlds : v # w => wplace'[v] = wplace[v]
    BY <1>1 DEF Routed, WorldsRouted
  <2>3. \A n : AtWorlds(n) => AtWorlds(n)' \/ n = wwork[w].number
    BY <1>1, <2>2 DEF AtWorlds
  <2>4. \A n : AtBackends(n) => AtBackends(n)'
    BY DEF AtBackends, backendVars
  <2>5. QED
    BY <1>2, <2>1, <2>3, <2>4 DEF Keeps, Traced
<1>5. QED
  BY <1>3, <1>4 DEF WorldGetCharacters

LEMMA WorldTickKept ==
    ASSUME Routed, QueuesFit, NEW w \in Worlds, WorldTick(w), UNCHANGED backendVars
    PROVE  Keeps
<1> DEFINE e == Head(events[w])
<1>1. events[w] \in Seq(Awaited) /\ events[w] # <<>> /\ events \in [Worlds -> Seq(Awaited)]
  BY DEF Routed, WorldsRouted, WorldTick
<1>2. e \in Awaited
  BY <1>1, QueueHead
<1> HIDE DEF e
<1>3. e.gateway \in Gateways /\ e.msg \in Envelope
  BY <1>2 DEF Awaited
<1>4. PICK kind : Publish(ServerTopic(e.gateway), Answer(e.msg, kind, w, 0))
  BY DEF WorldTick, e
<1> DEFINE a == Answer(e.msg, kind, w, 0)
<1>5. a.number = e.msg.number /\ a.origin = w /\ Publish(ServerTopic(e.gateway), a)
  BY <1>3, <1>4 DEF Answer, Envelope
<1> HIDE DEF a
<1>6. \A readers \in ServerTopic(e.gateway) :
          readers \subseteq Servers /\ \A s \in readers : Fits(s, a)
  BY <1>3, <1>5, TopicsOfGateways, ServersApart DEF Fits
<1>7. QueuesFit' /\ (\A n : Shown(n) => Shown(n)') /\ \A n : n = e.msg.number => Shown(n)'
  BY <1>5, <1>6, PublishShows DEF Routed
<1>8. /\ events'[w] = Tail(events[w]) /\ UNCHANGED <<wplace, wwork>>
      /\ \A v \in Worlds : v # w => events'[v] = events[v]
  BY <1>1 DEF WorldTick
<1>9. /\ e = events[w][1]
      /\ \A k \in DOMAIN events[w] :
            k = 1 \/ (k - 1 \in DOMAIN events'[w] /\ events'[w][k - 1] = events[w][k])
  BY <1>1, <1>8 DEF e
<1>10. ASSUME NEW n, AtWorlds(n), n # e.msg.number
       PROVE  AtWorlds(n)'
  <2>1. ASSUME NEW v \in Worlds, wplace[v] = "handling" /\ wwork[v].number = n
        PROVE  AtWorlds(n)'
    BY <1>8, <2>1 DEF AtWorlds
  <2>2. ASSUME NEW v \in Worlds, NEW k \in DOMAIN events[v], events[v][k].msg.number = n
        PROVE  AtWorlds(n)'
    <3>1. CASE v = w
      <4>1. k # 1
        BY <1>9, <1>10, <2>2, <3>1
      <4>2. k - 1 \in DOMAIN events'[w] /\ events'[w][k - 1] = events[w][k]
        BY <1>9, <2>2, <3>1, <4>1
      <4>3. QED
        BY <2>2, <3>1, <4>2 DEF AtWorlds
    <3>2. CASE v # w
      <4>1. events'[v] = events[v]
        BY <1>8, <2>2, <3>2
      <4>2. QED
        BY <2>2, <4>1 DEF AtWorlds
    <3>3. QED
      BY <3>1, <3>2
  <2>3. QED
    BY <1>10, <2>1, <2>2 DEF AtWorlds
<1>11. \A n : AtBackends(n) => AtBackends(n)'
  BY DEF AtBackends, backendVars
<1>12. QED
  BY <1>7, <1>10, <1>11 DEF Keeps, Traced

LEMMA WorldKept ==
    ASSUME Routed, QueuesFit, NEW w \in Worlds, WorldConsumerStep(w) \/ WorldTick(w),
           UNCHANGED backendVars
    PROVE  Keeps
<1>1. CASE WorldTake(w)
  BY <1>1, WorldTakeKept
<1>2. CASE WorldGetCharacters(w)
  BY <1>2, WorldGetCharactersKept
<1>3. CASE WorldPlayCharacter(w)
  <2>1. /\ wplace[w] = "handling" /\ wwork[w].kind = "play_character"
        /\ wplace' = [wplace EXCEPT ![w] = "idle"] /\ UNCHANGED wwork
    BY <1>3 DEF WorldPlayCharacter, WorldHandles
  <2>2. \/ WorldError(w)
        \/ \E p \in Players[w] : Enqueued(w, Event(wwork[w], wwork[w].origin, {p.loaded}))
    BY <1>3 DEF WorldPlayCharacter
  <2>3. QED
    BY <2>1, <2>2, WorldErrorKept, EnqueuedKept
<1>4. CASE WorldCreateCharacter(w)
  <2>1. /\ wplace[w] = "handling" /\ wwork[w].kind = "create_character"
        /\ wplace' = [wplace EXCEPT ![w] = "idle"] /\ UNCHANGED wwork
    BY <1>4 DEF WorldCreateCharacter, WorldHandles
  <2>2. WorldError(w) \/ Enqueued(w, Event(wwork[w], wwork[w].destination, BOOLEAN))
    BY <1>4 DEF WorldCreateCharacter
  <2>3. QED
    BY <2>1, <2>2, WorldErrorKept, EnqueuedKept
<1>5. CASE WorldTick(w)
  BY <1>5, WorldTickKept
<1>6. QED
  BY <1>1, <1>2, <1>3, <1>4, <1>5 DEF WorldConsumerStep

-----------------------------------------------------------------------------
LEMMA RequestKept ==
    ASSUME Routed, Kept, crashes = 0, NEW kind, NEW g, NEW c, NEW u, NEW name, NEW topic,
           \/ kind \in {"login", "register", "create_character"} /\ topic = BackendMessages
           \/ kind = "get_characters" /\ topic = WorldMessages
           \/ kind = "play_character" /\ \E w \in Worlds : topic = ServerTopic(w),
           Request(kind, g, c, u, name, topic)
    PROVE  Kept'
<1> DEFINE number == Len(asked) + 1
           m == [kind |-> kind, number |-> number, gateway |-> g, client |-> c,
                 origin |-> g, destination |-> ANY, user |-> u, name |-> name]
<1>1. /\ Publish(topic, m) /\ asked' = Append(asked, kind)
      /\ UNCHANGED <<backendVars, worldVars>>
  BY DEF Request
<1>2. m.kind = kind /\ m.number = number
  OBVIOUS
<1> HIDE DEF m
<1>3. /\ \A n \in DOMAIN asked' : n \in DOMAIN asked \/ n = number
      /\ \A n \in DOMAIN asked : asked'[n] = asked[n]
  BY <1>1 DEF Routed, QueuesRouted
<1> HIDE DEF number
<1>4. \A readers \in topic : readers \subseteq Servers /\ \A s \in readers : Fits(s, m)
  <2>1. CASE kind \in {"login", "register", "create_character"} /\ topic = BackendMessages
    BY <1>2, <2>1, ServersApart DEF BackendMessages, Fits, Handled
  <2>2. CASE kind = "get_characters" /\ topic = WorldMessages
    BY <1>2, <2>2, ServersApart DEF WorldMessages, Fits, Handled
  <2>3. CASE kind = "play_character" /\ \E w \in Worlds : topic = ServerTopic(w)
    BY <1>2, <2>3, ServersApart DEF ServerTopic, Fits, Handled
  <2>4. QED
    BY <2>1, <2>2, <2>3
<1>5. QueuesFit' /\ (\A n : Shown(n) => Shown(n)') /\ \A n : n = number => Shown(n)'
  BY <1>1, <1>2, <1>4, PublishShows DEF Routed, Kept
<1>6. /\ \A n : AtBackends(n) => AtBackends(n)'
      /\ \A n : AtWorlds(n) => AtWorlds(n)'
  BY <1>1 DEF AtBackends, AtWorlds, backendVars, worldVars
<1>7. \A n \in DOMAIN asked : Forgotten(n) => Forgotten(n)'
  BY <1>1, <1>3, SettingsStay DEF Forgotten, MaxCharacters
<1>8. \A n \in DOMAIN asked' : asked'[n] = "get_characters" \/ Traced(n)' \/ Forgotten(n)'
  BY <1>3, <1>5, <1>6, <1>7 DEF Kept, Traced
<1>9. QED
  BY <1>5, <1>8 DEF Kept

LEMMA GatewayKept ==
    ASSUME Routed, Kept, crashes = 0, NEW g \in Gateways, NEW c \in Clients, GatewayRequest(g, c)
    PROVE  Kept'
<1>1. ASSUME NEW k \in {"login", "register"}, NEW n \in UserNames,
             Request(k, g, c, 0, n, BackendMessages)
      PROVE  Kept'
  BY <1>1, RequestKept
<1>2. ASSUME NEW u, NEW n, Request("create_character", g, c, u, n, BackendMessages)
      PROVE  Kept'
  BY <1>2, RequestKept
<1>3. ASSUME NEW u, NEW n, NEW w \in Worlds, Request("play_character", g, c, u, n, ServerTopic(w))
      PROVE  Kept'
  BY <1>3, RequestKept
<1>4. ASSUME NEW u, Request("get_characters", g, c, u, "", WorldMessages)
      PROVE  Kept'
  <2>1. PICK name : Request("get_characters", g, c, u, name, WorldMessages)
    BY <1>4
  <2>2. QED
    BY <2>1, RequestKept
<1>5. QED
  BY <1>1, <1>2, <1>3, <1>4 DEF GatewayRequest

LEMMA KeepsKept ==
    ASSUME Kept, crashes = 0, Keeps, UNCHANGED <<asked, settings>>
    PROVE  Kept'
<1>1. \A n : Forgotten(n) => Forgotten(n)'
  BY DEF Forgotten, MaxCharacters
<1>2. QED
  BY <1>1 DEF Kept, Keeps

LEMMA StepCrashes == [Next]_vars => crashes' \in {crashes, crashes + 1}
<1> SUFFICES ASSUME [Next]_vars PROVE crashes' \in {crashes, crashes + 1}
  OBVIOUS
<1>1. ASSUME NEW b, BackendAction(b)
      PROVE  crashes' = crashes
  BY <1>1 DEF BackendAction, BackendStep, BackendTake, BackendLogin, BackendRegister,
         BackendRegistered, BackendCreateCharacter, CommitCount, ForwardCharacter, Error,
         Reply, Publish, Consume, kafkaVars
<1>2. ASSUME NEW w, WorldAction(w)
      PROVE  crashes' = crashes
  BY <1>2 DEF WorldAction, WorldConsumerStep, WorldTake, WorldGetCharacters,
         WorldPlayCharacter, WorldCreateCharacter, WorldError, Enqueued, WorldTick,
         Publish, Consume, kafkaVars
<1>3. ASSUME NEW g, NEW c, GatewayRequest(g, c)
      PROVE  crashes' = crashes
  <2>1. PICK kind, u, name, topic : Request(kind, g, c, u, name, topic)
    BY <1>3 DEF GatewayRequest
  <2>2. QED
    BY <2>1 DEF Request, Publish
<1>4. ASSUME NEW s, Dies(s) \/ CommitOffsets(s)
      PROVE  crashes' \in {crashes, crashes + 1}
  BY <1>4 DEF Dies, BackendCrash, WorldCrash, Redeliver, CommitOffsets
<1>5. QED
  BY <1>1, <1>2, <1>3, <1>4 DEF Next, vars, kafkaVars

LEMMA ActionSettings ==
    ASSUME NEW b, BackendAction(b)
    PROVE  UNCHANGED <<asked, settings>>
  BY DEF BackendAction, BackendStep, BackendTake, BackendLogin, BackendRegister,
     BackendRegistered, BackendCreateCharacter, CommitCount, ForwardCharacter

LEMMA StepKept == Routed /\ crashes \in Nat /\ Kept /\ [Next]_vars => Kept'
<1> SUFFICES ASSUME Routed, crashes \in Nat, Kept, [Next]_vars
             PROVE  Kept'
  OBVIOUS
<1>1. CASE crashes # 0
  <2>1. crashes' \in {crashes, crashes + 1}
    BY StepCrashes
  <2>2. crashes' # 0
    BY <1>1, <2>1
  <2>3. QED
    BY <2>2 DEF Kept
<1>2. CASE crashes = 0
  <2>1. ASSUME NEW g \in Gateways, NEW c \in Clients, GatewayRequest(g, c)
        PROVE  Kept'
    BY <1>2, <2>1, GatewayKept
  <2>2. ASSUME NEW b \in Backends, BackendAction(b)
        PROVE  Kept'
    <3>1. UNCHANGED <<asked, settings>>
      BY <2>2, ActionSettings
    <3>2. QED
      BY <1>2, <2>2, <3>1, BackendKept, KeepsKept DEF BackendAction, Kept
  <2>3. ASSUME NEW w \in Worlds, WorldAction(w)
        PROVE  Kept'
    BY <1>2, <2>3, WorldKept, KeepsKept, SettingsStay DEF WorldAction, Kept
  <2>4. ASSUME NEW s, Dies(s)
        PROVE  Kept'
    <3>1. crashes' = crashes + 1
      BY <2>4 DEF Dies, BackendCrash, WorldCrash, Redeliver
    <3>2. crashes' # 0
      BY <1>2, <3>1
    <3>3. QED
      BY <3>2 DEF Kept
  <2>5. ASSUME UNCHANGED <<inbox, unread, backendVars, worldVars, asked>>
        PROVE  Kept'
    <3>1. QueuesFit' /\ \A n : Shown(n) => Shown(n)'
      BY <1>2, <2>5, QuietShows DEF Kept
    <3>2. \A n : (AtBackends(n) => AtBackends(n)') /\ (AtWorlds(n) => AtWorlds(n)')
      BY <2>5 DEF AtBackends, AtWorlds, backendVars, worldVars
    <3>3. Keeps
      BY <3>1, <3>2 DEF Keeps, Traced
    <3>4. QED
      BY <1>2, <2>5, <3>3, KeepsKept, SettingsStay
  <2>6. CASE UNCHANGED vars
    BY <2>5, <2>6 DEF vars, kafkaVars
  <2>7. ASSUME NEW s, CommitOffsets(s), UNCHANGED <<backendVars, worldVars, asked>>
        PROVE  Kept'
    BY <2>5, <2>7 DEF CommitOffsets
  <2>8. QED
    BY <2>1, <2>2, <2>3, <2>4, <2>6, <2>7 DEF Next
<1>3. QED
  BY <1>1, <1>2

-----------------------------------------------------------------------------
\* On its way: in a queue of a server, in its hands, or in an event.
OnItsWay(n) ==
    \/ \E s \in Backends \cup Worlds : \E k \in DOMAIN inbox[s] : inbox[s][k].number = n
    \/ AtBackends(n)
    \/ AtWorlds(n)

RequestsAreKept == crashes = 0 => \A n \in DOMAIN asked : Settled(n) \/ OnItsWay(n)

LEMMA KeptOrSettled == Routed /\ Kept => RequestsAreKept
<1> SUFFICES ASSUME Routed, Kept, crashes = 0, NEW n \in DOMAIN asked
             PROVE  Settled(n) \/ OnItsWay(n)
  BY DEF RequestsAreKept
<1>1. CASE asked[n] = "get_characters"
  BY <1>1 DEF Settled, OnItsWay
<1>2. CASE Traced(n)
  <2>1. CASE \E m \in unread : m.number = n
    BY <2>1 DEF Settled, Routed, UnreadRouted
  <2>2. CASE AtBackends(n) \/ AtWorlds(n)
    BY <2>2 DEF OnItsWay
  <2>3. ASSUME NEW s \in Servers, NEW k \in DOMAIN inbox[s], inbox[s][k].number = n
        PROVE  Settled(n) \/ OnItsWay(n)
    <3>1. CASE s \in Backends \cup Worlds
      BY <2>3, <3>1 DEF OnItsWay
    <3>2. CASE s \in Gateways
      <4>1. inbox[s][k].origin \in Backends \cup Worlds
        BY <2>3, <3>2 DEF Kept, QueuesFit, Fits
      <4>2. <<s, k>> \in AnswersTo(n, inbox[s][k].origin)
        BY <2>3, <3>2 DEF AnswersTo
      <4>3. QED
        BY <4>1, <4>2 DEF Settled
    <3>3. QED
      BY <3>1, <3>2 DEF Servers
  <2>4. QED
    BY <1>2, <2>1, <2>2, <2>3 DEF Traced, Shown
<1>3. CASE Forgotten(n)
  BY <1>3 DEF Settled, Forgotten
<1>4. QED
  BY <1>1, <1>2, <1>3 DEF Kept

(* While no server has died, no request is forgotten: it is settled, or a  *)
(* server that has a handler for it still has to deal with it, at any      *)
(* moment, for any number of servers and requests and whatever the         *)
(* settings say.  Settled counts what the code does lose: a create_character *)
(* while the limit is no number, and what is Misdirected.                  *)
THEOREM RealmForgetsNothing == Spec => []RequestsAreKept
<1>1. Typed => crashes \in Nat
  BY KafkaAssumption DEF Typed, QueuesTyped
<1>2. Spec => [](crashes \in Nat)
  BY <1>1, AlwaysRouted, InitTyped, StepTyped, PTL DEF Spec
<1>3. Spec => []Kept
  BY <1>2, AlwaysRouted, InitKept, StepKept, PTL DEF Spec
<1>4. QED
  BY <1>3, AlwaysRouted, KeptOrSettled, PTL

(* Nobody who registers is ever a row of users: the ids that clients are   *)
(* told are none of the table's, in any instance and not just in the one   *)
(* where the missing commit was found (backend_register_handler.cpp:87).   *)
THEOREM RegistrationsAreLost == Spec => [](\A m \in Registrations : m.user \notin DOMAIN users)
<1>1. Routed /\ RegisteredIdsAreFresh => \A m \in Registrations : m.user \notin DOMAIN users
  BY DEF Routed, IdsCounted, RegisteredIdsAreFresh
<1>2. QED
  BY <1>1, AlwaysRouted, ToldIdsAreFresh, PTL

=============================================================================
