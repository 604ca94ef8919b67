------------------------------- MODULE Gateway -------------------------------
(***************************************************************************)
(* The gateway process: websocket clients on one side, Kafka topics on the *)
(* other, and between them the table of connections that two threads share *)
(* (gateway/src).  One action per step of a thread:                        *)
(*   - the uws thread runs the websocket callbacks and the client handlers *)
(*     on a COPY of the table's entry;                                     *)
(*   - the consumer thread looks an entry up under the table's lock, drops *)
(*     the lock, and runs the server handlers on a REFERENCE to its slot;  *)
(*   - the main thread starts and stops the producer and the others.       *)
(* The table is kept slot by slot, because a reference names a slot and    *)
(* not the connection that was in it when the lock was held.               *)
(***************************************************************************)
EXTENDS Naturals, Sequences, FiniteSets

CONSTANTS
    Sockets,      \* the clients' websockets; a closed one may connect again
    Keys, KeyOf,  \* KeyOf[w]: address and port of w, written one after the other
    Slots,        \* the slots of the connection table
    Free,         \* what an empty slot holds
    Users,        \* user names, which stand for the user ids too
    NoUser,       \* the empty user name, and user id 0
    Admins,       \* the users with admin_status 1
    Names,        \* names of characters
    Worlds,       \* world servers: each is named by its own topic
    Origin,       \* server_origin_id of this gateway
    All,          \* the chat target "all"
    Kinds,        \* the kinds of messages the clients send
    MaxIds,       \* bound: connections accepted by one run of the process
    MaxFrames,    \* bound: messages the clients send
    MaxLater,     \* bound: messages sent by the time there is a second connection
    MaxRestarts   \* bound: crashes of the process

ASSUME GatewayAssumption ==
    /\ KeyOf \in [Sockets -> Keys]
    /\ Admins \subseteq Users
    /\ NoUser \notin Users
    /\ MaxIds \in Nat /\ MaxFrames \in Nat /\ MaxRestarts \in Nat
    /\ MaxLater \in Nat

VARIABLES
    open,     \* the websockets that are connected
    slots,    \* user_connection's by slot
    nextId,   \* user_connection::idCounter
    uws,      \* the uws thread: its place, socket, message and copied entry
    cons,     \* the consumer thread: its place, message and referenced slot
    main,     \* the main thread's place
    producer, \* the Kafka producer
    quit,     \* the flag all threads poll
    topic,    \* the Kafka topics, from the next message to be consumed on
    uncommitted, \* messages consumed whose offsets are not committed yet
    out,      \* frames the last step sent to websockets
    frames,   \* how many messages the clients have sent
    gen,      \* how often the process was started before
    signalled, \* history: SIGINT arrived in this run
    adminSeen \* history: an admin's login reply was dispatched, in any run

vars == <<open, slots, nextId, uws, cons, main, producer, quit, topic, uncommitted,
          out, frames, gen, signalled, adminSeen>>

-----------------------------------------------------------------------------
(* Messages.  sender.client_id is client; gen is history: the run of the   *)
(* process that the request came from, which no message really carries.    *)

LoginKinds == {"login", "register"}
ResponseKinds == {"login_response", "register_response"}

MessageKinds ==
    LoginKinds \cup ResponseKinds
    \cup {"chat_send", "create_character", "get_characters", "play_character", "quit",
          "error_response", "get_characters_response", "send_map"}

Bodies == Seq(Names \cup Users \cup {All, "banned", "failed"})

Messages == [kind : MessageKinds, client : Nat, gen : Nat, origin : {Origin} \cup Worlds,
             user : Users \cup {NoUser}, body : Bodies]

Topics == {"backend_messages", "world_messages", "chat_messages", "broadcast",
           "gateway"} \cup Worlds

\* The topics the consumer thread subscribes to ("gateway" is server-<id>).
Subscribed == {"gateway", "chat_messages", "broadcast"}

Message(kind, client, user, body) ==
    [kind |-> kind, client |-> client, gen |-> gen, origin |-> Origin,
     user |-> user, body |-> body]

(* What clients send: a sender the gateway forwards as it is in admin_quit  *)
(* and replaces in all others, and a name as the message needs it.         *)
ClientFrames ==
    LET Frame(ks, us, bs) ==
            {[kind |-> k, client |-> 0, user |-> u, body |-> b] :
                k \in ks \cap Kinds, u \in us, b \in bs}
    IN  Frame(LoginKinds, Users, {<<>>})
        \cup Frame({"chat_send"}, {NoUser}, {<<t>> : t \in Users \cup {All}})
        \cup Frame({"create_character", "play_character"}, {NoUser},
                   {<<n>> : n \in Names})
        \cup Frame({"get_characters", "malformed"}, {NoUser}, {<<>>})
        \cup {[kind |-> k, client |-> i, user |-> NoUser, body |-> <<>>] :
                 k \in Kinds \cap {"quit"}, i \in 0 .. MaxIds - 1}

-----------------------------------------------------------------------------
(* The connection table.                                                   *)

States == {"UNKNOWN", "REGISTERING_OR_LOGGING_IN", "LOGGED_IN"}

Characters == [server : Worlds \cup {Origin}, name : Names]

(* by and held are history: the reply that logged the connection in, and   *)
(* whether it was put into a slot the consumer thread held a reference to. *)
Unanswered == <<>>

\* Mutant: the constructor leaves state uninitialized.
NewConnectionUninitialized(w, i, h) ==
    [ws |-> w, connection_id |-> i, state |-> "", admin |-> FALSE,
     username |-> NoUser, user |-> NoUser, player_characters |-> <<>>,
     by |-> Unanswered, held |-> h]

NewConnection(w, i, h) ==
    [ws |-> w, connection_id |-> i, state |-> "UNKNOWN", admin |-> FALSE,
     username |-> NoUser, user |-> NoUser, player_characters |-> <<>>,
     by |-> Unanswered, held |-> h]

Connections ==
    [ws : Sockets, connection_id : Nat, state : States, admin : BOOLEAN,
     username : Users \cup {NoUser}, user : Users \cup {NoUser},
     player_characters : Seq(Characters),
     by : {Unanswered} \cup [client : Nat, gen : Nat], held : BOOLEAN]

ASSUME FreeAssumption == Free \notin Connections

(* The three fields that gateway_login_response_handler and                 *)
(* gateway_register_response_handler write into the connection.            *)
ResponseFields == {"state", "admin", "user"}

Used(s) == slots[s] # Free
UsedSlots == {s \in Slots : Used(s)}
Registered(k) == {s \in UsedSlots : KeyOf[slots[s].ws] = k}

\* cuckoohash_map::erase: the entry of the key, whoever's it is.
Erased(k) == [s \in Slots |-> IF s \in Registered(k) THEN Free ELSE slots[s]]

(* What a client handler leaves in the table after it ran on entry c of    *)
(* slot s: nothing, because onMessage looked the entry up by value.        *)
TableAfterHandler(s, c) == slots

\* Closing a websocket runs onDisconnection at once, on the calling thread.
Terminate(w) ==
    /\ open' = open \ {w}
    /\ slots' = Erased(KeyOf[w])

(* A frame sent through entry c on behalf of message m; out keeps the ones  *)
(* of the last step.                                                       *)
Frame(c, kind, m) ==
    [ws |-> c.ws, to |-> [client |-> c.connection_id, gen |-> gen],
     held |-> c.held, kind |-> kind, for |-> [client |-> m.client, gen |-> m.gen]]

Init ==
    /\ open = {}
    /\ slots = [s \in Slots |-> Free]
    /\ nextId = 0
    /\ uws = [pc |-> "poll"]
    /\ cons = [pc |-> "poll"]
    /\ main = "poll"
    /\ producer = "open"
    /\ quit = FALSE
    /\ topic = [t \in Topics |-> <<>>]
    /\ uncommitted = [t \in Subscribed |-> <<>>]
    /\ out = {}
    /\ frames = 0
    /\ gen = 0
    /\ signalled = FALSE
    /\ adminSeen = FALSE

\* No thread runs once main has returned.
Running == main # "returned"

-----------------------------------------------------------------------------
(* The uws thread: callbacks of h.poll(), one at a time.                   *)

\* Of ids accepted and messages sent: one connection may send more than several do.
Bounded(ids, sent) == ids > 1 => sent <= MaxLater

notUws == <<uncommitted, cons, main, producer, quit, gen, signalled, adminSeen>>

\* Mutant: onConnection does not look for the key first.
AcceptUnchecked(w) ==
    /\ Running /\ uws.pc = "poll" /\ w \notin open
    /\ nextId < MaxIds /\ Bounded(nextId + 1, frames)
    /\ \E s \in Slots \ UsedSlots :
          slots' = [slots EXCEPT ![s] =
                       NewConnection(w, nextId, cons.pc = "dispatch" /\ cons.slot = s)]
    /\ open' = open \cup {w}
    /\ nextId' = nextId + 1
    /\ out' = {}
    /\ UNCHANGED <<uws, topic, frames, notUws>>

\* onConnection of a socket whose key is not in the table.
Accept(w) ==
    /\ Running /\ uws.pc = "poll" /\ w \notin open
    /\ nextId < MaxIds /\ Bounded(nextId + 1, frames)
    /\ Registered(KeyOf[w]) = {}
    /\ \E s \in Slots \ UsedSlots :
          slots' = [slots EXCEPT ![s] =
                       NewConnection(w, nextId, cons.pc = "dispatch" /\ cons.slot = s)]
    /\ open' = open \cup {w}
    /\ nextId' = nextId + 1
    /\ out' = {}
    /\ UNCHANGED <<uws, topic, frames, notUws>>

(* onConnection of a socket whose key is: the new one is terminated, which  *)
(* runs onDisconnection and so erases the entry that was there.            *)
Refuse(w) ==
    /\ Running /\ uws.pc = "poll" /\ w \notin open
    /\ Registered(KeyOf[w]) # {}
    /\ Terminate(w)
    /\ out' = {}
    /\ UNCHANGED <<nextId, uws, topic, frames, notUws>>

\* onDisconnection: the client went away.
Disconnect(w) ==
    /\ Running /\ uws.pc = "poll" /\ w \in open
    /\ Terminate(w)
    /\ out' = {}
    /\ UNCHANGED <<nextId, uws, topic, frames, notUws>>

\* onMessage, up to the copy: the entry is copied under the table's lock ...
OnMessage(w, f) ==
    /\ Running /\ uws.pc = "poll" /\ w \in open
    /\ frames < MaxFrames /\ Bounded(nextId, frames + 1)
    /\ \E s \in Registered(KeyOf[w]) :
          uws' = [pc |-> "handle", ws |-> w, frame |-> f, slot |-> s, conn |-> slots[s]]
    /\ frames' = frames + 1
    /\ out' = {}
    /\ UNCHANGED <<open, slots, nextId, topic, notUws>>

\* ... or, when there is none, the socket is terminated.
OnMessageUnregistered(w) ==
    /\ Running /\ uws.pc = "poll" /\ w \in open
    /\ Registered(KeyOf[w]) = {}
    /\ frames < MaxFrames /\ Bounded(nextId, frames + 1)
    /\ Terminate(w)
    /\ frames' = frames + 1
    /\ out' = {}
    /\ UNCHANGED <<nextId, uws, topic, notUws>>

(* kafka_producer::enqueue_message, at the end of a client handler that     *)
(* left its copy as c: appended, dropped while the producer closes, or     *)
(* thrown back once it is closed, and then onMessage erases the entry and  *)
(* terminates the socket.                                                  *)
Enqueue(t, m, c) ==
    \/ /\ producer = "open"
       /\ topic' = [topic EXCEPT ![t] = Append(@, m)]
       /\ slots' = TableAfterHandler(uws.slot, c)
       /\ UNCHANGED open
    \/ /\ producer = "closing"
       /\ slots' = TableAfterHandler(uws.slot, c)
       /\ UNCHANGED <<open, topic>>
    \/ /\ producer = "closed"
       /\ Terminate(uws.ws)
       /\ UNCHANGED topic

\* An error frame to the client itself, and nothing else.
Reject ==
    /\ out' = {Frame(uws.conn, "error",
                     [client |-> uws.conn.connection_id, gen |-> gen])}
    /\ UNCHANGED <<open, slots, topic>>

Handling(ks) == Running /\ uws.pc = "handle" /\ uws.frame.kind \in ks

HandlerReturns ==
    /\ uws' = [pc |-> "poll"]
    /\ UNCHANGED <<nextId, frames, notUws>>

(* client_login_handler and client_register_handler.  The second test of    *)
(* the state, "prevent DoS", comes after the first and is never reached.   *)
ClientLogin ==
    /\ Handling(LoginKinds)
    /\ \/ uws.conn.state # "UNKNOWN" /\ Reject
       \/ /\ uws.conn.state = "UNKNOWN"
          /\ Enqueue("backend_messages",
                     Message(uws.frame.kind, uws.conn.connection_id, uws.frame.user, <<>>),
                     [uws.conn EXCEPT !.username = uws.frame.user,
                                      !.state = "REGISTERING_OR_LOGGING_IN"])
          /\ out' = {}
    /\ HandlerReturns

LoggedIn(c) == c.state = "LOGGED_IN"

ClientChatSend ==
    /\ Handling({"chat_send"})
    /\ \/ ~LoggedIn(uws.conn) /\ Reject
       \/ /\ LoggedIn(uws.conn)
          /\ Enqueue("chat_messages",
                     Message("chat_send", uws.conn.connection_id, uws.conn.username,
                             uws.frame.body),
                     uws.conn)
          /\ out' = {}
    /\ HandlerReturns

\* Mutant: the handler does not ask for a login.
ClientCreateCharacterUnguarded ==
    /\ Handling({"create_character"})
    /\ Enqueue("backend_messages",
               Message("create_character", uws.conn.connection_id, uws.conn.user,
                       uws.frame.body),
               uws.conn)
    /\ out' = {}
    /\ HandlerReturns

ClientCreateCharacter ==
    /\ Handling({"create_character"})
    /\ \/ ~LoggedIn(uws.conn) /\ Reject
       \/ /\ LoggedIn(uws.conn)
          /\ Enqueue("backend_messages",
                     Message("create_character", uws.conn.connection_id, uws.conn.user,
                             uws.frame.body),
                     uws.conn)
          /\ out' = {}
    /\ HandlerReturns

\* player_characters.clear() is done to the copy.
ClientGetCharacters ==
    /\ Handling({"get_characters"})
    /\ \/ ~LoggedIn(uws.conn) /\ Reject
       \/ /\ LoggedIn(uws.conn)
          /\ Enqueue("world_messages",
                     Message("get_characters", uws.conn.connection_id, uws.conn.user, <<>>),
                     [uws.conn EXCEPT !.player_characters = <<>>])
          /\ out' = {}
    /\ HandlerReturns

\* The first character of that name the connection was told of, as find_if finds it.
Owned(c, n) ==
    {i \in DOMAIN c.player_characters :
        /\ c.player_characters[i].name = n
        /\ \A j \in 1 .. i - 1 : c.player_characters[j].name # n}

ClientPlayCharacter ==
    /\ Handling({"play_character"})
    /\ LET name  == uws.frame.body[1]
           owned == Owned(uws.conn, name)
       IN  \/ (~LoggedIn(uws.conn) \/ owned = {}) /\ Reject
           \/ /\ LoggedIn(uws.conn)
              /\ \E i \in owned :
                    Enqueue(uws.conn.player_characters[i].server,
                            Message("play_character", uws.conn.connection_id,
                                    uws.conn.user, <<name>>),
                            uws.conn)
              /\ out' = {}
    /\ HandlerReturns

\* Mutant: the handler does not ask for an administrator.
ClientAdminQuitUnguarded ==
    /\ Handling({"quit"})
    /\ Enqueue("broadcast", Message("quit", uws.frame.client, NoUser, <<>>), uws.conn)
    /\ out' = {}
    /\ HandlerReturns

\* The client's message goes out as it came, with the client_id it came with.
ClientAdminQuit ==
    /\ Handling({"quit"})
    /\ \/ /\ ~uws.conn.admin
          /\ UNCHANGED <<open, slots, topic>>
       \/ /\ uws.conn.admin
          /\ Enqueue("broadcast", Message("quit", uws.frame.client, NoUser, <<>>), uws.conn)
    /\ out' = {}
    /\ HandlerReturns

\* deserialize throws: the entry is erased and the socket terminated.
Malformed ==
    /\ Handling({"malformed"})
    /\ Terminate(uws.ws)
    /\ out' = {}
    /\ UNCHANGED topic
    /\ HandlerReturns

UwsStops ==
    /\ Running /\ uws.pc = "poll" /\ quit
    /\ uws' = [pc |-> "stopped"]
    /\ out' = {}
    /\ UNCHANGED <<open, slots, nextId, topic, frames, notUws>>

UwsStep ==
    \/ ClientLogin \/ ClientChatSend \/ ClientCreateCharacter \/ ClientGetCharacters
    \/ ClientPlayCharacter \/ ClientAdminQuit \/ Malformed \/ UwsStops

ClientStep ==
    \E w \in Sockets :
        \/ Accept(w) \/ Refuse(w) \/ Disconnect(w) \/ OnMessageUnregistered(w)
        \/ \E f \in ClientFrames : OnMessage(w, f)

-----------------------------------------------------------------------------
(* The consumer thread.                                                    *)

notCons == <<nextId, uws, main, producer, frames, gen, signalled>>

\* The loop tests quit each time it comes round.
LoopTop(q) == cons' = [pc |-> IF q THEN "stopped" ELSE "poll"]

ConsumerOpen == main \in {"poll", "closing_producer", "closing_consumer"}

(* try_get_message returns the next message of a topic.  (What is not       *)
(* committed matters, and is kept, only if the process can still die.)     *)
Take(t) ==
    /\ Running /\ ConsumerOpen /\ cons.pc = "poll" /\ topic[t] # <<>>
    /\ topic' = [topic EXCEPT ![t] = Tail(@)]
    /\ uncommitted' = IF gen = MaxRestarts THEN uncommitted
                      ELSE [uncommitted EXCEPT ![t] = Append(@, Head(topic[t]))]

(* librdkafka commits the offsets of what it handed out from time to time,  *)
(* and kafka_consumer::close does.                                         *)
NothingUncommitted == [t \in Subscribed |-> <<>>]

CommitOffsets ==
    /\ Running /\ uncommitted # NothingUncommitted
    /\ uncommitted' = NothingUncommitted
    /\ out' = {}
    /\ UNCHANGED <<open, slots, cons, quit, topic, notCons, adminSeen>>

\* Mutant: the comparison takes a later connection for the one asked for.
MatchesLater(m) == {s \in UsedSlots : slots[s].connection_id >= m.client}

\* What find_if over the locked table looks for.
Matches(m) == {s \in UsedSlots : slots[s].connection_id = m.client}

\* ... nobody has the connection id any more: continue, which drops it ...
Drop(t) ==
    /\ Take(t)
    /\ Matches(Head(topic[t])) = {}
    /\ LoopTop(quit)
    /\ out' = {}
    /\ UNCHANGED <<open, slots, quit, notCons, adminSeen>>

\* ... or the lock is released and a reference to the entry is kept.
Lookup(t) ==
    /\ Take(t)
    /\ LET m == Head(topic[t])
       IN  \E s \in Matches(m) :
              cons' = [pc |-> "dispatch", msg |-> m, slot |-> s,
                       todo |-> IF m.kind \in ResponseKinds THEN ResponseFields ELSE {}]
    /\ out' = {}
    /\ UNCHANGED <<open, slots, quit, notCons, adminSeen>>

\* Nothing arrived within 50 ms, or the consumer is closed.
PollNothing ==
    /\ Running /\ cons.pc = "poll" /\ quit
    /\ cons' = [pc |-> "stopped"]
    /\ out' = {}
    /\ UNCHANGED <<open, slots, quit, topic, uncommitted, notCons, adminSeen>>

Dispatching(ks) == Running /\ cons.pc = "dispatch" /\ cons.msg.kind \in ks

(* Writing through a reference whose entry was erased is undefined: the     *)
(* write is lost with the slot's old contents, or is found by whoever was  *)
(* inserted there since.                                                   *)
Through(s, new) == [slots EXCEPT ![s] = IF Used(s) THEN new ELSE Free]

\* Mutant: every connection gets the frame.
SendToAll(kind) == out' = {Frame(slots[s], kind, cons.msg) : s \in UsedSlots}

\* Sending through it reaches the socket of whoever is there now, if anyone.
SendThrough(kind) ==
    out' = {Frame(slots[s], kind, cons.msg) : s \in {cons.slot} \cap UsedSlots}

\* Mutant: the user id is not copied from the reply.
WrittenWithoutUser(c, f, m) ==
    CASE f = "state" -> [c EXCEPT !.state = "LOGGED_IN",
                                  !.by = [client |-> m.client, gen |-> m.gen]]
      [] f = "admin" -> [c EXCEPT !.admin = (m.user \in Admins)]
      [] f = "user"  -> c

Written(c, f, m) ==
    CASE f = "state" -> [c EXCEPT !.state = "LOGGED_IN",
                                  !.by = [client |-> m.client, gen |-> m.gen]]
      [] f = "admin" -> [c EXCEPT !.admin = (m.user \in Admins)]
      [] f = "user"  -> [c EXCEPT !.user = m.user]

(* They do it without the lock; the uws thread may copy the entry between   *)
(* any two of the writes, which the compiler may order as it likes.        *)
WriteResponse(f) ==
    /\ Dispatching(ResponseKinds)
    /\ f \in cons.todo
    /\ slots' = Through(cons.slot, Written(slots[cons.slot], f, cons.msg))
    /\ cons' = [cons EXCEPT !.todo = @ \ {f}]
    /\ adminSeen' = (adminSeen \/ cons.msg.user \in Admins)
    /\ out' = {}
    /\ UNCHANGED <<open, quit, topic, uncommitted, notCons>>

SendResponse ==
    /\ Dispatching(ResponseKinds)
    /\ cons.todo = {}
    /\ SendThrough(cons.msg.kind)
    /\ LoopTop(quit)
    /\ UNCHANGED <<open, slots, quit, topic, uncommitted, notCons, adminSeen>>

\* Mutant: an error takes the connection back to where it may log in again.
ErrorResponseResets ==
    /\ Dispatching({"error_response"})
    /\ SendThrough("error")
    /\ slots' = Through(cons.slot, [slots[cons.slot] EXCEPT !.state = "UNKNOWN"])
    /\ LoopTop(quit)
    /\ UNCHANGED <<open, quit, topic, uncommitted, notCons, adminSeen>>

\* gateway_error_response_handler: error -2, banned, also closes the socket.
GatewayErrorResponse ==
    /\ Dispatching({"error_response"})
    /\ SendThrough("error")
    /\ \/ /\ cons.msg.body = <<"banned">> /\ Used(cons.slot)
          /\ Terminate(slots[cons.slot].ws)
       \/ /\ cons.msg.body # <<"banned">> \/ ~Used(cons.slot)
          /\ UNCHANGED <<open, slots>>
    /\ LoopTop(quit)
    /\ UNCHANGED <<quit, topic, uncommitted, notCons, adminSeen>>

\* The characters of the reply, with the world it came from, after those known.
Listed(c, m) ==
    LET new == [i \in DOMAIN m.body |-> [server |-> m.origin, name |-> m.body[i]]]
    IN  [c EXCEPT !.player_characters = @ \o new]

GatewayGetCharactersResponse ==
    /\ Dispatching({"get_characters_response"})
    /\ slots' = Through(cons.slot, Listed(slots[cons.slot], cons.msg))
    /\ SendThrough("get_characters_response")
    /\ LoopTop(quit)
    /\ UNCHANGED <<open, quit, topic, uncommitted, notCons, adminSeen>>

GatewaySendMap ==
    /\ Dispatching({"send_map"})
    /\ SendThrough("send_map")
    /\ LoopTop(quit)
    /\ UNCHANGED <<open, slots, quit, topic, uncommitted, notCons, adminSeen>>

\* Who gateway_chat_send_handler, holding the lock again, sends a chat to.
Audience(target) ==
    LET logged == {s \in UsedSlots : LoggedIn(slots[s])}
        called == {s \in logged : slots[s].username = target}
    IN  IF target = All THEN {logged}
        ELSE IF called = {} THEN {{}} ELSE {{s} : s \in called}

GatewayChatSend ==
    /\ Dispatching({"chat_send"})
    /\ \E to \in Audience(cons.msg.body[1]) :
          out' = {Frame(slots[s], "chat_receive", cons.msg) : s \in to}
    /\ LoopTop(quit)
    /\ UNCHANGED <<open, slots, quit, topic, uncommitted, notCons, adminSeen>>

GatewayQuit ==
    /\ Dispatching({"quit"})
    /\ quit' = TRUE
    /\ LoopTop(TRUE)
    /\ out' = {}
    /\ UNCHANGED <<open, slots, topic, uncommitted, notCons, adminSeen>>

ConsumerStep ==
    \/ \E t \in Subscribed : Drop(t) \/ Lookup(t)
    \/ \E f \in ResponseFields : WriteResponse(f)
    \/ PollNothing \/ SendResponse \/ GatewayErrorResponse
    \/ GatewayGetCharactersResponse \/ GatewaySendMap \/ GatewayChatSend \/ GatewayQuit

-----------------------------------------------------------------------------
(* The main thread, and the signal handler.                                *)

notMain == <<open, slots, nextId, uws, cons, topic, frames, gen, adminSeen>>

Sigint ==
    /\ Running /\ ~quit
    /\ quit' = TRUE /\ signalled' = TRUE
    /\ out' = {}
    /\ UNCHANGED <<main, producer, uncommitted, notMain>>

MainMoves(from, to, p) ==
    /\ main = from
    /\ main' = to
    /\ producer' = p
    /\ out' = {}
    /\ UNCHANGED <<quit, signalled, notMain>>

MainLoopEnds ==
    /\ quit
    /\ MainMoves("poll", "closing_producer", "closing")
    /\ UNCHANGED uncommitted

MainProducerClosed ==
    /\ MainMoves("closing_producer", "closing_consumer", "closed")
    /\ UNCHANGED uncommitted

MainConsumerClosed ==
    /\ MainMoves("closing_consumer", "waiting", producer)
    /\ uncommitted' = NothingUncommitted

\* uwsQuit is set, or two seconds have passed.
MainWaited ==
    /\ MainMoves("waiting", "joining", producer)
    /\ UNCHANGED uncommitted

\* The consumer thread is joined; the uws thread too, or else detached.
MainReturns ==
    /\ cons.pc = "stopped"
    /\ MainMoves("joining", "returned", producer)
    /\ UNCHANGED uncommitted

MainStep ==
    \/ MainLoopEnds \/ MainProducerClosed \/ MainConsumerClosed
    \/ MainWaited \/ MainReturns

(* The process dies and is started again.  The topics outlive it, and what  *)
(* it consumed since it last committed offsets is delivered again.         *)
Restart ==
    /\ gen < MaxRestarts
    /\ gen' = gen + 1
    /\ open' = {}
    /\ slots' = [s \in Slots |-> Free]
    /\ nextId' = 0
    /\ uws' = [pc |-> "poll"]
    /\ cons' = [pc |-> "poll"]
    /\ main' = "poll"
    /\ producer' = "open"
    /\ quit' = FALSE /\ signalled' = FALSE
    /\ topic' = [t \in Topics |->
                    IF t \in Subscribed THEN uncommitted[t] \o topic[t] ELSE topic[t]]
    /\ uncommitted' = NothingUncommitted
    /\ out' = {}
    /\ UNCHANGED <<frames, adminSeen>>

=============================================================================
