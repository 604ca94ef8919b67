------------------------------ MODULE Servers ------------------------------
(***************************************************************************)
(* The process of a server (main.cpp of backend, world and gateway) from   *)
(* its configuration to its end: main starts the producer and the threads, *)
(* polls, and closes what the threads still use.  The consumer thread      *)
(* reads messages, the world thread turns events into messages at its      *)
(* ticks.  What the handlers decide is in Backend, World and Gateway; the  *)
(* producer's queue, its topics and its brokers are in KafkaProducer.      *)
(***************************************************************************)
EXTENDS Messages, TiledMap, Integers

CONSTANTS
    TickLength,   \* TICK_LENGTH of the configuration, in units of the clock
    MapSizes,     \* widths and heights of the map, which the code fixes to 100 by 100
    Arriving,     \* the classes of the messages on the server's topics
    MaxMessages,  \* bound: how many there are
    MaxLag        \* bound: how late a tick may be

VARIABLES
    kind, env,                       \* which server, and its .env file
    fate,                            \* what became of the process
    quit, uwsQuit,                   \* the flags between the threads
    main, reader, ticker, hub,       \* where the threads are
    producer, consumer, closing,     \* _producer, _consumer and its _closing
    inbox, arrived,                  \* what the consumer has not consumed; history: how many came
    got,                             \* what try_get_message returned; history: what was meant
    call, sending,                   \* where each thread is in enqueue_message, and its message
    sent,                            \* history: the buffers for brokers and sockets
    events,                          \* player_event_queue: where is the player
    map,                             \* the map the world loaded
    next, second,                    \* next_tick and second_next_tick, from now
    phase,                           \* history: the time since the first schedule, modulo TickLength
    behind                           \* history: the ticks that were due, less those that were run

process == <<kind, env>>
flags == <<quit, uwsQuit>>
threads == <<main, reader, ticker, hub>>
kafka == <<producer, consumer, closing>>
calls == <<call, sending>>
data == <<inbox, arrived, got, sent, events>>
schedule == <<map, next, second, phase, behind>>
vars == <<process, fate, flags, threads, kafka, calls, data, schedule>>

\* The threads that enqueue messages.
Callers == {"reader", "ticker", "hub"}

ASSUME ServersAssumption ==
    /\ TickLength \in Nat \ {0} /\ MaxLag \in Nat /\ MaxMessages \in Nat
    /\ MapSizes \subseteq (Nat \X Nat) /\ Arriving \subseteq Classes

\* LZ4 makes bytes of the tiles of any map that is loaded, and the tiles of them again.
ASSUME CompressionAssumption ==
    \A size \in MapSizes : \A k \in DOMAIN Loaded(size[1], size[2]).layers :
        LET bytes == TileBytes(Loaded(size[1], size[2]).layers[k])
        IN  Compressed(bytes) \in Seq(0 .. 255) /\ Decompressed(Compressed(bytes)) = bytes

-----------------------------------------------------------------------------
(* The configuration.                                                      *)

\* The keys that parse_env_file of each server asks for.
BackendKeys == {"BROKER_LIST", "GROUP_ID", "SERVER_ID", "CONNECTION_STRING", "DEBUG_LEVEL"}
GatewayKeys == {"BROKER_LIST", "GROUP_ID", "SERVER_ID", "CONNECTION_STRING", "DEBUG_LEVEL"}
WorldKeys == {"BROKER_LIST", "GROUP_ID", "SERVER_ID", "CONNECTION_STRING", "DEBUG_LEVEL",
              "WORLD_NAME", "TICK_LENGTH"}

Keys(k) == CASE k = "backend" -> BackendKeys
             [] k = "gateway" -> GatewayKeys
             [] k = "world" -> WorldKeys

\* A file may be absent or not be JSON, lack a key, or have an empty list or group.
Environments(k) ==
    [file : {"absent", "malformed"}, keys : {{}}, blank : {{}}, server_id : {0}]
    \cup [file : {"json"}, keys : {Keys(k)} \cup {Keys(k) \ {key} : key \in Keys(k)},
          blank : {{}, {"BROKER_LIST"}, {"GROUP_ID"}}, server_id : {0, 1}]

\* Does parse_env_file return a configuration?
Parsed == env.file = "json" /\ env.keys = Keys(kind) /\ env.server_id # 0

Init ==
    /\ kind \in {"backend", "world", "gateway"}
    /\ env \in Environments(kind)
    /\ fate = "running" /\ quit = FALSE /\ uwsQuit = FALSE
    /\ main = "configure" /\ reader = "none" /\ ticker = "none" /\ hub = "none"
    /\ producer = "none" /\ consumer = "none" /\ closing = FALSE
    /\ call = [t \in Callers |-> "none"] /\ sending = [t \in Callers |-> <<>>]
    /\ inbox = <<>> /\ arrived = 0 /\ got = <<>> /\ sent = {} /\ events = <<>>
    /\ map = <<>> /\ next = 0 /\ second = 0 /\ phase = 0 /\ behind = 0

Ends(how) ==
    /\ fate' = how
    /\ UNCHANGED <<process, flags, threads, kafka, calls, data, schedule>>

\* One thread goes on, if it is not in enqueue_message; the rest of its step is said beside it.
MainAt(from) == fate = "running" /\ main = from
MainTo(to) ==
    main' = to /\ UNCHANGED <<process, fate, reader, ticker, hub, calls, data, schedule>>
ReaderAt(from) == fate = "running" /\ reader = from /\ call["reader"] = "none"
ReaderTo(to) == reader' = to /\ UNCHANGED <<process, fate, main, ticker, hub, uwsQuit, schedule>>
TickerAt(from) == fate = "running" /\ ticker = from /\ call["ticker"] = "none"
TickerTo(to) == ticker' = to /\ UNCHANGED <<process, fate, flags, main, reader, hub, kafka>>
HubAt(from) == fate = "running" /\ hub = from /\ call["hub"] = "none"

-----------------------------------------------------------------------------
(* main, until it polls.                                                   *)

Configure ==
    /\ MainAt("configure")
    /\ \/ Parsed /\ MainTo("prepare") /\ UNCHANGED <<flags, kafka>>
       \/ ~Parsed /\ Ends("returned 1")

\* The backend needs entropy and libsodium.
PrepareBackend ==
    /\ MainAt("prepare") /\ kind = "backend"
    /\ \/ MainTo("start") /\ UNCHANGED <<flags, kafka>>
       \/ Ends("returned 1")

\* Nothing catches what create_connections throws.
PrepareWorld ==
    /\ MainAt("prepare") /\ kind = "world"
    /\ \/ MainTo("start") /\ UNCHANGED <<flags, kafka>>
       \/ Ends("terminated")

PrepareGateway ==
    /\ MainAt("prepare") /\ kind = "gateway"
    /\ MainTo("start") /\ UNCHANGED <<flags, kafka>>

\* Only the gateway starts its producer inside the try block.
StartProducer ==
    /\ MainAt("start")
    /\ \/ /\ "BROKER_LIST" \notin env.blank
          /\ producer' = "open" /\ main' = "poll" /\ reader' = "start"
          /\ ticker' = IF kind = "world" THEN "load" ELSE "none"
          /\ hub' = IF kind = "gateway" THEN "listen" ELSE "none"
          /\ UNCHANGED <<process, fate, flags, consumer, closing, calls, data, schedule>>
       \/ Ends(IF kind = "gateway" THEN "returned 0" ELSE "terminated")

\* on_sigint, once init_extras has set it.
Signal ==
    /\ fate = "running" /\ main # "configure" /\ ~quit
    /\ quit' = TRUE
    /\ UNCHANGED <<process, fate, uwsQuit, threads, kafka, calls, data, schedule>>

-----------------------------------------------------------------------------
(* main, when quit is set.                                                 *)

CloseProducer ==
    /\ MainAt("poll") /\ quit
    /\ producer' = "closing"
    /\ MainTo("flush") /\ UNCHANGED <<flags, consumer, closing>>

\* The queue is empty, or two seconds are over: the topics go, and the producer.
ProducerCloses ==
    /\ MainAt("flush")
    /\ producer' = "none"
    /\ MainTo(IF kind = "gateway" THEN "close" ELSE "join")
    /\ UNCHANGED <<flags, consumer, closing>>

\* kafka_consumer::close, which only the gateway's main calls while the thread runs.
CloseConsumer ==
    /\ MainAt("close")
    /\ closing' = (consumer = "open")
    /\ MainTo(IF consumer = "open" THEN "commit" ELSE "wait")
    /\ UNCHANGED <<flags, producer, consumer>>

\* _consumer.reset(), after commitSync and the wait.
ConsumerCloses ==
    /\ MainAt("commit")
    /\ consumer' = "none"
    /\ MainTo("closed") /\ UNCHANGED <<flags, producer, closing>>

ClosingEnds ==
    /\ MainAt("closed")
    /\ closing' = FALSE
    /\ MainTo("wait") /\ UNCHANGED <<flags, producer, consumer>>

\* Mutant: no limit to the wait.
WaitForHub ==
    /\ MainAt("wait") /\ uwsQuit
    /\ MainTo("join") /\ UNCHANGED <<flags, kafka>>

\* The websocket thread has left its loop, or two seconds are over.
Waited ==
    /\ MainAt("wait")
    /\ MainTo("join") /\ UNCHANGED <<flags, kafka>>

(* The websocket thread is detached if it is late, and main's Hub goes      *)
(* with main.                                                              *)
Joined ==
    /\ MainAt("join")
    /\ reader = "done" /\ ticker \in {"none", "done"}
    /\ \/ Ends("returned 0")
       \/ hub \in {"listen", "poll"} /\ ~uwsQuit /\ Ends("crashed")

-----------------------------------------------------------------------------
(* The websocket thread of the gateway.  Gateway has its callbacks.         *)

Listen ==
    /\ HubAt("listen")
    /\ hub' \in {"poll", "gone"}
    /\ UNCHANGED <<process, fate, flags, main, reader, ticker, kafka, calls, data, schedule>>

HubStops ==
    /\ HubAt("poll") /\ quit
    /\ hub' = "gone" /\ uwsQuit' = TRUE
    /\ UNCHANGED <<process, fate, quit, main, reader, ticker, kafka, calls, data, schedule>>

-----------------------------------------------------------------------------
(* Messages.  The value of a field is its name, a map's is its text.        *)

Values(class) ==
    [f \in {"sender"} \cup {class.fields[k].name : k \in DOMAIN class.fields} |-> <<f>>]
Some(class) == Message(class.id, Values(class))
MapMessage == Message(SendMap.id, [Values(SendMap) EXCEPT !["map_data"] = Json(map)])

Binary(m) == [archive |-> "binary", bytes |-> Serialize(m), meant |-> m]

(* enqueue_message of thread t, in three steps as in KafkaProducer.  First  *)
(* the checks: it drops the message while the producer closes; without a   *)
(* producer it throws, which is said where it is called.                   *)
Enqueue(t, m) ==
    \/ /\ producer = "open"
       /\ call' = [call EXCEPT ![t] = "checked"]
       /\ sending' = [sending EXCEPT ![t] = m]
    \/ producer = "closing" /\ UNCHANGED calls

InCall(t, place) == fate = "running" /\ call[t] = place

\* Thread t leaves enqueue_message, by a return or by an exception that it catches.
Leaves(t, to) ==
    /\ call' = [call EXCEPT ![t] = "none"]
    /\ sending' = [sending EXCEPT ![t] = <<>>]
    /\ reader' = IF t = "reader" THEN to ELSE reader
    /\ UNCHANGED <<process, fate, flags, main, ticker, hub, kafka, inbox, arrived, got, events,
                   schedule>>

(* The lock, which close holds until the producer is gone, and the topic.   *)
(* A topic may not be made: the handlers of backend and world answer an    *)
(* exception with an error, once; the websocket thread catches it; the     *)
(* world thread does not.                                                  *)
FindTopic(t) ==
    /\ InCall(t, "checked") /\ producer # "closing"
    /\ \/ /\ producer = "open"
          /\ call' = [call EXCEPT ![t] = "found"]
          /\ UNCHANGED <<process, fate, flags, threads, kafka, sending, data, schedule>>
       \/ /\ producer = "open" /\ t # "ticker"
          /\ Leaves(t, IF reader = "handle" THEN "failed" ELSE "loop")
          /\ UNCHANGED sent
       \/ producer = "open" /\ t = "ticker" /\ Ends("terminated")
       \/ producer = "none" /\ Ends("crashed")

(* produce, outside of the lock: the message is queued or refused, and as   *)
(* long as the queue is full the thread stays here.                        *)
Produce(t) ==
    /\ InCall(t, "found") /\ producer # "none"
    /\ Leaves(t, "loop")
    /\ sent' \in {sent, sent \cup {Binary(sending[t])}}

\* The topic and the producer were destroyed meanwhile.
ProduceCrashes(t) == InCall(t, "found") /\ producer = "none" /\ Ends("crashed")

\* A request of a client, which the websocket thread turns into a message.
ClientClasses == {Login, Register, ChatSend, CreateCharacter, GetCharacters, PlayCharacter,
                  AdminQuit}

HubEnqueues ==
    /\ HubAt("poll") /\ arrived < MaxMessages
    /\ arrived' = arrived + 1
    /\ \E class \in ClientClasses : Enqueue("hub", Some(class))
    /\ UNCHANGED <<process, fate, flags, threads, kafka, inbox, got, sent, events, schedule>>

\* What a topic may hold that no server of this version wrote.
Broken == {<<>>, SubSeq(Serialize(Some(Login)), 1, 4),
           [Serialize(Some(Logout)) EXCEPT ![1].value = <<77>>]}

Arrive ==
    /\ fate = "running" /\ arrived < MaxMessages
    /\ arrived' = arrived + 1
    /\ inbox' \in {Append(inbox, [bytes |-> Serialize(Some(class)), meant |-> Some(class)]) :
                      class \in Arriving}
                  \cup {Append(inbox, [bytes |-> b, meant |-> Exception]) : b \in Broken}
    /\ UNCHANGED <<process, fate, flags, threads, kafka, calls, got, sent, events, schedule>>

-----------------------------------------------------------------------------
(* The consumer thread.                                                    *)

\* kafka_consumer::start, after the backend connected to its database.
StartConsumer ==
    /\ ReaderAt("start")
    /\ \/ /\ "GROUP_ID" \notin env.blank
          /\ consumer' = "open"
          /\ ReaderTo("subscribe") /\ UNCHANGED <<quit, producer, closing, calls, data>>
       \/ Ends("terminated")

Subscribe ==
    /\ ReaderAt("subscribe")
    /\ \/ consumer = "open" /\ ReaderTo("loop") /\ UNCHANGED <<quit, kafka, calls, data>>
       \/ consumer = "open" /\ Ends("terminated")
       \/ consumer = "none" /\ Ends("crashed")

LoopTop ==
    /\ ReaderAt("loop")
    /\ ReaderTo(IF ~quit THEN "check consumer"
                ELSE IF kind = "gateway" THEN "done" ELSE "close")
    /\ UNCHANGED <<quit, kafka, calls, data>>

\* try_get_message throws without a consumer, which the loop catches.
CheckConsumer ==
    /\ ReaderAt("check consumer")
    /\ ReaderTo(IF consumer = "none" THEN "loop" ELSE "check closing")
    /\ UNCHANGED <<quit, kafka, calls, data>>

CheckClosing ==
    /\ ReaderAt("check closing")
    /\ ReaderTo(IF closing THEN "loop" ELSE "consume")
    /\ UNCHANGED <<quit, kafka, calls, data>>

Consume ==
    /\ ReaderAt("consume")
    /\ \/ consumer = "open" /\ ReaderTo("consuming") /\ UNCHANGED <<quit, kafka, calls, data>>
       \/ consumer = "none" /\ Ends("crashed")

\* Mutant: the loop catches what try_get_message throws no more.
ConsumedUncaught ==
    /\ ReaderAt("consuming") /\ inbox # <<>> /\ consumer = "open"
    /\ LET m == Deserialize("binary", Head(inbox).bytes)
       IN  IF m = Exception THEN Ends("terminated")
           ELSE /\ inbox' = Tail(inbox)
                /\ got' = [message |-> m, meant |-> Head(inbox).meant]
                /\ ReaderTo("handle")
                /\ UNCHANGED <<quit, kafka, calls, arrived, sent, events>>

\* A message, or the exception that the loop catches.
Consumed ==
    /\ ReaderAt("consuming") /\ inbox # <<>> /\ consumer = "open"
    /\ inbox' = Tail(inbox)
    /\ LET m == Deserialize("binary", Head(inbox).bytes)
       IN  /\ got' = [message |-> m, meant |-> Head(inbox).meant]
           /\ ReaderTo(IF m = Exception THEN "loop" ELSE "handle")
    /\ UNCHANGED <<quit, kafka, calls, arrived, sent, events>>

\* No message in 50 ms; the consumer may be gone by then.
NothingConsumed ==
    /\ ReaderAt("consuming")
    /\ \/ ReaderTo("loop") /\ UNCHANGED <<quit, kafka, calls, data>>
       \/ consumer = "none" /\ Ends("crashed")

\* What the registered handlers of each server may send; the gateway's through a socket.
BackendAnswers(id) ==
    CASE id = Login.id -> {LoginResponse, ErrorResponse}
      [] id = Register.id -> {RegisterResponse, ErrorResponse}
      [] id = CreateCharacter.id -> {CreateCharacter, ErrorResponse}
      [] OTHER -> {}

WorldAnswers(id) ==
    CASE id = GetCharacters.id -> {GetCharactersResponse, ErrorResponse}
      [] id \in {PlayCharacter.id, CreateCharacter.id} -> {ErrorResponse}
      [] OTHER -> {}

GatewayAnswers(id) ==
    IF id = ChatSend.id THEN {ChatReceive}
    ELSE {c \in {LoginResponse, RegisterResponse, ErrorResponse, SendMap,
                 GetCharactersResponse} : c.id = id}

Answers(id) ==
    IF kind = "backend" THEN BackendAnswers(id) ELSE WorldAnswers(id)

HandleWithAnswer ==
    /\ ReaderAt("handle") /\ kind # "gateway"
    /\ \E class \in Answers(got.message.id) : Enqueue("reader", Some(class))
    /\ ReaderTo(IF producer = "open" THEN "handle" ELSE "loop")
    /\ UNCHANGED <<quit, kafka, data>>

\* What the handler's own catch does; another exception goes to the loop.
HandleFailed ==
    /\ ReaderAt("failed")
    /\ \/ Enqueue("reader", Some(ErrorResponse))
       \/ producer = "none" /\ UNCHANGED calls
    /\ ReaderTo(IF producer = "open" THEN "failed" ELSE "loop")
    /\ UNCHANGED <<quit, kafka, data>>

\* The gateway passes the fields on, in JSON.
HandleForClient ==
    /\ ReaderAt("handle") /\ kind = "gateway"
    /\ \E class \in GatewayAnswers(got.message.id) :
          LET m == Message(class.id, [got.message.values EXCEPT !["sender"] = <<"sender">>])
          IN  sent' = sent \cup {[archive |-> "json", bytes |-> Serialize(m), meant |-> m]}
    /\ ReaderTo("loop") /\ UNCHANGED <<quit, kafka, calls, inbox, arrived, got, events>>

(* A player that is played has a location, on the map that is loaded or on  *)
(* another one; a player that is created has none.                         *)
HandleWithEvent ==
    /\ ReaderAt("handle") /\ kind = "world"
    /\ \/ /\ got.message.id = PlayCharacter.id
          /\ events' \in {Append(events, "loaded"), Append(events, "elsewhere")}
       \/ /\ got.message.id = CreateCharacter.id
          /\ events' = Append(events, "nowhere")
    /\ ReaderTo("loop") /\ UNCHANGED <<quit, kafka, calls, inbox, arrived, got, sent>>

\* The world has no handler for it.
HandleQuit ==
    /\ ReaderAt("handle") /\ kind # "world" /\ got.message.id = AdminQuit.id
    /\ quit' = TRUE
    /\ ReaderTo("loop") /\ UNCHANGED <<kafka, calls, data>>

(* No handler is registered, the gateway has no such connection, or the     *)
(* handler finds nothing to say; a closed producer throws, into the loop.   *)
HandleInSilence ==
    /\ ReaderAt("handle")
    /\ ReaderTo("loop") /\ UNCHANGED <<quit, kafka, calls, data>>

\* Backend and world close their consumer themselves.
ReaderCloses ==
    /\ ReaderAt("close")
    /\ consumer' = "none"
    /\ ReaderTo("done") /\ UNCHANGED <<quit, producer, closing, calls, data>>

-----------------------------------------------------------------------------
(* The world thread.                                                       *)

LoadFromDatabase ==
    /\ TickerAt("load")
    /\ map' \in {Loaded(size[1], size[2]) : size \in MapSizes}
    /\ next' = TickLength /\ second' = 2 * TickLength /\ phase' = 0 /\ behind' = 0
    /\ TickerTo("loop") /\ UNCHANGED <<calls, data>>

TickerLoop ==
    /\ TickerAt("loop")
    /\ TickerTo(IF quit THEN "done" ELSE IF next > 0 THEN "sleep" ELSE "tick")
    /\ UNCHANGED <<calls, data, schedule>>

Wake ==
    /\ TickerAt("sleep") /\ next <= 0
    /\ TickerTo("tick") /\ UNCHANGED <<calls, data, schedule>>

(* player_event_system::update, for one event.  The location of a player    *)
(* that has none is undefined: it may be on the map that is loaded or not, *)
(* or reading it is a crash.                                               *)
Update ==
    /\ TickerAt("tick") /\ events # <<>>
    /\ events' = Tail(events)
    /\ \/ Head(events) # "elsewhere" /\ Enqueue("ticker", MapMessage)
       \/ Head(events) # "loaded" /\ Enqueue("ticker", Some(ErrorResponse))
    /\ TickerTo("tick") /\ UNCHANGED <<inbox, arrived, got, sent, schedule>>

(* Nothing catches what LZ4 or enqueue_message throws, when the tiles are   *)
(* not compressed or there is no producer.                                 *)
UpdateDies ==
    /\ TickerAt("tick") /\ events # <<>>
    /\ \/ (Head(events) # "elsewhere" \/ producer = "none") /\ Ends("terminated")
       \/ Head(events) = "nowhere" /\ Ends("crashed")

\* Mutant: a tick is skipped.
TickSkipped ==
    /\ TickerAt("tick") /\ events = <<>>
    /\ next' = second + TickLength /\ second' = second + 2 * TickLength /\ behind' = behind - 1
    /\ TickerTo("loop") /\ UNCHANGED <<calls, data, map, phase>>

\* Mutant: the schedule starts anew after a late tick.
TickEndsAnew ==
    /\ TickerAt("tick") /\ events = <<>>
    /\ next' = TickLength /\ second' = 2 * TickLength /\ behind' = behind - 1
    /\ TickerTo("loop") /\ UNCHANGED <<calls, data, map, phase>>

\* do_tick returns: the schedule moves by one tick, however late it is.
TickEnds ==
    /\ TickerAt("tick") /\ events = <<>>
    /\ next' = second /\ second' = second + TickLength /\ behind' = behind - 1
    /\ TickerTo("loop") /\ UNCHANGED <<calls, data, map, phase>>

\* The clock goes on, until a tick is MaxLag late.
Clock ==
    /\ fate = "running" /\ ticker \in {"loop", "sleep", "tick"}
    /\ next > -MaxLag
    /\ next' = next - 1 /\ second' = second - 1
    /\ phase' = (phase + 1) % TickLength
    /\ behind' = IF phase' = 0 THEN behind + 1 ELSE behind
    /\ UNCHANGED <<process, fate, flags, threads, kafka, calls, data, map>>

-----------------------------------------------------------------------------
MainStep ==
    \/ Configure \/ PrepareBackend \/ PrepareWorld \/ PrepareGateway \/ StartProducer
    \/ CloseProducer \/ ProducerCloses
    \/ CloseConsumer \/ ConsumerCloses \/ ClosingEnds
    \/ Waited \/ Joined

Handle ==
    \/ HandleWithAnswer \/ HandleFailed \/ HandleForClient \/ HandleWithEvent
    \/ HandleQuit \/ HandleInSilence

ReaderStep ==
    \/ StartConsumer \/ Subscribe
    \/ LoopTop \/ CheckConsumer \/ CheckClosing \/ Consume
    \/ Consumed \/ NothingConsumed
    \/ Handle \/ ReaderCloses

TickerStep == LoadFromDatabase \/ TickerLoop \/ Wake \/ Update \/ UpdateDies \/ TickEnds
HubStep == Listen \/ HubStops \/ HubEnqueues
CallStep(t) == FindTopic(t) \/ ProduceCrashes(t)

Next ==
    \/ MainStep \/ ReaderStep \/ TickerStep \/ HubStep
    \/ \E t \in Callers : CallStep(t) \/ Produce(t)
    \/ Clock \/ Signal \/ Arrive

Spec == Init /\ [][Next]_vars

(* The scheduler runs every thread; time passes.  Nobody need send a signal, *)
(* and the brokers need not take a message from a full queue.              *)
Fairness ==
    /\ WF_vars(MainStep) /\ WF_vars(ReaderStep) /\ WF_vars(TickerStep)
    /\ \A t \in Callers : WF_vars(CallStep(t))
    /\ WF_vars(Clock)

FairSpec == Spec /\ Fairness

-----------------------------------------------------------------------------
TypeOK ==
    /\ fate \in {"running", "returned 0", "returned 1", "terminated", "crashed"}
    /\ quit \in BOOLEAN /\ uwsQuit \in BOOLEAN /\ closing \in BOOLEAN
    /\ main \in {"configure", "prepare", "start", "poll", "flush", "close", "commit",
                 "closed", "wait", "join"}
    /\ reader \in {"none", "start", "subscribe", "loop", "check consumer", "check closing",
                   "consume", "consuming", "handle", "failed", "close", "done"}
    /\ ticker \in {"none", "load", "loop", "sleep", "tick", "done"}
    /\ hub \in {"none", "listen", "poll", "gone"}
    /\ producer \in {"none", "open", "closing"} /\ consumer \in {"none", "open"}
    /\ arrived \in 0 .. MaxMessages /\ Len(inbox) <= arrived
    /\ \A b \in sent : b.archive \in {"binary", "json"}
    /\ call \in [Callers -> {"none", "checked", "found"}]
    /\ \A t \in Callers : call[t] = "none" <=> sending[t] = <<>>
    /\ \A k \in DOMAIN events : events[k] \in {"loaded", "elsewhere", "nowhere"}
    /\ next \in -MaxLag .. TickLength /\ second \in -MaxLag .. 2 * TickLength
    /\ phase \in 0 .. TickLength - 1 /\ behind \in Int

Started ==
    /\ main \notin {"configure", "prepare", "start"}
    /\ reader \notin {"start", "subscribe"}

Calling == \E t \in Callers : call[t] # "none"

(* Once a server has started, nothing ends it before it is told to quit but *)
(* an event in a tick of a world (world/src/main.cpp:249), not a message   *)
(* that its consumer thread reads.  It is terminated in such a tick only;  *)
(* and it crashes there, on a location that is absent, or because main     *)
(* closed the producer under a thread in enqueue_message                   *)
(* (kafka_producer.cpp:126), or in a gateway the consumer under its thread *)
(* (gateway/src/main.cpp:359), or left with the Hub of a thread that polls.*)
DeathsAreExplained ==
    /\ Started /\ fate # "running" => quit \/ (kind = "world" /\ ticker = "tick")
    /\ Started /\ fate = "terminated" => kind = "world" /\ ticker = "tick"
    /\ fate = "crashed" =>
          \/ producer = "none" /\ quit /\ (Calling \/ kind = "gateway")
          \/ kind = "world" /\ ticker = "tick" /\ Head(events) = "nowhere"

\* Buffers are read as what was written: by the server, by the others, by clients.
Reads(archive, bytes, m) == Deserialize(archive, bytes) = m

MapsRead ==
    \A b \in sent :
        LET text == b.meant.values["map_data"]
        IN  b.meant.id = SendMap.id /\ b.archive = "binary" =>
                \A k \in DOMAIN text.layers : TilesIn(text.layers[k].data) = map.layers[k].tiles

(* What a server writes for another one, or for a client in JSON, is read  *)
(* with every value in its own field, what it reads is what was meant, and *)
(* of a buffer that is none of ours nothing is read; the tiles in the data *)
(* of a map are those of the world (message.cpp:52, tiled_converter.cpp:42).*)
WhatIsSentIsRead ==
    /\ got # <<>> => got.message = got.meant
    /\ \A b \in sent : Reads(b.archive, b.bytes, b.meant)
    /\ MapsRead

(* next_tick is when the first tick is due that was not run, however late   *)
(* ticks are: none is skipped, none is run twice, and none before it is    *)
(* due, so that after a delay they follow each other until none is owed    *)
(* (world/src/main.cpp:250).  second_next_tick is one tick behind it.      *)
TicksKeepTheSchedule ==
    ticker \notin {"none", "load"} =>
        /\ behind >= 0
        /\ next = (1 - behind) * TickLength - phase
        /\ second = next + TickLength

(* A server that was told to quit ends: no thread waits for another one    *)
(* for ever, also when the websocket thread never listened.                *)
ShutdownEnds == quit ~> fate # "running"

=============================================================================
