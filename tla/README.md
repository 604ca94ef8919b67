# Realm of Aesir: verification project

TLA+ modules of the servers of Realm of Aesir, the TLC configurations that
check them on small instances, and theorems that TLAPS proves for all.

## The system

    client --websocket--> gateway <--Kafka--> backend --PostgreSQL (aesir_main)
                             ^                   |
                             +-------Kafka-------+--> world --PostgreSQL (aesir_world)

| part | state it keeps | operations | speaks with |
| --- | --- | --- | --- |
| gateway (`gateway/src`) | table of connections by address and port, id counter, `quit` | websocket callbacks, 7 client handlers on a copy of the entry, 7 server handlers on a reference into the table, shutdown | clients; topics `server-<id>`, `chat_messages`, `broadcast` in, `backend_messages`, `world_messages`, `server-<world>` out |
| backend (`backend/src`) | rows of users, bans, settings | login, register, create_character, quit | gateways and worlds, by topic |
| world (`world/src`) | rows of players, the queue of events, the ECS | get_characters, create_character, play_character; `do_tick` | gateways, by topic |
| Kafka producer and consumer (`common/src`) | topic objects, `_closing`, librdkafka's queue and offsets | `enqueue_message`, `poll`, `close`; `try_get_message`, `close` | brokers |
| database pool (`common/src`) | a flag per connection | `get_connection`, `release_connection`, transactions by scope | handlers |
| messages (`common/src/messages`) | - | JSON and binary forms | all |
| repositories (`backend/src`, `world/src`) | the tables of two databases | one statement or query each, in the caller's transaction | PostgreSQL |
| client (`client/src`, `client/extra`) | timer, sprites, texture atlas, the resources of SDL and OpenGL | start, main loop, end of two programs | no network yet |

Server id 0 stands for "any" and is refused as a server's own id at startup.

### What is hard, and what makes it correct

* **Two threads share the gateway's table.** The consumer thread finds an entry
  under the lock and uses it after it gave the lock back; the websocket thread
  works on a copy. Correct means: the table mirrors the open sockets
  (`TableMirrorsSockets`), a login is granted by the reply to the connection's
  own request (`LoggedInByOwnReply`), it is seen half-written only while it is
  being written (`HalfLoggedInOnlyWhileWriting`), what is sent reaches whoever
  asked (`FramesReachTheAsker`).
* **Keys are not unique.** Address and port are concatenated without a separator,
  so that two peers may have the same key.
* **A restart starts the ids again, the topics live on**, and messages consumed
  without a committed offset are delivered again.
* **Checks are outside of the locks that guard what they check** in the producer,
  and `close` runs while other threads enqueue.
* **The pool's connections and their transactions end in an unspecified order**,
  and one loop marks all of them.
* **Handlers are several steps** (commit, then send; read, then write) and
  may be repeated after a crash, by one of several backends.
* **Two ids travel in a message**, the origin and the destination, and handlers
  on the way from a gateway over a backend to a world must pick the right one.

* **main closes what other threads use**: the producer under the world thread, the
  consumer under the gateway's consumer thread, the hub under a detached websocket
  thread, and the producer again under any thread that is inside `enqueue_message`.
  Correct means: every end of a process is either asked for or explained by one of these
  or by an event in a tick (`DeathsAreExplained`), and every shutdown ends (`ShutdownEnds`).
* **Writers and readers of a message are separate code**, by order in one format and by
  name in the other (`WhatIsSentIsRead`).
* **Queries with NULL, an update without a condition, a loop that reads its first row**
  (`BansAreFound`, `ListsHoldFoundRows`), and ids of transactions that are aborted
  (`IdsAreGivenOnce`).
* **Resources of the client** are acquired call by call and shared by counts
  (`ObjectsGoBeforeTheWindow`), its buffer grows by losing what it has
  (`EverySpriteIsDrawn`), its clock wraps (`TicksAreElapsedTime`).

The list of hazards with their lines is in `PROJECT.json`.

## Modules

| module | models | runs |
| --- | --- | --- |
| `Gateway` | the gateway process: its three threads, table, handlers, restart | through `GatewaySystem` |
| `GatewaySystem` | `Gateway` with the services behind Kafka, reduced to the answers they may give; the properties | `MCGateway` with `Gateway*.cfg` |
| `GatewayProofs` | the theorems about `GatewaySystem`, the refinement of `Sessions` among them | |
| `Sessions` | abstract: what one run of the gateway promises about its connections | implemented by `GatewaySystem` |
| `KafkaProducer` | `kafka_producer`, statement by statement where threads meet | `MCKafkaProducer` with `Producer*.cfg` |
| `KafkaProducerProofs` | its theorems | |
| `DatabasePool` | `database_pool`, the transactions and the order of their end | `MCDatabasePool` with `Pool*.cfg` |
| `ConnectionPool` | abstract: a connection has at most one holder | implemented by `DatabasePool` |
| `DatabasePoolProofs` | its theorems, the refinement among them | |
| `Kafka` | topics between servers: readers, offsets, redelivery, messages nobody reads | through `Realm` |
| `Backend` | the backend's handlers and the table of users | through `Realm` |
| `World` | the world's handlers, event queue and tick | through `Realm` |
| `Realm` | backends and worlds together, with gateways that ask | `MCRealm` with `Realm*.cfg` |
| `RealmProofs` | its theorems | |
| `Messages` | what each class of message writes and what `message::deserialize` reads, in both formats | through `Servers` |
| `TiledMap` | the map a world loads, and its tiles as bytes and base64 | through `Servers` |
| `Servers` | the process of each server: configuration, threads, ticks, shutdown | `MCServers` with `ServersRun.cfg` |
| `ServersProofs` | its theorems | |
| `Tables` | the database under the repositories: rows, one transaction, sequences | through `Repositories` |
| `BackendRepositories`, `WorldRepositories` | the statements and queries of each repository | through `Repositories` |
| `Repositories` | a server's repositories in any order; the properties | `RepositoriesRun.cfg` |
| `RepositoriesProofs` | its theorems | |
| `Timer` | the client's timer | through `Client` |
| `Client` | the two programs of the client | `MCClient` with `ClientRun.cfg` |
| `ClientProofs` | its theorems | |
| `Modulo` | lemmas about division with a remainder, for the clock and the schedule | |

### Gateway

`uws`, `cons` and `main` are the program counters of the three threads. The table
is kept by slots, `slots`, because the reference of the consumer thread names a
slot and not the connection that was in it. A client's message is handled in two
steps: `OnMessage` copies the entry (`find` by value, main.cpp:194), and the
handler (`ClientLogin`, ... ) runs on the copy; `TableAfterHandler` says what of the
copy comes back, which is nothing. A server's message is handled by `Lookup`
(under the lock), and the handler; the two login responses write `state`,
`admin_status` and `user_id` in a step each, in any order
(`WriteResponse`), as nothing protects them. `Terminate` closes a
socket and runs `onDisconnection` at once, on the thread that called it, which is
assumed of uWS. `Restart` is a death of the process at any step: sockets,
table and counter are gone, topics stay, and what was consumed and not
committed is delivered again. Fields that are marked as history in the comments (`by`, `held`,
`gen`, `adminSeen`, `signalled`) only serve the properties. A handler enqueues its message in
one step; the race of `enqueue_message` with `close` is in `KafkaProducer` and `Servers`.

Two exceptions are part of the properties because the code has them: a connection
accepted into a slot while the consumer thread holds a reference to it (`held`),
and a reply from before the last restart. Without either exception TLC finds a
client that is logged in by the answer to another client's request. The exceptions excuse stale
replies, they do not detect them: across a restart only the life cycle of `Sessions` is checked.
`PrivilegedRequestsAreLoggedIn` is about the login a request was made under and not about the user id it
carries, which may be missing while a login is half written.

### KafkaProducer

`enqueue_message` is `Enqueue` (the checks), `FindTopic` (under the lock),
`Produce` and `Retry` (after it); `close` is `Close`, `CloseStopsWaiting`,
`CloseClearsTopics` and `CloseResets`, with the lock taken from the first to the
last (`MutexFree`). Use of an object that is gone is a `Crash`.

### DatabasePool

`Ask` and `Take` are `get_connection`, `Begin` the constructor of the transaction,
`Commit`, and then `Destroy` picks the order in which the tuple's elements die;
`Abort` and `Release` are their destructors. The constant `Orders` has the orders a
standard library may choose; libstdc++ destroys the connection first.

### Kafka, Backend, World, Realm

Every server handles one message at a time, in the order of its `inbox`. A handler
of the backend is one step as long as it reads and answers, and several where
a crash or another backend may come in between: `BackendCreateCharacter` (read and
compare), `CommitCount`, `ForwardCharacter`; `BackendRegister`, `BackendRegistered`.
A transaction is READ COMMITTED, as PostgreSQL has it by default; an insert of a
name waits for another open insert of that name (the unique constraint in
`init_aesir_main.sql:38`), and takes its id from a sequence that no rollback sets back.
Every handler may also fail, which answers with an error, but for one failure: `stoi` of
`max_characters_per_user` (`backend_create_character_handler.cpp:78`) throws a `logic_error`, which the
handler does not catch and main's loop logs, so that nobody is answered. The rows of `settings` are a variable that nobody writes:
`MaxCharacters` is a number or, for a text `stoi` refuses, `Nothing`; `StartingWorld` is a world
or, as in the shipped `backend/seed.sql:13`, 0, which is no server's id. In `World` the consumer
thread and the world thread meet in `events`. A player that was just created has
no location, and the tick reads one (`player_event_system.cpp:73`): the model lets
it find any map or none, and the world may die of it (`WorldCrash`, as of anything else; `Servers` has this
crash as a step of its own). Publishing does not fail in these modules; `Servers` and `KafkaProducer` have what
`enqueue_message` may throw.

`GatewaySystem` takes the services' answers from what `Backend` and `World` send.

### Messages, TiledMap, Servers

`Servers` is one process of any of the three kinds, chosen in `Init` together with its `.env`
file. `main`, `reader`, `ticker` and `hub` are the program counters of the threads. The
statements of `kafka_consumer` where threads meet are steps (`CheckConsumer`, `CheckClosing`,
`Consume`, `Consumed` against `CloseConsumer`, `ConsumerCloses`, `ClosingEnds`): the consumer
thread may be between its check and its use when main resets the pointer. `fate` says how the process
ended; an exception that leaves a thread is "terminated", a null or dead object "crashed". What a
handler decides is in `Backend`, `World` and `Gateway`; here it may send any answer it has. An
enqueue is three steps of the thread that calls it, `Enqueue` (the checks), `FindTopic` (under the lock; it
may throw) and `Produce`, and `call` says where each thread is in it: main of any server may close the
producer before the last (`ProduceCrashes`). What a handler's own `catch` sends is `HandleFailed`. In the world thread
nothing is caught: LZ4, a topic that cannot be made and a missing producer end the process (`UpdateDies`). A buffer is the sequence of values that
`serialize` wrote with the fields' names and types; the binary archive reads by order, the JSON archive by
name. What LZ4 does (`Compressed`, `Decompressed`) is a constant. Time is `next`, the time left to the next tick, which `Clock` lets pass until a tick is
`MaxLag` late; `behind` is history: the ticks that are due by the clock and have not run.

### Tables, BackendRepositories, WorldRepositories, Repositories

A behaviour is that of one of the two databases with one transaction at a time (two at a
time are in `Backend`). Statements that write are actions, queries are operators; a query whose order
SQL leaves open is a set of results. A failed statement throws, and the transaction with it is gone
(`Throw`). Constraints and foreign keys are those of the init scripts.

Three behaviours are modelled as they are although a comment says otherwise, and no property
asks for either, as a run would only restate the line:

* `update_banned_user` has no WHERE, so that every ban becomes the same one
  (`banned_users_repository.h:50` says "Update a user");
* `get_tiles_for_map` and `get_locations_by_map_id` repeat one row as often as there are rows
  (`map_tiles_repository.h:54` says "Get all tiles belonging to a map", `:57` "vector of found tiles").
  `ListsHoldFoundRows` holds of this code and would hold of code that returns them all;
* `get_map` by name escapes its name and does not quote it, so that PostgreSQL reads an expression
  (`maps_repository.h:53` promises the map of that name or nothing). A name that is
  no expression throws; one that is, as `map_name` or `null`, finds other maps or none.

### Timer, Client

`calls` holds the calls of the program's start or end that are still ahead; each may fail, and `fail`
says what main does then. Closing frees the window and not the context, as `main.cpp:186` does: the code never
calls `SDL_GL_DeleteContext`, and the context is left in `up` when main returns. The atlas has the rows in memory (`rows`) and what is in OpenGL's buffer (`gpu`),
which a growth makes anew. `width` is the image's width, which the code reads after it freed the
surface (`texture_manager.cpp:103`), so that it may be any number, or the read a crash. `timers` has main's `fps_timer` and a timer that some other
caller uses in every way; `ran` is history.

## Runs

`expect: pass` unless noted. All state spaces are complete.

| run | instance | shows |
| --- | --- | --- |
| `gateway_table` | 3 sockets, two of which make the same key, 2 slots, 3 ids, messages of six kinds: 3 from one connection, 2 once there are more | the table, logins, requests and frames stay right while slots are reused under the consumer thread and peers refuse and erase each other |
| `gateway_restart` | 1 socket, 2 users, 2 ids, 2 client messages of two kinds, one crash, fairness | who can stop the servers; `Sessions` is implemented across a restart; logins are answered |
| `pool_shared` | 3 threads, 3 connections, both orders, fairness | exclusion, no deadlock, what can end the process, refinement, progress |
| `pool_marked_used` | violation | the pool shrinks to one connection, against its comment |
| `producer_threads` | 2 threads, 2 topics, a queue of 1, 2 messages, fairness | use after free only after the topics are cleared; what `close` loses; every call returns |
| `producer_close` | violation | `enqueue_message` against `close` |
| `realm_servers` | 2 gateways, 2 worlds, 1 backend, 2 requests, 1 crash, 3 settings, fairness | counts and ids across a crash and redelivery; where answers go and how often; every request is settled |
| `realm_register` | violation | an id without a user |
| `realm_play_errors` | violation | errors about `play_character` go where nobody reads, against the handler's comment |
| `client` | 5 sprites, capacities 1, 2 and 6, a clock that wraps at 8, 10 ticks | each sprite drawn once, which capacity may crash, what is deleted before the window, ticks across wraps and pauses |
| `repositories` | 2 names, 2 values, 2 ids a table, 2 ends of bans, 4 statements | which bans are found, what lists contain, ids across aborts, constraints |
| `servers` | every message class and three broken buffers, one message, maps of 1, 2 and 3 tiles, ticks of 2 units up to 3 late, fairness | what ends a process, also inside `enqueue_message`; every buffer read back; no tick skipped or run twice; every shutdown ends |

Bounds. Two connections, and one id more than fit at a time, are what reuse of a slot or a key
takes, and a third one with a key of its own is there to be mixed up; two messages make one
stale and one fresh reply, and three from one connection log in, learn of a character and play it. A third user, world or thread adds
no new pair: every action names at most two parties, itself and the one it meets. The
bounds are counted by `MaxIds`, `MaxFrames`, `MaxRestarts`, `MaxMessages`,
`MaxRequests` and `MaxCrashes`, each a guard of the one action it counts; `MaxLater` bounds the messages
once there is a second connection (`Bounded`).
`MaxTime`, `MaxStatements`, `MaxId` and `MaxLag` are such guards too. One message is enough in `servers`:
what matters is where the consumer thread is when main closes things, not how often it was there;
the classes are all there are. Three tiles are twelve bytes and all paddings of base64. Four
statements are a map, a location, a player on it and a change of either, or a user, two bans and a change.
In `client` capacity 1 grows three times, 2 twice and 6 not at all. Not in `servers`: a signal before
`init_extras`, which just kills the process, and a `TICK_LENGTH` of 0, which is not refused.
In `realm_servers` a crash makes of one request two, so that with two requests a user is
logged in and asks for two characters, before a commit and after it; ann is stored, bob may
register, eve is banned, ada is a player and cyd is not.

The settings of `realm_servers` are a limit of one with a starting world, a limit that is no number, and the world 0
of the shipped seed. The kinds of messages are split between the two gateway runs; each has those
that its properties are about. One registers and the other logs in, which is the same path through the
gateway (`LoginKinds`, `ResponseKinds`).

What the runs do not contain: two backends on one table, which read the same count and forward one
character too many (the TODO at `backend_create_character_handler.cpp:53`; `ForwardsWithinCount` is for one
backend). What a request may end in besides an answer is in `Settled`: a `get_characters` of a user without
characters, a `create_character` while the limit is no number, and what is `Misdirected`, which is an error
about `play_character` (refuted as a promise by `realm_play_errors`) or a `create_character` for the world 0.

`CHECK_DEADLOCK FALSE` is set where the system really stops: main returns, a
process crashes, or all that the bounds allow has been asked and answered.

Symmetry: slots, and the two sockets of one key, in `gateway_table`, never in a run with a temporal property.

### Fairness

Threads are scheduled: weak fairness of the whole step of each thread
(`UwsStep`, `ConsumerStep`, `MainStep`, `EnqueueStep(t)`, `Step(t)`, ...). Nothing the environment does is
fair: clients need not ask, signals and crashes need not come, offsets need not
be committed. Brokers are not fair in `FairSpec` of
`KafkaProducer`: that `close` returns holds without them, and `CallsReturn` says of `enqueue_message` in
its own formula that they go on taking messages (`WF_vars(Deliver) => ...`). In `Servers` main, the
consumer thread, the world thread and the clock are fair, and so is a call of `enqueue_message` but for `Produce`, which a
full queue may hold up until the producer is closed; the websocket thread is not: nothing waits for it
longer than two seconds, which is why `ShutdownEnds` holds. For `SomebodyGetsOne` weak fairness is enough
because it asks for some thread to be served; a single thread may starve, since
`get_connection` sleeps and tries again. `CloseStopsWaiting` is enabled at all times, as two
seconds pass.

## Proofs

`DatabasePoolProofs`, from `PoolAssumption` (a pool of at least one connection, `None` is no
connection, orders among the two). The invariant `IInv` joins the type
invariant, `ConnectionsAreExclusive` and `PoolIsNeverDry` with `OwnersByPlace`: a
thread holds a connection exactly at those places of its program where the code has
one in scope. Only with it does a step of `Release` know that the connection it
releases is its own. `PoolTermination` adds that the open transaction of a thread
is on the connection it owns unless the thread is about to abort it (`SessionsOnOwned`), so that
`Begin` meets another's transaction in that window only; `TransactionFirstIsSafe` follows for the
order of destruction that has no such window. `PoolRefinement` maps `holder` to the one owner of a
connection (`CHOOSE`; unique by the invariant) and shows each action to be a
hand-out, a give-back or a stutter.

`KafkaProducerProofs`, from `ProducerAssumption` (`None` is not a number, the queue has
room for one message). `SafeUntilCleared` needs that every topic object a thread
holds is the one in `topics` as long as these are not cleared (`HandlesLive`), which in turn
needs that an entry is never replaced (`FindTopic`), and that the producer is there
until `close` resets it (`ProducerUp`). `CloseFlushes` needs that what is in the queue
while `close` clears is late or was given up (`QueueIsLate`).
`ProducerKeepsOrder` needs the number of the next message that each thread can have accepted (`Upcoming`): what is in the queue, delivered or lost
is older, though `produce` is tried again whenever the queue was full. It is about one life of the producer; a server that
was started again may send once more what it had not committed (see `Realm`).

`GatewayProofs`, from `GatewayAssumption` and `FreeAssumption` (an empty slot of the table is no
connection). `GatewayTypes` and `QuitIsAuthorized` share the invariant `IInv`. Types alone
are not inductive: the names a consumer appends to a connection come out of a message, so
every message under way is `Sound` (a list of characters holds names); and a
quit is dispatched long after it was asked for, possibly a second time, by a consumer that knows
nothing of who asked. Hence `Sound` also says that a quit under way implies that the gateway was
told of an administrator, and `Granted` that each entry of the table, and the copy the uws thread
works on, is an administrator's only in that case. One lemma per group of actions
(`UwsKeeps`, `ClientKeeps`, `ConsumerKeeps`, `ServiceKeeps`, `RestartKeeps`...) joins in
`InductiveInvariant`. `TableIsMirror` adds `TableMirrorsSockets` to it: the actions that change the
table or the sockets take away an entry (`TerminateMirrors`), write through a reference
(`ThroughMirrors`: the reference may be stale, but a write keeps id and socket of what is there) or insert
(`AcceptMirrors`: the id is new to this run); no other touches either (`SameMirrors`).

The second half of `GatewayProofs` is about who a connection is logged in as. Each of its
properties speaks of one moment (a frame, an entry, a request) while what decides it
happened steps before, in a message or in a copy. `Right` carries that over: `TopicsCurrent` says of
every message under way that it is of this run or an earlier one and, if it asks for what needs a login,
that whoever has its id is `Entitled`; `CopyCurrent` says the same of the copy
the uws thread works on, and `MessageCurrent` of the message the consumer has in hand. `ReferenceRight` is the heart: what
is in the slot that the consumer refers to is either what it looked up, with the user id unless that is still to
be written, or was accepted there since (`held`). Entries only go (`Erasing`), are written through
the reference, or come with an id that nobody had in this run, and each of these keeps `Entitled`
for every id. `SessionsRefined` needs in addition `TableMirrorsSockets`: `StatusOf` looks for some entry with
an id, and only as there is one at most is a write of `state` a `LogIn` of that id, and an
erasure a `Close`. `TableSteps` sorts the steps of all threads into those that leave what
`StatusOf` sees (`Still`), and those that erase, log in, accept or restart.

`ServersProofs`, from `ServersAssumption` and, for the tiles, `CompressionAssumption`. `Control` holds the places of the threads
and the pointers: which thread may run while main is where (`ThreadsPlaced`), that only main, past
its `close`, leaves a reader without a consumer, and only in a gateway (`ResourcesHeld`), that the producer
is there until main closes it, which it does only when it was told to quit, and that a thread inside `enqueue_message` is
where it called it (`CallsPlaced`).
From it follows `DeathsExplained` for any schedule of the threads. `ScheduleIsKept` holds for any
`TickLength` and any delay: `next` is tied to the ticks that are due and have not run (`behind`) and to the
phase of the clock, which is a remainder (`Modulo`). `ServersTyped` adds that each queue holds
messages of the classes there are.
`WritersAndReadersAgree` says `WhatIsSentIsRead` for any messages, maps and schedule. Each class
writes the fields that `message::deserialize` reads for its id (`ClassesFit`), under names that differ, so that
either archive reads back what was written (`ReadsBack`); the invariant `Ours` says that whatever is received or sent was written
that way, and that a map is sent only as it was loaded. `Base64IsReadBack` is about any bytes;
with it the tiles of a map of any size come back, if LZ4 keeps what it compresses (`CompressionAssumption`).

`ClientProofs`, from `ClientAssumption` and `TimerAssumption` (a clock of any width). `SpritesAreDrawn`: the buffer
agrees with the rows in every slot that was taken (`AtlasRight`), which a growth at the capacity keeps;
this is for any number of sprites and any capacity. `CrashesExplained` needs that
the calls ahead bring a context and what glewInit loads before the first call of OpenGL (`Ready`); it leaves the growth of
the atlas, the freed surface, and an init that failed early.
`ObjectsGoFirst` follows each object of OpenGL through the calls ahead (`ObjectsRight`). It says nothing of the context.
`ClientTypes` types the variables of both programs; what it needs beyond `TypeOK` is the form of the calls ahead (`RestTyped`).
`TimersTellTheTime`: the ticks of a timer are congruent to the time that it ran (`TimerRight`),
across starts, pauses and wraps in any order.

`RealmProofs`, from `RealmAssumption` (there is a world), `NothingAssumption`, `KafkaAssumption`, `BackendAssumption` and `WorldAssumption`. `Routed` says which messages
may wait at, or be handled by, which kind of server (`Right(s)`): at a backend the origin is the gateway that
asked, at a world the origin or, for a character that was created, the destination; an event keeps the gateway in a
field of its own. With it `AnswersAreRouted` and `OnlyMisdirectedGetLost` hold for any settings and any number of
servers, requests and crashes; the latter bounds what gets lost and does not say that it should be. `ToldIdsAreFresh` rests on `Fresh`: an id is held by one
open transaction at most, is above all stored ones and below the sequence, and is told once. `RealmTypes` needs that ids in
messages were given out and stay so (`Meant`, `Wider`). `OneBackendCountsRight`
has the hypothesis that there is one backend, without which it is false (see "Runs").
`RealmAnswersCounted` counts. A message about a request stands in a lane of a server: its queue, what it has
taken, its work, an event, an answer it sent (`Standing`). `AnswersCounted` bounds the messages of groups of lanes: at most one
per group was only delivered, and at most `1 + crashes` are of a kind that was handled (where a backend sends on what it got,
`1 + crashes` are sent on, and the i-th crash may add i). A step leaves the lanes (`Silent`),
moves one message to its next lane (`Advances`), commits what was taken (`Takes`), puts back what was not (`Restarts`), or gives a new
request its first message (`Enters`); `StepLanes` says so of every action, and that each keeps the counts is
shown by the injections `Carried` and `Redelivered`.
`RealmForgetsNothing` is what of `RequestsAreSettled` is safety: while no server has died, a request is settled, or in a queue, in the
hands of a server or in an event (`OnItsWay`), so that only fairness is missing for an answer. It needs that queues
hold nothing that their server has no handler for, for that would be dropped (`Fits`, `Handled`), and that gateways
hear of servers only. What the code loses without a crash is excepted, as in `Settled`: a `get_characters` without characters, a
`create_character` while the limit is no number (`Forgotten`), and what is `Misdirected`.
`RegistrationsAreLost` says for every instance what `realm_register` shows in one: no id that a client was told is in the table.

`RepositoriesProofs`, from `TablesAssumption`: every property of `Repositories`, for any rows, names and values. Every
statement of either server either is lost with its transaction (`Loses`) or puts one row at some ids of one
table (`Puts`), which the constraints of that table allow (`Allowed`); there is one lemma per statement
(`InsertUserDoes`, `UpdatePlayerDoes`, ...), and what follows is about `Puts` alone. The invariant `IInv` speaks of the
committed rows as well as of those of the transaction, because an abort brings the former back. `BansAreTheOnesFound`
rests on the foreign key: the join pairs a ban with `NULL` only if its user is not the one of that name.
`IdsNameOneRow` needs that ids stay below their sequence, in the committed rows and those of the transaction.
`ListsHoldTheirRows` counts the rows of a join by the bijection that each player's one location and each
location's one map make.

Every safety property of a passing run is stated by a theorem. Only model-checked is everything with
fairness (liveness and `ENABLED` are out of the prover's reach, and so are induction over data and
`RECURSIVE` operators; the modules have none of the latter): `LoginIsAnswered`, `SomebodyGetsOne`, `CallsReturn`,
`RequestsAreSettled` (but see `RealmForgetsNothing`), `ShutdownEnds`.

## Not modelled, and why

* The inside of librdkafka, libpqxx, PostgreSQL, uWS and the hash map is modelled
  from how the code uses it (marked external in the map). Entries of the hash map do not move between
  slots; displacement in a cuckoo table would be one more way for a reference to become
  stale.
* Two threads on one `std::vector` (`player_characters`) is a data race whose outcomes
  cannot be enumerated; the model lets the writer and the copier see whole values.
* Rendering, logging, and the ECS components, effects, materials and objects: data without behaviour, and
  systems and effects that only tests run.
* `state = REGISTERING_OR_LOGGING_IN` is set in the copy of a connection, so that a client can have
  several logins checked at once although `client_login_handler.cpp:49` means to prevent it: `Gateway` has the
  behaviour, no run asks for it.
* Dates of bans beyond their order, and LZ4, which is a parameter of `TiledMap`: the run gives it the literals that
  it makes of fewer than 13 bytes, the proof assumes that it keeps the bytes of the maps.
* Passwords: the outcome of a check is a choice.

## Plan

What would add most from here:

1. The inside of the gateway composed with `Realm`: a character that is played belongs to the
   user who plays it.
