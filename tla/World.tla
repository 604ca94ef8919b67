-------------------------------- MODULE World --------------------------------
(***************************************************************************)
(* The world servers (world/src).  A consumer thread answers what it can   *)
(* from the world's database and turns the rest into events; the world     *)
(* thread takes the events from the queue between them at each tick.       *)
(***************************************************************************)
EXTENDS Kafka

CONSTANTS
    Players   \* the rows of players, by world: name, user id, is the map loaded

VARIABLES
    wplace,   \* where the consumer thread of each world is
    wwork,    \* the message it handles
    events    \* player_event_queue

worldVars == <<wplace, wwork, events>>

ASSUME WorldAssumption ==
    \A w \in Worlds : \A p \in Players[w] : p.loaded \in BOOLEAN

WorldInit(none) ==
    /\ wplace = [w \in Worlds |-> "idle"]
    /\ wwork = [w \in Worlds |-> none]
    /\ events = [w \in Worlds |-> <<>>]

\* The loop of the consumer thread; messages without a handler are dropped.
WorldTake(w) ==
    /\ wplace[w] = "idle"
    /\ Consume(w)
    /\ wwork' = [wwork EXCEPT ![w] = Head(inbox[w])]
    /\ wplace' = [wplace EXCEPT ![w] =
                     IF Head(inbox[w]).kind
                           \in {"get_characters", "play_character", "create_character"}
                     THEN "handling" ELSE "idle"]
    /\ UNCHANGED events

WorldHandles(w, kind) ==
    /\ wplace[w] = "handling" /\ wwork[w].kind = kind
    /\ wplace' = [wplace EXCEPT ![w] = "idle"]
    /\ UNCHANGED wwork

\* Mutant: the answer goes back to the server that sent the message.
WorldErrorToOrigin(w) ==
    /\ Publish(ServerTopic(wwork[w].origin), Answer(wwork[w], "error_response", w, 0))
    /\ UNCHANGED events

(* An error for play_character and create_character goes to the topic of    *)
(* the message's destination.                                              *)
WorldError(w) ==
    /\ Publish(ServerTopic(wwork[w].destination), Answer(wwork[w], "error_response", w, 0))
    /\ UNCHANGED events

Event(m, to, maps) == [msg |-> m, gateway |-> to, maps |-> maps]

Enqueued(w, e) ==
    /\ events' = [events EXCEPT ![w] = Append(@, e)]
    /\ UNCHANGED kafkaVars

WorldGetCharacters(w) ==
    /\ WorldHandles(w, "get_characters")
    /\ LET m == wwork[w]
           owned == {p \in Players[w] : p.user = m.user}
           answer(kind) == Publish(ServerTopic(m.origin), Answer(m, kind, w, m.user))
       IN  \/ answer("error_response")
           \/ owned # {} /\ answer("get_characters_response")
           \/ owned = {} /\ UNCHANGED kafkaVars
    /\ UNCHANGED events

WorldPlayCharacter(w) ==
    /\ WorldHandles(w, "play_character")
    /\ LET m == wwork[w]
       IN  \/ WorldError(w)
           \/ \E p \in Players[w] :
                 /\ p.name = m.name
                 /\ Enqueued(w, Event(m, m.origin, {p.loaded}))

\* Mutant: no return after the error.
WorldCreateCharacterGoesOn(w) ==
    /\ WorldHandles(w, "create_character")
    /\ LET m == wwork[w]
       IN  /\ events' = [events EXCEPT ![w] = Append(@, Event(m, m.destination, BOOLEAN))]
           /\ Publish(ServerTopic(m.destination), Answer(m, "error_response", w, 0))

(* The new player is not inserted, and has no location: the world thread    *)
(* reads one all the same, so that any map may be found, or none, or the    *)
(* world dies of it (WorldCrash).                                          *)
WorldCreateCharacter(w) ==
    /\ WorldHandles(w, "create_character")
    /\ LET m == wwork[w]
       IN  \/ WorldError(w)
           \/ /\ \A p \in Players[w] : p.name # m.name
              /\ Enqueued(w, Event(m, m.destination, BOOLEAN))

\* player_event_system::update, for one event: the map, or an error.
WorldTick(w) ==
    /\ events[w] # <<>>
    /\ events' = [events EXCEPT ![w] = Tail(@)]
    /\ LET e == Head(events[w])
       IN  \E found \in e.maps :
              Publish(ServerTopic(e.gateway),
                      Answer(e.msg, IF found THEN "send_map" ELSE "error_response", w, 0))
    /\ UNCHANGED <<wplace, wwork>>

\* A world that dies, of whatever reason, takes its events with it.
WorldCrash(w) ==
    /\ Redeliver(w)
    /\ wplace' = [wplace EXCEPT ![w] = "idle"]
    /\ events' = [events EXCEPT ![w] = <<>>]
    /\ UNCHANGED wwork

WorldConsumerStep(w) ==
    \/ WorldTake(w) \/ WorldGetCharacters(w) \/ WorldPlayCharacter(w)
    \/ WorldCreateCharacter(w)

=============================================================================
