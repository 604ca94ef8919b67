-------------------------------- MODULE Kafka --------------------------------
(***************************************************************************)
(* The topics between the servers, as kafka_consumer and kafka_producer    *)
(* use them: backend_messages is shared by the backends, world_messages    *)
(* is read by every world, server-<id> by the server with that id, if      *)
(* there is one.  What a server consumed since it last committed offsets   *)
(* is delivered to it again when it is started again.                      *)
(***************************************************************************)
EXTENDS Naturals, Sequences

CONSTANTS
    Backends, Worlds, Gateways,  \* the servers, which stand for their ids
    ANY,                         \* server id 0
    MaxCrashes                   \* bound: how often a server dies

VARIABLES
    inbox,       \* what each server has not consumed yet, in order
    uncommitted, \* what it consumed without committing the offset
    unread,      \* history: messages sent to a topic that no server reads
    crashes      \* how often a server died

kafkaVars == <<inbox, uncommitted, unread, crashes>>

Servers == Backends \cup Worlds \cup Gateways

ASSUME KafkaAssumption ==
    /\ ANY \notin Servers
    /\ Backends \cap Worlds = {} /\ Backends \cap Gateways = {} /\ Worlds \cap Gateways = {}
    /\ MaxCrashes \in Nat

KafkaInit ==
    /\ inbox = [s \in Servers |-> <<>>]
    /\ uncommitted = [s \in Servers |-> <<>>]
    /\ unread = {}
    /\ crashes = 0

\* Who may read a message on a topic: one of these sets of servers.
BackendMessages == {{b} : b \in Backends}
WorldMessages == {Worlds}
ServerTopic(id) == {{id} \cap Servers}

\* enqueue_message, once: the readers of the topic find it after the others.
Publish(topic, m) ==
    /\ \E readers \in topic :
          /\ inbox' = [s \in Servers |->
                          IF s \in readers THEN Append(inbox[s], m) ELSE inbox[s]]
          /\ unread' = IF readers = {} THEN unread \cup {m} ELSE unread
    /\ UNCHANGED <<uncommitted, crashes>>

\* try_get_message returns the next message.
Consume(s) ==
    /\ inbox[s] # <<>>
    /\ inbox' = [inbox EXCEPT ![s] = Tail(@)]
    /\ uncommitted' = [uncommitted EXCEPT ![s] =
                          IF crashes = MaxCrashes THEN @ ELSE Append(@, Head(inbox[s]))]
    /\ UNCHANGED <<unread, crashes>>

\* librdkafka does this in the background.
CommitOffsets(s) ==
    /\ uncommitted[s] # <<>>
    /\ uncommitted' = [uncommitted EXCEPT ![s] = <<>>]
    /\ UNCHANGED <<inbox, unread, crashes>>

\* A server dies and is started again.
Redeliver(s) ==
    /\ crashes < MaxCrashes
    /\ crashes' = crashes + 1
    /\ inbox' = [inbox EXCEPT ![s] = uncommitted[s] \o @]
    /\ uncommitted' = [uncommitted EXCEPT ![s] = <<>>]
    /\ UNCHANGED unread

-----------------------------------------------------------------------------
(* Messages.  number and gateway are history: which request a message is    *)
(* about, and who asked.  name is a user name or the name of a character.  *)

AnswerKinds == {"error_response", "login_response", "register_response",
                "get_characters_response", "send_map"}

\* An error tells its number only: -1, or -2 for a ban.
Answer(m, kind, origin, user) ==
    [m EXCEPT !.kind = kind, !.origin = origin, !.destination = ANY, !.user = user]

=============================================================================
