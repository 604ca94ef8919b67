---------------------------- MODULE KafkaProducer ----------------------------
(***************************************************************************)
(* kafka_producer (common/src/kafka_producer.cpp): several threads enqueue *)
(* messages while the main thread polls and at last closes.  librdkafka's  *)
(* queue and the brokers behind it are the environment.  The checks at the *)
(* top of enqueue_message are outside of the lock on the topics, and the   *)
(* use of what it finds under the lock is again.                           *)
(***************************************************************************)
EXTENDS Naturals, Sequences

CONSTANTS
    Threads,     \* the threads that enqueue
    Topics,      \* names of topics
    None,        \* no topic object, or no message
    QueueSize,   \* librdkafka's queue.buffering.max.messages
    MaxMessages  \* bound: messages a thread enqueues

ASSUME ProducerAssumption ==
    /\ None \notin Nat
    /\ QueueSize \in Nat \ {0} /\ MaxMessages \in Nat

VARIABLES
    producer,  \* is there an RdKafka::Producer in _producer
    closing,   \* _closing
    topics,    \* _topics: the topic object by name
    created,   \* how many topic objects were created
    pc,        \* where each thread is in enqueue_message
    msg,       \* its message
    handle,    \* the local variable topic
    queue,     \* messages librdkafka has not delivered yet
    reports,   \* delivery reports that poll has not served yet
    delivered, \* messages the brokers have
    main,      \* where the main thread is
    timedOut,  \* history: close waited its two seconds
    lost,      \* history: accepted messages that went down with the producer
    sent,      \* how many messages each thread has tried to enqueue
    crashed    \* a thread used an object that is gone

vars == <<producer, closing, topics, created, pc, msg, handle, queue, reports,
          delivered, main, timedOut, lost, sent, crashed>>

(* late is history: the message was accepted when close had already ended   *)
(* to wait for the queue.                                                  *)
Messages == [from : Threads, number : Nat, topic : Topics, late : BOOLEAN]

Init ==
    /\ producer = TRUE
    /\ closing = FALSE
    /\ topics = [k \in Topics |-> None]
    /\ created = 0
    /\ pc = [t \in Threads |-> "idle"]
    /\ msg = [t \in Threads |-> None]
    /\ handle = [t \in Threads |-> None]
    /\ queue = <<>>
    /\ reports = 0
    /\ delivered = {}
    /\ main = "polling"
    /\ timedOut = FALSE
    /\ lost = {}
    /\ sent = [t \in Threads |-> 0]
    /\ crashed = FALSE

outq_len == Len(queue) + reports

\* close holds _topics_mutex from before it sets _closing until it returns.
MutexFree == main \in {"polling", "closed"}

-----------------------------------------------------------------------------
(* enqueue_message.                                                        *)

At(t, place) == ~crashed /\ pc[t] = place
Goto(t, place) == pc' = [pc EXCEPT ![t] = place]

mainVars == <<producer, closing, main, timedOut, lost>>
libVars == <<queue, reports, delivered>>

Crash ==
    /\ crashed' = TRUE
    /\ UNCHANGED <<topics, created, pc, msg, handle, libVars, mainVars, sent>>

(* The two checks: without a producer it throws, while the producer closes  *)
(* it returns and the message is gone.                                     *)
Enqueue(t, k) ==
    /\ At(t, "idle") /\ sent[t] < MaxMessages
    /\ \/ (~producer \/ closing) /\ UNCHANGED <<pc, msg>>
       \/ /\ producer /\ ~closing
          /\ msg' = [msg EXCEPT ![t] = [from |-> t, number |-> sent[t], topic |-> k,
                                        late |-> FALSE]]
          /\ Goto(t, "checked")
    /\ sent' = [sent EXCEPT ![t] = @ + 1]
    /\ UNCHANGED <<topics, created, handle, libVars, mainVars, crashed>>

\* Mutant: the topic that is there is not looked for.
FindTopicCreatesAlways(t) ==
    /\ At(t, "checked") /\ MutexFree /\ producer
    /\ created' = created + 1
    /\ topics' = [topics EXCEPT ![msg[t].topic] = created + 1]
    /\ handle' = [handle EXCEPT ![t] = created + 1]
    /\ Goto(t, "found")
    /\ UNCHANGED <<msg, libVars, mainVars, sent, crashed>>

\* Mutant: the topic that was found is not kept.
FindTopicForgets(t) ==
    /\ At(t, "checked") /\ MutexFree
    /\ Goto(t, "found")
    /\ UNCHANGED <<topics, created, handle, msg, libVars, mainVars, sent, crashed>>

(* Under the lock: the topic is found or created.  Creating it may fail,    *)
(* and then enqueue_message throws.                                        *)
FindTopic(t) ==
    /\ At(t, "checked") /\ MutexFree
    /\ LET k == msg[t].topic
       IN  \/ /\ topics[k] # None
              /\ handle' = [handle EXCEPT ![t] = topics[k]]
              /\ Goto(t, "found")
              /\ UNCHANGED <<topics, created, msg, libVars, mainVars, sent, crashed>>
           \/ /\ topics[k] = None /\ producer
              /\ created' = created + 1
              /\ topics' = [topics EXCEPT ![k] = created + 1]
              /\ handle' = [handle EXCEPT ![t] = created + 1]
              /\ Goto(t, "found")
              /\ UNCHANGED <<msg, libVars, mainVars, sent, crashed>>
           \/ /\ topics[k] = None /\ producer
              /\ Goto(t, "idle")
              /\ UNCHANGED <<topics, created, msg, handle, libVars, mainVars, sent, crashed>>
           \/ topics[k] = None /\ ~producer /\ Crash

\* What produce() needs: the producer, and the topic object it was given.
Usable(t) == producer /\ handle[t] = topics[msg[t].topic]

(* produce(): the queue takes a copy of the message, is full, or refuses it *)
(* for another reason, which is logged.                                    *)
Produce(t) ==
    /\ At(t, "found")
    /\ \/ /\ Usable(t) /\ outq_len < QueueSize
          /\ queue' = Append(queue, [msg[t] EXCEPT !.late = (main = "clearing")])
          /\ Goto(t, "idle")
          /\ UNCHANGED <<topics, created, msg, handle, reports, delivered, mainVars,
                         sent, crashed>>
       \/ /\ Usable(t) /\ outq_len >= QueueSize
          /\ Goto(t, "full")
          /\ UNCHANGED <<topics, created, msg, handle, libVars, mainVars, sent, crashed>>
       \/ /\ Usable(t)
          /\ Goto(t, "idle")
          /\ UNCHANGED <<topics, created, msg, handle, libVars, mainVars, sent, crashed>>
       \/ ~Usable(t) /\ Crash

\* The queue was full: poll, and produce again.
Retry(t) ==
    /\ At(t, "full")
    /\ \/ /\ producer
          /\ reports' = 0
          /\ Goto(t, "found")
          /\ UNCHANGED <<topics, created, msg, handle, queue, delivered, mainVars, sent,
                         crashed>>
       \/ ~producer /\ Crash

-----------------------------------------------------------------------------
(* The main thread.                                                        *)

callerVars == <<created, pc, msg, handle, sent, crashed>>

AtMain(place) == ~crashed /\ main = place

\* The main loop of the three servers; close polls in the same way.
Poll ==
    /\ AtMain("polling") \/ AtMain("draining")
    /\ reports' = 0
    /\ UNCHANGED <<topics, queue, delivered, callerVars, mainVars>>

Close ==
    /\ AtMain("polling")
    /\ closing' = TRUE
    /\ main' = "draining"
    /\ UNCHANGED <<producer, timedOut, lost, topics, libVars, callerVars>>

\* Mutant: close does not wait for the queue.
CloseAtOnce ==
    /\ AtMain("draining")
    /\ main' = "clearing"
    /\ UNCHANGED <<timedOut, producer, closing, lost, topics, libVars, callerVars>>

\* Mutant: close waits for the queue, however long it takes.
CloseForEver ==
    /\ AtMain("draining") /\ outq_len = 0
    /\ main' = "clearing"
    /\ UNCHANGED <<timedOut, producer, closing, lost, topics, libVars, callerVars>>

\* The queue is empty, or two seconds have passed.
CloseStopsWaiting ==
    /\ AtMain("draining")
    /\ \/ outq_len = 0 /\ UNCHANGED timedOut
       \/ outq_len > 0 /\ timedOut' = TRUE
    /\ main' = "clearing"
    /\ UNCHANGED <<producer, closing, lost, topics, libVars, callerVars>>

CloseClearsTopics ==
    /\ AtMain("clearing")
    /\ topics' = [k \in Topics |-> None]
    /\ main' = "resetting"
    /\ UNCHANGED <<producer, closing, timedOut, lost, libVars, callerVars>>

CloseResets ==
    /\ AtMain("resetting")
    /\ producer' = FALSE
    /\ closing' = FALSE
    /\ lost' = lost \cup {queue[i] : i \in DOMAIN queue}
    /\ queue' = <<>> /\ reports' = 0
    /\ main' = "closed"
    /\ UNCHANGED <<timedOut, delivered, topics, callerVars>>

\* A broker takes the next message.
Deliver ==
    /\ ~crashed /\ queue # <<>>
    /\ delivered' = delivered \cup {Head(queue)}
    /\ queue' = Tail(queue)
    /\ reports' = reports + 1
    /\ UNCHANGED <<topics, callerVars, mainVars>>

EnqueueStep(t) == FindTopic(t) \/ Produce(t) \/ Retry(t)
CloseStep == CloseStopsWaiting \/ CloseClearsTopics \/ CloseResets

Next ==
    \/ \E t \in Threads : EnqueueStep(t) \/ \E k \in Topics : Enqueue(t, k)
    \/ Poll \/ Close \/ CloseStep \/ Deliver

Spec == Init /\ [][Next]_vars

(* Threads go on, and close does; nobody need enqueue, nor close, and the   *)
(* brokers may be down.                                                    *)
Fairness == (\A t \in Threads : WF_vars(EnqueueStep(t))) /\ WF_vars(CloseStep)

FairSpec == Spec /\ Fairness

-----------------------------------------------------------------------------
(* Every variable keeps its type.                                          *)
TypeOK ==
    /\ producer \in BOOLEAN /\ closing \in BOOLEAN
    /\ timedOut \in BOOLEAN /\ crashed \in BOOLEAN
    /\ topics \in [Topics -> Nat \cup {None}] /\ created \in Nat
    /\ pc \in [Threads -> {"idle", "checked", "found", "full"}]
    /\ msg \in [Threads -> Messages \cup {None}]
    /\ handle \in [Threads -> Nat \cup {None}]
    /\ \A t \in Threads : /\ pc[t] # "idle" => msg[t] \in Messages
                          /\ pc[t] \in {"found", "full"} => handle[t] \in Nat
    /\ queue \in Seq(Messages) /\ reports \in Nat
    /\ delivered \subseteq Messages /\ lost \subseteq Messages
    /\ main \in {"polling", "draining", "clearing", "resetting", "closed"}
    /\ sent \in [Threads -> 0 .. MaxMessages]

(* Until close clears the topics, threads may enqueue on any topics at     *)
(* once: none uses a topic object or a producer that is gone, although     *)
(* each uses its topic object after it gave the lock back.                 *)
SafeUntilCleared == crashed => main \in {"resetting", "closed"}

(* A message that enqueue_message accepted goes down with the producer only *)
(* if close waited its two seconds in vain, or stopped waiting before the  *)
(* message was there.                                                      *)
CloseFlushes == \A m \in lost : timedOut \/ m.late

(* A thread that found the queue full, or the lock taken, returns from      *)
(* enqueue_message in the end, as long as the brokers take messages; close *)
(* returns, brokers or no brokers.                                         *)
CallsReturn ==
    /\ WF_vars(Deliver) =>
          \A t \in Threads : pc[t] # "idle" ~> pc[t] = "idle" \/ crashed
    /\ main = "draining" ~> main = "closed" \/ crashed

(* kafka_producer.h:72 marks enqueue_message "@threadsafe".                 *)
Threadsafe == ~crashed

=============================================================================
