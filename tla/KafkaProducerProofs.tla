------------------------- MODULE KafkaProducerProofs -------------------------
(***************************************************************************)
(* For any number of threads and topics and any size of librdkafka's       *)
(* queue: no thread of KafkaProducer uses what is gone until close clears  *)
(* the topics, close loses no message it had time to wait for, and what is *)
(* delivered is delivered once and in the order of its thread.             *)
(***************************************************************************)
EXTENDS KafkaProducer, SequenceTheorems, TLAPS

Using == {"found", "full"}
BeforeClear == {"polling", "draining", "clearing"}

\* A topic object that a thread took from the map is still in the map.
HandlesLive ==
    main \in BeforeClear =>
        \A t \in Threads : pc[t] \in Using => handle[t] = topics[msg[t].topic]

\* After that no topic object is in the map any more.
TopicsCleared == main \in {"resetting", "closed"} => \A k \in Topics : topics[k] = None

ProducerUp == producer <=> main # "closed"

\* What still waits when close has stopped waiting is late, or time was up.
QueueIsLate ==
    main \in {"clearing", "resetting"} =>
        timedOut \/ \A i \in DOMAIN queue : queue[i].late

IInv ==
    /\ TypeOK /\ SafeUntilCleared /\ CloseFlushes
    /\ HandlesLive /\ TopicsCleared /\ ProducerUp /\ QueueIsLate

\* What produce() is called with is usable until the topics are cleared.
LEMMA UsableBeforeClear ==
    ASSUME IInv, NEW t \in Threads, pc[t] = "found", main \in BeforeClear
    PROVE  Usable(t)
  BY DEF IInv, HandlesLive, ProducerUp, Usable, Using, BeforeClear

\* And afterwards it is not.
LEMMA UnusableAfterClear ==
    ASSUME IInv, NEW t \in Threads, pc[t] = "found", main \notin BeforeClear
    PROVE  ~Usable(t)
<1>1. main \in {"resetting", "closed"}
  BY DEF IInv, TypeOK, BeforeClear
<1>2. msg[t] \in Messages /\ handle[t] \in Nat
  BY DEF IInv, TypeOK
<1>3. topics[msg[t].topic] = None
  BY <1>1, <1>2 DEF IInv, TopicsCleared, Messages
<1>4. QED
  BY <1>2, <1>3, ProducerAssumption DEF Usable

-----------------------------------------------------------------------------
(* The steps of a thread.                                                  *)

LEMMA EnqueueKeeps ==
    ASSUME IInv, NEW t \in Threads, NEW k \in Topics, Enqueue(t, k)
    PROVE  IInv'
<1> USE ProducerAssumption DEF IInv, mainVars, libVars, At, Goto
<1> DEFINE m == [from |-> t, number |-> sent[t], topic |-> k, late |-> FALSE]
<1>0. m \in Messages
  BY DEF TypeOK, Messages
<1>a. msg' \in [Threads -> Messages \cup {None}]
  <2> HIDE DEF m
  <2>1. UNCHANGED msg \/ msg' = [msg EXCEPT ![t] = m]
    BY DEF Enqueue, m
  <2>2. QED
    BY <1>0, <2>1 DEF TypeOK
<1>b. \A u \in Threads : /\ pc'[u] # "idle" => msg'[u] \in Messages
                         /\ pc'[u] \in {"found", "full"} => handle'[u] \in Nat
  <2> HIDE DEF m
  <2>1. CASE UNCHANGED <<pc, msg, handle>>
    BY <2>1 DEF TypeOK
  <2>2. CASE msg' = [msg EXCEPT ![t] = m] /\ pc' = [pc EXCEPT ![t] = "checked"]
             /\ UNCHANGED handle
    BY <1>0, <2>2 DEF TypeOK
  <2>3. QED
    BY <2>1, <2>2 DEF Enqueue, m
<1>c. sent' \in [Threads -> 0 .. MaxMessages]
  BY DEF TypeOK, Enqueue
<1>d. pc' \in [Threads -> {"idle", "checked", "found", "full"}]
  BY DEF TypeOK, Enqueue
<1>e. UNCHANGED <<topics, created, handle, libVars, mainVars, crashed>>
  BY DEF Enqueue
<1>1. TypeOK'
  BY <1>a, <1>b, <1>c, <1>d, <1>e DEF TypeOK
<1>2. HandlesLive'
  BY DEF TypeOK, Enqueue, HandlesLive, Using
<1>3. SafeUntilCleared' /\ CloseFlushes' /\ TopicsCleared' /\ ProducerUp' /\ QueueIsLate'
  BY DEF Enqueue, SafeUntilCleared, CloseFlushes, TopicsCleared, ProducerUp, QueueIsLate
<1>4. QED
  BY <1>1, <1>2, <1>3

LEMMA FindTopicKeeps ==
    ASSUME IInv, NEW t \in Threads, FindTopic(t)
    PROVE  IInv'
<1> USE ProducerAssumption DEF IInv, mainVars, libVars, At, Goto
<1> DEFINE k == msg[t].topic
<1>1. k \in Topics /\ MutexFree
  BY DEF TypeOK, FindTopic, Messages
<1>2. CASE topics[k] # None /\ handle' = [handle EXCEPT ![t] = topics[k]]
           /\ pc' = [pc EXCEPT ![t] = "found"]
           /\ UNCHANGED <<topics, created, msg, libVars, mainVars, sent, crashed>>
  <2>a. topics[k] \in Nat
    BY <1>1, <1>2 DEF TypeOK
  <2>b. msg[t] \in Messages
    BY DEF TypeOK, FindTopic
  <2>c. handle' \in [Threads -> Nat \cup {None}]
    BY <1>2, <2>a DEF TypeOK
  <2>d. \A u \in Threads : /\ pc'[u] # "idle" => msg'[u] \in Messages
                           /\ pc'[u] \in {"found", "full"} => handle'[u] \in Nat
    BY <1>2, <2>a, <2>b DEF TypeOK
  <2>1. TypeOK'
    BY <1>2, <2>c, <2>d DEF TypeOK
  <2>2. HandlesLive'
    BY <1>1, <1>2 DEF TypeOK, HandlesLive, Using
  <2>3. QED
    BY <1>2, <2>1, <2>2
    DEF SafeUntilCleared, CloseFlushes, TopicsCleared, ProducerUp, QueueIsLate
<1>3. CASE topics[k] = None /\ producer /\ created' = created + 1
           /\ topics' = [topics EXCEPT ![k] = created + 1]
           /\ handle' = [handle EXCEPT ![t] = created + 1]
           /\ pc' = [pc EXCEPT ![t] = "found"]
           /\ UNCHANGED <<msg, libVars, mainVars, sent, crashed>>
  <2>1. main = "polling"
    BY <1>1, <1>3 DEF MutexFree, ProducerUp
  <2>a. created + 1 \in Nat /\ created + 1 # None
    BY DEF TypeOK
  <2>b. msg[t] \in Messages
    BY DEF TypeOK, FindTopic
  <2>c. /\ handle' \in [Threads -> Nat \cup {None}]
        /\ topics' \in [Topics -> Nat \cup {None}]
    BY <1>1, <1>3, <2>a DEF TypeOK
  <2>d. \A u \in Threads : /\ pc'[u] # "idle" => msg'[u] \in Messages
                           /\ pc'[u] \in {"found", "full"} => handle'[u] \in Nat
    BY <1>3, <2>a, <2>b DEF TypeOK
  <2>2. TypeOK'
    BY <1>3, <2>a, <2>c, <2>d DEF TypeOK
  <2>3. HandlesLive'
    <3> SUFFICES ASSUME NEW u \in Threads, pc'[u] \in Using
                 PROVE  handle'[u] = topics'[msg'[u].topic]
      BY DEF HandlesLive
    <3>1. CASE u = t
      BY <1>1, <1>3, <3>1 DEF TypeOK
    <3>2. CASE u # t
      <4>1. /\ handle'[u] = handle[u] /\ msg'[u] = msg[u]
            /\ pc[u] \in Using
        BY <1>3, <3>2 DEF TypeOK
      <4>2. handle[u] = topics[msg[u].topic] /\ handle[u] \in Nat
        BY <2>1, <4>1 DEF TypeOK, HandlesLive, Using, BeforeClear
      <4>3. msg[u].topic # k /\ msg[u].topic \in Topics
        BY <1>3, <4>1, <4>2 DEF TypeOK, Using, Messages
      <4>4. QED
        BY <1>1, <1>3, <4>1, <4>2, <4>3 DEF TypeOK
    <3>3. QED
      BY <3>1, <3>2
  <2>4. QED
    BY <1>3, <2>1, <2>2, <2>3
    DEF SafeUntilCleared, CloseFlushes, TopicsCleared, ProducerUp, QueueIsLate
<1>4. CASE topics[k] = None /\ producer /\ pc' = [pc EXCEPT ![t] = "idle"]
           /\ UNCHANGED <<topics, created, msg, handle, libVars, mainVars, sent, crashed>>
  BY <1>4 DEF TypeOK, HandlesLive, Using, SafeUntilCleared, CloseFlushes, TopicsCleared,
              ProducerUp, QueueIsLate
<1>5. CASE topics[k] = None /\ ~producer /\ Crash
  BY <1>1, <1>5 DEF Crash, MutexFree, TypeOK, HandlesLive, SafeUntilCleared, CloseFlushes,
                    TopicsCleared, ProducerUp, QueueIsLate
<1>6. QED
  BY <1>2, <1>3, <1>4, <1>5 DEF FindTopic

LEMMA ProduceKeeps ==
    ASSUME IInv, NEW t \in Threads, Produce(t)
    PROVE  IInv'
<1> USE ProducerAssumption DEF IInv, mainVars, libVars, At, Goto
<1>0. pc[t] = "found" /\ msg[t] \in Messages
  BY DEF TypeOK, Produce
<1>1. ASSUME Usable(t), pc' \in [Threads -> {"idle", "checked", "found", "full"}],
             \A u \in Threads : pc'[u] \in Using => pc[u] \in Using,
             \A u \in Threads : pc'[u] # "idle" => pc[u] # "idle",
             UNCHANGED <<topics, created, msg, handle, libVars, mainVars, sent, crashed>>
      PROVE  IInv'
  <2>1. TypeOK'
    BY <1>1 DEF TypeOK, Using
  <2>2. HandlesLive'
    BY <1>1 DEF TypeOK, HandlesLive
  <2>3. QED
    BY <1>1, <2>1, <2>2
    DEF SafeUntilCleared, CloseFlushes, TopicsCleared, ProducerUp, QueueIsLate
<1>2. CASE /\ Usable(t) /\ Goto(t, "full")
           /\ UNCHANGED <<topics, created, msg, handle, libVars, mainVars, sent, crashed>>
  <2>1. /\ pc' \in [Threads -> {"idle", "checked", "found", "full"}]
        /\ \A u \in Threads : pc'[u] \in Using => pc[u] \in Using
        /\ \A u \in Threads : pc'[u] # "idle" => pc[u] # "idle"
    BY <1>0, <1>2 DEF TypeOK, Using
  <2>2. QED
    BY <1>1, <1>2, <2>1
<1>3. CASE /\ Usable(t) /\ Goto(t, "idle")
           /\ UNCHANGED <<topics, created, msg, handle, libVars, mainVars, sent, crashed>>
  <2>1. /\ pc' \in [Threads -> {"idle", "checked", "found", "full"}]
        /\ \A u \in Threads : pc'[u] \in Using => pc[u] \in Using
        /\ \A u \in Threads : pc'[u] # "idle" => pc[u] # "idle"
    BY <1>0, <1>3 DEF TypeOK, Using
  <2>2. QED
    BY <1>1, <1>3, <2>1
<1>4. CASE /\ Usable(t) /\ Goto(t, "idle")
           /\ queue' = Append(queue, [msg[t] EXCEPT !.late = (main = "clearing")])
           /\ UNCHANGED <<topics, created, msg, handle, reports, delivered, mainVars,
                          sent, crashed>>
  <2> DEFINE m == [msg[t] EXCEPT !.late = (main = "clearing")]
  <2>1. m \in Messages /\ (main = "clearing" => m.late)
    BY <1>0 DEF Messages
  <2> HIDE DEF m
  <2>2. main \in BeforeClear
    BY <1>0, <1>4, UnusableAfterClear
  <2>3. queue' = Append(queue, m)
    BY <1>4 DEF m
  <2>4. queue' \in Seq(Messages)
    BY <2>1, <2>3 DEF TypeOK
  <2>5. /\ pc' \in [Threads -> {"idle", "checked", "found", "full"}]
        /\ \A u \in Threads : pc'[u] \in Using => pc[u] \in Using
        /\ \A u \in Threads : pc'[u] # "idle" => pc[u] # "idle"
    BY <1>0, <1>4 DEF TypeOK, Using
  <2>6. TypeOK'
    BY <1>4, <2>4, <2>5 DEF TypeOK, Using
  <2>7. HandlesLive'
    BY <1>4, <2>5 DEF HandlesLive
  <2>8. QueueIsLate'
    <3>1. \A i \in DOMAIN queue' :
             \/ i \in DOMAIN queue /\ queue'[i] = queue[i]
             \/ queue'[i] = m
      BY <2>1, <2>3 DEF TypeOK
    <3>2. QED
      BY <1>4, <2>1, <2>2, <3>1 DEF QueueIsLate, BeforeClear
  <2>9. QED
    BY <1>4, <2>6, <2>7, <2>8 DEF SafeUntilCleared, CloseFlushes, TopicsCleared, ProducerUp
<1>5. CASE ~Usable(t) /\ Crash
  <2>1. main \in {"resetting", "closed"}
    BY <1>0, <1>5, UsableBeforeClear DEF TypeOK, BeforeClear
  <2>2. TypeOK'
    BY <1>5 DEF Crash, TypeOK
  <2>3. QED
    BY <1>5, <2>1, <2>2 DEF Crash, HandlesLive, SafeUntilCleared, CloseFlushes,
                            TopicsCleared, ProducerUp, QueueIsLate
<1>6. QED
  BY <1>2, <1>3, <1>4, <1>5 DEF Produce

LEMMA RetryKeeps ==
    ASSUME IInv, NEW t \in Threads, Retry(t)
    PROVE  IInv'
<1> USE ProducerAssumption DEF IInv, mainVars, libVars, At, Goto
<1>1. CASE /\ producer /\ reports' = 0 /\ pc' = [pc EXCEPT ![t] = "found"]
           /\ UNCHANGED <<topics, created, msg, handle, queue, delivered, mainVars, sent,
                          crashed>>
  <2>1. pc[t] = "full" /\ msg[t] \in Messages /\ handle[t] \in Nat
    BY DEF Retry, TypeOK
  <2>2. TypeOK'
    BY <1>1, <2>1 DEF TypeOK
  <2>3. HandlesLive'
    BY <1>1, <2>1 DEF TypeOK, HandlesLive, Using
  <2>4. QED
    BY <1>1, <2>2, <2>3
    DEF SafeUntilCleared, CloseFlushes, TopicsCleared, ProducerUp, QueueIsLate
<1>2. CASE ~producer /\ Crash
  <2>1. main = "closed"
    BY <1>2 DEF ProducerUp
  <2>2. TypeOK'
    BY <1>2 DEF Crash, TypeOK
  <2>3. QED
    BY <1>2, <2>1, <2>2 DEF Crash, HandlesLive, SafeUntilCleared, CloseFlushes,
                            TopicsCleared, ProducerUp, QueueIsLate
<1>3. QED
  BY <1>1, <1>2 DEF Retry

-----------------------------------------------------------------------------
(* The steps of the main thread and of the brokers.                        *)

LEMMA PollKeeps ==
    ASSUME IInv, Poll
    PROVE  IInv'
<1> USE DEF IInv, mainVars, callerVars
<1>1. TypeOK'
  BY DEF Poll, TypeOK
<1>2. QED
  BY <1>1 DEF Poll, HandlesLive, SafeUntilCleared, CloseFlushes, TopicsCleared,
              ProducerUp, QueueIsLate

LEMMA CloseKeeps ==
    ASSUME IInv, Close
    PROVE  IInv'
<1> USE DEF IInv, libVars, callerVars
<1>1. TypeOK'
  BY DEF Close, TypeOK
<1>2. QED
  BY <1>1 DEF Close, AtMain, HandlesLive, SafeUntilCleared, CloseFlushes, TopicsCleared,
              ProducerUp, QueueIsLate, BeforeClear

LEMMA CloseStopsWaitingKeeps ==
    ASSUME IInv, CloseStopsWaiting
    PROVE  IInv'
<1> USE DEF IInv, libVars, callerVars
<1>1. TypeOK'
  BY DEF CloseStopsWaiting, TypeOK
<1>2. QueueIsLate'
  <2>1. Len(queue) \in Nat /\ reports \in Nat /\ DOMAIN queue = 1 .. Len(queue)
    BY DEF TypeOK
  <2>2. timedOut' \/ DOMAIN queue = {}
    BY <2>1 DEF CloseStopsWaiting, outq_len
  <2>3. QED
    BY <2>2 DEF CloseStopsWaiting, QueueIsLate
<1>3. QED
  BY <1>1, <1>2 DEF CloseStopsWaiting, AtMain, HandlesLive, SafeUntilCleared, CloseFlushes,
                    TopicsCleared, ProducerUp, BeforeClear

LEMMA CloseClearsTopicsKeeps ==
    ASSUME IInv, CloseClearsTopics
    PROVE  IInv'
<1> USE DEF IInv, libVars, callerVars
<1>1. TypeOK'
  BY DEF CloseClearsTopics, TypeOK
<1>2. main = "clearing" /\ main' = "resetting" /\ crashed' = crashed /\ ~crashed
  BY DEF CloseClearsTopics, AtMain
<1>3. QED
  BY <1>1, <1>2 DEF CloseClearsTopics, AtMain, HandlesLive, SafeUntilCleared, CloseFlushes,
              TopicsCleared, ProducerUp, QueueIsLate, BeforeClear

LEMMA CloseResetsKeeps ==
    ASSUME IInv, CloseResets
    PROVE  IInv'
<1> USE DEF IInv, libVars, callerVars
<1>1. \A i \in DOMAIN queue : queue[i] \in Messages
  BY DEF TypeOK
<1>2. lost' \subseteq Messages
  BY <1>1 DEF CloseResets, TypeOK
<1>3. TypeOK'
  <2>1. queue' \in Seq(Messages)
    BY DEF CloseResets
  <2>2. QED
    BY <1>2, <2>1 DEF CloseResets, TypeOK
<1>4. \A i \in DOMAIN queue : timedOut \/ queue[i].late
  BY DEF CloseResets, AtMain, QueueIsLate
<1>5. CloseFlushes'
  BY <1>4 DEF CloseResets, CloseFlushes
<1>6. QED
  BY <1>3, <1>5 DEF CloseResets, AtMain, HandlesLive, SafeUntilCleared, TopicsCleared,
                    ProducerUp, QueueIsLate, BeforeClear

LEMMA DeliverKeeps ==
    ASSUME IInv, Deliver
    PROVE  IInv'
<1> USE DEF IInv, mainVars, callerVars
<1>a. queue \in Seq(Messages) /\ queue # <<>>
  BY DEF Deliver, TypeOK
<1>1. /\ Head(queue) \in Messages /\ Tail(queue) \in Seq(Messages)
      /\ \A i \in DOMAIN Tail(queue) : i + 1 \in DOMAIN queue
                                      /\ Tail(queue)[i] = queue[i + 1]
  BY <1>a, HeadTailProperties
<1>2. TypeOK'
  BY <1>1 DEF Deliver, TypeOK
<1>3. QueueIsLate'
  BY <1>1 DEF Deliver, QueueIsLate
<1>4. QED
  BY <1>2, <1>3 DEF Deliver, HandlesLive, SafeUntilCleared, CloseFlushes, TopicsCleared,
                    ProducerUp

-----------------------------------------------------------------------------
(* What is taken from the map stays in it, and what the drain loop leaves  *)
(* behind is late: together with the types this is inductive.              *)
LEMMA InductiveInvariant == Spec => []IInv
<1>1. Init => IInv
  <2> SUFFICES ASSUME Init
               PROVE  IInv
    OBVIOUS
  <2>1. queue \in Seq(Messages)
    BY DEF Init
  <2>2. TypeOK
    <3>1. /\ topics \in [Topics -> Nat \cup {None}] /\ handle \in [Threads -> Nat \cup {None}]
          /\ msg \in [Threads -> Messages \cup {None}]
          /\ pc \in [Threads -> {"idle", "checked", "found", "full"}]
          /\ sent \in [Threads -> 0 .. MaxMessages]
      BY ProducerAssumption DEF Init
    <3>2. \A t \in Threads : pc[t] = "idle"
      BY DEF Init
    <3>3. producer \in BOOLEAN /\ closing \in BOOLEAN /\ timedOut \in BOOLEAN
          /\ crashed \in BOOLEAN
      BY DEF Init
    <3>4. QED
      BY <2>1, <3>1, <3>2, <3>3 DEF Init, TypeOK
  <2>3. HandlesLive
    <3>1. \A t \in Threads : pc[t] = "idle"
      BY DEF Init
    <3>2. QED
      BY <3>1 DEF HandlesLive, Using
  <2>4. SafeUntilCleared /\ CloseFlushes /\ TopicsCleared /\ QueueIsLate
    BY DEF Init, SafeUntilCleared, CloseFlushes, TopicsCleared, QueueIsLate
  <2>5. ProducerUp
    BY DEF Init, ProducerUp
  <2>6. QED
    BY <2>2, <2>3, <2>4, <2>5 DEF IInv
<1>2. IInv /\ [Next]_vars => IInv'
  <2> SUFFICES ASSUME IInv, [Next]_vars
               PROVE  IInv'
    OBVIOUS
  <2>1. CASE UNCHANGED vars
    BY <2>1 DEF vars, IInv, TypeOK, SafeUntilCleared, CloseFlushes, HandlesLive,
                TopicsCleared, ProducerUp, QueueIsLate
  <2>2. CASE Next
    BY <2>2, EnqueueKeeps, FindTopicKeeps, ProduceKeeps, RetryKeeps, PollKeeps, CloseKeeps,
       CloseStopsWaitingKeeps, CloseClearsTopicsKeeps, CloseResetsKeeps, DeliverKeeps
    DEF Next, EnqueueStep, CloseStep
  <2>3. QED
    BY <2>1, <2>2
<1>3. QED
  BY <1>1, <1>2, PTL DEF Spec

(* Every variable of the producer keeps its type.                          *)
THEOREM ProducerTypes == Spec => []TypeOK
  BY InductiveInvariant, PTL DEF IInv

(* No thread uses a topic object or the producer after it is gone, until   *)
(* close clears the topics.                                                *)
THEOREM ProducerSafeUntilCleared == Spec => []SafeUntilCleared
  BY InductiveInvariant, PTL DEF IInv

(* close loses only what timed out or came after it stopped waiting.       *)
THEOREM ProducerFlushes == Spec => []CloseFlushes
  BY InductiveInvariant, PTL DEF IInv

-----------------------------------------------------------------------------
(* What a thread enqueues reaches the brokers once and in order, though it  *)
(* produces again whenever the queue was full.                             *)

Before(m, n) == m.from = n.from => m.number < n.number

SentOnceInOrder ==
    /\ \A i, j \in DOMAIN queue : i < j => Before(queue[i], queue[j])
    /\ \A m \in delivered : \A i \in DOMAIN queue : Before(m, queue[i])
    /\ \A m \in delivered, n \in lost : Before(m, n)

\* The number of the next message that t can have accepted.
Upcoming(t) == IF pc[t] = "idle" THEN sent[t] ELSE msg[t].number

\* A thread is at its last message; what was accepted is older than what is to come.
Numbered ==
    /\ \A t \in Threads : pc[t] # "idle" => msg[t].from = t /\ msg[t].number + 1 = sent[t]
    /\ \A i \in DOMAIN queue : queue[i].number < Upcoming(queue[i].from)
    /\ \A m \in delivered \cup lost : m.number < Upcoming(m.from)

\* Only the end of close loses messages, and nothing is accepted after it.
ClosedForGood == IF main = "closed" THEN queue = <<>> ELSE lost = {}

Ordered == SentOnceInOrder /\ Numbered /\ ClosedForGood

LEMMA InitOrdered == Init => Ordered
<1> SUFFICES ASSUME Init PROVE Ordered
  OBVIOUS
<1>1. DOMAIN queue = {} /\ delivered = {} /\ lost = {} /\ main = "polling"
  BY DEF Init
<1>2. \A t \in Threads : pc[t] = "idle"
  BY DEF Init
<1>3. QED
  BY <1>1, <1>2 DEF Ordered, SentOnceInOrder, Numbered, ClosedForGood

LEMMA UpcomingTyped ==
    ASSUME TypeOK
    PROVE  /\ \A t \in Threads : Upcoming(t) \in Nat /\ sent[t] \in Nat
           /\ \A m \in Messages : m.from \in Threads /\ m.number \in Nat
           /\ \A i \in DOMAIN queue : queue[i] \in Messages
           /\ delivered \subseteq Messages /\ lost \subseteq Messages
<1>1. \A t \in Threads : sent[t] \in Nat
  <2>1. sent \in [Threads -> 0 .. MaxMessages] /\ \A n \in 0 .. MaxMessages : n \in Nat
    BY ProducerAssumption DEF TypeOK
  <2>2. QED
    BY <2>1
<1>2. \A m \in Messages : m.from \in Threads /\ m.number \in Nat
  BY DEF Messages
<1>3. \A t \in Threads : pc[t] # "idle" => msg[t] \in Messages
  BY DEF TypeOK
<1>4. \A i \in DOMAIN queue : queue[i] \in Messages
  BY DEF TypeOK
<1>5. QED
  BY <1>1, <1>2, <1>3, <1>4 DEF Upcoming, TypeOK

LEMMA UpcomingTypedAfter == TypeOK' => (\A t \in Threads : Upcoming(t) \in Nat)'
<1>1. TypeOK => \A t \in Threads : Upcoming(t) \in Nat
  BY UpcomingTyped
<1>2. QED
  BY <1>1, PTL

\* A step that leaves the messages where they are, and takes back no number.
LEMMA NumbersPass ==
    ASSUME TypeOK, TypeOK', Ordered, UNCHANGED <<queue, delivered, lost, main>>,
           \A t \in Threads : Upcoming(t) <= Upcoming(t)',
           \A t \in Threads : pc'[t] # "idle" => msg'[t].from = t /\ msg'[t].number + 1 = sent'[t]
    PROVE  Ordered'
<1>1. /\ \A t \in Threads : Upcoming(t) \in Nat /\ Upcoming(t)' \in Nat
      /\ \A m \in Messages : m.from \in Threads /\ m.number \in Nat
      /\ \A i \in DOMAIN queue : queue[i] \in Messages
      /\ delivered \subseteq Messages /\ lost \subseteq Messages
  <2>1. \A t \in Threads : Upcoming(t)' \in Nat
    BY UpcomingTypedAfter
  <2>2. QED
    BY <2>1, UpcomingTyped
<1>2. \A m \in Messages : m.number < Upcoming(m.from) => \A t : t = m.from => m.number < Upcoming(t)'
  BY <1>1
<1>3. /\ \A i \in DOMAIN queue' : \A t : t = queue'[i].from => queue'[i].number < Upcoming(t)'
      /\ \A m \in delivered' \cup lost' : \A t : t = m.from => m.number < Upcoming(t)'
  BY <1>1, <1>2 DEF Ordered, Numbered
<1>4. Numbered'
  BY <1>3 DEF Numbered
<1>5. SentOnceInOrder' /\ ClosedForGood'
  BY DEF Ordered, SentOnceInOrder, ClosedForGood, Before
<1>6. QED
  BY <1>4, <1>5 DEF Ordered

\* It does so when a thread goes on with its message or is done with it.
LEMMA ThreadPasses ==
    ASSUME TypeOK, TypeOK', Ordered, NEW t \in Threads, pc[t] # "idle", NEW to, Goto(t, to),
           UNCHANGED <<msg, sent, queue, delivered, lost, main>>
    PROVE  Ordered'
<1>1. \A u \in Threads : pc'[u] = IF u = t THEN to ELSE pc[u]
  BY DEF TypeOK, Goto
<1>2. \A u \in Threads : pc[u] # "idle" => msg[u].from = u /\ msg[u].number + 1 = sent[u]
  BY DEF Ordered, Numbered
<1>3. \A u \in Threads : pc'[u] # "idle" => msg'[u].from = u /\ msg'[u].number + 1 = sent'[u]
  BY <1>1, <1>2
<1>4. ASSUME NEW u \in Threads
      PROVE  Upcoming(u) <= Upcoming(u)'
  <2>1. sent[u] \in Nat /\ Upcoming(u) \in Nat
    BY UpcomingTyped
  <2>2. CASE pc'[u] = pc[u]
    BY <2>1, <2>2 DEF Upcoming
  <2>3. CASE pc'[u] # pc[u]
    <3>1. u = t /\ pc[u] # "idle"
      BY <1>1, <2>3
    <3>2. Upcoming(u) = msg[u].number /\ msg[u].number + 1 = sent[u]
      BY <1>2, <3>1 DEF Upcoming
    <3>3. Upcoming(u)' \in {sent[u], msg[u].number}
      BY DEF Upcoming
    <3>4. QED
      BY <2>1, <3>2, <3>3
  <2>4. QED
    BY <2>2, <2>3
<1>5. QED
  BY <1>3, <1>4, NumbersPass

LEMMA EnqueueOrdered ==
    ASSUME TypeOK, TypeOK', Ordered, NEW t \in Threads, NEW k \in Topics, Enqueue(t, k)
    PROVE  Ordered'
<1>1. /\ pc[t] = "idle" /\ sent' = [sent EXCEPT ![t] = @ + 1]
      /\ UNCHANGED <<queue, delivered, lost, main>>
  BY DEF Enqueue, At, libVars, mainVars
<1>2. \A u \in Threads : sent'[u] = IF u = t THEN sent[t] + 1 ELSE sent[u]
  BY <1>1 DEF TypeOK
<1>3. /\ \A u \in Threads : pc[u] # "idle" => msg[u].from = u /\ msg[u].number + 1 = sent[u]
      /\ \A u \in Threads : sent[u] \in Nat /\ Upcoming(u) \in Nat
  BY UpcomingTyped DEF Ordered, Numbered
<1>4. CASE UNCHANGED <<pc, msg>>
  <2>1. \A u \in Threads : Upcoming(u) <= Upcoming(u)'
    BY <1>1, <1>2, <1>3, <1>4 DEF Upcoming
  <2>2. \A u \in Threads : pc'[u] # "idle" => msg'[u].from = u /\ msg'[u].number + 1 = sent'[u]
    BY <1>1, <1>2, <1>3, <1>4
  <2>3. QED
    BY <1>1, <2>1, <2>2, NumbersPass
<1>5. CASE /\ msg' = [msg EXCEPT ![t] = [from |-> t, number |-> sent[t], topic |-> k,
                                         late |-> FALSE]]
           /\ Goto(t, "checked")
  <2>1. \A u \in Threads : /\ pc'[u] = IF u = t THEN "checked" ELSE pc[u]
                           /\ u # t => msg'[u] = msg[u]
    BY <1>5 DEF TypeOK, Goto
  <2>2. msg'[t].from = t /\ msg'[t].number = sent[t]
    BY <1>5 DEF TypeOK
  <2>3. \A u \in Threads : Upcoming(u) <= Upcoming(u)'
    BY <1>1, <1>2, <1>3, <2>1, <2>2 DEF Upcoming
  <2>4. \A u \in Threads : pc'[u] # "idle" => msg'[u].from = u /\ msg'[u].number + 1 = sent'[u]
    BY <1>2, <1>3, <2>1, <2>2
  <2>5. QED
    BY <1>1, <2>3, <2>4, NumbersPass
<1>6. QED
  BY <1>4, <1>5 DEF Enqueue

LEMMA CrashOrdered == Ordered /\ Crash => Ordered'
  BY DEF Crash, libVars, mainVars, Ordered, SentOnceInOrder, Numbered, ClosedForGood, Upcoming,
         Before

\* produce() takes the message of the thread: it is the youngest of its thread.
LEMMA AcceptedOrdered ==
    ASSUME IInv, Ordered, NEW t \in Threads, pc[t] = "found", producer, Goto(t, "idle"),
           NEW m \in Messages, m.from = msg[t].from, m.number = msg[t].number,
           queue' = Append(queue, m), UNCHANGED <<msg, sent, delivered, lost, main>>
    PROVE  Ordered'
<1>0. TypeOK /\ queue \in Seq(Messages)
  BY DEF IInv, TypeOK
<1>1. /\ m.from = t /\ m.number + 1 = sent[t] /\ m.number \in Nat /\ Upcoming(t) = m.number
      /\ \A u \in Threads : Upcoming(u) \in Nat /\ sent[u] \in Nat
      /\ \A n \in Messages : n.from \in Threads /\ n.number \in Nat
      /\ \A i \in DOMAIN queue : queue[i] \in Messages
      /\ delivered \subseteq Messages /\ lost \subseteq Messages
  BY <1>0, UpcomingTyped DEF Ordered, Numbered, Upcoming
<1>2. \A u \in Threads : pc'[u] = IF u = t THEN "idle" ELSE pc[u]
  BY <1>0 DEF TypeOK, Goto
<1>3. \A u \in Threads : Upcoming(u)' = IF u = t THEN m.number + 1 ELSE Upcoming(u)
  BY <1>1, <1>2 DEF Upcoming
<1>4. /\ Len(queue) \in Nat /\ DOMAIN queue = 1 .. Len(queue)
      /\ DOMAIN queue' = 1 .. Len(queue) + 1
      /\ \A i \in DOMAIN queue : queue'[i] = queue[i]
      /\ queue'[Len(queue) + 1] = m
  BY <1>0
<1>5. \A i \in DOMAIN queue : Before(queue[i], m)
  BY <1>1 DEF Ordered, Numbered, Before
<1>6. \A n \in delivered : Before(n, m)
  BY <1>1 DEF Ordered, Numbered, Before
<1>7. SentOnceInOrder'
  <2>1. ASSUME NEW i \in DOMAIN queue', NEW j \in DOMAIN queue', i < j
        PROVE  Before(queue'[i], queue'[j])
    <3>1. i \in DOMAIN queue
      BY <1>4, <2>1
    <3>2. CASE j \in DOMAIN queue
      BY <1>4, <2>1, <3>1, <3>2 DEF Ordered, SentOnceInOrder
    <3>3. CASE j = Len(queue) + 1
      BY <1>4, <1>5, <3>1, <3>3
    <3>4. QED
      BY <1>4, <3>2, <3>3
  <2>2. ASSUME NEW n \in delivered, NEW i \in DOMAIN queue'
        PROVE  Before(n, queue'[i])
    <3>1. CASE i \in DOMAIN queue
      BY <1>4, <3>1 DEF Ordered, SentOnceInOrder
    <3>2. CASE i = Len(queue) + 1
      BY <1>4, <1>6, <3>2
    <3>3. QED
      BY <1>4, <3>1, <3>2
  <2>3. QED
    BY <2>1, <2>2 DEF Ordered, SentOnceInOrder, Before
<1>8. Numbered'
  <2>1. \A u \in Threads : pc'[u] # "idle" => msg'[u].from = u /\ msg'[u].number + 1 = sent'[u]
    BY <1>2 DEF Ordered, Numbered
  <2>2. ASSUME NEW n \in Messages, n.number < Upcoming(n.from) \/ n = m, NEW u, u = n.from
        PROVE  n.number < Upcoming(u)'
    BY <1>1, <1>3, <2>2
  <2>3. \A i \in DOMAIN queue' : \A u : u = queue'[i].from => queue'[i].number < Upcoming(u)'
    <3> SUFFICES ASSUME NEW i \in DOMAIN queue', NEW u, u = queue'[i].from
                 PROVE  queue'[i].number < Upcoming(u)'
      OBVIOUS
    <3>1. CASE i \in DOMAIN queue
      <4>1. queue'[i] = queue[i] /\ queue[i] \in Messages
            /\ queue[i].number < Upcoming(queue[i].from)
        BY <1>1, <1>4, <3>1 DEF Ordered, Numbered
      <4>2. QED
        BY <2>2, <4>1
    <3>2. CASE i = Len(queue) + 1
      BY <1>4, <2>2, <3>2
    <3>3. QED
      BY <1>4, <3>1, <3>2
  <2>4. \A n \in delivered' \cup lost' : \A u : u = n.from => n.number < Upcoming(u)'
    BY <1>1, <2>2 DEF Ordered, Numbered
  <2>5. QED
    BY <2>1, <2>3, <2>4 DEF Numbered
<1>9. ClosedForGood'
  BY DEF IInv, ProducerUp, Ordered, ClosedForGood
<1>10. QED
  BY <1>7, <1>8, <1>9 DEF Ordered

LEMMA ProduceOrdered ==
    ASSUME IInv, TypeOK', Ordered, NEW t \in Threads, Produce(t)
    PROVE  Ordered'
<1>0. TypeOK /\ pc[t] = "found" /\ msg[t] \in Messages
  BY DEF IInv, TypeOK, Produce, At
<1>1. CASE /\ Usable(t) /\ Goto(t, "idle")
           /\ queue' = Append(queue, [msg[t] EXCEPT !.late = (main = "clearing")])
           /\ UNCHANGED <<topics, created, msg, handle, reports, delivered, mainVars,
                          sent, crashed>>
  <2> DEFINE m == [msg[t] EXCEPT !.late = (main = "clearing")]
  <2>1. m \in Messages /\ m.from = msg[t].from /\ m.number = msg[t].number
    BY <1>0 DEF Messages
  <2> HIDE DEF m
  <2>2. queue' = Append(queue, m) /\ producer
    BY <1>1 DEF m, Usable
  <2>3. UNCHANGED <<msg, sent, delivered, lost, main>>
    BY <1>1 DEF mainVars
  <2>4. QED
    BY <1>0, <1>1, <2>1, <2>2, <2>3, AcceptedOrdered
<1>2. CASE UNCHANGED <<msg, libVars, mainVars, sent>> /\ \E to : Goto(t, to)
  BY <1>0, <1>2, ThreadPasses DEF libVars, mainVars
<1>3. CASE Crash
  BY <1>0, <1>3, CrashOrdered
<1>4. QED
  BY <1>1, <1>2, <1>3 DEF Produce

LEMMA OthersOrdered ==
    ASSUME TypeOK, TypeOK', Ordered, UNCHANGED <<pc, msg, sent, queue, delivered, lost>>,
           main \notin {"closed", "resetting"}, main' # "closed"
    PROVE  Ordered'
<1>1. Numbered' /\ SentOnceInOrder'
  BY DEF Ordered, Numbered, SentOnceInOrder, Upcoming, Before
<1>2. QED
  BY <1>1 DEF Ordered, ClosedForGood

LEMMA ResetOrdered ==
    ASSUME TypeOK, Ordered, CloseResets
    PROVE  Ordered'
<1>1. /\ lost' = {queue[i] : i \in DOMAIN queue} /\ queue' = <<>> /\ main' = "closed"
      /\ UNCHANGED <<pc, msg, sent, delivered>>
  BY DEF CloseResets, AtMain, callerVars, Ordered, ClosedForGood
<1>2. DOMAIN queue' = {}
  BY <1>1
<1>3. SentOnceInOrder'
  BY <1>1, <1>2 DEF Ordered, SentOnceInOrder, Before
<1>4. Numbered'
  BY <1>1, <1>2 DEF Ordered, Numbered, Upcoming
<1>5. QED
  BY <1>1, <1>3, <1>4 DEF Ordered, ClosedForGood

LEMMA DeliverOrdered ==
    ASSUME TypeOK, Ordered, Deliver
    PROVE  Ordered'
<1>1. /\ queue \in Seq(Messages) /\ queue # <<>> /\ queue' = Tail(queue)
      /\ delivered' = delivered \cup {Head(queue)}
      /\ UNCHANGED <<pc, msg, sent, lost, main>>
  BY DEF TypeOK, Deliver, callerVars, mainVars
<1>2. /\ 1 \in DOMAIN queue /\ Head(queue) = queue[1]
      /\ \A i \in DOMAIN queue' : i \in Nat \ {0} /\ i + 1 \in DOMAIN queue
                                  /\ queue'[i] = queue[i + 1]
  BY <1>1
<1>3. lost = {} /\ main # "closed"
  BY <1>1 DEF Ordered, ClosedForGood
<1>4. SentOnceInOrder'
  <2>1. ASSUME NEW i \in DOMAIN queue', NEW j \in DOMAIN queue', i < j
        PROVE  Before(queue'[i], queue'[j])
    <3>1. i + 1 < j + 1
      BY <1>2, <2>1
    <3>2. Before(queue[i + 1], queue[j + 1])
      BY <1>2, <3>1 DEF Ordered, SentOnceInOrder
    <3>3. QED
      BY <1>2, <3>2
  <2>2. ASSUME NEW m \in delivered', NEW i \in DOMAIN queue'
        PROVE  Before(m, queue'[i])
    <3>1. CASE m \in delivered
      BY <1>2, <3>1 DEF Ordered, SentOnceInOrder
    <3>2. CASE m = queue[1]
      <4>1. 1 < i + 1
        BY <1>2
      <4>2. QED
        BY <1>2, <3>2, <4>1 DEF Ordered, SentOnceInOrder
    <3>3. QED
      BY <1>1, <1>2, <3>1, <3>2
  <2>3. QED
    BY <1>1, <1>3, <2>1, <2>2 DEF SentOnceInOrder, Before
<1>5. Numbered'
  BY <1>1, <1>2 DEF Ordered, Numbered, Upcoming
<1>6. QED
  BY <1>1, <1>3, <1>4, <1>5 DEF Ordered, ClosedForGood

LEMMA StepOrdered == IInv /\ IInv' /\ Ordered /\ [Next]_vars => Ordered'
<1> SUFFICES ASSUME IInv, IInv', Ordered, [Next]_vars
             PROVE  Ordered'
  OBVIOUS
<1>0. TypeOK /\ TypeOK'
  BY DEF IInv
<1>1. ASSUME NEW t \in Threads, NEW k \in Topics, Enqueue(t, k)
      PROVE  Ordered'
  BY <1>0, <1>1, EnqueueOrdered
<1>2. ASSUME NEW t \in Threads, FindTopic(t)
      PROVE  Ordered'
  <2>1. pc[t] # "idle"
    BY <1>2 DEF FindTopic, At
  <2>2. \/ UNCHANGED <<msg, libVars, mainVars, sent>> /\ \E to : Goto(t, to)
        \/ Crash
    BY <1>2 DEF FindTopic
  <2>3. QED
    BY <1>0, <2>1, <2>2, ThreadPasses, CrashOrdered DEF libVars, mainVars
<1>3. ASSUME NEW t \in Threads, Produce(t)
      PROVE  Ordered'
  BY <1>0, <1>3, ProduceOrdered
<1>4. ASSUME NEW t \in Threads, Retry(t)
      PROVE  Ordered'
  <2>1. pc[t] # "idle"
    BY <1>4 DEF Retry, At
  <2>2. \/ UNCHANGED <<msg, queue, delivered, mainVars, sent>> /\ \E to : Goto(t, to)
        \/ Crash
    BY <1>4 DEF Retry
  <2>3. QED
    BY <1>0, <2>1, <2>2, ThreadPasses, CrashOrdered DEF mainVars
<1>5. CASE Poll
  <2>1. /\ main \in {"polling", "draining"} /\ main' = main
        /\ UNCHANGED <<pc, msg, sent, queue, delivered, lost>>
    BY <1>5 DEF Poll, AtMain, callerVars, mainVars
  <2>2. QED
    BY <1>0, <2>1, OthersOrdered
<1>6. CASE Close \/ CloseStopsWaiting \/ CloseClearsTopics
  <2>1. /\ main \in {"polling", "draining", "clearing"} /\ main' # "closed"
        /\ UNCHANGED <<pc, msg, sent, queue, delivered, lost>>
    BY <1>6 DEF Close, CloseStopsWaiting, CloseClearsTopics, AtMain, callerVars, libVars
  <2>2. QED
    BY <1>0, <2>1, OthersOrdered
<1>7. CASE CloseResets
  BY <1>0, <1>7, ResetOrdered
<1>8. CASE Deliver
  BY <1>0, <1>8, DeliverOrdered
<1>9. CASE UNCHANGED vars
  BY <1>9 DEF vars, Ordered, SentOnceInOrder, Numbered, ClosedForGood, Upcoming, Before
<1>10. QED
  BY <1>1, <1>2, <1>3, <1>4, <1>5, <1>6, <1>7, <1>8, <1>9 DEF Next, EnqueueStep, CloseStep

(* No message is delivered twice, or delivered and lost, and the messages  *)
(* of a thread are delivered in the order of its calls of enqueue_message, *)
(* however often the queue is full, for any number of threads and topics.  *)
THEOREM ProducerKeepsOrder == Spec => []SentOnceInOrder
<1>1. Ordered => SentOnceInOrder
  BY DEF Ordered
<1>2. QED
  BY <1>1, InitOrdered, InductiveInvariant, StepOrdered, PTL DEF Spec

=============================================================================
