---------------------------- MODULE ServersProofs ----------------------------
(***************************************************************************)
(* For any tick length, map, messages and delays: when a server may end,   *)
(* that the world keeps its schedule, and that what is sent is read.       *)
(***************************************************************************)
EXTENDS Servers, Modulo, SequenceTheorems, TLAPS

-----------------------------------------------------------------------------
(* Where the threads may be.                                               *)

Starting == {"configure", "prepare", "start"}
Ending == {"flush", "close", "commit", "closed", "wait", "join"}
Reading == {"subscribe", "loop", "check consumer", "check closing", "consume",
            "consuming", "handle", "failed", "close"}

ControlTyped ==
    /\ fate \in {"running", "returned 0", "returned 1", "terminated", "crashed"}
    /\ main \in Starting \cup {"poll"} \cup Ending
    /\ reader \in {"none", "start", "done"} \cup Reading
    /\ ticker \in {"none", "load", "loop", "sleep", "tick", "done"}
    /\ hub \in {"none", "listen", "poll", "gone"}
    /\ producer \in {"none", "open", "closing"} /\ consumer \in {"none", "open"}

\* Which threads run, and which main closes what they use.
ThreadsPlaced ==
    /\ main \in Starting => reader = "none" /\ ticker = "none" /\ hub = "none"
    /\ main \in Ending => quit
    /\ main \notin Starting => reader # "none"
    /\ ticker # "none" => kind = "world"
    /\ hub # "none" => kind = "gateway"
    /\ main \in {"close", "commit", "closed", "wait"} => kind = "gateway"
    /\ reader = "close" => kind # "gateway"

\* A thread may be left without what it uses only by main, which is past it.
ResourcesHeld ==
    /\ main = "poll" => producer = "open"
    /\ main = "flush" => producer = "closing"
    /\ main \in Ending \ {"flush"} => producer = "none"
    /\ reader \in Reading /\ consumer = "none" =>
          kind = "gateway" /\ main \in {"closed", "wait", "join"}

\* A thread in enqueue_message stays where it called it.
CallsPlaced ==
    /\ call \in [Callers -> {"none", "checked", "found"}]
    /\ main \in Starting => \A t \in Callers : call[t] = "none"
    /\ call["reader"] # "none" => reader \in {"handle", "failed"}
    /\ call["ticker"] # "none" => ticker = "tick"

Control ==
    ControlTyped /\ ThreadsPlaced /\ ResourcesHeld /\ CallsPlaced /\ DeathsAreExplained

\* The last step of main, an event of a tick, an arrival, nothing: in outline.
LEMMA JoinedOutline ==
    Joined => MainAt("join") /\ (Ends("returned 0") \/ (hub # "none" /\ Ends("crashed")))
  BY Zenon DEF Joined

LEMMA EnqueueOutline ==
    ASSUME NEW t, NEW m, Enqueue(t, m)
    PROVE  \/ producer = "open" /\ call' = [call EXCEPT ![t] = "checked"]
           \/ producer = "closing" /\ call' = call
  BY Zenon DEF Enqueue, calls

LEMMA UpdateOutline ==
    Update => /\ TickerAt("tick") /\ TickerTo("tick")
              /\ \/ producer = "open" /\ call' = [call EXCEPT !["ticker"] = "checked"]
                 \/ producer = "closing" /\ call' = call
  BY EnqueueOutline, Zenon DEF Update

LEMMA StutterOutline ==
    Arrive \/ UNCHANGED vars => UNCHANGED <<process, fate, flags, threads, kafka, calls, events>>
  BY Zenon DEF Arrive, vars, data

LEMMA StutterKeepsControl ==
    ASSUME Control, Arrive \/ UNCHANGED vars
    PROVE  Control'
<1>1. UNCHANGED <<process, fate, flags, threads, kafka, calls, events>>
  BY StutterOutline, Zenon
<1>2. UNCHANGED <<kind, fate, quit, main, reader, ticker, hub, producer, consumer, call, events>>
  BY <1>1, Zenon DEF process, flags, threads, kafka, calls
<1>3. ControlTyped /\ ThreadsPlaced /\ ResourcesHeld /\ CallsPlaced /\ DeathsAreExplained
  BY Zenon DEF Control
<1>4. ASSUME ControlTyped
      PROVE  ControlTyped'
  <2>1. fate' = fate /\ main' = main /\ reader' = reader /\ ticker' = ticker
        /\ hub' = hub /\ producer' = producer /\ consumer' = consumer
    BY <1>2, Zenon
  <2>2. QED
    BY <1>4, <2>1, ZenonT(60) DEF ControlTyped
<1>5. ASSUME ThreadsPlaced
      PROVE  ThreadsPlaced'
  BY <1>2, <1>5, Zenon DEF ThreadsPlaced
<1>6. ASSUME ResourcesHeld
      PROVE  ResourcesHeld'
  BY <1>2, <1>6, Zenon DEF ResourcesHeld
<1>7. ASSUME CallsPlaced
      PROVE  CallsPlaced'
  BY <1>2, <1>7, Zenon DEF CallsPlaced
<1>8. ASSUME DeathsAreExplained
      PROVE  DeathsAreExplained'
  BY <1>2, <1>8, Zenon DEF DeathsAreExplained, Started, Calling
<1>9. QED
  BY <1>3, <1>4, <1>5, <1>6, <1>7, <1>8, Zenon DEF Control

USE DEF Starting, Ending, Reading

LEMMA InitControl == Init => Control
  BY DEF Init, Control, ControlTyped, ThreadsPlaced, ResourcesHeld, CallsPlaced,
         DeathsAreExplained, Started, Callers

LEMMA MainKeepsControl ==
    ASSUME Control, MainStep
    PROVE  Control'
<1> USE DEF Control, ControlTyped, ThreadsPlaced, ResourcesHeld, CallsPlaced, Callers,
            DeathsAreExplained, Started, Calling, MainAt, MainTo, Ends, process,
            flags, threads, kafka, calls, data, schedule
<1>1. CASE Configure
  BY <1>1 DEF Configure
<1>2. CASE PrepareBackend
  BY <1>2 DEF PrepareBackend
<1>3. CASE PrepareWorld
  BY <1>3 DEF PrepareWorld
<1>4. CASE PrepareGateway
  BY <1>4 DEF PrepareGateway
<1>5. CASE StartProducer
  BY <1>5 DEF StartProducer
<1>6. CASE CloseProducer
  BY <1>6, ZenonT(40) DEF CloseProducer
<1>7. CASE ProducerCloses
  BY <1>7, ZenonT(40) DEF ProducerCloses
<1>8. CASE CloseConsumer
  BY <1>8 DEF CloseConsumer
<1>9. CASE ConsumerCloses
  BY <1>9 DEF ConsumerCloses
<1>10. CASE ClosingEnds
  BY <1>10 DEF ClosingEnds
<1>11. CASE Waited
  BY <1>11 DEF Waited
<1>12. CASE Joined
  BY <1>12, JoinedOutline, ZenonT(40)
<1>13. QED
  BY <1>1, <1>2, <1>3, <1>4, <1>5, <1>6, <1>7, <1>8, <1>9, <1>10, <1>11, <1>12
     DEF MainStep

LEMMA ReaderKeepsControl ==
    ASSUME Control, ReaderStep
    PROVE  Control'
<1> USE DEF Control, ControlTyped, ThreadsPlaced, ResourcesHeld, CallsPlaced, Callers,
            DeathsAreExplained, Started, Calling, ReaderAt, ReaderTo, Ends, process,
            flags, threads, kafka, calls, data, schedule
<1>1. CASE StartConsumer
  BY <1>1 DEF StartConsumer
<1>2. CASE Subscribe
  BY <1>2 DEF Subscribe
<1>3. CASE LoopTop
  BY <1>3 DEF LoopTop
<1>4. CASE CheckConsumer
  BY <1>4 DEF CheckConsumer
<1>5. CASE CheckClosing
  BY <1>5 DEF CheckClosing
<1>6. CASE Consume
  BY <1>6 DEF Consume
<1>7. CASE Consumed
  BY <1>7 DEF Consumed
<1>8. CASE NothingConsumed
  BY <1>8 DEF NothingConsumed
<1>9. CASE Handle
  <2>1. CASE HandleWithAnswer
    <3>1. \/ producer = "open" /\ call' = [call EXCEPT !["reader"] = "checked"]
          \/ producer = "closing" /\ call' = call
      BY <2>1, EnqueueOutline, Zenon DEF HandleWithAnswer
    <3>2. QED
      BY <2>1, <3>1 DEF HandleWithAnswer
  <2>2. CASE HandleFailed
    <3>1. \/ producer = "open" /\ call' = [call EXCEPT !["reader"] = "checked"]
          \/ producer # "open" /\ call' = call
      BY <2>2, EnqueueOutline, Zenon DEF HandleFailed, calls
    <3>2. QED
      BY <2>2, <3>1 DEF HandleFailed
  <2>3. CASE HandleForClient
    BY <2>3 DEF HandleForClient
  <2>4. CASE HandleWithEvent
    BY <2>4 DEF HandleWithEvent
  <2>5. CASE HandleQuit
    BY <2>5 DEF HandleQuit
  <2>6. CASE HandleInSilence
    BY <2>6 DEF HandleInSilence
  <2>7. QED
    BY <1>9, <2>1, <2>2, <2>3, <2>4, <2>5, <2>6 DEF Handle
<1>10. CASE ReaderCloses
  BY <1>10 DEF ReaderCloses
<1>11. QED
  BY <1>1, <1>2, <1>3, <1>4, <1>5, <1>6, <1>7, <1>8, <1>9, <1>10 DEF ReaderStep

LEMMA OthersKeepControl ==
    ASSUME Control,
           TickerStep \/ HubStep \/ Clock \/ Signal \/ Arrive \/ UNCHANGED vars
    PROVE  Control'
<1> USE DEF Control, ControlTyped, ThreadsPlaced, ResourcesHeld, CallsPlaced, Callers,
            DeathsAreExplained, Started, Calling, TickerAt, TickerTo, HubAt, Ends,
            process, flags, threads, kafka, calls, data, schedule
<1>1. CASE LoadFromDatabase
  BY <1>1 DEF LoadFromDatabase
<1>2. CASE TickerLoop
  BY <1>2 DEF TickerLoop
<1>3. CASE Wake
  BY <1>3 DEF Wake
<1>4. CASE Update
  BY <1>4, UpdateOutline
<1>5. CASE TickEnds
  BY <1>5 DEF TickEnds
<1>6. CASE Listen
  BY <1>6, ZenonT(40) DEF Listen
<1>7. CASE HubStops
  BY <1>7, ZenonT(40) DEF HubStops
<1>8. CASE Clock
  BY <1>8, ZenonT(40) DEF Clock
<1>9. CASE Signal
  BY <1>9, ZenonT(40) DEF Signal
<1>10. CASE Arrive \/ UNCHANGED vars
  BY <1>10, StutterKeepsControl
<1>11. CASE UpdateDies
  <2>1. /\ TickerAt("tick")
        /\ Ends("terminated") \/ (Head(events) = "nowhere" /\ Ends("crashed"))
    BY <1>11, Zenon DEF UpdateDies
  <2>2. events' = events
    BY <2>1
  <2>3. CASE Ends("terminated")
    BY <2>1, <2>3
  <2>4. CASE Head(events) = "nowhere" /\ Ends("crashed")
    BY <2>1, <2>2, <2>4, ZenonT(40)
  <2>5. QED
    BY <2>1, <2>3, <2>4
<1>12. CASE HubEnqueues
  <2>1. \/ producer = "open" /\ call' = [call EXCEPT !["hub"] = "checked"]
        \/ producer = "closing" /\ call' = call
    BY <1>12, EnqueueOutline, Zenon DEF HubEnqueues
  <2>2. /\ hub = "poll"
        /\ UNCHANGED <<process, fate, flags, threads, kafka, inbox, got, sent, events>>
    BY <1>12, Zenon DEF HubEnqueues, HubAt
  <2>3. QED
    BY <2>1, <2>2, ZenonT(40)
<1>13. QED
  BY <1>1, <1>2, <1>3, <1>4, <1>5, <1>6, <1>7, <1>8, <1>9, <1>10, <1>11, <1>12
     DEF TickerStep, HubStep

LEMMA LeavesOutline ==
    ASSUME NEW t, NEW to, Leaves(t, to)
    PROVE  /\ call' = [call EXCEPT ![t] = "none"]
           /\ reader' = IF t = "reader" THEN to ELSE reader
           /\ UNCHANGED <<process, fate, flags, main, ticker, hub, kafka, events>>
  BY Zenon DEF Leaves

LEMMA CallsKeepControl ==
    ASSUME Control, NEW t \in Callers, CallStep(t) \/ Produce(t)
    PROVE  Control'
<1>1. call[t] # "none" => Calling
  BY Zenon DEF Calling
<1>2. fate = "running" /\ call[t] # "none" /\ Calling
  BY <1>1 DEF CallStep, FindTopic, ProduceCrashes, Produce, InCall
<1>a. ControlTyped /\ ThreadsPlaced /\ ResourcesHeld /\ CallsPlaced /\ DeathsAreExplained
  BY Zenon DEF Control
<1>b. ASSUME ControlTyped', ThreadsPlaced', ResourcesHeld', CallsPlaced', DeathsAreExplained'
      PROVE  Control'
  BY <1>b, Zenon DEF Control
<1>c. producer = "none" => quit
  BY <1>2, <1>a DEF ControlTyped, ThreadsPlaced, ResourcesHeld, CallsPlaced
<1>3. ASSUME Ends("crashed"), producer = "none"
      PROVE  Control'
  <2>1. /\ fate' = "crashed" /\ call' = call /\ main' = main /\ reader' = reader
        /\ ticker' = ticker /\ hub' = hub /\ quit' = quit /\ kind' = kind
        /\ producer' = producer /\ consumer' = consumer
    BY <1>3 DEF Ends, process, flags, threads, kafka, calls
  <2>2. Calling'
    BY <1>2, <2>1, Zenon DEF Calling
  <2>3. ControlTyped' /\ ThreadsPlaced' /\ ResourcesHeld'
    <3>a. ControlTyped'
      <4>1. fate' = "crashed" /\ main' = main /\ reader' = reader /\ ticker' = ticker
            /\ hub' = hub /\ producer' = producer /\ consumer' = consumer
        BY <2>1, Zenon
      <4>2. QED
        BY <1>a, <4>1, ZenonT(60) DEF ControlTyped
    <3>b. ThreadsPlaced'
      BY <1>a, <2>1 DEF ThreadsPlaced
    <3>c. ResourcesHeld'
      BY <1>a, <2>1 DEF ResourcesHeld
    <3>d. QED
      BY <3>a, <3>b, <3>c
  <2>4. CallsPlaced'
    BY <1>a, <2>1 DEF CallsPlaced
  <2>5. DeathsAreExplained'
    BY <1>3, <1>c, <2>1, <2>2 DEF DeathsAreExplained
  <2>6. QED
    BY <1>b, <2>3, <2>4, <2>5
<1>4. ASSUME NEW to \in {"loop", "failed"}, Leaves(t, to)
      PROVE  Control'
  <2>1. /\ call' = [call EXCEPT ![t] = "none"]
        /\ reader' = IF t = "reader" THEN to ELSE reader
        /\ fate' = fate /\ main' = main /\ ticker' = ticker /\ hub' = hub /\ quit' = quit
        /\ kind' = kind /\ producer' = producer /\ consumer' = consumer
    BY <1>4, LeavesOutline DEF process, flags, kafka
  <2>2. t = "reader" => reader \in {"handle", "failed"}
    BY <1>2, <1>a DEF CallsPlaced
  <2>a. reader' = reader \/ (reader' \in {"loop", "failed"} /\ reader \in {"handle", "failed"})
    BY <2>1, <2>2
  <2>b. ControlTyped'
    <3>1. reader' \in {"none", "start", "done"} \cup Reading
      BY <1>a, <2>a DEF ControlTyped
    <3> HIDE DEF Starting, Ending, Reading
    <3>2. QED
      BY <1>a, <2>1, <3>1, ZenonT(60) DEF ControlTyped
  <2>c. ThreadsPlaced'
    BY <1>a, <2>1, <2>a DEF ThreadsPlaced
  <2>d. ResourcesHeld'
    BY <1>a, <2>1, <2>a DEF ResourcesHeld
  <2>3. ControlTyped' /\ ThreadsPlaced' /\ ResourcesHeld'
    BY <2>b, <2>c, <2>d
  <2>4. CallsPlaced'
    BY <1>a, <2>1, <2>2 DEF CallsPlaced, Callers
  <2>5. DeathsAreExplained'
    BY <1>2, <2>1 DEF DeathsAreExplained
  <2>6. QED
    BY <1>b, <2>3, <2>4, <2>5
<1>5. CASE FindTopic(t)
  <2>1. CASE /\ call' = [call EXCEPT ![t] = "found"] /\ call[t] = "checked"
             /\ UNCHANGED <<process, fate, flags, threads, kafka, sending, data, schedule>>
    <3>1. /\ fate' = fate /\ main' = main /\ reader' = reader
          /\ ticker' = ticker /\ hub' = hub /\ quit' = quit /\ kind' = kind
          /\ producer' = producer /\ consumer' = consumer
      BY <2>1 DEF process, flags, threads, kafka
    <3>a. ControlTyped'
      <4> HIDE DEF Starting, Ending, Reading
      <4>1. QED
        BY <1>a, <3>1, ZenonT(60) DEF ControlTyped
    <3>b. ThreadsPlaced'
      BY <1>a, <3>1 DEF ThreadsPlaced
    <3>c. ResourcesHeld'
      BY <1>a, <3>1 DEF ResourcesHeld
    <3>2. ControlTyped' /\ ThreadsPlaced' /\ ResourcesHeld'
      BY <3>a, <3>b, <3>c
    <3>3. CallsPlaced'
      BY <1>2, <1>a, <2>1, <3>1 DEF CallsPlaced, Callers
    <3>4. DeathsAreExplained'
      BY <1>2, <3>1 DEF DeathsAreExplained
    <3>5. QED
      BY <1>b, <3>2, <3>3, <3>4
  <2>2. CASE Leaves(t, IF reader = "handle" THEN "failed" ELSE "loop")
    BY <2>2, <1>4
  <2>3. CASE t = "ticker" /\ Ends("terminated")
    <3>1. /\ fate' = "terminated" /\ call' = call /\ main' = main /\ reader' = reader
          /\ ticker' = ticker /\ hub' = hub /\ quit' = quit /\ kind' = kind
          /\ producer' = producer /\ consumer' = consumer
      BY <2>3 DEF Ends, process, flags, threads, kafka, calls
    <3>2. kind = "world" /\ ticker = "tick"
      BY <1>2, <1>a, <2>3 DEF CallsPlaced, ThreadsPlaced
    <3>3. ControlTyped' /\ ThreadsPlaced' /\ ResourcesHeld'
      <4>a. ControlTyped'
        <5>1. fate' = "terminated" /\ main' = main /\ reader' = reader /\ ticker' = ticker
              /\ hub' = hub /\ producer' = producer /\ consumer' = consumer
          BY <3>1, Zenon
        <5>2. QED
          BY <1>a, <5>1, ZenonT(60) DEF ControlTyped
      <4>b. ThreadsPlaced'
        BY <1>a, <3>1 DEF ThreadsPlaced
      <4>c. ResourcesHeld'
        BY <1>a, <3>1 DEF ResourcesHeld
      <4>d. QED
        BY <4>a, <4>b, <4>c
    <3>4. CallsPlaced'
      BY <1>a, <3>1 DEF CallsPlaced
    <3>5. DeathsAreExplained'
      BY <3>1, <3>2 DEF DeathsAreExplained
    <3>6. QED
      BY <1>b, <3>3, <3>4, <3>5
  <2>4. CASE producer = "none" /\ Ends("crashed")
    BY <2>4, <1>3
  <2>5. QED
    BY <1>5, <2>1, <2>2, <2>3, <2>4, Zenon DEF FindTopic, InCall
<1>6. CASE ProduceCrashes(t)
  BY <1>6, <1>3 DEF ProduceCrashes
<1>7. CASE Produce(t)
  BY <1>7, <1>4 DEF Produce
<1>8. QED
  BY <1>5, <1>6, <1>7 DEF CallStep

LEMMA StepControl == Control /\ [Next]_vars => Control'
  BY MainKeepsControl, ReaderKeepsControl, OthersKeepControl, CallsKeepControl DEF Next

THEOREM ControlKept == Spec => []Control
  BY InitControl, StepControl, PTL DEF Spec

(* A server that has started ends only when it was told to, or a world by  *)
(* an event in a tick; a thread is left without what it uses only when     *)
(* main closed it.                                                         *)
THEOREM DeathsExplained == Spec => []DeathsAreExplained
<1>1. Control => DeathsAreExplained
  BY DEF Control
<1>2. QED
  BY <1>1, ControlKept, PTL

-----------------------------------------------------------------------------
(* The schedule of the world.                                              *)

ScheduleKept ==
    /\ next \in -MaxLag .. TickLength /\ phase \in 0 .. TickLength - 1 /\ behind \in Int
    /\ ticker \in {"none", "load"} => next = 0 /\ second = 0 /\ phase = 0
    /\ ticker = "tick" => next <= 0
    /\ TicksKeepTheSchedule

LEMMA InitSchedule == Init => ScheduleKept
  BY ServersAssumption DEF Init, ScheduleKept, TicksKeepTheSchedule

\* What a thread in enqueue_message leaves alone.
LEMMA CallsLeave ==
    ASSUME NEW t \in Callers, CallStep(t) \/ Produce(t)
    PROVE  UNCHANGED <<process, flags, main, ticker, hub, kafka, inbox, arrived, got, events,
                       schedule>>
<1>1. ASSUME NEW to, Leaves(t, to)
      PROVE  UNCHANGED <<process, flags, main, ticker, hub, kafka, inbox, arrived, got, events,
                         schedule>>
  BY <1>1, Zenon DEF Leaves
<1>2. CASE CallStep(t)
  BY <1>1, <1>2, Zenon DEF CallStep, FindTopic, ProduceCrashes, Ends, threads, data
<1>3. CASE Produce(t)
  BY <1>1, <1>3, Zenon DEF Produce
<1>4. QED
  BY <1>2, <1>3

\* The other threads do not touch it; main starts the thread before any of it is.
LEMMA OthersLeaveSchedule ==
    ASSUME Control,
           \/ MainStep \/ ReaderStep \/ HubStep \/ Signal \/ Arrive \/ UNCHANGED vars
           \/ \E t \in Callers : CallStep(t) \/ Produce(t)
    PROVE  /\ UNCHANGED <<next, second, phase, behind>>
           /\ (ticker' = ticker) \/ (ticker = "none" /\ ticker' \in {"none", "load"})
<1> DEFINE Goal == /\ UNCHANGED <<next, second, phase, behind>>
                   /\ (ticker' = ticker) \/ (ticker = "none" /\ ticker' \in {"none", "load"})
<1>1. CASE StartProducer
  BY <1>1 DEF StartProducer, MainAt, Ends, Control, ThreadsPlaced, schedule, threads
<1>2. CASE MainStep /\ ~StartProducer
  <2>1. UNCHANGED <<ticker, schedule>>
    BY <1>2, Zenon DEF MainStep, Configure, PrepareBackend, PrepareWorld, PrepareGateway,
       CloseProducer, ProducerCloses, CloseConsumer, ConsumerCloses, ClosingEnds, Waited,
       Joined, MainTo, Ends, threads
  <2>2. QED
    BY <2>1 DEF schedule
<1>3. CASE ReaderStep
  <2>1. UNCHANGED <<ticker, schedule>>
    BY <1>3, Zenon DEF ReaderStep, StartConsumer, Subscribe, LoopTop, CheckConsumer,
       CheckClosing, Consume, Consumed, NothingConsumed, Handle, HandleWithAnswer,
       HandleFailed, HandleForClient, HandleWithEvent, HandleQuit, HandleInSilence, ReaderCloses,
       ReaderTo, Ends, threads
  <2>2. QED
    BY <2>1 DEF schedule
<1>4. CASE HubStep \/ Signal \/ Arrive \/ UNCHANGED vars
  <2>1. UNCHANGED <<ticker, schedule>>
    BY <1>4, Zenon DEF HubStep, Listen, HubStops, HubEnqueues, Signal, Arrive, vars, threads
  <2>2. QED
    BY <2>1 DEF schedule
<1>5. CASE \E t \in Callers : CallStep(t) \/ Produce(t)
  <2>1. UNCHANGED <<ticker, schedule>>
    BY <1>5, CallsLeave, Zenon
  <2>2. QED
    BY <2>1 DEF schedule
<1>6. QED
  BY <1>1, <1>2, <1>3, <1>4, <1>5

LEMMA OthersKeepSchedule ==
    ASSUME ScheduleKept, UNCHANGED <<next, second, phase, behind>>,
           (ticker' = ticker) \/ (ticker = "none" /\ ticker' \in {"none", "load"})
    PROVE  ScheduleKept'
  BY DEF ScheduleKept, TicksKeepTheSchedule

LEMMA OneTickMore ==
    ASSUME NEW b \in Int, NEW T \in Nat \ {0}
    PROVE  /\ (1 - b) * T \in Int
           /\ (1 - (b - 1)) * T = (1 - b) * T + T
           /\ (1 - (b + 1)) * T = (1 - b) * T - T
           /\ b <= 0 => (1 - b) * T >= T
  OBVIOUS

(* A tick that was due moves next_tick by one tick length, the clock both  *)
(* next_tick and the phase by one; once a tick length is over a tick is due.*)
LEMMA TickerKeepsSchedule ==
    ASSUME ScheduleKept, TickerStep \/ Clock
    PROVE  ScheduleKept'
<1> USE ServersAssumption DEF ScheduleKept
<1> DEFINE T == TickLength
           Due(b) == (1 - b) * T
<1>0. /\ T \in Nat \ {0} /\ behind \in Int /\ Due(behind) \in Int
      /\ Due(behind - 1) = Due(behind) + T /\ Due(behind + 1) = Due(behind) - T
      /\ behind <= 0 => Due(behind) >= T
  BY OneTickMore
<1>a. ticker \notin {"none", "load"} =>
          behind >= 0 /\ next = Due(behind) - phase /\ second = next + T
  BY DEF TicksKeepTheSchedule
<1>b. ASSUME ticker' \notin {"none", "load"} =>
                /\ behind' >= 0
                /\ \A b \in Int : b = behind' => next' = Due(b) - phase'
                /\ second' = next' + T,
             behind' \in Int
      PROVE  TicksKeepTheSchedule'
  BY <1>b DEF TicksKeepTheSchedule
<1> HIDE DEF Due
<1>1. CASE LoadFromDatabase
  <2>1. next' = T /\ second' = 2 * T /\ phase' = 0 /\ behind' = 0 /\ ticker' = "loop"
    BY <1>1 DEF LoadFromDatabase, TickerTo
  <2>2. Due(0) = T
    BY DEF Due
  <2>3. TicksKeepTheSchedule'
    BY <1>b, <2>1, <2>2
  <2>4. QED
    BY <2>1, <2>3
<1>2. CASE TickerLoop
  BY <1>2 DEF TickerLoop, TickerAt, TickerTo, schedule, TicksKeepTheSchedule
<1>3. CASE Wake
  BY <1>3 DEF Wake, TickerAt, TickerTo, schedule, TicksKeepTheSchedule
<1>4. CASE Update \/ UpdateDies
  <2>1. ticker = "tick" /\ ticker' = "tick" /\ UNCHANGED schedule
    BY <1>4, Zenon DEF Update, UpdateDies, TickerAt, TickerTo, Ends, threads
  <2>2. QED
    BY <2>1 DEF schedule, TicksKeepTheSchedule
<1>5. CASE TickEnds
  <2>1. /\ ticker = "tick" /\ ticker' = "loop"
        /\ next' = second /\ second' = second + T /\ phase' = phase /\ behind' = behind - 1
    BY <1>5 DEF TickEnds, TickerAt, TickerTo
  <2>2. second = next + T /\ next <= 0 /\ next = Due(behind) - phase
    BY <2>1, <1>a
  <2>3. behind >= 1
    BY <1>0, <2>2
  <2>4. next' = Due(behind - 1) - phase /\ second' = next' + T
    BY <1>0, <2>1, <2>2
  <2>5. TicksKeepTheSchedule'
    BY <1>0, <1>b, <2>1, <2>3, <2>4
  <2>6. QED
    BY <1>0, <2>1, <2>2, <2>5
<1>6. CASE Clock
  <2>1. /\ ticker \in {"loop", "sleep", "tick"} /\ ticker' = ticker
        /\ next > -MaxLag /\ next' = next - 1 /\ second' = second - 1
        /\ phase' = (phase + 1) % T
        /\ behind' = IF phase' = 0 THEN behind + 1 ELSE behind
    BY <1>6 DEF Clock, threads
  <2>2. phase' = (IF phase + 1 = T THEN 0 ELSE phase + 1)
    BY <2>1, CountModulo
  <2>3. behind >= 0 /\ second = next + T /\ next = Due(behind) - phase
    BY <2>1, <1>a
  <2>4. next' = Due(IF phase' = 0 THEN behind + 1 ELSE behind) - phase'
    BY <1>0, <2>1, <2>2, <2>3
  <2>5. next' \in -MaxLag .. T /\ phase' \in 0 .. T - 1 /\ second' = next' + T
        /\ behind' \in Int /\ behind' >= 0
    BY <1>0, <2>1, <2>2, <2>3
  <2>6. TicksKeepTheSchedule'
    BY <1>b, <2>1, <2>4, <2>5
  <2>7. QED
    BY <2>1, <2>5, <2>6
<1>7. QED
  BY <1>1, <1>2, <1>3, <1>4, <1>5, <1>6 DEF TickerStep

LEMMA StepSchedule == Control /\ ScheduleKept /\ [Next]_vars => ScheduleKept'
  BY OthersLeaveSchedule, OthersKeepSchedule, TickerKeepsSchedule DEF Next

LEMMA ScheduleAlwaysKept == Spec => []ScheduleKept
<1>1. Spec => []Control
  BY ControlKept
<1>2. QED
  BY <1>1, InitSchedule, StepSchedule, PTL DEF Spec

(* The next tick of a world is when the first tick is due that was not run, *)
(* however late ticks were: as many tick lengths before or after the last  *)
(* tick that was due as ticks were run too few, and never run too many.    *)
THEOREM ScheduleIsKept == Spec => []TicksKeepTheSchedule
<1>1. ScheduleKept => TicksKeepTheSchedule
  BY DEF ScheduleKept
<1>2. QED
  BY <1>1, ScheduleAlwaysKept, PTL

-----------------------------------------------------------------------------
(* What the threads hand to each other.                                    *)

\* The consumer's queue is a sequence, of whatever there is on the topics.
InboxKept ==
    /\ \E S : inbox \in Seq(S)
    /\ arrived \in 0 .. MaxMessages /\ Len(inbox) <= arrived

EventsKept == events \in Seq({"loaded", "elsewhere", "nowhere"})
SentKept == \A b \in sent : b.archive \in {"binary", "json"}
FlagsKept == quit \in BOOLEAN /\ uwsQuit \in BOOLEAN /\ closing \in BOOLEAN

SendingKept ==
    /\ DOMAIN sending = Callers /\ DOMAIN call = Callers
    /\ \A t \in Callers : call[t] = "none" <=> sending[t] = <<>>

LEMMA QueueAppend ==
    ASSUME NEW S, NEW s \in Seq(S), NEW x
    PROVE  /\ Append(s, x) \in Seq(S \cup {x})
           /\ Len(Append(s, x)) = Len(s) + 1
           /\ x \in S => Append(s, x) \in Seq(S)
<1>1. s \in Seq(S \cup {x})
  BY SeqMonotonic
<1>2. QED
  BY <1>1

LEMMA QueueTail ==
    ASSUME NEW S, NEW s \in Seq(S), s # <<>>
    PROVE  /\ Tail(s) \in Seq(S)
           /\ Len(Tail(s)) = Len(s) - 1
  BY HeadTailProperties

LEMMA FlagsStep == FlagsKept /\ [Next]_vars => FlagsKept'
<1> SUFFICES ASSUME FlagsKept, [Next]_vars PROVE FlagsKept'
  OBVIOUS
<1> USE DEF FlagsKept
<1>1. CASE MainStep
  BY <1>1, Zenon DEF MainStep, Configure, PrepareBackend, PrepareWorld, PrepareGateway,
     StartProducer, CloseProducer, ProducerCloses, CloseConsumer, ConsumerCloses,
     ClosingEnds, Waited, Joined, Ends, flags, kafka
<1>2. CASE ReaderStep
  BY <1>2, Zenon DEF ReaderStep, StartConsumer, Subscribe, LoopTop, CheckConsumer,
     CheckClosing, Consume, Consumed, NothingConsumed, Handle, HandleWithAnswer,
     HandleFailed, HandleForClient, HandleWithEvent, HandleQuit, HandleInSilence, ReaderCloses,
     ReaderTo, Ends, flags, kafka
<1>3. CASE TickerStep
  BY <1>3, Zenon DEF TickerStep, LoadFromDatabase, TickerLoop, Wake, Update, UpdateDies, TickEnds,
     TickerTo, Ends, flags, kafka
<1>4. CASE HubStep \/ Clock \/ Signal \/ Arrive \/ UNCHANGED vars
  BY <1>4, Zenon DEF HubStep, Listen, HubStops, HubEnqueues, Clock, Signal, Arrive, vars, flags, kafka
<1>5. CASE \E t \in Callers : CallStep(t) \/ Produce(t)
  BY <1>5, CallsLeave, Zenon DEF flags, kafka
<1>6. QED
  BY <1>1, <1>2, <1>3, <1>4, <1>5 DEF Next

\* Arrive and Consumed alone touch what arrived; a client's request is counted.
LEMMA InboxSteps ==
    [Next]_vars => Arrive \/ Consumed \/ HubEnqueues \/ UNCHANGED <<inbox, arrived>>
<1> SUFFICES ASSUME [Next]_vars, ~Arrive, ~Consumed, ~HubEnqueues
             PROVE  UNCHANGED <<inbox, arrived>>
  OBVIOUS
<1>1. CASE MainStep
  BY <1>1, Zenon DEF MainStep, Configure, PrepareBackend, PrepareWorld, PrepareGateway,
     StartProducer, CloseProducer, ProducerCloses, CloseConsumer, ConsumerCloses,
     ClosingEnds, Waited, Joined, MainTo, Ends, data
<1>2. CASE ReaderStep
  BY <1>2, Zenon DEF ReaderStep, StartConsumer, Subscribe, LoopTop, CheckConsumer,
     CheckClosing, Consume, NothingConsumed, Handle, HandleWithAnswer,
     HandleFailed, HandleForClient, HandleWithEvent, HandleQuit, HandleInSilence, ReaderCloses,
     Ends, data
<1>3. CASE TickerStep
  BY <1>3, Zenon DEF TickerStep, LoadFromDatabase, TickerLoop, Wake, Update, UpdateDies, TickEnds,
     Ends, data
<1>4. CASE HubStep \/ Clock \/ Signal \/ UNCHANGED vars
  BY <1>4, Zenon DEF HubStep, Listen, HubStops, Clock, Signal, vars, data
<1>5. CASE \E t \in Callers : CallStep(t) \/ Produce(t)
  BY <1>5, CallsLeave, Zenon
<1>6. QED
  BY <1>1, <1>2, <1>3, <1>4, <1>5 DEF Next

LEMMA InboxStep == InboxKept /\ [Next]_vars => InboxKept'
<1> SUFFICES ASSUME InboxKept, [Next]_vars PROVE InboxKept'
  OBVIOUS
<1>1. PICK S : inbox \in Seq(S)
  BY DEF InboxKept
<1>2. arrived \in 0 .. MaxMessages /\ Len(inbox) <= arrived /\ Len(inbox) \in Nat
  BY <1>1 DEF InboxKept
<1>3. CASE Arrive
  <2>1. PICK x : inbox' = Append(inbox, x)
    BY <1>3, Zenon DEF Arrive
  <2>2. arrived < MaxMessages /\ arrived' = arrived + 1
    BY <1>3 DEF Arrive
  <2>3. inbox' \in Seq(S \cup {x}) /\ Len(inbox') = Len(inbox) + 1
    BY <1>1, <2>1, QueueAppend
  <2>4. arrived' \in 0 .. MaxMessages /\ Len(inbox') <= arrived'
    BY <1>2, <2>2, <2>3, ServersAssumption
  <2>5. QED
    BY <2>3, <2>4 DEF InboxKept
<1>4. CASE Consumed
  <2>1. inbox # <<>> /\ inbox' = Tail(inbox) /\ arrived' = arrived
    BY <1>4, Zenon DEF Consumed
  <2>2. inbox' \in Seq(S) /\ Len(inbox') = Len(inbox) - 1
    BY <1>1, <2>1, QueueTail
  <2>3. Len(inbox') <= arrived'
    BY <1>2, <2>1, <2>2
  <2>4. QED
    BY <1>2, <2>1, <2>2, <2>3 DEF InboxKept
<1>5. CASE UNCHANGED <<inbox, arrived>>
  BY <1>5, Zenon DEF InboxKept
<1>6. CASE HubEnqueues
  <2>1. arrived < MaxMessages /\ arrived' = arrived + 1 /\ inbox' = inbox
    BY <1>6, Zenon DEF HubEnqueues
  <2>2. arrived' \in 0 .. MaxMessages /\ Len(inbox') <= arrived'
    BY <1>2, <2>1, ServersAssumption
  <2>3. QED
    BY <1>1, <2>1, <2>2, Zenon DEF InboxKept
<1>7. QED
  BY <1>3, <1>4, <1>5, <1>6, InboxSteps

LEMMA EventsSteps ==
    ASSUME [Next]_vars
    PROVE  \/ HandleWithEvent
           \/ (events # <<>> /\ events' = Tail(events))
           \/ events' = events
<1> DEFINE Goal == \/ HandleWithEvent
                   \/ (events # <<>> /\ events' = Tail(events))
                   \/ events' = events
<1>1. CASE MainStep
  BY <1>1, Zenon DEF MainStep, Configure, PrepareBackend, PrepareWorld, PrepareGateway,
     StartProducer, CloseProducer, ProducerCloses, CloseConsumer, ConsumerCloses,
     ClosingEnds, Waited, Joined, MainTo, Ends, data
<1>2. CASE ReaderStep
  BY <1>2, Zenon DEF ReaderStep, StartConsumer, Subscribe, LoopTop, CheckConsumer,
     CheckClosing, Consume, Consumed, NothingConsumed, Handle, HandleWithAnswer,
     HandleFailed, HandleForClient, HandleQuit, HandleInSilence, ReaderCloses, Ends, data
<1>3. CASE TickerStep
  BY <1>3, Zenon DEF TickerStep, LoadFromDatabase, TickerLoop, Wake, Update, UpdateDies, TickEnds,
     Ends, data
<1>4. CASE HubStep \/ Clock \/ Signal \/ Arrive \/ UNCHANGED vars
  BY <1>4, Zenon DEF HubStep, Listen, HubStops, HubEnqueues, Clock, Signal, Arrive, vars, data
<1>5. CASE \E t \in Callers : CallStep(t) \/ Produce(t)
  BY <1>5, CallsLeave, Zenon
<1>6. QED
  BY <1>1, <1>2, <1>3, <1>4, <1>5 DEF Next

LEMMA EventsStep == EventsKept /\ [Next]_vars => EventsKept'
<1> SUFFICES ASSUME EventsKept, [Next]_vars PROVE EventsKept'
  OBVIOUS
<1> USE DEF EventsKept
<1>1. CASE HandleWithEvent
  <2>1. PICK e \in {"loaded", "elsewhere", "nowhere"} : events' = Append(events, e)
    BY <1>1, Zenon DEF HandleWithEvent
  <2>2. Append(events, e) \in Seq({"loaded", "elsewhere", "nowhere"})
    BY QueueAppend, Zenon
  <2>3. QED
    BY <2>1, <2>2, Zenon
<1>2. CASE events # <<>> /\ events' = Tail(events)
  BY <1>2, QueueTail, Zenon
<1>3. QED
  BY <1>1, <1>2, EventsSteps, Zenon

\* Which steps send.
LEMMA SentSteps ==
    [Next]_vars => HandleForClient \/ (\E t \in Callers : Produce(t)) \/ UNCHANGED sent
<1> SUFFICES ASSUME [Next]_vars, ~HandleForClient, ~\E t \in Callers : Produce(t)
             PROVE  UNCHANGED sent
  OBVIOUS
<1>1. CASE MainStep
  BY <1>1, Zenon DEF MainStep, Configure, PrepareBackend, PrepareWorld, PrepareGateway,
     StartProducer, CloseProducer, ProducerCloses, CloseConsumer, ConsumerCloses,
     ClosingEnds, Waited, Joined, MainTo, Ends, data
<1>2. CASE ReaderStep
  BY <1>2, Zenon DEF ReaderStep, StartConsumer, Subscribe, LoopTop, CheckConsumer,
     CheckClosing, Consume, Consumed, NothingConsumed, Handle, HandleWithAnswer, HandleFailed,
     HandleWithEvent, HandleQuit, HandleInSilence, ReaderCloses, Ends, data
<1>3. CASE TickerStep
  BY <1>3, Zenon DEF TickerStep, LoadFromDatabase, TickerLoop, Wake, Update, UpdateDies,
     TickEnds, Ends, data
<1>4. CASE HubStep \/ Clock \/ Signal \/ Arrive \/ UNCHANGED vars
  BY <1>4, Zenon DEF HubStep, Listen, HubStops, HubEnqueues, Clock, Signal, Arrive, vars, data
<1>5. CASE \E t \in Callers : CallStep(t)
  BY <1>5, Zenon DEF CallStep, FindTopic, ProduceCrashes, Ends, data
<1>6. QED
  BY <1>1, <1>2, <1>3, <1>4, <1>5 DEF Next

LEMMA SentStep == SentKept /\ [Next]_vars => SentKept'
<1> SUFFICES ASSUME SentKept, [Next]_vars PROVE SentKept'
  OBVIOUS
<1>1. CASE sent' = sent
  BY <1>1 DEF SentKept
<1>2. CASE HandleForClient
  <2>1. PICK m : sent' = sent \cup {[archive |-> "json", bytes |-> Serialize(m), meant |-> m]}
    BY <1>2, Zenon DEF HandleForClient
  <2>2. QED
    BY <2>1 DEF SentKept
<1>3. ASSUME NEW t \in Callers, Produce(t) PROVE SentKept'
  <2>1. sent' = sent \/ sent' = sent \cup {[archive |-> "binary",
                                            bytes |-> Serialize(sending[t]),
                                            meant |-> sending[t]]}
    BY <1>3, Zenon DEF Produce, Binary
  <2>2. QED
    BY <2>1 DEF SentKept
<1>4. QED
  BY <1>1, <1>2, <1>3, SentSteps

\* A message that a thread of ours may hand to enqueue_message.
Enqueued(m) ==
    \/ m = MapMessage /\ ticker = "tick"
    \/ \E class \in Classes : m = Some(class) /\ class.id # SendMap.id

\* The classes of the answers, and of the requests.
LEMMA AnswersOurs ==
    ASSUME NEW id, NEW class \in Answers(id) \cup ClientClasses \cup {ErrorResponse}
    PROVE  class \in Classes /\ class.id # SendMap.id
<1>1. class \in {LoginResponse, ErrorResponse, RegisterResponse, CreateCharacter,
                 GetCharactersResponse, Login, Register, ChatSend, GetCharacters,
                 PlayCharacter, AdminQuit}
  BY Zenon DEF Answers, BackendAnswers, WorldAnswers, ClientClasses
<1>2. /\ LoginResponse.id = 1 /\ ErrorResponse.id = 8 /\ RegisterResponse.id = 3
      /\ CreateCharacter.id = 7 /\ GetCharactersResponse.id = 10 /\ SendMap.id = 11
      /\ 11 \notin {Login.id, Register.id, ChatSend.id, GetCharacters.id, PlayCharacter.id,
                    AdminQuit.id}
  BY DEF LoginResponse, ErrorResponse, RegisterResponse, CreateCharacter,
     GetCharactersResponse, SendMap, Login, Register, ChatSend, GetCharacters, PlayCharacter,
     AdminQuit, Class
<1>3. class.id # SendMap.id
  BY <1>1, <1>2
<1>4. class \in Classes
  BY <1>1, Zenon DEF Classes
<1>5. QED
  BY <1>3, <1>4

LEMMA MessagesAreNotEmpty ==
    ASSUME NEW m, Enqueued(m)
    PROVE  m # <<>>
<1>1. \A id, values : Message(id, values) # <<>>
  <2>1. \A id, values : "id" \in DOMAIN Message(id, values)
    BY DEF Message
  <2>2. "id" \notin DOMAIN <<>>
    OBVIOUS
  <2>3. QED
    BY <2>1, <2>2
<1>2. QED
  BY <1>1, Zenon DEF Enqueued, MapMessage, Some

\* What becomes of the call of a thread.
Enters(t, m) ==
    call' = [call EXCEPT ![t] = "checked"] /\ sending' = [sending EXCEPT ![t] = m]

CallLeft(t) ==
    call' = [call EXCEPT ![t] = "none"] /\ sending' = [sending EXCEPT ![t] = <<>>]

CallsChange ==
    \/ \E t \in Callers : \E m : Enqueued(m) /\ Enters(t, m)
    \/ \E t \in Callers : /\ call[t] = "checked" /\ call' = [call EXCEPT ![t] = "found"]
                          /\ sending' = sending
    \/ \E t \in Callers : CallLeft(t)
    \/ call' = call /\ sending' = sending

LEMMA CallSteps == [Next]_vars => CallsChange
<1> SUFFICES ASSUME [Next]_vars PROVE CallsChange
  OBVIOUS
<1>1. ASSUME NEW t \in Callers, NEW m, Enqueued(m), Enqueue(t, m) PROVE CallsChange
  BY <1>1, Zenon DEF Enqueue, CallsChange, Enters, calls
<1>2. ASSUME UNCHANGED calls PROVE CallsChange
  BY <1>2, Zenon DEF calls, CallsChange
<1>3. \A id : \A class \in Answers(id) \cup ClientClasses \cup {ErrorResponse} :
          Enqueued(Some(class))
  BY AnswersOurs, Zenon DEF Enqueued
<1>4. "reader" \in Callers /\ "ticker" \in Callers /\ "hub" \in Callers
  BY DEF Callers
<1>5. CASE MainStep
  <2>1. UNCHANGED calls
    BY <1>5, Zenon DEF MainStep, Configure, PrepareBackend, PrepareWorld, PrepareGateway,
       StartProducer, CloseProducer, ProducerCloses, CloseConsumer, ConsumerCloses,
       ClosingEnds, Waited, Joined, MainTo, Ends
  <2>2. QED
    BY <2>1, <1>2
<1>6. CASE HandleWithAnswer
  <2>1. PICK class \in Answers(got.message.id) : Enqueue("reader", Some(class))
    BY <1>6, Zenon DEF HandleWithAnswer
  <2>2. QED
    BY <2>1, <1>1, <1>3, <1>4, Zenon
<1>7. CASE HandleFailed
  <2>1. Enqueue("reader", Some(ErrorResponse)) \/ UNCHANGED calls
    BY <1>7, Zenon DEF HandleFailed
  <2>2. QED
    BY <2>1, <1>1, <1>2, <1>3, <1>4, Zenon
<1>8. CASE ReaderStep /\ ~HandleWithAnswer /\ ~HandleFailed
  <2>1. UNCHANGED calls
    BY <1>8, Zenon DEF ReaderStep, StartConsumer, Subscribe, LoopTop, CheckConsumer,
       CheckClosing, Consume, Consumed, NothingConsumed, Handle, HandleForClient,
       HandleWithEvent, HandleQuit, HandleInSilence, ReaderCloses, Ends
  <2>2. QED
    BY <2>1, <1>2
<1>9. CASE Update
  <2>1. ticker = "tick"
    BY <1>9, Zenon DEF Update, TickerAt
  <2>2. Enqueued(MapMessage)
    BY <2>1, Zenon DEF Enqueued
  <2>3. Enqueue("ticker", MapMessage) \/ Enqueue("ticker", Some(ErrorResponse))
    BY <1>9, Zenon DEF Update
  <2>4. QED
    BY <2>2, <2>3, <1>1, <1>3, <1>4, Zenon
<1>10. CASE TickerStep /\ ~Update
  <2>1. UNCHANGED calls
    BY <1>10, Zenon DEF TickerStep, LoadFromDatabase, TickerLoop, Wake, UpdateDies, TickEnds,
       Ends
  <2>2. QED
    BY <2>1, <1>2
<1>11. CASE HubEnqueues
  <2>1. PICK class \in ClientClasses : Enqueue("hub", Some(class))
    BY <1>11, Zenon DEF HubEnqueues
  <2>2. QED
    BY <2>1, <1>1, <1>3, <1>4, Zenon
<1>12. CASE Listen \/ HubStops \/ Clock \/ Signal \/ Arrive \/ UNCHANGED vars
  <2>1. UNCHANGED calls
    BY <1>12, Zenon DEF Listen, HubStops, Clock, Signal, Arrive, vars
  <2>2. QED
    BY <2>1, <1>2
<1>13. CASE \E t \in Callers : CallStep(t) \/ Produce(t)
  <2>1. PICK t \in Callers : CallStep(t) \/ Produce(t)
    BY <1>13
  <2>2. ASSUME NEW to, Leaves(t, to) PROVE CallsChange
    BY <2>2, Zenon DEF Leaves, CallLeft, CallsChange
  <2>3. CASE Produce(t) \/ \E to : Leaves(t, to)
    BY <2>2, <2>3, Zenon DEF Produce
  <2>4. CASE \E how : Ends(how)
    BY <2>4, <1>2, Zenon DEF Ends
  <2>5. CASE call[t] = "checked" /\ call' = [call EXCEPT ![t] = "found"] /\ sending' = sending
    BY <2>5, Zenon DEF CallsChange
  <2>6. CASE CallStep(t)
    <3>1. \/ \E how : Ends(how)
          \/ \E to : Leaves(t, to)
          \/ call[t] = "checked" /\ call' = [call EXCEPT ![t] = "found"] /\ sending' = sending
      BY <2>6, Zenon DEF CallStep, FindTopic, ProduceCrashes, InCall
    <3>2. QED
      BY <3>1, <2>3, <2>4, <2>5
  <2>7. QED
    BY <2>1, <2>3, <2>6
<1>14. QED
  BY <1>5, <1>6, <1>7, <1>8, <1>9, <1>10, <1>11, <1>12, <1>13 DEF Next, TickerStep, HubStep,
     ReaderStep

LEMMA SendingStep == SendingKept /\ [Next]_vars => SendingKept'
<1> SUFFICES ASSUME SendingKept, CallsChange PROVE SendingKept'
  BY CallSteps
<1> USE DEF SendingKept
<1>1. ASSUME NEW t \in Callers, NEW m, Enqueued(m), Enters(t, m) PROVE SendingKept'
  BY <1>1, MessagesAreNotEmpty DEF Enters
<1>2. ASSUME NEW t \in Callers, CallLeft(t) PROVE SendingKept'
  BY <1>2 DEF CallLeft
<1>3. ASSUME NEW t \in Callers, call[t] = "checked", call' = [call EXCEPT ![t] = "found"],
             sending' = sending
      PROVE  SendingKept'
  BY <1>3
<1>4. QED
  BY <1>1, <1>2, <1>3 DEF CallsChange

DataKept == InboxKept /\ EventsKept /\ SentKept /\ SendingKept /\ FlagsKept

LEMMA InitData == Init => DataKept
<1> SUFFICES ASSUME Init PROVE DataKept
  OBVIOUS
<1>1. inbox \in Seq({}) /\ inbox = <<>> /\ arrived = 0
  BY DEF Init
<1>2. InboxKept
  <2>1. arrived \in 0 .. MaxMessages /\ Len(inbox) <= arrived
    BY <1>1, ServersAssumption
  <2>2. QED
    BY <1>1, <2>1, Zenon DEF InboxKept
<1>3. EventsKept
  BY DEF Init, EventsKept
<1>4. SentKept
  BY DEF Init, SentKept
<1>5. FlagsKept
  BY Zenon DEF Init, FlagsKept
<1>6. SendingKept
  BY DEF Init, SendingKept
<1>7. QED
  BY <1>2, <1>3, <1>4, <1>5, <1>6 DEF DataKept

LEMMA StepData == DataKept /\ [Next]_vars => DataKept'
  BY FlagsStep, InboxStep, EventsStep, SentStep, SendingStep, Zenon DEF DataKept

(* Every thread of a server is at one of its places, and what they share    *)
(* has its type; the clock's bound is the world's only delay.              *)
THEOREM ServersTyped == Spec => []TypeOK
<1>1. Control /\ ScheduleKept /\ DataKept => TypeOK
  <2> SUFFICES ASSUME Control, ScheduleKept, DataKept PROVE TypeOK
    OBVIOUS
  <2>1. FlagsKept /\ InboxKept /\ EventsKept /\ SentKept /\ SendingKept
    BY Zenon DEF DataKept
  <2>2. \A k \in DOMAIN events : events[k] \in {"loaded", "elsewhere", "nowhere"}
    <3>1. \A S, s : s \in Seq(S) => \A k \in DOMAIN s : s[k] \in S
      OBVIOUS
    <3>2. QED
      BY <2>1, <3>1, Zenon DEF EventsKept
  <2>3. next \in -MaxLag .. TickLength /\ second \in -MaxLag .. 2 * TickLength
        /\ phase \in 0 .. TickLength - 1 /\ behind \in Int
    BY ServersAssumption DEF ScheduleKept, TicksKeepTheSchedule
  <2>4. ControlTyped /\ call \in [Callers -> {"none", "checked", "found"}]
    BY Zenon DEF Control, CallsPlaced
  <2>5. /\ fate \in {"running", "returned 0", "returned 1", "terminated", "crashed"}
        /\ main \in {"configure", "prepare", "start", "poll", "flush", "close", "commit",
                     "closed", "wait", "join"}
        /\ reader \in {"none", "start", "subscribe", "loop", "check consumer",
                       "check closing", "consume", "consuming", "handle", "failed", "close",
                       "done"}
        /\ ticker \in {"none", "load", "loop", "sleep", "tick", "done"}
        /\ hub \in {"none", "listen", "poll", "gone"}
        /\ producer \in {"none", "open", "closing"} /\ consumer \in {"none", "open"}
    BY <2>4 DEF ControlTyped
  <2> HIDE DEF Starting, Ending, Reading
  <2>6. QED
    BY <2>1, <2>2, <2>3, <2>4, <2>5, Zenon DEF TypeOK, FlagsKept, InboxKept, SentKept,
       SendingKept
<1>2. Spec => []Control
  BY ControlKept
<1>3. Spec => []ScheduleKept
  BY ScheduleAlwaysKept
<1>4. Spec => []DataKept
  BY InitData, StepData, PTL DEF Spec
<1>5. QED
  BY <1>1, <1>2, <1>3, <1>4, PTL

-----------------------------------------------------------------------------
(* Each class writes the fields that message::deserialize reads for its id. *)

FieldNames ==
    {"error_number", "error_str", "username", "password", "ip", "email", "admin_status",
     "user_id", "player_name", "players", "world_name", "from_username", "target", "message",
     "map_data"}
FieldTypes == {"string", "uint64", "int16", "int32", "player_responses"}
AnyField == [name : FieldNames, type : FieldTypes]

\* The values of a buffer are told apart by their names.
Distinct(fields) ==
    /\ fields \in Seq(AnyField)
    /\ \A j, k \in DOMAIN fields : fields[j].name = fields[k].name => j = k

Fits(class) ==
    Distinct(class.fields) /\ class.id \in DOMAIN Cases /\ Cases[class.id] = class.fields

LEMMA NoField == Distinct(<<>>)
  BY DEF Distinct
LEMMA OneField == \A f \in AnyField : Distinct(<<f>>)
  BY DEF Distinct
LEMMA TwoFields == \A f, g \in AnyField : f.name # g.name => Distinct(<<f, g>>)
  BY DEF Distinct
LEMMA ThreeFields ==
    \A f, g, h \in AnyField :
        f.name # g.name /\ f.name # h.name /\ g.name # h.name => Distinct(<<f, g, h>>)
  BY DEF Distinct
LEMMA FourFields ==
    \A f, g, h, i \in AnyField :
        /\ f.name # g.name /\ f.name # h.name /\ g.name # h.name
        /\ i.name \notin {f.name, g.name, h.name}
        => Distinct(<<f, g, h, i>>)
  BY DEF Distinct

LEMMA FieldsTyped ==
    \A n \in FieldNames : \A t \in FieldTypes : Field(n, t) \in AnyField /\ Field(n, t).name = n
  BY DEF Field, AnyField

\* The fields there are, and their names.
LEMMA FieldsNamed ==
    /\ Field("error_number", "int32") \in AnyField /\ Field("error_number", "int32").name = "error_number"
    /\ Text("error_str") \in AnyField /\ Text("error_str").name = "error_str"
    /\ Text("username") \in AnyField /\ Text("username").name = "username"
    /\ Text("password") \in AnyField /\ Text("password").name = "password"
    /\ Text("ip") \in AnyField /\ Text("ip").name = "ip"
    /\ Field("admin_status", "int16") \in AnyField /\ Field("admin_status", "int16").name = "admin_status"
    /\ Field("user_id", "uint64") \in AnyField /\ Field("user_id", "uint64").name = "user_id"
    /\ Text("email") \in AnyField /\ Text("email").name = "email"
    /\ Text("player_name") \in AnyField /\ Text("player_name").name = "player_name"
    /\ Field("players", "player_responses") \in AnyField /\ Field("players", "player_responses").name = "players"
    /\ Text("world_name") \in AnyField /\ Text("world_name").name = "world_name"
    /\ Text("from_username") \in AnyField /\ Text("from_username").name = "from_username"
    /\ Text("target") \in AnyField /\ Text("target").name = "target"
    /\ Text("message") \in AnyField /\ Text("message").name = "message"
    /\ Text("map_data") \in AnyField /\ Text("map_data").name = "map_data"
  BY FieldsTyped DEF FieldNames, FieldTypes, Text

\* The fields of each class have different names, and are those of its case.
LEMMA ErrorResponseFits == Fits(ErrorResponse)
<1>1. Distinct(<<Field("error_number", "int32"), Text("error_str")>>)
  BY FieldsNamed, TwoFields
<1>2. 8 \in DOMAIN Cases /\ Cases[8] = <<Field("error_number", "int32"), Text("error_str")>>
  BY DEF Cases
<1>3. ErrorResponse.id = 8 /\ ErrorResponse.fields = <<Field("error_number", "int32"), Text("error_str")>>
  BY DEF ErrorResponse, Class
<1>4. QED
  BY <1>1, <1>2, <1>3 DEF Fits

LEMMA LoginFits == Fits(Login)
<1>1. Distinct(<<Text("username"), Text("password"), Text("ip")>>)
  BY FieldsNamed, ThreeFields
<1>2. 0 \in DOMAIN Cases /\ Cases[0] = <<Text("username"), Text("password"), Text("ip")>>
  BY DEF Cases
<1>3. Login.id = 0 /\ Login.fields = <<Text("username"), Text("password"), Text("ip")>>
  BY DEF Login, Class
<1>4. QED
  BY <1>1, <1>2, <1>3 DEF Fits

LEMMA LoginResponseFits == Fits(LoginResponse)
<1>1. Distinct(<<Field("admin_status", "int16"), Field("user_id", "uint64")>>)
  BY FieldsNamed, TwoFields
<1>2. 1 \in DOMAIN Cases /\ Cases[1] = <<Field("admin_status", "int16"), Field("user_id", "uint64")>>
  BY DEF Cases
<1>3. LoginResponse.id = 1 /\ LoginResponse.fields = <<Field("admin_status", "int16"), Field("user_id", "uint64")>>
  BY DEF LoginResponse, Class, AdminStatus, UserId
<1>4. QED
  BY <1>1, <1>2, <1>3 DEF Fits

LEMMA RegisterFits == Fits(Register)
<1>1. Distinct(<<Text("username"), Text("password"), Text("email"), Text("ip")>>)
  BY FieldsNamed, FourFields
<1>2. 2 \in DOMAIN Cases /\ Cases[2] = <<Text("username"), Text("password"), Text("email"), Text("ip")>>
  BY DEF Cases
<1>3. Register.id = 2 /\ Register.fields = <<Text("username"), Text("password"), Text("email"), Text("ip")>>
  BY DEF Register, Class
<1>4. QED
  BY <1>1, <1>2, <1>3 DEF Fits

LEMMA RegisterResponseFits == Fits(RegisterResponse)
<1>1. Distinct(<<Field("admin_status", "int16"), Field("user_id", "uint64")>>)
  BY FieldsNamed, TwoFields
<1>2. 3 \in DOMAIN Cases /\ Cases[3] = <<Field("admin_status", "int16"), Field("user_id", "uint64")>>
  BY DEF Cases
<1>3. RegisterResponse.id = 3 /\ RegisterResponse.fields = <<Field("admin_status", "int16"), Field("user_id", "uint64")>>
  BY DEF RegisterResponse, Class, AdminStatus, UserId
<1>4. QED
  BY <1>1, <1>2, <1>3 DEF Fits

LEMMA LogoutFits == Fits(Logout)
<1>1. Distinct(<<>>)
  BY NoField
<1>2. 6 \in DOMAIN Cases /\ Cases[6] = <<>>
  BY DEF Cases
<1>3. Logout.id = 6 /\ Logout.fields = <<>>
  BY DEF Logout, Class
<1>4. QED
  BY <1>1, <1>2, <1>3 DEF Fits

LEMMA CreateCharacterFits == Fits(CreateCharacter)
<1>1. Distinct(<<Field("user_id", "uint64"), Text("player_name")>>)
  BY FieldsNamed, TwoFields
<1>2. 7 \in DOMAIN Cases /\ Cases[7] = <<Field("user_id", "uint64"), Text("player_name")>>
  BY DEF Cases
<1>3. CreateCharacter.id = 7 /\ CreateCharacter.fields = <<Field("user_id", "uint64"), Text("player_name")>>
  BY DEF CreateCharacter, Class, AdminStatus, UserId
<1>4. QED
  BY <1>1, <1>2, <1>3 DEF Fits

LEMMA PlayCharacterFits == Fits(PlayCharacter)
<1>1. Distinct(<<Field("user_id", "uint64"), Text("player_name")>>)
  BY FieldsNamed, TwoFields
<1>2. 9 \in DOMAIN Cases /\ Cases[9] = <<Field("user_id", "uint64"), Text("player_name")>>
  BY DEF Cases
<1>3. PlayCharacter.id = 9 /\ PlayCharacter.fields = <<Field("user_id", "uint64"), Text("player_name")>>
  BY DEF PlayCharacter, Class, AdminStatus, UserId
<1>4. QED
  BY <1>1, <1>2, <1>3 DEF Fits

LEMMA GetCharactersFits == Fits(GetCharacters)
<1>1. Distinct(<<Field("user_id", "uint64")>>)
  BY FieldsNamed, OneField
<1>2. 12 \in DOMAIN Cases /\ Cases[12] = <<Field("user_id", "uint64")>>
  BY DEF Cases
<1>3. GetCharacters.id = 12 /\ GetCharacters.fields = <<Field("user_id", "uint64")>>
  BY DEF GetCharacters, Class, AdminStatus, UserId
<1>4. QED
  BY <1>1, <1>2, <1>3 DEF Fits

LEMMA GetCharactersResponseFits == Fits(GetCharactersResponse)
<1>1. Distinct(<<Field("players", "player_responses"), Text("world_name")>>)
  BY FieldsNamed, TwoFields
<1>2. 10 \in DOMAIN Cases /\ Cases[10] = <<Field("players", "player_responses"), Text("world_name")>>
  BY DEF Cases
<1>3. GetCharactersResponse.id = 10 /\ GetCharactersResponse.fields = <<Field("players", "player_responses"), Text("world_name")>>
  BY DEF GetCharactersResponse, Class
<1>4. QED
  BY <1>1, <1>2, <1>3 DEF Fits

LEMMA ChatSendFits == Fits(ChatSend)
<1>1. Distinct(<<Text("from_username"), Text("target"), Text("message")>>)
  BY FieldsNamed, ThreeFields
<1>2. 4 \in DOMAIN Cases /\ Cases[4] = <<Text("from_username"), Text("target"), Text("message")>>
  BY DEF Cases
<1>3. ChatSend.id = 4 /\ ChatSend.fields = <<Text("from_username"), Text("target"), Text("message")>>
  BY DEF ChatSend, Class
<1>4. QED
  BY <1>1, <1>2, <1>3 DEF Fits

LEMMA ChatReceiveFits == Fits(ChatReceive)
<1>1. Distinct(<<Text("from_username"), Text("target"), Text("message")>>)
  BY FieldsNamed, ThreeFields
<1>2. 5 \in DOMAIN Cases /\ Cases[5] = <<Text("from_username"), Text("target"), Text("message")>>
  BY DEF Cases
<1>3. ChatReceive.id = 5 /\ ChatReceive.fields = <<Text("from_username"), Text("target"), Text("message")>>
  BY DEF ChatReceive, Class
<1>4. QED
  BY <1>1, <1>2, <1>3 DEF Fits

LEMMA SendMapFits == Fits(SendMap)
<1>1. Distinct(<<Text("map_data")>>)
  BY FieldsNamed, OneField
<1>2. 11 \in DOMAIN Cases /\ Cases[11] = <<Text("map_data")>>
  BY DEF Cases
<1>3. SendMap.id = 11 /\ SendMap.fields = <<Text("map_data")>>
  BY DEF SendMap, Class
<1>4. QED
  BY <1>1, <1>2, <1>3 DEF Fits

LEMMA AdminQuitFits == Fits(AdminQuit)
<1>1. Distinct(<<>>)
  BY NoField
<1>2. 10000 \in DOMAIN Cases /\ Cases[10000] = <<>>
  BY DEF Cases
<1>3. AdminQuit.id = 10000 /\ AdminQuit.fields = <<>>
  BY DEF AdminQuit, Class
<1>4. QED
  BY <1>1, <1>2, <1>3 DEF Fits

LEMMA ClassesFit == \A class \in Classes : Fits(class)
  BY ErrorResponseFits, LoginFits, LoginResponseFits, RegisterFits, RegisterResponseFits, LogoutFits, CreateCharacterFits, PlayCharacterFits, GetCharactersFits, GetCharactersResponseFits, ChatSendFits, ChatReceiveFits, SendMapFits, AdminQuitFits DEF Classes

LEMMA ClassesAre == \A class \in Classes : class = Class(class.id, class.fields)
<1>1. \A id, fields : Class(id, fields) = Class(Class(id, fields).id, Class(id, fields).fields)
  BY DEF Class
<1>2. QED
  BY <1>1 DEF Classes, ErrorResponse, Login, LoginResponse, Register, RegisterResponse, Logout, CreateCharacter, PlayCharacter, GetCharacters, GetCharactersResponse, ChatSend, ChatReceive, SendMap, AdminQuit

LEMMA IdsApart == \A c, d \in Classes : c.id = d.id => c = d
<1>1. \A c, d \in Classes : c.id = d.id => c.fields = d.fields
  BY ClassesFit DEF Fits
<1>2. QED
  BY <1>1, ClassesAre

-----------------------------------------------------------------------------
(* What serialize writes, and that both archives read it again.             *)

Written(class) == Heading \o class.fields

\* A buffer has the fields of the class, with their values.
Holds(buffer, class, values) ==
    LET all == Written(class)
        n == Len(class.fields)
    IN  /\ Len(buffer) = n + 2 /\ DOMAIN buffer = 1 .. n + 2
        /\ buffer[1] = [name |-> "id", type |-> "uint32", value |-> <<class.id>>]
        /\ \A k \in 1 .. n + 2 :
              /\ buffer[k].name = all[k].name /\ buffer[k].type = all[k].type
              /\ buffer[k].value = IF k = 1 THEN <<class.id>> ELSE values[all[k].name]

Follows(q, r) ==
    /\ Len(q) \in Nat /\ Len(r) \in Nat
    /\ DOMAIN q = 1 .. Len(q) /\ DOMAIN r = 1 .. Len(r)
    /\ Len(q \o r) = Len(q) + Len(r) /\ DOMAIN (q \o r) = 1 .. Len(q) + Len(r)
    /\ \A k \in 1 .. Len(q) + Len(r) :
          (q \o r)[k] = IF k <= Len(q) THEN q[k] ELSE r[k - Len(q)]

LEMMA QueuesJoined ==
    ASSUME NEW S, NEW q \in Seq(S), NEW r \in Seq(S)
    PROVE  Follows(q, r)
  BY ConcatProperties DEF Follows

LEMMA WrittenIs ==
    ASSUME NEW class \in Classes
    PROVE  LET all == Written(class)
               n == Len(class.fields)
           IN  /\ n \in Nat /\ DOMAIN class.fields = 1 .. n
               /\ Len(all) = n + 2 /\ DOMAIN all = 1 .. n + 2
               /\ all[1] = Field("id", "uint32") /\ all[2] = Field("sender", "message_sender")
               /\ \A k \in DOMAIN class.fields :
                     all[k + 2] = class.fields[k] /\ class.fields[k] \in AnyField
               /\ \A k \in 3 .. n + 2 : k - 2 \in DOMAIN class.fields /\ all[k] = class.fields[k - 2]
               /\ \A j, k \in DOMAIN all : all[j].name = all[k].name => j = k
<1> DEFINE all == Written(class)
           n == Len(class.fields)
           S == [name : {"id", "sender"} \cup FieldNames,
                 type : {"uint32", "message_sender"} \cup FieldTypes]
<1>1. /\ class.fields \in Seq(AnyField)
      /\ \A j, k \in DOMAIN class.fields : class.fields[j].name = class.fields[k].name => j = k
  BY ClassesFit DEF Fits, Distinct
<1>2. /\ n \in Nat /\ DOMAIN class.fields = 1 .. n
      /\ \A k \in DOMAIN class.fields : class.fields[k] \in AnyField
  BY <1>1
<1>3. Heading = <<Field("id", "uint32"), Field("sender", "message_sender")>>
  BY DEF Heading
<1>4. Heading \in Seq(S) /\ class.fields \in Seq(S) /\ Len(Heading) = 2
  <2>1. Field("id", "uint32") \in S /\ Field("sender", "message_sender") \in S
    BY DEF Field
  <2>2. AnyField \subseteq S
    BY DEF AnyField
  <2> HIDE DEF S
  <2>3. QED
    BY <1>1, <1>3, <2>1, <2>2
<1>5. /\ Len(all) = n + 2 /\ DOMAIN all = 1 .. n + 2
      /\ \A k \in 1 .. n + 2 : all[k] = IF k <= 2 THEN Heading[k] ELSE class.fields[k - 2]
  <2> HIDE DEF S
  <2>1. Follows(Heading, class.fields)
    BY <1>4, QueuesJoined
  <2>2. all = Heading \o class.fields
    BY DEF Written
  <2> HIDE DEF all
  <2>3. QED
    BY <1>4, <2>1, <2>2 DEF Follows
<1>6. all[1] = Field("id", "uint32") /\ all[2] = Field("sender", "message_sender")
  BY <1>2, <1>3, <1>5
<1>7. \A k \in DOMAIN class.fields : all[k + 2] = class.fields[k]
  BY <1>2, <1>5
<1>8. \A k \in 3 .. n + 2 : k - 2 \in DOMAIN class.fields /\ all[k] = class.fields[k - 2]
  BY <1>2, <1>5
<1>9. \A k \in 3 .. n + 2 : all[k].name # "id" /\ all[k].name # "sender"
  <2>1. \A f \in AnyField : f.name # "id" /\ f.name # "sender"
    BY DEF AnyField, FieldNames
  <2>2. QED
    BY <1>2, <1>8, <2>1
<1>10. ASSUME NEW j \in DOMAIN all, NEW k \in DOMAIN all, all[j].name = all[k].name
       PROVE  j = k
  <2>1. all[1].name = "id" /\ all[2].name = "sender" /\ "id" # "sender"
    BY <1>6 DEF Field
  <2>2. CASE j \in 3 .. n + 2 /\ k \in 3 .. n + 2
    <3>1. j - 2 = k - 2
      BY <1>1, <1>8, <1>10, <2>2
    <3>2. QED
      BY <2>2, <3>1
  <2>3. CASE j \in {1, 2} \/ k \in {1, 2}
    BY <1>2, <1>5, <1>9, <1>10, <2>1, <2>3
  <2>4. QED
    BY <1>2, <1>5, <2>2, <2>3
<1> HIDE DEF all, n
<1>11. QED
  BY <1>2, <1>5, <1>6, <1>7, <1>8, <1>10 DEF all, n

LEMMA SerializeHolds ==
    ASSUME NEW class \in Classes, NEW values
    PROVE  Holds(Serialize(Message(class.id, values)), class, values)
<1> DEFINE all == Written(class)
           n == Len(class.fields)
           written == Tail(Heading) \o class.fields
           first == <<[name |-> "id", type |-> "uint32", value |-> <<class.id>>]>>
           rest == [k \in DOMAIN written |->
                       [name |-> written[k].name, type |-> written[k].type,
                        value |-> values[written[k].name]]]
<1>1. Serialize(Message(class.id, values)) = first \o rest
  <2>1. (CHOOSE c \in Classes : c.id = class.id) = class
    BY IdsApart
  <2>2. Message(class.id, values).id = class.id /\ Message(class.id, values).values = values
    BY DEF Message
  <2>3. QED
    BY <2>1, <2>2 DEF Serialize
<1>2. /\ n \in Nat /\ class.fields \in Seq(AnyField) /\ DOMAIN class.fields = 1 .. n
  BY ClassesFit DEF Fits, Distinct
<1>3. Tail(Heading) = <<Field("sender", "message_sender")>>
  BY DEF Heading
<1>4. /\ Len(written) = n + 1 /\ DOMAIN written = 1 .. n + 1
      /\ \A k \in 1 .. n + 1 : written[k] = all[k + 1]
  <2>1. AnyField \subseteq AnyField \cup {Field("sender", "message_sender")}
    OBVIOUS
  <2> DEFINE S == AnyField \cup {Field("sender", "message_sender")}
  <2>2. /\ Tail(Heading) \in Seq(S) /\ class.fields \in Seq(S) /\ Len(Tail(Heading)) = 1
        /\ Tail(Heading)[1] = Field("sender", "message_sender")
    <3> DEFINE x == Field("sender", "message_sender")
    <3> HIDE DEF x
    <3>1. <<x>> \in Seq(AnyField \cup {x}) /\ Len(<<x>>) = 1 /\ <<x>>[1] = x
      OBVIOUS
    <3>2. class.fields \in Seq(AnyField \cup {x})
      BY <1>2
    <3>3. QED
      BY <1>3, <3>1, <3>2 DEF x
  <2> HIDE DEF S
  <2>3. /\ Len(written) = n + 1 /\ DOMAIN written = 1 .. n + 1
        /\ \A k \in 1 .. n + 1 : written[k] = IF k <= 1 THEN Tail(Heading)[k] ELSE class.fields[k - 1]
    <3>1. Follows(Tail(Heading), class.fields)
      BY <2>2, QueuesJoined
    <3>2. written = Tail(Heading) \o class.fields /\ Len(class.fields) = n
      OBVIOUS
    <3> HIDE DEF n, written
    <3> DEFINE q == Tail(Heading)
    <3>3. /\ Len(q) = 1 /\ Follows(q, class.fields) /\ written = q \o class.fields
          /\ Len(class.fields) = n
      BY <2>2, <3>1, <3>2
    <3> HIDE DEF q
    <3>4. /\ n \in Nat /\ Len(written) = n + 1 /\ DOMAIN written = 1 .. n + 1
          /\ \A k \in 1 .. n + 1 : written[k] = IF k <= 1 THEN q[k] ELSE class.fields[k - 1]
      BY <3>3 DEF Follows
    <3>5. QED
      BY <3>4 DEF q
  <2>4. /\ all[2] = Field("sender", "message_sender")
        /\ \A k \in 3 .. n + 2 : all[k] = class.fields[k - 2]
    BY WrittenIs
  <2>5. ASSUME NEW k \in 1 .. n + 1
        PROVE  written[k] = all[k + 1]
    <3>1. CASE k = 1
      BY <2>2, <2>3, <2>4, <3>1
    <3>2. CASE k # 1
      <4>1. k + 1 \in 3 .. n + 2 /\ (k + 1) - 2 = k - 1
        BY <1>2, <3>2
      <4>2. all[k + 1] = class.fields[(k + 1) - 2]
        BY <2>4, <4>1
      <4>3. ~ (k <= 1)
        BY <1>2, <3>2
      <4>4. QED
        BY <2>3, <4>1, <4>2, <4>3
    <3>3. QED
      BY <3>1, <3>2
  <2>6. QED
    BY <2>3, <2>5
<1> DEFINE T == {rest[k] : k \in DOMAIN rest} \cup {first[1]}
<1>5. /\ first \in Seq(T) /\ Len(first) = 1 /\ rest \in Seq(T) /\ Len(rest) = n + 1
  <2>1. DOMAIN rest = 1 .. n + 1
    BY <1>4
  <2>2. rest \in Seq(T)
    <3>1. \A k \in 1 .. n + 1 : rest[k] \in T
      BY <2>1
    <3>2. rest \in [1 .. n + 1 -> T]
      BY <2>1, <3>1
    <3> HIDE DEF rest, T
    <3>3. QED
      BY <1>2, <3>2
  <2>3. first \in Seq(T) /\ Len(first) = 1
    <3>1. first[1] \in T
      OBVIOUS
    <3> HIDE DEF T
    <3>2. QED
      BY <3>1
  <2>4. Len(rest) = n + 1
    <3> HIDE DEF rest, T
    <3>1. QED
      BY <1>2, <2>1, <2>2
  <2>5. QED
    BY <2>2, <2>3, <2>4
<1>6. /\ Len(first \o rest) = n + 2 /\ DOMAIN (first \o rest) = 1 .. n + 2
      /\ \A k \in 1 .. n + 2 : (first \o rest)[k] = IF k <= 1 THEN first[k] ELSE rest[k - 1]
  <2> HIDE DEF T, first, rest
  <2>1. Follows(first, rest)
    BY <1>5, QueuesJoined
  <2>2. QED
    BY <1>2, <1>5, <2>1 DEF Follows
<1>7. ASSUME NEW k \in 1 .. n + 2
      PROVE  /\ (first \o rest)[k].name = all[k].name /\ (first \o rest)[k].type = all[k].type
             /\ (first \o rest)[k].value = IF k = 1 THEN <<class.id>> ELSE values[all[k].name]
  <2>1. CASE k = 1
    <3>1. (first \o rest)[1] = [name |-> "id", type |-> "uint32", value |-> <<class.id>>]
      BY <1>2, <1>6
    <3>2. all[1] = Field("id", "uint32")
      BY WrittenIs
    <3>3. QED
      BY <2>1, <3>1, <3>2 DEF Field
  <2>2. CASE k # 1
    <3>1. k - 1 \in 1 .. n + 1 /\ (k - 1) + 1 = k
      BY <1>2, <2>2
    <3>2. (first \o rest)[k] = rest[k - 1]
      <4> HIDE DEF first, rest
      <4>1. QED
        BY <1>2, <1>6, <2>2
    <3>3. written[k - 1] = all[k]
      BY <1>4, <3>1
    <3>4. rest[k - 1] = [name |-> all[k].name, type |-> all[k].type,
                         value |-> values[all[k].name]]
      BY <1>4, <3>1, <3>3
    <3> HIDE DEF first, rest
    <3>5. (first \o rest)[k] = [name |-> all[k].name, type |-> all[k].type,
                               value |-> values[all[k].name]]
      BY <3>2, <3>4
    <3>6. QED
      BY <2>2, <3>5
  <2>3. QED
    BY <2>1, <2>2
<1>8. (first \o rest)[1] = [name |-> "id", type |-> "uint32", value |-> <<class.id>>]
  BY <1>2, <1>6
<1> HIDE DEF all, n, first, rest, written
<1>9. QED
  BY <1>1, <1>6, <1>7, <1>8 DEF Holds, all, n

\* What a message of the class has under a name.
ValueOf(class, values, f) == IF f = "id" THEN <<class.id>> ELSE values[f]

Part(class, values, fields) ==
    [f \in {fields[k].name : k \in DOMAIN fields} |-> ValueOf(class, values, f)]

\* What either archive finds in a buffer under the names of the first fields.
LEMMA PartRead ==
    ASSUME NEW class \in Classes, NEW values, NEW buffer, Holds(buffer, class, values),
           NEW archive \in {"binary", "json"}, NEW fields, fields \in {Heading, Written(class)}
    PROVE  Read(archive, buffer, fields) = Part(class, values, fields)
<1> DEFINE all == Written(class)
           n == Len(class.fields)
           N == {fields[k].name : k \in DOMAIN fields}
           value(f) == ValueOf(class, values, f)
<1>1. /\ n \in Nat /\ Len(all) = n + 2 /\ DOMAIN all = 1 .. n + 2
      /\ all[1] = Field("id", "uint32") /\ all[2] = Field("sender", "message_sender")
      /\ \A j, k \in DOMAIN all : all[j].name = all[k].name => j = k
  BY WrittenIs
<1>2. /\ Len(buffer) = n + 2 /\ DOMAIN buffer = 1 .. n + 2
      /\ \A k \in 1 .. n + 2 :
            /\ buffer[k].name = all[k].name /\ buffer[k].type = all[k].type
            /\ buffer[k].value = IF k = 1 THEN <<class.id>> ELSE values[all[k].name]
  BY DEF Holds
<1> HIDE DEF all, n
<1>3. \A k \in 1 .. n + 2 : buffer[k].value = value(all[k].name)
  <2>1. all[1].name = "id" /\ 1 \in DOMAIN all
    BY <1>1 DEF Field
  <2>2. ASSUME NEW k \in 1 .. n + 2
        PROVE  buffer[k].value = value(all[k].name)
    <3>1. all[k].name = "id" <=> k = 1
      BY <1>1, <2>1
    <3>2. QED
      BY <1>2, <3>1 DEF ValueOf
  <2>3. QED
    BY <2>2
<1>4. /\ Len(fields) \in Nat /\ Len(fields) <= n + 2 /\ DOMAIN fields = 1 .. Len(fields)
      /\ \A k \in 1 .. Len(fields) : k \in 1 .. n + 2 /\ fields[k] = all[k]
  <2>1. CASE fields = Heading
    <3>1. /\ Len(Heading) = 2 /\ DOMAIN Heading = 1 .. 2
          /\ Heading[1] = Field("id", "uint32") /\ Heading[2] = Field("sender", "message_sender")
      BY DEF Heading
    <3>2. \A k \in 1 .. 2 : k \in 1 .. n + 2 /\ Heading[k] = all[k]
      BY <1>1, <3>1
    <3>3. QED
      BY <1>1, <2>1, <3>1, <3>2
  <2>2. CASE fields = all
    BY <1>1, <2>2
  <2>3. QED
    BY <2>1, <2>2 DEF all
<1>5. CASE archive = "binary"
  <2>1. /\ Len(fields) <= Len(buffer)
        /\ \A k \in DOMAIN fields : buffer[k].type = fields[k].type
    BY <1>2, <1>4
  <2>2. ASSUME NEW f \in N
        PROVE  buffer[CHOOSE k \in DOMAIN fields : fields[k].name = f].value = value(f)
    <3>1. PICK k \in DOMAIN fields : fields[k].name = f
      OBVIOUS
    <3>2. \A j \in DOMAIN fields : fields[j].name = f => j = k
      BY <1>1, <1>4, <3>1
    <3>3. (CHOOSE j \in DOMAIN fields : fields[j].name = f) = k
      BY <3>1, <3>2
    <3>4. k \in 1 .. n + 2 /\ all[k].name = f
      BY <1>4, <3>1
    <3>5. QED
      BY <1>3, <3>3, <3>4
  <2>3. ReadBinary(buffer, fields) = [f \in N |-> value(f)]
    <3>1. ReadBinary(buffer, fields) =
             [f \in N |-> buffer[CHOOSE k \in DOMAIN fields : fields[k].name = f].value]
      BY <2>1 DEF ReadBinary
    <3> HIDE DEF N, value
    <3>2. QED
      BY <2>2, <3>1
  <2>4. Read(archive, buffer, fields) = ReadBinary(buffer, fields)
    BY <1>5 DEF Read
  <2>5. QED
    BY <2>3, <2>4 DEF Part
<1>6. CASE archive = "json"
  <2>1. \A k \in DOMAIN fields : \E j \in DOMAIN buffer : buffer[j].name = fields[k].name
    BY <1>2, <1>4
  <2>2. ASSUME NEW f \in N
        PROVE  buffer[CHOOSE j \in DOMAIN buffer : buffer[j].name = f].value = value(f)
    <3>1. PICK k \in DOMAIN fields : fields[k].name = f
      OBVIOUS
    <3>2. k \in DOMAIN buffer /\ buffer[k].name = f /\ k \in 1 .. n + 2 /\ all[k].name = f
      BY <1>2, <1>4, <3>1
    <3>3. \A j \in DOMAIN buffer : buffer[j].name = f => j = k
      BY <1>1, <1>2, <3>2
    <3>4. (CHOOSE j \in DOMAIN buffer : buffer[j].name = f) = k
      BY <3>2, <3>3
    <3>5. QED
      BY <1>3, <3>2, <3>4
  <2>3. ReadJson(buffer, fields) = [f \in N |-> value(f)]
    <3>1. ReadJson(buffer, fields) =
             [f \in N |-> buffer[CHOOSE j \in DOMAIN buffer : buffer[j].name = f].value]
      BY <2>1 DEF ReadJson
    <3> HIDE DEF N, value
    <3>2. QED
      BY <2>2, <3>1
  <2>4. Read(archive, buffer, fields) = ReadJson(buffer, fields)
    BY <1>6 DEF Read
  <2>5. QED
    BY <2>3, <2>4 DEF Part
<1>7. QED
  BY <1>5, <1>6 DEF Part

\* The names of the values of a message.
ValueNames(class) == {"sender"} \cup {class.fields[k].name : k \in DOMAIN class.fields}

LEMMA NamesWritten ==
    ASSUME NEW class \in Classes
    PROVE  LET all == Written(class)
           IN  {all[k].name : k \in DOMAIN all} = {"id"} \cup ValueNames(class)
<1> DEFINE all == Written(class)
           n == Len(class.fields)
<1>1. /\ n \in Nat /\ DOMAIN all = 1 .. n + 2 /\ DOMAIN class.fields = 1 .. n
      /\ all[1].name = "id" /\ all[2].name = "sender"
      /\ \A k \in DOMAIN class.fields : all[k + 2] = class.fields[k]
      /\ \A k \in 3 .. n + 2 : k - 2 \in DOMAIN class.fields /\ all[k] = class.fields[k - 2]
  BY WrittenIs DEF Field
<1> HIDE DEF all, n
<1>2. ASSUME NEW k \in DOMAIN all
      PROVE  all[k].name \in {"id"} \cup ValueNames(class)
  <2>1. k = 1 \/ k = 2 \/ k \in 3 .. n + 2
    BY <1>1
  <2>2. QED
    BY <1>1, <2>1 DEF ValueNames
<1>3. ASSUME NEW x \in {"id"} \cup ValueNames(class)
      PROVE  \E k \in DOMAIN all : x = all[k].name
  <2>1. CASE x = "id"
    BY <1>1, <2>1
  <2>2. CASE x = "sender"
    BY <1>1, <2>2
  <2>3. CASE x \in {class.fields[k].name : k \in DOMAIN class.fields}
    <3>1. PICK k \in DOMAIN class.fields : x = class.fields[k].name
      BY <2>3
    <3>2. k + 2 \in DOMAIN all
      BY <1>1
    <3>3. QED
      BY <1>1, <3>1, <3>2
  <2>4. QED
    BY <2>1, <2>2, <2>3 DEF ValueNames
<1>4. QED
  BY <1>2, <1>3 DEF all

LEMMA NoValueIsAnId ==
    ASSUME NEW class \in Classes
    PROVE  "id" \notin ValueNames(class)
<1>1. \A k \in DOMAIN class.fields : class.fields[k] \in AnyField
  BY ClassesFit DEF Fits, Distinct
<1>2. QED
  BY <1>1 DEF AnyField, FieldNames, ValueNames

\* What is written is read, in either archive.
LEMMA ReadsBack ==
    ASSUME NEW class \in Classes, NEW values, NEW archive \in {"binary", "json"},
           values = [f \in ValueNames(class) |-> values[f]]
    PROVE  Deserialize(archive, Serialize(Message(class.id, values))) = Message(class.id, values)
<1> DEFINE buffer == Serialize(Message(class.id, values))
           all == Written(class)
           heading == Read(archive, buffer, Heading)
           found == Read(archive, buffer, all)
           value(f) == ValueOf(class, values, f)
<1>1. Holds(buffer, class, values)
  BY SerializeHolds
<1> HIDE DEF buffer
<1> HIDE DEF all
<1>2. ASSUME NEW fields, fields \in {Heading, Written(class)}
      PROVE  Read(archive, buffer, fields) = Part(class, values, fields)
  BY <1>1, <1>2, PartRead, Zenon
<1>3. /\ heading = [f \in {Heading[k].name : k \in DOMAIN Heading} |-> value(f)]
      /\ found = [f \in {all[k].name : k \in DOMAIN all} |-> value(f)]
  <2>1. \A x, y : x \in {x, y} /\ y \in {x, y}
    OBVIOUS
  <2>2. Heading \in {Heading, all} /\ all \in {Heading, all}
    BY <2>1
  <2>3. QED
    BY <1>2, <2>2 DEF all, Part
<1>4. found = [f \in {"id"} \cup ValueNames(class) |-> value(f)]
  BY <1>3, NamesWritten DEF all
<1>5. "id" \in {Heading[k].name : k \in DOMAIN Heading}
  <2>1. 1 \in DOMAIN Heading /\ Heading[1].name = "id"
    BY DEF Heading, Field
  <2>2. QED
    BY <2>1
<1>6. "id" \in DOMAIN heading /\ heading["id"] = <<class.id>>
  BY <1>3, <1>5 DEF ValueOf
<1>7. buffer # <<>>
  <2>1. Len(buffer) = Len(class.fields) + 2 /\ Len(class.fields) \in Nat
    BY <1>1, WrittenIs DEF Holds
  <2>2. QED
    BY <2>1
<1> HIDE DEF heading, found
<1>8. heading # <<>> /\ found # <<>>
  <2>1. "id" \in DOMAIN found
    BY <1>4
  <2>2. "id" \notin DOMAIN <<>>
    OBVIOUS
  <2>3. QED
    BY <1>6, <2>1, <2>2
<1>9. heading.id[1] = class.id
  BY <1>6
<1>10. class.id \in DOMAIN Cases /\ Heading \o Cases[class.id] = all
  BY ClassesFit DEF Fits, Written, all
<1>11. [f \in DOMAIN found \ {"id"} |-> found[f]] = values
  <2>1. DOMAIN found \ {"id"} = ValueNames(class)
    BY <1>4, NoValueIsAnId
  <2>2. \A f \in ValueNames(class) : found[f] = values[f]
    BY <1>4, NoValueIsAnId DEF ValueOf
  <2>3. [f \in DOMAIN found \ {"id"} |-> found[f]] = [f \in ValueNames(class) |-> values[f]]
    BY <2>1, <2>2
  <2>4. QED
    BY <2>3
<1>12. Deserialize(archive, buffer) = Message(class.id, values)
  BY <1>7, <1>8, <1>9, <1>10, <1>11 DEF Deserialize, heading, found
<1>13. QED
  BY <1>12 DEF buffer

-----------------------------------------------------------------------------
(* Of a buffer that is none of ours nothing is read.                       *)

LEMMA HeadingIs ==
    /\ Len(Heading) = 2 /\ DOMAIN Heading = {1, 2}
    /\ Heading[1].name = "id" /\ Heading[1].type = "uint32"
    /\ Heading[2].name = "sender" /\ Heading[2].type = "message_sender"
<1> DEFINE x == Field("id", "uint32")
           y == Field("sender", "message_sender")
<1>1. Heading = <<x, y>>
  BY DEF Heading
<1>2. x.name = "id" /\ x.type = "uint32" /\ y.name = "sender" /\ y.type = "message_sender"
  BY DEF Field
<1> HIDE DEF x, y
<1>3. Len(Heading) = 2 /\ DOMAIN Heading = {1, 2} /\ Heading[1] = x /\ Heading[2] = y
  BY <1>1
<1>4. QED
  BY <1>2, <1>3

LEMMA HeadingRead ==
    ASSUME NEW buffer, Len(buffer) >= 2, buffer[1].type = "uint32",
           buffer[2].type = "message_sender"
    PROVE  LET heading == Read("binary", buffer, Heading)
           IN  heading # <<>> /\ heading.id = buffer[1].value
<1> DEFINE N == {Heading[k].name : k \in DOMAIN Heading}
           at(f) == CHOOSE k \in DOMAIN Heading : Heading[k].name = f
           heading == [f \in N |-> buffer[at(f)].value]
<1>1. /\ Len(Heading) <= Len(buffer)
      /\ \A k \in DOMAIN Heading : buffer[k].type = Heading[k].type
  BY HeadingIs
<1>2. Read("binary", buffer, Heading) = heading
  BY <1>1 DEF Read, ReadBinary
<1>3. at("id") = 1
  <2>1. "id" # "sender"
    OBVIOUS
  <2>2. \A k \in DOMAIN Heading : Heading[k].name = "id" <=> k = 1
    BY HeadingIs, <2>1, Zenon
  <2>3. 1 \in DOMAIN Heading
    BY HeadingIs
  <2>4. QED
    BY <2>2, <2>3
<1>4. "id" \in N
  <2>1. 1 \in DOMAIN Heading /\ Heading[1].name = "id"
    BY HeadingIs
  <2>2. QED
    BY <2>1
<1> HIDE DEF N, at
<1>5. "id" \in DOMAIN heading /\ heading["id"] = buffer[1].value
  BY <1>3, <1>4
<1> HIDE DEF heading
<1>6. heading # <<>>
  <2>1. "id" \notin DOMAIN <<>>
    OBVIOUS
  <2>2. QED
    BY <1>5, <2>1
<1>7. QED
  BY <1>2, <1>5, <1>6

LEMMA BrokenIsNotRead ==
    ASSUME NEW b \in Broken
    PROVE  Deserialize("binary", b) = Exception
<1>1. CASE b = <<>>
  BY <1>1 DEF Deserialize
<1>2. CASE b = SubSeq(Serialize(Some(Login)), 1, 4)
  <2> DEFINE whole == Serialize(Some(Login))
             S == {whole[k] : k \in DOMAIN whole}
  <2>1. Login \in Classes /\ Len(Login.fields) = 3 /\ Login.id = 0
    BY DEF Classes, Login, Class
  <2>2. Holds(whole, Login, Values(Login))
    BY <2>1, SerializeHolds DEF Some
  <2>3. /\ Len(whole) = 5 /\ DOMAIN whole = 1 .. 5
        /\ \A k \in 1 .. 5 : whole[k].type = Written(Login)[k].type
        /\ whole[1].value = <<0>>
    BY <2>1, <2>2 DEF Holds
  <2>4. Written(Login)[1].type = "uint32" /\ Written(Login)[2].type = "message_sender"
    BY <2>1, WrittenIs DEF Field
  <2>5. Len(b) = 4 /\ b[1] = whole[1] /\ b[2] = whole[2]
    <3> HIDE DEF whole
    <3>1. b = [k \in 1 .. 4 |-> whole[k]]
      <4>1. b = SubSeq(whole, 1, 4)
        BY <1>2 DEF whole
      <4>2. SubSeq(whole, 1, 4) = [k \in 1 .. 4 |-> whole[k]]
        OBVIOUS
      <4>3. QED
        BY <4>1, <4>2
    <3>2. QED
      BY <3>1
  <2> HIDE DEF whole
  <2> DEFINE heading == Read("binary", b, Heading)
             values == Read("binary", b, Heading \o Cases[0])
  <2>6. heading # <<>> /\ heading.id = <<0>>
    <3>1. Len(b) >= 2 /\ b[1].type = "uint32" /\ b[2].type = "message_sender"
      BY <2>3, <2>4, <2>5
    <3>2. QED
      BY <2>3, <2>5, <3>1, HeadingRead
  <2>7. Cases[0] = Login.fields /\ 0 \in DOMAIN Cases
    BY <2>1, ClassesFit DEF Fits
  <2>8. Len(Heading \o Cases[0]) = 5
    <3>1. Len(Written(Login)) = Len(Login.fields) + 2
      BY <2>1, WrittenIs
    <3>2. Heading \o Cases[0] = Written(Login)
      BY <2>7 DEF Written
    <3>3. QED
      BY <2>1, <3>1, <3>2
  <2>9. values = <<>>
    <3>1. ~ (Len(Heading \o Cases[0]) <= Len(b))
      BY <2>5, <2>8
    <3>2. QED
      BY <3>1 DEF Read, ReadBinary
  <2>10. <<0>>[1] = 0
    OBVIOUS
  <2>11. QED
    BY <2>6, <2>7, <2>9, <2>10 DEF Deserialize
<1>3. CASE b = [Serialize(Some(Logout)) EXCEPT ![1].value = <<77>>]
  <2> DEFINE whole == Serialize(Some(Logout))
  <2>1. Logout \in Classes /\ Len(Logout.fields) = 0
    BY DEF Classes, Logout, Class
  <2>2. Holds(whole, Logout, Values(Logout))
    BY <2>1, SerializeHolds DEF Some
  <2>3. /\ Len(whole) = 2 /\ DOMAIN whole = 1 .. 2
        /\ \A k \in 1 .. 2 : whole[k].type = Written(Logout)[k].type
    BY <2>1, <2>2 DEF Holds
  <2>4. Written(Logout)[1].type = "uint32" /\ Written(Logout)[2].type = "message_sender"
    BY <2>1, WrittenIs DEF Field
  <2>5. whole[1] = [name |-> "id", type |-> "uint32", value |-> <<Logout.id>>]
    BY <2>2 DEF Holds
  <2> HIDE DEF whole
  <2> DEFINE first == [name |-> "id", type |-> "uint32", value |-> <<77>>]
  <2>6. b = [whole EXCEPT ![1] = first]
    <3>1. [whole[1] EXCEPT !.value = <<77>>] = first
      BY <2>5
    <3>2. [whole EXCEPT ![1].value = <<77>>] = [whole EXCEPT ![1] = [whole[1] EXCEPT !.value = <<77>>]]
      OBVIOUS
    <3>3. b = [whole EXCEPT ![1].value = <<77>>]
      BY <1>3 DEF whole
    <3> HIDE DEF first
    <3>4. QED
      BY <3>1, <3>2, <3>3
  <2> HIDE DEF first
  <2>7. Len(b) = 2 /\ b[1] = first /\ b[2] = whole[2]
    BY <2>3, <2>6
  <2> DEFINE heading == Read("binary", b, Heading)
  <2>8. heading # <<>> /\ heading.id = <<77>>
    <3>1. first.type = "uint32" /\ first.value = <<77>>
      BY DEF first
    <3>2. Len(b) >= 2 /\ b[1].type = "uint32" /\ b[2].type = "message_sender"
      BY <2>3, <2>4, <2>7, <3>1
    <3>3. QED
      BY <2>7, <3>1, <3>2, HeadingRead
  <2>9. 77 \notin DOMAIN Cases /\ <<77>>[1] = 77
    BY DEF Cases
  <2>10. QED
    BY <2>8, <2>9 DEF Deserialize
<1>4. QED
  BY <1>1, <1>2, <1>3 DEF Broken

-----------------------------------------------------------------------------
(* Which messages a server reads and sends.                                *)

\* A message as its class writes it.
IsMessage(class, m) ==
    m = Message(class.id, m.values) /\ m.values = [f \in ValueNames(class) |-> m.values[f]]

Sendable(b) ==
    /\ b.archive \in {"binary", "json"} /\ b.bytes = Serialize(b.meant)
    /\ \E class \in Classes : IsMessage(class, b.meant)

SentOurs == \A b \in sent : Sendable(b)

\* So is what a thread is sending; a map, by the tick of the world.
SendingOurs ==
    /\ DOMAIN sending = Callers /\ DOMAIN call = Callers
    /\ \A t \in Callers : call[t] # "none" =>
          /\ \E class \in Classes : IsMessage(class, sending[t])
          /\ sending[t].id = SendMap.id =>
                ticker \notin {"none", "load"} /\ sending[t] = MapMessage

Buffers ==
    {[bytes |-> Serialize(Some(class)), meant |-> Some(class)] : class \in Classes}
    \cup {[bytes |-> b, meant |-> Exception] : b \in Broken}

InboxOurs == inbox \in Seq(Buffers)

GotOurs ==
    /\ reader = "handle" => got # <<>>
    /\ got # <<>> =>
          /\ got.message = got.meant
          /\ got.meant = Exception \/ \E class \in Classes : got.meant = Some(class)

\* A map is sent by the tick alone, once it is loaded.
Loads == {Loaded(size[1], size[2]) : size \in MapSizes}

MapsOurs ==
    /\ ticker \notin {"none", "load"} => map \in Loads
    /\ \A b \in sent :
          b.archive = "binary" /\ b.meant.id = SendMap.id =>
              ticker \notin {"none", "load"} /\ b.meant = MapMessage

LEMMA SomeIs ==
    ASSUME NEW class \in Classes
    PROVE  /\ IsMessage(class, Some(class)) /\ Some(class).id = class.id
           /\ Some(class).values = Values(class)
           /\ Values(class) = [f \in ValueNames(class) |-> <<f>>]
<1>1. Values(class) = [f \in ValueNames(class) |-> <<f>>]
  BY DEF Values, ValueNames
<1>2. Some(class).id = class.id /\ Some(class).values = Values(class)
  BY DEF Some, Message
<1>3. Values(class) = [f \in ValueNames(class) |-> Values(class)[f]]
  BY <1>1
<1>4. Some(class) = Message(class.id, Some(class).values)
  BY <1>2 DEF Some
<1>5. QED
  BY <1>1, <1>2, <1>3, <1>4 DEF IsMessage

LEMMA BuffersRead == \A r \in Buffers : Deserialize("binary", r.bytes) = r.meant
<1>1. ASSUME NEW class \in Classes
      PROVE  Deserialize("binary", Serialize(Some(class))) = Some(class)
  <2>1. Values(class) = [f \in ValueNames(class) |-> Values(class)[f]]
    BY SomeIs DEF IsMessage
  <2>2. "binary" \in {"binary", "json"}
    OBVIOUS
  <2>3. QED
    BY <2>1, <2>2, ReadsBack, Zenon DEF Some
<1>2. QED
  BY <1>1, BrokenIsNotRead DEF Buffers

LEMMA SentIsRead ==
    ASSUME NEW b, Sendable(b)
    PROVE  Reads(b.archive, b.bytes, b.meant)
<1>1. PICK class \in Classes : IsMessage(class, b.meant)
  BY DEF Sendable
<1> DEFINE values == b.meant.values
<1>2. b.meant = Message(class.id, values) /\ values = [f \in ValueNames(class) |-> values[f]]
  BY <1>1 DEF IsMessage
<1> HIDE DEF values
<1>3. b.archive \in {"binary", "json"} /\ b.bytes = Serialize(b.meant)
  BY DEF Sendable
<1>4. Deserialize(b.archive, Serialize(Message(class.id, values))) = Message(class.id, values)
  BY <1>2, <1>3, ReadsBack, Zenon
<1>5. QED
  BY <1>2, <1>3, <1>4 DEF Reads

\* Which steps get a message, or touch the map.
LEMMA GotSteps ==
    ASSUME [Next]_vars, ~Consumed
    PROVE  UNCHANGED got /\ (reader' = "handle" => reader = "handle")
<1> DEFINE Goal == UNCHANGED got /\ (reader' = "handle" => reader = "handle")
<1>1. CASE StartProducer
  BY <1>1 DEF StartProducer, Ends, data, threads
<1>2. CASE MainStep /\ ~StartProducer
  BY <1>2, Zenon DEF MainStep, Configure, PrepareBackend, PrepareWorld, PrepareGateway,
     CloseProducer, ProducerCloses, CloseConsumer, ConsumerCloses,
     ClosingEnds, Waited, Joined, MainTo, Ends, data, threads
<1>3. CASE ReaderStep
  <2>1. UNCHANGED got
    BY <1>3, Zenon DEF ReaderStep, StartConsumer, Subscribe, LoopTop, CheckConsumer,
       CheckClosing, Consume, NothingConsumed, Handle, HandleWithAnswer, HandleFailed, HandleForClient,
       HandleWithEvent, HandleQuit, HandleInSilence, ReaderCloses, Ends, data
  <2>2. CASE \E how : Ends(how)
    BY <2>1, <2>2 DEF Ends, threads
  <2>3. CASE LoopTop \/ CheckConsumer \/ CheckClosing \/ HandleWithAnswer \/ HandleFailed
    BY <2>1, <2>3 DEF LoopTop, CheckConsumer, CheckClosing, HandleWithAnswer, HandleFailed,
                      ReaderAt, ReaderTo
  <2>4. CASE /\ ~LoopTop /\ ~CheckConsumer /\ ~CheckClosing /\ ~HandleWithAnswer
             /\ ~HandleFailed /\ ~\E how : Ends(how)
    <3>1. \/ ReaderTo("subscribe") \/ ReaderTo("loop") \/ ReaderTo("consuming")
          \/ ReaderTo("done")
      BY <1>3, <2>4, Zenon DEF ReaderStep, StartConsumer, Subscribe, Consume,
         NothingConsumed, Handle, HandleForClient, HandleWithEvent,
         HandleQuit, HandleInSilence, ReaderCloses
    <3>2. QED
      BY <2>1, <3>1 DEF ReaderTo
  <2>5. QED
    BY <2>2, <2>3, <2>4
<1>4. CASE TickerStep
  BY <1>4, Zenon DEF TickerStep, LoadFromDatabase, TickerLoop, Wake, Update, UpdateDies, TickEnds,
     TickerTo, Ends, data, threads
<1>5. CASE HubStep \/ Clock \/ Signal \/ Arrive \/ UNCHANGED vars
  BY <1>5, Zenon DEF HubStep, Listen, HubStops, HubEnqueues, Clock, Signal, Arrive, vars, data, threads
<1>6. CASE \E t \in Callers : CallStep(t) \/ Produce(t)
  <2>1. PICK t \in Callers : CallStep(t) \/ Produce(t)
    BY <1>6
  <2>2. UNCHANGED got
    BY <2>1, CallsLeave, Zenon
  <2>3. ASSUME NEW to \in {"failed", "loop"}, Leaves(t, to) PROVE reader' # "handle" \/ reader' = reader
    BY <2>3 DEF Leaves
  <2>4. reader' = reader \/ \E to \in {"failed", "loop"} : Leaves(t, to)
    BY <2>1, Zenon DEF CallStep, FindTopic, ProduceCrashes, Produce, Ends, threads
  <2>5. QED
    BY <2>2, <2>3, <2>4
<1>7. QED
  BY <1>1, <1>2, <1>3, <1>4, <1>5, <1>6 DEF Next

LEMMA MapSteps ==
    ASSUME Control, [Next]_vars, ~LoadFromDatabase
    PROVE  UNCHANGED map /\ (ticker' \in {"none", "load"} <=> ticker \in {"none", "load"})
<1> DEFINE Goal == UNCHANGED map /\ (ticker' \in {"none", "load"} <=> ticker \in {"none", "load"})
<1>1. CASE StartProducer
  BY <1>1 DEF StartProducer, MainAt, Ends, Control, ThreadsPlaced, Starting, schedule, threads
<1>2. CASE MainStep /\ ~StartProducer
  <2>1. UNCHANGED <<ticker, schedule>>
    BY <1>2, Zenon DEF MainStep, Configure, PrepareBackend, PrepareWorld, PrepareGateway,
       CloseProducer, ProducerCloses, CloseConsumer, ConsumerCloses, ClosingEnds, Waited,
       Joined, MainTo, Ends, threads
  <2>2. QED
    BY <2>1 DEF schedule
<1>3. CASE ReaderStep
  <2>1. UNCHANGED <<ticker, schedule>>
    BY <1>3, Zenon DEF ReaderStep, StartConsumer, Subscribe, LoopTop, CheckConsumer,
       CheckClosing, Consume, Consumed, NothingConsumed, Handle, HandleWithAnswer,
       HandleFailed, HandleForClient, HandleWithEvent, HandleQuit, HandleInSilence, ReaderCloses,
       ReaderTo, Ends, threads
  <2>2. QED
    BY <2>1 DEF schedule
<1>4. CASE TickerStep
  <2>1. CASE Update
    <3>1. TickerAt("tick") /\ TickerTo("tick")
      BY <2>1, UpdateOutline, Zenon
    <3>2. UNCHANGED schedule
      BY <2>1, Zenon DEF Update, schedule
    <3>3. QED
      BY <3>1, <3>2 DEF TickerAt, TickerTo, schedule
  <2>2. CASE TickerLoop \/ Wake \/ TickEnds
    BY <2>2 DEF TickerLoop, Wake, TickEnds, TickerAt, TickerTo, schedule
  <2>3. CASE UpdateDies
    BY <2>3 DEF UpdateDies, Ends, threads, schedule
  <2>4. QED
    BY <1>4, <2>1, <2>2, <2>3 DEF TickerStep
<1>5. CASE HubStep \/ Clock \/ Signal \/ Arrive \/ UNCHANGED vars
  <2>1. UNCHANGED <<ticker, map>>
    BY <1>5, Zenon DEF HubStep, Listen, HubStops, HubEnqueues, Clock, Signal, Arrive, vars, threads, schedule
  <2>2. QED
    BY <2>1
<1>6. CASE \E t \in Callers : CallStep(t) \/ Produce(t)
  <2>1. UNCHANGED <<ticker, schedule>>
    BY <1>6, CallsLeave, Zenon
  <2>2. QED
    BY <2>1 DEF schedule
<1>7. QED
  BY <1>1, <1>2, <1>3, <1>4, <1>5, <1>6 DEF Next

-----------------------------------------------------------------------------
(* Every step keeps it.                                                    *)

Bound(archive, m) == [archive |-> archive, bytes |-> Serialize(m), meant |-> m]

LEMMA BoundIs ==
    ASSUME NEW archive, NEW m
    PROVE  /\ Bound(archive, m).archive = archive /\ Bound(archive, m).meant = m
           /\ Bound(archive, m).bytes = Serialize(m)
  BY DEF Bound

LEMMA BinaryIs == \A m : Binary(m) = Bound("binary", m)
  BY DEF Binary, Bound

LEMMA MapIs ==
    /\ IsMessage(SendMap, MapMessage) /\ MapMessage.id = SendMap.id /\ SendMap \in Classes
    /\ MapMessage.values["map_data"] = Json(map)
<1> DEFINE values == [Values(SendMap) EXCEPT !["map_data"] = Json(map)]
<1>1. SendMap \in Classes
  BY DEF Classes
<1>2. "map_data" \in ValueNames(SendMap)
  <2>1. SendMap.fields = <<Text("map_data")>>
    BY DEF SendMap, Class
  <2>2. Text("map_data").name = "map_data"
    BY DEF Text, Field
  <2> DEFINE f == Text("map_data")
  <2> HIDE DEF f
  <2>3. 1 \in DOMAIN SendMap.fields /\ SendMap.fields[1] = f
    BY <2>1 DEF f
  <2>4. QED
    BY <2>2, <2>3 DEF ValueNames, f
<1>3. Values(SendMap) = [f \in ValueNames(SendMap) |-> <<f>>]
  BY <1>1, SomeIs
<1>4. values["map_data"] = Json(map) /\ values = [f \in ValueNames(SendMap) |-> values[f]]
  BY <1>2, <1>3
<1>5. MapMessage.id = SendMap.id /\ MapMessage.values = values
  BY DEF MapMessage, Message
<1>6. MapMessage = Message(SendMap.id, values)
  BY DEF MapMessage
<1> HIDE DEF values
<1>7. QED
  BY <1>1, <1>4, <1>5, <1>6 DEF IsMessage

LEMMA ClientAnswers ==
    ASSUME NEW id, NEW class \in GatewayAnswers(id)
    PROVE  /\ class \in Classes
           /\ id = class.id \/ (id = ChatSend.id /\ class = ChatReceive)
<1>1. CASE id = ChatSend.id
  <2>1. class = ChatReceive
    BY <1>1, Zenon DEF GatewayAnswers
  <2>2. QED
    BY <1>1, <2>1 DEF Classes
<1>2. CASE id # ChatSend.id
  <2>1. /\ class \in {LoginResponse, RegisterResponse, ErrorResponse, SendMap,
                      GetCharactersResponse}
        /\ class.id = id
    BY <1>2, Zenon DEF GatewayAnswers
  <2>2. class \in Classes
    BY <2>1, Zenon DEF Classes
  <2>3. QED
    BY <2>1, <2>2
<1>3. QED
  BY <1>1, <1>2

LEMMA SentStaysOurs ==
    ASSUME SentOurs, SendingOurs, GotOurs, [Next]_vars
    PROVE  SentOurs'
<1>1. ASSUME NEW archive \in {"binary", "json"}, NEW m, NEW class \in Classes,
             IsMessage(class, m), sent' = sent \/ sent' = sent \cup {Bound(archive, m)}
      PROVE  SentOurs'
  <2>1. Sendable(Bound(archive, m))
    BY <1>1, BoundIs, Zenon DEF Sendable
  <2>2. QED
    BY <1>1, <2>1, Zenon DEF SentOurs
<1>2. "binary" \in {"binary", "json"} /\ "json" \in {"binary", "json"}
  OBVIOUS
<1>4. ASSUME NEW t \in Callers, Produce(t)
      PROVE  SentOurs'
  <2>1. call[t] # "none"
    BY <1>4 DEF Produce, InCall
  <2>2. PICK class \in Classes : IsMessage(class, sending[t])
    BY <2>1, Zenon DEF SendingOurs
  <2>3. sent' = sent \/ sent' = sent \cup {Bound("binary", sending[t])}
    BY <1>4, BinaryIs DEF Produce
  <2>4. QED
    BY <1>1, <1>2, <2>2, <2>3, Zenon
<1>5. CASE HandleForClient
  <2>1. reader = "handle"
    BY <1>5 DEF HandleForClient, ReaderAt
  <2> DEFINE values == [got.message.values EXCEPT !["sender"] = <<"sender">>]
  <2>2. PICK class \in GatewayAnswers(got.message.id) :
            sent' = sent \cup {Bound("json", Message(class.id, values))}
    BY <1>5, Zenon DEF HandleForClient, Bound
  <2>3. class \in Classes
    BY ClientAnswers
  <2>4. got.message = Exception \/ \E c \in Classes : got.message = Some(c)
    BY <2>1 DEF GotOurs
  <2>5. values = [f \in ValueNames(class) |-> values[f]]
    <3>1. CASE got.message = Exception
      <4>1. got.message.id = 99999
        BY <3>1 DEF Exception, Message
      <4>2. class.id # 99999 /\ ChatSend.id # 99999
        <5>1. class.id \in DOMAIN Cases
          BY <2>3, ClassesFit DEF Fits
        <5>2. 99999 \notin DOMAIN Cases
          BY DEF Cases
        <5>3. ChatSend.id = 4
          BY DEF ChatSend, Class
        <5>4. QED
          BY <5>1, <5>2, <5>3
      <4>3. QED
        BY <4>1, <4>2, ClientAnswers
    <3>2. ASSUME NEW c \in Classes, got.message = Some(c)
          PROVE  values = [f \in ValueNames(class) |-> values[f]]
      <4>1. got.message.id = c.id /\ got.message.values = [f \in ValueNames(c) |-> <<f>>]
        BY <3>2, SomeIs
      <4>2. c.id = class.id \/ (c.id = ChatSend.id /\ class = ChatReceive)
        BY <4>1, ClientAnswers
      <4>3. ChatSend \in Classes /\ ChatSend.fields = ChatReceive.fields
        BY DEF Classes, ChatSend, ChatReceive, Class
      <4>4. c.fields = class.fields
        BY <2>3, <4>2, <4>3, IdsApart
      <4>5. ValueNames(c) = ValueNames(class)
        BY <4>4, Zenon DEF ValueNames
      <4>6. QED
        BY <4>1, <4>5
    <3>3. QED
      BY <2>4, <3>1, <3>2
  <2> DEFINE m == Message(class.id, values)
  <2>6. IsMessage(class, m)
    <3> HIDE DEF values
    <3>1. m.values = values
      BY DEF Message
    <3>2. QED
      BY <2>5, <3>1 DEF IsMessage
  <2>7. QED
    BY <1>1, <1>2, <2>2, <2>3, <2>6, Zenon
<1>6. CASE UNCHANGED sent
  BY <1>6 DEF SentOurs
<1>7. QED
  BY <1>4, <1>5, <1>6, SentSteps

LEMMA InboxStaysOurs == InboxOurs /\ [Next]_vars => InboxOurs'
<1> SUFFICES ASSUME InboxOurs, [Next]_vars PROVE InboxOurs'
  OBVIOUS
<1> USE DEF InboxOurs
<1>1. CASE Arrive
  <2>1. \/ \E class \in Arriving :
              inbox' = Append(inbox, [bytes |-> Serialize(Some(class)), meant |-> Some(class)])
        \/ \E b \in Broken : inbox' = Append(inbox, [bytes |-> b, meant |-> Exception])
    BY <1>1, Zenon DEF Arrive
  <2>2. \E r \in Buffers : inbox' = Append(inbox, r)
    BY <2>1, ServersAssumption DEF Buffers
  <2>3. QED
    BY <2>2, QueueAppend, Zenon
<1>2. CASE Consumed
  <2>1. inbox # <<>> /\ inbox' = Tail(inbox)
    BY <1>2, Zenon DEF Consumed
  <2>2. QED
    BY <2>1, QueueTail, Zenon
<1>3. CASE UNCHANGED <<inbox, arrived>>
  BY <1>3, Zenon
<1>4. CASE HubEnqueues
  BY <1>4, Zenon DEF HubEnqueues
<1>5. QED
  BY <1>1, <1>2, <1>3, <1>4, InboxSteps

LEMMA GotStaysOurs == InboxOurs /\ GotOurs /\ [Next]_vars => GotOurs'
<1> SUFFICES ASSUME InboxOurs, GotOurs, [Next]_vars PROVE GotOurs'
  OBVIOUS
<1>1. CASE Consumed
  <2>1. inbox # <<>>
    BY <1>1, Zenon DEF Consumed
  <2>2. got' = [message |-> Deserialize("binary", Head(inbox).bytes), meant |-> Head(inbox).meant]
    BY <1>1, Zenon DEF Consumed
  <2>3. Head(inbox) \in Buffers
    BY <2>1, HeadTailProperties DEF InboxOurs
  <2>4. got'.message = Head(inbox).meant /\ got'.meant = Head(inbox).meant
    BY <2>2, <2>3, BuffersRead
  <2>5. got' # <<>>
    <3>1. "meant" \in DOMAIN got' /\ "meant" \notin DOMAIN <<>>
      BY <2>2
    <3>2. QED
      BY <3>1
  <2>6. Head(inbox).meant = Exception \/ \E class \in Classes : Head(inbox).meant = Some(class)
    BY <2>3 DEF Buffers
  <2>7. QED
    BY <2>4, <2>5, <2>6 DEF GotOurs
<1>2. CASE ~Consumed
  BY <1>2, GotSteps DEF GotOurs
<1>3. QED
  BY <1>1, <1>2

LEMMA MapsStayOurs ==
    ASSUME Control, MapsOurs, SendingOurs, [Next]_vars
    PROVE  MapsOurs'
<1> DEFINE IsMap(b) == b.archive = "binary" /\ b.meant.id = SendMap.id
<1>1. CASE LoadFromDatabase
  <2>1. ticker = "load" /\ ticker' = "loop" /\ sent' = sent /\ map' \in Loads
    BY <1>1 DEF LoadFromDatabase, TickerAt, TickerTo, data, Loads
  <2>2. \A b \in sent : ~ IsMap(b)
    BY <2>1 DEF MapsOurs
  <2>3. Loads' = Loads
    BY DEF Loads
  <2>4. QED
    BY <2>1, <2>2, <2>3 DEF MapsOurs
<1>2. CASE ~LoadFromDatabase
  <2>1. map' = map /\ (ticker' \in {"none", "load"} <=> ticker \in {"none", "load"})
    BY <1>2, MapSteps
  <2>2. MapMessage' = MapMessage /\ Loads' = Loads
    BY <2>1, Zenon DEF MapMessage, Loads
  <2>3. ASSUME \A b \in sent' : b \in sent \/ ~ IsMap(b)
                     \/ (ticker \notin {"none", "load"} /\ b.meant = MapMessage)
        PROVE  MapsOurs'
    <3>1. ticker' \notin {"none", "load"} => map' \in Loads'
      BY <2>1, <2>2 DEF MapsOurs
    <3>2. ASSUME NEW b \in sent', IsMap(b)
          PROVE  ticker' \notin {"none", "load"} /\ b.meant = MapMessage'
      <4>1. ticker \notin {"none", "load"} /\ b.meant = MapMessage
        BY <2>3, <3>2, Zenon DEF MapsOurs
      <4>2. QED
        BY <2>1, <2>2, <4>1, Zenon
    <3>3. QED
      BY <3>1, <3>2, Zenon DEF MapsOurs
  <2>5. CASE HandleForClient
    <3>1. PICK m : sent' = sent \cup {Bound("json", m)}
      BY <2>5, Zenon DEF HandleForClient, Bound
    <3>2. ~ IsMap(Bound("json", m))
      <4>1. "json" # "binary"
        OBVIOUS
      <4>2. QED
        BY <4>1, BoundIs
    <3>3. \A b \in sent' : b \in sent \/ b = Bound("json", m)
      BY <3>1
    <3> HIDE DEF IsMap
    <3>4. QED
      BY <2>3, <3>2, <3>3, Zenon
  <2>6. ASSUME NEW t \in Callers, Produce(t)
        PROVE  MapsOurs'
    <3> DEFINE m == sending[t]
    <3>1. call[t] # "none"
      BY <2>6 DEF Produce, InCall
    <3>2. m.id = SendMap.id => ticker \notin {"none", "load"} /\ m = MapMessage
      BY <3>1, Zenon DEF SendingOurs
    <3>3. Bound("binary", m).meant = m
      BY BoundIs
    <3>4. \A b \in sent' : b \in sent \/ b = Bound("binary", m)
      BY <2>6, BinaryIs DEF Produce
    <3> HIDE DEF m
    <3>5. ~ IsMap(Bound("binary", m)) \/ (ticker \notin {"none", "load"} /\ m = MapMessage)
      BY <3>2, <3>3, Zenon
    <3> HIDE DEF IsMap
    <3>6. QED
      BY <2>3, <3>3, <3>4, <3>5, Zenon
  <2>7. CASE UNCHANGED sent
    BY <2>3, <2>7, Zenon
  <2>8. QED
    BY <2>5, <2>6, <2>7, SentSteps
<1>3. QED
  BY <1>1, <1>2

\* What a thread may enqueue is ours.
Placed == ticker \notin {"none", "load"}
IsOurs(m) ==
    /\ \E class \in Classes : IsMessage(class, m)
    /\ m.id = SendMap.id => Placed /\ m = MapMessage

LEMMA EnqueuedIsOurs ==
    ASSUME NEW m, Enqueued(m)
    PROVE  IsOurs(m)
<1>1. CASE m = MapMessage /\ ticker = "tick"
  BY <1>1, MapIs DEF IsOurs, Placed
<1>2. ASSUME NEW class \in Classes, m = Some(class), class.id # SendMap.id
      PROVE  IsOurs(m)
  BY <1>2, SomeIs DEF IsOurs
<1>3. QED
  BY <1>1, <1>2, Zenon DEF Enqueued

LEMMA SendingStaysOurs ==
    ASSUME Control, SendingOurs, [Next]_vars
    PROVE  SendingOurs'
<1>1. DOMAIN sending = Callers /\ DOMAIN call = Callers
  BY Zenon DEF SendingOurs
<1>2. \A t \in Callers : call[t] # "none" => IsOurs(sending[t])
  BY Zenon DEF SendingOurs, IsOurs, Placed
<1>3. CASE LoadFromDatabase
  <2>1. ticker = "load" /\ call' = call /\ sending' = sending
    BY <1>3 DEF LoadFromDatabase, TickerAt, calls
  <2>2. \A t \in Callers : call[t] # "none" =>
            sending[t].id # SendMap.id /\ \E class \in Classes : IsMessage(class, sending[t])
    BY <2>1, <1>2 DEF IsOurs, Placed
  <2>3. QED
    BY <1>1, <2>1, <2>2, Zenon DEF SendingOurs
<1>4. CASE ~LoadFromDatabase
  <2>1. map' = map /\ (ticker' \in {"none", "load"} <=> ticker \in {"none", "load"})
    BY <1>4, MapSteps
  <2>2. MapMessage' = MapMessage
    BY <2>1, Zenon DEF MapMessage
  <2>3. ASSUME DOMAIN sending' = Callers, DOMAIN call' = Callers,
               \A t \in Callers : call'[t] # "none" => IsOurs(sending'[t])
        PROVE  SendingOurs'
    BY <2>1, <2>2, <2>3, Zenon DEF SendingOurs, IsOurs, Placed
  <2>4. CASE \E t \in Callers : \E m : Enqueued(m) /\ Enters(t, m)
    <3>0. PICK t \in Callers : \E m : Enqueued(m) /\ Enters(t, m)
      BY <2>4
    <3>1. PICK m : Enqueued(m) /\ Enters(t, m)
      BY <3>0
    <3>2. IsOurs(m)
      BY <3>1, EnqueuedIsOurs
    <3>3. DOMAIN sending' = Callers /\ DOMAIN call' = Callers
      BY <1>1, <3>1 DEF Enters
    <3>4. \A u \in Callers : call'[u] # "none" => IsOurs(sending'[u])
      <4>1. \A u \in Callers : (u = t /\ sending'[u] = m)
                               \/ (call'[u] = call[u] /\ sending'[u] = sending[u])
        BY <1>1, <3>1 DEF Enters
      <4>2. QED
        BY <1>2, <3>2, <4>1, Zenon
    <3>5. QED
      BY <2>3, <3>3, <3>4
  <2>5. CASE \E t \in Callers : /\ call[t] = "checked" /\ call' = [call EXCEPT ![t] = "found"]
                              /\ sending' = sending
    <3>1. PICK t \in Callers : /\ call[t] = "checked" /\ call' = [call EXCEPT ![t] = "found"]
                              /\ sending' = sending
      BY <2>5
    <3>2. DOMAIN sending' = Callers /\ DOMAIN call' = Callers
      BY <1>1, <3>1
    <3>3. \A u \in Callers : call'[u] # "none" => call[u] # "none" /\ sending'[u] = sending[u]
      BY <1>1, <3>1
    <3>4. QED
      BY <1>2, <2>3, <3>2, <3>3, Zenon
  <2>6. CASE \E t \in Callers : CallLeft(t)
    <3>1. PICK t \in Callers : CallLeft(t)
      BY <2>6
    <3>2. DOMAIN sending' = Callers /\ DOMAIN call' = Callers
      BY <1>1, <3>1 DEF CallLeft
    <3>3. \A u \in Callers : call'[u] # "none" => call[u] # "none" /\ sending'[u] = sending[u]
      BY <1>1, <3>1 DEF CallLeft
    <3>4. QED
      BY <1>2, <2>3, <3>2, <3>3, Zenon
  <2>7. CASE call' = call /\ sending' = sending
    BY <1>1, <1>2, <2>3, <2>7, Zenon
  <2>8. QED
    BY <2>4, <2>5, <2>6, <2>7, CallSteps, Zenon DEF CallsChange
<1>5. QED
  BY <1>3, <1>4

Ours == InboxOurs /\ GotOurs /\ SentOurs /\ SendingOurs /\ MapsOurs

LEMMA InitOurs == Init => Ours
<1> SUFFICES ASSUME Init PROVE Ours
  OBVIOUS
<1>1. InboxOurs
  BY DEF Init, InboxOurs
<1>2. GotOurs
  BY DEF Init, GotOurs
<1>3. sent = {} /\ ticker = "none"
  BY DEF Init
<1>4. SendingOurs
  BY DEF Init, SendingOurs
<1>5. QED
  BY <1>1, <1>2, <1>3, <1>4 DEF Ours, SentOurs, MapsOurs

LEMMA StepOurs == Control /\ Ours /\ [Next]_vars => Ours'
  BY InboxStaysOurs, GotStaysOurs, SentStaysOurs, SendingStaysOurs, MapsStayOurs, Zenon DEF Ours

LEMMA AlwaysOurs == Spec => []Ours
  BY ControlKept, InitOurs, StepOurs, PTL DEF Spec

-----------------------------------------------------------------------------
(* base64_decode makes of what base64_encode wrote the same bytes.         *)

\* How many characters there are, and bytes of them again.
LEMMA CharactersCount ==
    ASSUME NEW n \in Nat
    PROVE  LET c == Characters(n)
               groups == (n + 2) \div 3
           IN  /\ c \in Nat /\ groups \in Nat /\ c <= 4 * groups
               /\ (3 * c) \div 4 = n
  BY DEF Characters

\* Byte b is in character 4 * ((b - 1) \div 3) + b % 3 of them and in the next one.
LEMMA CharactersOfByte ==
    ASSUME NEW n \in Nat, NEW b \in 1 .. n
    PROVE  LET p == (b - 1) \div 3
           IN  /\ p \in Nat
               /\ b % 3 = 1 => b = 3 * p + 1 /\ 4 * p + 2 <= Characters(n)
               /\ b % 3 = 2 => b = 3 * p + 2 /\ 4 * p + 3 <= Characters(n)
               /\ b % 3 = 0 => b = 3 * p + 3 /\ 4 * p + 4 <= Characters(n)
               /\ b % 3 \in {0, 1, 2}
  BY DEF Characters

\* The four characters of group p.
LEMMA SextetsOfGroup ==
    ASSUME NEW bytes, NEW p \in Nat
    PROVE  /\ Sextet(bytes, 4 * p + 1) = At(bytes, 3 * p + 1) \div 4
           /\ Sextet(bytes, 4 * p + 2) =
                  (At(bytes, 3 * p + 1) % 4) * 16 + At(bytes, 3 * p + 2) \div 16
           /\ Sextet(bytes, 4 * p + 3) =
                  (At(bytes, 3 * p + 2) % 16) * 4 + At(bytes, 3 * p + 3) \div 64
           /\ Sextet(bytes, 4 * p + 4) = At(bytes, 3 * p + 3) % 64
<1>1. /\ (4 * p + 1) % 4 = 1 /\ ((4 * p + 1) - 1) \div 4 = p
      /\ (4 * p + 2) % 4 = 2 /\ ((4 * p + 2) - 1) \div 4 = p
      /\ (4 * p + 3) % 4 = 3 /\ ((4 * p + 3) - 1) \div 4 = p
      /\ (4 * p + 4) % 4 = 0 /\ ((4 * p + 4) - 1) \div 4 = p
  OBVIOUS
<1>2. Sextet(bytes, 4 * p + 1) = At(bytes, 3 * p + 1) \div 4
  BY <1>1 DEF Sextet
<1>3. Sextet(bytes, 4 * p + 2) = (At(bytes, 3 * p + 1) % 4) * 16 + At(bytes, 3 * p + 2) \div 16
  BY <1>1 DEF Sextet
<1>4. Sextet(bytes, 4 * p + 3) = (At(bytes, 3 * p + 2) % 16) * 4 + At(bytes, 3 * p + 3) \div 64
  BY <1>1 DEF Sextet
<1>5. Sextet(bytes, 4 * p + 4) = At(bytes, 3 * p + 3) % 64
  BY <1>1 DEF Sextet
<1>6. QED
  BY <1>2, <1>3, <1>4, <1>5

LEMMA GroupIs == \A s \in Nat \ {0} : \E p \in Nat : s \in {4 * p + 1, 4 * p + 2, 4 * p + 3, 4 * p + 4}
<1> SUFFICES ASSUME NEW s \in Nat \ {0}
             PROVE  \E p \in Nat : s \in {4 * p + 1, 4 * p + 2, 4 * p + 3, 4 * p + 4}
  OBVIOUS
<1> DEFINE p == (s - 1) \div 4
<1>1. p \in Nat /\ s \in {4 * p + 1, 4 * p + 2, 4 * p + 3, 4 * p + 4}
  OBVIOUS
<1>2. QED
  BY <1>1

LEMMA AtIsAByte ==
    ASSUME NEW bytes \in Seq(0 .. 255), NEW k \in Nat \ {0}
    PROVE  At(bytes, k) \in 0 .. 255
<1> DEFINE S == 0 .. 255
<1>1. bytes \in Seq(S) /\ 0 \in S
  OBVIOUS
<1> HIDE DEF S
<1>2. CASE k <= Len(bytes)
  <2>1. bytes[k] \in S
    BY <1>1, <1>2
  <2>2. QED
    BY <1>2, <2>1 DEF At, S
<1>3. CASE ~ (k <= Len(bytes))
  BY <1>1, <1>3 DEF At, S
<1>4. QED
  BY <1>2, <1>3

LEMMA SextetsAreNoPads ==
    ASSUME NEW bytes \in Seq(0 .. 255), NEW s \in Nat \ {0}
    PROVE  Sextet(bytes, s) \in 0 .. 63
<1>1. PICK p \in Nat : s \in {4 * p + 1, 4 * p + 2, 4 * p + 3, 4 * p + 4}
  BY GroupIs
<1> DEFINE x == At(bytes, 3 * p + 1)
           y == At(bytes, 3 * p + 2)
           z == At(bytes, 3 * p + 3)
<1>2. x \in 0 .. 255 /\ y \in 0 .. 255 /\ z \in 0 .. 255
  <2>1. /\ 3 * p + 1 \in Nat \ {0} /\ 3 * p + 2 \in Nat \ {0} /\ 3 * p + 3 \in Nat \ {0}
    OBVIOUS
  <2>2. \A k \in Nat \ {0} : At(bytes, k) \in 0 .. 255
    BY AtIsAByte
  <2>3. QED
    BY <2>1, <2>2, Zenon
<1>3. Sextet(bytes, s) \in {x \div 4, (x % 4) * 16 + y \div 16, (y % 16) * 4 + z \div 64, z % 64}
  BY <1>1, SextetsOfGroup
<1> HIDE DEF x, y, z
<1>4. /\ x \div 4 \in 0 .. 63 /\ (x % 4) * 16 + y \div 16 \in 0 .. 63
      /\ (y % 16) * 4 + z \div 64 \in 0 .. 63 /\ z % 64 \in 0 .. 63
  BY <1>2
<1>5. QED
  BY <1>3, <1>4, Zenon

\* The bits of a byte that two characters hold.
LEMMA BytesJoined ==
    ASSUME NEW x \in 0 .. 255, NEW y \in 0 .. 255, NEW z \in 0 .. 255
    PROVE  /\ (x \div 4) * 4 + ((x % 4) * 16 + y \div 16) \div 16 = x
           /\ (((y % 16) * 4 + z \div 64) % 4) * 64 + (z % 64) = z
  OBVIOUS

LEMMA MiddleJoined ==
    ASSUME NEW x \in 0 .. 255, NEW y \in 0 .. 255, NEW z \in 0 .. 255
    PROVE  (((x % 4) * 16 + y \div 16) % 16) * 16 + ((y % 16) * 4 + z \div 64) \div 4 = y
  OBVIOUS

LEMMA PaddingEndsText ==
    ASSUME NEW bytes \in Seq(0 .. 255)
    PROVE  Readable(Base64(bytes)) = Characters(Len(bytes))
<1> DEFINE c == Characters(Len(bytes))
           chars == Base64(bytes)
           m == 4 * ((Len(bytes) + 2) \div 3)
<1>1. Len(bytes) \in Nat
  OBVIOUS
<1>2. c \in Nat /\ m \in Nat /\ c <= m
  BY <1>1, CharactersCount
<1>3. \A s \in 1 .. m : chars[s] = IF s <= c THEN Sextet(bytes, s) ELSE Pad
  BY DEF Base64
<1>4. Len(chars) = m
  <2>1. chars = [s \in 1 .. m |-> IF s <= c THEN Sextet(bytes, s) ELSE Pad]
    BY DEF Base64
  <2> HIDE DEF chars, m, c
  <2>2. QED
    BY <1>2, <2>1
<1> HIDE DEF chars, m, c
<1>5. ASSUME NEW k \in 1 .. c
      PROVE  chars[k] # Pad
  <2>1. k \in Nat \ {0} /\ k \in 1 .. m /\ k <= c
    BY <1>2
  <2>2. Sextet(bytes, k) \in 0 .. 63
    BY <2>1, SextetsAreNoPads
  <2>3. chars[k] = Sextet(bytes, k)
    BY <1>3, <2>1
  <2>4. \A v \in 0 .. 63 : v # Pad
    BY DEF Pad
  <2>5. QED
    BY <2>2, <2>3, <2>4, Zenon
<1>6. c = m \/ chars[c + 1] = Pad
  BY <1>2, <1>3
<1>7. \A n \in 0 .. Len(chars) :
          (\A k \in 1 .. n : chars[k] # Pad) /\ (n = Len(chars) \/ chars[n + 1] = Pad) => n = c
  BY <1>2, <1>4, <1>5, <1>6
<1>8. c \in 0 .. Len(chars) /\ (c = Len(chars) \/ chars[c + 1] = Pad)
  BY <1>2, <1>4, <1>6
<1>9. Readable(chars) = c
  BY <1>5, <1>7, <1>8 DEF Readable
<1>10. QED
  BY <1>9 DEF chars, c

(* What base64_decode makes of what base64_encode wrote is what it was     *)
(* made of, whatever the bytes and however many (base64.cpp:41).           *)
THEOREM Base64IsReadBack ==
    ASSUME NEW bytes \in Seq(0 .. 255)
    PROVE  Decoded(Base64(bytes)) = bytes
<1> DEFINE n == Len(bytes)
           c == Characters(n)
           chars == Base64(bytes)
           text == SubSeq(chars, 1, c)
<1>1. n \in Nat /\ DOMAIN bytes = 1 .. n
  OBVIOUS
<1>2. /\ c \in Nat /\ c <= 4 * ((n + 2) \div 3) /\ (3 * c) \div 4 = n
      /\ (n + 2) \div 3 \in Nat
  BY <1>1, CharactersCount
<1>3. Len(text) = c /\ \A s \in 1 .. c : text[s] = Sextet(bytes, s)
  <2>1. \A s \in 1 .. c : chars[s] = Sextet(bytes, s)
    BY <1>2 DEF Base64
  <2> HIDE DEF chars, c
  <2>2. text = [s \in 1 .. c |-> chars[s]]
    BY <1>2
  <2>3. QED
    BY <1>2, <2>1, <2>2
<1>4. Readable(chars) = c
  BY PaddingEndsText
<1> DEFINE byte(b) ==
               LET g == 4 * ((b - 1) \div 3)
               IN  CASE b % 3 = 1 -> At(text, g + 1) * 4 + At(text, g + 2) \div 16
                     [] b % 3 = 2 -> (At(text, g + 2) % 16) * 16 + At(text, g + 3) \div 4
                     [] b % 3 = 0 -> (At(text, g + 3) % 4) * 64 + At(text, g + 4)
<1>5. Decoded(chars) = [b \in 1 .. (3 * Len(text)) \div 4 |-> byte(b)]
  BY <1>4 DEF Decoded
<1> HIDE DEF chars, text
<1>6. ASSUME NEW b \in 1 .. n
      PROVE  byte(b) = bytes[b]
  <2> DEFINE p == (b - 1) \div 3
             x == At(bytes, 3 * p + 1)
             y == At(bytes, 3 * p + 2)
             z == At(bytes, 3 * p + 3)
  <2>1. /\ p \in Nat
        /\ b % 3 = 1 => b = 3 * p + 1 /\ 4 * p + 2 <= c
        /\ b % 3 = 2 => b = 3 * p + 2 /\ 4 * p + 3 <= c
        /\ b % 3 = 0 => b = 3 * p + 3 /\ 4 * p + 4 <= c
        /\ b % 3 \in {0, 1, 2}
    BY <1>1, CharactersOfByte
  <2>2. x \in 0 .. 255 /\ y \in 0 .. 255 /\ z \in 0 .. 255
    <3>1. p \in Nat
      BY <2>1
    <3> HIDE DEF p
    <3>2. /\ 3 * p + 1 \in Nat \ {0} /\ 3 * p + 2 \in Nat \ {0} /\ 3 * p + 3 \in Nat \ {0}
      BY <3>1
    <3>3. \A k \in Nat \ {0} : At(bytes, k) \in 0 .. 255
      BY AtIsAByte
    <3>4. QED
      BY <3>2, <3>3, Zenon
  <2>3. /\ 4 * p + 1 <= c => At(text, 4 * p + 1) = x \div 4
        /\ 4 * p + 2 <= c => At(text, 4 * p + 2) = (x % 4) * 16 + y \div 16
        /\ 4 * p + 3 <= c => At(text, 4 * p + 3) = (y % 16) * 4 + z \div 64
        /\ 4 * p + 4 <= c => At(text, 4 * p + 4) = z % 64
    <3>1. ASSUME NEW s \in Nat \ {0}, s <= c
          PROVE  At(text, s) = Sextet(bytes, s)
      BY <1>2, <1>3, <3>1 DEF At
    <3>2. QED
      BY <2>1, <3>1, SextetsOfGroup
  <2>4. At(bytes, b) = bytes[b]
    BY <1>1 DEF At
  <2>5. CASE b % 3 = 1
    <3>1. byte(b) = At(text, 4 * p + 1) * 4 + At(text, 4 * p + 2) \div 16
      BY <2>5
    <3>2. bytes[b] = x /\ 4 * p + 1 <= c /\ 4 * p + 2 <= c
      BY <1>2, <2>1, <2>4, <2>5
    <3> HIDE DEF x, y, z, p, c, byte
    <3>3. byte(b) = (x \div 4) * 4 + ((x % 4) * 16 + y \div 16) \div 16
      BY <2>3, <3>1, <3>2
    <3>4. QED
      BY <2>2, <3>2, <3>3, BytesJoined
  <2>6. CASE b % 3 = 2
    <3>1. byte(b) = (At(text, 4 * p + 2) % 16) * 16 + At(text, 4 * p + 3) \div 4
      BY <2>6
    <3>2. bytes[b] = y /\ 4 * p + 2 <= c /\ 4 * p + 3 <= c
      <4>1. b = 3 * p + 2 /\ 4 * p + 3 <= c
        BY <2>1, <2>6
      <4> HIDE DEF p, c
      <4>2. QED
        BY <1>2, <2>1, <2>4, <4>1
    <3> HIDE DEF x, y, z, p, c, byte
    <3>3. byte(b) = (((x % 4) * 16 + y \div 16) % 16) * 16 + ((y % 16) * 4 + z \div 64) \div 4
      BY <2>3, <3>1, <3>2
    <3>4. (((x % 4) * 16 + y \div 16) % 16) * 16 + ((y % 16) * 4 + z \div 64) \div 4 = y
      <4> DEFINE joined(i, j, k) ==
              (((i % 4) * 16 + j \div 16) % 16) * 16 + ((j % 16) * 4 + k \div 64) \div 4
      <4>1. \A i, j, k \in 0 .. 255 : joined(i, j, k) = j
        BY MiddleJoined, Zenon
      <4> HIDE DEF joined
      <4>2. joined(x, y, z) = y
        BY <2>2, <4>1, ZenonT(60)
      <4>3. QED
        BY <4>2 DEF joined
    <3>5. QED
      BY <3>2, <3>3, <3>4, Zenon
  <2>7. CASE b % 3 = 0
    <3>1. byte(b) = (At(text, 4 * p + 3) % 4) * 64 + At(text, 4 * p + 4)
      BY <2>7
    <3>2. bytes[b] = z /\ 4 * p + 3 <= c /\ 4 * p + 4 <= c
      <4>1. b = 3 * p + 3 /\ 4 * p + 4 <= c
        BY <2>1, <2>7
      <4> HIDE DEF p, c
      <4>2. QED
        BY <1>2, <2>1, <2>4, <4>1
    <3> HIDE DEF x, y, z, p, c, byte
    <3>3. byte(b) = (((y % 16) * 4 + z \div 64) % 4) * 64 + (z % 64)
      BY <2>3, <3>1, <3>2
    <3>4. (((y % 16) * 4 + z \div 64) % 4) * 64 + (z % 64) = z
      BY <2>2, BytesJoined, ZenonT(60)
    <3>5. QED
      BY <3>2, <3>3, <3>4, Zenon
  <2>8. QED
    BY <2>1, <2>5, <2>6, <2>7
<1> HIDE DEF byte
<1>7. Decoded(chars) = [b \in 1 .. n |-> bytes[b]]
  BY <1>2, <1>3, <1>5, <1>6
<1>8. QED
  BY <1>1, <1>7 DEF chars

-----------------------------------------------------------------------------
(* The tiles that a client finds in the data of a layer.                   *)

\* What 16 bits hold.
TileIds == {t \in Nat : t < 65536}

LEMMA NumberOfBytes ==
    ASSUME NEW t \in TileIds
    PROVE  Bytes(t)[1] + 256 * Bytes(t)[2] = t
<1>1. Bytes(t)[1] = t % 256 /\ Bytes(t)[2] = (t \div 256) % 256
  BY DEF Bytes
<1>2. (t % 256) + 256 * ((t \div 256) % 256) = t
  BY DEF TileIds
<1>3. QED
  BY <1>1, <1>2

LEMMA TilesRead ==
    ASSUME NEW layer, NEW m \in Nat, layer.tiles \in [1 .. m -> TileIds],
           Compressed(TileBytes(layer)) \in Seq(0 .. 255),
           Decompressed(Compressed(TileBytes(layer))) = TileBytes(layer)
    PROVE  TilesIn(Base64(Compressed(TileBytes(layer)))) = layer.tiles
<1> DEFINE tiles == layer.tiles
           bytes == TileBytes(layer)
<1>1. Len(tiles) = m /\ DOMAIN tiles = 1 .. m
  OBVIOUS
<1>2. bytes = [b \in 1 .. 4 * m |-> Bytes(tiles[((b - 1) \div 4) + 1])[((b - 1) % 4) + 1]]
  BY <1>1 DEF TileBytes
<1>3. Decoded(Base64(Compressed(bytes))) = Compressed(bytes)
  BY Base64IsReadBack
<1>4. TilesIn(Base64(Compressed(bytes))) =
         [k \in 1 .. Len(bytes) \div 4 |-> bytes[4 * k - 3] + 256 * bytes[4 * k - 2]]
  BY <1>3 DEF TilesIn
<1> HIDE DEF bytes
<1>5. Len(bytes) \div 4 = m
  <2>1. Len(bytes) = 4 * m
    BY <1>2
  <2>2. QED
    BY <2>1
<1>6. ASSUME NEW k \in 1 .. m
      PROVE  bytes[4 * k - 3] + 256 * bytes[4 * k - 2] = tiles[k]
  <2>1. /\ 4 * k - 3 \in 1 .. 4 * m /\ (((4 * k - 3) - 1) \div 4) + 1 = k
        /\ (((4 * k - 3) - 1) % 4) + 1 = 1
        /\ 4 * k - 2 \in 1 .. 4 * m /\ (((4 * k - 2) - 1) \div 4) + 1 = k
        /\ (((4 * k - 2) - 1) % 4) + 1 = 2
    OBVIOUS
  <2>2. bytes[4 * k - 3] = Bytes(tiles[k])[1] /\ bytes[4 * k - 2] = Bytes(tiles[k])[2]
    BY <1>2, <2>1
  <2>3. tiles[k] \in TileIds
    OBVIOUS
  <2>4. QED
    BY <2>2, <2>3, NumberOfBytes
<1>7. TilesIn(Base64(Compressed(bytes))) = [k \in 1 .. m |-> tiles[k]]
  BY <1>4, <1>5, <1>6
<1>8. QED
  BY <1>1, <1>7 DEF bytes

LEMMA LoadedIs ==
    ASSUME NEW width \in Nat, NEW height \in Nat
    PROVE  LET layers == Loaded(width, height).layers
           IN  /\ DOMAIN layers = {1} /\ width * height \in Nat
               /\ layers[1].tiles \in [1 .. width * height -> TileIds]
<1> DEFINE m == width * height
           tiles == [k \in 1 .. m |-> (((k - 1) % height) + 1) % 65536]
           layer == Layer(tiles, width, height)
<1>1. Loaded(width, height).layers = <<layer>>
  BY DEF Loaded
<1>2. m \in Nat
  OBVIOUS
<1>3. ASSUME NEW k \in 1 .. m
      PROVE  (((k - 1) % height) + 1) % 65536 \in TileIds
  <2>1. height # 0
    <3>1. height = 0 => m = 0
      OBVIOUS
    <3> HIDE DEF m
    <3>2. QED
      BY <1>2, <3>1
  <2> HIDE DEF m
  <2>2. height \in Nat \ {0} /\ k - 1 \in Int
    BY <1>2, <2>1
  <2>3. (k - 1) % height \in 0 .. height - 1
    BY <2>2, Division
  <2>4. ((k - 1) % height) + 1 \in Int
    BY <2>3
  <2> DEFINE x == ((k - 1) % height) + 1
  <2> HIDE DEF x
  <2>5. x % 65536 \in TileIds
    BY <2>4 DEF x, TileIds
  <2>6. QED
    BY <2>5 DEF x
<1>4. tiles \in [1 .. m -> TileIds]
  BY <1>3
<1>5. layer.tiles = tiles
  BY DEF Layer
<1> HIDE DEF layer, tiles, m
<1>6. DOMAIN <<layer>> = {1} /\ <<layer>>[1] = layer
  OBVIOUS
<1>7. QED
  BY <1>1, <1>2, <1>4, <1>5, <1>6 DEF m

\* The data of a loaded map are read back.
LEMMA LoadedMapsRead ==
    ASSUME NEW loaded \in Loads
    PROVE  LET text == Json(loaded)
           IN  /\ DOMAIN text.layers = DOMAIN loaded.layers
               /\ \A k \in DOMAIN text.layers : TilesIn(text.layers[k].data) = loaded.layers[k].tiles
<1>1. PICK size \in MapSizes : loaded = Loaded(size[1], size[2])
  BY DEF Loads
<1>2. size[1] \in Nat /\ size[2] \in Nat
  BY ServersAssumption
<1> DEFINE layers == loaded.layers
           text == Json(loaded)
<1>3. /\ DOMAIN layers = {1} /\ size[1] * size[2] \in Nat
      /\ layers[1].tiles \in [1 .. size[1] * size[2] -> TileIds]
  BY <1>1, <1>2, LoadedIs
<1>4. /\ Compressed(TileBytes(layers[1])) \in Seq(0 .. 255)
      /\ Decompressed(Compressed(TileBytes(layers[1]))) = TileBytes(layers[1])
  BY <1>1, <1>3, CompressionAssumption
<1>5. TilesIn(Base64(Compressed(TileBytes(layers[1])))) = layers[1].tiles
  <2> DEFINE layer == layers[1]
             m == size[1] * size[2]
  <2>1. /\ m \in Nat /\ layer.tiles \in [1 .. m -> TileIds]
        /\ Compressed(TileBytes(layer)) \in Seq(0 .. 255)
        /\ Decompressed(Compressed(TileBytes(layer))) = TileBytes(layer)
    BY <1>3, <1>4
  <2> HIDE DEF layer, m
  <2>2. TilesIn(Base64(Compressed(TileBytes(layer)))) = layer.tiles
    BY <2>1, TilesRead
  <2>3. QED
    BY <2>2 DEF layer
<1>6. /\ DOMAIN text.layers = DOMAIN layers
      /\ \A k \in DOMAIN layers : text.layers[k].data = Base64(Compressed(TileBytes(layers[k])))
  BY DEF Json
<1> HIDE DEF text, layers
<1>7. QED
  BY <1>3, <1>5, <1>6 DEF text, layers

(* What a server writes is read by the servers and the clients, every      *)
(* message of every class in both archives, and what is no message is not; *)
(* the tiles of every loaded map come back, if LZ4 keeps what it compresses.*)
THEOREM WritersAndReadersAgree == Spec => []WhatIsSentIsRead
<1>1. Ours => WhatIsSentIsRead
  <2> SUFFICES ASSUME Ours PROVE WhatIsSentIsRead
    OBVIOUS
  <2>1. got # <<>> => got.message = got.meant
    BY DEF Ours, GotOurs
  <2>2. \A b \in sent : Reads(b.archive, b.bytes, b.meant)
    BY SentIsRead, Zenon DEF Ours, SentOurs
  <2>3. MapsRead
    <3> SUFFICES ASSUME NEW b \in sent, b.meant.id = SendMap.id, b.archive = "binary"
                 PROVE  LET text == b.meant.values["map_data"]
                        IN  \A k \in DOMAIN text.layers :
                                TilesIn(text.layers[k].data) = map.layers[k].tiles
      BY DEF MapsRead
    <3>1. map \in Loads /\ b.meant = MapMessage
      BY DEF Ours, MapsOurs
    <3>2. b.meant.values["map_data"] = Json(map)
      BY <3>1, MapIs
    <3>3. QED
      BY <3>1, <3>2, LoadedMapsRead
  <2>4. QED
    BY <2>1, <2>2, <2>3, Zenon DEF WhatIsSentIsRead
<1>2. QED
  BY <1>1, AlwaysOurs, PTL

=============================================================================
