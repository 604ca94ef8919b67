---------------------------- MODULE GatewayProofs ----------------------------
(***************************************************************************)
(* For any number of clients, users, characters, worlds and crashes: what  *)
(* GatewaySystem keeps, whatever its threads do, and that it implements    *)
(* Sessions.                                                               *)
(***************************************************************************)
EXTENDS GatewaySystem, SequenceTheorems, TLAPS

(* A message that is on its way: a list of characters has their names, and  *)
(* a quit was asked for by an administrator.                               *)
Sound == {m \in Messages :
             /\ m.kind = "get_characters_response" => m.body \in Seq(Names)
             /\ m.kind = "quit" => adminSeen}

\* A connection, or a copy of it: an administrator was once answered as such.
Granted == {c \in Connections : c.admin => adminSeen}

TableTyped == open \subseteq Sockets /\ slots \in [Slots -> Granted \cup {Free}]

UwsTyped ==
    /\ uws.pc \in {"poll", "handle", "stopped"}
    /\ uws.pc = "handle" =>
         /\ uws.ws \in Sockets /\ uws.slot \in Slots
         /\ uws.conn \in Granted
         /\ uws.frame \in ClientFrames

ConsTyped ==
    /\ cons.pc \in {"poll", "dispatch", "stopped"}
    /\ cons.pc = "dispatch" =>
         /\ cons.slot \in Slots
         /\ cons.msg \in Sound
         /\ cons.todo \subseteq ResponseFields

TopicsSound ==
    /\ topic \in [Topics -> Seq(Sound)]
    /\ uncommitted \in [Subscribed -> Seq(Sound)]

RestTyped ==
    /\ nextId \in 0 .. MaxIds
    /\ main \in {"poll", "closing_producer", "closing_consumer", "waiting",
                 "joining", "returned"}
    /\ producer \in {"open", "closing", "closed"}
    /\ frames \in 0 .. MaxFrames /\ gen \in 0 .. MaxRestarts

FlagsTyped == quit \in BOOLEAN /\ signalled \in BOOLEAN /\ adminSeen \in BOOLEAN

IInv ==
    /\ TableTyped /\ UwsTyped /\ ConsTyped /\ TopicsSound /\ RestTyped /\ FlagsTyped
    /\ QuitNeedsAdmin

-----------------------------------------------------------------------------
(* What a topic holds when something is appended to it, or taken from it.   *)
LEMMA AppendKeeps ==
    ASSUME NEW D, NEW Kind, NEW f \in [D -> Seq(Kind)], NEW t, NEW m \in Kind
    PROVE  [f EXCEPT ![t] = Append(@, m)] \in [D -> Seq(Kind)]
<1>1. \A s \in Seq(Kind) : Append(s, m) \in Seq(Kind)
  OBVIOUS
<1>2. QED
  BY <1>1

LEMMA TailKeeps ==
    ASSUME NEW D, NEW Kind, NEW f \in [D -> Seq(Kind)], NEW t \in D, f[t] # <<>>
    PROVE  /\ [f EXCEPT ![t] = Tail(@)] \in [D -> Seq(Kind)]
           /\ Head(f[t]) \in Kind
  BY HeadTailProperties

LEMMA SoundMessages == Seq(Sound) \subseteq Seq(Messages)
  BY SeqMonotonic DEF Sound

\* What clients send has the types of the fields that handlers copy.
LEMMA FramesTyped ==
    ASSUME NEW f \in ClientFrames
    PROVE  /\ f.client \in Nat
           /\ f.user \in Users \cup {NoUser}
           /\ f.body \in Bodies
<1> DEFINE B == Names \cup Users \cup {All, "banned", "failed"}
<1>1. <<>> \in Seq(B) /\ \A x \in B : <<x>> \in Seq(B)
  OBVIOUS
<1>2. \A i \in 0 .. MaxIds - 1 : i \in Nat
  BY GatewayAssumption
<1>3. f.client \in Nat
  BY <1>2 DEF ClientFrames
<1>4. f.user \in Users \cup {NoUser}
  BY DEF ClientFrames
<1>5. f.body \in Seq(B)
  <2>1. f.body = <<>> \/ \E x \in B : f.body = <<x>>
    BY DEF ClientFrames
  <2>2. QED
    BY <1>1, <2>1
<1>6. QED
  BY <1>3, <1>4, <1>5 DEF Bodies

LEMMA InitIInv == Init => IInv
<1> SUFFICES ASSUME Init PROVE IInv
  OBVIOUS
<1>1. <<>> \in Seq(Sound)
  OBVIOUS
<1>2. TopicsSound
  BY <1>1 DEF Init, TopicsSound
<1>3. TableTyped /\ UwsTyped /\ ConsTyped
  BY DEF Init, TableTyped, UwsTyped, ConsTyped
<1>4. RestTyped
  BY GatewayAssumption DEF Init, RestTyped
<1>5. FlagsTyped /\ QuitNeedsAdmin
  BY DEF Init, FlagsTyped, QuitNeedsAdmin
<1>6. QED
  BY <1>2, <1>3, <1>4, <1>5 DEF IInv

-----------------------------------------------------------------------------
(* The uws thread.                                                         *)

LEMMA TerminateKeeps ==
    ASSUME TableTyped, NEW w, Terminate(w), UNCHANGED adminSeen
    PROVE  TableTyped'
  BY DEF TableTyped, Terminate, Erased, Granted

RequestKinds == LoginKinds \cup Privileged

LEMMA RequestSound ==
    ASSUME IInv,
           NEW k \in RequestKinds, NEW i \in Nat, NEW u \in Users \cup {NoUser},
           NEW b \in Bodies
    PROVE  Message(k, i, u, b) \in Sound
<1>1. k \in MessageKinds /\ k # "quit" /\ k # "get_characters_response"
  BY DEF MessageKinds, RequestKinds, LoginKinds, Privileged
<1>2. gen \in Nat
  BY GatewayAssumption DEF IInv, RestTyped
<1>3. QED
  BY <1>1, <1>2 DEF Message, Sound, Messages

LEMMA QuitSound ==
    ASSUME IInv, NEW i \in Nat, adminSeen
    PROVE  Message("quit", i, NoUser, <<>>) \in Sound
<1>1. gen \in Nat
  BY GatewayAssumption DEF IInv, RestTyped
<1>2. <<>> \in Bodies /\ "quit" \in MessageKinds
  BY DEF Bodies, MessageKinds
<1>3. QED
  BY <1>1, <1>2 DEF Message, Sound, Messages

LEMMA EnqueueKeeps ==
    ASSUME IInv, NEW t, NEW m \in Sound, NEW c, Enqueue(t, m, c), UNCHANGED adminSeen
    PROVE  TableTyped' /\ topic' \in [Topics -> Seq(Sound)]
<1>1. topic' \in [Topics -> Seq(Sound)]
  <2>1. topic \in [Topics -> Seq(Sound)]
    BY DEF IInv, TopicsSound
  <2>2. [topic EXCEPT ![t] = Append(@, m)] \in [Topics -> Seq(Sound)]
    BY <2>1, AppendKeeps
  <2>3. QED
    BY <2>1, <2>2 DEF Enqueue
<1>2. TableTyped'
  <2>1. CASE Terminate(uws.ws)
    BY <2>1, TerminateKeeps DEF IInv
  <2>2. CASE slots' = slots /\ open' = open
    BY <2>2 DEF IInv, TableTyped, Granted
  <2>3. QED
    BY <2>1, <2>2 DEF Enqueue, TableAfterHandler
<1>3. QED
  BY <1>1, <1>2

(* A handler that returns leaves the invariant if it leaves the table and   *)
(* the topics well typed.                                                  *)
LEMMA HandlerKeeps ==
    ASSUME IInv, HandlerReturns, TableTyped', topic' \in [Topics -> Seq(Sound)]
    PROVE  IInv'
<1>1. Sound' = Sound /\ Granted' = Granted
  BY DEF HandlerReturns, notUws, Sound, Granted
<1>2. QED
  BY <1>1 DEF IInv, HandlerReturns, notUws, UwsTyped, ConsTyped, TopicsSound, RestTyped,
              FlagsTyped, QuitNeedsAdmin

LEMMA RejectKeeps ==
    ASSUME IInv, Reject, UNCHANGED adminSeen
    PROVE  TableTyped' /\ topic' \in [Topics -> Seq(Sound)]
  BY DEF IInv, TableTyped, Granted, TopicsSound, Reject

\* What a handler finds in its copy and in the client's message.
LEMMA CopyTyped ==
    ASSUME IInv, uws.pc = "handle"
    PROVE  /\ uws.conn \in Connections /\ (uws.conn.admin => adminSeen)
           /\ uws.conn.connection_id \in Nat
           /\ uws.conn.user \in Users \cup {NoUser}
           /\ uws.conn.username \in Users \cup {NoUser}
           /\ uws.frame.client \in Nat
           /\ uws.frame.user \in Users \cup {NoUser}
           /\ uws.frame.body \in Bodies
  BY FramesTyped DEF IInv, UwsTyped, Granted, Connections

\* A character that a client plays is one that it was told of.
LEMMA OwnedNames ==
    ASSUME NEW c \in Connections, NEW n, NEW i \in Owned(c, n)
    PROVE  n \in Names
<1>1. i \in 1 .. Len(c.player_characters)
  BY LenProperties DEF Owned, Connections
<1>2. c.player_characters[i] \in Characters
  BY <1>1, ElementOfSeq DEF Connections
<1>3. QED
  BY <1>2 DEF Owned, Characters

LEMMA UwsKeeps ==
    ASSUME IInv, UwsStep
    PROVE  IInv'
<1> DEFINE Kept == TableTyped' /\ topic' \in [Topics -> Seq(Sound)]
<1>1. <<>> \in Bodies
  BY DEF Bodies
<1>2. CASE ClientLogin
  <2>1. uws.pc = "handle" /\ uws.frame.kind \in LoginKinds /\ HandlerReturns
    BY <1>2 DEF ClientLogin, Handling
  <2>2. Message(uws.frame.kind, uws.conn.connection_id, uws.frame.user, <<>>) \in Sound
    BY <1>1, <2>1, CopyTyped, RequestSound DEF RequestKinds
  <2>3. UNCHANGED adminSeen
    BY <2>1 DEF HandlerReturns, notUws
  <2>4. Kept
    BY <1>2, <2>2, <2>3, EnqueueKeeps, RejectKeeps DEF ClientLogin
  <2>5. QED
    BY <2>1, <2>4, HandlerKeeps
<1>3. CASE ClientChatSend
  <2>1. uws.pc = "handle" /\ HandlerReturns
    BY <1>3 DEF ClientChatSend, Handling
  <2>2. Message("chat_send", uws.conn.connection_id, uws.conn.username, uws.frame.body)
          \in Sound
    BY <2>1, CopyTyped, RequestSound DEF RequestKinds, Privileged
  <2>3. UNCHANGED adminSeen
    BY <2>1 DEF HandlerReturns, notUws
  <2>4. Kept
    BY <1>3, <2>2, <2>3, EnqueueKeeps, RejectKeeps DEF ClientChatSend
  <2>5. QED
    BY <2>1, <2>4, HandlerKeeps
<1>4. CASE ClientCreateCharacter
  <2>1. uws.pc = "handle" /\ HandlerReturns
    BY <1>4 DEF ClientCreateCharacter, Handling
  <2>2. Message("create_character", uws.conn.connection_id, uws.conn.user, uws.frame.body)
          \in Sound
    BY <2>1, CopyTyped, RequestSound DEF RequestKinds, Privileged
  <2>3. UNCHANGED adminSeen
    BY <2>1 DEF HandlerReturns, notUws
  <2>4. Kept
    BY <1>4, <2>2, <2>3, EnqueueKeeps, RejectKeeps DEF ClientCreateCharacter
  <2>5. QED
    BY <2>1, <2>4, HandlerKeeps
<1>5. CASE ClientGetCharacters
  <2>1. uws.pc = "handle" /\ HandlerReturns
    BY <1>5 DEF ClientGetCharacters, Handling
  <2>2. Message("get_characters", uws.conn.connection_id, uws.conn.user, <<>>) \in Sound
    BY <1>1, <2>1, CopyTyped, RequestSound DEF RequestKinds, Privileged
  <2>3. UNCHANGED adminSeen
    BY <2>1 DEF HandlerReturns, notUws
  <2>4. Kept
    BY <1>5, <2>2, <2>3, EnqueueKeeps, RejectKeeps DEF ClientGetCharacters
  <2>5. QED
    BY <2>1, <2>4, HandlerKeeps
<1>6. CASE ClientPlayCharacter
  <2>1. uws.pc = "handle" /\ HandlerReturns
    BY <1>6 DEF ClientPlayCharacter, Handling
  <2>2. UNCHANGED adminSeen
    BY <2>1 DEF HandlerReturns, notUws
  <2> DEFINE n == uws.frame.body[1]
             m == Message("play_character", uws.conn.connection_id, uws.conn.user, <<n>>)
  <2>3. ASSUME NEW i \in Owned(uws.conn, n)
        PROVE  m \in Sound
    <3>1. n \in Names
      BY <2>1, CopyTyped, OwnedNames
    <3>2. <<n>> \in Bodies
      BY <3>1 DEF Bodies
    <3> HIDE DEF n
    <3>3. QED
      BY <2>1, <3>2, CopyTyped, RequestSound DEF RequestKinds, Privileged
  <2>4. \/ Reject
        \/ \E i \in Owned(uws.conn, n) :
              Enqueue(uws.conn.player_characters[i].server, m, uws.conn)
    BY <1>6 DEF ClientPlayCharacter
  <2> HIDE DEF m, n
  <2>5. Kept
    BY <2>2, <2>3, <2>4, EnqueueKeeps, RejectKeeps
  <2>6. QED
    BY <2>1, <2>5, HandlerKeeps
<1>7. CASE ClientAdminQuit
  <2>1. uws.pc = "handle" /\ HandlerReturns
    BY <1>7 DEF ClientAdminQuit, Handling
  <2>2. UNCHANGED adminSeen
    BY <2>1 DEF HandlerReturns, notUws
  <2>3. CASE UNCHANGED <<open, slots, topic>>
    <3>1. Kept
      BY <2>2, <2>3 DEF IInv, TableTyped, Granted, TopicsSound
    <3>2. QED
      BY <2>1, <3>1, HandlerKeeps
  <2>4. CASE uws.conn.admin /\ Enqueue("broadcast",
                Message("quit", uws.frame.client, NoUser, <<>>), uws.conn)
    <3>1. Message("quit", uws.frame.client, NoUser, <<>>) \in Sound
      BY <2>1, <2>4, CopyTyped, QuitSound
    <3>2. Kept
      BY <2>2, <2>4, <3>1, EnqueueKeeps
    <3>3. QED
      BY <2>1, <3>2, HandlerKeeps
  <2>5. QED
    BY <1>7, <2>3, <2>4 DEF ClientAdminQuit
<1>8. CASE Malformed
  <2>1. HandlerReturns /\ UNCHANGED <<topic, adminSeen>> /\ Terminate(uws.ws)
    BY <1>8 DEF Malformed, HandlerReturns, notUws
  <2>2. Kept
    BY <2>1, TerminateKeeps DEF IInv, TopicsSound
  <2>3. QED
    BY <2>1, <2>2, HandlerKeeps
<1>9. CASE UwsStops
  BY <1>9 DEF UwsStops, notUws, IInv, TableTyped, UwsTyped, ConsTyped, TopicsSound,
              RestTyped, FlagsTyped, QuitNeedsAdmin, Sound, Granted
<1>10. QED
  BY <1>2, <1>3, <1>4, <1>5, <1>6, <1>7, <1>8, <1>9 DEF UwsStep

LEMMA ClientKeeps ==
    ASSUME IInv, ClientStep
    PROVE  IInv'
<1>1. PICK w \in Sockets :
          \/ Accept(w) \/ Refuse(w) \/ Disconnect(w) \/ OnMessageUnregistered(w)
          \/ \E f \in ClientFrames : OnMessage(w, f)
  BY DEF ClientStep
<1>2. UNCHANGED <<topic, notUws>>
  BY <1>1 DEF Accept, Refuse, Disconnect, OnMessageUnregistered, OnMessage
<1>3. Sound' = Sound /\ Granted' = Granted
  BY <1>2 DEF notUws, Sound, Granted
<1>4. ConsTyped' /\ TopicsSound' /\ FlagsTyped' /\ QuitNeedsAdmin'
  BY <1>2, <1>3 DEF IInv, notUws, ConsTyped, TopicsSound, FlagsTyped, QuitNeedsAdmin
<1>5. TableTyped'
  <2>1. CASE Accept(w)
    <3>1. PICK s \in Slots :
              slots' = [slots EXCEPT ![s] =
                           NewConnection(w, nextId, cons.pc = "dispatch" /\ cons.slot = s)]
      BY <2>1 DEF Accept
    <3>2. nextId \in Nat
      BY GatewayAssumption DEF IInv, RestTyped
    <3>3. \A h \in BOOLEAN : NewConnection(w, nextId, h) \in Granted
      <4>1. <<>> \in Seq(Characters)
        OBVIOUS
      <4>2. QED
        BY <3>2, <4>1 DEF NewConnection, Granted, Connections, States, Unanswered
    <3>4. NewConnection(w, nextId, cons.pc = "dispatch" /\ cons.slot = s) \in Granted
      BY <3>3
    <3>5. open' = open \cup {w}
      BY <2>1 DEF Accept
    <3>6. QED
      BY <1>3, <3>1, <3>4, <3>5 DEF IInv, TableTyped
  <2>2. CASE Terminate(w)
    BY <1>2, <2>2, TerminateKeeps DEF IInv, notUws
  <2>3. CASE UNCHANGED <<open, slots>>
    BY <1>3, <2>3 DEF IInv, TableTyped
  <2>4. QED
    BY <1>1, <2>1, <2>2, <2>3 DEF Refuse, Disconnect, OnMessageUnregistered, OnMessage
<1>6. UwsTyped'
  <2>1. CASE UNCHANGED uws
    BY <1>3, <2>1 DEF IInv, UwsTyped
  <2>2. ASSUME NEW f \in ClientFrames, OnMessage(w, f)
        PROVE  UwsTyped'
    <3>1. PICK s \in Registered(KeyOf[w]) :
              uws' = [pc |-> "handle", ws |-> w, frame |-> f, slot |-> s, conn |-> slots[s]]
      BY <2>2 DEF OnMessage
    <3>2. s \in Slots /\ slots[s] \in Granted
      BY DEF Registered, UsedSlots, Used, IInv, TableTyped
    <3>3. QED
      BY <1>3, <3>1, <3>2 DEF UwsTyped
  <2>3. QED
    BY <1>1, <2>1, <2>2 DEF Accept, Refuse, Disconnect, OnMessageUnregistered
<1>7. RestTyped'
  <2>1. nextId' \in 0 .. MaxIds /\ frames' \in 0 .. MaxFrames
    BY <1>1, GatewayAssumption
    DEF Accept, Refuse, Disconnect, OnMessageUnregistered, OnMessage, IInv, RestTyped
  <2>2. QED
    BY <1>2, <2>1 DEF IInv, RestTyped, notUws
<1>8. QED
  BY <1>4, <1>5, <1>6, <1>7 DEF IInv

-----------------------------------------------------------------------------
(* The consumer thread.                                                    *)

\* What a consumer step that writes no login response has to show.
LEMMA DispatchKeeps ==
    ASSUME IInv, UNCHANGED <<notCons, adminSeen>>,
           TableTyped', ConsTyped', TopicsSound', quit' \in {quit, signalled \/ adminSeen}
    PROVE  IInv'
<1>1. Granted' = Granted
  BY DEF Granted
<1>2. UwsTyped' /\ RestTyped'
  BY <1>1 DEF IInv, UwsTyped, RestTyped, notCons
<1>3. FlagsTyped' /\ QuitNeedsAdmin'
  BY DEF IInv, FlagsTyped, QuitNeedsAdmin, notCons
<1>4. QED
  BY <1>2, <1>3 DEF IInv

LEMMA TakeKeeps ==
    ASSUME IInv, NEW t \in Subscribed, Take(t), UNCHANGED adminSeen
    PROVE  TopicsSound' /\ Head(topic[t]) \in Sound
<1>1. t \in Topics /\ topic \in [Topics -> Seq(Sound)] /\ topic[t] # <<>>
  BY DEF Subscribed, Topics, Take, IInv, TopicsSound
<1>2. topic' \in [Topics -> Seq(Sound)] /\ Head(topic[t]) \in Sound
  BY <1>1, TailKeeps DEF Take
<1>3. [uncommitted EXCEPT ![t] = Append(@, Head(topic[t]))] \in [Subscribed -> Seq(Sound)]
  BY <1>2, AppendKeeps DEF IInv, TopicsSound
<1>4. uncommitted' \in [Subscribed -> Seq(Sound)]
  BY <1>3 DEF Take, IInv, TopicsSound
<1>5. Sound' = Sound
  BY DEF Sound
<1>6. QED
  BY <1>2, <1>4, <1>5 DEF TopicsSound

LEMMA ThroughKeeps ==
    ASSUME TableTyped, NEW s \in Slots, NEW new,
           slots[s] \in Granted => new \in Granted,
           slots' = Through(s, new), UNCHANGED <<open, adminSeen>>
    PROVE  TableTyped'
<1>1. Granted' = Granted
  BY DEF Granted
<1>2. Used(s) => slots[s] \in Granted
  BY DEF TableTyped, Used
<1>3. slots' \in [Slots -> Granted \cup {Free}]
  BY <1>2 DEF TableTyped, Through
<1>4. QED
  BY <1>1, <1>3 DEF TableTyped

\* A message is taken: nobody has its id, or a reference is kept.
LEMMA PollKeeps ==
    ASSUME IInv, NEW t \in Subscribed, Drop(t) \/ Lookup(t)
    PROVE  IInv'
<1>1. Take(t) /\ UNCHANGED <<open, slots, quit, notCons, adminSeen>>
  BY DEF Drop, Lookup
<1>2. Sound' = Sound /\ Granted' = Granted
  BY <1>1 DEF Sound, Granted
<1>3. TopicsSound' /\ Head(topic[t]) \in Sound
  BY <1>1, TakeKeeps
<1>4. TableTyped'
  BY <1>1, <1>2 DEF IInv, TableTyped
<1>5. ConsTyped'
  <2>1. CASE Drop(t)
    BY <2>1 DEF Drop, LoopTop, ConsTyped
  <2>2. CASE Lookup(t)
    <3>1. PICK s \in Matches(Head(topic[t])) :
              cons' = [pc |-> "dispatch", msg |-> Head(topic[t]), slot |-> s,
                       todo |-> IF Head(topic[t]).kind \in ResponseKinds
                                THEN ResponseFields ELSE {}]
      BY <2>2 DEF Lookup
    <3>2. s \in Slots
      BY DEF Matches, UsedSlots
    <3>3. QED
      BY <1>2, <1>3, <3>1, <3>2 DEF ConsTyped
  <2>3. QED
    BY <2>1, <2>2
<1>6. QED
  BY <1>1, <1>3, <1>4, <1>5, DispatchKeeps

\* What a response's handler makes of an entry.
LEMMA WrittenTyped ==
    ASSUME NEW c \in Connections, NEW m \in Messages, NEW f \in ResponseFields
    PROVE  LET new == Written(c, f, m)
           IN  /\ new \in Connections
               /\ new.ws = c.ws /\ new.connection_id = c.connection_id
               /\ new.admin => c.admin \/ m.user \in Admins
<1>1. m.client \in Nat /\ m.gen \in Nat /\ m.user \in Users \cup {NoUser}
  BY DEF Messages
<1>2. CASE f = "state"
  BY <1>1, <1>2 DEF Written, Connections, States
<1>3. CASE f = "admin"
  <2>1. \A h \in BOOLEAN : LET new == [c EXCEPT !.admin = h]
                          IN  /\ new \in Connections /\ new.admin = h
                              /\ new.ws = c.ws /\ new.connection_id = c.connection_id
    BY DEF Connections
  <2>2. Written(c, f, m) = [c EXCEPT !.admin = (m.user \in Admins)]
    BY <1>3 DEF Written
  <2>3. (m.user \in Admins) \in BOOLEAN
    OBVIOUS
  <2>4. QED
    BY <2>1, <2>2, <2>3
<1>4. CASE f = "user"
  BY <1>1, <1>4 DEF Written, Connections
<1>5. QED
  BY <1>2, <1>3, <1>4 DEF ResponseFields

LEMMA ListedTyped ==
    ASSUME NEW c \in Connections, NEW m \in Messages, m.body \in Seq(Names)
    PROVE  LET new == Listed(c, m)
           IN  /\ new \in Connections /\ new.admin = c.admin
               /\ new.ws = c.ws /\ new.connection_id = c.connection_id
<1> DEFINE new == [i \in DOMAIN m.body |-> [server |-> m.origin, name |-> m.body[i]]]
<1>1. m.origin \in Worlds \cup {Origin}
  BY DEF Messages
<1>2. \A i \in 1 .. Len(m.body) : m.body[i] \in Names
  BY ElementOfSeq
<1>3. DOMAIN m.body = 1 .. Len(m.body) /\ Len(m.body) \in Nat
  BY LenProperties
<1>4. new \in Seq(Characters)
  BY <1>1, <1>2, <1>3 DEF Characters
<1>5. Listed(c, m) = [c EXCEPT !.player_characters = @ \o new]
  BY DEF Listed
<1> HIDE DEF new
<1>6. c.player_characters \o new \in Seq(Characters)
  BY <1>4, ConcatProperties DEF Connections
<1>7. QED
  BY <1>5, <1>6 DEF Connections

\* The writes of a login response, of which one may make an administrator.
LEMMA WriteKeeps ==
    ASSUME IInv, NEW f \in ResponseFields, WriteResponse(f)
    PROVE  IInv'
<1> DEFINE c == slots[cons.slot]
           u == cons.msg.user
<1>1. /\ cons.pc = "dispatch" /\ cons.slot \in Slots
      /\ cons.msg \in Sound /\ cons.todo \subseteq ResponseFields
  BY DEF WriteResponse, Dispatching, IInv, ConsTyped
<1>2. UNCHANGED <<open, quit, topic, uncommitted, notCons>>
  BY DEF WriteResponse
<1>3. adminSeen' = (adminSeen \/ u \in Admins)
  BY DEF WriteResponse
<1>4. Sound \subseteq Sound' /\ Granted \subseteq Granted'
  BY <1>3 DEF Sound, Granted
<1>5. TopicsSound'
  <2>1. Seq(Sound) \subseteq Seq(Sound')
    BY <1>4, SeqMonotonic
  <2>2. QED
    BY <1>2, <2>1 DEF IInv, TopicsSound
<1>6. UwsTyped'
  BY <1>2, <1>4 DEF IInv, UwsTyped, notCons
<1>7. ConsTyped'
  <2>1. cons' = [cons EXCEPT !.todo = @ \ {f}]
    BY DEF WriteResponse
  <2>2. cons'.pc \in {"poll", "dispatch", "stopped"}
    BY <1>1, <2>1 DEF IInv, ConsTyped
  <2>3. cons'.slot = cons.slot /\ cons'.msg = cons.msg
    BY <2>1
  <2>4. cons'.todo \subseteq cons.todo
    BY <2>1
  <2>5. QED
    BY <1>1, <1>4, <2>2, <2>3, <2>4 DEF ConsTyped
<1>8. TableTyped'
  <2>1. ASSUME c \in Granted
        PROVE  Written(c, f, cons.msg) \in Granted'
    <3>1. c \in Connections /\ (c.admin => adminSeen) /\ cons.msg \in Messages
      BY <1>1, <2>1 DEF Granted, Sound
    <3>2. /\ Written(c, f, cons.msg) \in Connections
          /\ Written(c, f, cons.msg).admin => c.admin \/ u \in Admins
      BY <3>1, WrittenTyped
    <3>3. QED
      BY <1>3, <3>1, <3>2 DEF Granted
  <2>2. Used(cons.slot) => Written(c, f, cons.msg) \in Granted'
    BY <1>1, <2>1 DEF IInv, TableTyped, Used
  <2>3. slots' = Through(cons.slot, Written(c, f, cons.msg))
    BY DEF WriteResponse
  <2>4. slots' \in [Slots -> Granted' \cup {Free}]
    BY <1>4, <2>2, <2>3 DEF IInv, TableTyped, Through
  <2>5. QED
    BY <1>2, <2>4 DEF IInv, TableTyped
<1>9. RestTyped' /\ FlagsTyped' /\ QuitNeedsAdmin'
  BY <1>2, <1>3 DEF IInv, RestTyped, FlagsTyped, QuitNeedsAdmin, notCons
<1>10. QED
  BY <1>5, <1>6, <1>7, <1>8, <1>9 DEF IInv

\* The other handlers return to the top of the loop.
LEMMA HandledKeeps ==
    ASSUME IInv, NEW q \in {quit, signalled \/ adminSeen}, quit' = q, LoopTop(q),
           UNCHANGED <<topic, uncommitted, notCons, adminSeen>>, TableTyped'
    PROVE  IInv'
<1>1. ConsTyped'
  BY DEF LoopTop, ConsTyped
<1>2. TopicsSound'
  BY DEF IInv, TopicsSound, Sound
<1>3. QED
  BY <1>1, <1>2, DispatchKeeps

LEMMA ConsumerKeeps ==
    ASSUME IInv, ConsumerStep
    PROVE  IInv'
<1>1. CASE \E t \in Subscribed : Drop(t) \/ Lookup(t)
  BY <1>1, PollKeeps
<1>2. CASE \E f \in ResponseFields : WriteResponse(f)
  BY <1>2, WriteKeeps
<1>3. ASSUME UNCHANGED <<open, slots, adminSeen>>
      PROVE  TableTyped'
  BY <1>3 DEF IInv, TableTyped, Granted
<1>4. CASE PollNothing
  <2>1. TopicsSound'
    BY <1>4 DEF PollNothing, IInv, TopicsSound, Sound
  <2>2. ConsTyped'
    BY <1>4 DEF PollNothing, ConsTyped
  <2>3. UNCHANGED <<open, slots, quit, notCons, adminSeen>>
    BY <1>4 DEF PollNothing
  <2>4. QED
    BY <1>3, <2>1, <2>2, <2>3, DispatchKeeps
<1>5. CASE SendResponse \/ GatewaySendMap \/ GatewayChatSend
  BY <1>3, <1>5, HandledKeeps DEF SendResponse, GatewaySendMap, GatewayChatSend
<1>6. CASE GatewayErrorResponse
  <2>1. LoopTop(quit) /\ UNCHANGED <<quit, topic, uncommitted, notCons, adminSeen>>
    BY <1>6 DEF GatewayErrorResponse
  <2>2. TableTyped'
    BY <1>3, <1>6, <2>1, TerminateKeeps DEF GatewayErrorResponse, IInv
  <2>3. QED
    BY <2>1, <2>2, HandledKeeps
<1>7. CASE GatewayGetCharactersResponse
  <2>1. cons.slot \in Slots /\ cons.msg \in Messages /\ cons.msg.body \in Seq(Names)
    BY <1>7 DEF GatewayGetCharactersResponse, Dispatching, IInv, ConsTyped, Sound
  <2>2. slots[cons.slot] \in Granted => Listed(slots[cons.slot], cons.msg) \in Granted
    BY <2>1, ListedTyped DEF Granted
  <2>3. /\ slots' = Through(cons.slot, Listed(slots[cons.slot], cons.msg))
        /\ LoopTop(quit) /\ UNCHANGED <<open, quit, topic, uncommitted, notCons, adminSeen>>
    BY <1>7 DEF GatewayGetCharactersResponse
  <2>4. TableTyped'
    BY <2>1, <2>2, <2>3, ThroughKeeps DEF IInv
  <2>5. QED
    BY <2>3, <2>4, HandledKeeps
<1>8. CASE GatewayQuit
  <2>1. adminSeen
    BY <1>8 DEF GatewayQuit, Dispatching, IInv, ConsTyped, Sound
  <2>2. /\ quit' = TRUE /\ LoopTop(TRUE)
        /\ UNCHANGED <<open, slots, topic, uncommitted, notCons, adminSeen>>
    BY <1>8 DEF GatewayQuit
  <2>3. TRUE \in {quit, signalled \/ adminSeen}
    BY <2>1
  <2>4. QED
    BY <1>3, <2>2, <2>3, HandledKeeps
<1>9. QED
  BY <1>1, <1>2, <1>4, <1>5, <1>6, <1>7, <1>8 DEF ConsumerStep

-----------------------------------------------------------------------------
(* The main thread, signals, crashes and the services.                     *)

\* Steps that touch neither the messages nor the connections.
LEMMA AsideKeeps ==
    ASSUME IInv, MainStep \/ CommitOffsets \/ Sigint
    PROVE  IInv'
<1>1. UNCHANGED <<open, slots, uws, cons, topic, adminSeen>>
  BY DEF MainStep, MainLoopEnds, MainProducerClosed, MainConsumerClosed, MainWaited,
         MainReturns, MainMoves, notMain, CommitOffsets, notCons, Sigint
<1>2. Sound' = Sound /\ Granted' = Granted
  BY <1>1 DEF Sound, Granted
<1>3. TableTyped' /\ UwsTyped' /\ ConsTyped'
  BY <1>1, <1>2 DEF IInv, TableTyped, UwsTyped, ConsTyped
<1>4. TopicsSound'
  <2>1. <<>> \in Seq(Sound)
    OBVIOUS
  <2>2. uncommitted' \in {uncommitted, NothingUncommitted}
    BY DEF MainStep, MainLoopEnds, MainProducerClosed, MainConsumerClosed, MainWaited,
           MainReturns, MainMoves, notMain, CommitOffsets, Sigint
  <2>3. QED
    BY <1>1, <1>2, <2>1, <2>2 DEF IInv, TopicsSound, NothingUncommitted
<1>5. RestTyped'
  BY DEF IInv, RestTyped, MainStep, MainLoopEnds, MainProducerClosed, MainConsumerClosed,
         MainWaited, MainReturns, MainMoves, notMain, CommitOffsets, notCons, Sigint
<1>6. UNCHANGED <<quit, signalled>> \/ (quit' = TRUE /\ signalled' = TRUE)
  BY DEF MainStep, MainLoopEnds, MainProducerClosed, MainConsumerClosed, MainWaited,
         MainReturns, MainMoves, CommitOffsets, notCons, Sigint
<1>7. FlagsTyped' /\ QuitNeedsAdmin'
  <2>1. adminSeen' = adminSeen /\ FlagsTyped /\ QuitNeedsAdmin
    BY <1>1 DEF IInv
  <2>2. CASE UNCHANGED <<quit, signalled>>
    BY <2>1, <2>2 DEF FlagsTyped, QuitNeedsAdmin
  <2>3. CASE quit' = TRUE /\ signalled' = TRUE
    BY <2>1, <2>3 DEF FlagsTyped, QuitNeedsAdmin
  <2>4. QED
    BY <1>6, <2>2, <2>3
<1>8. QED
  BY <1>3, <1>4, <1>5, <1>7 DEF IInv

LEMMA RestartKeeps ==
    ASSUME IInv, Restart
    PROVE  IInv'
<1>1. Sound' = Sound
  BY DEF Restart, Sound
<1>2. TopicsSound'
  <2>1. <<>> \in Seq(Sound)
    OBVIOUS
  <2>2. \A t \in Subscribed : uncommitted[t] \o topic[t] \in Seq(Sound)
    BY ConcatProperties DEF IInv, TopicsSound, Subscribed, Topics
  <2>3. QED
    BY <1>1, <2>1, <2>2 DEF Restart, IInv, TopicsSound, NothingUncommitted
<1>3. TableTyped' /\ UwsTyped' /\ ConsTyped'
  BY DEF Restart, TableTyped, UwsTyped, ConsTyped
<1>4. RestTyped'
  BY GatewayAssumption DEF Restart, IInv, RestTyped
<1>5. FlagsTyped' /\ QuitNeedsAdmin'
  BY DEF Restart, IInv, FlagsTyped, QuitNeedsAdmin
<1>6. QED
  BY <1>2, <1>3, <1>4, <1>5 DEF IInv

LEMMA ServedKeeps ==
    ASSUME IInv, NEW t, NEW k, Served(t, k), topic' \in [Topics -> Seq(Sound)]
    PROVE  IInv'
<1>1. Sound' = Sound /\ Granted' = Granted
  BY DEF Served, Sound, Granted
<1>2. QED
  BY <1>1 DEF Served, IInv, TableTyped, UwsTyped, ConsTyped, TopicsSound, RestTyped,
              FlagsTyped, QuitNeedsAdmin

LEMMA IgnoreKeeps ==
    ASSUME IInv, NEW t \in Topics, NEW k, Ignore(t, k)
    PROVE  IInv'
<1>1. topic' \in [Topics -> Seq(Sound)]
  BY TailKeeps DEF Ignore, Consumed, Served, IInv, TopicsSound
<1>2. QED
  BY <1>1, ServedKeeps DEF Ignore

LEMMA ReplyKeeps ==
    ASSUME IInv, NEW t \in Topics, NEW k,
           NEW kind \in ResponseKinds
                        \cup {"error_response", "get_characters_response", "send_map"},
           NEW server \in Worlds \cup {Origin},
           NEW body \in Bodies, kind = "get_characters_response" => body \in Seq(Names),
           Reply(t, k, kind, server, body)
    PROVE  IInv'
<1> DEFINE m == [Head(topic[t]) EXCEPT !.kind = kind, !.origin = server, !.body = body]
<1>1. Consumed(t) \in [Topics -> Seq(Sound)] /\ Head(topic[t]) \in Sound
  BY TailKeeps DEF Reply, Consumed, Served, IInv, TopicsSound
<1>2. m \in Sound
  BY <1>1 DEF Sound, Messages, MessageKinds, ResponseKinds
<1>3. topic' = [Consumed(t) EXCEPT !["gateway"] = Append(@, m)]
  BY DEF Reply
<1> HIDE DEF m
<1>4. topic' \in [Topics -> Seq(Sound)]
  BY <1>1, <1>2, <1>3, AppendKeeps
<1>5. QED
  BY <1>4, ServedKeeps DEF Reply

LEMMA ServiceKeeps ==
    ASSUME IInv, ServiceStep
    PROVE  IInv'
<1>1. /\ <<>> \in Bodies /\ <<"failed">> \in Bodies /\ <<"banned">> \in Bodies
      /\ \A n \in Names : <<n>> \in Bodies /\ <<n>> \in Seq(Names)
  BY DEF Bodies
<1>2. /\ "backend_messages" \in Topics /\ "world_messages" \in Topics
      /\ Worlds \subseteq Topics
  BY DEF Topics
<1>3. CASE BackendLogin \/ BackendRegister
  BY <1>1, <1>2, <1>3, ReplyKeeps DEF BackendLogin, BackendRegister, Failed, Banned, ResponseKinds
<1>4. CASE BackendCreateCharacter
  BY <1>1, <1>2, <1>4, ReplyKeeps, IgnoreKeeps DEF BackendCreateCharacter, Failed
<1>5. CASE WorldGetCharacters
  BY <1>1, <1>2, <1>5, ReplyKeeps, IgnoreKeeps DEF WorldGetCharacters
<1>6. CASE \E s \in Worlds : WorldPlayCharacter(s)
  BY <1>1, <1>2, <1>6, ReplyKeeps, IgnoreKeeps DEF WorldPlayCharacter, Failed
<1>7. QED
  BY <1>3, <1>4, <1>5, <1>6 DEF ServiceStep

-----------------------------------------------------------------------------
LEMMA InductiveInvariant == Spec => []IInv
<1>1. IInv /\ UNCHANGED vars => IInv'
  BY DEF vars, IInv, TableTyped, UwsTyped, ConsTyped, TopicsSound, RestTyped, FlagsTyped,
         QuitNeedsAdmin, Sound, Granted
<1>2. IInv /\ [Next]_vars => IInv'
  BY <1>1, ClientKeeps, UwsKeeps, ConsumerKeeps, AsideKeeps, RestartKeeps, ServiceKeeps
  DEF Next
<1>3. QED
  BY <1>2, InitIInv, PTL DEF Spec

(* Every variable of the gateway keeps its type.                            *)
THEOREM GatewayTypes == Spec => []TypeOK
<1>1. IInv => TypeOK
  <2> SUFFICES ASSUME IInv PROVE TypeOK
    OBVIOUS
  <2>1. topic \in [Topics -> Seq(Messages)] /\ uncommitted \in [Subscribed -> Seq(Messages)]
    BY SoundMessages DEF IInv, TopicsSound
  <2>2. {quit, signalled, adminSeen} \subseteq BOOLEAN
    BY DEF IInv, FlagsTyped
  <2>3. QED
    BY <2>1, <2>2
    DEF IInv, TableTyped, UwsTyped, ConsTyped, RestTyped, TypeOK, Granted, Sound
<1>2. QED
  BY <1>1, InductiveInvariant, PTL

(* Nobody but the operator, or an administrator who logged in, stops the    *)
(* gateway.                                                                *)
THEOREM QuitIsAuthorized == Spec => []QuitNeedsAdmin
  BY InductiveInvariant, PTL DEF IInv

-----------------------------------------------------------------------------
(* The table and the sockets.                                              *)

MInv == IInv /\ TableMirrorsSockets

\* Closing a socket erases all entries of its key, and so any entry of its own.
LEMMA TerminateMirrors ==
    ASSUME MInv, NEW w \in Sockets, Terminate(w), UNCHANGED nextId
    PROVE  TableMirrorsSockets'
<1>1. \A s \in Slots : s \in UsedSlots' => /\ s \in UsedSlots /\ slots'[s] = slots[s]
                                           /\ KeyOf[slots[s].ws] # KeyOf[w]
  BY DEF Terminate, Erased, Registered, UsedSlots, Used
<1>2. \A s \in UsedSlots : KeyOf[slots[s].ws] # KeyOf[w] => s \in UsedSlots' /\ slots'[s] = slots[s]
  BY DEF Terminate, Erased, Registered, UsedSlots, Used
<1>3. open' = open \ {w}
  BY DEF Terminate
<1>4. \A s \in UsedSlots' :
          /\ slots'[s].ws \in open'
          /\ slots'[s].connection_id < nextId'
          /\ \A t \in UsedSlots' \ {s} :
                /\ slots'[s].connection_id # slots'[t].connection_id
                /\ KeyOf[slots'[s].ws] # KeyOf[slots'[t].ws]
  BY <1>1, <1>3 DEF MInv, TableMirrorsSockets, UsedSlots
<1>5. ASSUME NEW v \in open', \A u \in Sockets \ {v} : KeyOf[u] # KeyOf[v]
      PROVE  \E s \in UsedSlots' : slots'[s].ws = v
  <2>1. v \in open /\ v # w /\ KeyOf[w] # KeyOf[v]
    BY <1>3, <1>5
  <2>2. PICK s \in UsedSlots : slots[s].ws = v
    BY <1>5, <2>1 DEF MInv, TableMirrorsSockets
  <2>3. QED
    BY <1>2, <2>1, <2>2
<1>6. QED
  BY <1>4, <1>5 DEF TableMirrorsSockets

\* A handler writes to an entry, or to none, but not which socket and id it has.
LEMMA ThroughMirrors ==
    ASSUME MInv, NEW s \in Slots, NEW new,
           slots[s] \in Granted => /\ new \in Connections /\ new.ws = slots[s].ws
                                   /\ new.connection_id = slots[s].connection_id,
           slots' = Through(s, new), UNCHANGED <<open, nextId>>
    PROVE  TableMirrorsSockets'
<1>1. Used(s) => /\ new # Free /\ new.ws = slots[s].ws
                 /\ new.connection_id = slots[s].connection_id
  BY FreeAssumption DEF MInv, IInv, TableTyped, Used
<1>2. \A t \in Slots : /\ t \in UsedSlots' <=> t \in UsedSlots
                       /\ t \in UsedSlots => /\ slots'[t].ws = slots[t].ws
                                             /\ slots'[t].connection_id = slots[t].connection_id
  BY <1>1 DEF Through, UsedSlots, Used, MInv, IInv, TableTyped
<1>3. UsedSlots' = UsedSlots
  BY <1>2 DEF UsedSlots
<1>4. QED
  BY <1>2, <1>3 DEF MInv, TableMirrorsSockets, UsedSlots

LEMMA SameMirrors ==
    ASSUME MInv, UNCHANGED <<open, slots, nextId>>
    PROVE  TableMirrorsSockets'
  BY DEF MInv, TableMirrorsSockets, UsedSlots, Used

LEMMA AcceptMirrors ==
    ASSUME MInv, NEW w \in Sockets, Accept(w)
    PROVE  TableMirrorsSockets'
<1>1. PICK s \in Slots \ UsedSlots :
          slots' = [slots EXCEPT ![s] =
                       NewConnection(w, nextId, cons.pc = "dispatch" /\ cons.slot = s)]
  BY DEF Accept
<1> DEFINE c == NewConnection(w, nextId, cons.pc = "dispatch" /\ cons.slot = s)
<1>2. c.ws = w /\ c.connection_id = nextId /\ nextId \in Nat
  BY GatewayAssumption DEF NewConnection, MInv, IInv, RestTyped
<1>3. c # Free
  <2>1. <<>> \in Seq(Characters)
    OBVIOUS
  <2>2. \A h \in BOOLEAN : NewConnection(w, nextId, h) \in Connections
    BY <1>2, <2>1 DEF NewConnection, Connections, States, Unanswered
  <2>3. c \in Connections
    BY <2>2
  <2>4. QED
    BY <2>3, FreeAssumption
<1>4. slots'[s] = c /\ \A t \in Slots \ {s} : slots'[t] = slots[t]
  BY <1>1 DEF MInv, IInv, TableTyped
<1> HIDE DEF c
<1>5. UsedSlots' = UsedSlots \cup {s}
  BY <1>1, <1>3, <1>4 DEF UsedSlots, Used
<1>6. \A t \in UsedSlots : t # s /\ slots'[t] = slots[t] /\ KeyOf[slots[t].ws] # KeyOf[w]
  BY <1>1, <1>4 DEF Accept, Registered, UsedSlots
<1>7. open' = open \cup {w} /\ nextId' = nextId + 1
  BY DEF Accept
<1>8. \A t \in UsedSlots : slots[t].connection_id \in Nat
                           /\ slots[t].connection_id < nextId /\ slots[t].ws \in open
  BY DEF MInv, TableMirrorsSockets, IInv, TableTyped, UsedSlots, Used, Granted, Connections
<1>9. \A t \in UsedSlots' :
          /\ slots'[t].ws \in open'
          /\ slots'[t].connection_id < nextId'
  BY <1>2, <1>4, <1>5, <1>6, <1>7, <1>8
<1>10. ASSUME NEW t \in UsedSlots', NEW u \in UsedSlots' \ {t}
       PROVE  /\ slots'[t].connection_id # slots'[u].connection_id
              /\ KeyOf[slots'[t].ws] # KeyOf[slots'[u].ws]
  <2>1. CASE t = s
    BY <1>2, <1>4, <1>5, <1>6, <1>8, <2>1
  <2>2. CASE u = s
    BY <1>2, <1>4, <1>5, <1>6, <1>8, <2>2
  <2>3. CASE t # s /\ u # s
    BY <1>5, <1>6, <2>3 DEF MInv, TableMirrorsSockets
  <2>4. QED
    BY <2>1, <2>2, <2>3
<1>11. ASSUME NEW v \in open', \A x \in Sockets \ {v} : KeyOf[x] # KeyOf[v]
       PROVE  \E t \in UsedSlots' : slots'[t].ws = v
  <2>1. CASE v = w
    BY <1>2, <1>4, <1>5, <2>1
  <2>2. CASE v \in open
    BY <1>5, <1>6, <1>11, <2>2 DEF MInv, TableMirrorsSockets
  <2>3. QED
    BY <1>7, <2>1, <2>2
<1>12. QED
  BY <1>9, <1>10, <1>11 DEF TableMirrorsSockets

LEMMA StepMirrors ==
    ASSUME MInv, Next
    PROVE  TableMirrorsSockets'
<1>1. CASE ClientStep
  <2>1. PICK w \in Sockets :
            \/ Accept(w) \/ Refuse(w) \/ Disconnect(w) \/ OnMessageUnregistered(w)
            \/ \E f \in ClientFrames : OnMessage(w, f)
    BY <1>1 DEF ClientStep
  <2>2. CASE Accept(w)
    BY <2>2, AcceptMirrors
  <2>3. CASE Refuse(w) \/ Disconnect(w) \/ OnMessageUnregistered(w)
    BY <2>3, TerminateMirrors DEF Refuse, Disconnect, OnMessageUnregistered
  <2>4. CASE \E f \in ClientFrames : OnMessage(w, f)
    BY <2>4, SameMirrors DEF OnMessage
  <2>5. QED
    BY <2>1, <2>2, <2>3, <2>4
<1>2. CASE UwsStep
  <2>1. UNCHANGED nextId
    BY <1>2 DEF UwsStep, ClientLogin, ClientChatSend, ClientCreateCharacter,
                ClientGetCharacters, ClientPlayCharacter, ClientAdminQuit, Malformed,
                UwsStops, HandlerReturns
  <2>2. \/ UNCHANGED <<open, slots>>
        \/ uws.pc = "handle" /\ Terminate(uws.ws)
    BY <1>2 DEF UwsStep, ClientLogin, ClientChatSend, ClientCreateCharacter,
                ClientGetCharacters, ClientPlayCharacter, ClientAdminQuit, Malformed,
                UwsStops, Handling, Reject, Enqueue, TableAfterHandler
  <2>3. QED
    BY <2>1, <2>2, SameMirrors, TerminateMirrors DEF MInv, IInv, UwsTyped
<1>3. CASE ConsumerStep
  <2>1. UNCHANGED nextId
    BY <1>3 DEF ConsumerStep, Drop, Lookup, WriteResponse, PollNothing, SendResponse,
                GatewayErrorResponse, GatewayGetCharactersResponse, GatewaySendMap,
                GatewayChatSend, GatewayQuit, notCons
  <2>2. ASSUME NEW f \in ResponseFields, WriteResponse(f)
        PROVE  TableMirrorsSockets'
    <3>1. cons.slot \in Slots /\ cons.msg \in Messages /\ UNCHANGED open
      BY <2>2 DEF WriteResponse, Dispatching, MInv, IInv, ConsTyped, Sound
    <3>2. slots' = Through(cons.slot, Written(slots[cons.slot], f, cons.msg))
      BY <2>2 DEF WriteResponse
    <3>3. QED
      BY <2>1, <3>1, <3>2, WrittenTyped, ThroughMirrors DEF Granted
  <2>3. CASE GatewayGetCharactersResponse
    <3>1. /\ cons.slot \in Slots /\ cons.msg \in Messages
          /\ cons.msg.body \in Seq(Names) /\ UNCHANGED open
      BY <2>3 DEF GatewayGetCharactersResponse, Dispatching, MInv, IInv, ConsTyped, Sound
    <3>2. slots' = Through(cons.slot, Listed(slots[cons.slot], cons.msg))
      BY <2>3 DEF GatewayGetCharactersResponse
    <3>3. QED
      BY <2>1, <3>1, <3>2, ListedTyped, ThroughMirrors DEF Granted
  <2>4. CASE GatewayErrorResponse
    <3>1. \/ UNCHANGED <<open, slots>>
          \/ Used(cons.slot) /\ Terminate(slots[cons.slot].ws)
      BY <2>4 DEF GatewayErrorResponse
    <3>2. Used(cons.slot) => slots[cons.slot].ws \in Sockets
      BY <2>4 DEF GatewayErrorResponse, Dispatching, Used, MInv, IInv, ConsTyped,
                  TableTyped, Granted, Connections
    <3>3. QED
      BY <2>1, <3>1, <3>2, SameMirrors, TerminateMirrors
  <2>5. CASE \/ \E t \in Subscribed : Drop(t) \/ Lookup(t)
             \/ PollNothing \/ SendResponse \/ GatewaySendMap \/ GatewayChatSend
             \/ GatewayQuit
    BY <2>1, <2>5, SameMirrors
    DEF Drop, Lookup, PollNothing, SendResponse, GatewaySendMap, GatewayChatSend, GatewayQuit
  <2>6. QED
    BY <1>3, <2>2, <2>3, <2>4, <2>5 DEF ConsumerStep
<1>4. CASE MainStep \/ CommitOffsets \/ Sigint
  BY <1>4, SameMirrors
  DEF MainStep, MainLoopEnds, MainProducerClosed, MainConsumerClosed, MainWaited,
      MainReturns, MainMoves, notMain, CommitOffsets, notCons, Sigint
<1>5. CASE Restart
  BY <1>5 DEF Restart, TableMirrorsSockets, UsedSlots, Used
<1>6. CASE ServiceStep
  <2>1. PICK t, k : Served(t, k)
    BY <1>6 DEF ServiceStep, BackendLogin, BackendRegister, BackendCreateCharacter,
                WorldGetCharacters, WorldPlayCharacter, Failed, Banned, Reply, Ignore
  <2>2. QED
    BY <2>1, SameMirrors DEF Served
<1>7. QED
  BY <1>1, <1>2, <1>3, <1>4, <1>5, <1>6 DEF Next

(* The table's entries are those of open sockets, with different keys and   *)
(* ids, and no open socket with a key of its own is without one.           *)
THEOREM TableIsMirror == Spec => []TableMirrorsSockets
<1>1. Init => TableMirrorsSockets
  BY DEF Init, TableMirrorsSockets, UsedSlots, Used
<1>2. IInv /\ TableMirrorsSockets /\ [Next]_vars => TableMirrorsSockets'
  BY StepMirrors, SameMirrors DEF MInv, vars
<1>3. QED
  BY <1>1, <1>2, InductiveInvariant, PTL DEF Spec

-----------------------------------------------------------------------------
(* Sessions: who a connection is logged in as, what it is sent, and what   *)
(* the table promises.                                                     *)

\* Whoever has the id, if anybody has it, is logged in.
Entitled(i) ==
    i < nextId /\ \A s \in UsedSlots : slots[s].connection_id = i => LoggedIn(slots[s])

(* A message that is on its way: of this run or an earlier one, with a user *)
(* if it is about a login, and from somebody entitled if that is asked for.*)
Current ==
    {m \in Sound :
        /\ m.gen <= gen
        /\ m.kind \in LoginKinds \cup ResponseKinds => m.user \in Users
        /\ m.kind \in Privileged /\ m.gen = gen => Entitled(m.client)}

TopicsCurrent ==
    topic \in [Topics -> Seq(Current)] /\ uncommitted \in [Subscribed -> Seq(Current)]

CopyCurrent ==
    uws.pc = "handle" =>
        /\ uws.conn.connection_id < nextId
        /\ LoggedIn(uws.conn) => Entitled(uws.conn.connection_id)

\* The consumer has a login response as long as it has fields to write.
MessageCurrent ==
    cons.pc = "dispatch" =>
        /\ cons \in [pc : {"dispatch"}, msg : Current, slot : Slots, todo : SUBSET ResponseFields]
        /\ cons.todo # {} => cons.msg.kind \in ResponseKinds

(* What is in the slot the consumer refers to is what it looked up, with    *)
(* the user id unless that is still to be written, or came in since.       *)
ReferenceRight ==
    (cons.pc = "dispatch" /\ Used(cons.slot)) =>
        \/ slots[cons.slot].held
        \/ /\ slots[cons.slot].connection_id = cons.msg.client
           /\ (cons.msg.kind \in ResponseKinds /\ "user" \notin cons.todo)
                 => slots[cons.slot].user # NoUser

TableRight == ReferenceRight /\ LoggedInByOwnReply /\ HalfLoggedInOnlyWhileWriting

Right ==
    /\ TopicsCurrent /\ CopyCurrent /\ MessageCurrent /\ TableRight
    /\ FramesReachTheAsker

-----------------------------------------------------------------------------
(* What a step may do to the table.                                        *)

\* Entries are erased, if anything.
Erasing == \A s \in Slots : slots'[s] \in {slots[s], Free}

LEMMA EntriesTyped ==
    ASSUME IInv, NEW s \in UsedSlots
    PROVE  /\ s \in Slots /\ slots[s] \in Connections /\ slots[s].connection_id \in Nat
           /\ slots[s].held \in BOOLEAN
  BY DEF IInv, TableTyped, UsedSlots, Used, Granted, Connections

LEMMA EraseEntitles ==
    ASSUME Erasing, UNCHANGED nextId
    PROVE  \A i \in Nat : Entitled(i) => Entitled(i)'
  BY DEF Erasing, Entitled, UsedSlots, Used, LoggedIn

LEMMA EraseKeepsLogins ==
    ASSUME IInv, TableRight, Erasing, UNCHANGED gen,
           \/ UNCHANGED cons
           \/ cons'.pc # "dispatch" /\ (cons.pc = "dispatch" => "user" \notin cons.todo)
    PROVE  TableRight'
<1>1. LoggedInByOwnReply'
  BY DEF TableRight, LoggedInByOwnReply, Erasing, UsedSlots, Used, LoggedIn
<1>2. \A s \in UsedSlots' : s \in UsedSlots /\ slots'[s] = slots[s]
  BY DEF Erasing, UsedSlots, Used
<1>3. HalfLoggedInOnlyWhileWriting'
  BY <1>2 DEF TableRight, HalfLoggedInOnlyWhileWriting, LoggedIn
<1>4. ReferenceRight'
  <2>1. CASE UNCHANGED cons
    <3> SUFFICES ASSUME cons.pc = "dispatch", slots'[cons.slot] # Free
                 PROVE  ReferenceRight'
      BY <2>1 DEF ReferenceRight, Used
    <3>1. cons.slot \in Slots
      BY DEF IInv, ConsTyped
    <3>2. QED
      BY <2>1, <3>1 DEF TableRight, ReferenceRight, Erasing, Used
  <2>2. CASE cons'.pc # "dispatch"
    BY <2>2 DEF ReferenceRight
  <2>3. QED
    BY <2>1, <2>2
<1>5. QED
  BY <1>1, <1>3, <1>4 DEF TableRight

\* A new entry has an id of its own, and nobody is logged in by it.
LEMMA AcceptRight ==
    ASSUME IInv, TableRight, NEW w \in Sockets, Accept(w)
    PROVE  TableRight' /\ \A i \in Nat : Entitled(i) => Entitled(i)'
<1>1. PICK s \in Slots \ UsedSlots :
          slots' = [slots EXCEPT ![s] =
                       NewConnection(w, nextId, cons.pc = "dispatch" /\ cons.slot = s)]
  BY DEF Accept
<1> DEFINE c == NewConnection(w, nextId, cons.pc = "dispatch" /\ cons.slot = s)
<1>2. /\ c.connection_id = nextId /\ ~LoggedIn(c) /\ nextId \in Nat
      /\ (cons.pc = "dispatch" /\ cons.slot = s) => c.held
  <2>1. ASSUME NEW h
        PROVE  LET e == NewConnection(w, nextId, h)
               IN  e.connection_id = nextId /\ e.state = "UNKNOWN" /\ e.held = h
    BY DEF NewConnection
  <2>2. c.connection_id = nextId /\ c.state = "UNKNOWN"
        /\ c.held = (cons.pc = "dispatch" /\ cons.slot = s)
    BY <2>1, Zenon
  <2>3. nextId \in Nat
    BY GatewayAssumption DEF IInv, RestTyped
  <2> HIDE DEF c
  <2>4. QED
    BY <2>2, <2>3, Zenon DEF LoggedIn
<1>3. slots'[s] = c /\ \A t \in Slots \ {s} : slots'[t] = slots[t]
  BY <1>1 DEF IInv, TableTyped
<1> HIDE DEF c
<1>4. nextId' = nextId + 1 /\ UNCHANGED <<gen, cons>>
  BY DEF Accept, notUws
<1>5. \A t \in UsedSlots' : t = s \/ (t \in UsedSlots /\ slots'[t] = slots[t])
  BY <1>3 DEF UsedSlots, Used
<1>6. LoggedInByOwnReply'
  BY <1>2, <1>3, <1>4, <1>5 DEF TableRight, LoggedInByOwnReply, LoggedIn
<1>7. HalfLoggedInOnlyWhileWriting'
  BY <1>2, <1>3, <1>4, <1>5 DEF TableRight, HalfLoggedInOnlyWhileWriting, LoggedIn
<1>8. ReferenceRight'
  <2> SUFFICES ASSUME cons.pc = "dispatch", slots'[cons.slot] # Free
               PROVE  ReferenceRight'
    BY <1>4 DEF ReferenceRight, Used
  <2>1. cons.slot \in Slots
    BY DEF IInv, ConsTyped
  <2>2. CASE cons.slot = s
    BY <1>2, <1>3, <1>4, <2>2 DEF ReferenceRight
  <2>3. CASE cons.slot # s
    BY <1>3, <1>4, <2>1, <2>3 DEF TableRight, ReferenceRight, Used
  <2>4. QED
    BY <2>2, <2>3
<1>9. ASSUME NEW i \in Nat, Entitled(i)
      PROVE  Entitled(i)'
  <2>1. i < nextId
    BY <1>9 DEF Entitled
  <2>2. i < nextId' /\ i # nextId
    BY <1>2, <1>4, <2>1
  <2>3. QED
    BY <1>2, <1>3, <1>5, <1>9, <2>2 DEF Entitled, LoggedIn
<1>10. QED
  BY <1>6, <1>7, <1>8, <1>9 DEF TableRight

-----------------------------------------------------------------------------
(* What stays of the rest.                                                 *)

LEMMA CurrentLasts ==
    ASSUME IInv, adminSeen => adminSeen',
           \/ UNCHANGED gen /\ \A i \in Nat : Entitled(i) => Entitled(i)'
           \/ gen' = gen + 1
    PROVE  Current \subseteq Current'
<1>1. gen \in Nat
  BY GatewayAssumption DEF IInv, RestTyped
<1>2. Sound \subseteq Sound'
  BY DEF Sound
<1>3. \A m \in Sound : m.gen \in Nat /\ m.client \in Nat
  BY DEF Sound, Messages
<1>4. CASE UNCHANGED gen /\ \A i \in Nat : Entitled(i) => Entitled(i)'
  BY <1>2, <1>3, <1>4 DEF Current
<1>5. CASE gen' = gen + 1
  <2>1. \A m \in Sound : m.gen <= gen => m.gen <= gen' /\ m.gen # gen'
    BY <1>1, <1>3, <1>5
  <2>2. QED
    BY <1>2, <2>1 DEF Current
<1>6. QED
  BY <1>4, <1>5

LEMMA TopicsStay ==
    ASSUME Current \subseteq Current', topic' \in [Topics -> Seq(Current)],
           uncommitted' \in [Subscribed -> Seq(Current)]
    PROVE  TopicsCurrent'
<1>1. Seq(Current) \subseteq Seq(Current')
  BY SeqMonotonic
<1>2. QED
  BY <1>1 DEF TopicsCurrent

LEMMA CopyStays ==
    ASSUME IInv, CopyCurrent, nextId' \in {nextId, nextId + 1},
           \A i \in Nat : Entitled(i) => Entitled(i)',
           UNCHANGED uws \/ uws'.pc # "handle"
    PROVE  CopyCurrent'
<1>1. uws.pc = "handle" => uws.conn.connection_id \in Nat
  BY CopyTyped
<1>2. nextId \in Nat
  BY GatewayAssumption DEF IInv, RestTyped
<1>3. QED
  BY <1>1, <1>2 DEF CopyCurrent, LoggedIn

LEMMA MessageStays ==
    ASSUME MessageCurrent, Current \subseteq Current', UNCHANGED cons \/ cons'.pc # "dispatch"
    PROVE  MessageCurrent'
  BY DEF MessageCurrent

LEMMA QuietFrames == out' = {} => FramesReachTheAsker'
  BY DEF FramesReachTheAsker

-----------------------------------------------------------------------------
(* The uws thread.                                                         *)

LEMMA RequestCurrent ==
    ASSUME IInv, NEW k \in RequestKinds, NEW i \in Nat, NEW u \in Users \cup {NoUser},
           NEW b \in Bodies, k \in LoginKinds => u \in Users, k \in Privileged => Entitled(i)
    PROVE  Message(k, i, u, b) \in Current
<1>1. Message(k, i, u, b) \in Sound
  BY RequestSound
<1>2. gen \in Nat
  BY GatewayAssumption DEF IInv, RestTyped
<1>3. k \notin ResponseKinds
  BY DEF RequestKinds, LoginKinds, Privileged, ResponseKinds
<1>4. QED
  BY <1>1, <1>2, <1>3 DEF Message, Current

\* A handler that returns, after it sent m or not, and may be closed the socket.
LEMMA HandlerRight ==
    ASSUME IInv, Right, HandlerReturns, Erasing, FramesReachTheAsker',
           topic' \in [Topics -> Seq(Current)]
    PROVE  Right'
<1>1. UNCHANGED <<nextId, uncommitted, cons, gen, adminSeen>> /\ uws'.pc = "poll"
  BY DEF HandlerReturns, notUws
<1>2. \A i \in Nat : Entitled(i) => Entitled(i)'
  BY <1>1, EraseEntitles
<1>3. Current \subseteq Current'
  BY <1>1, <1>2, CurrentLasts
<1>4. TopicsCurrent'
  BY <1>1, <1>3, TopicsStay DEF Right, TopicsCurrent
<1>5. CopyCurrent'
  BY <1>1, <1>2, CopyStays DEF Right
<1>6. MessageCurrent'
  BY <1>1, <1>3, MessageStays DEF Right
<1>7. TableRight'
  BY <1>1, EraseKeepsLogins DEF Right
<1>8. QED
  BY <1>4, <1>5, <1>6, <1>7 DEF Right

LEMMA EnqueueRight ==
    ASSUME IInv, Right, NEW t, NEW m \in Current, NEW c, Enqueue(t, m, c)
    PROVE  Erasing /\ topic' \in [Topics -> Seq(Current)]
<1>1. topic \in [Topics -> Seq(Current)]
  BY DEF Right, TopicsCurrent
<1>2. [topic EXCEPT ![t] = Append(@, m)] \in [Topics -> Seq(Current)]
  BY <1>1, AppendKeeps
<1>3. topic' \in [Topics -> Seq(Current)]
  BY <1>1, <1>2 DEF Enqueue
<1>4. Erasing
  BY DEF Enqueue, Terminate, TableAfterHandler, Erased, Erasing
<1>5. QED
  BY <1>3, <1>4

LEMMA RejectRight ==
    ASSUME IInv, Right, Reject, UNCHANGED gen
    PROVE  FramesReachTheAsker' /\ Erasing /\ topic' \in [Topics -> Seq(Current)]
<1>1. FramesReachTheAsker'
  BY DEF Reject, Frame, FramesReachTheAsker
<1>2. QED
  BY <1>1 DEF Reject, Erasing, Right, TopicsCurrent

\* The user in a login frame is a user.
LEMMA LoginFrames ==
    ASSUME NEW f \in ClientFrames, f.kind \in LoginKinds
    PROVE  f.user \in Users
  BY DEF ClientFrames, LoginKinds

LEMMA UwsRight ==
    ASSUME IInv, Right, UwsStep
    PROVE  Right'
<1> DEFINE Kept == Erasing /\ topic' \in [Topics -> Seq(Current)]
<1>0. <<>> \in Bodies
  BY DEF Bodies
<1>1. ASSUME uws.pc = "handle", LoggedIn(uws.conn)
      PROVE  Entitled(uws.conn.connection_id)
  BY <1>1 DEF Right, CopyCurrent
<1>2. ASSUME HandlerReturns, Reject
      PROVE  Right'
  BY <1>2, RejectRight, HandlerRight DEF HandlerReturns, notUws
<1>3. ASSUME HandlerReturns, out' = {}, NEW t, NEW m \in Current, NEW c, Enqueue(t, m, c)
      PROVE  Right'
  BY <1>3, EnqueueRight, QuietFrames, HandlerRight
<1>4. CASE ClientLogin
  <2>1. /\ uws.pc = "handle" /\ uws.frame.kind \in LoginKinds /\ HandlerReturns
        /\ uws.frame \in ClientFrames
    BY <1>4 DEF ClientLogin, Handling, IInv, UwsTyped
  <2>2. uws.frame.user \in Users
    BY <2>1, LoginFrames
  <2>3. uws.frame.kind \in RequestKinds /\ uws.frame.kind \notin Privileged
    BY <2>1 DEF RequestKinds, LoginKinds, Privileged
  <2>4. Message(uws.frame.kind, uws.conn.connection_id, uws.frame.user, <<>>) \in Current
    BY <1>0, <2>1, <2>2, <2>3, CopyTyped, RequestCurrent
  <2>5. QED
    BY <1>2, <1>3, <1>4, <2>1, <2>4 DEF ClientLogin
<1>5. CASE ClientChatSend
  <2>1. uws.pc = "handle" /\ HandlerReturns
    BY <1>5 DEF ClientChatSend, Handling
  <2>2. LoggedIn(uws.conn) =>
          Message("chat_send", uws.conn.connection_id, uws.conn.username, uws.frame.body) \in Current
    BY <1>1, <2>1, CopyTyped, RequestCurrent DEF RequestKinds, Privileged, LoginKinds
  <2>3. QED
    BY <1>2, <1>3, <1>5, <2>1, <2>2 DEF ClientChatSend
<1>6. CASE ClientCreateCharacter
  <2>1. uws.pc = "handle" /\ HandlerReturns
    BY <1>6 DEF ClientCreateCharacter, Handling
  <2>2. LoggedIn(uws.conn) =>
          Message("create_character", uws.conn.connection_id, uws.conn.user, uws.frame.body) \in Current
    BY <1>1, <2>1, CopyTyped, RequestCurrent DEF RequestKinds, Privileged, LoginKinds
  <2>3. QED
    BY <1>2, <1>3, <1>6, <2>1, <2>2 DEF ClientCreateCharacter
<1>7. CASE ClientGetCharacters
  <2>1. uws.pc = "handle" /\ HandlerReturns
    BY <1>7 DEF ClientGetCharacters, Handling
  <2>2. LoggedIn(uws.conn) =>
          Message("get_characters", uws.conn.connection_id, uws.conn.user, <<>>) \in Current
    BY <1>0, <1>1, <2>1, CopyTyped, RequestCurrent DEF RequestKinds, Privileged, LoginKinds
  <2>3. QED
    BY <1>2, <1>3, <1>7, <2>1, <2>2 DEF ClientGetCharacters
<1>8. CASE ClientPlayCharacter
  <2>1. uws.pc = "handle" /\ HandlerReturns
    BY <1>8 DEF ClientPlayCharacter, Handling
  <2> DEFINE n == uws.frame.body[1]
             m == Message("play_character", uws.conn.connection_id, uws.conn.user, <<n>>)
  <2>2. ASSUME LoggedIn(uws.conn), NEW i \in Owned(uws.conn, n)
        PROVE  m \in Current
    <3>1. n \in Names
      BY <2>1, <2>2, CopyTyped, OwnedNames
    <3>2. <<n>> \in Bodies
      BY <3>1 DEF Bodies
    <3> HIDE DEF n
    <3>3. QED
      BY <1>1, <2>1, <2>2, <3>2, CopyTyped, RequestCurrent DEF RequestKinds, Privileged, LoginKinds
  <2>3. \/ Reject
        \/ /\ LoggedIn(uws.conn) /\ out' = {}
           /\ \E i \in Owned(uws.conn, n) :
                 Enqueue(uws.conn.player_characters[i].server, m, uws.conn)
    BY <1>8 DEF ClientPlayCharacter
  <2> HIDE DEF m, n
  <2>4. QED
    BY <1>2, <1>3, <2>1, <2>2, <2>3
<1>9. CASE ClientAdminQuit
  <2>1. uws.pc = "handle" /\ HandlerReturns /\ out' = {}
    BY <1>9 DEF ClientAdminQuit, Handling
  <2>2. CASE UNCHANGED <<open, slots, topic>>
    BY <2>1, <2>2, QuietFrames, HandlerRight DEF Erasing, Right, TopicsCurrent
  <2>3. CASE uws.conn.admin /\ Enqueue("broadcast",
                Message("quit", uws.frame.client, NoUser, <<>>), uws.conn)
    <3>1. Message("quit", uws.frame.client, NoUser, <<>>) \in Sound
      BY <2>1, <2>3, CopyTyped, QuitSound
    <3>2. gen \in Nat
      BY GatewayAssumption DEF IInv, RestTyped
    <3>3. Message("quit", uws.frame.client, NoUser, <<>>) \in Current
      BY <3>1, <3>2 DEF Current, Message, Privileged, LoginKinds, ResponseKinds
    <3>4. QED
      BY <1>3, <2>1, <2>3, <3>3
  <2>4. QED
    BY <1>9, <2>2, <2>3 DEF ClientAdminQuit
<1>10. CASE Malformed
  <2>1. HandlerReturns /\ UNCHANGED topic /\ Terminate(uws.ws) /\ out' = {}
    BY <1>10 DEF Malformed
  <2>2. Erasing
    BY <2>1 DEF Terminate, Erased, Erasing
  <2>3. QED
    BY <2>1, <2>2, QuietFrames, HandlerRight DEF Right, TopicsCurrent
<1>11. CASE UwsStops
  <2>1. /\ UNCHANGED <<slots, nextId, topic, uncommitted, cons, gen, adminSeen>>
        /\ out' = {} /\ uws'.pc # "handle"
    BY <1>11 DEF UwsStops, notUws
  <2>2. Erasing
    BY <2>1 DEF Erasing
  <2>3. \A i \in Nat : Entitled(i) => Entitled(i)'
    BY <2>1, <2>2, EraseEntitles
  <2>4. Current \subseteq Current'
    BY <2>1, <2>3, CurrentLasts
  <2>5. TopicsCurrent' /\ CopyCurrent' /\ MessageCurrent' /\ FramesReachTheAsker'
    BY <2>1, <2>3, <2>4, TopicsStay, CopyStays, MessageStays, QuietFrames DEF Right, TopicsCurrent
  <2>6. TableRight'
    BY <2>1, <2>2, EraseKeepsLogins DEF Right
  <2>7. QED
    BY <2>5, <2>6 DEF Right
<1>12. QED
  BY <1>4, <1>5, <1>6, <1>7, <1>8, <1>9, <1>10, <1>11 DEF UwsStep

LEMMA ClientRight ==
    ASSUME MInv, Right, ClientStep
    PROVE  Right'
<1>1. PICK w \in Sockets :
          \/ Accept(w) \/ Refuse(w) \/ Disconnect(w) \/ OnMessageUnregistered(w)
          \/ \E f \in ClientFrames : OnMessage(w, f)
  BY DEF ClientStep
<1>2. IInv /\ UNCHANGED <<topic, uncommitted, cons, gen, adminSeen>> /\ out' = {}
  BY <1>1 DEF MInv, Accept, Refuse, Disconnect, OnMessageUnregistered, OnMessage, notUws
<1>3. Accept(w) \/ Erasing
  BY <1>1 DEF Refuse, Disconnect, OnMessageUnregistered, OnMessage, Terminate, Erased, Erasing
<1>4. nextId' \in {nextId, nextId + 1} /\ (Accept(w) \/ UNCHANGED nextId)
  BY <1>1 DEF Accept, Refuse, Disconnect, OnMessageUnregistered, OnMessage
<1>5. \A i \in Nat : Entitled(i) => Entitled(i)'
  BY <1>2, <1>3, <1>4, AcceptRight, EraseEntitles DEF Right
<1>6. TableRight'
  BY <1>2, <1>3, AcceptRight, EraseKeepsLogins DEF Right
<1>7. Current \subseteq Current'
  BY <1>2, <1>5, CurrentLasts
<1>8. TopicsCurrent' /\ MessageCurrent' /\ FramesReachTheAsker'
  BY <1>2, <1>7, TopicsStay, MessageStays, QuietFrames DEF Right, TopicsCurrent
<1>9. CopyCurrent'
  <2>1. CASE UNCHANGED uws
    BY <1>2, <1>4, <1>5, <2>1, CopyStays DEF Right
  <2>2. ASSUME NEW f \in ClientFrames, OnMessage(w, f)
        PROVE  CopyCurrent'
    <3>1. PICK s \in Registered(KeyOf[w]) : uws'.conn = slots[s]
      BY <2>2 DEF OnMessage
    <3>2. UNCHANGED <<slots, nextId>>
      BY <2>2 DEF OnMessage
    <3>3. s \in UsedSlots
      BY DEF Registered
    <3>4. /\ slots[s].connection_id < nextId
          /\ \A t \in UsedSlots : slots[t].connection_id = slots[s].connection_id => t = s
      BY <3>3 DEF MInv, TableMirrorsSockets
    <3>5. LoggedIn(slots[s]) => Entitled(slots[s].connection_id)
      BY <3>4 DEF Entitled
    <3>6. Entitled(slots[s].connection_id) => Entitled(slots[s].connection_id)'
      BY <3>2 DEF Entitled, UsedSlots, Used, LoggedIn
    <3>7. QED
      BY <3>1, <3>2, <3>4, <3>5, <3>6 DEF CopyCurrent, Entitled, LoggedIn, UsedSlots, Used
  <2>3. QED
    BY <1>1, <2>1, <2>2 DEF Accept, Refuse, Disconnect, OnMessageUnregistered
<1>10. QED
  BY <1>6, <1>8, <1>9 DEF Right

-----------------------------------------------------------------------------
(* The consumer thread.                                                    *)

LEMMA FramesThroughReference ==
    ASSUME IInv, Right, cons.pc = "dispatch", NEW kind, SendThrough(kind), UNCHANGED gen
    PROVE  FramesReachTheAsker'
<1> SUFFICES ASSUME NEW f \in out'
             PROVE  f.to = f.for \/ f.held \/ f.for.gen < gen
  BY DEF FramesReachTheAsker
<1>1. f = Frame(slots[cons.slot], kind, cons.msg) /\ Used(cons.slot)
  BY DEF SendThrough, UsedSlots
<1>2. /\ f.to = [client |-> slots[cons.slot].connection_id, gen |-> gen]
      /\ f.held = slots[cons.slot].held
      /\ f.for = [client |-> cons.msg.client, gen |-> cons.msg.gen]
  BY <1>1 DEF Frame
<1>3. slots[cons.slot].held \/ slots[cons.slot].connection_id = cons.msg.client
  BY <1>1 DEF Right, TableRight, ReferenceRight
<1>4. cons.msg.gen <= gen /\ cons.msg.gen \in Nat /\ gen \in Nat
  BY GatewayAssumption DEF Right, MessageCurrent, Current, Sound, Messages, IInv, RestTyped
<1>5. cons.msg.gen = gen \/ cons.msg.gen < gen
  BY <1>4
<1>6. f.for.gen = cons.msg.gen
  BY <1>2
<1>7. QED
  BY <1>2, <1>3, <1>5, <1>6

LEMMA TakeRight ==
    ASSUME IInv, Right, NEW t \in Subscribed, Take(t)
    PROVE  /\ topic' \in [Topics -> Seq(Current)] /\ uncommitted' \in [Subscribed -> Seq(Current)]
           /\ Head(topic[t]) \in Current
<1>1. t \in Topics /\ topic \in [Topics -> Seq(Current)] /\ topic[t] # <<>>
  BY DEF Subscribed, Topics, Take, Right, TopicsCurrent
<1>2. topic' \in [Topics -> Seq(Current)] /\ Head(topic[t]) \in Current
  BY <1>1, TailKeeps DEF Take
<1>3. [uncommitted EXCEPT ![t] = Append(@, Head(topic[t]))] \in [Subscribed -> Seq(Current)]
  BY <1>2, AppendKeeps DEF Right, TopicsCurrent
<1>4. QED
  BY <1>2, <1>3 DEF Take, Right, TopicsCurrent

LEMMA PollRight ==
    ASSUME IInv, Right, NEW t \in Subscribed, Drop(t) \/ Lookup(t)
    PROVE  Right'
<1>1. Take(t) /\ UNCHANGED <<slots, notCons, adminSeen>> /\ out' = {} /\ cons.pc = "poll"
  BY DEF Drop, Lookup, Take
<1>2. Erasing /\ UNCHANGED <<nextId, gen, uws>>
  BY <1>1 DEF Erasing, notCons
<1>3. (\A i \in Nat : Entitled(i) => Entitled(i)') /\ Current \subseteq Current'
  BY <1>1, <1>2, EraseEntitles, CurrentLasts
<1>4. TopicsCurrent' /\ Head(topic[t]) \in Current'
  BY <1>1, <1>3, TakeRight, TopicsStay
<1>5. CopyCurrent' /\ FramesReachTheAsker'
  BY <1>1, <1>2, <1>3, CopyStays, QuietFrames DEF Right
<1>6. MessageCurrent' /\ TableRight'
  <2>1. CASE Drop(t)
    <3>1. cons'.pc # "dispatch"
      BY <2>1 DEF Drop, LoopTop
    <3>2. QED
      BY <1>1, <1>2, <1>3, <3>1, MessageStays, EraseKeepsLogins DEF Right
  <2>2. CASE Lookup(t)
    <3> DEFINE m == Head(topic[t])
    <3>1. PICK s \in Matches(m) :
              cons' = [pc |-> "dispatch", msg |-> m, slot |-> s,
                       todo |-> IF m.kind \in ResponseKinds THEN ResponseFields ELSE {}]
      BY <2>2 DEF Lookup
    <3>2. /\ cons'.msg = m /\ cons'.slot = s
          /\ cons'.todo = IF m.kind \in ResponseKinds THEN ResponseFields ELSE {}
      BY <3>1
    <3>3. slots[s].connection_id = m.client /\ slots' = slots
      BY <1>1 DEF Matches
    <3>4. MessageCurrent'
      <4>1. s \in Slots /\ (IF m.kind \in ResponseKinds THEN ResponseFields ELSE {})
                               \in SUBSET ResponseFields
        BY DEF Matches, UsedSlots
      <4> HIDE DEF m
      <4>2. cons' \in [pc : {"dispatch"}, msg : Current', slot : Slots,
                        todo : SUBSET ResponseFields]
        BY <1>4, <3>1, <4>1 DEF m
      <4>3. QED
        BY <3>2, <4>2 DEF MessageCurrent
    <3>5. ReferenceRight'
      BY <3>2, <3>3 DEF ReferenceRight, ResponseFields
    <3>6. LoggedInByOwnReply' /\ HalfLoggedInOnlyWhileWriting'
      BY <1>1, <1>2 DEF Right, TableRight, LoggedInByOwnReply, HalfLoggedInOnlyWhileWriting,
                        UsedSlots, Used, LoggedIn
    <3>7. QED
      BY <3>4, <3>5, <3>6 DEF TableRight
  <2>3. QED
    BY <2>1, <2>2
<1>7. QED
  BY <1>4, <1>5, <1>6 DEF Right

\* What a response's handler makes of an entry, field by field.
LEMMA WrittenFields ==
    ASSUME NEW c \in Connections, NEW m \in Messages, NEW f \in ResponseFields
    PROVE  LET new == Written(c, f, m)
           IN  /\ new.held = c.held /\ new.connection_id = c.connection_id
               /\ f = "state" => /\ LoggedIn(new) /\ new.user = c.user
                                 /\ new.by = [client |-> m.client, gen |-> m.gen]
               /\ f # "state" => (LoggedIn(new) <=> LoggedIn(c)) /\ new.by = c.by
               /\ f = "user" => new.user = m.user
               /\ f # "user" => new.user = c.user
<1>1. CASE f = "state"
  BY <1>1 DEF Written, Connections, LoggedIn
<1>2. CASE f = "admin"
  <2>1. \A h \in BOOLEAN : LET new == [c EXCEPT !.admin = h]
                          IN  /\ new.held = c.held /\ new.connection_id = c.connection_id
                              /\ new.state = c.state /\ new.by = c.by /\ new.user = c.user
    BY DEF Connections
  <2>2. Written(c, f, m) = [c EXCEPT !.admin = (m.user \in Admins)]
    BY <1>2 DEF Written
  <2>3. (m.user \in Admins) \in BOOLEAN
    OBVIOUS
  <2>4. LET new == Written(c, f, m)
        IN  /\ new.held = c.held /\ new.connection_id = c.connection_id
            /\ new.state = c.state /\ new.by = c.by /\ new.user = c.user
    BY <2>1, <2>2, <2>3
  <2>5. QED
    BY <1>2, <2>4, Zenon DEF LoggedIn
<1>3. CASE f = "user"
  BY <1>3 DEF Written, Connections, LoggedIn
<1>4. QED
  BY <1>1, <1>2, <1>3 DEF ResponseFields

\* Whoever's entry it is by now, a write through the reference takes no login back.
LEMMA ThroughEntitles ==
    ASSUME IInv, cons.slot \in Slots, NEW new, slots' = Through(cons.slot, new), UNCHANGED nextId,
           Used(cons.slot) => /\ new.connection_id = slots[cons.slot].connection_id
                              /\ LoggedIn(slots[cons.slot]) => LoggedIn(new)
    PROVE  \A i \in Nat : Entitled(i) => Entitled(i)'
<1>1. \A s \in UsedSlots' : /\ s \in UsedSlots
                            /\ slots'[s].connection_id = slots[s].connection_id
                            /\ LoggedIn(slots[s]) => LoggedIn(slots'[s])
  BY DEF Through, UsedSlots, Used, IInv, TableTyped
<1>2. QED
  BY <1>1 DEF Entitled, LoggedIn

LEMMA WriteRight ==
    ASSUME IInv, Right, NEW f \in ResponseFields, WriteResponse(f)
    PROVE  Right'
<1> DEFINE c == slots[cons.slot]
           m == cons.msg
           new == Written(c, f, m)
<1>1. /\ cons.pc = "dispatch" /\ m.kind \in ResponseKinds /\ f \in cons.todo
      /\ slots' = Through(cons.slot, new) /\ out' = {}
      /\ UNCHANGED <<nextId, uws, gen, topic, uncommitted>> /\ (adminSeen => adminSeen')
  BY DEF WriteResponse, Dispatching, notCons
<1>2. cons.slot \in Slots /\ m \in Messages /\ m \in Current
  BY <1>1 DEF IInv, ConsTyped, Sound, Right, MessageCurrent
<1>3. /\ cons'.pc = "dispatch" /\ cons'.msg = m /\ cons'.slot = cons.slot
      /\ cons'.todo = cons.todo \ {f}
  <2>1. cons' = [cons EXCEPT !.todo = @ \ {f}]
    BY DEF WriteResponse
  <2>2. cons \in [pc : {"dispatch"}, msg : Current, slot : Slots, todo : SUBSET ResponseFields]
    BY <1>1 DEF Right, MessageCurrent
  <2>3. QED
    BY <1>1, <2>1, <2>2
<1>4. Used(cons.slot) =>
          /\ c \in Connections /\ new.held = c.held /\ new.connection_id = c.connection_id
          /\ f = "state" => /\ LoggedIn(new) /\ new.user = c.user
                            /\ new.by = [client |-> m.client, gen |-> m.gen]
          /\ f # "state" => (LoggedIn(new) <=> LoggedIn(c)) /\ new.by = c.by
          /\ f = "user" => new.user = m.user
          /\ f # "user" => new.user = c.user
  <2>1. Used(cons.slot) => c \in Connections
    BY <1>2 DEF IInv, TableTyped, Used, Granted
  <2>2. QED
    BY <1>2, <2>1, WrittenFields
<1> HIDE DEF new
<1>5. /\ \A s \in UsedSlots' : s \in UsedSlots /\ (s # cons.slot => slots'[s] = slots[s])
      /\ Used(cons.slot) => slots'[cons.slot] = new
      /\ cons.slot \in UsedSlots' => Used(cons.slot)
  BY <1>1, <1>2 DEF Through, UsedSlots, Used, IInv, TableTyped
<1>6. (\A i \in Nat : Entitled(i) => Entitled(i)') /\ Current \subseteq Current'
  BY <1>1, <1>2, <1>4, ThroughEntitles, CurrentLasts
<1>7. TopicsCurrent' /\ CopyCurrent' /\ FramesReachTheAsker'
  BY <1>1, <1>6, TopicsStay, CopyStays, QuietFrames DEF Right, TopicsCurrent
<1>8. MessageCurrent'
  <2>1. cons' = [cons EXCEPT !.todo = @ \ {f}]
    BY DEF WriteResponse
  <2>2. cons \in [pc : {"dispatch"}, msg : Current, slot : Slots, todo : SUBSET ResponseFields]
    BY <1>1 DEF Right, MessageCurrent
  <2>3. cons' \in [pc : {"dispatch"}, msg : Current, slot : Slots, todo : SUBSET ResponseFields]
    BY <2>1, <2>2
  <2>4. cons' \in [pc : {"dispatch"}, msg : Current', slot : Slots, todo : SUBSET ResponseFields]
    BY <1>6, <2>3
  <2>5. QED
    BY <1>1, <1>3, <2>4 DEF MessageCurrent
<1>9. m.user # NoUser /\ m.gen \in Nat /\ gen \in Nat /\ m.gen <= gen
  BY <1>1, <1>2, GatewayAssumption DEF Current, Sound, Messages, IInv, RestTyped
<1>10. Used(cons.slot) => c.held \/ c.connection_id = m.client
  BY <1>1 DEF Right, TableRight, ReferenceRight
<1>11. ReferenceRight'
  <2> SUFFICES ASSUME Used(cons.slot), "user" \notin cons.todo \ {f}, ~new.held
               PROVE  new.user # NoUser
    BY <1>2, <1>3, <1>4, <1>5, <1>10 DEF ReferenceRight, UsedSlots, Used
  <2>1. CASE f = "user"
    BY <1>4, <1>9, <2>1
  <2>2. CASE f # "user"
    <3>1. "user" \notin cons.todo
      BY <2>2
    <3>2. c.user # NoUser
      BY <1>1, <1>4, <3>1 DEF Right, TableRight, ReferenceRight
    <3>3. QED
      BY <1>4, <2>2, <3>2
  <2>3. QED
    BY <2>1, <2>2
<1>12. LoggedInByOwnReply'
  <2> SUFFICES ASSUME NEW s \in UsedSlots', LoggedIn(slots'[s])
               PROVE  \/ slots'[s].by = [client |-> slots'[s].connection_id, gen |-> gen]
                      \/ slots'[s].held
                      \/ slots'[s].by.gen < gen
    BY <1>1 DEF LoggedInByOwnReply, LoggedIn
  <2>1. CASE s # cons.slot
    BY <1>5, <2>1 DEF Right, TableRight, LoggedInByOwnReply
  <2>2. CASE s = cons.slot /\ f # "state"
    <3>1. s \in UsedSlots /\ LoggedIn(slots[s])
      BY <1>4, <1>5, <2>2
    <3>2. \/ c.by = [client |-> c.connection_id, gen |-> gen] \/ c.held \/ c.by.gen < gen
      BY <2>2, <3>1 DEF Right, TableRight, LoggedInByOwnReply
    <3>3. QED
      BY <1>4, <1>5, <2>2, <3>2
  <2>3. CASE s = cons.slot /\ f = "state"
    <3>1. /\ slots'[s].by = [client |-> m.client, gen |-> m.gen]
          /\ slots'[s].held = c.held /\ slots'[s].connection_id = c.connection_id
          /\ c.held \/ c.connection_id = m.client
      BY <1>4, <1>5, <1>10, <2>3
    <3>2. m.gen = gen \/ m.gen < gen
      BY <1>9
    <3>3. slots'[s].by.gen = m.gen
      BY <3>1
    <3>4. QED
      BY <3>1, <3>2, <3>3
  <2>4. QED
    BY <2>1, <2>2, <2>3
<1>13. HalfLoggedInOnlyWhileWriting'
  <2> SUFFICES ASSUME NEW s \in UsedSlots', LoggedIn(slots'[s]), slots'[s].user = NoUser
               PROVE  slots'[s].held \/ (cons.slot = s /\ "user" \in cons.todo \ {f})
    BY <1>3 DEF HalfLoggedInOnlyWhileWriting, LoggedIn
  <2>1. CASE s # cons.slot
    BY <1>5, <2>1 DEF Right, TableRight, HalfLoggedInOnlyWhileWriting
  <2>2. CASE s = cons.slot
    <3>1. Used(cons.slot) /\ slots'[s] = new /\ new.user = NoUser
      BY <1>5, <2>2
    <3>2. f # "user"
      BY <1>4, <1>9, <3>1
    <3>3. c.user = NoUser
      BY <1>4, <3>1, <3>2
    <3>4. c.held \/ "user" \in cons.todo
      BY <1>1, <3>1, <3>3 DEF Right, TableRight, ReferenceRight
    <3>5. QED
      BY <1>4, <2>2, <3>1, <3>2, <3>4
  <2>3. QED
    BY <2>1, <2>2
<1>14. QED
  BY <1>7, <1>8, <1>11, <1>12, <1>13 DEF Right, TableRight

\* Back at the top of the loop, with all that there was to write written.
LEMMA HandledRight ==
    ASSUME IInv, Right, cons.pc = "dispatch", cons.todo = {}, cons'.pc # "dispatch",
           UNCHANGED <<topic, uncommitted, notCons, adminSeen>>, Erasing, FramesReachTheAsker'
    PROVE  Right'
<1>1. UNCHANGED <<nextId, uws, gen>>
  BY DEF notCons
<1>2. (\A i \in Nat : Entitled(i) => Entitled(i)') /\ Current \subseteq Current'
  BY <1>1, EraseEntitles, CurrentLasts
<1>3. TopicsCurrent' /\ CopyCurrent' /\ MessageCurrent'
  BY <1>1, <1>2, TopicsStay, CopyStays, MessageStays DEF Right, TopicsCurrent
<1>4. TableRight'
  BY <1>1, EraseKeepsLogins DEF Right
<1>5. QED
  BY <1>3, <1>4 DEF Right

LEMMA ListedRight ==
    ASSUME IInv, Right, GatewayGetCharactersResponse
    PROVE  Right'
<1> DEFINE c == slots[cons.slot]
           new == Listed(c, cons.msg)
<1>1. /\ cons.pc = "dispatch" /\ cons.msg.kind = "get_characters_response"
      /\ slots' = Through(cons.slot, new) /\ SendThrough("get_characters_response")
      /\ LoopTop(quit) /\ UNCHANGED <<topic, uncommitted, nextId, uws, gen, adminSeen>>
  BY DEF GatewayGetCharactersResponse, Dispatching, notCons
<1>2. cons.slot \in Slots /\ cons'.pc # "dispatch" /\ cons.todo = {}
  BY <1>1 DEF IInv, ConsTyped, LoopTop, Right, MessageCurrent, ResponseKinds
<1>3. Used(cons.slot) => /\ new.connection_id = c.connection_id /\ new.held = c.held
                         /\ new.state = c.state /\ new.by = c.by /\ new.user = c.user
  BY <1>2 DEF Listed, IInv, TableTyped, Used, Granted, Connections
<1> HIDE DEF new
<1>4. /\ \A s \in UsedSlots' : s \in UsedSlots /\ (s # cons.slot => slots'[s] = slots[s])
      /\ Used(cons.slot) => slots'[cons.slot] = new
      /\ cons.slot \in UsedSlots' => Used(cons.slot)
  BY <1>1, <1>2 DEF Through, UsedSlots, Used, IInv, TableTyped
<1>5. (\A i \in Nat : Entitled(i) => Entitled(i)') /\ Current \subseteq Current'
  BY <1>1, <1>2, <1>3, ThroughEntitles, CurrentLasts DEF LoggedIn
<1>6. TopicsCurrent' /\ CopyCurrent' /\ MessageCurrent'
  BY <1>1, <1>2, <1>5, TopicsStay, CopyStays, MessageStays DEF Right, TopicsCurrent
<1>7. \A s \in UsedSlots' : /\ s \in UsedSlots
                            /\ slots'[s].connection_id = slots[s].connection_id
                            /\ slots'[s].held = slots[s].held /\ slots'[s].by = slots[s].by
                            /\ slots'[s].state = slots[s].state /\ slots'[s].user = slots[s].user
  BY <1>3, <1>4
<1>8. LoggedInByOwnReply' /\ HalfLoggedInOnlyWhileWriting'
  BY <1>1, <1>2, <1>7 DEF Right, TableRight, LoggedInByOwnReply, HalfLoggedInOnlyWhileWriting, LoggedIn
<1>9. ReferenceRight'
  BY <1>2 DEF ReferenceRight
<1>10. FramesReachTheAsker'
  BY <1>1, FramesThroughReference
<1>11. QED
  BY <1>6, <1>8, <1>9, <1>10 DEF Right, TableRight

LEMMA ConsumerRight ==
    ASSUME IInv, Right, ConsumerStep
    PROVE  Right'
<1>1. CASE \E t \in Subscribed : Drop(t) \/ Lookup(t)
  BY <1>1, PollRight
<1>2. CASE \E f \in ResponseFields : WriteResponse(f)
  BY <1>2, WriteRight
<1>3. CASE PollNothing
  <2>1. /\ UNCHANGED <<slots, topic, uncommitted, nextId, uws, gen, adminSeen>>
        /\ cons.pc = "poll" /\ cons'.pc # "dispatch" /\ out' = {} /\ Erasing
    BY <1>3 DEF PollNothing, notCons, Erasing
  <2>2. (\A i \in Nat : Entitled(i) => Entitled(i)') /\ Current \subseteq Current'
    BY <2>1, EraseEntitles, CurrentLasts
  <2>3. TopicsCurrent' /\ CopyCurrent' /\ MessageCurrent' /\ FramesReachTheAsker'
    BY <2>1, <2>2, TopicsStay, CopyStays, MessageStays, QuietFrames DEF Right, TopicsCurrent
  <2>4. TableRight'
    BY <2>1, EraseKeepsLogins DEF Right
  <2>5. QED
    BY <2>3, <2>4 DEF Right
<1>4. \A q : LoopTop(q) => cons'.pc # "dispatch"
  BY DEF LoopTop
<1>5. cons.pc = "dispatch" /\ cons.msg.kind \notin ResponseKinds => cons.todo = {}
  BY DEF Right, MessageCurrent
<1>6. slots' = slots => Erasing
  BY DEF Erasing
<1>7. CASE SendResponse
  <2>1. /\ cons.pc = "dispatch" /\ cons.todo = {} /\ SendThrough(cons.msg.kind) /\ LoopTop(quit)
        /\ UNCHANGED <<slots, topic, uncommitted, notCons, adminSeen>>
    BY <1>7 DEF SendResponse, Dispatching
  <2>2. FramesReachTheAsker'
    BY <2>1, FramesThroughReference DEF notCons
  <2>3. QED
    BY <1>4, <1>6, <2>1, <2>2, HandledRight
<1>8. CASE GatewaySendMap
  <2>1. /\ cons.pc = "dispatch" /\ cons.msg.kind \notin ResponseKinds
        /\ SendThrough("send_map") /\ LoopTop(quit)
        /\ UNCHANGED <<slots, topic, uncommitted, notCons, adminSeen>>
    BY <1>8 DEF GatewaySendMap, Dispatching, ResponseKinds
  <2>2. FramesReachTheAsker'
    BY <2>1, FramesThroughReference DEF notCons
  <2>3. QED
    BY <1>4, <1>5, <1>6, <2>1, <2>2, HandledRight
<1>9. CASE GatewayErrorResponse
  <2>1. /\ cons.pc = "dispatch" /\ cons.msg.kind \notin ResponseKinds
        /\ SendThrough("error") /\ LoopTop(quit)
        /\ UNCHANGED <<topic, uncommitted, notCons, adminSeen>>
    BY <1>9 DEF GatewayErrorResponse, Dispatching, ResponseKinds
  <2>2. Erasing
    BY <1>9 DEF GatewayErrorResponse, Terminate, Erased, Erasing
  <2>3. FramesReachTheAsker'
    BY <2>1, FramesThroughReference DEF notCons
  <2>4. QED
    BY <1>4, <1>5, <2>1, <2>2, <2>3, HandledRight
<1>10. CASE GatewayChatSend
  <2>1. /\ cons.pc = "dispatch" /\ cons.msg.kind \notin ResponseKinds /\ LoopTop(quit)
        /\ UNCHANGED <<slots, topic, uncommitted, notCons, adminSeen>>
    BY <1>10 DEF GatewayChatSend, Dispatching, ResponseKinds
  <2>2. FramesReachTheAsker'
    BY <1>10 DEF GatewayChatSend, Frame, FramesReachTheAsker
  <2>3. QED
    BY <1>4, <1>5, <1>6, <2>1, <2>2, HandledRight
<1>11. CASE GatewayQuit
  <2>1. /\ cons.pc = "dispatch" /\ cons.msg.kind \notin ResponseKinds /\ LoopTop(TRUE)
        /\ UNCHANGED <<slots, topic, uncommitted, notCons, adminSeen>> /\ out' = {}
    BY <1>11 DEF GatewayQuit, Dispatching, ResponseKinds
  <2>2. QED
    BY <1>4, <1>5, <1>6, <2>1, QuietFrames, HandledRight
<1>12. QED
  BY <1>1, <1>2, <1>3, <1>7, <1>8, <1>9, <1>10, <1>11, ListedRight DEF ConsumerStep

-----------------------------------------------------------------------------
(* The main thread, signals, crashes and the services.                     *)

LEMMA AsideRight ==
    ASSUME IInv, Right, MainStep \/ CommitOffsets \/ Sigint
    PROVE  Right'
<1>1. /\ UNCHANGED <<slots, uws, cons, topic, nextId, gen, adminSeen>> /\ out' = {}
      /\ uncommitted' \in {uncommitted, NothingUncommitted}
  BY DEF MainStep, MainLoopEnds, MainProducerClosed, MainConsumerClosed, MainWaited,
         MainReturns, MainMoves, notMain, CommitOffsets, notCons, Sigint
<1>2. Erasing
  BY <1>1 DEF Erasing
<1>3. (\A i \in Nat : Entitled(i) => Entitled(i)') /\ Current \subseteq Current'
  BY <1>1, <1>2, EraseEntitles, CurrentLasts
<1>4. TopicsCurrent'
  <2>1. <<>> \in Seq(Current)
    OBVIOUS
  <2>2. uncommitted' \in [Subscribed -> Seq(Current)]
    BY <1>1, <2>1 DEF Right, TopicsCurrent, NothingUncommitted
  <2>3. QED
    BY <1>1, <1>3, <2>2, TopicsStay DEF Right, TopicsCurrent
<1>5. CopyCurrent' /\ MessageCurrent' /\ FramesReachTheAsker'
  BY <1>1, <1>3, CopyStays, MessageStays, QuietFrames DEF Right
<1>6. TableRight'
  BY <1>1, <1>2, EraseKeepsLogins DEF Right
<1>7. QED
  BY <1>4, <1>5, <1>6 DEF Right

\* Nobody is logged in after a restart, and every message is of an earlier run.
LEMMA RestartRight ==
    ASSUME IInv, Right, Restart
    PROVE  Right'
<1>1. Current \subseteq Current'
  BY CurrentLasts DEF Restart
<1>2. TopicsCurrent'
  <2>1. <<>> \in Seq(Current)
    OBVIOUS
  <2>2. \A t \in Subscribed : uncommitted[t] \o topic[t] \in Seq(Current)
    BY ConcatProperties DEF Right, TopicsCurrent, Subscribed, Topics
  <2>3. topic' \in [Topics -> Seq(Current)] /\ uncommitted' \in [Subscribed -> Seq(Current)]
    BY <2>1, <2>2 DEF Restart, Right, TopicsCurrent, NothingUncommitted
  <2>4. QED
    BY <1>1, <2>3, TopicsStay
<1>3. CopyCurrent' /\ MessageCurrent' /\ FramesReachTheAsker'
  BY QuietFrames DEF Restart, CopyCurrent, MessageCurrent
<1>4. TableRight'
  BY DEF Restart, TableRight, ReferenceRight, LoggedInByOwnReply, HalfLoggedInOnlyWhileWriting,
         UsedSlots, Used
<1>5. QED
  BY <1>2, <1>3, <1>4 DEF Right

LEMMA ServedRight ==
    ASSUME IInv, Right, NEW t, NEW k, Served(t, k), topic' \in [Topics -> Seq(Current)]
    PROVE  Right'
<1>1. UNCHANGED <<slots, uws, cons, uncommitted, nextId, gen, adminSeen>> /\ out' = {} /\ Erasing
  BY DEF Served, Erasing
<1>2. (\A i \in Nat : Entitled(i) => Entitled(i)') /\ Current \subseteq Current'
  BY <1>1, EraseEntitles, CurrentLasts
<1>3. TopicsCurrent' /\ CopyCurrent' /\ MessageCurrent' /\ FramesReachTheAsker'
  BY <1>1, <1>2, TopicsStay, CopyStays, MessageStays, QuietFrames DEF Right, TopicsCurrent
<1>4. TableRight'
  BY <1>1, EraseKeepsLogins DEF Right
<1>5. QED
  BY <1>3, <1>4 DEF Right

LEMMA IgnoreRight ==
    ASSUME IInv, Right, NEW t \in Topics, NEW k, Ignore(t, k)
    PROVE  Right'
<1>1. topic' \in [Topics -> Seq(Current)]
  BY TailKeeps DEF Ignore, Consumed, Served, Right, TopicsCurrent
<1>2. QED
  BY <1>1, ServedRight DEF Ignore

\* An answer keeps the run, the client and the user of what it answers.
LEMMA ReplyRight ==
    ASSUME IInv, Right, NEW t \in Topics, NEW k,
           NEW kind \in ResponseKinds
                        \cup {"error_response", "get_characters_response", "send_map"},
           kind \in ResponseKinds => k \in LoginKinds,
           NEW server \in Worlds \cup {Origin},
           NEW body \in Bodies, kind = "get_characters_response" => body \in Seq(Names),
           Reply(t, k, kind, server, body)
    PROVE  Right'
<1> DEFINE h == Head(topic[t])
           m == [h EXCEPT !.kind = kind, !.origin = server, !.body = body]
<1>1. Consumed(t) \in [Topics -> Seq(Current)] /\ h \in Current /\ h.kind = k
  BY TailKeeps DEF Reply, Consumed, Served, Right, TopicsCurrent
<1> HIDE DEF h
<1>2. m \in Sound /\ m.gen = h.gen /\ m.user = h.user /\ m.kind = kind
  BY <1>1 DEF Current, Sound, Messages, MessageKinds, ResponseKinds
<1>3. m \in Current
  <2>1. kind \notin LoginKinds \cup Privileged
    BY DEF ResponseKinds, LoginKinds, Privileged
  <2> HIDE DEF m
  <2>2. QED
    BY <1>1, <1>2, <2>1 DEF Current
<1>4. topic' = [Consumed(t) EXCEPT !["gateway"] = Append(@, m)]
  BY DEF Reply, h
<1> HIDE DEF m
<1>5. topic' \in [Topics -> Seq(Current)]
  BY <1>1, <1>3, <1>4, AppendKeeps
<1>6. QED
  BY <1>5, ServedRight DEF Reply

LEMMA ServiceRight ==
    ASSUME IInv, Right, ServiceStep
    PROVE  Right'
<1>1. /\ <<>> \in Bodies /\ <<"failed">> \in Bodies /\ <<"banned">> \in Bodies
      /\ \A n \in Names : <<n>> \in Bodies /\ <<n>> \in Seq(Names)
  BY DEF Bodies
<1>2. /\ "backend_messages" \in Topics /\ "world_messages" \in Topics
      /\ Worlds \subseteq Topics
  BY DEF Topics
<1>3. /\ "login" \in LoginKinds /\ "register" \in LoginKinds
      /\ "error_response" \notin ResponseKinds /\ "send_map" \notin ResponseKinds
      /\ "get_characters_response" \notin ResponseKinds
  BY DEF LoginKinds, ResponseKinds
<1>4. CASE BackendLogin \/ BackendRegister
  BY <1>1, <1>2, <1>3, <1>4, ReplyRight
  DEF BackendLogin, BackendRegister, Failed, Banned, ResponseKinds
<1>5. CASE BackendCreateCharacter
  BY <1>1, <1>2, <1>3, <1>5, ReplyRight, IgnoreRight DEF BackendCreateCharacter, Failed
<1>6. CASE WorldGetCharacters
  BY <1>1, <1>2, <1>3, <1>6, ReplyRight, IgnoreRight DEF WorldGetCharacters
<1>7. CASE \E s \in Worlds : WorldPlayCharacter(s)
  BY <1>1, <1>2, <1>3, <1>7, ReplyRight, IgnoreRight DEF WorldPlayCharacter, Failed
<1>8. QED
  BY <1>4, <1>5, <1>6, <1>7 DEF ServiceStep

LEMMA StutterRight == Right /\ UNCHANGED vars => Right'
<1> SUFFICES ASSUME Right, UNCHANGED vars PROVE Right'
  OBVIOUS
<1>1. UNCHANGED <<slots, nextId, uws, cons, topic, uncommitted, out, gen, adminSeen>>
  BY DEF vars
<1>2. (\A i : Entitled(i)' <=> Entitled(i)) /\ Sound' = Sound
  BY <1>1 DEF Entitled, UsedSlots, Used, LoggedIn, Sound
<1>3. Current' = Current
  BY <1>1, <1>2 DEF Current
<1>4. TopicsCurrent' /\ CopyCurrent' /\ MessageCurrent'
  BY <1>1, <1>2, <1>3 DEF Right, TopicsCurrent, CopyCurrent, MessageCurrent, LoggedIn
<1>5. TableRight' /\ FramesReachTheAsker'
  BY <1>1 DEF Right, TableRight, ReferenceRight, LoggedInByOwnReply, HalfLoggedInOnlyWhileWriting,
              FramesReachTheAsker, UsedSlots, Used, LoggedIn
<1>6. QED
  BY <1>4, <1>5 DEF Right

LEMMA InitRight == Init => Right
<1> SUFFICES ASSUME Init PROVE Right
  OBVIOUS
<1>1. \A X : <<>> \in Seq(X)
  OBVIOUS
<1>2. TopicsCurrent
  BY <1>1 DEF Init, TopicsCurrent
<1>3. CopyCurrent /\ MessageCurrent /\ FramesReachTheAsker
  BY DEF Init, CopyCurrent, MessageCurrent, FramesReachTheAsker
<1>4. TableRight
  BY DEF Init, TableRight, ReferenceRight, LoggedInByOwnReply, HalfLoggedInOnlyWhileWriting,
         UsedSlots, Used
<1>5. QED
  BY <1>2, <1>3, <1>4 DEF Right

LEMMA AlwaysRight == Spec => []Right
<1>1. IInv /\ TableMirrorsSockets /\ Right /\ [Next]_vars => Right'
  BY ClientRight, UwsRight, ConsumerRight, AsideRight, RestartRight, ServiceRight, StutterRight
  DEF Next, MInv
<1>2. QED
  BY <1>1, InitRight, InductiveInvariant, TableIsMirror, PTL DEF Spec

(* A connection is logged in by the answer to its own request, but for the  *)
(* two ways out that the property names.                                   *)
THEOREM LoginsAreOwn == Spec => []LoggedInByOwnReply
<1>1. Right => LoggedInByOwnReply
  BY DEF Right, TableRight
<1>2. QED
  BY <1>1, AlwaysRight, PTL

(* A connection that is logged in has its user id, unless the answer is     *)
(* being written to it or came while the consumer held its slot.           *)
THEOREM LoginsAreWhole == Spec => []HalfLoggedInOnlyWhileWriting
<1>1. Right => HalfLoggedInOnlyWhileWriting
  BY DEF Right, TableRight
<1>2. QED
  BY <1>1, AlwaysRight, PTL

(* An answer goes to the connection that asked, with the same two ways out. *)
THEOREM FramesAreOwn == Spec => []FramesReachTheAsker
<1>1. Right => FramesReachTheAsker
  BY DEF Right
<1>2. QED
  BY <1>1, AlwaysRight, PTL

(* What needs a login is asked for by connections that are logged in, or    *)
(* gone, however long the request is on its way.                           *)
THEOREM RequestsAreEntitled == Spec => []PrivilegedRequestsAreLoggedIn
<1>1. Right => PrivilegedRequestsAreLoggedIn
  <2> SUFFICES ASSUME Right, NEW t \in Topics, NEW k \in DOMAIN topic[t],
                      topic[t][k].kind \in Privileged, topic[t][k].gen = gen
               PROVE  \A s \in UsedSlots :
                         slots[s].connection_id = topic[t][k].client => LoggedIn(slots[s])
    BY DEF PrivilegedRequestsAreLoggedIn
  <2>1. topic[t] \in Seq(Current)
    BY DEF Right, TopicsCurrent
  <2>2. topic[t][k] \in Current
    BY <2>1
  <2>3. QED
    BY <2>2 DEF Current, Entitled
<1>2. QED
  BY <1>1, AlwaysRight, PTL

-----------------------------------------------------------------------------
(* The life cycle of a session.                                            *)

\* Nothing that StatusOf looks at changes.
Still ==
    /\ UNCHANGED <<nextId, gen>> /\ UsedSlots' = UsedSlots
    /\ \A s \in UsedSlots : /\ slots'[s].connection_id = slots[s].connection_id
                            /\ slots'[s].state = slots[s].state

Erases == UNCHANGED <<nextId, gen>> /\ \E k : slots' = Erased(k)

LogsIn ==
    /\ UNCHANGED <<nextId, gen>>
    /\ cons.slot \in UsedSlots /\ cons.msg \in Messages
    /\ slots' = Through(cons.slot, Written(slots[cons.slot], "state", cons.msg))

LEMMA WrittenStill ==
    ASSUME IInv, NEW f \in ResponseFields, WriteResponse(f)
    PROVE  Still \/ LogsIn
<1> DEFINE c == slots[cons.slot]
           new == Written(c, f, cons.msg)
<1>1. /\ cons.slot \in Slots /\ cons.msg \in Messages /\ UNCHANGED <<nextId, gen>>
      /\ slots' = Through(cons.slot, new)
  BY DEF WriteResponse, Dispatching, notCons, IInv, ConsTyped, Sound
<1>2. CASE ~Used(cons.slot)
  BY <1>1, <1>2 DEF Through, Still, UsedSlots, Used, IInv, TableTyped
<1>3. CASE Used(cons.slot) /\ f = "state"
  BY <1>1, <1>3 DEF LogsIn, UsedSlots
<1>4. CASE Used(cons.slot) /\ f # "state"
  <2>1. c \in Connections
    BY <1>1, <1>4 DEF IInv, TableTyped, Used, Granted
  <2>2. new \in Connections
    BY <1>1, <2>1, WrittenTyped
  <2>3. new.connection_id = c.connection_id /\ new.state = c.state
    <3>1. CASE f = "admin"
      <4>1. \A h \in BOOLEAN : LET d == [c EXCEPT !.admin = h]
                              IN  d.connection_id = c.connection_id /\ d.state = c.state
        BY <2>1 DEF Connections
      <4>2. new = [c EXCEPT !.admin = (cons.msg.user \in Admins)]
        BY <3>1 DEF Written
      <4>3. QED
        BY <4>1, <4>2
    <3>2. CASE f = "user"
      BY <2>1, <3>2 DEF Written, Connections
    <3>3. QED
      BY <1>4, <3>1, <3>2 DEF ResponseFields
  <2>4. new # Free
    BY <2>2, FreeAssumption
  <2> HIDE DEF new
  <2>5. /\ slots'[cons.slot] = new
        /\ \A s \in Slots : s # cons.slot => slots'[s] = slots[s]
    BY <1>1, <1>4 DEF Through, IInv, TableTyped
  <2>6. UsedSlots' = UsedSlots
    BY <1>4, <2>4, <2>5 DEF UsedSlots, Used
  <2>7. \A s \in UsedSlots : /\ slots'[s].connection_id = slots[s].connection_id
                             /\ slots'[s].state = slots[s].state
    BY <2>3, <2>5 DEF UsedSlots
  <2>8. QED
    BY <1>1, <2>6, <2>7 DEF Still
<1>5. QED
  BY <1>2, <1>3, <1>4

LEMMA ListedStill ==
    ASSUME IInv, GatewayGetCharactersResponse
    PROVE  Still
<1> DEFINE c == slots[cons.slot]
           new == Listed(c, cons.msg)
<1>1. /\ cons.slot \in Slots /\ cons.msg \in Messages /\ cons.msg.body \in Seq(Names)
      /\ slots' = Through(cons.slot, new) /\ UNCHANGED <<nextId, gen>>
  BY DEF GatewayGetCharactersResponse, Dispatching, notCons, IInv, ConsTyped, Sound
<1>2. CASE ~Used(cons.slot)
  BY <1>1, <1>2 DEF Through, Still, UsedSlots, Used, IInv, TableTyped
<1>3. CASE Used(cons.slot)
  <2>1. c \in Connections
    BY <1>1, <1>3 DEF IInv, TableTyped, Used, Granted
  <2>2. new \in Connections
    BY <1>1, <2>1, ListedTyped
  <2>3. new.connection_id = c.connection_id /\ new.state = c.state /\ new # Free
    BY <2>1, <2>2, FreeAssumption DEF Listed, Connections
  <2> HIDE DEF new
  <2>4. /\ slots'[cons.slot] = new
        /\ \A s \in Slots : s # cons.slot => slots'[s] = slots[s]
    BY <1>1, <1>3 DEF Through, IInv, TableTyped
  <2>5. UsedSlots' = UsedSlots
    BY <1>3, <2>3, <2>4 DEF UsedSlots, Used
  <2>6. QED
    BY <1>1, <2>3, <2>4, <2>5 DEF Still, UsedSlots
<1>4. QED
  BY <1>2, <1>3

LEMMA SameStill ==
    ASSUME UNCHANGED <<slots, nextId, gen>>
    PROVE  Still
  BY DEF Still, UsedSlots, Used

\* What a step may do to the sessions.
LEMMA TableSteps ==
    ASSUME IInv, [Next]_vars
    PROVE  Still \/ Erases \/ LogsIn \/ Restart \/ \E w \in Sockets : Accept(w)
<1>1. ASSUME NEW w, Terminate(w), UNCHANGED <<nextId, gen>>
      PROVE  Erases
  BY <1>1 DEF Terminate, Erases
<1>2. CASE ClientStep
  <2>1. PICK w \in Sockets :
            \/ Accept(w) \/ Refuse(w) \/ Disconnect(w) \/ OnMessageUnregistered(w)
            \/ \E f \in ClientFrames : OnMessage(w, f)
    BY <1>2 DEF ClientStep
  <2>2. CASE Refuse(w) \/ Disconnect(w) \/ OnMessageUnregistered(w)
    BY <1>1, <2>2 DEF Refuse, Disconnect, OnMessageUnregistered, notUws
  <2>3. CASE \E f \in ClientFrames : OnMessage(w, f)
    BY <2>3, SameStill DEF OnMessage, notUws
  <2>4. QED
    BY <2>1, <2>2, <2>3
<1>3. CASE UwsStep
  <2>1. UNCHANGED <<nextId, gen>>
    BY <1>3 DEF UwsStep, ClientLogin, ClientChatSend, ClientCreateCharacter,
                ClientGetCharacters, ClientPlayCharacter, ClientAdminQuit, Malformed,
                UwsStops, HandlerReturns, notUws
  <2>2. UNCHANGED slots \/ Terminate(uws.ws)
    BY <1>3 DEF UwsStep, ClientLogin, ClientChatSend, ClientCreateCharacter,
                ClientGetCharacters, ClientPlayCharacter, ClientAdminQuit, Malformed,
                UwsStops, Handling, Reject, Enqueue, TableAfterHandler
  <2>3. QED
    BY <1>1, <2>1, <2>2, SameStill
<1>4. CASE ConsumerStep
  <2>1. UNCHANGED <<nextId, gen>>
    BY <1>4 DEF ConsumerStep, Drop, Lookup, WriteResponse, PollNothing, SendResponse,
                GatewayErrorResponse, GatewayGetCharactersResponse, GatewaySendMap,
                GatewayChatSend, GatewayQuit, notCons
  <2>2. CASE GatewayErrorResponse
    BY <1>1, <2>1, <2>2, SameStill DEF GatewayErrorResponse
  <2>3. CASE \/ \E t \in Subscribed : Drop(t) \/ Lookup(t)
             \/ PollNothing \/ SendResponse \/ GatewaySendMap \/ GatewayChatSend
             \/ GatewayQuit
    BY <2>1, <2>3, SameStill
    DEF Drop, Lookup, PollNothing, SendResponse, GatewaySendMap, GatewayChatSend, GatewayQuit
  <2>4. QED
    BY <1>4, <2>2, <2>3, WrittenStill, ListedStill DEF ConsumerStep
<1>5. CASE MainStep \/ CommitOffsets \/ Sigint
  BY <1>5, SameStill
  DEF MainStep, MainLoopEnds, MainProducerClosed, MainConsumerClosed, MainWaited,
      MainReturns, MainMoves, notMain, CommitOffsets, notCons, Sigint
<1>6. CASE ServiceStep
  <2>1. PICK t, k : Served(t, k)
    BY <1>6 DEF ServiceStep, BackendLogin, BackendRegister, BackendCreateCharacter,
                WorldGetCharacters, WorldPlayCharacter, Failed, Banned, Reply, Ignore
  <2>2. QED
    BY <2>1, SameStill DEF Served
<1>7. CASE UNCHANGED vars
  BY <1>7, SameStill DEF vars
<1>8. QED
  BY <1>2, <1>3, <1>4, <1>5, <1>6, <1>7 DEF Next

SessionIds == 0 .. MaxIds - 1

\* The refinement mapping, entry by entry: an id has one slot at most.
StatusByEntry ==
    /\ \A s \in UsedSlots :
          /\ slots[s].connection_id \in SessionIds /\ slots[s].connection_id < nextId
          /\ StatusOf(slots[s].connection_id) =
                IF LoggedIn(slots[s]) THEN "logged_in" ELSE "open"
    /\ \A i \in SessionIds : i >= nextId => StatusOf(i) = "absent"
    /\ \A i \in SessionIds :
          (i < nextId /\ \A s \in UsedSlots : slots[s].connection_id # i)
             => StatusOf(i) = "closed"

LEMMA Statuses == MInv => StatusByEntry
<1> SUFFICES ASSUME MInv PROVE StatusByEntry
  OBVIOUS
<1>1. nextId \in 0 .. MaxIds /\ MaxIds \in Nat
  BY GatewayAssumption DEF MInv, IInv, RestTyped
<1>2. ASSUME NEW s \in UsedSlots
      PROVE  /\ slots[s].connection_id \in SessionIds /\ slots[s].connection_id < nextId
             /\ StatusOf(slots[s].connection_id) =
                   IF LoggedIn(slots[s]) THEN "logged_in" ELSE "open"
  <2> DEFINE i == slots[s].connection_id
  <2>1. i \in Nat /\ i < nextId
    BY <1>2, EntriesTyped DEF MInv, TableMirrorsSockets
  <2>2. i \in SessionIds /\ ~(i >= nextId)
    BY <1>1, <2>1 DEF SessionIds
  <2>3. {t \in UsedSlots : slots[t].connection_id = i} = {s}
    BY <1>2 DEF MInv, TableMirrorsSockets
  <2>4. StatusOf(i) = IF LoggedIn(slots[s]) THEN "logged_in" ELSE "open"
    BY <2>2, <2>3 DEF StatusOf
  <2>5. QED
    BY <2>1, <2>2, <2>4
<1>3. ASSUME NEW i \in SessionIds
      PROVE  /\ i >= nextId => StatusOf(i) = "absent"
             /\ (i < nextId /\ \A s \in UsedSlots : slots[s].connection_id # i)
                   => StatusOf(i) = "closed"
  BY <1>1, <1>3 DEF StatusOf, SessionIds
<1>4. QED
  BY <1>2, <1>3 DEF StatusByEntry

LEMMA StatusesNext == MInv' => StatusByEntry'
  BY Statuses, PTL

(* What the table's steps mean to the sessions.                            *)

SessionStatus == [i \in SessionIds |-> StatusOf(i)]

LEMMA StillStutters ==
    ASSUME Still
    PROVE  UNCHANGED <<nextId, SessionStatus, gen>>
<1>1. \A i : StatusOf(i)' = StatusOf(i)
  BY DEF Still, StatusOf, LoggedIn
<1>2. QED
  BY <1>1 DEF Still, SessionStatus

LEMMA AcceptOpens ==
    ASSUME MInv, MInv', NEW w \in Sockets, Accept(w)
    PROVE  S!Open
<1>1. PICK s \in Slots \ UsedSlots :
          slots' = [slots EXCEPT ![s] =
                       NewConnection(w, nextId, cons.pc = "dispatch" /\ cons.slot = s)]
  BY DEF Accept
<1> DEFINE h == cons.pc = "dispatch" /\ cons.slot = s
<1>2. \A g : LET new == NewConnection(w, nextId, g)
             IN  new.connection_id = nextId /\ ~LoggedIn(new)
  BY DEF NewConnection, LoggedIn
<1>3. \A g \in BOOLEAN : NewConnection(w, nextId, g) \in Connections
  BY GatewayAssumption DEF NewConnection, Connections, States, MInv, IInv, RestTyped
<1>4. h \in BOOLEAN
  OBVIOUS
<1> HIDE DEF h
<1>5. /\ slots'[s].connection_id = nextId /\ ~LoggedIn(slots'[s]) /\ slots'[s] # Free
      /\ \A t \in Slots : t # s => slots'[t] = slots[t]
  <2>1. slots'[s] = NewConnection(w, nextId, h) /\ \A t \in Slots : t # s => slots'[t] = slots[t]
    BY <1>1 DEF MInv, IInv, TableTyped, h
  <2>2. QED
    BY <1>2, <1>3, <1>4, <2>1, FreeAssumption
<1>6. nextId' = nextId + 1 /\ nextId < MaxIds /\ gen' = gen /\ nextId \in Nat /\ MaxIds \in Nat
  BY GatewayAssumption DEF Accept, notUws, MInv, IInv, RestTyped
<1>7. UsedSlots' = UsedSlots \cup {s}
  BY <1>5 DEF UsedSlots, Used
<1>8. StatusByEntry /\ StatusByEntry'
  BY Statuses, StatusesNext
<1>9. PICK n : n = nextId
  OBVIOUS
<1>10. n \in SessionIds /\ StatusOf(n)' = "open"
  BY <1>5, <1>6, <1>7, <1>8, <1>9 DEF StatusByEntry, SessionIds, LoggedIn
<1>11. ASSUME NEW i \in SessionIds, i # n
       PROVE  StatusOf(i)' = StatusOf(i)
  <2>1. CASE \E t \in UsedSlots : slots[t].connection_id = i
    <3>1. PICK t \in UsedSlots : slots[t].connection_id = i
      BY <2>1
    <3>2. t \in UsedSlots' /\ slots'[t] = slots[t]
      BY <1>5, <1>7 DEF UsedSlots
    <3>3. QED
      BY <1>8, <3>1, <3>2 DEF StatusByEntry, LoggedIn
  <2>2. CASE \A t \in UsedSlots : slots[t].connection_id # i
    <3>1. \A t \in UsedSlots' : slots'[t].connection_id # i
      BY <1>5, <1>7, <1>9, <1>11, <2>2 DEF UsedSlots
    <3>2. i \in Nat /\ (i < nextId <=> i < nextId') /\ (i >= nextId <=> i >= nextId')
      BY <1>6, <1>9, <1>11 DEF SessionIds
    <3>3. i < nextId \/ i >= nextId
      BY <1>6, <3>2
    <3>4. QED
      BY <1>8, <2>2, <3>1, <3>2, <3>3 DEF StatusByEntry
  <2>3. QED
    BY <2>1, <2>2
<1>12. SessionStatus' = [SessionStatus EXCEPT ![n] = "open"]
  BY <1>10, <1>11 DEF SessionStatus
<1>13. QED
  BY <1>6, <1>9, <1>10, <1>12 DEF S!Open, S!Ids, SessionIds, SessionStatus

LEMMA EraseCloses ==
    ASSUME MInv, MInv', Erases
    PROVE  UNCHANGED <<nextId, SessionStatus, gen>> \/ \E i \in SessionIds : S!Close(i)
<1>1. PICK k : slots' = Erased(k)
  BY DEF Erases
<1>2. UNCHANGED <<nextId, gen>>
  BY DEF Erases
<1>3. \A t \in Slots : slots'[t] = IF t \in Registered(k) THEN Free ELSE slots[t]
  BY <1>1 DEF Erased
<1>4. UsedSlots' = UsedSlots \ Registered(k)
  BY <1>3 DEF UsedSlots, Used
<1>5. CASE Registered(k) = {}
  BY <1>2, <1>3, <1>4, <1>5, StillStutters DEF Still, UsedSlots
<1>6. CASE Registered(k) # {}
  <2>1. PICK s \in UsedSlots : KeyOf[slots[s].ws] = k
    BY <1>6 DEF Registered
  <2>2. Registered(k) = {s}
    BY <2>1 DEF Registered, MInv, TableMirrorsSockets
  <2>3. PICK i : i = slots[s].connection_id
    OBVIOUS
  <2>4. StatusByEntry /\ StatusByEntry'
    BY Statuses, StatusesNext
  <2>5. i \in SessionIds /\ i < nextId /\ StatusOf(i) \in {"open", "logged_in"}
    BY <2>1, <2>3, <2>4 DEF StatusByEntry
  <2>6. \A t \in UsedSlots' : /\ t \in UsedSlots /\ slots'[t] = slots[t]
                              /\ slots[t].connection_id # i
    BY <1>3, <1>4, <2>1, <2>2, <2>3 DEF MInv, TableMirrorsSockets, UsedSlots
  <2>7. StatusOf(i)' = "closed"
    BY <1>2, <2>4, <2>5, <2>6 DEF StatusByEntry
  <2>8. ASSUME NEW j \in SessionIds, j # i
        PROVE  StatusOf(j)' = StatusOf(j)
    <3>1. CASE \E t \in UsedSlots : slots[t].connection_id = j
      <4>1. PICK t \in UsedSlots : slots[t].connection_id = j
        BY <3>1
      <4>2. t \in UsedSlots' /\ slots'[t] = slots[t]
        BY <1>3, <1>4, <2>2, <2>3, <2>8, <4>1 DEF UsedSlots
      <4>3. QED
        BY <2>4, <4>1, <4>2 DEF StatusByEntry, LoggedIn
    <3>2. CASE \A t \in UsedSlots : slots[t].connection_id # j
      <4>1. \A t \in UsedSlots' : slots'[t].connection_id # j
        BY <2>6, <3>2
      <4>2. j < nextId \/ j >= nextId
        BY GatewayAssumption DEF MInv, IInv, RestTyped, SessionIds
      <4>3. QED
        BY <1>2, <2>4, <3>2, <4>1, <4>2 DEF StatusByEntry
    <3>3. QED
      BY <3>1, <3>2
  <2>9. SessionStatus' = [SessionStatus EXCEPT ![i] = "closed"]
    BY <2>5, <2>7, <2>8 DEF SessionStatus
  <2>10. S!Close(i)
    BY <1>2, <2>5, <2>9 DEF S!Close, SessionIds, SessionStatus
  <2>11. QED
    BY <2>5, <2>10
<1>7. QED
  BY <1>5, <1>6

LEMMA WriteLogsIn ==
    ASSUME MInv, MInv', LogsIn
    PROVE  UNCHANGED <<nextId, SessionStatus, gen>> \/ \E i \in SessionIds : S!LogIn(i)
<1> DEFINE c == slots[cons.slot]
           new == Written(c, "state", cons.msg)
<1>1. UNCHANGED <<nextId, gen>> /\ cons.slot \in UsedSlots /\ slots' = Through(cons.slot, new)
      /\ cons.msg \in Messages
  BY DEF LogsIn
<1>2. PICK s \in UsedSlots : s = cons.slot
  BY <1>1
<1>3. c \in Connections
  BY <1>2, EntriesTyped DEF MInv
<1>4. new \in Connections
  BY <1>1, <1>3, WrittenTyped DEF ResponseFields
<1>5. new.connection_id = c.connection_id /\ LoggedIn(new) /\ new # Free
  BY <1>1, <1>3, <1>4, WrittenFields, FreeAssumption DEF ResponseFields
<1> HIDE DEF new
<1>6. slots'[s] = new /\ \A t \in Slots : t # s => slots'[t] = slots[t]
  BY <1>1, <1>2 DEF Through, UsedSlots, MInv, IInv, TableTyped
<1>7. UsedSlots' = UsedSlots
  BY <1>1, <1>2, <1>5, <1>6 DEF UsedSlots, Used
<1>8. \A t \in UsedSlots : slots'[t].connection_id = slots[t].connection_id
  BY <1>2, <1>5, <1>6 DEF UsedSlots
<1>9. CASE LoggedIn(slots[s])
  <2>1. \A t \in UsedSlots : slots'[t].state = slots[t].state
    BY <1>2, <1>5, <1>6, <1>9 DEF UsedSlots, LoggedIn
  <2>2. QED
    BY <1>1, <1>7, <1>8, <2>1, StillStutters DEF Still
<1>10. CASE ~LoggedIn(slots[s])
  <2>1. PICK i : i = slots[s].connection_id
    OBVIOUS
  <2>2. StatusByEntry /\ StatusByEntry'
    BY Statuses, StatusesNext
  <2>3. i \in SessionIds /\ StatusOf(i) = "open"
    BY <1>10, <2>1, <2>2 DEF StatusByEntry
  <2>4. StatusOf(i)' = "logged_in"
    BY <1>2, <1>5, <1>6, <1>7, <1>8, <2>1, <2>2 DEF StatusByEntry, LoggedIn
  <2>5. ASSUME NEW j \in SessionIds, j # i
        PROVE  StatusOf(j)' = StatusOf(j)
    <3>1. CASE \E t \in UsedSlots : slots[t].connection_id = j
      <4>1. PICK t \in UsedSlots : slots[t].connection_id = j
        BY <3>1
      <4>2. t \in UsedSlots' /\ slots'[t] = slots[t]
        BY <1>6, <1>7, <2>1, <2>5, <4>1 DEF UsedSlots
      <4>3. QED
        BY <2>2, <4>1, <4>2 DEF StatusByEntry, LoggedIn
    <3>2. CASE \A t \in UsedSlots : slots[t].connection_id # j
      <4>1. \A t \in UsedSlots' : slots'[t].connection_id # j
        BY <1>7, <1>8, <3>2
      <4>2. j < nextId \/ j >= nextId
        BY GatewayAssumption DEF MInv, IInv, RestTyped, SessionIds
      <4>3. QED
        BY <1>1, <2>2, <3>2, <4>1, <4>2 DEF StatusByEntry
    <3>3. QED
      BY <3>1, <3>2
  <2>6. SessionStatus' = [SessionStatus EXCEPT ![i] = "logged_in"]
    BY <2>3, <2>4, <2>5 DEF SessionStatus
  <2>7. S!LogIn(i)
    BY <1>1, <2>3, <2>6 DEF S!LogIn, SessionIds, SessionStatus
  <2>8. QED
    BY <2>3, <2>7
<1>11. QED
  BY <1>9, <1>10

LEMMA NobodyYet ==
    ASSUME nextId = 0
    PROVE  SessionStatus = [i \in SessionIds |-> "absent"]
<1>1. \A i \in SessionIds : StatusOf(i) = "absent"
  BY GatewayAssumption DEF StatusOf, SessionIds
<1>2. QED
  BY <1>1 DEF SessionStatus

LEMMA RestartBegins ==
    ASSUME Restart
    PROVE  S!NewRun
<1>1. nextId' = 0 /\ gen' = gen + 1
  BY DEF Restart
<1>2. \A i \in SessionIds : StatusOf(i)' = "absent"
  BY <1>1, GatewayAssumption DEF StatusOf, SessionIds
<1>3. SessionStatus' = [i \in SessionIds |-> "absent"]
  BY <1>2 DEF SessionStatus
<1>4. QED
  BY <1>1, <1>3 DEF S!NewRun, S!Ids, SessionIds, SessionStatus

(* The table and its counter, written by two threads, are an               *)
(* implementation of Sessions: ids in order and once, a login once, an end  *)
(* once, and nothing left over after a restart.                            *)
THEOREM SessionsRefined == Spec => ImplementsSessions
<1>1. Init => S!Init
  <2> SUFFICES ASSUME Init PROVE S!Init
    OBVIOUS
  <2>1. nextId = 0 /\ gen = 0
    BY DEF Init
  <2>2. QED
    BY <2>1, NobodyYet DEF S!Init, S!Fresh, S!Ids, SessionIds, SessionStatus
<1>2. MInv /\ MInv' /\ [Next]_vars => [S!Next]_(S!vars)
  <2> SUFFICES ASSUME MInv, MInv', [Next]_vars
               PROVE  S!Next \/ UNCHANGED <<nextId, SessionStatus, gen>>
    BY DEF S!vars, SessionStatus, SessionIds
  <2>1. IInv
    BY DEF MInv
  <2>2. CASE Still
    BY <2>2, StillStutters
  <2>3. CASE Erases
    BY <2>3, EraseCloses DEF S!Next, S!Ids, SessionIds
  <2>4. CASE LogsIn
    BY <2>4, WriteLogsIn DEF S!Next, S!Ids, SessionIds
  <2>5. CASE Restart
    BY <2>5, RestartBegins DEF S!Next
  <2>6. CASE \E w \in Sockets : Accept(w)
    BY <2>6, AcceptOpens DEF S!Next
  <2>7. QED
    BY <2>1, <2>2, <2>3, <2>4, <2>5, <2>6, TableSteps
<1>3. Spec => []MInv
  BY InductiveInvariant, TableIsMirror, PTL DEF MInv
<1>4. QED
  BY <1>1, <1>2, <1>3, PTL DEF Spec, ImplementsSessions, S!Spec

=============================================================================
