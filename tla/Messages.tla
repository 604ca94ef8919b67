------------------------------ MODULE Messages ------------------------------
(***************************************************************************)
(* The messages (common/src/messages) as they are on the wire.  Each class *)
(* writes its fields itself, message::deserialize reads the fields of all  *)
(* of them: nothing but care keeps the two alike.  A binary archive is a   *)
(* sequence of values, read in order; a JSON archive names its values.     *)
(***************************************************************************)
EXTENDS Naturals, Sequences

Field(name, type) == [name |-> name, type |-> type]
Text(name) == Field(name, "string")
UserId == Field("user_id", "uint64")
AdminStatus == Field("admin_status", "int16")

-----------------------------------------------------------------------------
(* What serialize of each class writes after the id and the sender.         *)

Class(id, fields) == [id |-> id, fields |-> fields]

ErrorResponse == Class(8, <<Field("error_number", "int32"), Text("error_str")>>)
Login == Class(0, <<Text("username"), Text("password"), Text("ip")>>)
LoginResponse == Class(1, <<AdminStatus, UserId>>)

\* Mutant: the fields in another order than the constructor has them.
RegisterIpFirst == Class(2, <<Text("username"), Text("password"), Text("ip"), Text("email")>>)

Register == Class(2, <<Text("username"), Text("password"), Text("email"), Text("ip")>>)
RegisterResponse == Class(3, <<AdminStatus, UserId>>)
Logout == Class(6, <<>>)
CreateCharacter == Class(7, <<UserId, Text("player_name")>>)
PlayCharacter == Class(9, <<UserId, Text("player_name")>>)
GetCharacters == Class(12, <<UserId>>)
\* A player_response is written and read by one function, which makes it a value.
GetCharactersResponse == Class(10, <<Field("players", "player_responses"), Text("world_name")>>)
ChatSend == Class(4, <<Text("from_username"), Text("target"), Text("message")>>)
ChatReceive == Class(5, <<Text("from_username"), Text("target"), Text("message")>>)
SendMap == Class(11, <<Text("map_data")>>)
AdminQuit == Class(10000, <<>>)

Classes == {ErrorResponse, Login, LoginResponse, Register, RegisterResponse, Logout,
            CreateCharacter, PlayCharacter, GetCharacters, GetCharactersResponse,
            ChatSend, ChatReceive, SendMap, AdminQuit}

\* What every serialize writes first.
Heading == <<Field("id", "uint32"), Field("sender", "message_sender")>>

\* The fields that the cases of message::deserialize read.
Cases ==
    [id \in {0, 1, 2, 3, 4, 5, 6, 7, 8, 9, 10, 11, 12, 10000} |->
        CASE id = 8 -> <<Field("error_number", "int32"), Text("error_str")>>
          [] id = 0 -> <<Text("username"), Text("password"), Text("ip")>>
          [] id = 1 -> <<Field("admin_status", "int16"), Field("user_id", "uint64")>>
          [] id = 2 -> <<Text("username"), Text("password"), Text("email"), Text("ip")>>
          [] id = 3 -> <<Field("admin_status", "int16"), Field("user_id", "uint64")>>
          [] id = 6 -> <<>>
          [] id = 7 -> <<Field("user_id", "uint64"), Text("player_name")>>
          [] id = 9 -> <<Field("user_id", "uint64"), Text("player_name")>>
          [] id = 12 -> <<Field("user_id", "uint64")>>
          [] id = 10 -> <<Field("players", "player_responses"), Text("world_name")>>
          [] id = 4 -> <<Text("from_username"), Text("target"), Text("message")>>
          [] id = 5 -> <<Text("from_username"), Text("target"), Text("message")>>
          [] id = 11 -> <<Text("map_data")>>
          [] id = 10000 -> <<>>]

-----------------------------------------------------------------------------
(* A message is its id and the values of its fields, the sender among them, *)
(* by their names.                                                         *)

Message(id, values) == [id |-> id, values |-> values]

\* serialize: a buffer is the sequence of what was written.
Serialize(m) ==
    LET class == CHOOSE c \in Classes : c.id = m.id
        written == Tail(Heading) \o class.fields
    IN  <<[name |-> "id", type |-> "uint32", value |-> <<m.id>>]>>
        \o [k \in DOMAIN written |->
               [name |-> written[k].name, type |-> written[k].type,
                value |-> m.values[written[k].name]]]

(* serialization_exception, or what cereal throws; no message has its id.   *)
Exception == Message(99999, <<>>)

\* BinaryInputArchive: the next value, whatever its name.
ReadBinary(buffer, fields) ==
    IF /\ Len(fields) <= Len(buffer)
       /\ \A k \in DOMAIN fields : buffer[k].type = fields[k].type
    THEN [f \in {fields[k].name : k \in DOMAIN fields} |->
             buffer[CHOOSE k \in DOMAIN fields : fields[k].name = f].value]
    ELSE <<>>

\* JSONInputArchive: the value of that name, wherever it is.
ReadJson(buffer, fields) ==
    IF \A k \in DOMAIN fields : \E j \in DOMAIN buffer : buffer[j].name = fields[k].name
    THEN [f \in {fields[k].name : k \in DOMAIN fields} |->
             buffer[CHOOSE j \in DOMAIN buffer : buffer[j].name = f].value]
    ELSE <<>>

Read(archive, buffer, fields) ==
    IF archive = "json" THEN ReadJson(buffer, fields) ELSE ReadBinary(buffer, fields)

\* message::deserialize, which throws for an empty, short or unknown buffer.
Deserialize(archive, buffer) ==
    LET id == Read(archive, buffer, Heading).id[1]
        values == Read(archive, buffer, Heading \o Cases[id])
    IN  IF buffer = <<>> \/ Read(archive, buffer, Heading) = <<>> THEN Exception
        ELSE IF id \notin DOMAIN Cases THEN Exception
        ELSE IF values = <<>> THEN Exception
        ELSE Message(id, [f \in DOMAIN values \ {"id"} |-> values[f]])

=============================================================================
