------------------------------ MODULE Sessions ------------------------------
(***************************************************************************)
(* What one run of the gateway promises about its connections, whatever    *)
(* its threads do: ids are handed out once and in order, a connection that *)
(* is logged in stays logged in until it is closed, a closed one never     *)
(* comes back, and a new run starts with none.                             *)
(***************************************************************************)
EXTENDS Naturals

CONSTANT MaxIds  \* bound: connections accepted by one run

VARIABLES next, status, run

vars == <<next, status, run>>

Ids == 0 .. MaxIds - 1
Statuses == {"absent", "open", "logged_in", "closed"}

Fresh == next = 0 /\ status = [i \in Ids |-> "absent"]

Init == Fresh /\ run = 0

Open ==
    /\ next \in Ids
    /\ status' = [status EXCEPT ![next] = "open"]
    /\ next' = next + 1
    /\ UNCHANGED run

LogIn(i) ==
    /\ status[i] = "open"
    /\ status' = [status EXCEPT ![i] = "logged_in"]
    /\ UNCHANGED <<next, run>>

Close(i) ==
    /\ status[i] \in {"open", "logged_in"}
    /\ status' = [status EXCEPT ![i] = "closed"]
    /\ UNCHANGED <<next, run>>

NewRun ==
    /\ next' = 0 /\ status' = [i \in Ids |-> "absent"]
    /\ run' = run + 1

Next == Open \/ NewRun \/ \E i \in Ids : LogIn(i) \/ Close(i)

Spec == Init /\ [][Next]_vars

=============================================================================
