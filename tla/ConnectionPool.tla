---------------------------- MODULE ConnectionPool ----------------------------
(***************************************************************************)
(* What users of a pool of connections count on: a thread is handed a      *)
(* connection that nobody has, and keeps it to itself until it gives it    *)
(* back.                                                                   *)
(***************************************************************************)
CONSTANTS Threads, Connections, Nobody

VARIABLE holder

Init == holder = [c \in Connections |-> Nobody]

HandOut(t, c) ==
    /\ holder[c] = Nobody
    /\ holder' = [holder EXCEPT ![c] = t]

GiveBack(t, c) ==
    /\ holder[c] = t
    /\ holder' = [holder EXCEPT ![c] = Nobody]

Next == \E t \in Threads, c \in Connections : HandOut(t, c) \/ GiveBack(t, c)

Spec == Init /\ [][Next]_holder

=============================================================================
