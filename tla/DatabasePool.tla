----------------------------- MODULE DatabasePool -----------------------------
(***************************************************************************)
(* The pool of database connections (common/src/database_pool.cpp) and the *)
(* transactions that repositories open on them: a thread gets a            *)
(* connection, starts a transaction on it, works, and destroys the pair.   *)
(* One action per critical section of the pool's mutex and per step of the *)
(* thread outside of it.                                                   *)
(***************************************************************************)
EXTENDS Integers, FiniteSets

CONSTANTS
    Threads,     \* the threads that share the pool
    None,        \* no connection, or nobody
    PoolSize,    \* _min_connections
    Orders       \* in which orders the pair of a transaction may be destroyed

(* The standard leaves open in which order a std::tuple destroys its        *)
(* elements: libstdc++ starts with the first, the connection.              *)
DestructionOrders == {"connection_first", "transaction_first"}

ASSUME PoolAssumption ==
    /\ PoolSize \in Nat \ {0}
    /\ None \notin Threads /\ None \notin 0 .. PoolSize - 1
    /\ Orders \subseteq DestructionOrders

Ids == 0 .. PoolSize - 1

VARIABLES
    available,  \* the first field of each tuple in _connections
    pc,         \* where each thread is
    held,       \* the connection whose database_connection the thread owns
    session,    \* the connection its open pqxx transaction is on
    terminated  \* an exception left a noexcept function

vars == <<available, pc, held, session, terminated>>

Init ==
    /\ available = [c \in Ids |-> TRUE]
    /\ pc = [t \in Threads |-> "idle"]
    /\ held = [t \in Threads |-> None]
    /\ session = [t \in Threads |-> None]
    /\ terminated = FALSE

At(t, place) == ~terminated /\ pc[t] = place
Goto(t, place) == pc' = [pc EXCEPT ![t] = place]

\* repository::create_transaction calls get_connection.
Ask(t) ==
    /\ At(t, "idle")
    /\ Goto(t, "getting")
    /\ UNCHANGED <<available, held, session, terminated>>

\* Mutant: the connection is not marked.
LeftUnmarked == available

\* What get_connection's loop over _connections leaves marked as available.
LeftAvailable == [c \in Ids |-> FALSE]

\* The connection its last free iteration leaves in conn.
Chosen(c) == available[c] /\ \A d \in Ids : available[d] => d <= c

\* Mutant: ids count from one.
TakeFromOne(t) ==
    /\ At(t, "getting")
    /\ \E c \in Ids : Chosen(c) /\ held' = [held EXCEPT ![t] = c + 1]
    /\ available' = LeftAvailable
    /\ Goto(t, "got")
    /\ UNCHANGED <<session, terminated>>

(* One round of get_connection's retry loop that finds something free: the  *)
(* loop over _connections does not stop at the first free one.             *)
Take(t) ==
    /\ At(t, "getting")
    /\ \E c \in Ids : Chosen(c) /\ held' = [held EXCEPT ![t] = c]
    /\ available' = LeftAvailable
    /\ Goto(t, "got")
    /\ UNCHANGED <<session, terminated>>

(* database_transaction's constructor is noexcept, and pqxx refuses a       *)
(* second transaction on a connection.                                     *)
Begin(t) ==
    /\ At(t, "got")
    /\ \/ /\ \A u \in Threads : session[u] # held[t]
          /\ session' = [session EXCEPT ![t] = held[t]]
          /\ Goto(t, "working")
          /\ UNCHANGED terminated
       \/ /\ \E u \in Threads : session[u] = held[t]
          /\ terminated' = TRUE
          /\ UNCHANGED <<session, pc>>
    /\ UNCHANGED <<available, held>>

\* commit() ends the pqxx transaction, the object lives on.
Commit(t) ==
    /\ At(t, "working") /\ session[t] # None
    /\ session' = [session EXCEPT ![t] = None]
    /\ UNCHANGED <<available, pc, held, terminated>>

\* The tuple goes out of scope, after a commit or without one.
Destroy(t) ==
    /\ At(t, "working")
    /\ \E o \in Orders : Goto(t, o)
    /\ UNCHANGED <<available, held, session, terminated>>

\* Mutant: what was not committed stays open.
AbortForgotten(t) ==
    /\ \/ At(t, "transaction_first") /\ Goto(t, "release")
       \/ At(t, "abort") /\ Goto(t, "idle")
    /\ UNCHANGED <<available, held, session, terminated>>

\* ~database_transaction aborts what was not committed.
Abort(t) ==
    /\ \/ At(t, "transaction_first") /\ Goto(t, "release")
       \/ At(t, "abort") /\ Goto(t, "idle")
    /\ session' = [session EXCEPT ![t] = None]
    /\ UNCHANGED <<available, held, terminated>>

\* Mutant: the connection is not marked as available again.
ReleaseForgotten(t) ==
    /\ \/ At(t, "release") /\ Goto(t, "idle")
       \/ At(t, "connection_first") /\ Goto(t, "abort")
    /\ held' = [held EXCEPT ![t] = None]
    /\ UNCHANGED <<available, session, terminated>>

\* ~database_connection calls release_connection, and is noexcept.
Release(t) ==
    /\ \/ At(t, "release") /\ Goto(t, "idle")
       \/ At(t, "connection_first") /\ Goto(t, "abort")
    /\ terminated' = available[held[t]]
    /\ available' = [available EXCEPT ![held[t]] = TRUE]
    /\ held' = [held EXCEPT ![t] = None]
    /\ UNCHANGED session

Step(t) == Take(t) \/ Begin(t) \/ Destroy(t) \/ Abort(t) \/ Release(t)

Next == \E t \in Threads : Ask(t) \/ Commit(t) \/ Step(t)

Spec == Init /\ [][Next]_vars

\* A thread that is at it goes on; it need not ask, nor commit.
Fairness == \A t \in Threads : WF_vars(Step(t))

FairSpec == Spec /\ Fairness

-----------------------------------------------------------------------------
(* Every variable keeps its type.                                          *)
TypeOK ==
    /\ available \in [Ids -> BOOLEAN]
    /\ pc \in [Threads -> {"idle", "getting", "got", "working", "release", "abort"}
                          \cup DestructionOrders]
    /\ held \in [Threads -> Ids \cup {None}]
    /\ session \in [Threads -> Ids \cup {None}]
    /\ terminated \in BOOLEAN

(* The pool hands a connection to one thread at a time and gets it back     *)
(* once: no two threads hold the same one, none is held while it is marked *)
(* available, and so release_connection never finds it released already.   *)
ConnectionsAreExclusive ==
    \A t \in Threads : held[t] # None =>
        /\ ~available[held[t]]
        /\ \A u \in Threads \ {t} : held[u] # held[t]

(* Whoever waits in get_connection waits for another thread and not for     *)
(* ever: a connection is free or somebody is going to release one.         *)
PoolIsNeverDry ==
    (\E c \in Ids : available[c]) \/ (\E t \in Threads : held[t] # None)

(* No connection ever carries two transactions and none is released twice,  *)
(* which would end the process, except while a thread whose tuple has       *)
(* destroyed the connection first has yet to abort its transaction.        *)
TerminatedOnlyBeforeAnAbort ==
    terminated => \E t \in Threads : pc[t] = "abort" /\ session[t] # None

\* The pool hands out connections as ConnectionPool promises.
Holder(c) ==
    IF \E t \in Threads : held[t] = c THEN CHOOSE t \in Threads : held[t] = c ELSE None

Abstract == INSTANCE ConnectionPool WITH
    Connections <- Ids, Nobody <- None, holder <- [c \in Ids |-> Holder(c)]

ImplementsConnectionPool == Abstract!Spec

(* While some thread asks, connections keep being handed out.               *)
SomebodyGetsOne ==
    (\E t \in Threads : pc[t] = "getting")
        ~> (\E t \in Threads : pc[t] = "got" \/ terminated)

(* database_pool.cpp:66: "true == available for use, false = current in     *)
(* use": a connection that is not marked as available has a user.          *)
FalseMeansInUse == \A c \in Ids : ~available[c] => \E t \in Threads : held[t] = c

=============================================================================
