-------------------------- MODULE DatabasePoolProofs --------------------------
(***************************************************************************)
(* For any number of threads and any size, whatever the order in which a   *)
(* tuple is destroyed: the pool of DatabasePool hands a connection to one  *)
(* thread at a time, and as ConnectionPool promises.                       *)
(***************************************************************************)
EXTENDS DatabasePool, TLAPS

(* A thread owns a connection exactly from Take to Release.                 *)
Owning == {"got", "working", "transaction_first", "release", "connection_first"}

OwnersByPlace == \A t \in Threads : held[t] # None <=> pc[t] \in Owning

IInv == TypeOK /\ OwnersByPlace /\ ConnectionsAreExclusive /\ PoolIsNeverDry

\* Of several free connections the loop ends with one.
LEMMA ChosenIsAvailable ==
    ASSUME NEW c \in Ids, Chosen(c)
    PROVE  available[c]
  BY DEF Chosen

(* The four facts are inductive together: that a released connection was    *)
(* not available rests on who owns it, and that on where each thread is.   *)
LEMMA InductiveInvariant == Spec => []IInv
<1>1. Init => IInv
  <2>1. 0 \in Ids
    BY PoolAssumption DEF Ids
  <2>2. QED
    BY <2>1, PoolAssumption
    DEF Init, IInv, TypeOK, OwnersByPlace, Owning, ConnectionsAreExclusive,
        PoolIsNeverDry, DestructionOrders
<1>2. IInv /\ [Next]_vars => IInv'
  <2> SUFFICES ASSUME IInv, [Next]_vars
               PROVE  IInv'
    OBVIOUS
  <2> USE PoolAssumption
      DEF IInv, TypeOK, OwnersByPlace, Owning, ConnectionsAreExclusive, PoolIsNeverDry,
          At, Goto, DestructionOrders
  <2>1. ASSUME NEW t \in Threads, Ask(t)
        PROVE  IInv'
    BY <2>1 DEF Ask
  <2>2. ASSUME NEW t \in Threads, Commit(t)
        PROVE  IInv'
    BY <2>2 DEF Commit
  <2>3. ASSUME NEW t \in Threads, Take(t)
        PROVE  IInv'
    <3>1. PICK c \in Ids : Chosen(c) /\ held' = [held EXCEPT ![t] = c]
      BY <2>3 DEF Take
    <3>2. available[c]
      BY <3>1, ChosenIsAvailable
    <3>3. available' = [d \in Ids |-> FALSE]
      BY <2>3 DEF Take, LeftAvailable
    <3>4. TypeOK'
      BY <2>3, <3>1, <3>3 DEF Take
    <3>5. held'[t] = c /\ c # None
      BY <3>1 DEF Ids
    <3>6. OwnersByPlace'
      BY <2>3, <3>1, <3>5 DEF Take
    <3>7. \A u \in Threads : held[u] # c
      BY <3>2, <3>5
    <3>8. ConnectionsAreExclusive'
      BY <3>1, <3>3, <3>5, <3>7
    <3>9. PoolIsNeverDry'
      BY <3>5
    <3>10. QED
      BY <3>4, <3>6, <3>8, <3>9
  <2>4. ASSUME NEW t \in Threads, Begin(t)
        PROVE  IInv'
    BY <2>4 DEF Begin
  <2>5. ASSUME NEW t \in Threads, Destroy(t)
        PROVE  IInv'
    BY <2>5 DEF Destroy
  <2>6. ASSUME NEW t \in Threads, Abort(t)
        PROVE  IInv'
    BY <2>6 DEF Abort
  <2>7. ASSUME NEW t \in Threads, Release(t)
        PROVE  IInv'
    <3>1. held[t] \in Ids /\ pc[t] \in {"release", "connection_first"}
      BY <2>7 DEF Release
    <3>2. TypeOK'
      BY <2>7, <3>1 DEF Release
    <3>3. OwnersByPlace'
      BY <2>7, <3>1 DEF Release
    <3>4. ConnectionsAreExclusive'
      BY <2>7, <3>1 DEF Release
    <3>5. PoolIsNeverDry'
      BY <2>7, <3>1 DEF Release
    <3>6. QED
      BY <3>2, <3>3, <3>4, <3>5
  <2>8. CASE UNCHANGED vars
    BY <2>8 DEF vars
  <2>9. QED
    BY <2>1, <2>2, <2>3, <2>4, <2>5, <2>6, <2>7, <2>8 DEF Next, Step
<1>3. QED
  BY <1>1, <1>2, PTL DEF Spec

(* Every variable of the pool keeps its type.                               *)
THEOREM PoolTypes == Spec => []TypeOK
  BY InductiveInvariant, PTL DEF IInv

(* No two threads hold the same connection, and none that is marked free.   *)
THEOREM PoolExclusion == Spec => []ConnectionsAreExclusive
  BY InductiveInvariant, PTL DEF IInv

(* There is always a free connection, or one that will be released.         *)
THEOREM PoolNeverDry == Spec => []PoolIsNeverDry
  BY InductiveInvariant, PTL DEF IInv

-----------------------------------------------------------------------------
(* An open transaction is on the connection its thread owns, unless the     *)
(* tuple has destroyed that connection first.                              *)
SessionsOnOwned ==
    \A t \in Threads : session[t] # None =>
        \/ pc[t] = "abort"
        \/ /\ session[t] = held[t]
           /\ pc[t] \in {"working", "transaction_first", "connection_first"}

(* What ends the process is that window alone: a second transaction needs   *)
(* a first one on a connection that has been handed out again.             *)
THEOREM PoolTermination == Spec => []TerminatedOnlyBeforeAnAbort
<1> DEFINE TInv == SessionsOnOwned /\ TerminatedOnlyBeforeAnAbort
<1>1. Init => TInv
  BY DEF Init, SessionsOnOwned, TerminatedOnlyBeforeAnAbort
<1>2. IInv /\ TInv /\ [Next]_vars => TInv'
  <2> SUFFICES ASSUME IInv, TInv, [Next]_vars
               PROVE  TInv'
    OBVIOUS
  <2> USE PoolAssumption
      DEF IInv, TypeOK, SessionsOnOwned, TerminatedOnlyBeforeAnAbort, At, Goto,
          DestructionOrders
  <2>1. ASSUME NEW t \in Threads, Ask(t)
        PROVE  TInv'
    BY <2>1 DEF Ask
  <2>2. ASSUME NEW t \in Threads, Commit(t)
        PROVE  TInv'
    BY <2>2 DEF Commit
  <2>3. ASSUME NEW t \in Threads, Take(t)
        PROVE  TInv'
    BY <2>3 DEF Take
  <2>4. ASSUME NEW t \in Threads, Begin(t)
        PROVE  TInv'
    <3>1. pc[t] = "got" /\ held[t] # None
      BY <2>4 DEF Begin, OwnersByPlace, Owning
    <3>2. \A u \in Threads : session[u] = held[t] => pc[u] = "abort"
      BY <3>1 DEF ConnectionsAreExclusive
    <3>3. QED
      BY <2>4, <3>1, <3>2 DEF Begin
  <2>5. ASSUME NEW t \in Threads, Destroy(t)
        PROVE  TInv'
    BY <2>5 DEF Destroy
  <2>6. ASSUME NEW t \in Threads, Abort(t)
        PROVE  TInv'
    BY <2>6 DEF Abort
  <2>7. ASSUME NEW t \in Threads, Release(t)
        PROVE  TInv'
    <3>1. pc[t] \in {"release", "connection_first"} /\ held[t] # None
      BY <2>7 DEF Release, OwnersByPlace, Owning
    <3>2. ~available[held[t]] /\ ~terminated'
      BY <2>7, <3>1 DEF ConnectionsAreExclusive, Release
    <3>3. QED
      BY <2>7, <3>1, <3>2 DEF Release
  <2>8. CASE UNCHANGED vars
    BY <2>8 DEF vars
  <2>9. QED
    BY <2>1, <2>2, <2>3, <2>4, <2>5, <2>6, <2>7, <2>8 DEF Next, Step
<1>3. QED
  BY <1>1, <1>2, InductiveInvariant, PTL DEF Spec

(* Where tuples destroy the transaction first there is no such window, and  *)
(* no constructor or destructor of the pool ends the process.              *)
THEOREM TransactionFirstIsSafe ==
    ASSUME Orders = {"transaction_first"}
    PROVE  Spec => [](~terminated)
<1> DEFINE NoWindow == \A t \in Threads : pc[t] \notin {"connection_first", "abort"}
<1>1. Init => NoWindow
  BY DEF Init
<1>2. IInv /\ NoWindow /\ [Next]_vars => NoWindow'
  BY DEF IInv, TypeOK, Next, Step, Ask, Commit, Take, Begin, Destroy, Abort, Release,
         At, Goto, vars
<1>3. NoWindow /\ TerminatedOnlyBeforeAnAbort => ~terminated
  BY DEF TerminatedOnlyBeforeAnAbort
<1>4. QED
  BY <1>1, <1>2, <1>3, InductiveInvariant, PoolTermination, PTL DEF Spec

-----------------------------------------------------------------------------
(* The refinement mapping: the holder of a connection is its one owner.     *)
LEMMA HolderIsOwner ==
    ASSUME IInv, NEW t \in Threads, held[t] # None
    PROVE  Holder(held[t]) = t
  BY DEF IInv, ConnectionsAreExclusive, Holder

LEMMA UnheldHasNoHolder ==
    ASSUME NEW c \in Ids, \A t \in Threads : held[t] # c
    PROVE  Holder(c) = None
  BY DEF Holder

(* Every step of the pool is a hand-out, a give-back or no step of          *)
(* ConnectionPool.                                                         *)
THEOREM PoolRefinement == Spec => ImplementsConnectionPool
<1>1. Init => Abstract!Init
  <2> SUFFICES ASSUME Init PROVE Abstract!Init
    OBVIOUS
  <2>1. \A c \in Ids : Holder(c) = None
    BY PoolAssumption, UnheldHasNoHolder DEF Init, Ids
  <2>2. QED
    BY <2>1 DEF Abstract!Init
<1>2. IInv /\ IInv' /\ [Next]_vars
        => [Abstract!Next]_([c \in Ids |-> Holder(c)])
  <2> SUFFICES ASSUME IInv, IInv', [Next]_vars
               PROVE  [Abstract!Next]_([c \in Ids |-> Holder(c)])
    OBVIOUS
  <2>1. CASE held' = held
    BY <2>1 DEF Holder
  <2>2. ASSUME NEW t \in Threads, Take(t)
        PROVE  Abstract!Next
    <3>1. PICK c \in Ids : Chosen(c) /\ held' = [held EXCEPT ![t] = c]
      BY <2>2 DEF Take
    <3>2. c # None /\ held[t] = None
      BY <2>2, PoolAssumption DEF Ids, Take, At, IInv, OwnersByPlace, Owning
    <3>3. \A u \in Threads : held[u] # c
      BY <3>1, <3>2, ChosenIsAvailable DEF IInv, ConnectionsAreExclusive
    <3>4. Holder(c) = None
      BY <3>3, UnheldHasNoHolder
    <3>5. Holder(c)' = t
      BY <3>1, <3>3 DEF Holder, IInv, TypeOK
    <3>6. \A d \in Ids : d # c => Holder(d)' = Holder(d)
      <4>1. \A d \in Ids : d # c => \A u \in Threads : held'[u] = d <=> held[u] = d
        BY <3>1, <3>2, PoolAssumption DEF IInv, TypeOK, Ids
      <4>2. QED
        BY <4>1 DEF Holder
    <3>7. Abstract!HandOut(t, c)
      BY <3>4, <3>5, <3>6 DEF Abstract!HandOut
    <3>8. QED
      BY <3>7 DEF Abstract!Next
  <2>3. ASSUME NEW t \in Threads, Release(t)
        PROVE  Abstract!Next
    <3>1. held[t] \in Ids /\ held[t] # None
      BY <2>3, PoolAssumption DEF Release, At, Ids, IInv, TypeOK, OwnersByPlace, Owning
    <3>2. PICK c \in Ids : c = held[t]
      BY <3>1
    <3>3. held' = [held EXCEPT ![t] = None]
      BY <2>3 DEF Release
    <3>4. Holder(c) = t
      BY <3>1, <3>2, HolderIsOwner
    <3>5. Holder(c)' = None
      <4>1. \A u \in Threads : held'[u] # c
        BY <3>1, <3>2, <3>3 DEF IInv, TypeOK, ConnectionsAreExclusive
      <4>2. QED
        BY <4>1 DEF Holder
    <3>6. \A d \in Ids : d # c => Holder(d)' = Holder(d)
      <4>1. \A d \in Ids : d # c => \A u \in Threads : held'[u] = d <=> held[u] = d
        BY <3>1, <3>2, <3>3, PoolAssumption DEF IInv, TypeOK, Ids
      <4>2. QED
        BY <4>1 DEF Holder
    <3>7. Abstract!GiveBack(t, c)
      BY <3>4, <3>5, <3>6 DEF Abstract!GiveBack
    <3>8. QED
      BY <3>7 DEF Abstract!Next
  <2>4. QED
    BY <2>1, <2>2, <2>3
    DEF Next, Step, Ask, Commit, Begin, Destroy, Abort, vars
<1>3. QED
  BY <1>1, <1>2, InductiveInvariant, PTL
  DEF Spec, ImplementsConnectionPool, Abstract!Spec

=============================================================================
