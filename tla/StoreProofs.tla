---------------------------- MODULE StoreProofs ----------------------------
(***************************************************************************)
(* Proofs about the queue store of module Store, for any number of         *)
(* concurrent calls of AddConsumerN, InitConsumer and Shutdown, workers    *)
(* and publishers.                                                         *)
(***************************************************************************)
EXTENDS Store, TLAPS

\* The clients of an AddConsumerN are clients of the store.
LEMMA ClientsOfCall ==
    ASSUME NEW a \in Adds
    PROVE  ClientsOf(a) \subseteq ConsumerClients /\ ClientsOf(a) \subseteq Clients
  BY DEF ConsumerClients, Clients

\* Two calls create no client in common.
LEMMA ClientsDisjoint ==
    ASSUME NEW a \in Adds, NEW b \in Adds, a # b
    PROVE  ClientsOf(a) \cap ClientsOf(b) = {}
  BY DEF ClientsOf

\* Publishers and registered consumers are clients.
LEMMA ClientSets == Publishers \subseteq Clients /\ ConsumerClients \subseteq Clients
  BY DEF Clients

\* The calls have different names.
LEMMA CallsDiffer ==
    /\ Adds \subseteq AllCalls /\ Inits \subseteq AllCalls /\ Shutdowns \subseteq AllCalls
    /\ \A a \in Adds : a \notin Inits /\ a \notin Shutdowns
    /\ \A i \in Inits : i \notin Shutdowns
  BY StoreAssumption DEF AllCalls

\* A new store satisfies the inductive invariant.
LEMMA StoreInvInit == Init => StoreInv
  <1> SUFFICES ASSUME Init PROVE StoreInv
    OBVIOUS
  <1> USE StoreAssumption, CallsDiffer DEF Init
  <1>1. TypeOK
    BY DEF TypeOK, Results
  <1>2. StartedOnce /\ AddIsAtomic /\ ShutdownClosesAll /\ EarlyIsStarted
    BY DEF StartedOnce, AddIsAtomic, ShutdownClosesAll, EarlyIsStarted
  <1>3. AddProgress /\ InitProgress /\ ShutdownProgress
    BY DEF AddProgress, InitProgress, ShutdownProgress
  <1> QED BY <1>1, <1>2, <1>3 DEF StoreInv

\* The steps of AddConsumerN.
LEMMA AddInv ==
    ASSUME StoreInv, NEW a \in Adds, AddStep(a)
    PROVE  StoreInv'
  <1> USE StoreAssumption, CallsDiffer, ClientsOfCall, ClientsDisjoint, ClientSets
      DEF StoreInv, TypeOK, Results, StartedOnce, AddIsAtomic, ShutdownClosesAll,
          EarlyIsStarted, AddProgress, InitProgress, ShutdownProgress, storeVars, Return
  <1>1. CASE AddCheck(a)
    BY <1>1 DEF AddCheck
  <1>2. CASE AddCreate(a)
    BY <1>2 DEF AddCreate
  <1>3. CASE AddLock(a)
    BY <1>3 DEF AddLock
  <1>4. CASE AddReject(a)
    BY <1>4 DEF AddReject
  <1>5. CASE AddAppend(a)
    BY <1>5 DEF AddAppend
  <1> QED BY <1>1, <1>2, <1>3, <1>4, <1>5 DEF AddStep

\* The steps of InitConsumer.
LEMMA InitInv ==
    ASSUME StoreInv, NEW i \in Inits, InitStep(i)
    PROVE  StoreInv'
  <1> USE StoreAssumption, CallsDiffer, ClientsOfCall, ClientsDisjoint, ClientSets
      DEF StoreInv, TypeOK, Results, StartedOnce, AddIsAtomic, ShutdownClosesAll,
          EarlyIsStarted, AddProgress, InitProgress, ShutdownProgress, storeVars, Return
  <1>1. CASE GuardConsumerStart(i)
    BY <1>1 DEF GuardConsumerStart
  <1>2. CASE SnapshotConsumers(i)
    BY <1>2 DEF SnapshotConsumers
  <1>3. CASE CompareAndSwap(i)
    BY <1>3 DEF CompareAndSwap
  <1>4. CASE StartConsumerWorkers(i)
    BY <1>4 DEF StartConsumerWorkers
  <1> QED BY <1>1, <1>2, <1>3, <1>4 DEF InitStep

\* The steps of Shutdown.
LEMMA ShutdownInv ==
    ASSUME StoreInv, NEW s \in Shutdowns, ShutdownStep(s)
    PROVE  StoreInv'
  <1> USE StoreAssumption, CallsDiffer, ClientsOfCall, ClientsDisjoint, ClientSets
      DEF StoreInv, TypeOK, Results, StartedOnce, AddIsAtomic, ShutdownClosesAll,
          EarlyIsStarted, AddProgress, InitProgress, ShutdownProgress, storeVars, Return
  <1>1. CASE SnapshotClients(s)
    BY <1>1 DEF SnapshotClients
  <1>2. CASE CloseOneClient(s)
    BY <1>2 DEF CloseOneClient, Unclosed
  <1>3. CASE ShutdownReturns(s)
    BY <1>3 DEF ShutdownReturns
  <1> QED BY <1>1, <1>2, <1>3 DEF ShutdownStep

\* Every step of the store preserves the inductive invariant.
LEMMA StoreInvNext == StoreInv /\ [Next]_vars => StoreInv'
  <1> SUFFICES ASSUME StoreInv, [Next]_vars PROVE StoreInv'
    OBVIOUS
  <1>1. ASSUME NEW a \in Adds, AddStep(a) PROVE StoreInv'
    BY <1>1, AddInv
  <1>2. ASSUME NEW i \in Inits, InitStep(i) PROVE StoreInv'
    BY <1>2, InitInv
  <1>3. ASSUME NEW s \in Shutdowns, ShutdownStep(s) PROVE StoreInv'
    BY <1>3, ShutdownInv
  <1>4. CASE UNCHANGED vars
    BY <1>4
       DEF vars, storeVars, StoreInv, TypeOK, StartedOnce, AddIsAtomic,
           ShutdownClosesAll, EarlyIsStarted, AddProgress, InitProgress,
           ShutdownProgress
  <1> QED BY <1>1, <1>2, <1>3, <1>4 DEF Next

\* The inductive invariant holds in every reachable state of a store.
THEOREM StoreInvariant == Spec => []StoreInv
  BY StoreInvInit, StoreInvNext, PTL DEF Spec

\* AddConsumerN is all or nothing (queue.go:119-148), whatever InitConsumer and
\* Shutdown do meanwhile.
THEOREM AddConsumerAtomic == Spec => []AddIsAtomic
  <1>1. StoreInv => AddIsAtomic
    BY DEF StoreInv
  <1> QED BY <1>1, StoreInvariant, PTL

\* A Shutdown that has returned has closed every client it found and every
\* publisher (queue.go:307-325).
THEOREM ShutdownComplete == Spec => []ShutdownClosesAll
  <1>1. StoreInv => ShutdownClosesAll
    BY DEF StoreInv
  <1> QED BY <1>1, StoreInvariant, PTL

\* Consumers accepted before the successful InitConsumer was called are started,
\* each once (queue.go:180-198).
THEOREM EarlyConsumersStart == Spec => [](EarlyIsStarted /\ StartedOnce)
  <1>1. StoreInv => EarlyIsStarted /\ StartedOnce
    BY DEF StoreInv
  <1> QED BY <1>1, StoreInvariant, PTL
=============================================================================
