-------------------------------- MODULE Store --------------------------------
(***************************************************************************)
(* The queue store (src/queue.go): consumers are registered by AddConsumerN,*)
(* started by InitConsumer and closed, with the publishers, by Shutdown,   *)
(* each of which may be called from several goroutines at once.            *)
(*                                                                         *)
(* A client is <<a, k>>, the k-th that call a of AddConsumerN creates, or  *)
(* one of the publishers; what a client does is in the modules Client,     *)
(* Publisher and Consumer.  A call is named by what makes it.              *)
(***************************************************************************)
EXTENDS Naturals, FiniteSets

CONSTANTS
    Adds,          \* the calls of AddConsumerN
    Parallelism,   \* per call: the workers asked for, at most 0 meaning 1
    Unknown,       \* the calls that name a queue that is not configured
    Inits,         \* the calls of InitConsumer
    Dead,          \* the calls of InitConsumer whose context is cancelled
    Shutdowns,     \* the calls of Shutdown
    Publishers,    \* the publisher clients, made by New
    NoCall         \* the holder of mu when it is free

ASSUME StoreAssumption ==
    /\ Parallelism \in [Adds -> Nat]
    /\ Unknown \subseteq Adds
    /\ Dead \subseteq Inits
    /\ NoCall \notin Adds
    /\ Adds \cap Inits = {} /\ Adds \cap Shutdowns = {} /\ Inits \cap Shutdowns = {}

VARIABLES
    apc,               \* control point of each AddConsumerN
    ipc,               \* control point of each InitConsumer
    spc,               \* control point of each Shutdown
    result,            \* what each call returned
    mu,                \* the AddConsumerN that holds queue.mu
    consumersStarted,  \* queue.consumersStarted
    consumers,         \* the clients in queue.consumers
    snap,              \* per InitConsumer or Shutdown: the clients it has seen
    created,           \* clients whose connection manager was started
    closed,            \* clients whose close() was called
    loops,             \* per client: the consumer loops started on it
    early              \* history, per InitConsumer: the AddConsumerN that had
                       \* succeeded when it was called

storeVars == <<mu, consumersStarted, consumers>>
vars == <<apc, ipc, spc, result, storeVars, snap, created, closed, loops, early>>

Workers(a) == IF Parallelism[a] = 0 THEN 1 ELSE Parallelism[a]

ClientsOf(a) == {a} \X (1..Workers(a))

ConsumerClients == UNION {ClientsOf(a) : a \in Adds}

Clients == ConsumerClients \cup Publishers

AllCalls == Adds \cup Inits \cup Shutdowns

Init ==
    /\ apc = [a \in Adds |-> "start"]
    /\ ipc = [i \in Inits |-> "start"]
    /\ spc = [s \in Shutdowns |-> "start"]
    /\ result = [x \in AllCalls |-> "none"]
    /\ mu = NoCall
    /\ consumersStarted = FALSE
    /\ consumers = {}
    /\ snap = [x \in Inits \cup Shutdowns |-> {}]
    /\ created = {}
    /\ closed = {}
    /\ loops = [c \in Clients |-> 0]
    /\ early = [i \in Inits |-> {}]

Return(x, err) == result' = [result EXCEPT ![x] = err]

(***************************************************************************)
(* AddConsumerN.                                                           *)
(***************************************************************************)
\* The checks before anything is created.
AddCheck(a) ==
    /\ apc[a] = "start"
    /\ \/ /\ consumersStarted
          /\ Return(a, "ErrConsumersAlreadyStarted")
          /\ apc' = [apc EXCEPT ![a] = "returned"]
       \/ /\ ~consumersStarted /\ a \in Unknown
          /\ Return(a, "ErrQueueNotFound")
          /\ apc' = [apc EXCEPT ![a] = "returned"]
       \/ /\ ~consumersStarted /\ a \notin Unknown
          /\ apc' = [apc EXCEPT ![a] = "create"]
          /\ UNCHANGED result
    /\ UNCHANGED <<ipc, spc, storeVars, snap, created, closed, loops, early>>

\* addConsumerClient, once per worker: each client connects at once.
AddCreate(a) ==
    /\ apc[a] = "create"
    /\ created' = created \cup ClientsOf(a)
    /\ apc' = [apc EXCEPT ![a] = "lock"]
    /\ UNCHANGED <<ipc, spc, result, storeVars, snap, closed, loops, early>>

\* mu.Lock() and the second look at consumersStarted.
AddLock(a) ==
    /\ apc[a] = "lock"
    /\ mu = NoCall
    /\ IF consumersStarted
       THEN apc' = [apc EXCEPT ![a] = "reject"] /\ UNCHANGED mu
       ELSE apc' = [apc EXCEPT ![a] = "append"] /\ mu' = a
    /\ UNCHANGED <<ipc, spc, result, consumersStarted, consumers, snap,
                   created, closed, loops, early>>

AddReject_KeepsClients(a) ==
    /\ apc[a] = "reject"
    /\ Return(a, "ErrConsumersAlreadyStarted")
    /\ apc' = [apc EXCEPT ![a] = "returned"]
    /\ UNCHANGED <<ipc, spc, storeVars, snap, created, closed, loops, early>>

\* The deferred function calls close() of what was created, then the error is
\* returned.  A client that is just dialling gets its connection all the same:
\* what close() leaves behind is in Client.
AddReject(a) ==
    /\ apc[a] = "reject"
    /\ closed' = closed \cup ClientsOf(a)
    /\ Return(a, "ErrConsumersAlreadyStarted")
    /\ apc' = [apc EXCEPT ![a] = "returned"]
    /\ UNCHANGED <<ipc, spc, storeVars, snap, created, loops, early>>

AddAppend_KeepsLock(a) ==
    /\ apc[a] = "append"
    /\ consumers' = consumers \cup ClientsOf(a)
    /\ Return(a, "nil")
    /\ apc' = [apc EXCEPT ![a] = "returned"]
    /\ UNCHANGED <<mu, ipc, spc, consumersStarted, snap, created, closed, loops, early>>

\* The clients are appended and mu is released.
AddAppend(a) ==
    /\ apc[a] = "append"
    /\ consumers' = consumers \cup ClientsOf(a)
    /\ mu' = NoCall
    /\ Return(a, "nil")
    /\ apc' = [apc EXCEPT ![a] = "returned"]
    /\ UNCHANGED <<ipc, spc, consumersStarted, snap, created, closed, loops, early>>

(***************************************************************************)
(* InitConsumer.                                                           *)
(***************************************************************************)
\* guardConsumerStart.
GuardConsumerStart(i) ==
    /\ ipc[i] = "start"
    /\ \/ /\ consumersStarted
          /\ Return(i, "ErrConsumersAlreadyStarted")
          /\ ipc' = [ipc EXCEPT ![i] = "returned"]
       \/ /\ ~consumersStarted /\ i \in Dead
          /\ Return(i, "ErrContextCanceledOnConsumerStart")
          /\ ipc' = [ipc EXCEPT ![i] = "returned"]
       \/ /\ ~consumersStarted /\ i \notin Dead
          /\ ipc' = [ipc EXCEPT ![i] = "snapshot"]
          /\ UNCHANGED result
    /\ early' = IF consumersStarted \/ i \in Dead THEN early
                ELSE [early EXCEPT ![i] = {a \in Adds : result[a] = "nil"}]
    /\ UNCHANGED <<apc, spc, storeVars, snap, created, closed, loops>>

SnapshotConsumers_OnePerCall(i) ==
    /\ ipc[i] = "snapshot"
    /\ mu = NoCall
    /\ snap' = [snap EXCEPT ![i] = {c \in consumers : c[2] = 1}]
    /\ IF consumers = {}
       THEN Return(i, "ErrNoConsumersRegistered") /\ ipc' = [ipc EXCEPT ![i] = "returned"]
       ELSE ipc' = [ipc EXCEPT ![i] = "swap"] /\ UNCHANGED result
    /\ UNCHANGED <<apc, spc, storeVars, created, closed, loops, early>>

\* snapshotConsumers, under mu.RLock(), and the test that there are any.
SnapshotConsumers(i) ==
    /\ ipc[i] = "snapshot"
    /\ mu = NoCall
    /\ snap' = [snap EXCEPT ![i] = consumers]
    /\ IF consumers = {}
       THEN Return(i, "ErrNoConsumersRegistered") /\ ipc' = [ipc EXCEPT ![i] = "returned"]
       ELSE ipc' = [ipc EXCEPT ![i] = "swap"] /\ UNCHANGED result
    /\ UNCHANGED <<apc, spc, storeVars, created, closed, loops, early>>

CompareAndSwap_Stores(i) ==
    /\ ipc[i] = "swap"
    /\ consumersStarted' = TRUE
    /\ ipc' = [ipc EXCEPT ![i] = "workers"]
    /\ UNCHANGED <<apc, spc, result, mu, consumers, snap, created, closed, loops, early>>

\* consumersStarted.CompareAndSwap(false, true), outside mu.
CompareAndSwap(i) ==
    /\ ipc[i] = "swap"
    /\ consumersStarted' = TRUE
    /\ IF consumersStarted
       THEN /\ Return(i, "ErrConsumersAlreadyStarted")
            /\ ipc' = [ipc EXCEPT ![i] = "returned"]
       ELSE ipc' = [ipc EXCEPT ![i] = "workers"] /\ UNCHANGED result
    /\ UNCHANGED <<apc, spc, mu, consumers, snap, created, closed, loops, early>>

\* startConsumerWorkers: a loop for every client of the snapshot.
StartConsumerWorkers(i) ==
    /\ ipc[i] = "workers"
    /\ loops' = [c \in Clients |-> IF c \in snap[i] THEN loops[c] + 1 ELSE loops[c]]
    /\ Return(i, "nil")
    /\ ipc' = [ipc EXCEPT ![i] = "returned"]
    /\ UNCHANGED <<apc, spc, storeVars, snap, created, closed, early>>

(***************************************************************************)
(* Shutdown.                                                               *)
(***************************************************************************)
\* snapshotClients, under mu.RLock().
SnapshotClients(s) ==
    /\ spc[s] = "start"
    /\ mu = NoCall
    /\ snap' = [snap EXCEPT ![s] = consumers \cup Publishers]
    /\ spc' = [spc EXCEPT ![s] = "close"]
    /\ UNCHANGED <<apc, ipc, result, storeVars, created, closed, loops, early>>

\* The order of closeClients: the publishers, then the consumers.
Unclosed(s) ==
    LET left == snap[s] \ closed IN
    IF left \cap Publishers # {} THEN left \cap Publishers ELSE left

CloseOneClient_StopsOnError(s) ==
    /\ spc[s] = "close"
    /\ \E c \in Unclosed(s), failed \in BOOLEAN :
          /\ closed' = closed \cup {c}
          /\ result' = IF failed THEN [result EXCEPT ![s] = "error"] ELSE result
          /\ spc' = IF failed THEN [spc EXCEPT ![s] = "returned"] ELSE spc
    /\ UNCHANGED <<apc, ipc, storeVars, snap, created, loops, early>>

\* closeOneClient: the first error is kept and the rest are closed all the
\* same.  A client closed by another call answers nil at once.
CloseOneClient(s) ==
    /\ spc[s] = "close"
    /\ \E c \in Unclosed(s), failed \in BOOLEAN :
          /\ closed' = closed \cup {c}
          /\ result' = IF failed THEN [result EXCEPT ![s] = "error"] ELSE result
    /\ UNCHANGED <<apc, ipc, spc, storeVars, snap, created, loops, early>>

\* Every client of the snapshot is closed and the handlers in flight are over,
\* or the context is: Shutdown returns.  How waitInflight ends is a free choice,
\* and each close() is taken to end: Consumer has the wait, and Publisher's
\* CloseReturns says when a close() does not.
ShutdownReturns(s) ==
    /\ spc[s] = "close"
    /\ snap[s] \subseteq closed
    /\ spc' = [spc EXCEPT ![s] = "returned"]
    /\ \/ result' = [result EXCEPT ![s] = IF @ = "none" THEN "nil" ELSE @]
       \/ Return(s, "error")
    /\ UNCHANGED <<apc, ipc, storeVars, snap, created, closed, loops, early>>

-----------------------------------------------------------------------------
AddStep(a) == AddCheck(a) \/ AddCreate(a) \/ AddLock(a) \/ AddReject(a) \/ AddAppend(a)

InitStep(i) ==
    \/ GuardConsumerStart(i) \/ SnapshotConsumers(i)
    \/ CompareAndSwap(i) \/ StartConsumerWorkers(i)

ShutdownStep(s) == SnapshotClients(s) \/ CloseOneClient(s) \/ ShutdownReturns(s)

Next ==
    \/ \E a \in Adds : AddStep(a)
    \/ \E i \in Inits : InitStep(i)
    \/ \E s \in Shutdowns : ShutdownStep(s)

Spec == Init /\ [][Next]_vars

\* A call that was made runs on; nobody need make one.
Fairness ==
    /\ \A a \in Adds : WF_vars(apc[a] # "start" /\ AddStep(a))
    /\ \A i \in Inits : WF_vars(ipc[i] # "start" /\ InitStep(i))
    /\ \A s \in Shutdowns : WF_vars(spc[s] # "start" /\ ShutdownStep(s))

FairSpec == Spec /\ Fairness

-----------------------------------------------------------------------------
Results ==
    {"none", "nil", "error", "ErrConsumersAlreadyStarted", "ErrQueueNotFound",
     "ErrContextCanceledOnConsumerStart", "ErrNoConsumersRegistered"}

\* The state of the store and of its calls is well typed.
TypeOK ==
    /\ apc \in [Adds -> {"start", "create", "lock", "reject", "append", "returned"}]
    /\ ipc \in [Inits -> {"start", "snapshot", "swap", "workers", "returned"}]
    /\ spc \in [Shutdowns -> {"start", "close", "returned"}]
    /\ result \in [AllCalls -> Results]
    /\ mu \in Adds \cup {NoCall}
    /\ consumersStarted \in BOOLEAN
    /\ consumers \subseteq ConsumerClients
    /\ snap \in [Inits \cup Shutdowns -> SUBSET Clients]
    /\ created \subseteq ConsumerClients
    /\ closed \subseteq Clients
    /\ loops \in [Clients -> Nat]
    /\ early \in [Inits -> SUBSET Adds]

\* However InitConsumer is called (queue.go:180-198), a client never has two
\* loops reading from it, and a loop only ever runs for an accepted client.
StartedOnce ==
    \A c \in Clients : /\ loops[c] <= 1
                       /\ loops[c] = 1 => c \in consumers

\* AddConsumerN is all or nothing (queue.go:119-148): the clients of a call that
\* succeeded are all registered; of a call that failed none is registered, so that
\* no Shutdown will find it, and close() was called on every client it created.
AddIsAtomic ==
    \A a \in Adds :
        /\ result[a] = "nil" => ClientsOf(a) \subseteq consumers
        /\ result[a] \notin {"none", "nil"}
           => /\ ClientsOf(a) \cap consumers = {}
              /\ ClientsOf(a) \cap created \subseteq closed

\* Shutdown closes every client that was registered when it began, though some
\* of them fail to close and others are closed by other calls meanwhile
\* (queue.go:307-325).
ShutdownClosesAll ==
    \A s \in Shutdowns : spc[s] = "returned" => snap[s] \cup Publishers \subseteq closed

\* "AddConsumer* is only allowed before InitConsumer" (README.md:149): what was
\* accepted before the InitConsumer that succeeds was called is started in full
\* (queue.go:180-198), whatever other calls of either kind overlap with it.  A
\* consumer accepted while it runs may be left out: the snapshot and the swap of
\* consumersStarted are two steps.
EarlyIsStarted ==
    \A i \in Inits : result[i] = "nil" =>
        \A a \in early[i] : \A c \in ClientsOf(a) : loops[c] = 1

\* What one call of AddConsumerN has done at each of its control points.
AddProgress ==
    \A a \in Adds :
        /\ apc[a] # "returned" => result[a] = "none"
        /\ result[a] # "nil" => ClientsOf(a) \cap consumers = {}
        /\ apc[a] \in {"start", "create"} => ClientsOf(a) \cap created = {}

\* At most one InitConsumer gets past the swap of consumersStarted, before any
\* loop was started, and it has seen all that was accepted before it was called.
InitProgress ==
    /\ ~consumersStarted => \A c \in Clients : loops[c] = 0
    /\ \A i \in Inits :
          /\ ipc[i] # "returned" => result[i] = "none"
          /\ snap[i] \subseteq consumers
          /\ \A a \in early[i] : result[a] = "nil"
          /\ ipc[i] \in {"swap", "workers"} => \A a \in early[i] : ClientsOf(a) \subseteq snap[i]
          /\ ipc[i] = "workers" =>
                /\ consumersStarted
                /\ \A c \in Clients : loops[c] = 0
                /\ \A j \in Inits \ {i} : ipc[j] # "workers"
          /\ result[i] = "nil" => consumersStarted /\ \A j \in Inits : ipc[j] # "workers"

\* A Shutdown that has begun knows every publisher.
ShutdownProgress == \A s \in Shutdowns : spc[s] # "start" => Publishers \subseteq snap[s]

\* The inductive invariant: the state is well typed, no client has two loops
\* (queue.go:180-198), registrations are atomic, accepted consumers are started
\* and a Shutdown closes what it found, by what each call has done so far
\* (queue.go:119-148, 180-220).
StoreInv ==
    /\ TypeOK
    /\ StartedOnce /\ AddIsAtomic /\ ShutdownClosesAll /\ EarlyIsStarted
    /\ AddProgress /\ InitProgress /\ ShutdownProgress

\* No call blocks another for good, whichever of them meet at mu: each one that
\* was made returns (queue.go:138-146, 269-305), as long as the close() of each
\* client and the handlers in flight do.
CallsReturn ==
    /\ \A a \in Adds : []<>(apc[a] \in {"start", "returned"})
    /\ \A i \in Inits : []<>(ipc[i] \in {"start", "returned"})
    /\ \A s \in Shutdowns : []<>(spc[s] \in {"start", "returned"})
=============================================================================
