------------------------------ MODULE Delivery ------------------------------
(***************************************************************************)
(* The life of the messages of one queue: the consumers' handleDelivery    *)
(* and what it leads to (src/delivery.go), the expired header              *)
(* (src/client.go), and the queue, delay queue and dead-letter exchanges   *)
(* that initQueue and initQueueWithRetry declare.                          *)
(*                                                                         *)
(* Time runs in ticks, TicksPerSecond to the second, because the header is *)
(* written in whole seconds while the clock it is compared with is not.    *)
(* Each consumer has a connection of its own and a prefetch of 1.  When    *)
(* its channel is lost the broker requeues the message while the handler   *)
(* is still running, and the acknowledgement that follows fails.           *)
(***************************************************************************)
EXTENDS Integers, FiniteSets

CONSTANTS
    Messages,        \* the messages
    Consumers,       \* the consumer clients of the queue
    NoJob,           \* the job of a consumer that has none
    RetryModes,      \* the values withRetry may have
    Delay,           \* retry.Delay in ticks: the TTL of the delay queue
    Lifetime,        \* per message MaxRetryDuration, or else retry.MaxDuration
    Headerless,      \* messages whose expired header is missing or malformed
    Outcomes,        \* how a handler may end
    TicksPerSecond,
    MaxTime,         \* bound: the clock stops here, after every deadline
    MaxLosses        \* bound: channels lost and processes crashed

AllOutcomes == {"nil", "retry", "fatal", "panic"}

ASSUME DeliveryAssumption ==
    /\ NoJob \notin Messages
    /\ IsFiniteSet(Consumers)
    /\ RetryModes \subseteq BOOLEAN
    /\ Delay \in Nat
    /\ Lifetime \in [Messages -> Nat]
    /\ Headerless \subseteq Messages
    /\ Outcomes \subseteq AllOutcomes
    /\ TicksPerSecond \in Nat \ {0}
    /\ MaxTime \in Nat
    /\ MaxLosses \in Nat

VARIABLES
    withRetry, \* clnt.retry != nil, fixed by the configuration of the queue
    where,     \* where the broker has each message
    ttl,       \* what is left of the TTL of a message in the delay queue
    expired,   \* the expired header of each message
    born,      \* history: when each message was published
    pc,        \* control point of each consumer
    job,       \* the delivery each consumer works on
    link,      \* whether the channel of that delivery is still open
    now,       \* the clock
    panicked,  \* history: messages whose handler has panicked
    finals,    \* history: how often each message succeeded or failed for good
    losses     \* channels lost and processes crashed so far

brokerVars   == <<where, ttl, expired, born>>
consumerVars == <<pc, job, link>>
vars         == <<withRetry, brokerVars, consumerVars, now, panicked, finals, losses>>

Init ==
    /\ withRetry \in RetryModes
    /\ where = [m \in Messages |-> "none"]
    /\ ttl = [m \in Messages |-> 0]
    /\ expired = [m \in Messages |-> 0]
    /\ born = [m \in Messages |-> 0]
    /\ pc = [c \in Consumers |-> "idle"]
    /\ job = [c \in Consumers |-> NoJob]
    /\ link = [c \in Consumers |-> FALSE]
    /\ now = 0
    /\ panicked = {}
    /\ finals = [m \in Messages |-> 0]
    /\ losses = 0

(***************************************************************************)
(* The expired header.                                                     *)
(***************************************************************************)
RFC3339_RoundsUp(t) == ((t + TicksPerSecond - 1) \div TicksPerSecond) * TicksPerSecond

\* A time formatted as RFC 3339, and parsed again: the seconds it is in.
RFC3339(t) == (t \div TicksPerSecond) * TicksPerSecond

IsExpired_Never(m) == FALSE

\* extractExpiredHeader finds a header that can be parsed.
ExtractExpiredHeader(m) == m \notin Headerless

\* isExpired: a missing or malformed header counts as expired.
IsExpired(m) == ExtractExpiredHeader(m) => now > expired[m]

\* unsafePush stamps the header and the broker routes the message to the queue.
Publish(m) ==
    /\ where[m] = "none"
    /\ now + Lifetime[m] < MaxTime
    /\ where' = [where EXCEPT ![m] = "main"]
    /\ expired' = IF withRetry THEN [expired EXCEPT ![m] = RFC3339(now + Lifetime[m])]
                  ELSE expired
    /\ born' = [born EXCEPT ![m] = now]
    /\ UNCHANGED <<withRetry, panicked, ttl, consumerVars, now, finals, losses>>

(***************************************************************************)
(* The broker.                                                             *)
(***************************************************************************)
\* A message is delivered to a consumer that is working on none (prefetch 1).
Deliver(c, m) ==
    /\ pc[c] = "idle"
    /\ where[m] = "main"
    /\ where' = [where EXCEPT ![m] = "unacked"]
    /\ job' = [job EXCEPT ![c] = m]
    /\ link' = [link EXCEPT ![c] = TRUE]
    /\ pc' = [pc EXCEPT ![c] = "handler"]
    /\ UNCHANGED <<withRetry, panicked, ttl, expired, born, now, finals, losses>>

\* The delay queue dead-letters a message whose TTL is over to the queue.
DelayEnds(m) ==
    /\ where[m] = "delay"
    /\ ttl[m] = 0
    /\ where' = [where EXCEPT ![m] = "main"]
    /\ UNCHANGED <<withRetry, panicked, ttl, expired, born, consumerVars, now, finals, losses>>

\* Time passes.
Tick ==
    /\ now < MaxTime \/ \E m \in Messages : ttl[m] > 0
    /\ now' = IF now < MaxTime THEN now + 1 ELSE now
    /\ ttl' = [m \in Messages |-> IF ttl[m] > 0 THEN ttl[m] - 1 ELSE 0]
    /\ UNCHANGED <<withRetry, panicked, where, expired, born, consumerVars, finals, losses>>

\* The unacknowledged messages of the consumers in C go back to the queue.
Requeue(C) ==
    where' = [m \in Messages |->
                 IF \E c \in C : link[c] /\ job[c] = m THEN "main" ELSE where[m]]

\* A consumer's channel or connection is lost while it works on a delivery.
LoseChannel(c) ==
    /\ losses < MaxLosses
    /\ link[c]
    /\ Requeue({c})
    /\ link' = [link EXCEPT ![c] = FALSE]
    /\ losses' = losses + 1
    /\ UNCHANGED <<withRetry, panicked, ttl, expired, born, pc, job, now, finals>>

\* The process dies and is started again.
Crash ==
    /\ losses < MaxLosses
    /\ Requeue(Consumers)
    /\ pc' = [c \in Consumers |-> "idle"]
    /\ job' = [c \in Consumers |-> NoJob]
    /\ link' = [c \in Consumers |-> FALSE]
    /\ losses' = losses + 1
    /\ UNCHANGED <<withRetry, panicked, ttl, expired, born, now, finals>>

(***************************************************************************)
(* handleDelivery.                                                         *)
(***************************************************************************)
\* errors.As finds a *RetryableError.
IsRetryable(o) == o = "retry"

HandleRetryError_SkipsFailHandler(m, o) ==
    IF IsExpired(m) \/ ~IsRetryable(o) THEN "ackDelivery" ELSE "rejectDelivery"

HandleRetryError(m, o) ==
    IF IsExpired(m) \/ ~IsRetryable(o) THEN "failHandler" ELSE "rejectDelivery"

HandleConsumerError(m, o) ==
    IF withRetry THEN HandleRetryError(m, o) ELSE "nackDelivery"

\* What handleDelivery does after the handler has ended with outcome o.
AfterHandler(m, o) ==
    CASE o = "panic" -> "nackAfterPanic"
      [] o = "nil"   -> "ackDelivery"
      [] OTHER       -> HandleConsumerError(m, o)

Finish(m) == finals' = [finals EXCEPT ![m] = @ + 1]

\* invokeHandler: the handler returns or panics.
InvokeHandler(c) ==
    /\ pc[c] = "handler"
    /\ \E o \in Outcomes :
          /\ pc' = [pc EXCEPT ![c] = AfterHandler(job[c], o)]
          /\ IF o = "nil" THEN Finish(job[c]) ELSE UNCHANGED finals
          /\ panicked' = IF o = "panic" THEN panicked \cup {job[c]} ELSE panicked
    /\ UNCHANGED <<withRetry, brokerVars, job, link, now, losses>>

\* finalizeFailedRetry: the fail handler is given the job, and the delivery
\* is acknowledged whatever it returns.
FailHandler(c) ==
    /\ pc[c] = "failHandler"
    /\ pc' = [pc EXCEPT ![c] = "ackDelivery"]
    /\ Finish(job[c])
    /\ UNCHANGED <<withRetry, panicked, brokerVars, job, link, now, losses>>

\* The delivery is settled on the channel it came by: the broker moves the
\* message to dest, or the call fails and only a warning is logged.
Settle(c, dest) ==
    /\ where' = IF link[c] THEN [where EXCEPT ![job[c]] = dest] ELSE where
    /\ ttl' = IF link[c] /\ dest = "delay" THEN [ttl EXCEPT ![job[c]] = Delay] ELSE ttl
    /\ pc' = [pc EXCEPT ![c] = "idle"]
    /\ job' = [job EXCEPT ![c] = NoJob]
    /\ link' = [link EXCEPT ![c] = FALSE]
    /\ UNCHANGED <<withRetry, panicked, expired, born, now, finals, losses>>

\* Where a message goes that is rejected without requeue: in retry mode the
\* queue's dead-letter exchange leads to the delay queue, otherwise it has none.
DeadLetter == IF withRetry THEN "delay" ELSE "gone"

AckDelivery(c) == pc[c] = "ackDelivery" /\ Settle(c, "gone")

RejectDelivery_NoTopology(c) == pc[c] = "rejectDelivery" /\ Settle(c, "gone")

RejectDelivery(c) == pc[c] = "rejectDelivery" /\ Settle(c, DeadLetter)

NackDelivery(c) == pc[c] = "nackDelivery" /\ Settle(c, "main")

NackAfterPanic_Acks(c) == pc[c] = "nackAfterPanic" /\ Settle(c, "gone")

NackAfterPanic(c) == pc[c] = "nackAfterPanic" /\ Settle(c, DeadLetter)

ConsumerStep(c) ==
    \/ InvokeHandler(c) \/ FailHandler(c)
    \/ AckDelivery(c) \/ RejectDelivery(c) \/ NackDelivery(c) \/ NackAfterPanic(c)

Next ==
    \/ \E m \in Messages : Publish(m) \/ DelayEnds(m)
    \/ \E c \in Consumers :
          \/ \E m \in Messages : Deliver(c, m)
          \/ ConsumerStep(c)
          \/ LoseChannel(c)
    \/ Tick
    \/ Crash

Spec == Init /\ [][Next]_vars

\* Handlers end, consumers and broker make progress and time passes.  With retry
\* a message is not overtaken for ever, because the queue is a FIFO and the delay
\* queue returns messages to its tail; a nack without retry requeues at its head.
Fairness ==
    /\ \A c \in Consumers : WF_vars(ConsumerStep(c))
    /\ \A m \in Messages :
          /\ SF_vars(withRetry /\ \E c \in Consumers : Deliver(c, m))
          /\ WF_vars(DelayEnds(m))
    /\ WF_vars(Tick)

FairSpec == Spec /\ Fairness

-----------------------------------------------------------------------------
Places == {"none", "main", "unacked", "delay", "gone"}

ConsumerStates ==
    {"idle", "handler", "failHandler", "ackDelivery", "rejectDelivery",
     "nackDelivery", "nackAfterPanic"}

\* The state of the queue and its consumers is well typed.
TypeOK ==
    /\ withRetry \in BOOLEAN
    /\ where \in [Messages -> Places]
    /\ ttl \in [Messages -> Nat]
    /\ expired \in [Messages -> Nat]
    /\ born \in [Messages -> Nat]
    /\ pc \in [Consumers -> ConsumerStates]
    /\ job \in [Consumers -> Messages \cup {NoJob}]
    /\ link \in [Consumers -> BOOLEAN]
    /\ now \in Nat
    /\ panicked \subseteq Messages
    /\ finals \in [Messages -> Nat]
    /\ losses \in Nat

\* A message whose handler panicked where there is no delay queue.
Broken == IF withRetry THEN {} ELSE panicked

\* A consumer acknowledges only what was finished, and discards without a
\* delay queue only after a panic: with this NothingLost is inductive.
SettlesWhatItMay ==
    \A c \in Consumers :
        /\ pc[c] # "idle" => job[c] \in Messages
        /\ pc[c] = "ackDelivery" => finals[job[c]] > 0
        /\ pc[c] = "rejectDelivery" => withRetry
        /\ pc[c] = "nackAfterPanic" => job[c] \in panicked

\* A message leaves the broker only once its handler succeeded or the fail
\* handler was given it (delivery.go:120-157), whatever is lost in between and
\* whichever of several consumers acknowledges; a panic is the exception the
\* code makes without retry (delivery.go:61-69).
NothingLost ==
    \A m \in Messages : where[m] = "gone" => finals[m] > 0 \/ m \in Broken

\* The header is never later than the end of the retry window.
HeaderNotLate ==
    \A m \in Messages : born[m] <= now /\ expired[m] <= born[m] + Lifetime[m]

\* A delivery whose channel is open is the broker's only one of that message.
DeliveredOnce ==
    /\ \A c \in Consumers :
          /\ pc[c] # "idle" => where[job[c]] # "none"
          /\ link[c] => pc[c] # "idle" /\ where[job[c]] = "unacked"
    /\ \A c, d \in Consumers : link[c] /\ link[d] /\ job[c] = job[d] => c = d

\* The consumers by which message m may yet be finished: those that have still
\* to run a handler on it, and those that are about to give it back.
MayFinish(m) ==
    {c \in Consumers :
        /\ job[c] = m
        /\ \/ pc[c] \in {"handler", "failHandler"}
           \/ link[c] /\ pc[c] \in {"rejectDelivery", "nackDelivery", "nackAfterPanic"}}

\* The broker has message m to deliver, now or later.
Deliverable(m) == where[m] \in {"none", "main", "delay"}

\* How often a message was finished, and may yet be without another loss.
FinalsBounded ==
    \A m \in Messages :
        finals[m] + Cardinality(MayFinish(m)) + (IF Deliverable(m) THEN 1 ELSE 0) <= losses + 1

\* The inductive invariant: what a consumer is about to send to the broker
\* (delivery.go:61-198) is what the fate of its job entitles it to, so that no
\* message is lost by whatever comes next, and each loss lets a message be
\* finished once more.
DeliveryInv ==
    /\ TypeOK /\ SettlesWhatItMay /\ NothingLost
    /\ HeaderNotLate /\ DeliveredOnce /\ FinalsBounded

status == [m \in Messages |->
              CASE where[m] = "none" -> "absent"
                [] where[m] = "gone" -> "removed"
                [] OTHER             -> "pending"]

Jobs == INSTANCE JobQueue WITH broken <- Broken

\* The queue and its consumers implement a queue of jobs.  In particular a
\* redelivery is the only cause of a second success or failure: without a lost
\* channel or a crash a message is finished at most once, and each loss adds at
\* most one (delivery.go:10-34, 120-157).
IsJobQueue == Jobs!Spec

\* A message is sent to the delay queue for a retry (delivery.go:116) only
\* while its retry window is open, though the header that says so was written
\* in whole seconds (client.go:306).
RetriesWithinWindow ==
    [][\A c \in Consumers :
          pc[c] = "handler" /\ pc'[c] = "rejectDelivery"
          => now <= born[job[c]] + Lifetime[job[c]]]_vars

\* "After MaxDuration is exhausted (expired header) or a non-retryable error,
\* WithFailHandler is called and the message is acked" (README.md:124): in retry
\* mode a message in the queue is removed in the end, though its handler may ask
\* for a retry for ever and deliveries are lost (delivery.go:107-118).  A handler
\* that panics is the exception: nackAfterPanic looks at no deadline.
SettledUnlessPanic ==
    \A m \in Messages :
        (withRetry /\ where[m] = "main") ~> (where[m] = "gone" \/ m \in panicked)
=============================================================================
