----------------------------- MODULE FailedJobs -----------------------------
(***************************************************************************)
(* The service of examples/failed-jobs/main.go: jobs that failed for good  *)
(* are kept in memory by the fail handler, listed and republished over     *)
(* HTTP, and one of them is republished by main itself.                    *)
(*                                                                         *)
(* A job is followed through all the messages made of it.  The queue of    *)
(* the broker is durable, so it may hold jobs of an earlier execution.  Of *)
(* the adapter this module uses what the others show: a message is         *)
(* delivered until it is acknowledged, again when its channel is lost, and *)
(* Publish stores the message when it returns nil, but may or may not have *)
(* stored it when it returns an error.                                     *)
(***************************************************************************)
EXTENDS Integers, Sequences, FiniteSets, SequencesExt

CONSTANTS
    MainJob,     \* the job main publishes, with the body fail:boom
    Leftovers,   \* jobs an earlier execution may have left in the queue
    BodyOf,      \* the body of each of them
    Requests,    \* HTTP requests, each made at most once
    StoredCap,   \* capacity of the Go channel stored
    MaxTries,    \* bound: deliveries that fit into MaxDuration
    MaxLosses,   \* bound: channels lost
    None

Jobs   == {MainJob} \cup Leftovers
Bodies == {"fail:boom", "hello-from-retry", "other"}

ASSUME FailedJobsAssumption ==
    /\ IsFiniteSet(Leftovers) /\ MainJob \notin Leftovers
    /\ BodyOf \in [Leftovers -> Bodies]
    /\ StoredCap \in Nat \ {0} /\ MaxTries \in Nat /\ MaxLosses \in Nat

VARIABLES
    queue, link,           \* broker: the queue, and whether it still has the
                           \* delivery of the worker as unacknowledged
    cur, cpc, handled,     \* worker: delivery, control point, history of successes
    next, jobs,            \* memoryStore
    stored, recovered,     \* Go channels: contents, and how often it was closed
    mpc, mine,             \* main: control point and the job it received
    rpc, held, gone,       \* requests: control point, job taken, cancelled contexts
    interrupted, timedOut, \* the signal context, the five seconds of httpSrv.Shutdown
    known, lost,           \* history: jobs that were in the queue, and the ones
                           \* taken from the store whose Publish failed
    losses

brokerVars == <<queue, link, losses>>
workerVars == <<cur, cpc, handled>>
storeVars  == <<next, jobs>>
chanVars   == <<stored, recovered>>
mainVars   == <<mpc, mine, interrupted, timedOut>>
reqVars    == <<rpc, held, gone>>
histVars   == <<known, lost>>
vars == <<brokerVars, workerVars, storeVars, chanVars, mainVars, reqVars, histVars>>

Message(j, b)   == [job |-> j, body |-> b, tries |-> 0]
storedJob(i, m) == [id |-> i, job |-> m.job, body |-> m.body]

Init ==
    /\ known \in SUBSET Leftovers
    /\ queue \in SetToSeqs({Message(j, BodyOf[j]) : j \in known})
    /\ link = FALSE /\ losses = 0
    /\ cur = None /\ cpc = "idle" /\ handled = {}
    /\ next = 0 /\ jobs = <<>>
    /\ stored = <<>> /\ recovered = 0
    /\ mpc = "start" /\ mine = None /\ interrupted = FALSE /\ timedOut = FALSE
    /\ rpc = [r \in Requests |-> "idle"] /\ held = [r \in Requests |-> None] /\ gone = {}
    /\ lost = {}

Alive   == mpc \notin {"ended", "exit1"}
Serving == mpc \in {"publish", "waitStored", "take", "republish", "waitRecovered"}
Closed  == mpc = "waitInflight"   \* Shutdown has closed the clients

(***************************************************************************)
(* memoryStore: each operation holds mu from its first line to its last.   *)
(***************************************************************************)
add(m) == next' = next + 1 /\ jobs' = Append(jobs, storedJob(next + 1, m))

Stored(id) == \E x \in Range(jobs) : x.id = id

\* The loop of take stops at the first job with the id,
First(id, i) == jobs[i].id = id /\ \A k \in 1..(i - 1) : jobs[k].id # id

take_Keeps(i) == UNCHANGED storeVars

take_Truncates(i) == jobs' = SubSeq(jobs, 1, i - 1) /\ UNCHANGED next

\* and cuts it out of the slice.
take(i) == jobs' = RemoveAt(jobs, i) /\ UNCHANGED next

(***************************************************************************)
(* The consumer: one worker.                                               *)
(***************************************************************************)
Deliver ==
    /\ Alive /\ ~Closed /\ mpc # "start"
    /\ cpc = "idle" /\ queue # <<>>
    /\ cur' = Head(queue) /\ queue' = Tail(queue) /\ link' = TRUE
    /\ cpc' = "handler"
    /\ UNCHANGED <<losses, handled, storeVars, chanVars, mainVars, reqVars, histVars>>

CloseRecovered_Always == recovered' = recovered + 1

\* recoveredOnce.Do(func() { close(recovered) }).
CloseRecovered == recovered' = 1

\* The handler of AddConsumer, and what handleDelivery makes of its result: a
\* temporary failure goes through the delay queue until MaxDuration is over.
Handler ==
    /\ Alive /\ cpc = "handler"
    /\ \/ /\ cur.body = "hello-from-retry"
          /\ CloseRecovered
          /\ handled' = handled \cup {cur.job}
          /\ cpc' = "ack"
       \/ /\ cur.body = "fail:boom" \/ (cur.body = "other" /\ cur.tries = MaxTries)
          /\ cpc' = "failHandler"
          /\ UNCHANGED <<recovered, handled>>
       \/ /\ cur.body = "other" /\ cur.tries < MaxTries
          /\ cpc' = "reject"
          /\ UNCHANGED <<recovered, handled>>
    /\ UNCHANGED <<brokerVars, cur, storeVars, stored, mainVars, reqVars, histVars>>

\* The fail handler stores the job
FailHandler ==
    /\ Alive /\ cpc = "failHandler"
    /\ add(cur)
    /\ cpc' = "send"
    /\ UNCHANGED <<brokerVars, cur, handled, chanVars, mainVars, reqVars, histVars>>


\* and sends it to main.  It blocks while stored is full, and main receives once.
FailHandlerSends ==
    /\ Alive /\ cpc = "send"
    /\ Len(stored) < StoredCap
    /\ stored' = Append(stored, storedJob(next, cur))
    /\ cpc' = "ack"
    /\ UNCHANGED <<brokerVars, cur, handled, storeVars, recovered, mainVars, reqVars, histVars>>

\* ackDelivery and rejectDelivery, in vain if the channel is lost by now.
Settle ==
    /\ Alive /\ cpc \in {"ack", "reject"}
    /\ queue' = IF cpc = "reject" /\ link
                THEN Append(queue, [cur EXCEPT !.tries = @ + 1])
                ELSE queue
    /\ link' = FALSE
    /\ cur' = None /\ cpc' = "idle"
    /\ UNCHANGED <<losses, handled, storeVars, chanVars, mainVars, reqVars, histVars>>

\* The delivery goes back to the queue when its channel is closed.
Requeue == link' = FALSE /\ queue' = IF link THEN <<cur>> \o queue ELSE queue

LoseChannel ==
    /\ Alive /\ link /\ losses < MaxLosses
    /\ losses' = losses + 1
    /\ Requeue
    /\ UNCHANGED <<workerVars, storeVars, chanVars, mainVars, reqVars, histVars>>

(***************************************************************************)
(* republish: take a job, then Publish it.                                 *)
(***************************************************************************)
\* Publish returns nil with the message stored; an error, possible only if may,
\* leaves it open whether the message was stored.
Publish(m, may, ok) ==
    \/ ok /\ ~Closed /\ queue' = Append(queue, m) /\ UNCHANGED lost
    \/ ~ok /\ may /\ \/ UNCHANGED queue /\ lost' = lost \cup {m.job}
                     \/ queue' = Append(queue, m) /\ UNCHANGED lost

\* POST /retry: an id that is not positive is refused, and one that is not in
\* the store is not found.
PostRetry(r, id) ==
    /\ Serving /\ rpc[r] = "idle"
    /\ \/ /\ id > 0
          /\ \E i \in DOMAIN jobs :
                First(id, i) /\ take(i) /\ held' = [held EXCEPT ![r] = jobs[i]]
          /\ rpc' = [rpc EXCEPT ![r] = "publish"]
       \/ /\ id = 0 \/ ~Stored(id)
          /\ rpc' = [rpc EXCEPT ![r] = "returned"]
          /\ UNCHANGED <<held, storeVars>>
    /\ UNCHANGED <<brokerVars, workerVars, chanVars, mainVars, gone, histVars>>

\* It publishes the body as it was stored.
PostRetryPublishes(r) ==
    /\ Alive /\ rpc[r] = "publish"
    /\ \E ok \in BOOLEAN :
          Publish(Message(held[r].job, held[r].body), Closed \/ r \in gone, ok)
    /\ rpc' = [rpc EXCEPT ![r] = "returned"]
    /\ held' = [held EXCEPT ![r] = None]
    /\ UNCHANGED <<link, losses, workerVars, storeVars, chanVars, mainVars, gone, known>>

\* The client of a request goes away.
CancelRequest(r) ==
    /\ Alive /\ rpc[r] = "publish" /\ r \notin gone
    /\ gone' = gone \cup {r}
    /\ UNCHANGED <<brokerVars, workerVars, storeVars, chanVars, mainVars, rpc, held, histVars>>

(***************************************************************************)
(* main.                                                                   *)
(***************************************************************************)
Interrupt ==
    /\ Alive /\ ~interrupted
    /\ interrupted' = TRUE
    /\ UNCHANGED <<brokerVars, workerVars, storeVars, chanVars, mpc, mine, timedOut, reqVars,
                   histVars>>

\* main goes on at label to.  When the clients are closed or the process ends an
\* unacknowledged delivery goes back to the queue.
GoTo(to) ==
    /\ mpc' = to
    /\ IF to \in {"waitInflight", "ended", "exit1"} THEN Requeue ELSE UNCHANGED <<queue, link>>
    /\ UNCHANGED <<losses, workerVars, recovered, interrupted, reqVars, histVars>>

\* InitConsumer, which refuses a context that is done, and startHTTP.
Start ==
    /\ mpc = "start"
    /\ GoTo(IF interrupted THEN "exit1" ELSE "publish")
    /\ UNCHANGED <<storeVars, stored, mine, timedOut>>

\* Publish under the signal context.  os.Exit(1) runs none of the deferred calls.
MainPublishes(m, to) ==
    /\ \E ok \in BOOLEAN :
          /\ Publish(m, interrupted, ok)
          /\ mpc' = IF ok THEN to ELSE "exit1"
    /\ known' = known \cup {m.job}
    /\ UNCHANGED <<link, losses, workerVars, storeVars, chanVars, mine, interrupted, timedOut,
                   reqVars>>

PublishFirst ==
    mpc = "publish" /\ MainPublishes(Message(MainJob, "fail:boom"), "waitStored")

\* The job main receives is the first that was stored, whoever published it
ReceiveStored ==
    /\ mpc = "waitStored" /\ stored # <<>>
    /\ mine' = Head(stored) /\ stored' = Tail(stored)
    /\ GoTo("take")
    /\ UNCHANGED <<storeVars, timedOut>>

\* and a request may have taken it from the store before.
TakeMine ==
    /\ mpc = "take"
    /\ \/ /\ \E i \in DOMAIN jobs : First(mine.id, i) /\ take(i)
          /\ GoTo("republish")
       \/ /\ ~Stored(mine.id)
          /\ GoTo("exit1") /\ UNCHANGED storeVars
    /\ UNCHANGED <<stored, mine, timedOut>>

\* The job gets a body that its handler accepts.
Republish ==
    mpc = "republish" /\ MainPublishes(Message(mine.job, "hello-from-retry"), "waitRecovered")

\* main returns when the job was processed, or on the signal.
MainReturns ==
    /\ \/ mpc = "waitRecovered" /\ recovered > 0
       \/ mpc \in {"waitStored", "waitRecovered"} /\ interrupted
    /\ GoTo("httpShutdown")
    /\ UNCHANGED <<storeVars, stored, mine, timedOut>>

HTTPShutdown_Skipped ==
    /\ mpc = "httpShutdown"
    /\ GoTo("shutdown")
    /\ UNCHANGED <<storeVars, stored, mine, timedOut>>

\* The deferred calls run last first: the HTTP server accepts no more and waits
\* for its requests, five seconds at most.
HTTPShutdown ==
    /\ mpc = "httpShutdown"
    /\ timedOut' = \E r \in Requests : rpc[r] = "publish"
    /\ GoTo("shutdown")
    /\ UNCHANGED <<storeVars, stored, mine>>

\* Then Shutdown closes the clients, and waits for the handler or its deadline.
Shutdown ==
    /\ \/ mpc = "shutdown" /\ GoTo("waitInflight")
       \/ mpc = "waitInflight" /\ GoTo("ended")
    /\ UNCHANGED <<storeVars, stored, mine, timedOut>>

ConsumerStep == Deliver \/ Handler \/ FailHandler \/ FailHandlerSends \/ Settle

MainStep ==
    \/ Start \/ PublishFirst \/ ReceiveStored \/ TakeMine \/ Republish
    \/ MainReturns \/ HTTPShutdown \/ Shutdown

RequestStep(r) ==
    \/ \E id \in 0..next : PostRetry(r, id)
    \/ PostRetryPublishes(r)
    \/ CancelRequest(r)

Next ==
    \/ ConsumerStep \/ MainStep
    \/ \E r \in Requests : RequestStep(r)
    \/ LoseChannel \/ Interrupt

\* The goroutines run; Publish ends, as Publisher shows while its clients serve.
Fairness ==
    /\ WF_vars(ConsumerStep)
    /\ WF_vars(MainStep)
    /\ \A r \in Requests : WF_vars(PostRetryPublishes(r))

Spec == Init /\ [][Next]_vars /\ Fairness

(***************************************************************************)
(* Properties.                                                             *)
(***************************************************************************)
Messages == [job : known, body : Bodies, tries : 0..MaxTries]
Items    == [id : 1..next, job : known, body : Bodies]

\* A second close of recovered, which a redelivery would make but for
\* recoveredOnce (main.go:143), panics: the counter is at most one.
TypeOK ==
    /\ known \subseteq Jobs /\ handled \subseteq known /\ lost \subseteq known
    /\ queue \in Seq(Messages)
    /\ cpc \in {"idle", "handler", "failHandler", "send", "ack", "reject"}
    /\ IF cpc = "idle" THEN cur = None ELSE cur \in Messages
    /\ cpc = "reject" => cur.tries < MaxTries
    /\ link \in BOOLEAN /\ (link => cpc # "idle")
    /\ next \in Nat /\ jobs \in Seq(Items)
    /\ stored \in Seq(Items) /\ Len(stored) <= StoredCap
    /\ recovered \in 0..1
    /\ Serving \/ mpc \in {"start", "httpShutdown", "shutdown", "waitInflight", "ended", "exit1"}
    /\ mine \in Items \cup {None} /\ (mpc \in {"take", "republish"} => mine \in Items)
    /\ rpc \in [Requests -> {"idle", "publish", "returned"}] /\ gone \subseteq Requests
    /\ held \in [Requests -> Items \cup {None}]
    /\ \A r \in Requests : rpc[r] = "publish" => held[r] \in Items
    /\ interrupted \in BOOLEAN /\ timedOut \in BOOLEAN
    /\ losses \in 0..MaxLosses

\* The jobs that republish has taken from the store and not published yet.
Hands ==
    {held[r] : r \in {q \in Requests : rpc[q] = "publish"}}
    \cup (IF mpc = "republish" THEN {mine} ELSE {})

\* Where a job is, other than with the consumer, or what has become of it.
Accounted(j) ==
    \/ j \in handled \cup lost
    \/ \E x \in Range(queue) \cup Range(jobs) \cup Hands : x.job = j

\* A job that ever was in the queue is in the queue, with the consumer, in the
\* store, or in the hands of one who republishes it, unless its handler
\* succeeded or its Publish failed: acknowledging after the fail handler, and
\* taking a job out of the middle of the slice (main.go:81-87), lose no other.
NoJobLost == Alive => \A j \in known : Accounted(j) \/ (cpc # "idle" /\ cur.job = j)

\* republish takes first and publishes afterwards (main.go:241-252), so a Publish
\* that fails loses the job.  While the service runs this needs a request whose
\* client went away, or one that outlived the five seconds of httpSrv.Shutdown:
\* the deferred calls close the publisher only after the requests ended.
LostNeedsCancel == lost # {} => gone # {} \/ timedOut \/ mpc = "exit1"

\* Two requests for the same id, or a request and main, never both republish it,
\* and what is being republished is not listed any more (take, main.go:77-90).
TakenOnce ==
    /\ \A r1, r2 \in Requests :
          r1 # r2 /\ rpc[r1] = "publish" /\ rpc[r2] = "publish" => held[r1].id # held[r2].id
    /\ mpc = "republish" =>
          \A r \in Requests : rpc[r] = "publish" => held[r].id # mine.id
    /\ \A x \in Hands : ~Stored(x.id)

\* The delivery is still the broker's only copy of a job that was not stored yet.
Unsettled == link /\ cpc \in {"handler", "failHandler", "reject"}

\* What the consumer may settle is accounted for elsewhere.
SettlesAccounted == Alive => \A j \in known : Accounted(j) \/ (Unsettled /\ cur.job = j)

\* An id stands for one job: in the store, in the Go channel stored and with main.
IdsAgree ==
    /\ cpc = "send" => next > 0
    /\ \A i, k \in DOMAIN jobs : jobs[i].id = jobs[k].id => i = k
    /\ \A x \in Range(jobs) :
          /\ \A y \in Range(stored) : x.id = y.id => x.job = y.job
          /\ mpc = "take" /\ x.id = mine.id => x.job = mine.job
          /\ cpc = "send" /\ x.id = next => x.job = cur.job

\* A request that is still publishing after httpSrv.Shutdown has outlived it.
Outlives ==
    /\ timedOut => mpc \in {"shutdown", "waitInflight", "ended"}
    /\ mpc \in {"shutdown", "waitInflight"} =>
          \A r \in Requests : rpc[r] = "publish" => timedOut

\* The inductive invariant: types, among them that recovered is closed once
\* (main.go:143), where each job is, what an id stands for (main.go:45-90) and who
\* outlives the HTTP server (main.go:163-167).
FailedJobsInv ==
    /\ TypeOK /\ SettlesAccounted /\ IdsAgree /\ TakenOnce
    /\ Outlives /\ LostNeedsCancel

=============================================================================
