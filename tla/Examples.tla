------------------------------ MODULE Examples ------------------------------
(***************************************************************************)
(* The programs under examples/ other than failed-jobs, as users of the    *)
(* adapter: basic-consumer, retry, multiple-consumers, graceful-shutdown   *)
(* and publisher-confirms.  They share one shape (create the queue,        *)
(* register handlers, publish, wait for the handlers through Go channels   *)
(* and counters, shut down), so one module has them all and kind says      *)
(* which program runs.                                                     *)
(*                                                                         *)
(* Of the adapter this module uses what the other modules show: Publish    *)
(* ends with the message stored, and fails only once its context is done;  *)
(* when its channel is lost before the confirmation, it stores the message *)
(* once more or never ends; an unacknowledged message is delivered again   *)
(* when its channel is lost; a handler's panic without retry drops the     *)
(* message; Shutdown closes the connections one after the other and then   *)
(* waits for the handlers that inflight counts.  The queues are durable    *)
(* and may hold messages of an earlier execution.                          *)
(***************************************************************************)
EXTENDS Integers, Sequences, FiniteSets, SequencesExt

CONSTANTS
    EmailJobs, EmailWorkers,   \* multiple-consumers
    SlowJobs, SlowWorkers,     \* graceful-shutdown: jobs, workers
    SeqPublishes, ParPublishes,\* publisher-confirms
    Attempts,                  \* retry: the attempt that succeeds
    OldRuns,                   \* bound: earlier executions
    MaxLosses,                 \* bound: channels lost and messages left behind, together
    None

ASSUME ExamplesAssumption ==
    /\ {EmailJobs, EmailWorkers, SlowJobs, SlowWorkers, Attempts} \subseteq Nat \ {0}
    /\ {SeqPublishes, ParPublishes, OldRuns, MaxLosses} \subseteq Nat

Kinds == {"basic", "retry", "multiple", "graceful", "confirms"}

\* What the mains publish one after the other.  A message is its queue, its body
\* and 0; the copy the n-th loss stores has n instead, one that the r-th execution
\* before this left in the queue has -r.
BasicMessages    == << <<"basic", "hello", 0>> >>
RetryMessages    == << <<"retry", "ok", 0>>, <<"retry", "retry-then-ok", 0>>,
                       <<"retry", "fail", 0>> >>
MultipleMessages == Append([i \in 1..EmailJobs |-> <<"emails", i, 0>>], <<"sms", 1, 0>>)
GracefulMessages == [i \in 1..SlowJobs |-> <<"shutdown", i, 0>>]
ConfirmsMessages == [i \in 1..SeqPublishes |-> <<"confirms", i, 0>>]

Messages(k) ==
    CASE k = "basic"    -> BasicMessages
      [] k = "retry"    -> RetryMessages
      [] k = "multiple" -> MultipleMessages
      [] k = "graceful" -> GracefulMessages
      [] k = "confirms" -> ConfirmsMessages

Parallel(i) == <<"confirms", SeqPublishes + i, 0>>

Copy(m, n) == <<m[1], m[2], n>>

\* What earlier executions of the program may have left in its queues.
Leftovers(k) ==
    LET jobs == Range(Messages(k)) \cup
                (IF k = "confirms" THEN {Parallel(i) : i \in 1..ParPublishes} ELSE {})
    IN  {Copy(m, -r) : m \in jobs, r \in 1..OldRuns}

\* The workers registered with AddConsumer and AddConsumerN, each with its queue.
Workers(k) ==
    CASE k \in {"basic", "retry"} -> {<<k, 1>>}
      [] k = "multiple" -> ({"emails"} \X (1..EmailWorkers)) \cup {<<"sms", 1>>}
      [] k = "graceful" -> {"shutdown"} \X (1..SlowWorkers)
      [] k = "confirms" -> {}

DoneCap == 3   \* capacity of retry's Go channel done, and what main receives from it

VARIABLES
    kind,
    old,             \* what the queues held when the program started
    ready,           \* the messages in the broker's queues, delivered in any order
    job, pc, link,   \* per worker: delivery, control point, channel still open
    processed,       \* history: messages whose handler did its work
    a, b,            \* the atomic counters of the program
    ch,              \* its Go channel: tokens held, or how often it was closed
    mpc, sent, got,  \* main: control point, publishes made, tokens received
    par,             \* goroutines of publisher-confirms that have returned
    hung,            \* a publish waits for a confirmation that never comes
    closed,          \* the workers whose client Shutdown has closed
    called,          \* history: handlers started when all were closed
    done,            \* history: main has reported success
    interrupted,     \* the signal context is done
    losses

workVars == <<job, pc, link, processed>>
goVars   == <<a, b, ch>>
pubVars  == <<sent, par, hung>>
shutVars == <<closed, called>>
mainVars == <<mpc, got, done, pubVars, shutVars>>
vars     == <<kind, old, ready, workVars, goVars, mainVars, interrupted, losses>>

Init ==
    /\ kind \in Kinds
    /\ old \in SUBSET Leftovers(kind) /\ IsFiniteSet(old) /\ Cardinality(old) <= MaxLosses
    /\ ready = old /\ processed = {} /\ par = {} /\ closed = {}
    /\ job = [w \in Workers(kind) |-> None]
    /\ pc = [w \in Workers(kind) |-> "idle"]
    /\ link = [w \in Workers(kind) |-> FALSE]
    /\ a = 0 /\ b = 0 /\ ch = 0
    /\ mpc = "start" /\ sent = 0 /\ got = 0 /\ called = 0
    /\ hung = FALSE /\ done = FALSE /\ interrupted = FALSE /\ losses = 0

Alive    == mpc \notin {"ended", "exit1"}
Inflight == {w \in DOMAIN pc : pc[w] \notin {"idle", "received"}}

(***************************************************************************)
(* Workers.                                                                *)
(***************************************************************************)
\* The broker delivers a message to the client of w; the loop takes it from there.
Receive(w) ==
    /\ Alive /\ w \notin closed /\ mpc # "start" /\ pc[w] = "idle"
    /\ \E m \in ready :
          /\ m[1] = w[1]
          /\ ready' = ready \ {m}
          /\ job' = [job EXCEPT ![w] = m]
    /\ link' = [link EXCEPT ![w] = TRUE]
    /\ pc' = [pc EXCEPT ![w] = "received"]
    /\ UNCHANGED <<processed, goVars, mainVars, losses>>

\* Worker w goes from one label to another.
Step(w, from, to) ==
    /\ Alive /\ pc[w] = from
    /\ pc' = [pc EXCEPT ![w] = to]
    /\ UNCHANGED <<ready, job, link, mainVars, losses>>

Processed(w) == processed' = processed \cup {job[w]}

\* handleDelivery counts the handler in inflight.
Begin(w) == Step(w, "received", "handler") /\ UNCHANGED <<processed, goVars>>

\* retry: a temporary failure comes back, unless MaxDuration is over and the
\* fail handler gets it; the fail handler sends to done as the handler does.
HandleRetry(w) ==
    LET retryThenOK == job[w][2] = "retry-then-ok" IN
    /\ kind = "retry" /\ pc[w] = "handler"
    /\ \/ Step(w, "handler", "send")
       \/ retryThenOK /\ a + 1 < Attempts /\ Step(w, "handler", "reject")
    /\ a' = IF retryThenOK THEN a + 1 ELSE a
    /\ UNCHANGED <<processed, b, ch>>

\* done <- struct{}{} blocks while the channel is full.
Send(w) ==
    /\ ch < DoneCap
    /\ Step(w, "send", "ack")
    /\ ch' = ch + 1
    /\ Processed(w)
    /\ UNCHANGED <<a, b>>

CountEmailOrSms_SmsNoMark(w) ==
    /\ kind = "multiple"
    /\ Step(w, "handler", IF w[1] = "emails" THEN "emailsDone" ELSE "ack")
    /\ Processed(w)
    /\ a' = IF w[1] = "emails" THEN a + 1 ELSE a
    /\ b' = IF w[1] = "sms" THEN b + 1 ELSE b
    /\ UNCHANGED ch

\* multiple-consumers: both handlers count, then call mark.
CountEmailOrSms(w) ==
    /\ kind = "multiple"
    /\ Step(w, "handler", "emailsDone")
    /\ Processed(w)
    /\ a' = IF w[1] = "emails" THEN a + 1 ELSE a
    /\ b' = IF w[1] = "sms" THEN b + 1 ELSE b
    /\ UNCHANGED ch

AllEmails_OneShort == a + 1 >= EmailJobs

AllEmails == a = EmailJobs

\* mark: two loads, then a look at the channel, then its close.
Mark(w) ==
    /\ \/ Step(w, "emailsDone", IF AllEmails THEN "smsDone" ELSE "ack")
       \/ Step(w, "smsDone", IF b = 1 THEN "select" ELSE "ack")
       \/ Step(w, "select", IF ch = 0 THEN "close" ELSE "ack")
    /\ UNCHANGED <<processed, goVars>>

\* close(got) and close(finished): the second close panics.
Close(w) ==
    /\ \/ Step(w, "close", IF ch = 0 THEN "ack" ELSE "panic")
       \/ kind = "basic" /\ Step(w, "handler", IF ch = 0 THEN "ack" ELSE "panic")
    /\ ch' = 1
    /\ Processed(w)
    /\ UNCHANGED <<a, b>>

\* graceful-shutdown: started, handlerDelay, finished.
Slow(w) ==
    /\ kind = "graceful"
    /\ \/ Step(w, "handler", "sleep") /\ a' = a + 1 /\ UNCHANGED <<b, processed>>
       \/ Step(w, "sleep", "ack") /\ b' = b + 1 /\ Processed(w) /\ UNCHANGED a
    /\ UNCHANGED ch

\* The message is acknowledged, dropped after a panic, or comes back after the
\* delay; nothing of it happens once the channel is lost.  A delivery of a lost
\* channel may also be given up before its handler begins.
Settle(w) ==
    /\ Alive
    /\ pc[w] \in {"ack", "panic", "reject"} \/ (pc[w] = "received" /\ ~link[w])
    /\ ready' = IF pc[w] = "reject" /\ link[w] THEN ready \cup {job[w]} ELSE ready
    /\ link' = [link EXCEPT ![w] = FALSE]
    /\ job' = [job EXCEPT ![w] = None]
    /\ pc' = [pc EXCEPT ![w] = "idle"]
    /\ UNCHANGED <<processed, goVars, mainVars, losses>>

WorkerStep(w) ==
    /\ w \in DOMAIN pc
    /\ \/ Receive(w) \/ Begin(w) \/ HandleRetry(w) \/ Send(w) \/ CountEmailOrSms(w)
       \/ Mark(w) \/ Close(w) \/ Slow(w) \/ Settle(w)
    /\ UNCHANGED <<kind, old, interrupted>>

\* The channel of worker w is lost, and what it has not acknowledged goes back.
LoseChannel(w) ==
    /\ Alive /\ link[w] /\ losses + Cardinality(old) < MaxLosses
    /\ losses' = losses + 1
    /\ link' = [link EXCEPT ![w] = FALSE]
    /\ ready' = ready \cup {job[w]}
    /\ UNCHANGED <<kind, old, job, pc, processed, goVars, mainVars, interrupted>>

(***************************************************************************)
(* main.                                                                   *)
(***************************************************************************)
\* AddConsumer and InitConsumer; the latter refuses a context that is done.
Start ==
    /\ mpc = "start"
    /\ mpc' = IF interrupted /\ kind # "confirms" THEN "exit1" ELSE "publish"
    /\ UNCHANGED <<ready, link, ch, got, done, pubVars, shutVars>>

\* Publish stores the message, or fails when the context is done and leaves it
\* open whether it was stored.  A call that waits for a confirmation that never
\* comes holds pushMu until its context is done.
Publish(m, ok) ==
    \/ ok /\ ~hung /\ ready' = ready \cup {m} /\ UNCHANGED hung
    \/ ~ok /\ interrupted /\ ready' \in {ready, ready \cup {m}} /\ hung' = FALSE

PublishNext ==
    /\ mpc = "publish" /\ sent < Len(Messages(kind))
    /\ \E ok \in BOOLEAN :
          /\ Publish(Messages(kind)[sent + 1], ok)
          /\ mpc' = IF ok THEN "publish" ELSE "exit1"
    /\ sent' = sent + 1
    /\ UNCHANGED <<link, ch, got, done, par, shutVars>>

Published ==
    /\ mpc = "publish" /\ sent = Len(Messages(kind))
    /\ mpc' = "wait"
    /\ UNCHANGED <<ready, link, ch, got, done, pubVars, shutVars>>

\* A goroutine of publisher-confirms; it only logs an error.
ParPublish(i) ==
    /\ kind = "confirms" /\ mpc = "wait" /\ i \notin par
    /\ \E ok \in BOOLEAN : Publish(Parallel(i), ok)
    /\ par' = par \cup {i}
    /\ UNCHANGED <<link, mpc, ch, got, done, sent, shutVars>>

\* The messages whose Publish may be under way.
Publishing ==
    {Messages(kind)[i] : i \in {j \in 1..Len(Messages(kind)) : mpc = "publish" /\ j = sent + 1}}
    \cup {Parallel(i) : i \in {j \in (1..ParPublishes) \ par : kind = "confirms" /\ mpc = "wait"}}

\* The publisher's channel is lost before the confirmation has come: the message
\* may be stored already, and the call publishes it again, unless it has begun to
\* wait for the confirmation on the next channel.
LoseConfirm ==
    /\ losses + Cardinality(old) < MaxLosses
    /\ losses' = losses + 1
    /\ \E m \in Publishing : ready' \in {ready, ready \cup {Copy(m, losses + 1)}}
    /\ hung' \in BOOLEAN
    /\ UNCHANGED <<kind, old, workVars, goVars, mpc, got, done, sent, par, shutVars, interrupted>>

\* wg.Wait().
WgWait == kind = "confirms" /\ par = 1..ParPublishes

\* waitStarted sees all jobs started.
WaitStarted == kind = "graceful" /\ a >= SlowJobs

\* <-got, <-finished, and the third token of done.
GotClosed      == kind = "basic" /\ ch > 0
FinishedClosed == kind = "multiple" /\ ch > 0
AllReceived    == kind = "retry" /\ got = DoneCap

\* What main waited for has happened; graceful-shutdown goes on to Shutdown,
\* the others report.
Finished ==
    /\ mpc = "wait"
    /\ GotClosed \/ FinishedClosed \/ AllReceived \/ WgWait \/ WaitStarted
    /\ mpc' = IF kind = "graceful" THEN "shutdown" ELSE "return"
    /\ done' = (kind # "graceful")
    /\ UNCHANGED <<ready, link, ch, got, pubVars, shutVars>>

\* retry: main receives a token.
ReceiveDone ==
    /\ mpc = "wait" /\ kind = "retry" /\ ch > 0 /\ got < DoneCap
    /\ ch' = ch - 1 /\ got' = got + 1
    /\ UNCHANGED <<ready, link, mpc, done, pubVars, shutVars>>

\* The signal ends every wait but wg.Wait; waitStarted also has a timeout.
WaitEnds ==
    /\ mpc = "wait" /\ kind # "confirms"
    /\ interrupted \/ kind = "graceful"
    /\ mpc' = "return"
    /\ UNCHANGED <<ready, link, ch, got, done, pubVars, shutVars>>

\* The Shutdown of graceful-shutdown's main closes the next client: what it has
\* not acknowledged goes back, and to a client that is still open.
ShutdownCloses ==
    /\ mpc = "shutdown"
    /\ \E w \in DOMAIN link \ closed :
          /\ closed' = closed \cup {w}
          /\ ready' = IF link[w] THEN ready \cup {job[w]} ELSE ready
          /\ link' = [link EXCEPT ![w] = FALSE]
    /\ UNCHANGED <<mpc, ch, got, done, called, pubVars>>

\* All are closed, and Shutdown has now to wait.
ShutdownClosed ==
    /\ mpc = "shutdown" /\ closed = DOMAIN link
    /\ mpc' = "closing"
    /\ called' = a
    /\ UNCHANGED <<ready, link, ch, got, done, closed, pubVars>>

WaitInflight_NoWait ==
    /\ mpc = "closing" /\ mpc' = "drained"
    /\ UNCHANGED <<ready, link, ch, got, done, pubVars, shutVars>>

\* waitInflight finds no handler running.  A delivery received earlier may still
\* begin its handler.
WaitInflight ==
    /\ mpc = "closing" /\ Inflight = {}
    /\ mpc' = "drained"
    /\ UNCHANGED <<ready, link, ch, got, done, pubVars, shutVars>>

\* The deadline of Shutdown passes, or the WaitGroup panics at such a handler.
ShutdownFails ==
    /\ mpc \in {"closing", "drained"}
    /\ mpc' = "exit1"
    /\ UNCHANGED <<ready, link, ch, got, done, pubVars, shutVars>>

\* Shutdown has returned nil: main loads finished and logs it.
Report ==
    /\ mpc = "drained"
    /\ mpc' = "closed" /\ done' = TRUE
    /\ UNCHANGED <<ready, link, ch, got, pubVars, shutVars>>

\* The deferred shutdown when main returns early or has reported.  Nothing comes
\* after it but the end of the process: its clients are closed in one step.
DeferredCloses ==
    /\ mpc = "return"
    /\ mpc' = "closed"
    /\ closed' = DOMAIN link
    /\ ready' = ready \cup {job[w] : w \in {v \in DOMAIN link : link[v]}}
    /\ link' = [w \in DOMAIN link |-> FALSE]
    /\ UNCHANGED <<ch, got, done, called, pubVars>>

\* It logs its error; the process ends either way.
Ends ==
    /\ mpc = "closed"
    /\ mpc' = "ended"
    /\ UNCHANGED <<ready, link, ch, got, done, pubVars, shutVars>>

MainStep ==
    /\ \/ Start \/ PublishNext \/ Published \/ Finished \/ ReceiveDone \/ WaitEnds
       \/ ShutdownCloses \/ ShutdownClosed \/ WaitInflight \/ ShutdownFails \/ Report
       \/ DeferredCloses \/ Ends
       \/ \E i \in 1..ParPublishes : ParPublish(i)
    /\ UNCHANGED <<kind, old, job, pc, processed, a, b, interrupted, losses>>

Interrupt ==
    /\ Alive /\ ~interrupted
    /\ interrupted' = TRUE
    /\ UNCHANGED <<kind, old, ready, workVars, goVars, mainVars, losses>>

AllWorkers == UNION {Workers(k) : k \in Kinds}

Next ==
    \/ MainStep \/ Interrupt \/ LoseConfirm
    \/ \E w \in AllWorkers : WorkerStep(w)
    \/ \E w \in DOMAIN link : LoseChannel(w)

\* The goroutines run, and the adapter delivers what is in the queue.
Fairness == WF_vars(MainStep) /\ \A w \in AllWorkers : WF_vars(WorkerStep(w))

Spec == Init /\ [][Next]_vars /\ Fairness

(***************************************************************************)
(* Properties.                                                             *)
(***************************************************************************)
Labels == {"idle", "received", "handler", "send", "emailsDone", "smsDone", "select", "close",
           "sleep", "ack", "panic", "reject"}

\* What main has published so far, or tried to.
Sent == {Messages(kind)[i] : i \in 1..sent}

\* What can be in the queues: that, what was there, and what losses have doubled.
Known ==
    Sent \cup old \cup {Copy(m, n) : m \in Range(Messages(kind)), n \in 1..losses}

\* A Go channel holds at most its capacity and nobody receives from an empty
\* one; a worker is given what is known in its queue, and is at a label of its own
\* program.
TypeOK ==
    /\ kind \in Kinds
    /\ old \subseteq Leftovers(kind) /\ IsFiniteSet(old)
    /\ pc \in [Workers(kind) -> Labels]
    /\ link \in [Workers(kind) -> BOOLEAN]
    /\ job \in [Workers(kind) -> Known \cup {None}]
    /\ \A w \in Workers(kind) :
          /\ IF pc[w] = "idle" THEN ~link[w] ELSE job[w] \in Known /\ job[w][1] = w[1]
          /\ pc[w] \in {"send", "reject"} => kind = "retry"
          /\ pc[w] \in {"emailsDone", "smsDone", "select", "close"} => kind = "multiple"
          /\ pc[w] = "sleep" => kind = "graceful"
    /\ processed \subseteq Known /\ (kind # "confirms" => ready \subseteq Known)
    /\ a \in Nat /\ b \in Nat /\ called \in Nat
    /\ ch \in 0..(IF kind = "retry" THEN DoneCap ELSE 1)
    /\ mpc \in {"start", "publish", "wait", "shutdown", "return", "closing", "drained", "closed",
                "ended", "exit1"}
    /\ sent \in 0..Len(Messages(kind)) /\ got \in 0..DoneCap /\ par \subseteq 1..ParPublishes
    /\ closed \subseteq Workers(kind)
    /\ hung \in BOOLEAN /\ done \in BOOLEAN /\ interrupted \in BOOLEAN
    /\ losses \in 0..MaxLosses

ProcessedOf(q) == {m \in processed : m[1] = q}

\* As many messages of each queue were handled as main publishes to it.
EnoughHandled ==
    IF kind = "multiple"
    THEN Cardinality(ProcessedOf("emails")) >= EmailJobs /\ Cardinality(ProcessedOf("sms")) >= 1
    ELSE Cardinality(processed) >= Len(Messages(kind))

\* When main reports success (basic-consumer/main.go:66, retry/main.go:123,
\* multiple-consumers/main.go:115, graceful-shutdown/main.go:97) as many messages
\* were handled as it published, and these are its own if the queues were empty,
\* as long as no channel was lost: the programs count handler runs, and a
\* redelivery, a message stored twice or one left by an earlier execution counts
\* like any other.  When publisher-confirms does (main.go:81) its messages are in
\* the queue, but for concurrent ones after the signal: their goroutines only log
\* their error.
DoneIsTrue ==
    done =>
        /\ losses = 0 /\ kind # "confirms" =>
              EnoughHandled /\ (old = {} => processed = Range(Messages(kind)))
        /\ kind = "confirms" => Range(Messages(kind)) \subseteq ready
        /\ kind = "confirms" /\ ~interrupted =>
              {Parallel(i) : i \in 1..ParPublishes} \subseteq ready

\* Nothing was given back to a queue.
Steady == losses = 0 /\ closed = {}

\* Every message is then delivered once: what a worker has still to handle was not
\* handled before.
DeliveredOnce ==
    Steady =>
        /\ \A w \in Workers(kind) :
              pc[w] \in {"received", "handler", "send", "reject", "sleep"} => job[w] \notin processed
        /\ \A v, w \in Workers(kind) :
              pc[v] # "idle" /\ pc[w] # "idle" /\ job[v] = job[w] => v = w
        /\ kind # "confirms" => ready \cap processed = {}
        /\ \A w \in Workers(kind) : pc[w] # "idle" => job[w] \notin ready

Sleeping    == {w \in DOMAIN pc : pc[w] = "sleep"}
StartedJobs == processed \cup {job[w] : w \in Sleeping}

\* What the counters and the Go channels count.
Counted ==
    /\ kind = "basic" /\ ch > 0 => processed # {}
    /\ kind = "graceful" => a = b + Cardinality(Sleeping)
    /\ Steady =>
          /\ kind = "retry" => got + ch = Cardinality(processed)
          /\ kind = "multiple" => /\ a = Cardinality(ProcessedOf("emails"))
                                  /\ b = Cardinality(ProcessedOf("sms"))
          /\ kind = "graceful" => b = Cardinality(processed)

\* What mark, and main after its waits, have seen.
Seen ==
    /\ mpc = "wait" => sent = Len(Messages(kind))
    /\ closed # {} => mpc \notin {"start", "publish", "wait"}
    /\ mpc \in {"shutdown", "closing", "drained"} => kind = "graceful"
    /\ mpc \in {"shutdown", "closing"} /\ losses = 0 => Cardinality(StartedJobs) >= SlowJobs
    /\ mpc = "drained" /\ losses = 0 => Cardinality(processed) >= SlowJobs
    /\ mpc = "closing" => a >= called
    /\ mpc = "drained" => b >= called
    /\ \A w \in Workers(kind) :
          /\ pc[w] \in {"emailsDone", "smsDone", "select", "close"} => job[w] \in processed
          /\ pc[w] \in {"smsDone", "select", "close"} => a >= EmailJobs
          /\ pc[w] \in {"select", "close"} => b >= 1
    /\ kind = "multiple" /\ ch > 0 => a >= EmailJobs /\ b >= 1
    /\ kind = "confirms" =>
          /\ mpc # "exit1" => Sent \subseteq ready
          /\ ~interrupted => {Parallel(i) : i \in par} \subseteq ready

\* The inductive invariant: no program reports a success it did not have
\* (multiple-consumers/main.go:115, retry/main.go:123), because of what its counters
\* count (multiple-consumers/main.go:56-91, graceful-shutdown/main.go:50-65).
ExamplesInv == TypeOK /\ DoneIsTrue /\ DeliveredOnce /\ Counted /\ Seen

\* The number of finished handlers that graceful-shutdown logs after Shutdown
\* (main.go:97-101) includes every handler that had started when the connections
\* were closed, redeliveries or not.  A handler that begins later may be missing.
ReportCoversStarted == [][done' /\ ~done /\ kind = "graceful" => b >= called]_vars

\* Without a signal each program ends by itself, unless a publish waits for ever for
\* its confirmation.  multiple-consumers may also wait for ever after a loss or with
\* leftovers in its queues: its counters are compared with == (main.go:57), and one
\* message more takes them past the value that mark waits for.
ProgramEnds ==
    []<>(~Alive \/ hung \/ (kind = "multiple" /\ (losses > 0 \/ old # {})))
=============================================================================
