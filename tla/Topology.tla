------------------------------ MODULE Topology ------------------------------
(***************************************************************************)
(* Several processes that use one broker, each with a configuration of its *)
(* own: an old and a new deployment, a publisher and a consumer service.   *)
(* Every client declares its queues, exchanges and bindings call by call   *)
(* (initQueue and initQueueWithRetry in src/client.go), and the broker     *)
(* refuses to declare again with other arguments what exists.  What the    *)
(* modules of single components assume of the broker is shown here: where  *)
(* a rejected message goes, that it comes back, and which headers it has.  *)
(*                                                                         *)
(* A name is the sequence of its dotted parts, because two configured      *)
(* names may meet: the queue q.delay is also the delay queue of q.  A      *)
(* client stands for the publisher and the consumers of one queue in one   *)
(* process: all of them run the same init with the same parameters.        *)
(***************************************************************************)
EXTENDS Config

CONSTANTS
    Procs,         \* the processes
    Names,         \* the queue names a configuration may use
    Versions,      \* the versions of the program a process may be started as
    Deployment,    \* of each version: configuration, options, InitConsumer's context
    Contexts,      \* the contexts of publishes and of InitConsumer
    Messages,
    MaxStarts,     \* bound: calls of New
    MaxFaults      \* bound: channels lost and broker restarts

\* The parts that names are made of.
Parts == {"delay", "ex"} \cup UNION {Range(n) : n \in Names}

ASSUME TopologyAssumption ==
    /\ Names \subseteq Seq(Parts)
    /\ Nil \notin Versions /\ Nil \notin Procs \X Names
    /\ Nil \notin Seq(Parts) /\ Nil \notin Int
    /\ Nil # NoPropagation
    /\ MaxStarts \in Nat /\ MaxFaults \in Nat
    /\ \A v \in Versions : Deployment[v].opts \in Seq(Range(Deployment[v].opts))
    /\ \A v \in Versions : \A n \in DOMAIN Deployment[v].QueueParams :
          LET retry == Deployment[v].QueueParams[n].Retry
          IN  n \in Names /\ (retry # Nil => retry.Delay \in Int)
    /\ \A v \in Versions : Deployment[v].LoopCtx \in Contexts
    /\ \A ctx \in Contexts :
          /\ ctx = [corr |-> ctx.corr, trace |-> ctx.trace]
          /\ ctx.corr # Nil
          /\ ctx.trace = [k \in DOMAIN ctx.trace |-> ctx.trace[k]]
          /\ DOMAIN ctx.trace \subseteq TraceFields
          /\ ctx.trace # <<>> => "traceparent" \in DOMAIN ctx.trace
          /\ \A k \in DOMAIN ctx.trace : HasString(ctx.trace, k)

VARIABLES
    conf,      \* the version whose configuration each process runs with, or Nil
    step,      \* per client: the call of init it is at, 0 if it does not run
    entities,  \* the queues and exchanges the broker has, with their arguments
    bindings,  \* its bindings
    msg,       \* the messages
    starts, faults

broker == <<entities, bindings>>
vars   == <<conf, step, broker, msg, starts, faults>>

Clients == Procs \X Names

NoMessage ==
    [st |-> "none", at |-> <<>>, dest |-> <<>>, hdr |-> <<>>, ctx |-> Background,
     by |-> Nil, from |-> Nil]

Init ==
    /\ conf = [p \in Procs |-> Nil]
    /\ step = [c \in Clients |-> 0]
    /\ entities = <<>>
    /\ bindings = {}
    /\ msg = [m \in Messages |-> NoMessage]
    /\ starts = 0
    /\ faults = 0

(***************************************************************************)
(* The calls of init.                                                      *)
(***************************************************************************)
Ex(n)      == n \o <<"ex">>
DelayQ(n)  == n \o <<"delay">>
DelayEx(n) == n \o <<"delay", "ex">>

ExchangeDeclare(n) ==
    [call |-> "declare", key |-> [kind |-> "exchange", name |-> n], args |-> [durable |-> TRUE]]

QueueDeclare(n, dlx, ttl) ==
    [call |-> "declare", key |-> [kind |-> "queue", name |-> n],
     args |-> [durable |-> TRUE, dlx |-> dlx, ttl |-> ttl]]

QueueBind(n, ex) == [call |-> "bind", binding |-> [ex |-> ex, queue |-> n]]

Qos == [call |-> "qos"]

initQueue(n) == <<QueueDeclare(n, Nil, Nil), Qos>>

initQueueWithRetry_PlainDelayQueue(n, delay) ==
    << ExchangeDeclare(Ex(n)),
       ExchangeDeclare(DelayEx(n)),
       QueueDeclare(n, DelayEx(n), Nil),
       QueueDeclare(DelayQ(n), Nil, Nil),
       QueueBind(n, Ex(n)),
       QueueBind(DelayQ(n), DelayEx(n)),
       Qos >>

initQueueWithRetry_NoTTL(n, delay) ==
    << ExchangeDeclare(Ex(n)),
       ExchangeDeclare(DelayEx(n)),
       QueueDeclare(n, DelayEx(n), Nil),
       QueueDeclare(DelayQ(n), Ex(n), Nil),
       QueueBind(n, Ex(n)),
       QueueBind(DelayQ(n), DelayEx(n)),
       Qos >>

initQueueWithRetry_BindsFirst(n, delay) ==
    << ExchangeDeclare(Ex(n)),
       QueueBind(n, Ex(n)),
       ExchangeDeclare(DelayEx(n)),
       QueueBind(DelayQ(n), DelayEx(n)),
       QueueDeclare(n, DelayEx(n), Nil),
       QueueDeclare(DelayQ(n), Ex(n), delay \div Millisecond),
       Qos >>

\* x-message-ttl is the delay in whole milliseconds.
initQueueWithRetry(n, delay) ==
    << ExchangeDeclare(Ex(n)),
       ExchangeDeclare(DelayEx(n)),
       QueueDeclare(n, DelayEx(n), Nil),
       QueueDeclare(DelayQ(n), Ex(n), delay \div Millisecond),
       QueueBind(n, Ex(n)),
       QueueBind(DelayQ(n), DelayEx(n)),
       Qos >>

\* What New may answer each version, its options and the calls its clients make.
Results == [v \in Versions |-> newQueueStore(Deployment[v])]

Opts == [v \in Versions |-> Options(Deployment[v])]

Calls ==
    [v \in Versions |-> [n \in DOMAIN Deployment[v].QueueParams |->
        LET retry == Deployment[v].QueueParams[n].Retry
        IN  IF retry # Nil THEN initQueueWithRetry(n, retry.Delay) ELSE initQueue(n)]]

Running(c) == step[c] > 0

Item(c) == Deployment[conf[c[1]]].QueueParams[c[2]]

WithRetry(c) == Item(c).Retry # Nil

InitCalls(c) == Calls[conf[c[1]]][c[2]]

Ready_BeforeBinds(c) == Running(c) /\ step[c] > Len(InitCalls(c)) - 3

\* isReady: init has come to its end on the current channel.
Ready(c) == Running(c) /\ step[c] > Len(InitCalls(c))

\* The broker carries out a declaration that is new or equal to what exists
\* (PRECONDITION_FAILED otherwise), and binds what exists (NOT_FOUND otherwise).
Accepts(call) ==
    CASE call.call = "declare" ->
            call.key \in DOMAIN entities => entities[call.key] = call.args
      [] call.call = "bind" ->
            /\ [kind |-> "queue", name |-> call.binding.queue] \in DOMAIN entities
            /\ [kind |-> "exchange", name |-> call.binding.ex] \in DOMAIN entities
      [] OTHER -> TRUE

\* init makes its next call; when it fails the channel is closed and init starts
\* again on a new one after ReInitDelay.
InitStep(c) ==
    /\ Running(c) /\ ~Ready(c)
    /\ LET call == InitCalls(c)[step[c]]
           ok   == Accepts(call)
       IN  /\ step' = [step EXCEPT ![c] = IF ok THEN @ + 1 ELSE 1]
           /\ entities' = IF ok /\ call.call = "declare" THEN Put(entities, call.key, call.args)
                          ELSE entities
           /\ bindings' = IF ok /\ call.call = "bind" THEN bindings \cup {call.binding}
                          ELSE bindings
    /\ UNCHANGED <<conf, msg, starts, faults>>

(***************************************************************************)
(* Processes start and end, channels are lost, the broker restarts.        *)
(***************************************************************************)
\* The messages the clients in C work on go back to their queue.
Requeued(C) ==
    [m \in Messages |-> IF msg[m].by \in C THEN [msg[m] EXCEPT !.st = "queued", !.by = Nil]
                        ELSE msg[m]]

\* New, and the clients of the queues it configures.
New(p, v) ==
    /\ conf[p] = Nil
    /\ starts < MaxStarts
    /\ starts' = starts + 1
    /\ \E res \in Results[v] :
          IF res = "nil"
          THEN /\ conf' = [conf EXCEPT ![p] = v]
               /\ step' = [c \in Clients |-> IF c[1] = p /\ c[2] \in DOMAIN Calls[v]
                                             THEN 1 ELSE step[c]]
          ELSE UNCHANGED <<conf, step>>
    /\ UNCHANGED <<broker, msg, faults>>

\* The process ends, by Shutdown or by a crash.
Stop(p) ==
    /\ conf[p] # Nil
    /\ conf' = [conf EXCEPT ![p] = Nil]
    /\ step' = [c \in Clients |-> IF c[1] = p THEN 0 ELSE step[c]]
    /\ msg' = Requeued({p} \X Names)
    /\ UNCHANGED <<broker, starts, faults>>

LoseChannel(c) ==
    /\ faults < MaxFaults
    /\ Running(c)
    /\ faults' = faults + 1
    /\ step' = [step EXCEPT ![c] = 1]
    /\ msg' = Requeued({c})
    /\ UNCHANGED <<conf, broker, starts>>

Declared(n) == [kind |-> "queue", name |-> n] \in DOMAIN entities

Args(n) == entities[[kind |-> "queue", name |-> n]]

\* Only what was declared durable, and messages in such queues, survive; the
\* messages are persistent (unsafePush).
BrokerRestart ==
    /\ faults < MaxFaults
    /\ faults' = faults + 1
    /\ LET kept == {k \in DOMAIN entities : entities[k].durable}
       IN  /\ entities' = Restrict(entities, kept)
           /\ bindings' = {b \in bindings : [kind |-> "queue", name |-> b.queue] \in kept}
           /\ msg' = [m \in Messages |->
                         LET r == Requeued(Clients)[m]
                         IN  IF r.st = "queued" /\ [kind |-> "queue", name |-> r.at] \notin kept
                             THEN [r EXCEPT !.st = "lost"] ELSE r]
    /\ step' = [c \in Clients |-> IF Running(c) THEN 1 ELSE 0]
    /\ UNCHANGED <<conf, starts>>

(***************************************************************************)
(* Messages.                                                               *)
(***************************************************************************)
\* unsafePush copies the headers of the builder and stamps expired over them.
Stamp(c, headers) ==
    IF WithRetry(c) THEN Put(headers, "expired", "time") ELSE headers

\* Publish on the default exchange: an unroutable message is returned by the
\* broker and only logged (logReturnedMessages).
Publish(c, m, ctx) ==
    /\ Ready(c) /\ ~Item(c).ConsumerOnly
    /\ msg[m].st = "none"
    /\ LET b == Opts[conf[c[1]]].publishHeadersBuilder
       IN  msg' = [msg EXCEPT ![m] =
                      [st |-> IF Declared(c[2]) THEN "queued" ELSE "lost",
                       at |-> c[2], dest |-> c[2], ctx |-> ctx, by |-> Nil,
                       from |-> conf[c[1]],
                       hdr |-> Stamp(c, NewPublishHeadersBuilder(b, ctx))]]
    /\ UNCHANGED <<conf, step, broker, starts, faults>>

\* The broker delivers to a consumer that has no delivery (prefetch 1).
Deliver(c, m) ==
    /\ Ready(c)
    /\ \A o \in Messages : msg[o].by # c
    /\ msg[m].st = "queued" /\ msg[m].at = c[2]
    /\ msg' = [msg EXCEPT ![m].st = "unacked", ![m].by = c]
    /\ UNCHANGED <<conf, step, broker, starts, faults>>

\* The context handleDelivery gives the handler, made from that of InitConsumer.
HandlerContext(m) ==
    LET v == conf[msg[m].by[1]]
    IN  NewConsumeHeadersExtractor(Opts[v].consumeHeadersExtractor,
                                   Deployment[v].LoopCtx, msg[m].hdr)

Settle(m, st) ==
    /\ msg' = [msg EXCEPT ![m].st = st, ![m].by = Nil]
    /\ UNCHANGED <<conf, step, broker, starts, faults>>

Ack(m) == Settle(m, "done")

\* finalizeFailedRetry passes the job on only if there is a fail handler.
Finalize(c, m) ==
    /\ WithRetry(c)
    /\ Settle(m, IF Opts[conf[c[1]]].failHandler # Nil THEN "failed" ELSE "lost")

\* nackDelivery: an error without retry mode.
Requeue(c, m) == ~WithRetry(c) /\ Settle(m, "queued")

\* The broker dead-letters m to what is bound to the exchange of its queue, and
\* adds the x-death table; with nothing bound the message is discarded.
DeadLetter(m, discarded) ==
    LET routes == {b.queue : b \in {b \in bindings : b.ex = Args(msg[m].at).dlx}}
    IN  /\ IF routes = {}
           THEN msg' = [msg EXCEPT ![m].st = discarded, ![m].by = Nil]
           ELSE \E n \in routes :
                   msg' = [msg EXCEPT ![m].st = "queued", ![m].by = Nil, ![m].at = n,
                                      ![m].hdr = Put(@, "x-death", Nil)]
        /\ UNCHANGED <<conf, step, broker, starts, faults>>

\* rejectDelivery in retry mode, nackAfterPanic in both.
Reject(c, m) == DeadLetter(m, IF WithRetry(c) THEN "lost" ELSE "dropped")

Handle(c, m) ==
    /\ msg[m].by = c
    /\ Ack(m) \/ Finalize(c, m) \/ Requeue(c, m) \/ Reject(c, m)

\* x-message-ttl of the queue is over.
Expire(m) ==
    /\ msg[m].st = "queued"
    /\ Args(msg[m].at).ttl # Nil
    /\ DeadLetter(m, "lost")

Next ==
    \/ \E p \in Procs : Stop(p) \/ \E v \in Versions : New(p, v)
    \/ \E c \in Clients :
          \/ InitStep(c)
          \/ LoseChannel(c)
          \/ \E m \in Messages :
                Deliver(c, m) \/ Handle(c, m) \/ \E ctx \in Contexts : Publish(c, m, ctx)
    \/ \E m \in Messages : Expire(m)
    \/ BrokerRestart

\* Clients retry init after ReInitDelay, and TTLs run out.
Fairness ==
    /\ \A c \in Clients : WF_vars(InitStep(c))
    /\ \A m \in Messages : WF_vars(Expire(m))

Spec == Init /\ [][Next]_vars /\ Fairness

-----------------------------------------------------------------------------
States == {"none", "queued", "unacked", "done", "failed", "dropped", "lost"}

\* A process that runs was accepted by New, and its clients are within init.
ConfOK ==
    /\ conf \in [Procs -> Versions \cup {Nil}]
    /\ \A p \in Procs : conf[p] # Nil => "nil" \in Results[conf[p]]
    /\ step \in [Clients -> Nat]
    /\ \A c \in Clients : Running(c) => /\ conf[c[1]] # Nil
                                        /\ c[2] \in DOMAIN Calls[conf[c[1]]]
                                        /\ step[c] <= Len(InitCalls(c)) + 1

\* What a running process calls without a test is not nil: WithFailHandler aside, no
\* order of options undoes a default (options.go:41-61).
OptionsOK ==
    \A p \in Procs : conf[p] # Nil =>
        /\ Opts[conf[p]].publishHeadersBuilder # Nil
        /\ Opts[conf[p]].consumeHeadersExtractor # Nil

\* The broker still has what a call of init declared or bound.
Made(call) ==
    CASE call.call = "declare" -> call.key \in DOMAIN entities /\ entities[call.key] = call.args
      [] call.call = "bind"    -> call.binding \in bindings
      [] OTHER                 -> TRUE

\* What a client has declared so far is in place, though other clients, losses
\* and restarts of the broker have come between.
CallsMade ==
    \A c \in Clients : Running(c) => \A i \in 1..(step[c] - 1) : Made(InitCalls(c)[i])

\* Everything in the broker is durable, and an exchange leads to one queue only.
BrokerOK ==
    /\ \A k \in DOMAIN entities : entities[k].durable
    /\ \A b \in bindings : /\ b.queue \in Seq(Parts) /\ b.ex = Ex(b.queue)
                           /\ Declared(b.queue)

\* A message is in the queue it was published to, or in a delay queue that leads
\* back there.
Placed(m) ==
    LET at   == msg[m].at
        dest == msg[m].dest
    IN  /\ dest \in Names /\ Declared(dest) /\ Args(dest).ttl = Nil
        /\ \/ at = dest
           \/ /\ at = DelayQ(dest) /\ Declared(at) /\ Args(at).ttl # Nil
              /\ Args(at).dlx = Ex(dest)
              /\ [ex |-> Ex(dest), queue |-> dest] \in bindings

\* Its handler belongs to a client of that queue whose init is complete.
MessageOK(m) ==
    /\ DOMAIN msg[m] = DOMAIN NoMessage
    /\ msg[m].st \in States \ {"lost"}
    /\ msg[m].by \in Clients \cup {Nil}
    /\ msg[m].st = "unacked" <=> msg[m].by # Nil
    /\ msg[m].by # Nil => Ready(msg[m].by) /\ msg[m].at = msg[m].by[2]
    /\ msg[m].st \in {"queued", "unacked"} => Placed(m)

\* The headers that are written after the builder of the publisher has run.
Stamped == {"expired", "x-death"}

Agrees(headers, built) ==
    /\ DOMAIN headers \ Stamped = DOMAIN built \ Stamped
    /\ \A k \in DOMAIN built \ Stamped : headers[k] = built[k]

\* The other headers are those the builder made of the context of the publish,
\* and a message of a retry queue has the stamp, whoever published it.
HeadersOK(m) ==
    msg[m].st \in {"queued", "unacked"} =>
        LET built == NewPublishHeadersBuilder(Opts[msg[m].from].publishHeadersBuilder,
                                              msg[m].ctx)
        IN  /\ msg[m].ctx \in Contexts
            /\ Args(msg[m].dest).dlx # Nil => "expired" \in DOMAIN msg[m].hdr
            /\ Agrees(msg[m].hdr, built)

MessagesOK ==
    /\ DOMAIN msg = Messages
    /\ \A m \in Messages : MessageOK(m) /\ HeadersOK(m)

\* The inductive invariant: the state is well typed, processes run with options
\* they can use (options.go:41-61), what their clients declared is in place
\* (client.go:434-481), and every message is where it can be handled from.
TopologyInv == ConfOK /\ OptionsOK /\ CallsMade /\ BrokerOK /\ MessagesOK

\* A message of a retry queue never vanishes on its way through the queue, the
\* delay queue and the fail handler (client.go:440-481, options.go:112), whichever
\* declarations are complete and whatever the broker and the clients lose.
NeverLost == \A m \in Messages : msg[m].st # "lost"

\* A handler is given only messages published to the queue it is registered
\* for, even where the name of one queue is that of another's delay queue
\* (client.go:458).
Isolated == \A m \in Messages : msg[m].by # Nil => msg[m].by[2] = msg[m].dest

\* A message rejected for a retry waits as long as the client that rejected it
\* was configured to wait, at least a millisecond (client.go:460, options.go:116),
\* though another process may have declared the delay queue.
DelayHonoured ==
    [][\A m \in Messages :
          (msg[m].by # Nil /\ msg'[m].by = Nil /\ msg'[m].at # msg[m].at)
          => /\ WithRetry(msg[m].by)
             /\ Args(msg'[m].at).ttl = Item(msg[m].by).Retry.Delay \div Millisecond
             /\ Args(msg'[m].at).ttl >= 1]_vars

\* The keys publisher and consumer agree on and that nothing overwrites.
SameKey(b, e) ==
    /\ b.Get /\ e.Set
    /\ b.CorrelationIDKey = e.CorrelationIDKey
    /\ b.CorrelationIDKey \notin {""} \cup Stamped \cup b.TraceKeys

SameTrace(b, e, trace) ==
    /\ b.Propagator # Nil /\ e.Propagator # Nil
    /\ DOMAIN trace \subseteq b.TraceKeys \cap e.TraceKeys
    /\ b.CorrelationIDKey \notin TraceFields

\* A value that was given, or else another.
OrElse(value, none, other) == IF value # none THEN value ELSE other

\* The handler runs in the context of the publish (otel/propagation.go,
\* delivery.go:18): the correlation id and the trace come through headers that
\* the expired stamp and the broker add to, after any number of retries, and
\* override those of the context InitConsumer was called with; where the publish
\* had none the handler has the latter.  Whatever a client in retry mode works on
\* has the expired header (client.go:299-307), without which the job would fail at
\* its first error.
ContextRestored ==
    \A m \in Messages : msg[m].by # Nil =>
        LET v    == conf[msg[m].by[1]]
            b    == Opts[msg[m].from].publishHeadersBuilder
            e    == Opts[v].consumeHeadersExtractor
            ctx  == msg[m].ctx
            loop == Deployment[v].LoopCtx
            got  == HandlerContext(m)
        IN  /\ WithRetry(msg[m].by) => "expired" \in DOMAIN msg[m].hdr
            /\ SameKey(b, e) => got.corr = OrElse(ctx.corr, Background.corr, loop.corr)
            /\ SameTrace(b, e, ctx.trace) =>
                  got.trace = OrElse(ctx.trace, Background.trace, loop.trace)

\* A queue exists with arguments other than those this client declares.
Conflict(c) ==
    \E i \in DOMAIN InitCalls(c) :
        LET call == InitCalls(c)[i]
        IN  /\ call.call = "declare"
            /\ call.key \in DOMAIN entities
            /\ entities[call.key] # call.args

\* Every client becomes ready, however the declarations of several processes
\* interleave and break off, unless its configuration contradicts a queue that
\* exists (client.go:107-128).
BecomesReady ==
    \A c \in Clients : []<>(Running(c) => Ready(c) \/ Conflict(c))

\* A message in the delay queue comes back to the queue it was published to
\* (client.go:458-469), also when nobody who declared it is there any more.
ComesBack ==
    \A m \in Messages :
        (msg[m].st = "queued" /\ msg[m].at # msg[m].dest)
        ~> (msg[m].st = "queued" /\ msg[m].at = msg[m].dest)
=============================================================================
