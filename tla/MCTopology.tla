----------------------------- MODULE MCTopology -----------------------------
(* Two processes with compatible, contradictory and invalid configurations *)
(* of the queues q and q.delay, for model checking.                        *)
EXTENDS Topology

q == <<"q">>
qDelay == <<"q", "delay">>

MCNames == {q, qDelay}

Otel ==
    [CorrelationIDKey |-> "id", TraceKeys |-> TraceFields, Get |-> TRUE, Set |-> TRUE,
     Propagator |-> "w3c"]

With(field, value) == [field |-> field, value |-> value]

Handlers == <<With("failHandler", "save"),
              With("publishHeadersBuilder", Otel),
              With("consumeHeadersExtractor", Otel)>>

Deploy(params, opts) ==
    [URL |-> "amqp", ReconnectDelay |-> 2, ReInitDelay |-> 2, ResendDelay |-> 2,
     QueueParams |-> params, opts |-> opts, LoopCtx |-> Background]

\* InitConsumer is called in a span of its own.
InSpan(deployment) ==
    [deployment EXCEPT !.LoopCtx = [corr |-> "c0", trace |-> [traceparent |-> "t0"]]]

Retry(delay) == [Retry |-> [Delay |-> delay, MaxDuration |-> 8], ConsumerOnly |-> FALSE]
Plain == [Retry |-> Nil, ConsumerOnly |-> FALSE]
ConsumerOnly(item) == [item EXCEPT !.ConsumerOnly = TRUE]

MCDeployment ==
    << Deploy(q :> Retry(3), Handlers),
      InSpan(Deploy(q :> Retry(5), Handlers)),
      Deploy(q :> ConsumerOnly(Retry(2)),
             Handlers \o <<With("publishHeadersBuilder", Nil), With("consumeHeadersExtractor", Nil)>>),
      Deploy(q :> Retry(1), Handlers),
      Deploy(q :> Retry(3), Handlers \o <<With("failHandler", Nil)>>),
      Deploy((q :> Plain) @@ (qDelay :> Plain), <<>>),
      Deploy(qDelay :> Retry(3), Handlers),
      [Deploy(q :> Retry(3), <<>>) EXCEPT !.URL = ""],
      [Deploy(q :> Retry(3), Handlers) EXCEPT !.ResendDelay = 0] >>

MCVersions == DOMAIN MCDeployment

MCContexts ==
    { Background,
      [corr |-> "c0", trace |-> [traceparent |-> "t0"]],
      [corr |-> "c1", trace |-> [traceparent |-> "t1", tracestate |-> "s1"]] }
=============================================================================
