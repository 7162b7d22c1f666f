---------------------------- MODULE Propagation ----------------------------
(***************************************************************************)
(* Correlation and trace identifiers carried from the context of a publish *)
(* to the context of the handler in message headers                        *)
(* (src/otel/propagation.go).                                              *)
(*                                                                         *)
(* A context is a record of its correlation id, "" when it has none, and   *)
(* the fields of its trace, a function on a subset of TraceFields.  Headers*)
(* and carriers are functions on sets of keys.                             *)
(***************************************************************************)
EXTENDS Functions

CONSTANT Nil

TraceFields == {"traceparent", "tracestate"}

Background == [corr |-> "", trace |-> <<>>]

\* The default header functions of options.go: no header, the parent context.
NoPropagation ==
    [CorrelationIDKey |-> "", TraceKeys |-> {}, Get |-> FALSE, Set |-> FALSE,
     Propagator |-> Nil]

\* propagator.Inject; a nil Propagator is replaced by a composite of none.
Inject(cfg, ctx) == IF cfg.Propagator = Nil THEN <<>> ELSE ctx.trace

\* propagator.Extract: a carrier without traceparent holds no trace.
Extract(cfg, ctx, carrier) ==
    IF cfg.Propagator = Nil \/ "traceparent" \notin DOMAIN carrier THEN ctx
    ELSE [ctx EXCEPT !.trace = Restrict(carrier, DOMAIN carrier \cap TraceFields)]

\* The value of a key is present, a string (Nil is any other value) and not "".
HasString(table, key) == key \in DOMAIN table /\ table[key] \notin {Nil, ""}

\* The loops over TraceKeys: the keys that are configured and have a string.
Carried(cfg, table) == Restrict(table, {k \in cfg.TraceKeys : HasString(table, k)})

\* headers[key] = value, and the same for all entries of another map.
PutAll(table, more) ==
    [k \in DOMAIN table \cup DOMAIN more |-> IF k \in DOMAIN more THEN more[k] ELSE table[k]]

Put(table, key, value) == PutAll(table, [k \in {key} |-> value])

\* The builder: the trace keys are written after the correlation key.
NewPublishHeadersBuilder(cfg, ctx) ==
    LET corr == IF cfg.Get /\ cfg.CorrelationIDKey # "" /\ ctx.corr # ""
                THEN Put(<<>>, cfg.CorrelationIDKey, ctx.corr) ELSE <<>>
    IN  PutAll(corr, Carried(cfg, Inject(cfg, ctx)))

NewConsumeHeadersExtractor_TraceOnly(cfg, parent, headers) ==
    Extract(cfg, parent, Carried(cfg, headers))

\* The extractor: what the headers do not hold is the parent's.
NewConsumeHeadersExtractor(cfg, parent, headers) ==
    LET id  == cfg.CorrelationIDKey
        ctx == IF cfg.Set /\ id # "" /\ HasString(headers, id)
               THEN [parent EXCEPT !.corr = headers[id]]
               ELSE parent
    IN  Extract(cfg, ctx, Carried(cfg, headers))
=============================================================================
