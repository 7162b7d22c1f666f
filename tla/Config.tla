------------------------------- MODULE Config -------------------------------
(***************************************************************************)
(* What New makes of its configuration and options (src/options.go): the   *)
(* options applied in order over the defaults, and the checks after which  *)
(* the rest of the library may rely on both.  Durations are integers,      *)
(* Millisecond of them to the millisecond.                                 *)
(***************************************************************************)
EXTENDS Integers, SequencesExt, Propagation

CONSTANT Millisecond   \* time.Millisecond

ASSUME MillisecondAssumption == Millisecond \in Nat \ {0}

\* The logger is left out: it is replaced like the header functions.
defaultOptions ==
    [failHandler             |-> Nil,
     publishHeadersBuilder   |-> NoPropagation,
     consumeHeadersExtractor |-> NoPropagation]

Ignored_Never(opt) == FALSE

\* The With... functions ignore a nil argument, but for WithFailHandler.
Ignored(opt) == opt.value = Nil /\ opt.field # "failHandler"

\* The options are applied in order over the defaults: of those that set a field
\* the last one counts.
Options(conf) ==
    LET sets(f) == {i \in DOMAIN conf.opts : conf.opts[i].field = f /\ ~Ignored(conf.opts[i])}
    IN  [f \in DOMAIN defaultOptions |->
            IF sets(f) = {} THEN defaultOptions[f] ELSE conf.opts[Max(sets(f))].value]

validateRetryQueue_AnyPositiveDelay(item, o) ==
    IF item.Retry = Nil THEN "nil"
    ELSE IF o.failHandler = Nil THEN "ErrFailHandlerRequired"
    ELSE IF item.Retry.Delay <= 0 \/ item.Retry.MaxDuration <= 0 THEN "ErrInvalidRetryConfig"
    ELSE "nil"

validateRetryQueue(item, o) ==
    IF item.Retry = Nil THEN "nil"
    ELSE IF o.failHandler = Nil THEN "ErrFailHandlerRequired"
    ELSE IF item.Retry.Delay < Millisecond \/ item.Retry.MaxDuration <= 0
         THEN "ErrInvalidRetryConfig"
    ELSE "nil"

\* The results validateConfig may have: a Go map is walked in any order, so with
\* several invalid queues any of their errors may be the one returned.
validateConfig(conf, o) ==
    LET errs == {validateRetryQueue(conf.QueueParams[n], o) : n \in DOMAIN conf.QueueParams}
                    \ {"nil"}
    IN  IF conf.URL = "" THEN {"ErrEmptyURL"}
        ELSE IF \E d \in {"ReconnectDelay", "ReInitDelay", "ResendDelay"} : conf[d] <= 0
             THEN {"ErrInvalidDelay"}
        ELSE IF errs = {} THEN {"nil"} ELSE errs

newQueueStore(conf) == validateConfig(conf, Options(conf))
=============================================================================
