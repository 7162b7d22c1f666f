------------------------------ MODULE Consumer ------------------------------
(***************************************************************************)
(* The consumer loop of one client (src/consumer_loop.go) on top of its    *)
(* connection manager, with the counter of handlers in flight and the      *)
(* Shutdown that waits for it (src/delivery.go, src/queue.go).             *)
(*                                                                         *)
(* The loop reads clnt.isReady and clnt.ch while the manager replaces them,*)
(* subscribes to whatever channel it finds, and watches for the loss of    *)
(* whatever channel it finds then.  The broker always has a message; what  *)
(* becomes of it is in module Delivery.                                    *)
(***************************************************************************)
EXTENDS Client, Integers

CONSTANT MaxBackoff   \* maxConsumerBackoff, in units of initialConsumerDelay

ASSUME ConsumerAssumption == MaxBackoff \in Nat \ {0}

VARIABLES
    loop,       \* control point of runConsumerLoop
    backoff,    \* backoffDelay, in units of initialConsumerDelay
    ctxDone,    \* consumerDone: the context of AddConsumerN is done
    sub,        \* the channel of the deliveries being read
    watch,      \* the channel chClosedCh is registered with, or 0
    inbox,      \* the channel a delivery waiting in the Go channel came by, or 0
    inflight,   \* queue.inflight
    shut,       \* control point of Shutdown
    awaited     \* history: the handler that ran when Shutdown had closed the client
                \* has not ended

loopVars == <<loop, backoff, ctxDone, sub, watch, inbox, inflight>>
shutVars == <<shut, awaited>>
vars == <<clientVars, loopVars, shutVars>>

Init ==
    /\ ClientInit
    /\ loop = "none"
    /\ backoff = 1
    /\ ctxDone = FALSE
    /\ sub = 0
    /\ watch = 0
    /\ inbox = 0
    /\ inflight = 0
    /\ shut = "no"
    /\ awaited = FALSE

(***************************************************************************)
(* runConsumerLoop.                                                        *)
(***************************************************************************)
\* InitConsumer starts the loop; the goroutine of the manager, which
\* addConsumerClient created, may or may not have begun.
StartLoop ==
    /\ loop = "none"
    /\ loop' = "top"
    /\ UNCHANGED <<clientVars, backoff, ctxDone, sub, watch, inbox, inflight, shutVars>>

\* consumerCanceled: a cancelled consumer closes its client and ends.
LoopTop ==
    /\ loop = "top"
    /\ loop' = IF ctxDone THEN "close" ELSE "waitReady"
    /\ UNCHANGED <<clientVars, backoff, ctxDone, sub, watch, inbox, inflight, shutVars>>

\* nextConsumerBackoff.
NextConsumerBackoff(d) == IF 2 * d > MaxBackoff THEN MaxBackoff ELSE 2 * d

\* waitUntilClientReady looks at isReady.
WaitUntilClientReady ==
    /\ loop = "waitReady"
    /\ IF isReady
       THEN loop' = "consume" /\ backoff' = 1
       ELSE loop' = "sleepReady" /\ UNCHANGED backoff
    /\ UNCHANGED <<clientVars, ctxDone, sub, watch, inbox, inflight, shutVars>>

Sleeps == {"sleepReady", "sleepConsume"}

\* The timers of waitUntilClientReady and sleepConsumerBackoff.
Wake ==
    /\ loop \in Sleeps
    /\ backoff' = NextConsumerBackoff(backoff)
    /\ loop' = IF loop = "sleepReady" THEN "waitReady" ELSE "top"
    /\ UNCHANGED <<clientVars, ctxDone, sub, watch, inbox, inflight, shutVars>>

\* They return 0 when the context or the client is done, and the loop ends
\* without closing the client.
SleepEnds ==
    /\ loop \in Sleeps
    /\ ctxDone \/ done
    /\ loop' = "stopped"
    /\ UNCHANGED <<clientVars, backoff, ctxDone, sub, watch, inbox, inflight, shutVars>>

\* consume looks at isReady.
ConsumeCheck ==
    /\ loop = "consume"
    /\ loop' = IF isReady THEN "subscribe" ELSE "sleepConsume"
    /\ UNCHANGED <<clientVars, backoff, ctxDone, sub, watch, inbox, inflight, shutVars>>

\* consume subscribes on clnt.ch, read since the check: an error on a closed
\* channel, a panic on nil.
Subscribe ==
    /\ loop = "subscribe"
    /\ \/ ch \in liveCh /\ sub' = ch /\ loop' = "watch"
       \/ ch # 0 /\ ch \notin liveCh /\ loop' = "sleepConsume" /\ UNCHANGED sub
       \/ ch = 0 /\ loop' = "panicked" /\ UNCHANGED sub
    /\ UNCHANGED <<clientVars, backoff, ctxDone, watch, inbox, inflight, shutVars>>

(***************************************************************************)
(* processDeliveries.                                                      *)
(***************************************************************************)
\* chClosedCh is registered with clnt.ch, unless that is nil by now.
Watch ==
    /\ loop = "watch"
    /\ watch' = ch
    /\ loop' = "select"
    /\ UNCHANGED <<clientVars, backoff, ctxDone, sub, inbox, inflight, shutVars>>

SelectDone_Missing == loop = "select" /\ FALSE /\ UNCHANGED vars

\* The context is done: close the client and end.
SelectDone ==
    /\ loop = "select"
    /\ ctxDone
    /\ watch' = 0
    /\ loop' = "close"
    /\ UNCHANGED <<clientVars, backoff, ctxDone, sub, inbox, inflight, shutVars>>

Resubscribe_OnNotifyOnly ==
    /\ loop = "select"
    /\ watch # 0 /\ watch \notin liveCh
    /\ inbox' = 0
    /\ watch' = 0
    /\ loop' = "top"
    /\ UNCHANGED <<clientVars, backoff, ctxDone, sub, inflight, shutVars>>

\* The channel watched is lost, or the Go channel of the deliveries is closed.
\* A delivery still waiting in it is given up.
Resubscribe ==
    /\ loop = "select"
    /\ \/ watch # 0 /\ watch \notin liveCh
       \/ sub \notin liveCh
    /\ inbox' = 0
    /\ watch' = 0
    /\ loop' = "top"
    /\ UNCHANGED <<clientVars, backoff, ctxDone, sub, inflight, shutVars>>

\* A delivery is received; handleDelivery has not begun.
Receive ==
    /\ loop = "select"
    /\ inbox = sub
    /\ inbox' = 0
    /\ loop' = "received"
    /\ UNCHANGED <<clientVars, backoff, ctxDone, sub, watch, inflight, shutVars>>

HandleBegin_NoAdd ==
    /\ loop = "received"
    /\ loop' = "handler"
    /\ UNCHANGED <<clientVars, backoff, ctxDone, sub, watch, inbox, inflight, shutVars>>

\* handleDelivery: inflight.Add(1), then the handler.
HandleBegin ==
    /\ loop = "received"
    /\ inflight' = inflight + 1
    /\ loop' = "handler"
    /\ UNCHANGED <<clientVars, backoff, ctxDone, sub, watch, inbox, shutVars>>

\* inflight.Done(): the counter comes to zero, which releases the goroutine that
\* waits for it.
InflightDone ==
    /\ inflight' = inflight - 1
    /\ shut' = IF shut = "waiting" THEN "released" ELSE shut
    /\ awaited' = FALSE

HandleEnd_Returns ==
    /\ loop = "handler"
    /\ InflightDone
    /\ loop' = "top"
    /\ UNCHANGED <<clientVars, backoff, ctxDone, sub, watch, inbox>>

\* The delivery is settled and the deferred inflight.Done() runs.
HandleEnd ==
    /\ loop = "handler"
    /\ InflightDone
    /\ loop' = "select"
    /\ UNCHANGED <<clientVars, backoff, ctxDone, sub, watch, inbox>>

(***************************************************************************)
(* close() by the loop, Shutdown, and the broker.                          *)
(***************************************************************************)
\* closeOnce: the loop or Shutdown runs close(), whoever is first; the other
\* one waits for it.
LoopClose ==
    /\ loop = "close"
    /\ closer = "closed"
    /\ loop' = "stopped"
    /\ UNCHANGED <<clientVars, backoff, ctxDone, sub, watch, inbox, inflight, shutVars>>

CloseCalled ==
    /\ loop = "close" \/ shut = "close"
    /\ CloseBegin
    /\ UNCHANGED <<loopVars, shutVars>>

\* Shutdown finds this client in its snapshot.
ShutdownBegin ==
    /\ MayClose
    /\ shut = "no"
    /\ shut' = "close"
    /\ UNCHANGED <<clientVars, loopVars, awaited>>

\* Every client is closed; the handler that runs now is the one to wait for.
ShutdownClosed ==
    /\ shut = "close"
    /\ closer = "closed"
    /\ shut' = "wait"
    /\ awaited' = (loop = "handler")
    /\ UNCHANGED <<clientVars, loopVars>>

\* waitInflight: the goroutine calls inflight.Wait(), which comes back at once
\* when the counter is zero and otherwise waits to be released.
WaitInflight ==
    /\ shut = "wait"
    /\ shut' = IF inflight = 0 THEN "drained" ELSE "waiting"
    /\ UNCHANGED <<clientVars, loopVars, awaited>>

\* The released goroutine runs again.  A delivery that had been received may have
\* begun its handler in between, and a WaitGroup that finds its counter in use
\* again panics ("WaitGroup is reused before previous Wait has returned").
WaitWakes ==
    /\ shut = "released"
    /\ shut' = IF inflight = 0 THEN "drained" ELSE "panicked"
    /\ UNCHANGED <<clientVars, loopVars, awaited>>

\* done is closed: the select sees it and Shutdown returns nil, whatever the loop
\* has done since the counter was read.
WaitReturns ==
    /\ shut = "drained"
    /\ shut' = "returned"
    /\ UNCHANGED <<clientVars, loopVars, awaited>>

\* The context of Shutdown is done first.  The goroutine left behind is not
\* followed.
WaitTimeout ==
    /\ shut \in {"wait", "waiting", "released", "drained"}
    /\ shut' = "timeout"
    /\ UNCHANGED <<clientVars, loopVars, awaited>>

\* The broker delivers to the subscription unless a delivery is being worked
\* on (prefetch 1).
BrokerDelivers ==
    /\ loop \in {"watch", "select"}
    /\ sub \in liveCh
    /\ inbox = 0
    /\ inbox' = sub
    /\ UNCHANGED <<clientVars, loop, backoff, ctxDone, sub, watch, inflight, shutVars>>

\* The context of AddConsumerN is cancelled.
Cancel ==
    /\ MayClose
    /\ ~ctxDone
    /\ ctxDone' = TRUE
    /\ UNCHANGED <<clientVars, loop, backoff, sub, watch, inbox, inflight, shutVars>>

-----------------------------------------------------------------------------
LoopStep ==
    \/ LoopTop \/ WaitUntilClientReady \/ Wake \/ SleepEnds
    \/ ConsumeCheck \/ Subscribe \/ Watch
    \/ SelectDone \/ Resubscribe \/ Receive \/ HandleBegin \/ HandleEnd \/ LoopClose

ShutdownStep ==
    CloseCalled \/ ShutdownClosed \/ WaitInflight \/ WaitWakes \/ WaitReturns

ConsumerClientStep ==
    /\ EnsureConnected \/ ManagerStep \/ CloseStep \/ ConnDrops \/ ChanDrops
    /\ UNCHANGED <<loopVars, shutVars>>

Next ==
    \/ StartLoop \/ LoopStep
    \/ ShutdownBegin \/ ShutdownStep \/ WaitTimeout
    \/ BrokerDelivers \/ Cancel
    \/ ConsumerClientStep

Spec == Init /\ [][Next]_vars

\* The goroutines run whenever they can, a select chooses at random among the
\* cases that are ready, and handlers end.
Fairness ==
    /\ WF_vars(LoopStep)
    /\ SF_vars(SleepEnds) /\ SF_vars(SelectDone) /\ SF_vars(Resubscribe)
    /\ WF_vars(ShutdownStep)
    /\ WF_vars((EnsureConnected \/ ManagerStep) /\ UNCHANGED <<loopVars, shutVars>>)
    /\ SF_vars(StopManager /\ UNCHANGED <<loopVars, shutVars>>)
    /\ SF_vars(ConnLost /\ UNCHANGED <<loopVars, shutVars>>)
    /\ WF_vars(CloseStep /\ UNCHANGED <<loopVars, shutVars>>)

FairSpec == Spec /\ Fairness

-----------------------------------------------------------------------------
\* The state of the loop and of Shutdown is well typed.
TypeOK ==
    /\ ClientTypeOK
    /\ loop \in {"none", "top", "waitReady", "sleepReady", "consume", "sleepConsume",
                 "subscribe", "watch", "select", "received", "handler", "close",
                 "stopped", "panicked"}
    /\ backoff \in 1..MaxBackoff
    /\ ctxDone \in BOOLEAN
    /\ sub \in 0..MaxChans /\ watch \in 0..MaxChans /\ inbox \in 0..MaxChans
    /\ inflight \in 0..1
    /\ shut \in {"no", "close", "wait", "waiting", "released", "drained", "returned",
                 "timeout", "panicked"}
    /\ awaited \in BOOLEAN

\* The loop never subscribes a second time to a channel that is still open
\* (consumer_loop.go:34, 107-132): the first subscription would keep the one
\* message the prefetch allows it, unacknowledged and read by nobody.
NoDoubleSubscription ==
    [][loop = "subscribe" /\ loop' = "watch" => sub \notin liveCh]_vars

\* The loop reads from the channel its client holds, and it is open.
Consuming ==
    /\ loop \in {"watch", "select", "received", "handler"}
    /\ sub = ch
    /\ sub \in liveCh

\* "Automatic reconnect on connection/channel loss" (README.md:23) for
\* consumers: once the faults cease, a started loop that is neither cancelled
\* nor shut down reads from the live channel of its client.
ConsumerRecovers ==
    []<>(loop \in {"none", "panicked"} \/ ctxDone \/ done \/ Consuming)

\* While its client is not being closed, one fault alone never makes the loop
\* subscribe on a nil channel (consumer_loop.go:34, client.go:340) after it found
\* the client ready: a loss and a failed re-initialisation have to come between
\* the two.  close() is such a loss too, of the channel and then the connection.
LoopPanicNeedsTwoFaults == loop = "panicked" => faults >= 2 \/ closer # "open"

\* inflight counts the one handler of this loop (delivery.go:13-14).
InflightCounts == inflight = IF loop = "handler" THEN 1 ELSE 0

\* The loop watches the channel it reads from, or has lost that one already, and
\* comes to subscribe again only without an open subscription.  Channels are
\* never opened again: the next one is not the one of the subscription.
SubscriptionInv ==
    /\ sub <= notify \/ (mgr = "listen" /\ sub = ch)
    /\ loop \in {"select", "received", "handler"} => sub = watch \/ sub \notin liveCh
    /\ loop \in {"none", "top", "waitReady", "sleepReady", "consume", "sleepConsume",
                "subscribe"} => sub \notin liveCh

\* The handler Shutdown waits for is still running, and the counter has not been
\* found zero since.
AwaitedRuns ==
    awaited => loop = "handler" /\ shut \in {"wait", "waiting", "timeout"}

\* The inductive invariant: types, the client's own invariant, the counter of
\* handlers (delivery.go:13-14), the wait of Shutdown for it (queue.go:222-236),
\* the subscription (consumer_loop.go:107-132), and that the loop panics only after
\* two faults or close() (consumer_loop.go:34).
ConsumerInv ==
    /\ TypeOK /\ ClientInv
    /\ InflightCounts /\ SubscriptionInv /\ AwaitedRuns
    /\ loop = "subscribe" => CheckedChannel
    /\ LoopPanicNeedsTwoFaults

\* A cancelled consumer ends (consumer_loop.go:23, 66, 82, 114), whatever it is
\* waiting for and whatever is lost meanwhile.
CancelEndsLoop == []<>(ctxDone => loop \in {"none", "stopped", "panicked"})

\* A handler that was running when the client had been closed has ended when
\* Shutdown returns nil (queue.go:206, 222-236), however deliveries, losses and
\* resubscriptions have moved the counter (delivery.go:13-14).
ShutdownWaits == shut = "returned" => ~awaited

\* "Stop accepting new messages first, then wait for in-flight handlers"
\* (queue.go:203, README.md:155): a consumer that was shut down stops reading for
\* good.
ShutdownEndsLoop == (shut = "returned") ~> (loop \in {"none", "stopped", "panicked"})
=============================================================================
