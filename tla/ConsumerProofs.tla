--------------------------- MODULE ConsumerProofs ---------------------------
(***************************************************************************)
(* Proofs about the consumer loop of module Consumer and the client it     *)
(* runs on, for any number and kind of faults and of channels, with        *)
(* cancellation, close() and Shutdown at any moment.                       *)
(***************************************************************************)
EXTENDS Consumer, ClientProofs

\* The consumer begins with a fresh client.
LEMMA ConsumerInvInit == Init => ConsumerInv
  <1> SUFFICES ASSUME Init PROVE ConsumerInv
    OBVIOUS
  <1>1. ClientInv
    BY ClientInvInit DEF Init
  <1>2. TypeOK
    <2>1. 1 \in 1..MaxBackoff /\ 0 \in 0..MaxChans /\ 0 \in 0..1
      BY ConsumerAssumption, ClientAssumption
    <2> QED BY <1>1, <2>1 DEF Init, ClientInv, TypeOK
  <1>3. InflightCounts /\ SubscriptionInv /\ AwaitedRuns
    BY <1>1
       DEF Init, ClientInit, InflightCounts, SubscriptionInv, AwaitedRuns, ClientInv,
           ClientTypeOK
  <1> QED BY <1>1, <1>2, <1>3 DEF Init, ConsumerInv, LoopPanicNeedsTwoFaults

\* Every step of the consumer is a step of its client, or leaves it alone.
LEMMA ClientStepOfConsumer == [Next]_vars => [ClientNext]_clientVars
  <1> SUFFICES ASSUME [Next]_vars PROVE [ClientNext]_clientVars
    OBVIOUS
  <1>1. CASE StartLoop \/ LoopStep
    BY <1>1
       DEF StartLoop, LoopStep, LoopTop, WaitUntilClientReady, Wake, SleepEnds,
           ConsumeCheck, Subscribe, Watch, SelectDone, Resubscribe, Receive,
           HandleBegin, HandleEnd, LoopClose
  <1>2. CASE ShutdownBegin \/ ShutdownStep \/ WaitTimeout
    BY <1>2
       DEF ShutdownBegin, ShutdownStep, CloseCalled, ShutdownClosed, WaitInflight,
           WaitWakes, WaitReturns, WaitTimeout, ClientNext
  <1>3. CASE BrokerDelivers \/ Cancel
    BY <1>3 DEF BrokerDelivers, Cancel
  <1>4. CASE ConsumerClientStep
    BY <1>4 DEF ConsumerClientStep, ClientNext
  <1>5. CASE UNCHANGED vars
    BY <1>5 DEF vars
  <1> QED BY <1>1, <1>2, <1>3, <1>4, <1>5 DEF Next

\* nextConsumerBackoff stays between the initial delay and the maximum.
LEMMA BackoffRange ==
    ASSUME NEW d \in 1..MaxBackoff
    PROVE  NextConsumerBackoff(d) \in 1..MaxBackoff
  BY ConsumerAssumption DEF NextConsumerBackoff

\* What the client does under the loop keeps the loop's part of the invariant.
LEMMA UnderLoopInv ==
    ASSUME ConsumerInv, ClientInv', [ClientNext]_clientVars, UNCHANGED loopVars,
           shut' \in {"no", "close", "wait", "waiting", "released", "drained", "returned",
                      "timeout", "panicked"},
           awaited' \in BOOLEAN, AwaitedRuns'
    PROVE  ConsumerInv'
  <1> USE DEF ConsumerInv, loopVars
  <1>1. TypeOK'
    BY DEF TypeOK, ClientInv
  <1>2. InflightCounts'
    BY DEF InflightCounts
  <1>3. SubscriptionInv'
    BY NewChannels DEF SubscriptionInv, TypeOK, ClientInv, ClientTypeOK, Bookkeeping
  <1>4. (loop = "subscribe" => CheckedChannel)'
    BY CheckedNext
  <1>5. LoopPanicNeedsTwoFaults'
    BY FaultsGrow DEF LoopPanicNeedsTwoFaults, ClientInv, ClientTypeOK
  <1> QED BY <1>1, <1>2, <1>3, <1>4, <1>5

\* The loop moves while its client stands still.
LEMMA LoopInv ==
    ASSUME ConsumerInv, StartLoop \/ LoopStep \/ BrokerDelivers \/ Cancel
    PROVE  ConsumerInv'
  <1> USE ConsumerAssumption, ClientAssumption
      DEF ConsumerInv, TypeOK, InflightCounts, SubscriptionInv, AwaitedRuns,
          LoopPanicNeedsTwoFaults, shutVars
  <1>1. UNCHANGED clientVars
    BY DEF StartLoop, LoopStep, LoopTop, WaitUntilClientReady, Wake, SleepEnds,
           ConsumeCheck, Subscribe, Watch, SelectDone, Resubscribe, Receive,
           HandleBegin, HandleEnd, LoopClose, BrokerDelivers, Cancel
  <1>2. /\ UNCHANGED <<mgr, ch, notify, liveCh, faults, closer>>
        /\ ClientTypeOK' /\ ClientInv'
        /\ CheckedChannel' = CheckedChannel
    BY <1>1
       DEF clientVars, mgrVars, closeVars, liveVars, ClientInv, ClientTypeOK, NoOrphan,
           ReadyIsInitialised, Bookkeeping, LossNeedsFault, CheckedChannel
  <1>3. CASE StartLoop \/ LoopTop \/ WaitUntilClientReady
    BY <1>2, <1>3 DEF StartLoop, LoopTop, WaitUntilClientReady
  <1>4. CASE Wake
    BY <1>2, <1>4, BackoffRange DEF Wake, Sleeps
  <1>5. CASE SleepEnds
    BY <1>2, <1>5 DEF SleepEnds, Sleeps
  <1>6. CASE ConsumeCheck
    BY <1>2, <1>6, ReadyIsChecked DEF ConsumeCheck
  <1>7. CASE Subscribe
    <2>1. /\ faults \in Nat
          /\ ch \in 0..MaxChans
          /\ ch <= notify \/ mgr = "listen"
      BY DEF ClientInv, ClientTypeOK, Bookkeeping
    <2> QED BY <1>2, <1>7, <2>1 DEF Subscribe, CheckedChannel
  <1>8. CASE Watch
    <2>1. ch \in 0..MaxChans /\ liveCh \subseteq {ch}
      BY DEF ClientInv, ClientTypeOK, NoOrphan
    <2> QED BY <1>2, <1>8, <2>1 DEF Watch
  <1>9. CASE SelectDone \/ Resubscribe \/ Receive
    BY <1>2, <1>9 DEF SelectDone, Resubscribe, Receive
  <1>10. CASE HandleBegin
    BY <1>2, <1>10 DEF HandleBegin
  <1>11. CASE HandleEnd
    <2>1. ~awaited' /\ awaited' \in BOOLEAN
      BY <1>11, Zenon DEF HandleEnd, InflightDone
    <2> QED BY <1>2, <1>11, <2>1 DEF HandleEnd, InflightDone
  <1>12. CASE Cancel
    <2>1. ctxDone' \in BOOLEAN
      BY <1>12, Zenon DEF Cancel
    <2> QED BY <1>2, <1>12, <2>1 DEF Cancel
  <1>13. CASE LoopClose \/ BrokerDelivers
    BY <1>2, <1>13 DEF LoopClose, BrokerDelivers
  <1> QED
    BY <1>3, <1>4, <1>5, <1>6, <1>7, <1>8, <1>9, <1>10, <1>11, <1>12, <1>13
    DEF LoopStep

\* Every step preserves the inductive invariant.
LEMMA ConsumerInvNext == ConsumerInv /\ [Next]_vars => ConsumerInv'
  <1> SUFFICES ASSUME ConsumerInv, [Next]_vars PROVE ConsumerInv'
    OBVIOUS
  <1>1. [ClientNext]_clientVars
    BY ClientStepOfConsumer
  <1>2. ClientInv'
    BY <1>1, ClientInvNext DEF ConsumerInv
  <1>3. CASE StartLoop \/ LoopStep \/ BrokerDelivers \/ Cancel
    BY <1>3, LoopInv
  <1>4. CASE ShutdownBegin \/ ShutdownStep \/ WaitTimeout
    <2> USE DEF ConsumerInv, TypeOK, AwaitedRuns, InflightCounts, loopVars, shutVars
    <2>1. CASE ShutdownBegin \/ CloseCalled
      BY <1>1, <1>2, <2>1, UnderLoopInv DEF ShutdownBegin, CloseCalled
    <2>2. CASE ShutdownClosed
      <3>1. awaited' \in BOOLEAN /\ (awaited' => loop = "handler")
        BY <2>2, Zenon DEF ShutdownClosed
      <3> QED BY <1>1, <1>2, <2>2, <3>1, UnderLoopInv DEF ShutdownClosed
    <2>3. CASE WaitInflight \/ WaitWakes \/ WaitReturns \/ WaitTimeout
      BY <1>1, <1>2, <2>3, UnderLoopInv DEF WaitInflight, WaitWakes, WaitReturns, WaitTimeout
    <2> QED BY <1>4, <2>1, <2>2, <2>3 DEF ShutdownStep
  <1>5. CASE ConsumerClientStep
    BY <1>1, <1>2, <1>5, UnderLoopInv
       DEF ConsumerClientStep, ConsumerInv, TypeOK, AwaitedRuns, loopVars, shutVars
  <1>6. CASE UNCHANGED vars
    BY <1>1, <1>2, <1>6, UnderLoopInv
       DEF vars, ConsumerInv, TypeOK, AwaitedRuns, loopVars, shutVars
  <1> QED BY <1>3, <1>4, <1>5, <1>6 DEF Next

\* The inductive invariant holds in every reachable state: in particular the
\* loop panics on a nil channel (consumer_loop.go:34, client.go:340) only after
\* two faults or close().
THEOREM ConsumerInvariant == Spec => []ConsumerInv
  BY ConsumerInvInit, ConsumerInvNext, PTL DEF Spec

\* The loop, Shutdown and the broker use the client as module Client has it:
\* what is proved of ClientSpec holds of every consumer's client.
THEOREM ConsumerImplementsClient == Spec => ClientSpec
  <1>1. Init => ClientInit
    BY DEF Init
  <1> QED BY <1>1, ClientStepOfConsumer, PTL DEF Spec, ClientSpec

\* The loop never subscribes a second time to a channel that is still open
\* (consumer_loop.go:34, 107-132).
THEOREM SubscribesOnce == Spec => NoDoubleSubscription
  <1>1. ConsumerInv /\ [Next]_vars
        => [loop = "subscribe" /\ loop' = "watch" => sub \notin liveCh]_vars
    BY DEF ConsumerInv, SubscriptionInv
  <1> QED BY <1>1, ConsumerInvariant, PTL DEF Spec, NoDoubleSubscription

\* A handler that was running when the client had been closed has ended when
\* Shutdown returns nil (queue.go:206, 222-236): the counter, which includes it
\* (delivery.go:13-14), was found zero in between.
THEOREM ShutdownWaitsForHandler == Spec => []ShutdownWaits
  <1>1. ConsumerInv => ShutdownWaits
    BY DEF ConsumerInv, AwaitedRuns, ShutdownWaits
  <1> QED BY <1>1, ConsumerInvariant, PTL
=============================================================================
