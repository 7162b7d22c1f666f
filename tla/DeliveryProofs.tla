--------------------------- MODULE DeliveryProofs ---------------------------
(***************************************************************************)
(* Proofs about module Delivery: no message is lost, for every number of   *)
(* messages, consumers, losses and crashes, and with and without retry.    *)
(***************************************************************************)
EXTENDS Delivery, FiniteSetTheorems, TLAPS

\* The part of DeliveryInv that keeps a message from being lost; it needs nothing
\* of the rest.
CoreInv == TypeOK /\ SettlesWhatItMay /\ NothingLost

\* Formatting a time in whole seconds gives a time that is not later.
LEMMA RFC3339Nat ==
    ASSUME NEW t \in Nat
    PROVE  RFC3339(t) \in Nat /\ RFC3339(t) <= t
  BY DeliveryAssumption DEF RFC3339

\* An empty queue with idle consumers satisfies the inductive invariant.
LEMMA CoreInit == Init => CoreInv
  BY DeliveryAssumption
     DEF Init, CoreInv, TypeOK, SettlesWhatItMay, NothingLost, Broken, Places,
         ConsumerStates

\* What handleDelivery does next is a control point, and the one that
\* acknowledges follows a success only, the one that discards a panic only.
LEMMA AfterHandlerCases ==
    ASSUME NEW m \in Messages, NEW o \in Outcomes
    PROVE  /\ AfterHandler(m, o) \in ConsumerStates \ {"idle"}
           /\ AfterHandler(m, o) = "ackDelivery" => o = "nil"
           /\ AfterHandler(m, o) = "rejectDelivery" => withRetry
           /\ AfterHandler(m, o) = "nackAfterPanic" => o = "panic"
  BY DeliveryAssumption
     DEF AfterHandler, HandleConsumerError, HandleRetryError, ConsumerStates

\* The steps of the broker, the clock and the publisher.
LEMMA BrokerCore ==
    ASSUME CoreInv,
           \/ \E m \in Messages : Publish(m) \/ DelayEnds(m)
           \/ \E c \in Consumers : LoseChannel(c) \/ \E m \in Messages : Deliver(c, m)
           \/ Tick \/ Crash
    PROVE  CoreInv'
  <1> USE DeliveryAssumption
      DEF CoreInv, TypeOK, SettlesWhatItMay, NothingLost, Broken, Places,
          ConsumerStates, consumerVars
  <1>1. ASSUME NEW m \in Messages, Publish(m)
        PROVE  CoreInv'
    <2>1. expired' \in [Messages -> Nat]
      BY <1>1, RFC3339Nat, now + Lifetime[m] \in Nat DEF Publish
    <2> QED BY <1>1, <2>1 DEF Publish
  <1>2. ASSUME NEW m \in Messages, DelayEnds(m)
        PROVE  CoreInv'
    BY <1>2 DEF DelayEnds
  <1>3. ASSUME NEW c \in Consumers, NEW m \in Messages, Deliver(c, m)
        PROVE  CoreInv'
    BY <1>3 DEF Deliver
  <1>4. ASSUME NEW c \in Consumers, LoseChannel(c)
        PROVE  CoreInv'
    BY <1>4 DEF LoseChannel, Requeue
  <1>5. CASE Tick
    BY <1>5 DEF Tick
  <1>6. CASE Crash
    BY <1>6 DEF Crash, Requeue
  <1> QED BY <1>1, <1>2, <1>3, <1>4, <1>5, <1>6

\* The handler and the fail handler.
LEMMA HandlerCore ==
    ASSUME CoreInv, NEW c \in Consumers, InvokeHandler(c) \/ FailHandler(c)
    PROVE  CoreInv'
  <1> USE DeliveryAssumption
      DEF CoreInv, TypeOK, SettlesWhatItMay, NothingLost, Broken, brokerVars, Finish
  <1>1. CASE InvokeHandler(c)
    <2>1. job[c] \in Messages
      BY <1>1 DEF InvokeHandler
    <2>2. PICK o \in Outcomes :
             /\ pc' = [pc EXCEPT ![c] = AfterHandler(job[c], o)]
             /\ IF o = "nil" THEN Finish(job[c]) ELSE UNCHANGED finals
             /\ panicked' = IF o = "panic" THEN panicked \cup {job[c]} ELSE panicked
      BY <1>1 DEF InvokeHandler
    <2>3. /\ AfterHandler(job[c], o) \in ConsumerStates \ {"idle"}
          /\ AfterHandler(job[c], o) = "ackDelivery" => o = "nil"
          /\ AfterHandler(job[c], o) = "rejectDelivery" => withRetry
          /\ AfterHandler(job[c], o) = "nackAfterPanic" => o = "panic"
      BY <2>1, AfterHandlerCases
    <2>4. UNCHANGED <<withRetry, brokerVars, job, link, now, losses>>
      BY <1>1 DEF InvokeHandler
    <2>5. /\ finals' \in [Messages -> Nat]
          /\ \A m \in Messages : finals'[m] >= finals[m]
          /\ o = "nil" => finals'[job[c]] > 0
      BY <2>1, <2>2
    <2>6. /\ panicked' \subseteq Messages
          /\ panicked \subseteq panicked'
          /\ o = "panic" => job[c] \in panicked'
      BY <2>1, <2>2
    <2> QED BY <2>1, <2>2, <2>3, <2>4, <2>5, <2>6
  <1>2. CASE FailHandler(c)
    <2>1. job[c] \in Messages
      BY <1>2 DEF FailHandler
    <2>2. /\ finals' \in [Messages -> Nat]
          /\ \A m \in Messages : finals'[m] >= finals[m]
          /\ finals'[job[c]] > 0
      BY <1>2, <2>1 DEF FailHandler
    <2> QED BY <1>2, <2>1, <2>2 DEF FailHandler, ConsumerStates
  <1> QED BY <1>1, <1>2

\* A delivery is settled: if the broker removes the message, it was finished
\* or its handler panicked without a delay queue.
LEMMA SettleCore ==
    ASSUME CoreInv, NEW c \in Consumers,
           \/ AckDelivery(c) \/ RejectDelivery(c)
           \/ NackDelivery(c) \/ NackAfterPanic(c)
    PROVE  CoreInv'
  <1> USE DeliveryAssumption
      DEF CoreInv, TypeOK, SettlesWhatItMay, NothingLost, Broken, Places,
          ConsumerStates
  <1>1. ASSUME NEW dest \in {"main", "delay", "gone"}, Settle(c, dest),
               pc[c] # "idle",
               dest = "gone" => finals[job[c]] > 0 \/ job[c] \in Broken
        PROVE  CoreInv'
    <2>1. TypeOK'
      BY <1>1 DEF Settle
    <2>2. SettlesWhatItMay'
      BY <1>1 DEF Settle
    <2>3. NothingLost'
      BY <1>1 DEF Settle
    <2> QED BY <2>1, <2>2, <2>3
  <1>2. CASE AckDelivery(c)
    BY <1>1, <1>2 DEF AckDelivery
  <1>3. CASE RejectDelivery(c)
    BY <1>1, <1>3 DEF RejectDelivery, DeadLetter
  <1>4. CASE NackDelivery(c)
    BY <1>1, <1>4 DEF NackDelivery
  <1>5. CASE NackAfterPanic(c)
    BY <1>1, <1>5 DEF NackAfterPanic, DeadLetter
  <1> QED BY <1>2, <1>3, <1>4, <1>5

\* Every step preserves the inductive invariant.
LEMMA CoreNext == CoreInv /\ [Next]_vars => CoreInv'
  <1> SUFFICES ASSUME CoreInv, [Next]_vars
               PROVE  CoreInv'
    OBVIOUS
  <1>1. ASSUME \/ \E m \in Messages : Publish(m) \/ DelayEnds(m)
               \/ \E c \in Consumers : LoseChannel(c) \/ \E m \in Messages : Deliver(c, m)
               \/ Tick \/ Crash
        PROVE  CoreInv'
    BY <1>1, BrokerCore
  <1>2. ASSUME NEW c \in Consumers, InvokeHandler(c) \/ FailHandler(c)
        PROVE  CoreInv'
    BY <1>2, HandlerCore
  <1>3. ASSUME NEW c \in Consumers,
               \/ AckDelivery(c) \/ RejectDelivery(c)
               \/ NackDelivery(c) \/ NackAfterPanic(c)
        PROVE  CoreInv'
    BY <1>3, SettleCore
  <1>4. CASE UNCHANGED vars
    BY <1>4
       DEF CoreInv, TypeOK, SettlesWhatItMay, NothingLost, Broken,
           vars, brokerVars, consumerVars
  <1> QED BY <1>1, <1>2, <1>3, <1>4 DEF Next, ConsumerStep

\* The clock never runs backwards and a header is cut to whole seconds, never
\* rounded up.
LEMMA HeaderNext ==
    ASSUME DeliveryInv, [Next]_vars
    PROVE  HeaderNotLate'
  <1> USE DeliveryAssumption DEF DeliveryInv, HeaderNotLate
  <1>1. /\ now \in Nat /\ expired \in [Messages -> Nat] /\ born \in [Messages -> Nat]
    BY DEF TypeOK
  <1>2. ASSUME NEW m \in Messages, Publish(m)
        PROVE  HeaderNotLate'
    <2>1. now + Lifetime[m] \in Nat
      BY <1>1
    <2>2. RFC3339(now + Lifetime[m]) \in Nat /\ RFC3339(now + Lifetime[m]) <= now + Lifetime[m]
      BY <2>1, RFC3339Nat
    <2>3. /\ \A n \in Messages \ {m} : expired'[n] = expired[n] /\ born'[n] = born[n]
          /\ expired'[m] = RFC3339(now + Lifetime[m]) \/ expired'[m] = expired[m]
          /\ born'[m] = now /\ now' = now
      BY <1>1, <1>2 DEF Publish
    <2>4. expired[m] <= now + Lifetime[m]
      BY <1>1
    <2> QED BY <1>1, <2>2, <2>3, <2>4
  <1>3. CASE /\ UNCHANGED <<expired, born>>
             /\ now' \in Nat /\ now' >= now
    BY <1>1, <1>3
  <1>4. CASE Tick
    BY <1>1, <1>3, <1>4 DEF Tick
  <1>5. CASE Crash \/ \E m \in Messages : DelayEnds(m)
    BY <1>1, <1>3, <1>5 DEF Crash, DelayEnds
  <1>6. CASE \E c \in Consumers : LoseChannel(c) \/ \E m \in Messages : Deliver(c, m)
    BY <1>1, <1>3, <1>6 DEF LoseChannel, Deliver
  <1>7. CASE \E c \in Consumers : ConsumerStep(c)
    BY <1>1, <1>3, <1>7
       DEF ConsumerStep, InvokeHandler, FailHandler, AckDelivery, RejectDelivery, NackDelivery,
           NackAfterPanic, Settle, brokerVars
  <1>8. CASE UNCHANGED vars
    BY <1>1, <1>3, <1>8 DEF vars, brokerVars
  <1> QED BY <1>2, <1>4, <1>5, <1>6, <1>7, <1>8 DEF Next

\* What a step of the consumers does to their deliveries.
LEMMA HandlerStep ==
    ASSUME DeliveryInv, NEW c \in Consumers, InvokeHandler(c) \/ FailHandler(c)
    PROVE  /\ job[c] \in Messages /\ pc[c] \in {"handler", "failHandler"}
           /\ \E s \in ConsumerStates \ {"idle", "handler"} :
                 /\ pc' = [pc EXCEPT ![c] = s]
                 /\ \/ finals' = finals /\ s # "ackDelivery"
                    \/ finals' = [finals EXCEPT ![job[c]] = @ + 1] /\ s = "ackDelivery"
           /\ UNCHANGED <<where, job, link, losses>>
  <1> USE DeliveryAssumption DEF brokerVars, Finish
  <1>1. job[c] \in Messages
    BY DEF DeliveryInv, SettlesWhatItMay, InvokeHandler, FailHandler
  <1>2. CASE FailHandler(c)
    BY <1>1, <1>2 DEF FailHandler, ConsumerStates
  <1>3. CASE InvokeHandler(c)
    <2>1. PICK o \in Outcomes :
             /\ pc' = [pc EXCEPT ![c] = AfterHandler(job[c], o)]
             /\ IF o = "nil" THEN Finish(job[c]) ELSE UNCHANGED finals
      BY <1>3 DEF InvokeHandler
    <2>2. /\ AfterHandler(job[c], o) \in ConsumerStates \ {"idle", "handler"}
          /\ AfterHandler(job[c], o) = "ackDelivery" <=> o = "nil"
      BY DEF AfterHandler, HandleConsumerError, HandleRetryError, ConsumerStates, AllOutcomes
    <2> QED BY <1>1, <1>3, <2>1, <2>2 DEF InvokeHandler
  <1> QED BY <1>2, <1>3

LEMMA SettleStep ==
    ASSUME DeliveryInv, NEW c \in Consumers,
           \/ AckDelivery(c) \/ RejectDelivery(c)
           \/ NackDelivery(c) \/ NackAfterPanic(c)
    PROVE  /\ job[c] \in Messages
           /\ \E dest \in {"main", "delay", "gone"} :
                 /\ where' = IF link[c] THEN [where EXCEPT ![job[c]] = dest] ELSE where
                 /\ dest # "gone" =>
                      pc[c] \in {"rejectDelivery", "nackDelivery", "nackAfterPanic"}
                 /\ dest = "gone" => finals[job[c]] > 0 \/ job[c] \in Broken
           /\ pc[c] # "idle" /\ pc' = [pc EXCEPT ![c] = "idle"]
           /\ job' = [job EXCEPT ![c] = NoJob]
           /\ link' = [link EXCEPT ![c] = FALSE]
           /\ UNCHANGED <<withRetry, panicked, finals, losses>>
  BY DEF DeliveryInv, SettlesWhatItMay, AckDelivery, RejectDelivery, NackDelivery,
         NackAfterPanic, Settle, DeadLetter, Broken

\* A message is delivered to a second consumer only when the first has lost its
\* channel.
LEMMA DeliveredOnceNext ==
    ASSUME DeliveryInv, [Next]_vars
    PROVE  DeliveredOnce'
  <1> USE DeliveryAssumption DEF DeliveredOnce
  <1>1. TypeOK /\ DeliveredOnce /\ SettlesWhatItMay
    BY DEF DeliveryInv
  <1>2. ASSUME NEW m \in Messages, Publish(m) \/ DelayEnds(m)
        PROVE  DeliveredOnce'
    <2>1. UNCHANGED <<pc, job, link>>
      BY <1>2 DEF Publish, DelayEnds, consumerVars
    <2>2. where' = [where EXCEPT ![m] = "main"] /\ where[m] # "unacked"
      BY <1>2 DEF Publish, DelayEnds
    <2> QED BY <1>1, <2>1, <2>2 DEF TypeOK, SettlesWhatItMay
  <1>3. ASSUME NEW c \in Consumers, NEW m \in Messages, Deliver(c, m)
        PROVE  DeliveredOnce'
    BY <1>1, <1>3 DEF Deliver, TypeOK, SettlesWhatItMay
  <1>4. ASSUME NEW c \in Consumers, LoseChannel(c)
        PROVE  DeliveredOnce'
    BY <1>1, <1>4 DEF LoseChannel, Requeue, TypeOK, SettlesWhatItMay
  <1>5. CASE Tick
    BY <1>1, <1>5 DEF Tick, consumerVars
  <1>6. CASE Crash
    BY <1>6 DEF Crash
  <1>7. ASSUME NEW c \in Consumers, InvokeHandler(c) \/ FailHandler(c)
        PROVE  DeliveredOnce'
    BY <1>1, <1>7, HandlerStep DEF TypeOK
  <1>8. ASSUME NEW c \in Consumers,
               \/ AckDelivery(c) \/ RejectDelivery(c)
               \/ NackDelivery(c) \/ NackAfterPanic(c)
        PROVE  DeliveredOnce'
    BY <1>1, <1>8, SettleStep DEF TypeOK, SettlesWhatItMay
  <1>9. CASE UNCHANGED vars
    BY <1>1, <1>9 DEF vars, brokerVars, consumerVars
  <1> QED BY <1>2, <1>3, <1>4, <1>5, <1>6, <1>7, <1>8, <1>9 DEF Next, ConsumerStep

\* The consumers that may finish a message are finitely many, and their number
\* follows them as they come and go.
LEMMA MayFinishCard ==
    ASSUME NEW m \in Messages
    PROVE  /\ Cardinality(MayFinish(m)) \in Nat
           /\ Cardinality(MayFinish(m))' \in Nat
           /\ MayFinish(m)' \subseteq MayFinish(m) =>
                Cardinality(MayFinish(m))' <= Cardinality(MayFinish(m))
           /\ \A c \in Consumers :
                /\ MayFinish(m)' \subseteq MayFinish(m) \cup {c} =>
                     Cardinality(MayFinish(m))' <= Cardinality(MayFinish(m)) + 1
                /\ c \in MayFinish(m) /\ MayFinish(m)' \subseteq MayFinish(m) \ {c} =>
                     Cardinality(MayFinish(m))' + 1 <= Cardinality(MayFinish(m))
           /\ MayFinish(m) # {} => Cardinality(MayFinish(m)) >= 1
  <1>1. IsFiniteSet(Consumers)
    BY DeliveryAssumption
  <1>2. PICK S, T : S = MayFinish(m) /\ T = MayFinish(m)'
    OBVIOUS
  <1>3. S \subseteq Consumers /\ T \subseteq Consumers
    BY <1>2 DEF MayFinish
  <1>4. IsFiniteSet(S) /\ IsFiniteSet(T)
    BY <1>1, <1>3, FS_Subset
  <1>5. Cardinality(S) \in Nat /\ Cardinality(T) \in Nat
    BY <1>4, FS_CardinalityType
  <1>6. T \subseteq S => Cardinality(T) <= Cardinality(S)
    BY <1>4, FS_Subset
  <1>7. ASSUME NEW c \in Consumers, T \subseteq S \cup {c}
        PROVE  Cardinality(T) <= Cardinality(S) + 1
    <2>1. /\ IsFiniteSet(S \cup {c})
          /\ Cardinality(S \cup {c}) = Cardinality(S) \/ Cardinality(S \cup {c}) = Cardinality(S) + 1
      BY <1>4, FS_AddElement
    <2>2. Cardinality(T) <= Cardinality(S \cup {c})
      BY <1>7, <2>1, FS_Subset
    <2> QED BY <1>5, <2>1, <2>2
  <1>8. ASSUME NEW c \in S, T \subseteq S \ {c}
        PROVE  Cardinality(T) + 1 <= Cardinality(S)
    <2>1. IsFiniteSet(S \ {c}) /\ Cardinality(S \ {c}) = Cardinality(S) - 1
      BY <1>4, FS_RemoveElement
    <2>2. Cardinality(T) <= Cardinality(S \ {c})
      BY <1>8, <2>1, FS_Subset
    <2> QED BY <1>5, <2>1, <2>2
  <1>9. S # {} => Cardinality(S) >= 1
    BY <1>4, <1>5, FS_EmptySet
  <1>10. Cardinality(MayFinish(m))' = Cardinality(T)
    BY <1>2
  <1> QED BY <1>2, <1>3, <1>5, <1>6, <1>7, <1>8, <1>9, <1>10

\* One consumer fewer makes room for one more success, or for a message to deliver.
LEMMA PassedOn ==
    ASSUME NEW f \in Nat, NEW l \in Nat, NEW k \in Nat, NEW k2 \in Nat,
           NEW t \in {0, 1}, NEW t2 \in {0, 1},
           f + k + t <= l + 1, k2 + 1 <= k
    PROVE  f + 1 + k2 + t <= l + 1 /\ f + k2 + t2 <= l + 1
  OBVIOUS

\* A loss gives the broker a message to deliver once more; every other step
\* only passes on the right to finish it, or uses it.
LEMMA BoundNext ==
    ASSUME DeliveryInv, [Next]_vars
    PROVE  FinalsBounded'
  <1> USE DeliveryAssumption
  <1>1. TypeOK /\ SettlesWhatItMay
    BY DEF DeliveryInv
  <1> SUFFICES ASSUME NEW m \in Messages
               PROVE  finals'[m] + Cardinality(MayFinish(m))'
                        + (IF Deliverable(m)' THEN 1 ELSE 0) <= losses' + 1
    BY DEF FinalsBounded
  <1> DEFINE K == Cardinality(MayFinish(m))
             Token == IF Deliverable(m) THEN 1 ELSE 0
  <1>2. /\ finals[m] \in Nat /\ losses \in Nat /\ K \in Nat /\ K' \in Nat
        /\ Token \in {0, 1} /\ Token' \in {0, 1}
        /\ finals[m] + K + Token <= losses + 1
    <2>1. K \in Nat /\ K' \in Nat
      BY MayFinishCard
    <2>2. finals[m] \in Nat /\ losses \in Nat
      BY <1>1 DEF TypeOK
    <2>3. finals[m] + K + Token <= losses + 1
      BY DEF DeliveryInv, FinalsBounded
    <2> QED BY <2>1, <2>2, <2>3
  <1>3. SUFFICES finals'[m] + K' + Token' <= losses' + 1
    OBVIOUS
  <1> HIDE DEF K, Token
  <1>4. ASSUME MayFinish(m)' \subseteq MayFinish(m), finals'[m] = finals[m],
               \/ losses' = losses /\ (Deliverable(m)' => Deliverable(m))
               \/ losses' = losses + 1
        PROVE  finals'[m] + K' + Token' <= losses' + 1
    <2>1. K' <= K
      BY <1>4, MayFinishCard DEF K
    <2>2. losses' = losses => Token' <= Token
      BY <1>2, <1>4 DEF Token
    <2> QED BY <1>2, <1>4, <2>1, <2>2
  <1>5. ASSUME NEW n \in Messages, Publish(n) \/ DelayEnds(n)
        PROVE  finals'[m] + K' + Token' <= losses' + 1
    <2>1. MayFinish(m)' = MayFinish(m) /\ finals' = finals /\ losses' = losses
      BY <1>5 DEF Publish, DelayEnds, MayFinish, consumerVars
    <2>2. Deliverable(m)' = Deliverable(m)
      BY <1>1, <1>5 DEF Publish, DelayEnds, Deliverable, TypeOK
    <2> QED BY <1>4, <2>1, <2>2
  <1>6. ASSUME NEW c \in Consumers, NEW n \in Messages, Deliver(c, n)
        PROVE  finals'[m] + K' + Token' <= losses' + 1
    <2>1. /\ finals' = finals /\ losses' = losses
          /\ where[n] = "main" /\ where' = [where EXCEPT ![n] = "unacked"]
          /\ pc[c] = "idle" /\ job' = [job EXCEPT ![c] = n]
          /\ link' = [link EXCEPT ![c] = TRUE] /\ pc' = [pc EXCEPT ![c] = "handler"]
      BY <1>6 DEF Deliver
    <2>2. CASE n = m
      <3>1. Token = 1 /\ Token' = 0
        BY <1>1, <2>1, <2>2 DEF Token, Deliverable, TypeOK
      <3>2. MayFinish(m)' \subseteq MayFinish(m) \cup {c}
        BY <1>1, <2>1, <2>2 DEF MayFinish, TypeOK
      <3>3. K' <= K + 1
        BY <3>2, MayFinishCard DEF K
      <3> QED BY <1>2, <2>1, <3>1, <3>3
    <2>3. CASE n # m
      <3>1. MayFinish(m)' \subseteq MayFinish(m)
        BY <1>1, <2>1, <2>3 DEF MayFinish, TypeOK
      <3>2. Deliverable(m)' = Deliverable(m)
        BY <1>1, <2>1, <2>3 DEF Deliverable, TypeOK
      <3> QED BY <1>4, <2>1, <3>1, <3>2
    <2> QED BY <2>2, <2>3
  <1>7. ASSUME NEW c \in Consumers, LoseChannel(c)
        PROVE  finals'[m] + K' + Token' <= losses' + 1
    <2>1. MayFinish(m)' \subseteq MayFinish(m)
      BY <1>1, <1>7 DEF LoseChannel, MayFinish, TypeOK
    <2> QED BY <1>4, <1>7, <2>1 DEF LoseChannel
  <1>8. CASE Crash
    <2>1. MayFinish(m)' \subseteq MayFinish(m)
      BY <1>8 DEF Crash, MayFinish
    <2> QED BY <1>4, <1>8, <2>1 DEF Crash
  <1>9. CASE Tick
    BY <1>4, <1>9 DEF Tick, MayFinish, Deliverable, consumerVars
  <1>10. ASSUME NEW c \in Consumers, InvokeHandler(c) \/ FailHandler(c)
         PROVE  finals'[m] + K' + Token' <= losses' + 1
    <2>1. /\ job[c] \in Messages /\ pc[c] \in {"handler", "failHandler"}
          /\ UNCHANGED <<where, job, link, losses>>
      BY <1>10, HandlerStep
    <2>2. PICK s \in ConsumerStates \ {"idle", "handler"} :
             /\ pc' = [pc EXCEPT ![c] = s]
             /\ \/ finals' = finals /\ s # "ackDelivery"
                \/ finals' = [finals EXCEPT ![job[c]] = @ + 1] /\ s = "ackDelivery"
      BY <1>10, HandlerStep
    <2>3. MayFinish(m)' \subseteq MayFinish(m) /\ Deliverable(m)' = Deliverable(m)
      BY <1>1, <2>1, <2>2 DEF MayFinish, Deliverable, TypeOK
    <2>4. CASE finals'[m] = finals[m]
      BY <1>4, <2>1, <2>3, <2>4
    <2>5. CASE finals'[m] # finals[m]
      <3>1. m = job[c] /\ s = "ackDelivery" /\ finals'[m] = finals[m] + 1
        BY <1>1, <2>1, <2>2, <2>5 DEF TypeOK
      <3>2. c \in MayFinish(m) /\ MayFinish(m)' \subseteq MayFinish(m) \ {c}
        BY <1>1, <2>1, <2>2, <3>1 DEF MayFinish, TypeOK
      <3>3. K' + 1 <= K
        BY <3>2, MayFinishCard DEF K
      <3>4. Token' = Token
        BY <2>3 DEF Token
      <3>5. finals[m] + 1 + K' + Token <= losses + 1
        BY <1>2, <3>3, PassedOn, Zenon
      <3> QED BY <2>1, <3>1, <3>4, <3>5
    <2> QED BY <2>4, <2>5
  <1>11. ASSUME NEW c \in Consumers,
                \/ AckDelivery(c) \/ RejectDelivery(c)
                \/ NackDelivery(c) \/ NackAfterPanic(c)
         PROVE  finals'[m] + K' + Token' <= losses' + 1
    <2>1. /\ job[c] \in Messages /\ pc[c] # "idle" /\ pc' = [pc EXCEPT ![c] = "idle"]
          /\ job' = [job EXCEPT ![c] = NoJob]
          /\ link' = [link EXCEPT ![c] = FALSE]
          /\ UNCHANGED <<finals, losses>>
      BY <1>11, SettleStep
    <2>2. PICK dest \in {"main", "delay", "gone"} :
             /\ where' = IF link[c] THEN [where EXCEPT ![job[c]] = dest] ELSE where
             /\ dest # "gone" =>
                  pc[c] \in {"rejectDelivery", "nackDelivery", "nackAfterPanic"}
      BY <1>11, SettleStep
    <2>3. MayFinish(m)' \subseteq MayFinish(m) \ {c}
      BY <1>1, <2>1 DEF MayFinish, TypeOK
    <2>4. CASE Deliverable(m)' => Deliverable(m)
      BY <1>4, <2>1, <2>3, <2>4
    <2>5. CASE ~(Deliverable(m)' => Deliverable(m))
      <3>1. link[c] /\ m = job[c] /\ dest # "gone"
        BY <1>1, <2>1, <2>2, <2>5 DEF Deliverable, TypeOK
      <3>2. c \in MayFinish(m)
        BY <2>2, <3>1 DEF MayFinish
      <3>3. K' + 1 <= K
        BY <2>3, <3>2, MayFinishCard DEF K
      <3>4. finals[m] + K' + Token' <= losses + 1
        BY <1>2, <3>3, PassedOn, Zenon
      <3> QED BY <2>1, <3>4
    <2> QED BY <2>4, <2>5
  <1>12. CASE UNCHANGED vars
    BY <1>4, <1>12 DEF vars, brokerVars, consumerVars, MayFinish, Deliverable
  <1> QED BY <1>5, <1>6, <1>7, <1>8, <1>9, <1>10, <1>11, <1>12 DEF Next, ConsumerStep

\* The inductive invariant holds of an empty queue, and every step preserves it.
LEMMA DeliveryInvInit == Init => DeliveryInv
  <1> SUFFICES ASSUME Init PROVE DeliveryInv
    OBVIOUS
  <1> USE DeliveryAssumption DEF Init
  <1>1. CoreInv
    BY CoreInit
  <1>2. HeaderNotLate /\ DeliveredOnce
    BY DEF HeaderNotLate, DeliveredOnce
  <1>3. \A m \in Messages : MayFinish(m) = {}
    BY DEF MayFinish
  <1>4. FinalsBounded
    BY <1>3, FS_EmptySet DEF FinalsBounded, Deliverable
  <1> QED BY <1>1, <1>2, <1>4 DEF DeliveryInv, CoreInv

LEMMA DeliveryInvNext == DeliveryInv /\ [Next]_vars => DeliveryInv'
  BY CoreNext, HeaderNext, DeliveredOnceNext, BoundNext DEF DeliveryInv, CoreInv

\* The state of the queue and its consumers is always well typed, consumers
\* settle only what they may, and no message is lost.
THEOREM DeliveryInvariant == Spec => []DeliveryInv
  BY DeliveryInvInit, DeliveryInvNext, PTL DEF Spec

\* A message leaves the broker only once its handler succeeded or the fail
\* handler was given it (delivery.go:120-157), for any number of consumers,
\* losses and crashes.
THEOREM NoMessageLost == Spec => []NothingLost
  <1>1. DeliveryInv => NothingLost
    BY DEF DeliveryInv
  <1> QED BY <1>1, DeliveryInvariant, PTL

\* A retry is decided by a header that is not later than the window's end.
LEMMA RetryStep ==
    ASSUME DeliveryInv, [Next]_vars, NEW c \in Consumers,
           pc[c] = "handler", pc'[c] = "rejectDelivery"
    PROVE  now <= born[job[c]] + Lifetime[job[c]]
  <1> USE DeliveryAssumption
  <1>1. TypeOK /\ SettlesWhatItMay /\ HeaderNotLate
    BY DEF DeliveryInv
  <1>2. InvokeHandler(c)
    <2>2. pc' # pc /\ pc' # [d \in Consumers |-> "idle"]
      OBVIOUS
    <2>3. ~\E m \in Messages : Publish(m) \/ DelayEnds(m)
      BY <2>2 DEF Publish, DelayEnds, consumerVars
    <2>4. ~Tick /\ ~Crash /\ ~UNCHANGED vars
      BY <2>2 DEF Tick, Crash, vars, consumerVars
    <2>5. \A d \in Consumers : ~LoseChannel(d) /\ \A m \in Messages : ~Deliver(d, m)
      BY <1>1, <2>2 DEF LoseChannel, Deliver, TypeOK
    <2>6. PICK d \in Consumers : ConsumerStep(d)
      BY <2>3, <2>4, <2>5 DEF Next
    <2>7. d = c
      <3>1. CASE InvokeHandler(d) \/ FailHandler(d)
        BY <1>1, <3>1 DEF InvokeHandler, FailHandler, TypeOK
      <3>2. CASE AckDelivery(d) \/ RejectDelivery(d) \/ NackDelivery(d) \/ NackAfterPanic(d)
        BY <1>1, <3>2
           DEF AckDelivery, RejectDelivery, NackDelivery, NackAfterPanic, Settle, TypeOK
      <3> QED BY <2>6, <3>1, <3>2 DEF ConsumerStep
    <2> QED BY <2>6, <2>7
            DEF ConsumerStep, FailHandler, AckDelivery, RejectDelivery, NackDelivery,
                NackAfterPanic
  <1>3. PICK o \in Outcomes : pc' = [pc EXCEPT ![c] = AfterHandler(job[c], o)]
    BY <1>2 DEF InvokeHandler
  <1>4. AfterHandler(job[c], o) = "rejectDelivery"
    BY <1>1, <1>3 DEF TypeOK
  <1>5. job[c] \in Messages
    BY <1>1 DEF SettlesWhatItMay
  <1>6. now <= expired[job[c]]
    <2>1. ~IsExpired(job[c])
      BY <1>4 DEF AfterHandler, HandleConsumerError, HandleRetryError
    <2> QED BY <1>1, <1>5, <2>1 DEF IsExpired, TypeOK
  <1> QED BY <1>1, <1>5, <1>6 DEF HeaderNotLate, TypeOK

\* No message is sent to the delay queue for a retry (delivery.go:116) once its
\* retry window is over, whatever the seconds' length, the delay and the window.
THEOREM RetriesEnd == Spec => RetriesWithinWindow
  <1>1. DeliveryInv /\ [Next]_vars =>
          [\A c \in Consumers :
              pc[c] = "handler" /\ pc'[c] = "rejectDelivery"
              => now <= born[job[c]] + Lifetime[job[c]]]_vars
    BY RetryStep
  <1> QED BY <1>1, DeliveryInvariant, PTL DEF Spec, RetriesWithinWindow

\* What the abstract queue sees of a message.
LEMMA StatusOf ==
    \A m \in Messages :
        status[m] = IF where[m] = "none" THEN "absent"
                    ELSE IF where[m] = "gone" THEN "removed" ELSE "pending"
  BY DEF status

\* A step that moves no message between the three is invisible to it.
LEMMA StatusStands ==
    ASSUME \A m \in Messages : /\ where'[m] = "none" <=> where[m] = "none"
                               /\ where'[m] = "gone" <=> where[m] = "gone"
    PROVE  status' = status
  BY DEF status

\* The queue and its consumers start as an empty queue of jobs.
LEMMA JobsInit == Init => Jobs!Init
  BY DEF Init, Jobs!Init, status, Broken

\* Every step is one of the queue of jobs, or none.
LEMMA JobsNext ==
    ASSUME DeliveryInv, [Next]_vars
    PROVE  [Jobs!Next]_(Jobs!jobVars)
  <1> USE DeliveryAssumption
  <1>1. /\ TypeOK /\ SettlesWhatItMay /\ DeliveredOnce /\ FinalsBounded /\ NothingLost
    BY DEF DeliveryInv
  <1>2. ASSUME UNCHANGED <<finals, losses, withRetry, panicked>>, status' = status
        PROVE  UNCHANGED Jobs!jobVars
    BY <1>2 DEF Jobs!jobVars, Broken
  <1>3. ASSUME NEW m \in Messages, Publish(m)
        PROVE  Jobs!Submit(m)
    <2>1. /\ where[m] = "none" /\ where' = [where EXCEPT ![m] = "main"]
          /\ UNCHANGED <<finals, losses, withRetry, panicked>>
      BY <1>3 DEF Publish
    <2>2. status[m] = "absent" /\ status' = [status EXCEPT ![m] = "pending"]
      BY <1>1, <2>1 DEF status, TypeOK
    <2> QED BY <2>1, <2>2 DEF Jobs!Submit, Broken
  <1>4. ASSUME NEW m \in Messages, DelayEnds(m)
        PROVE  UNCHANGED Jobs!jobVars
    <2>1. where[m] = "delay" /\ where' = [where EXCEPT ![m] = "main"]
      BY <1>4 DEF DelayEnds
    <2>2. status' = status
      BY <1>1, <2>1, StatusStands DEF TypeOK
    <2> QED BY <1>2, <1>4, <2>2 DEF DelayEnds
  <1>5. ASSUME NEW c \in Consumers, NEW m \in Messages, Deliver(c, m)
        PROVE  UNCHANGED Jobs!jobVars
    <2>1. where[m] = "main" /\ where' = [where EXCEPT ![m] = "unacked"]
      BY <1>5 DEF Deliver
    <2>2. status' = status
      BY <1>1, <2>1, StatusStands DEF TypeOK
    <2> QED BY <1>2, <1>5, <2>2 DEF Deliver
  <1>6. ASSUME NEW C \in SUBSET Consumers, Requeue(C), losses' = losses + 1,
               UNCHANGED <<finals, withRetry, panicked>>
        PROVE  Jobs!Lose
    <2>1. \A m \in Messages : where'[m] = where[m] \/ (where[m] = "unacked" /\ where'[m] = "main")
      BY <1>1, <1>6 DEF Requeue, DeliveredOnce
    <2>2. status' = status
      BY <2>1, StatusStands
    <2> QED BY <1>6, <2>2 DEF Jobs!Lose, Broken
  <1>7. CASE Crash \/ \E c \in Consumers : LoseChannel(c)
    <2>1. Jobs!Lose
      BY <1>6, <1>7 DEF Crash, LoseChannel
    <2> QED BY <2>1 DEF Jobs!Next
  <1>8. CASE Tick
    BY <1>2, <1>8, StatusStands DEF Tick
  <1>9. ASSUME NEW c \in Consumers, InvokeHandler(c) \/ FailHandler(c)
        PROVE  Jobs!Finish(job[c]) \/ Jobs!Break(job[c]) \/ UNCHANGED Jobs!jobVars
    <2>1. /\ job[c] \in Messages /\ pc[c] \in {"handler", "failHandler"}
          /\ UNCHANGED <<where, losses>>
          /\ finals' = finals \/ finals' = [finals EXCEPT ![job[c]] = @ + 1]
      BY <1>9, HandlerStep
    <2>2. status' = status /\ status[job[c]] # "absent"
      BY <1>1, <2>1, StatusStands, StatusOf DEF DeliveredOnce
    <2>3. finals[job[c]] <= losses
      <3>1. c \in MayFinish(job[c])
        BY <2>1 DEF MayFinish
      <3>2. /\ Cardinality(MayFinish(job[c])) \in Nat
            /\ Cardinality(MayFinish(job[c])) >= 1
        BY <2>1, <3>1, MayFinishCard
      <3>3. /\ finals[job[c]] \in Nat /\ losses \in Nat
            /\ finals[job[c]] + Cardinality(MayFinish(job[c]))
                 + (IF Deliverable(job[c]) THEN 1 ELSE 0) <= losses + 1
        BY <1>1, <2>1 DEF TypeOK, FinalsBounded
      <3> QED BY <3>2, <3>3
    <2>4. /\ withRetry' = withRetry
          /\ panicked' = panicked \/ (panicked' = panicked \cup {job[c]} /\ finals' = finals)
      BY <1>9 DEF InvokeHandler, FailHandler
    <2>5. Broken' = Broken \/ (Broken' = Broken \cup {job[c]} /\ finals' = finals)
      BY <2>4 DEF Broken
    <2> QED BY <2>1, <2>2, <2>3, <2>5 DEF Jobs!Finish, Jobs!Break, Jobs!jobVars
  <1>10. ASSUME NEW c \in Consumers,
                \/ AckDelivery(c) \/ RejectDelivery(c)
                \/ NackDelivery(c) \/ NackAfterPanic(c)
         PROVE  Jobs!Remove(job[c]) \/ UNCHANGED Jobs!jobVars
    <2>1. /\ job[c] \in Messages /\ pc[c] # "idle"
          /\ UNCHANGED <<withRetry, panicked, finals, losses>>
      BY <1>10, SettleStep
    <2>2. PICK dest \in {"main", "delay", "gone"} :
             /\ where' = IF link[c] THEN [where EXCEPT ![job[c]] = dest] ELSE where
             /\ dest = "gone" => finals[job[c]] > 0 \/ job[c] \in Broken
      BY <1>10, SettleStep
    <2>3. CASE link[c] /\ dest = "gone"
      <3>1. where[job[c]] = "unacked"
        BY <1>1, <2>3 DEF DeliveredOnce
      <3>2. status[job[c]] = "pending" /\ status' = [status EXCEPT ![job[c]] = "removed"]
        BY <1>1, <2>1, <2>2, <2>3, <3>1 DEF status, TypeOK
      <3> QED BY <2>1, <2>2, <2>3, <3>2 DEF Jobs!Remove, Broken
    <2>4. CASE ~(link[c] /\ dest = "gone")
      <3>1. link[c] => where[job[c]] = "unacked"
        BY <1>1 DEF DeliveredOnce
      <3>2. status' = status
        BY <1>1, <2>1, <2>2, <2>4, <3>1, StatusStands DEF TypeOK
      <3> QED BY <1>2, <2>1, <3>2
    <2> QED BY <2>3, <2>4
  <1>11. CASE UNCHANGED vars
    BY <1>2, <1>11, StatusStands DEF vars, brokerVars
  <1>12. \A c \in Consumers : ConsumerStep(c) => job[c] \in Messages
    BY <1>1
       DEF SettlesWhatItMay, ConsumerStep, InvokeHandler, FailHandler, AckDelivery,
           RejectDelivery, NackDelivery, NackAfterPanic
  <1> QED BY <1>3, <1>4, <1>5, <1>7, <1>8, <1>9, <1>10, <1>11, <1>12
          DEF Next, ConsumerStep, Jobs!Next

\* The queue with its consumers, delay queue and clock implements the queue of
\* jobs that the application is promised (delivery.go:10-34, 120-157): a job is
\* removed only when it was finished, and finished n + 1 times only after n losses.
THEOREM DeliveryImplementsJobQueue == Spec => IsJobQueue
  <1>1. Init => Jobs!Init
    BY JobsInit
  <1>2. DeliveryInv /\ [Next]_vars => [Jobs!Next]_(Jobs!jobVars)
    BY JobsNext
  <1> QED BY <1>1, <1>2, DeliveryInvariant, PTL DEF Spec, IsJobQueue, Jobs!Spec
=============================================================================
