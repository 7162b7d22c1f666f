-------------------------- MODULE FailedJobsProofs --------------------------
(***************************************************************************)
(* Proofs about FailedJobs: whatever requests, failures, losses and the    *)
(* end of the process come between, no job vanishes from queue, store and  *)
(* hands, and none is republished twice.                                   *)
(***************************************************************************)
EXTENDS FailedJobs, FiniteSetTheorems, SequenceTheorems, TLAPS

(***************************************************************************)
(* Sequences.                                                              *)
(***************************************************************************)
\* A message at the tail of the queue, or a job at the end of the slice.
LEMMA AppendRange ==
    ASSUME NEW S, NEW s \in Seq(S), NEW e \in S
    PROVE  /\ Append(s, e) \in Seq(S)
           /\ Range(Append(s, e)) = Range(s) \cup {e}
           /\ Len(Append(s, e)) = Len(s) + 1
           /\ \A i \in 1..Len(s) : Append(s, e)[i] = s[i]
           /\ Append(s, e)[Len(s) + 1] = e
  <1>1. /\ Append(s, e) \in Seq(S) /\ Len(Append(s, e)) = Len(s) + 1
        /\ DOMAIN Append(s, e) = 1..(Len(s) + 1)
        /\ \A i \in 1..Len(s) : Append(s, e)[i] = s[i]
        /\ Append(s, e)[Len(s) + 1] = e
    BY AppendProperties
  <1>2. Len(s) \in Nat /\ DOMAIN s = 1..Len(s)
    BY LenProperties
  <1>3. QED
    BY <1>1, <1>2 DEF Range

\* A delivery takes the head of the queue.
LEMMA HeadTailRange ==
    ASSUME NEW S, NEW s \in Seq(S), s # <<>>
    PROVE  /\ Head(s) \in S /\ Tail(s) \in Seq(S)
           /\ Len(Tail(s)) <= Len(s)
           /\ Range(s) = {Head(s)} \cup Range(Tail(s))
  <1>1. /\ Head(s) \in S /\ Tail(s) \in Seq(S) /\ Len(Tail(s)) = Len(s) - 1
        /\ Head(s) = s[1] /\ Len(s) \in Nat \ {0} /\ DOMAIN s = 1..Len(s)
        /\ DOMAIN Tail(s) = 1..(Len(s) - 1)
        /\ \A i \in 1..(Len(s) - 1) : Tail(s)[i] = s[i + 1]
    BY HeadTailProperties, LenProperties, EmptySeq
  <1>2. ASSUME NEW i \in 1..Len(s), i # 1  PROVE s[i] \in Range(Tail(s))
    <2>1. i - 1 \in 1..(Len(s) - 1) /\ Tail(s)[i - 1] = s[(i - 1) + 1]
      BY <1>1, <1>2
    <2>2. QED
      BY <1>1, <2>1 DEF Range
  <1>3. Range(Tail(s)) \subseteq Range(s)
    BY <1>1 DEF Range
  <1>4. QED
    BY <1>1, <1>2, <1>3 DEF Range

\* A delivery that was not acknowledged goes back to the head.
LEMMA ConsRange ==
    ASSUME NEW S, NEW s \in Seq(S), NEW e \in S
    PROVE  /\ <<e>> \o s \in Seq(S)
           /\ Range(<<e>> \o s) = Range(s) \cup {e}
  <1> DEFINE one == <<e>>
  <1>1. one \in Seq(S) /\ Range(one) = {e}
    BY DEF Range
  <1> HIDE DEF one
  <1>2. one \o s \in Seq(S)
    BY <1>1, ConcatProperties
  <1>3. Range(one \o s) = Range(one) \cup Range(s)
    BY <1>1, RangeConcatenation
  <1>4. QED
    BY <1>1, <1>2, <1>3 DEF one

\* take moves the jobs behind the one it removes.
LEMMA RemoveAtFacts ==
    ASSUME NEW S, NEW s \in Seq(S), NEW i \in DOMAIN s
    PROVE  /\ RemoveAt(s, i) \in Seq(S)
           /\ Len(RemoveAt(s, i)) = Len(s) - 1
           /\ \A k \in 1..(Len(s) - 1) :
                 RemoveAt(s, i)[k] = IF k < i THEN s[k] ELSE s[k + 1]
  <1>0. Len(s) \in Nat /\ DOMAIN s = 1..Len(s) /\ i \in 1..Len(s)
    BY LenProperties
  <1> DEFINE front == SubSeq(s, 1, i - 1)
             back  == SubSeq(s, i + 1, Len(s))
  <1>1. /\ front \in Seq(S) /\ Len(front) = i - 1
        /\ \A k \in 1..(i - 1) : front[k] = s[k]
    BY <1>0, SubSeqProperties
  <1>2. /\ back \in Seq(S) /\ Len(back) = Len(s) - i
        /\ \A k \in 1..(Len(s) - i) : back[k] = s[k + i]
    BY <1>0, SubSeqProperties
  <1> HIDE DEF front, back
  <1>3. /\ front \o back \in Seq(S) /\ Len(front \o back) = Len(front) + Len(back)
        /\ \A k \in 1..(Len(front) + Len(back)) :
              (front \o back)[k] = IF k <= Len(front) THEN front[k] ELSE back[k - Len(front)]
    BY <1>1, <1>2, ConcatProperties
  <1>4. ASSUME NEW k \in 1..(Len(s) - 1)
        PROVE  (front \o back)[k] = IF k < i THEN s[k] ELSE s[k + 1]
    <2>1. CASE k < i
      BY <1>0, <1>1, <1>3, <2>1
    <2>2. CASE ~(k < i)
      <3>1. k - (i - 1) \in 1..(Len(s) - i) /\ (k - (i - 1)) + i = k + 1
        BY <1>0, <2>2
      <3>2. (front \o back)[k] = back[k - (i - 1)]
        BY <1>0, <1>1, <1>2, <1>3, <2>2
      <3>3. back[k - (i - 1)] = s[(k - (i - 1)) + i]
        BY <1>2, <3>1
      <3>4. QED
        BY <2>2, <3>1, <3>2, <3>3
    <2>3. QED
      BY <2>1, <2>2
  <1>5. RemoveAt(s, i) = front \o back
    BY DEF RemoveAt, front, back
  <1>6. Len(front) + Len(back) = Len(s) - 1
    BY <1>0, <1>1, <1>2
  <1>7. QED
    BY <1>3, <1>4, <1>5, <1>6

\* Only the removed job is missing.
LEMMA RemoveAtRange ==
    ASSUME NEW S, NEW s \in Seq(S), NEW i \in DOMAIN s
    PROVE  Range(s) = Range(RemoveAt(s, i)) \cup {s[i]}
  <1> DEFINE t == RemoveAt(s, i)
  <1>1. /\ Len(s) \in Nat /\ DOMAIN s = 1..Len(s)
        /\ t \in Seq(S) /\ Len(t) = Len(s) - 1 /\ DOMAIN t = 1..(Len(s) - 1)
        /\ \A k \in 1..(Len(s) - 1) : t[k] = IF k < i THEN s[k] ELSE s[k + 1]
    BY LenProperties, RemoveAtFacts
  <1> HIDE DEF t
  <1>2. ASSUME NEW k \in DOMAIN s, k # i  PROVE s[k] \in Range(t)
    <2>1. CASE k < i
      BY <1>1, <2>1 DEF Range
    <2>2. CASE k > i
      <3>1. k - 1 \in DOMAIN t /\ t[k - 1] = s[(k - 1) + 1]
        BY <1>1, <2>2
      <3>2. QED
        BY <1>1, <3>1 DEF Range
    <2>3. QED
      BY <1>1, <1>2, <2>1, <2>2
  <1>3. ASSUME NEW k \in DOMAIN t  PROVE t[k] \in Range(s)
    <2>1. k + 1 \in DOMAIN s /\ k \in DOMAIN s /\ (t[k] = s[k] \/ t[k] = s[k + 1])
      BY <1>1
    <2>2. QED
      BY <2>1 DEF Range
  <1>4. Range(t) = {t[k] : k \in DOMAIN t} /\ Range(s) = {s[k] : k \in DOMAIN s}
    BY DEF Range
  <1>5. QED
    BY <1>2, <1>3, <1>4 DEF t

\* A sequence without repetition that is as long as a set has all of it.
LEMMA SetToSeqsOnto ==
    ASSUME NEW S, IsFiniteSet(S), NEW f \in SetToSeqs(S)
    PROVE  f \in Seq(S) /\ Range(f) = S
  <1> DEFINE D == 1..Cardinality(S)
  <1>1. Cardinality(S) \in Nat
    BY FS_CardinalityType
  <1>2. f \in [D -> S] /\ \A i, j \in D : i # j => f[i] # f[j]
    BY DEF SetToSeqs
  <1>3. f \in Injection(D, S)
    BY <1>2 DEF Injection, IsInjective
  <1>4. IsFiniteSet(D) /\ Cardinality(D) = Cardinality(S)
    BY <1>1, FS_Interval
  <1>5. f \in Surjection(D, S)
    BY <1>3, <1>4, FS_Injection
  <1>6. \A x \in S : \E i \in D : f[i] = x
    BY <1>5 DEF Surjection
  <1>7. f \in Seq(S)
    BY <1>1, <1>2, IsASeq
  <1>8. QED
    BY <1>2, <1>6, <1>7 DEF Range

(***************************************************************************)
(* The start.                                                              *)
(***************************************************************************)
LEMMA InitInv == Init => FailedJobsInv
  <1> SUFFICES ASSUME Init PROVE FailedJobsInv
    OBVIOUS
  <1> DEFINE S == {Message(j, BodyOf[j]) : j \in known}
             f == [j \in known |-> Message(j, BodyOf[j])]
  <1>1. known \subseteq Leftovers /\ IsFiniteSet(known)
    BY FailedJobsAssumption, FS_Subset DEF Init
  <1>2. f \in Surjection(known, S)
    BY DEF Surjection
  <1>3. IsFiniteSet(S)
    BY <1>1, <1>2, FS_Surjection
  <1>4. queue \in SetToSeqs(S)
    BY DEF Init
  <1> HIDE DEF S
  <1>5. queue \in Seq(S) /\ Range(queue) = S
    BY <1>3, <1>4, SetToSeqsOnto
  <1>6. S \subseteq Messages
    BY <1>1, FailedJobsAssumption DEF S, Messages, Message
  <1>7. queue \in Seq(Messages)
    BY <1>5, <1>6, SeqMonotonic
  <1>8. jobs = <<>> /\ stored = <<>> /\ Range(jobs) = {} /\ Range(stored) = {} /\ Hands = {}
    BY DEF Init, Range, Hands
  <1>9. TypeOK
    <2>1. jobs \in Seq(Items) /\ stored \in Seq(Items) /\ Len(stored) = 0
      BY <1>8, EmptySeq
    <2>2. /\ known \subseteq Jobs
          /\ StoredCap \in Nat /\ MaxLosses \in Nat
      BY <1>1, FailedJobsAssumption DEF Jobs
    <2>3. /\ rpc \in [Requests -> {"idle", "publish", "returned"}] /\ gone \subseteq Requests
          /\ held \in [Requests -> Items \cup {None}]
          /\ \A r \in Requests : rpc[r] # "publish"
      BY DEF Init
    <2>4. /\ link = FALSE /\ losses = 0 /\ cur = None /\ cpc = "idle" /\ handled = {} /\ next = 0
          /\ recovered = 0 /\ mpc = "start" /\ mine = None /\ lost = {}
          /\ interrupted = FALSE /\ timedOut = FALSE
      BY DEF Init
    <2>5. /\ link \in BOOLEAN /\ (link => cpc # "idle")
          /\ interrupted \in BOOLEAN /\ timedOut \in BOOLEAN
      BY <2>4
    <2>6. QED
      BY <1>7, <2>1, <2>2, <2>3, <2>4, <2>5 DEF TypeOK
  <1>10. \A j \in known : \E x \in Range(queue) : x.job = j
    <2> TAKE j \in known
    <2>1. Message(j, BodyOf[j]) \in Range(queue)
      BY <1>5 DEF S
    <2>2. QED
      BY <2>1 DEF Message
  <1>11. SettlesAccounted
    BY <1>10 DEF SettlesAccounted, Accounted
  <1>12. LostNeedsCancel /\ TakenOnce /\ IdsAgree /\ Outlives
    BY <1>8 DEF Init, LostNeedsCancel, TakenOnce, IdsAgree, Outlives
  <1>13. QED
    BY <1>9, <1>11, <1>12 DEF FailedJobsInv

(***************************************************************************)
(* The consumer.                                                           *)
(***************************************************************************)
\* The delivery is the broker's only copy until it is settled.
LEMMA DeliverInv ==
    ASSUME FailedJobsInv, Deliver
    PROVE  FailedJobsInv'
  <1> USE DEF FailedJobsInv, Deliver, storeVars, chanVars, mainVars, reqVars, histVars
  <1>1. /\ queue' \in Seq(Messages) /\ cur' \in Messages
        /\ Range(queue) = {cur'} \cup Range(queue')
    BY HeadTailRange DEF TypeOK
  <1>2. Messages' = Messages /\ Items' = Items /\ Hands' = Hands
    BY DEF Messages, Items, Hands
  <1>3. /\ link' \in BOOLEAN /\ (link' => cpc' # "idle")
        /\ interrupted' \in BOOLEAN /\ timedOut' \in BOOLEAN
    BY DEF TypeOK
  <1>4. TypeOK'
    BY <1>1, <1>2, <1>3 DEF TypeOK, Serving
  <1>5. SettlesAccounted'
    BY <1>1, <1>2 DEF SettlesAccounted, Accounted, Unsettled, Alive
  <1>6. IdsAgree' /\ TakenOnce'
    BY <1>2 DEF IdsAgree, TakenOnce, Stored
  <1>7. Outlives' /\ LostNeedsCancel'
    BY DEF Outlives, LostNeedsCancel
  <1>8. QED
    BY <1>4, <1>5, <1>6, <1>7

LEMMA HandlerInv ==
    ASSUME FailedJobsInv, Handler
    PROVE  FailedJobsInv'
  <1> USE DEF FailedJobsInv, Handler, brokerVars, storeVars, mainVars, reqVars, histVars
  <1>1. cur' = cur /\ cur \in Messages /\ cur.job \in known /\ cur.tries \in 0..MaxTries
    BY DEF TypeOK, Messages
  <1>2. Messages' = Messages /\ Items' = Items /\ Hands' = Hands
    BY DEF Messages, Items, Hands
  <1>3. /\ link' \in BOOLEAN /\ (link' => cpc' # "idle")
        /\ interrupted' \in BOOLEAN /\ timedOut' \in BOOLEAN
    BY DEF TypeOK
  <1>4. TypeOK'
    BY <1>1, <1>2, <1>3 DEF TypeOK, Serving, CloseRecovered
  <1>5. SettlesAccounted'
    BY <1>1, <1>2 DEF SettlesAccounted, Accounted, Unsettled, Alive
  <1>6. IdsAgree' /\ TakenOnce'
    BY <1>2 DEF IdsAgree, TakenOnce, Stored
  <1>7. Outlives' /\ LostNeedsCancel'
    BY DEF Outlives, LostNeedsCancel
  <1>8. QED
    BY <1>4, <1>5, <1>6, <1>7

\* The new job gets an id that no other has, in the store, in stored or in hand.
LEMMA FailHandlerInv ==
    ASSUME FailedJobsInv, FailHandler
    PROVE  FailedJobsInv'
  <1> USE DEF FailedJobsInv, FailHandler, brokerVars, chanVars, mainVars, reqVars, histVars
  <1> DEFINE item == storedJob(next + 1, cur)
  <1>1. /\ next \in Nat /\ next' = next + 1 /\ jobs' = Append(jobs, item)
        /\ cur' = cur /\ cur \in Messages /\ cpc' = "send"
    BY DEF TypeOK, add
  <1>2. Messages' = Messages /\ Items \subseteq Items' /\ Hands' = Hands
    BY <1>1 DEF Messages, Items, Hands
  <1>3. item \in Items' /\ item.id = next' /\ item.job = cur.job
    BY <1>1 DEF Messages, Items, storedJob
  <1>4. jobs \in Seq(Items') /\ stored \in Seq(Items')
    BY <1>2, SeqMonotonic DEF TypeOK
  <1> HIDE DEF item
  <1>5. /\ jobs' \in Seq(Items') /\ Range(jobs') = Range(jobs) \cup {item}
        /\ Len(jobs') = Len(jobs) + 1
        /\ \A i \in 1..Len(jobs) : jobs'[i] = jobs[i]
        /\ jobs'[Len(jobs) + 1] = item
    BY <1>1, <1>3, <1>4, AppendRange
  <1>6. /\ link' \in BOOLEAN /\ (link' => cpc' # "idle")
        /\ interrupted' \in BOOLEAN /\ timedOut' \in BOOLEAN
    BY DEF TypeOK
  <1>7. TypeOK'
    BY <1>1, <1>2, <1>4, <1>5, <1>6 DEF TypeOK, Serving
  <1>8. SettlesAccounted'
    BY <1>2, <1>3, <1>5 DEF SettlesAccounted, Accounted, Unsettled, Alive
  <1>9. /\ \A x \in Range(jobs) : x \in Items
        /\ \A y \in Range(stored) : y \in Items
        /\ \A x \in Items : x.id <= next /\ x.id # item.id
    <2>1. jobs \in Seq(Items) /\ stored \in Seq(Items)
      BY DEF TypeOK
    <2>2. Range(jobs) \subseteq Items /\ Range(stored) \subseteq Items
      BY <2>1, RangeOfSeq
    <2>3. \A x \in Items : x.id \in 1..next
      BY DEF Items
    <2>4. QED
      BY <1>1, <1>3, <2>2, <2>3
  <1>10. IdsAgree'
    <2>1. ASSUME NEW i \in DOMAIN jobs', NEW k \in DOMAIN jobs', jobs'[i].id = jobs'[k].id
          PROVE  i = k
      <3>1. /\ DOMAIN jobs = 1..Len(jobs) /\ DOMAIN jobs' = 1..(Len(jobs) + 1)
            /\ Len(jobs) \in Nat
        BY <1>5, LenProperties DEF TypeOK
      <3>2. \A n \in 1..Len(jobs) : jobs[n].id # item.id
        BY <1>9, <3>1 DEF Range
      <3>3. QED
        BY <1>5, <2>1, <3>1, <3>2 DEF IdsAgree
    <2>2. ASSUME NEW x \in Range(jobs')
          PROVE  /\ \A y \in Range(stored') : x.id = y.id => x.job = y.job
                 /\ mpc' = "take" /\ x.id = mine'.id => x.job = mine'.job
                 /\ cpc' = "send" /\ x.id = next' => x.job = cur'.job
      <3>1. CASE x = item
        BY <1>1, <1>3, <1>9, <3>1 DEF TypeOK
      <3>2. CASE x \in Range(jobs)
        BY <1>1, <1>3, <1>9, <3>2 DEF IdsAgree
      <3>3. QED
        BY <1>5, <3>1, <3>2
    <2>3. cpc' = "send" => next' > 0
      BY <1>1
    <2>4. QED
      BY <2>1, <2>2, <2>3 DEF IdsAgree
  <1>11. TakenOnce'
    <2>1. Hands \subseteq Items
      BY DEF TypeOK, Hands
    <2>2. \A x \in Hands : ~Stored(x.id)'
      BY <1>5, <1>9, <2>1 DEF TakenOnce, Stored
    <2>3. QED
      BY <1>2, <2>2 DEF TakenOnce
  <1>12. Outlives' /\ LostNeedsCancel'
    BY DEF Outlives, LostNeedsCancel
  <1>13. QED
    BY <1>7, <1>8, <1>10, <1>11, <1>12

\* The job sent to main is the one that was just stored.
LEMMA FailHandlerSendsInv ==
    ASSUME FailedJobsInv, FailHandlerSends
    PROVE  FailedJobsInv'
  <1> USE DEF FailedJobsInv, FailHandlerSends, brokerVars, storeVars, mainVars, reqVars, histVars
  <1> DEFINE item == storedJob(next, cur)
  <1>1. Messages' = Messages /\ Items' = Items /\ Hands' = Hands
    BY DEF Messages, Items, Hands
  <1>2. cur \in Messages /\ cur' = cur /\ next \in Nat /\ next > 0
    BY DEF TypeOK, IdsAgree
  <1>3. item \in Items /\ item.id = next /\ item.job = cur.job
    BY <1>2 DEF Messages, Items, storedJob
  <1> HIDE DEF item
  <1>4. stored' = Append(stored, item)
    BY DEF item
  <1>5. /\ stored' \in Seq(Items) /\ Range(stored') = Range(stored) \cup {item}
        /\ Len(stored') = Len(stored) + 1
    BY <1>3, <1>4, AppendRange DEF TypeOK
  <1>6. Len(stored') <= StoredCap
    BY <1>5, FailedJobsAssumption, LenProperties DEF TypeOK
  <1>7. /\ link' \in BOOLEAN /\ (link' => cpc' # "idle")
        /\ interrupted' \in BOOLEAN /\ timedOut' \in BOOLEAN
    BY DEF TypeOK
  <1>8. TypeOK'
    BY <1>1, <1>2, <1>5, <1>6, <1>7 DEF TypeOK, Serving
  <1>9. SettlesAccounted'
    BY <1>1 DEF SettlesAccounted, Accounted, Unsettled, Alive
  <1>10. IdsAgree'
    BY <1>3, <1>5 DEF IdsAgree
  <1>11. TakenOnce'
    BY <1>1 DEF TakenOnce, Stored
  <1>12. Outlives' /\ LostNeedsCancel'
    BY DEF Outlives, LostNeedsCancel
  <1>13. QED
    BY <1>8, <1>9, <1>10, <1>11, <1>12

\* A job that is dropped from the consumer's hands is accounted for elsewhere.
LEMMA SettleInv ==
    ASSUME FailedJobsInv, Settle
    PROVE  FailedJobsInv'
  <1> USE DEF FailedJobsInv, Settle, storeVars, chanVars, mainVars, reqVars, histVars
  <1> DEFINE again == [cur EXCEPT !.tries = @ + 1]
  <1>1. Messages' = Messages /\ Items' = Items /\ Hands' = Hands
    BY DEF Messages, Items, Hands
  <1>2. cur \in Messages
    BY DEF TypeOK
  <1>3. ASSUME cpc = "reject"  PROVE again \in Messages /\ again.job = cur.job
    <2>1. MaxTries \in Nat /\ cur.tries \in 0..MaxTries /\ cur.tries < MaxTries
      BY <1>2, <1>3, FailedJobsAssumption DEF TypeOK, Messages
    <2>2. cur.tries + 1 \in 0..MaxTries
      BY <2>1
    <2>3. QED
      BY <1>2, <2>2 DEF Messages
  <1> HIDE DEF again
  <1>4. queue' = IF cpc = "reject" /\ link THEN Append(queue, again) ELSE queue
    BY DEF again
  <1>5. /\ queue' \in Seq(Messages) /\ Range(queue) \subseteq Range(queue')
        /\ cpc = "reject" /\ link => again \in Range(queue')
    <2>1. CASE cpc = "reject" /\ link
      <3>1. queue \in Seq(Messages) /\ again \in Messages /\ queue' = Append(queue, again)
        BY <1>3, <1>4, <2>1 DEF TypeOK
      <3>2. QED
        BY <3>1, AppendRange
    <2>2. CASE ~(cpc = "reject" /\ link)
      BY <1>4, <2>2 DEF TypeOK
    <2>3. QED
      BY <2>1, <2>2
  <1>6. /\ link' \in BOOLEAN /\ (link' => cpc' # "idle")
        /\ interrupted' \in BOOLEAN /\ timedOut' \in BOOLEAN
    BY DEF TypeOK
  <1>7. TypeOK'
    BY <1>1, <1>5, <1>6 DEF TypeOK, Serving
  <1>8. SettlesAccounted'
    BY <1>1, <1>3, <1>5 DEF SettlesAccounted, Accounted, Unsettled, Alive
  <1>9. IdsAgree' /\ TakenOnce'
    BY <1>1 DEF IdsAgree, TakenOnce, Stored
  <1>10. Outlives' /\ LostNeedsCancel'
    BY DEF Outlives, LostNeedsCancel
  <1>11. QED
    BY <1>7, <1>8, <1>9, <1>10

\* What is not acknowledged when its channel goes is in the queue again.
LEMMA RequeueFacts ==
    ASSUME TypeOK, Requeue
    PROVE  /\ queue' \in Seq(Messages) /\ Range(queue) \subseteq Range(queue')
           /\ link' = FALSE
           /\ link => cpc # "idle" /\ cur \in Messages /\ cur \in Range(queue')
  <1>1. queue \in Seq(Messages) /\ (link => cpc # "idle" /\ cur \in Messages)
    BY DEF TypeOK
  <1>2. CASE link
    <2>1. queue' = <<cur>> \o queue /\ link' = FALSE
      BY <1>2 DEF Requeue
    <2>2. QED
      BY <1>1, <1>2, <2>1, ConsRange
  <1>3. CASE ~link
    BY <1>1, <1>3 DEF Requeue
  <1>4. QED
    BY <1>2, <1>3

LEMMA LoseChannelInv ==
    ASSUME FailedJobsInv, LoseChannel
    PROVE  FailedJobsInv'
  <1> USE DEF FailedJobsInv, LoseChannel, workerVars, storeVars, chanVars, mainVars, reqVars, histVars
  <1>1. Messages' = Messages /\ Items' = Items /\ Hands' = Hands
    BY DEF Messages, Items, Hands
  <1>2. /\ queue' \in Seq(Messages) /\ Range(queue) \subseteq Range(queue')
        /\ link' = FALSE /\ cur \in Range(queue')
    BY RequeueFacts
  <1>3. /\ link' \in BOOLEAN /\ (link' => cpc' # "idle")
        /\ interrupted' \in BOOLEAN /\ timedOut' \in BOOLEAN
    BY <1>2 DEF TypeOK
  <1>4. TypeOK'
    BY <1>1, <1>2, <1>3, FailedJobsAssumption DEF TypeOK, Serving
  <1>5. SettlesAccounted'
    BY <1>1, <1>2 DEF SettlesAccounted, Accounted, Unsettled, Alive
  <1>6. IdsAgree' /\ TakenOnce'
    BY <1>1 DEF IdsAgree, TakenOnce, Stored
  <1>7. Outlives' /\ LostNeedsCancel'
    BY DEF Outlives, LostNeedsCancel
  <1>8. QED
    BY <1>4, <1>5, <1>6, <1>7

(***************************************************************************)
(* republish.                                                              *)
(***************************************************************************)
\* A job that is published is in the queue, or is known to be lost; it can be
\* lost only where Publish may fail.
LEMMA PublishFacts ==
    ASSUME NEW S, NEW m \in S, NEW may, NEW ok \in BOOLEAN,
           queue \in Seq(S), Publish(m, may, ok)
    PROVE  /\ queue' \in Seq(S) /\ Range(queue) \subseteq Range(queue')
           /\ lost \subseteq lost' /\ lost' \subseteq lost \cup {m.job}
           /\ m.job \in lost' \/ m \in Range(queue')
           /\ ok => ~Closed /\ lost' = lost
           /\ ~ok => may
  <1>1. CASE queue' = Append(queue, m) /\ lost' = lost
    <2>1. queue' \in Seq(S) /\ Range(queue') = Range(queue) \cup {m}
      BY <1>1, AppendRange
    <2>2. QED
      BY <1>1, <2>1 DEF Publish
  <1>2. CASE queue' = queue /\ lost' = lost \cup {m.job} /\ ~ok /\ may
    BY <1>2
  <1>3. QED
    BY <1>1, <1>2 DEF Publish

\* The store without the job that is taken.
LEMMA TakeFacts ==
    ASSUME FailedJobsInv, NEW i \in DOMAIN jobs, take(i)
    PROVE  /\ jobs' \in Seq(Items) /\ next' = next
           /\ Range(jobs) = Range(jobs') \cup {jobs[i]}
           /\ jobs[i] \in Items
           /\ \A x \in Range(jobs') : x.id # jobs[i].id
           /\ \A j, k \in DOMAIN jobs' : jobs'[j].id = jobs'[k].id => j = k
  <1>1. jobs \in Seq(Items) /\ jobs' = RemoveAt(jobs, i) /\ next' = next
    BY DEF FailedJobsInv, TypeOK, take
  <1>2. /\ Len(jobs) \in Nat /\ DOMAIN jobs = 1..Len(jobs) /\ jobs[i] \in Items
        /\ jobs' \in Seq(Items) /\ DOMAIN jobs' = 1..(Len(jobs) - 1)
        /\ \A k \in 1..(Len(jobs) - 1) : jobs'[k] = IF k < i THEN jobs[k] ELSE jobs[k + 1]
    BY <1>1, LenProperties, RemoveAtFacts, ElementOfSeq
  <1>3. Range(jobs) = Range(jobs') \cup {jobs[i]}
    BY <1>1, RemoveAtRange
  <1>4. \A j, k \in DOMAIN jobs : jobs[j].id = jobs[k].id => j = k
    BY DEF FailedJobsInv, IdsAgree
  <1>5. ASSUME NEW k \in DOMAIN jobs'
        PROVE  \E n \in DOMAIN jobs : /\ n # i /\ jobs'[k] = jobs[n]
                                      /\ n = IF k < i THEN k ELSE k + 1
    <2>1. CASE k < i
      BY <1>2, <2>1
    <2>2. CASE ~(k < i)
      BY <1>2, <2>2
    <2>3. QED
      BY <2>1, <2>2
  <1>6. ASSUME NEW x \in Range(jobs')  PROVE x.id # jobs[i].id
    <2>1. PICK k \in DOMAIN jobs' : x = jobs'[k]
      BY DEF Range
    <2>2. QED
      BY <1>4, <1>5, <2>1
  <1>7. ASSUME NEW j \in DOMAIN jobs', NEW k \in DOMAIN jobs', jobs'[j].id = jobs'[k].id
        PROVE  j = k
    <2>1. PICK n \in DOMAIN jobs : jobs'[j] = jobs[n] /\ n = IF j < i THEN j ELSE j + 1
      BY <1>5
    <2>2. PICK p \in DOMAIN jobs : jobs'[k] = jobs[p] /\ p = IF k < i THEN k ELSE k + 1
      BY <1>5
    <2>3. n = p
      BY <1>4, <1>7, <2>1, <2>2
    <2>4. QED
      BY <1>2, <2>1, <2>2, <2>3
  <1>8. QED
    BY <1>1, <1>2, <1>3, <1>6, <1>7

\* The job leaves the store for the hands of request r, and only for those.
LEMMA PostRetryTakes ==
    ASSUME FailedJobsInv, NEW r \in Requests, NEW i \in DOMAIN jobs,
           Serving, rpc[r] = "idle", take(i),
           held' = [held EXCEPT ![r] = jobs[i]], rpc' = [rpc EXCEPT ![r] = "publish"],
           UNCHANGED <<brokerVars, workerVars, chanVars, mainVars, gone, histVars>>
    PROVE  FailedJobsInv'
  <1> USE DEF FailedJobsInv, brokerVars, workerVars, chanVars, mainVars, histVars
  <1>1. /\ jobs' \in Seq(Items) /\ next' = next
        /\ Range(jobs) = Range(jobs') \cup {jobs[i]}
        /\ jobs[i] \in Items
        /\ \A x \in Range(jobs') : x.id # jobs[i].id
        /\ \A j, k \in DOMAIN jobs' : jobs'[j].id = jobs'[k].id => j = k
    BY TakeFacts
  <1>2. Messages' = Messages /\ Items' = Items
    BY <1>1 DEF Messages, Items
  <1>3. /\ rpc' \in [Requests -> {"idle", "publish", "returned"}]
        /\ held' \in [Requests -> Items \cup {None}]
        /\ held'[r] = jobs[i] /\ rpc'[r] = "publish"
        /\ \A q \in Requests \ {r} : held'[q] = held[q] /\ rpc'[q] = rpc[q]
    BY <1>1 DEF TypeOK
  <1>4. Hands' = Hands \cup {jobs[i]}
    BY <1>3 DEF Hands
  <1>5. /\ link' \in BOOLEAN /\ (link' => cpc' # "idle")
        /\ interrupted' \in BOOLEAN /\ timedOut' \in BOOLEAN
    BY DEF TypeOK
  <1>6. TypeOK'
    BY <1>1, <1>2, <1>3, <1>5 DEF TypeOK, Serving
  <1>7. SettlesAccounted'
    BY <1>1, <1>4 DEF SettlesAccounted, Accounted, Unsettled, Alive
  <1>8. IdsAgree'
    BY <1>1 DEF IdsAgree
  <1>9. TakenOnce'
    <2>1. Stored(jobs[i].id)
      BY <1>1 DEF Stored
    <2>2. \A x \in Hands : x.id # jobs[i].id
      BY <2>1 DEF TakenOnce
    <2>3. /\ \A q \in Requests : rpc[q] = "publish" => held[q] \in Hands
          /\ mpc = "republish" => mine \in Hands
      BY DEF Hands
    <2>4. \A x \in Hands' : ~Stored(x.id)'
      BY <1>1, <1>4 DEF TakenOnce, Stored
    <2>5. QED
      BY <1>3, <2>2, <2>3, <2>4 DEF TakenOnce
  <1>10. Outlives' /\ LostNeedsCancel'
    BY DEF Outlives, LostNeedsCancel, Serving
  <1>11. QED
    BY <1>6, <1>7, <1>8, <1>9, <1>10

LEMMA PostRetryInv ==
    ASSUME FailedJobsInv, NEW r \in Requests, NEW id \in Nat, PostRetry(r, id)
    PROVE  FailedJobsInv'
  <1>1. CASE \E i \in DOMAIN jobs :
                 /\ take(i) /\ held' = [held EXCEPT ![r] = jobs[i]]
                 /\ rpc' = [rpc EXCEPT ![r] = "publish"]
    BY <1>1, PostRetryTakes DEF PostRetry
  <1>2. CASE rpc' = [rpc EXCEPT ![r] = "returned"] /\ UNCHANGED <<held, storeVars>>
    <2> USE DEF FailedJobsInv, PostRetry, brokerVars, workerVars, storeVars, chanVars, mainVars,
                histVars
    <2>1. rpc[r] = "idle" /\ UNCHANGED <<held, next, jobs>>
      BY <1>2
    <2>2. /\ rpc' \in [Requests -> {"idle", "publish", "returned"}]
          /\ \A q \in Requests : rpc'[q] = "publish" <=> rpc[q] = "publish"
      BY <1>2, <2>1 DEF TypeOK
    <2>3. Messages' = Messages /\ Items' = Items /\ Hands' = Hands
      BY <2>1, <2>2 DEF Messages, Items, Hands
    <2>4. /\ link' \in BOOLEAN /\ (link' => cpc' # "idle")
          /\ interrupted' \in BOOLEAN /\ timedOut' \in BOOLEAN
      BY DEF TypeOK
    <2>5. TypeOK'
      BY <2>1, <2>2, <2>3, <2>4 DEF TypeOK, Serving
    <2>6. SettlesAccounted'
      BY <2>1, <2>3 DEF SettlesAccounted, Accounted, Unsettled, Alive
    <2>7. IdsAgree'
      BY <2>1 DEF IdsAgree
    <2>8. TakenOnce'
      BY <2>1, <2>2, <2>3 DEF TakenOnce, Stored
    <2>9. Outlives' /\ LostNeedsCancel'
      BY <2>2 DEF Outlives, LostNeedsCancel
    <2>10. QED
      BY <2>5, <2>6, <2>7, <2>8, <2>9
  <1>3. QED
    BY <1>1, <1>2 DEF PostRetry

\* The job leaves the hands of the request for the queue, or is lost by a client
\* that went away or a request that outlived the HTTP server.
LEMMA PostRetryPublishesInv ==
    ASSUME FailedJobsInv, NEW r \in Requests, PostRetryPublishes(r)
    PROVE  FailedJobsInv'
  <1> USE DEF FailedJobsInv, PostRetryPublishes, workerVars, storeVars, chanVars, mainVars
  <1> DEFINE m == Message(held[r].job, held[r].body)
  <1>1. held[r] \in Items
    BY DEF TypeOK
  <1>2. m \in Messages /\ m.job = held[r].job /\ m.job \in known
    BY <1>1, FailedJobsAssumption DEF Items, Messages, Message
  <1>3. PICK ok \in BOOLEAN : Publish(m, Closed \/ r \in gone, ok)
    OBVIOUS
  <1> HIDE DEF m
  <1>4. /\ queue' \in Seq(Messages) /\ Range(queue) \subseteq Range(queue')
        /\ lost \subseteq lost' /\ lost' \subseteq lost \cup {m.job}
        /\ m.job \in lost' \/ m \in Range(queue')
        /\ lost' # lost => Closed \/ r \in gone
    <2>1. queue \in Seq(Messages)
      BY DEF TypeOK
    <2>2. QED
      BY <1>2, <1>3, <2>1, PublishFacts
  <1>5. Messages' = Messages /\ Items' = Items
    BY DEF Messages, Items
  <1>6. /\ rpc' \in [Requests -> {"idle", "publish", "returned"}]
        /\ held' \in [Requests -> Items \cup {None}]
        /\ rpc'[r] = "returned"
        /\ \A q \in Requests \ {r} : held'[q] = held[q] /\ rpc'[q] = rpc[q]
    BY DEF TypeOK
  <1>7. Hands' \subseteq Hands /\ Hands \subseteq Hands' \cup {held[r]}
    BY <1>6 DEF Hands
  <1>8. /\ link' \in BOOLEAN /\ (link' => cpc' # "idle")
        /\ interrupted' \in BOOLEAN /\ timedOut' \in BOOLEAN
    BY DEF TypeOK
  <1>9. TypeOK'
    BY <1>2, <1>4, <1>5, <1>6, <1>8 DEF TypeOK, Serving
  <1>10. SettlesAccounted'
    BY <1>2, <1>4, <1>7 DEF SettlesAccounted, Accounted, Unsettled, Alive
  <1>11. IdsAgree'
    BY DEF IdsAgree
  <1>12. TakenOnce'
    BY <1>6, <1>7 DEF TakenOnce, Stored
  <1>13. Outlives'
    BY <1>6 DEF Outlives
  <1>14. LostNeedsCancel'
    BY <1>4 DEF Outlives, LostNeedsCancel, Closed
  <1>15. QED
    BY <1>9, <1>10, <1>11, <1>12, <1>13, <1>14

LEMMA CancelInv ==
    ASSUME FailedJobsInv, Interrupt \/ \E r \in Requests : CancelRequest(r)
    PROVE  FailedJobsInv'
  <1> USE DEF FailedJobsInv
  <1>1. /\ UNCHANGED <<queue, link, losses, cur, cpc, handled, next, jobs, stored, recovered>>
        /\ UNCHANGED <<mpc, mine, timedOut, rpc, held, known, lost>>
        /\ gone \subseteq gone' /\ gone' \subseteq Requests /\ interrupted' \in BOOLEAN
    BY DEF Interrupt, CancelRequest, brokerVars, workerVars, storeVars, chanVars, mainVars, reqVars,
           histVars, TypeOK
  <1>2. Messages' = Messages /\ Items' = Items /\ Hands' = Hands
    BY <1>1 DEF Messages, Items, Hands
  <1>3. link' \in BOOLEAN /\ (link' => cpc' # "idle") /\ timedOut' \in BOOLEAN
    BY <1>1 DEF TypeOK
  <1>4. TypeOK'
    BY <1>1, <1>2, <1>3 DEF TypeOK, Serving
  <1>5. SettlesAccounted'
    BY <1>1, <1>2 DEF SettlesAccounted, Accounted, Unsettled, Alive
  <1>6. IdsAgree' /\ TakenOnce'
    BY <1>1, <1>2 DEF IdsAgree, TakenOnce, Stored
  <1>7. Outlives' /\ LostNeedsCancel'
    BY <1>1 DEF Outlives, LostNeedsCancel
  <1>8. QED
    BY <1>4, <1>5, <1>6, <1>7

(***************************************************************************)
(* main.                                                                   *)
(***************************************************************************)
LEMMA GoToFacts ==
    ASSUME TypeOK, NEW to, GoTo(to)
    PROVE  /\ mpc' = to
           /\ queue' \in Seq(Messages) /\ Range(queue) \subseteq Range(queue')
           /\ link' \in BOOLEAN /\ (link' => link)
           /\ link /\ ~link' => cur \in Messages /\ cur \in Range(queue')
           /\ UNCHANGED <<losses, cur, cpc, handled, recovered, interrupted>>
           /\ UNCHANGED <<rpc, held, gone, known, lost>>
  <1>1. /\ mpc' = to
        /\ UNCHANGED <<losses, cur, cpc, handled, recovered, interrupted>>
        /\ UNCHANGED <<rpc, held, gone, known, lost>>
    BY DEF GoTo, workerVars, reqVars, histVars
  <1>2. CASE to \in {"waitInflight", "ended", "exit1"}
    <2>1. Requeue
      BY <1>2 DEF GoTo
    <2>2. QED
      BY <1>1, <2>1, RequeueFacts
  <1>3. CASE to \notin {"waitInflight", "ended", "exit1"}
    <2>1. queue' = queue /\ link' = link
      BY <1>3 DEF GoTo
    <2>2. QED
      BY <1>1, <2>1 DEF TypeOK
  <1>4. QED
    BY <1>2, <1>3

\* When main goes on nothing leaves its place, but for a delivery that goes back.
LEMMA GoToAccounted ==
    ASSUME FailedJobsInv, NEW to, GoTo(to), Alive,
           Range(jobs) \subseteq Range(jobs') \cup Hands', Hands \subseteq Hands'
    PROVE  SettlesAccounted'
  <1>1. /\ mpc' = to
        /\ Range(queue) \subseteq Range(queue')
        /\ link' \in BOOLEAN
        /\ link /\ ~link' => cur \in Range(queue')
        /\ UNCHANGED <<cur, cpc, handled, known, lost>>
    BY GoToFacts DEF FailedJobsInv
  <1>2. QED
    BY <1>1 DEF FailedJobsInv, SettlesAccounted, Accounted, Unsettled

\* Steps of main that leave the store, and the hands of others, alone.
LEMMA MainGoesInv ==
    ASSUME FailedJobsInv, Start \/ ReceiveStored \/ MainReturns \/ HTTPShutdown \/ Shutdown
    PROVE  FailedJobsInv'
  <1>1. PICK to \in {"publish", "take", "httpShutdown", "shutdown", "waitInflight", "ended",
                     "exit1"} : GoTo(to)
    BY DEF Start, ReceiveStored, MainReturns, HTTPShutdown, Shutdown
  <1>2. /\ mpc' = to
        /\ queue' \in Seq(Messages)
        /\ link' \in BOOLEAN /\ (link' => link)
        /\ UNCHANGED <<losses, cur, cpc, handled, recovered, interrupted>>
        /\ UNCHANGED <<rpc, held, gone, known, lost>>
    BY <1>1, GoToFacts DEF FailedJobsInv
  <1>3. UNCHANGED <<next, jobs>> /\ mpc # "republish" /\ Alive
    BY DEF Start, ReceiveStored, MainReturns, HTTPShutdown, Shutdown, storeVars, Alive
  <1>4. Messages' = Messages /\ Items' = Items /\ Hands' = Hands
    BY <1>2, <1>3 DEF Messages, Items, Hands
  <1>5. \/ ReceiveStored
        \/ mpc' # "take" /\ UNCHANGED <<stored, mine>>
    BY <1>1, <1>2 DEF Start, MainReturns, HTTPShutdown, Shutdown, GoTo
  <1>6. /\ stored' \in Seq(Items) /\ Len(stored') <= StoredCap
        /\ Range(stored') \subseteq Range(stored)
        /\ mine' \in Items \cup {None}
        /\ mpc' = "take" => mine' \in Items /\ mine' \in Range(stored)
    <2>1. /\ stored \in Seq(Items) /\ Len(stored) \in Nat /\ Len(stored) <= StoredCap
          /\ StoredCap \in Nat /\ mine \in Items \cup {None}
      BY FailedJobsAssumption, LenProperties DEF FailedJobsInv, TypeOK
    <2>2. CASE ReceiveStored
      <3>1. stored # <<>> /\ mine' = Head(stored) /\ stored' = Tail(stored)
        BY <2>2 DEF ReceiveStored
      <3>2. /\ Head(stored) \in Items /\ Tail(stored) \in Seq(Items)
            /\ Len(Tail(stored)) <= Len(stored)
            /\ Range(stored) = {Head(stored)} \cup Range(Tail(stored))
        BY <2>1, <3>1, HeadTailRange
      <3>3. Len(Tail(stored)) \in Nat
        BY <3>2, LenProperties
      <3>4. QED
        BY <2>1, <3>1, <3>2, <3>3
    <2>3. CASE mpc' # "take" /\ UNCHANGED <<stored, mine>>
      BY <2>1, <2>3
    <2>4. QED
      BY <1>5, <2>2, <2>3
  <1>7. timedOut' \in BOOLEAN /\ interrupted' \in BOOLEAN /\ (link' => cpc' # "idle")
    BY <1>2 DEF FailedJobsInv, TypeOK, Start, ReceiveStored, MainReturns, HTTPShutdown, Shutdown
  <1>8. TypeOK'
    BY <1>2, <1>3, <1>4, <1>6, <1>7 DEF FailedJobsInv, TypeOK, Serving
  <1>9. SettlesAccounted'
    BY <1>1, <1>3, <1>4, GoToAccounted
  <1>10. IdsAgree'
    BY <1>2, <1>3, <1>6 DEF FailedJobsInv, IdsAgree
  <1>11. TakenOnce'
    BY <1>2, <1>3, <1>4 DEF FailedJobsInv, TakenOnce, Stored
  <1>12. Outlives' /\ LostNeedsCancel'
    <2>1. CASE HTTPShutdown
      <3>1. /\ mpc = "httpShutdown" /\ mpc' = "shutdown"
            /\ timedOut' = \E r \in Requests : rpc[r] = "publish"
        BY <2>1 DEF HTTPShutdown, GoTo
      <3>2. ~timedOut
        BY <3>1 DEF FailedJobsInv, Outlives
      <3>3. \A r \in Requests : rpc'[r] = "publish" => timedOut'
        BY <1>2, <3>1
      <3>4. QED
        BY <1>2, <3>1, <3>2, <3>3 DEF FailedJobsInv, Outlives, LostNeedsCancel
    <2>2. CASE Start \/ ReceiveStored \/ MainReturns
      <3>1. /\ mpc \in {"start", "waitStored", "waitRecovered"}
            /\ mpc' \in {"publish", "take", "httpShutdown", "exit1"} /\ timedOut' = timedOut
        BY <2>2 DEF Start, ReceiveStored, MainReturns, GoTo
      <3>2. QED
        BY <1>2, <3>1 DEF FailedJobsInv, Outlives, LostNeedsCancel
    <2>3. CASE Shutdown
      <3>1. /\ mpc \in {"shutdown", "waitInflight"}
            /\ mpc' \in {"waitInflight", "ended"} /\ timedOut' = timedOut
        BY <2>3 DEF Shutdown, GoTo
      <3>2. QED
        BY <1>2, <3>1 DEF FailedJobsInv, Outlives, LostNeedsCancel
    <2>4. QED
      BY <2>1, <2>2, <2>3
  <1>13. QED
    BY <1>8, <1>9, <1>10, <1>11, <1>12 DEF FailedJobsInv

\* The job leaves the store for the hands of main, under the id main received.
LEMMA TakeMineInv ==
    ASSUME FailedJobsInv, TakeMine
    PROVE  FailedJobsInv'
  <1>1. PICK to \in {"republish", "exit1"} : GoTo(to)
    BY DEF TakeMine
  <1>2. /\ mpc' = to
        /\ queue' \in Seq(Messages)
        /\ link' \in BOOLEAN /\ (link' => link)
        /\ UNCHANGED <<losses, cur, cpc, handled, recovered, interrupted>>
        /\ UNCHANGED <<rpc, held, gone, known, lost>>
        /\ UNCHANGED <<stored, mine, timedOut>>
    BY <1>1, GoToFacts DEF FailedJobsInv, TakeMine
  <1>3. mpc = "take" /\ mine \in Items /\ Alive
    BY DEF FailedJobsInv, TypeOK, TakeMine, Alive
  <1>4. /\ jobs' \in Seq(Items) /\ next' = next
        /\ Range(jobs') \subseteq Range(jobs)
        /\ \A j, k \in DOMAIN jobs' : jobs'[j].id = jobs'[k].id => j = k
        /\ to = "republish" =>
              /\ \A x \in Range(jobs') : x.id # mine.id
              /\ \A x \in Range(jobs) : x \in Range(jobs') \/ x.job = mine.job
              /\ Stored(mine.id)
        /\ to = "exit1" => Range(jobs') = Range(jobs)
    <2>1. CASE \E i \in DOMAIN jobs : First(mine.id, i) /\ take(i) /\ GoTo("republish")
      <3>1. PICK i \in DOMAIN jobs : First(mine.id, i) /\ take(i)
        BY <2>1
      <3>2. /\ jobs' \in Seq(Items) /\ next' = next
            /\ Range(jobs) = Range(jobs') \cup {jobs[i]}
            /\ \A x \in Range(jobs') : x.id # jobs[i].id
            /\ \A j, k \in DOMAIN jobs' : jobs'[j].id = jobs'[k].id => j = k
        BY <3>1, TakeFacts
      <3>3. jobs[i].id = mine.id /\ jobs[i].job = mine.job
        BY <1>3, <3>1, <3>2 DEF First, FailedJobsInv, IdsAgree
      <3>4. to = "republish"
        BY <1>2, <2>1 DEF GoTo
      <3>5. QED
        BY <3>2, <3>3, <3>4 DEF Stored
    <2>2. CASE GoTo("exit1") /\ UNCHANGED storeVars
      <3>1. to = "exit1" /\ UNCHANGED <<next, jobs>>
        BY <1>2, <2>2 DEF GoTo, storeVars
      <3>2. QED
        BY <3>1 DEF FailedJobsInv, TypeOK, IdsAgree
    <2>3. QED
      BY <2>1, <2>2 DEF TakeMine
  <1>5. Messages' = Messages /\ Items' = Items
    BY <1>2, <1>4 DEF Messages, Items
  <1>6. Hands' = IF to = "republish" THEN Hands \cup {mine} ELSE Hands
    BY <1>2, <1>3 DEF Hands
  <1>7. timedOut' \in BOOLEAN /\ interrupted' \in BOOLEAN /\ (link' => cpc' # "idle")
    BY <1>2 DEF FailedJobsInv, TypeOK
  <1>8. TypeOK'
    BY <1>2, <1>3, <1>4, <1>5, <1>7 DEF FailedJobsInv, TypeOK, Serving
  <1>9. SettlesAccounted'
    <2>1. /\ Range(queue) \subseteq Range(queue')
          /\ link /\ ~link' => cur \in Range(queue')
      BY <1>1, GoToFacts DEF FailedJobsInv
    <2>2. to = "republish" => mine \in Hands'
      BY <1>6
    <2>3. \A x \in Range(jobs) \cup Hands :
             \E y \in Range(jobs') \cup Hands' : y.job = x.job
      BY <1>4, <1>6, <2>2
    <2>4. QED
      BY <1>2, <1>3, <2>1, <2>3 DEF FailedJobsInv, SettlesAccounted, Accounted, Unsettled
  <1>10. IdsAgree'
    BY <1>2, <1>4 DEF FailedJobsInv, IdsAgree
  <1>11. TakenOnce'
    <2>1. \A r \in Requests : rpc[r] = "publish" => held[r] \in Hands
      BY DEF Hands
    <2>2. to = "republish" => \A x \in Hands : x.id # mine.id
      BY <1>4 DEF FailedJobsInv, TakenOnce
    <2>3. \A x \in Hands' : ~Stored(x.id)'
      BY <1>4, <1>6 DEF FailedJobsInv, TakenOnce, Stored
    <2>4. QED
      BY <1>2, <2>1, <2>2, <2>3 DEF FailedJobsInv, TakenOnce
  <1>12. Outlives' /\ LostNeedsCancel'
    BY <1>2, <1>3 DEF FailedJobsInv, Outlives, LostNeedsCancel
  <1>13. QED
    BY <1>8, <1>9, <1>10, <1>11, <1>12 DEF FailedJobsInv

\* Publish of main: what it publishes was in its hands, or is new.
LEMMA MainPublishesInv ==
    ASSUME FailedJobsInv, PublishFirst \/ Republish
    PROVE  FailedJobsInv'
  <1>1. PICK m \in [job : Jobs, body : Bodies, tries : {0}], to \in {"waitStored", "waitRecovered"} :
             MainPublishes(m, to) /\ (mpc = "republish" => m.job = mine.job)
    <2>1. CASE PublishFirst
      <3> DEFINE new == Message(MainJob, "fail:boom")
      <3>1. new \in [job : Jobs, body : Bodies, tries : {0}]
        BY DEF Message, Jobs, Bodies
      <3>2. MainPublishes(new, "waitStored") /\ mpc # "republish"
        BY <2>1 DEF PublishFirst
      <3> HIDE DEF new
      <3>3. QED
        BY <3>1, <3>2
    <2>2. CASE Republish
      <3> DEFINE again == Message(mine.job, "hello-from-retry")
      <3>1. mine.job \in Jobs
        BY <2>2 DEF Republish, FailedJobsInv, TypeOK, Items
      <3>2. again \in [job : Jobs, body : Bodies, tries : {0}] /\ again.job = mine.job
        BY <3>1 DEF Message, Bodies
      <3>3. MainPublishes(again, "waitRecovered")
        BY <2>2 DEF Republish
      <3> HIDE DEF again
      <3>4. QED
        BY <3>2, <3>3
    <2>3. QED
      BY <2>1, <2>2
  <1>2. PICK ok \in BOOLEAN : Publish(m, interrupted, ok) /\ mpc' = IF ok THEN to ELSE "exit1"
    BY <1>1 DEF MainPublishes
  <1>3. /\ known' = known \cup {m.job}
        /\ UNCHANGED <<link, losses, cur, cpc, handled, next, jobs, stored, recovered>>
        /\ UNCHANGED <<mine, interrupted, timedOut, rpc, held, gone>>
    BY <1>1 DEF MainPublishes, workerVars, storeVars, chanVars, reqVars
  <1>4. mpc \in {"publish", "republish"} /\ Alive
    BY DEF PublishFirst, Republish, Alive
  <1>5. Messages \subseteq Messages' /\ Items \subseteq Items' /\ m \in Messages'
    BY <1>1, <1>3, FailedJobsAssumption DEF Messages, Items
  <1>6. queue \in Seq(Messages') /\ jobs \in Seq(Items') /\ stored \in Seq(Items')
    BY <1>5, SeqMonotonic DEF FailedJobsInv, TypeOK
  <1>7. /\ queue' \in Seq(Messages') /\ Range(queue) \subseteq Range(queue')
        /\ lost \subseteq lost' /\ lost' \subseteq lost \cup {m.job}
        /\ m.job \in lost' \/ m \in Range(queue')
        /\ ok => lost' = lost
    BY <1>2, <1>5, <1>6, PublishFacts
  <1>8. Hands' \subseteq Hands /\ Hands \subseteq Hands' \cup {mine}
    BY <1>1, <1>2, <1>3 DEF Hands
  <1>9. mpc # "republish" => Hands' = Hands
    BY <1>1, <1>2, <1>3 DEF Hands
  <1>10. /\ link' \in BOOLEAN /\ (link' => cpc' # "idle")
         /\ interrupted' \in BOOLEAN /\ timedOut' \in BOOLEAN
    BY <1>3 DEF FailedJobsInv, TypeOK
  <1>11. mpc' \in {"waitStored", "waitRecovered", "exit1"}
    BY <1>1, <1>2
  <1>12. TypeOK'
    <2>1. /\ known' \subseteq Jobs /\ handled' \subseteq known' /\ lost' \subseteq known'
      BY <1>1, <1>3, <1>7 DEF FailedJobsInv, TypeOK
    <2>2. /\ IF cpc' = "idle" THEN cur' = None ELSE cur' \in Messages'
          /\ mine' \in Items' \cup {None}
          /\ held' \in [Requests -> Items' \cup {None}]
          /\ \A r \in Requests : rpc'[r] = "publish" => held'[r] \in Items'
      BY <1>3, <1>5 DEF FailedJobsInv, TypeOK
    <2>3. QED
      BY <1>3, <1>6, <1>7, <1>10, <1>11, <2>1, <2>2 DEF FailedJobsInv, TypeOK, Serving
  <1>13. SettlesAccounted'
    <2>1. ASSUME Alive', NEW j \in known', j = m.job  PROVE Accounted(j)'
      BY <1>7, <2>1 DEF Accounted
    <2>2. ASSUME Alive', NEW j \in known, j # m.job
          PROVE  Accounted(j)' \/ (Unsettled' /\ cur'.job = j)
      <3>1. Accounted(j) \/ (Unsettled /\ cur.job = j)
        BY <1>4 DEF FailedJobsInv, SettlesAccounted
      <3>2. \A x \in Hands : x.job = j => x \in Hands'
        BY <1>1, <1>8, <1>9, <2>2
      <3>3. QED
        BY <1>3, <1>7, <3>1, <3>2 DEF Accounted, Unsettled
    <2>3. QED
      BY <1>3, <2>1, <2>2 DEF SettlesAccounted
  <1>14. IdsAgree'
    BY <1>3, <1>11 DEF FailedJobsInv, IdsAgree
  <1>15. TakenOnce'
    BY <1>3, <1>8, <1>11 DEF FailedJobsInv, TakenOnce, Stored
  <1>16. Outlives' /\ LostNeedsCancel'
    BY <1>1, <1>2, <1>3, <1>4, <1>7 DEF FailedJobsInv, Outlives, LostNeedsCancel
  <1>17. QED
    BY <1>12, <1>13, <1>14, <1>15, <1>16 DEF FailedJobsInv

(***************************************************************************)
(* The theorems.                                                           *)
(***************************************************************************)
LEMMA NextInv ==
    ASSUME FailedJobsInv, [Next]_vars
    PROVE  FailedJobsInv'
  <1>1. CASE ConsumerStep
    BY <1>1, DeliverInv, HandlerInv, FailHandlerInv, FailHandlerSendsInv, SettleInv DEF ConsumerStep
  <1>2. CASE MainStep
    BY <1>2, MainGoesInv, TakeMineInv, MainPublishesInv DEF MainStep
  <1>3. CASE \E r \in Requests : RequestStep(r)
    <2>1. PICK r \in Requests : RequestStep(r)
      BY <1>3
    <2>2. CASE \E id \in 0..next : PostRetry(r, id)
      BY <2>2, PostRetryInv DEF FailedJobsInv, TypeOK
    <2>3. CASE PostRetryPublishes(r)
      BY <2>3, PostRetryPublishesInv
    <2>4. CASE CancelRequest(r)
      BY <2>4, CancelInv
    <2>5. QED
      BY <2>1, <2>2, <2>3, <2>4 DEF RequestStep
  <1>4. CASE LoseChannel
    BY <1>4, LoseChannelInv
  <1>5. CASE Interrupt
    BY <1>5, CancelInv
  <1>6. CASE UNCHANGED vars
    <2> USE <1>6 DEF vars, brokerVars, workerVars, storeVars, chanVars, mainVars, reqVars, histVars
    <2>1. Messages' = Messages /\ Items' = Items /\ Hands' = Hands
      BY DEF Messages, Items, Hands
    <2>2. /\ link' \in BOOLEAN /\ (link' => cpc' # "idle")
          /\ interrupted' \in BOOLEAN /\ timedOut' \in BOOLEAN
      BY DEF FailedJobsInv, TypeOK
    <2>3. TypeOK'
      BY <2>1, <2>2 DEF FailedJobsInv, TypeOK, Serving
    <2>4. SettlesAccounted'
      BY <2>1 DEF FailedJobsInv, SettlesAccounted, Accounted, Unsettled, Alive
    <2>5. IdsAgree' /\ TakenOnce'
      BY <2>1 DEF FailedJobsInv, IdsAgree, TakenOnce, Stored
    <2>6. Outlives' /\ LostNeedsCancel'
      BY DEF FailedJobsInv, Outlives, LostNeedsCancel
    <2>7. QED
      BY <2>3, <2>4, <2>5, <2>6 DEF FailedJobsInv
  <1>7. QED
    BY <1>1, <1>2, <1>3, <1>4, <1>5, <1>6 DEF Next

\* For any number of jobs, requests, failures and losses: where each job is, what
\* an id stands for and who outlives the HTTP server (failed-jobs/main.go:45-90,
\* 163-167, 241-252); recovered is closed once (main.go:143).
THEOREM FailedJobsInvariant == Spec => []FailedJobsInv
  <1>1. Init => FailedJobsInv
    BY InitInv
  <1>2. FailedJobsInv /\ [Next]_vars => FailedJobsInv'
    BY NextInv
  <1>3. QED
    BY <1>1, <1>2, PTL DEF Spec

\* While the service runs no job vanishes between queue, consumer, store and
\* those who republish it (main.go:77-90, 117-128, 241-252).
THEOREM JobsNeverLost == Spec => []NoJobLost
  <1>1. FailedJobsInv => NoJobLost
    BY DEF FailedJobsInv, SettlesAccounted, NoJobLost, Unsettled
  <1>2. QED
    BY <1>1, FailedJobsInvariant, PTL

\* A job is lost by republish only if the client of a request went away, a
\* request outlived httpSrv.Shutdown, or main exited (main.go:163-172, 241-252).
THEOREM LossNeedsCancelledRequest == Spec => []LostNeedsCancel
  <1>1. FailedJobsInv => LostNeedsCancel
    BY DEF FailedJobsInv
  <1>2. QED
    BY <1>1, FailedJobsInvariant, PTL

\* However many requests and main republish at once, an id is taken by one of
\* them (main.go:77-90).
THEOREM JobsTakenOnce == Spec => []TakenOnce
  <1>1. FailedJobsInv => TakenOnce
    BY DEF FailedJobsInv
  <1>2. QED
    BY <1>1, FailedJobsInvariant, PTL
=============================================================================
