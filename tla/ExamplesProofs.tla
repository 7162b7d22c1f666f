--------------------------- MODULE ExamplesProofs ---------------------------
(***************************************************************************)
(* Proofs about Examples: for any numbers of jobs, workers, losses and     *)
(* leftovers, a program that reports success had it, and what              *)
(* graceful-shutdown logs after Shutdown covers the handlers that had      *)
(* started.                                                                *)
(***************************************************************************)
EXTENDS Examples, FiniteSetTheorems, SequenceTheorems, TLAPS

\* The labels of a worker whose handler has not done its work yet.
Fresh == {"received", "handler", "send", "reject", "sleep"}

Emails == {<<"emails", i, 0>> : i \in 1..EmailJobs}

(***************************************************************************)
(* What the programs publish.                                              *)
(***************************************************************************)
LEMMA Constants ==
    /\ EmailJobs \in Nat /\ EmailJobs > 0 /\ EmailWorkers \in Nat
    /\ SlowJobs \in Nat /\ SlowJobs > 0 /\ SlowWorkers \in Nat
    /\ Attempts \in Nat /\ SeqPublishes \in Nat /\ ParPublishes \in Nat
    /\ MaxLosses \in Nat /\ OldRuns \in Nat
  BY ExamplesAssumption

LEMMA MultipleFacts ==
    /\ Len(MultipleMessages) = EmailJobs + 1
    /\ DOMAIN MultipleMessages = 1..(EmailJobs + 1)
    /\ \A i \in 1..EmailJobs : MultipleMessages[i] = <<"emails", i, 0>>
    /\ MultipleMessages[EmailJobs + 1] = <<"sms", 1, 0>>
    /\ Range(MultipleMessages) = Emails \cup {<<"sms", 1, 0>>}
  <1> DEFINE S == Emails \cup {<<"sms", 1, 0>>}
             s == [i \in 1..EmailJobs |-> <<"emails", i, 0>>]
             e == <<"sms", 1, 0>>
  <1>1. EmailJobs \in Nat
    BY Constants
  <1>2. /\ s \in [1..EmailJobs -> S] /\ e \in S
        /\ \A i \in 1..EmailJobs : s[i] = <<"emails", i, 0>>
    BY DEF Emails
  <1>3. MultipleMessages = Append(s, e)
    BY DEF MultipleMessages
  <1> HIDE DEF S, s, e
  <1>4. s \in Seq(S) /\ Len(s) = EmailJobs
    BY <1>1, <1>2, IsASeq, LenProperties
  <1>5. /\ Len(Append(s, e)) = EmailJobs + 1
        /\ DOMAIN Append(s, e) = 1..(EmailJobs + 1)
        /\ \A i \in 1..EmailJobs : Append(s, e)[i] = s[i]
        /\ Append(s, e)[EmailJobs + 1] = e
    BY <1>2, <1>4, AppendProperties
  <1>6. /\ DOMAIN MultipleMessages = 1..(EmailJobs + 1)
        /\ \A i \in 1..EmailJobs : MultipleMessages[i] = <<"emails", i, 0>>
        /\ MultipleMessages[EmailJobs + 1] = <<"sms", 1, 0>>
    BY <1>2, <1>3, <1>5 DEF e
  <1>7. ASSUME NEW i \in 1..(EmailJobs + 1)  PROVE i \in 1..EmailJobs \/ i = EmailJobs + 1
    BY <1>1
  <1>8. 1..EmailJobs \subseteq 1..(EmailJobs + 1) /\ EmailJobs + 1 \in 1..(EmailJobs + 1)
    BY <1>1
  <1>9. Range(MultipleMessages) = Emails \cup {<<"sms", 1, 0>>}
    <2>1. Range(MultipleMessages) = {MultipleMessages[i] : i \in 1..(EmailJobs + 1)}
      BY <1>6 DEF Range
    <2>2. ASSUME NEW m \in Range(MultipleMessages)  PROVE m \in Emails \cup {<<"sms", 1, 0>>}
      <3>1. PICK i \in 1..(EmailJobs + 1) : m = MultipleMessages[i]
        BY <2>1, <2>2
      <3>2. CASE i \in 1..EmailJobs
        BY <1>6, <3>1, <3>2 DEF Emails
      <3>3. CASE i = EmailJobs + 1
        BY <1>6, <3>1, <3>3
      <3>4. QED
        BY <1>7, <3>2, <3>3
    <2>3. ASSUME NEW i \in 1..EmailJobs  PROVE <<"emails", i, 0>> \in Range(MultipleMessages)
      BY <1>6, <1>8, <2>1
    <2>4. <<"sms", 1, 0>> \in Range(MultipleMessages)
      BY <1>6, <1>8, <2>1
    <2>5. QED
      BY <2>2, <2>3, <2>4 DEF Emails
  <1>10. QED
    BY <1>3, <1>5, <1>6, <1>9

\* The mains publish a sequence without repetitions.
LEMMA MessagesFacts ==
    ASSUME NEW k \in Kinds
    PROVE  /\ Len(Messages(k)) \in Nat
           /\ DOMAIN Messages(k) = 1..Len(Messages(k))
           /\ \A i, j \in 1..Len(Messages(k)) : Messages(k)[i] = Messages(k)[j] => i = j
  <1>1. CASE k = "basic"
    BY <1>1 DEF Messages, BasicMessages
  <1>2. CASE k = "retry"
    <2>1. Messages(k) = RetryMessages
      BY <1>2 DEF Messages
    <2>2. Len(RetryMessages) = 3 /\ DOMAIN RetryMessages = 1..3
      BY DEF RetryMessages
    <2>3. /\ RetryMessages[1] = <<"retry", "ok", 0>>
          /\ RetryMessages[2] = <<"retry", "retry-then-ok", 0>>
          /\ RetryMessages[3] = <<"retry", "fail", 0>>
      BY DEF RetryMessages
    <2>4. \A i \in 1..3 : i = 1 \/ i = 2 \/ i = 3
      OBVIOUS
    <2>5. QED
      BY <2>1, <2>2, <2>3, <2>4
  <1>3. CASE k = "multiple"
    <2>1. Messages(k) = MultipleMessages
      BY <1>3 DEF Messages
    <2>2. ASSUME NEW i \in 1..(EmailJobs + 1), NEW j \in 1..(EmailJobs + 1),
                 MultipleMessages[i] = MultipleMessages[j]
          PROVE  i = j
      <3>1. /\ i \in 1..EmailJobs \/ i = EmailJobs + 1
            /\ j \in 1..EmailJobs \/ j = EmailJobs + 1
        BY Constants
      <3>2. QED
        BY <2>2, <3>1, MultipleFacts
    <2>3. QED
      BY <2>1, <2>2, MultipleFacts, Constants
  <1>4. CASE k = "graceful"
    <2>1. /\ Messages(k) = GracefulMessages /\ SlowJobs \in Nat
      BY <1>4, Constants DEF Messages
    <2>2. /\ Len(GracefulMessages) = SlowJobs /\ DOMAIN GracefulMessages = 1..SlowJobs
          /\ \A i \in 1..SlowJobs : GracefulMessages[i] = <<"shutdown", i, 0>>
      BY <2>1 DEF GracefulMessages
    <2>3. QED
      BY <2>1, <2>2
  <1>5. CASE k = "confirms"
    <2>1. /\ Messages(k) = ConfirmsMessages /\ SeqPublishes \in Nat
      BY <1>5, Constants DEF Messages
    <2>2. /\ Len(ConfirmsMessages) = SeqPublishes /\ DOMAIN ConfirmsMessages = 1..SeqPublishes
          /\ \A i \in 1..SeqPublishes : ConfirmsMessages[i] = <<"confirms", i, 0>>
      BY <2>1 DEF ConfirmsMessages
    <2>3. QED
      BY <2>1, <2>2
  <1>6. QED
    BY <1>1, <1>2, <1>3, <1>4, <1>5 DEF Kinds

\* As many messages as positions.
LEMMA MessagesCount ==
    ASSUME NEW k \in Kinds
    PROVE  /\ IsFiniteSet(Range(Messages(k)))
           /\ Cardinality(Range(Messages(k))) = Len(Messages(k))
  <1> DEFINE M == Messages(k)
             n == Len(Messages(k))
  <1>1. n \in Nat /\ DOMAIN M = 1..n /\ \A i, j \in 1..n : M[i] = M[j] => i = j
    BY MessagesFacts
  <1>2. Range(M) = {M[i] : i \in 1..n}
    BY <1>1 DEF Range
  <1> HIDE DEF M, n
  <1> DEFINE f == [i \in 1..n |-> M[i]]
  <1>3. f \in Surjection(1..n, Range(M))
    BY <1>2 DEF Surjection
  <1>4. f \in Injection(1..n, Range(M))
    BY <1>1, <1>2 DEF Injection, IsInjective
  <1>5. IsFiniteSet(1..n) /\ Cardinality(1..n) = n
    BY <1>1, FS_Interval
  <1> HIDE DEF f
  <1>6. IsFiniteSet(Range(M)) /\ Cardinality(Range(M)) = Cardinality(1..n)
    BY <1>3, <1>4, <1>5, FS_Surjection
  <1>7. QED
    BY <1>5, <1>6 DEF M, n

LEMMA EmailsCount == IsFiniteSet(Emails) /\ Cardinality(Emails) = EmailJobs
  <1> DEFINE f == [i \in 1..EmailJobs |-> <<"emails", i, 0>>]
  <1>1. f \in Surjection(1..EmailJobs, Emails)
    BY DEF Surjection, Emails
  <1>2. f \in Injection(1..EmailJobs, Emails)
    BY DEF Injection, IsInjective, Emails
  <1>3. IsFiniteSet(1..EmailJobs) /\ Cardinality(1..EmailJobs) = EmailJobs
    BY Constants, FS_Interval
  <1> HIDE DEF f
  <1>4. QED
    BY <1>1, <1>2, <1>3, FS_Surjection

LEMMA Lengths ==
    /\ Len(Messages("retry")) = DoneCap
    /\ Len(Messages("graceful")) = SlowJobs
    /\ Range(Messages("basic")) = {<<"basic", "hello", 0>>}
    /\ Range(Messages("multiple")) = Emails \cup {<<"sms", 1, 0>>}
  <1>1. Len(Messages("retry")) = DoneCap
    BY DEF Messages, RetryMessages, DoneCap
  <1>2. Len(Messages("graceful")) = SlowJobs
    BY Constants DEF Messages, GracefulMessages
  <1>3. Range(Messages("basic")) = {<<"basic", "hello", 0>>}
    BY DEF Messages, BasicMessages, Range
  <1>4. Range(Messages("multiple")) = Emails \cup {<<"sms", 1, 0>>}
    BY MultipleFacts DEF Messages
  <1>5. QED
    BY <1>1, <1>2, <1>3, <1>4

\* What was sent is part of what is published, and the next message is new.
LEMMA SentFacts ==
    ASSUME kind \in Kinds, sent \in 0..Len(Messages(kind))
    PROVE  /\ Sent \subseteq Range(Messages(kind)) /\ IsFiniteSet(Sent)
           /\ sent = Len(Messages(kind)) => Sent = Range(Messages(kind))
           /\ sent < Len(Messages(kind)) => Messages(kind)[sent + 1] \notin Sent
  <1>1. /\ Len(Messages(kind)) \in Nat /\ DOMAIN Messages(kind) = 1..Len(Messages(kind))
        /\ \A i, j \in 1..Len(Messages(kind)) : Messages(kind)[i] = Messages(kind)[j] => i = j
    BY MessagesFacts
  <1>2. 1..sent \subseteq 1..Len(Messages(kind)) /\ sent \in Nat
    BY <1>1
  <1>3. Sent \subseteq Range(Messages(kind))
    BY <1>1, <1>2 DEF Sent, Range
  <1>4. IsFiniteSet(Sent)
    BY <1>3, MessagesCount, FS_Subset
  <1>5. sent = Len(Messages(kind)) => Sent = Range(Messages(kind))
    BY <1>1 DEF Sent, Range
  <1>6. ASSUME sent < Len(Messages(kind))  PROVE Messages(kind)[sent + 1] \notin Sent
    <2>1. /\ sent + 1 \in 1..Len(Messages(kind)) /\ sent + 1 \notin 1..sent
      BY <1>1, <1>2, <1>6
    <2>2. QED
      BY <1>1, <1>2, <2>1 DEF Sent
  <1>7. QED
    BY <1>3, <1>4, <1>5, <1>6

\* What main publishes is no copy, what an earlier execution left is one.
LEMMA Tags ==
    ASSUME NEW k \in Kinds
    PROVE  /\ \A m \in Range(Messages(k)) : m[3] = 0
           /\ \A m \in Leftovers(k) : m[3] # 0
  <1>1. \A m \in Range(Messages(k)) : m[3] = 0
    <2>1. CASE k = "basic"
      BY <2>1, Lengths
    <2>2. CASE k = "retry"
      <3>1. /\ Messages(k) = RetryMessages /\ DOMAIN RetryMessages = 1..3
            /\ \A i \in 1..3 : i = 1 \/ i = 2 \/ i = 3
        BY <2>2 DEF Messages, RetryMessages
      <3>2. RetryMessages[1][3] = 0 /\ RetryMessages[2][3] = 0 /\ RetryMessages[3][3] = 0
        BY DEF RetryMessages
      <3>3. QED
        BY <3>1, <3>2 DEF Range
    <2>3. CASE k = "multiple"
      <3>1. Range(Messages(k)) = Emails \cup {<<"sms", 1, 0>>}
        BY <2>3, Lengths
      <3>2. QED
        BY <3>1 DEF Emails
    <2>4. CASE k = "graceful"
      <3>1. Range(Messages(k)) = {<<"shutdown", i, 0>> : i \in 1..SlowJobs}
        BY <2>4 DEF Messages, GracefulMessages, Range
      <3>2. QED
        BY <3>1
    <2>5. CASE k = "confirms"
      <3>1. Range(Messages(k)) = {<<"confirms", i, 0>> : i \in 1..SeqPublishes}
        BY <2>5 DEF Messages, ConfirmsMessages, Range
      <3>2. QED
        BY <3>1
    <2>6. QED
      BY <2>1, <2>2, <2>3, <2>4, <2>5 DEF Kinds
  <1>2. ASSUME NEW m \in Leftovers(k)  PROVE m[3] # 0
    <2>1. PICK r \in 1..OldRuns : m[3] = -r
      BY DEF Leftovers, Copy
    <2>2. QED
      BY <2>1, Constants
  <1>3. QED
    BY <1>1, <1>2

\* Without losses the messages known are those sent and those left before.
LEMMA KnownFacts ==
    ASSUME TypeOK, losses = 0
    PROVE  /\ Known = Sent \cup old /\ IsFiniteSet(Known)
           /\ sent < Len(Messages(kind)) => Messages(kind)[sent + 1] \notin Known
           /\ old = {} => Known \subseteq Range(Messages(kind))
           /\ old = {} /\ sent = Len(Messages(kind)) => Known = Range(Messages(kind))
  <1>1. /\ kind \in Kinds /\ sent \in 0..Len(Messages(kind)) /\ IsFiniteSet(old)
        /\ old \subseteq Leftovers(kind)
    BY DEF TypeOK
  <1>2. Known = Sent \cup old
    <2>1. 1..losses = {}
      OBVIOUS
    <2>2. QED
      BY <2>1 DEF Known
  <1>3. IsFiniteSet(Known)
    BY <1>1, <1>2, SentFacts, FS_Union
  <1>4. ASSUME sent < Len(Messages(kind))  PROVE Messages(kind)[sent + 1] \notin Known
    <2>1. Messages(kind)[sent + 1] \in Range(Messages(kind))
      <3>1. sent + 1 \in DOMAIN Messages(kind)
        BY <1>1, <1>4, MessagesFacts
      <3>2. QED
        BY <3>1 DEF Range
    <2>2. Messages(kind)[sent + 1] \notin old
      BY <1>1, <2>1, Tags
    <2>3. QED
      BY <1>1, <1>2, <1>4, <2>2, SentFacts
  <1>5. QED
    BY <1>1, <1>2, <1>3, <1>4, SentFacts

\* Sets of known messages are finite, and grow with their number of elements.
LEMMA KnownGrows ==
    ASSUME TypeOK, losses = 0, NEW T \in SUBSET Known, NEW S \in SUBSET T
    PROVE  /\ IsFiniteSet(S) /\ IsFiniteSet(T)
           /\ Cardinality(S) \in Nat /\ Cardinality(T) \in Nat
           /\ Cardinality(S) <= Cardinality(T)
  <1>1. IsFiniteSet(T)
    BY KnownFacts, FS_Subset
  <1>2. IsFiniteSet(S) /\ Cardinality(S) <= Cardinality(T)
    BY <1>1, FS_Subset
  <1>3. QED
    BY <1>1, <1>2, FS_CardinalityType

\* On queues that were empty, enough of them are all of them.
LEMMA OwnHandled ==
    ASSUME TypeOK, losses = 0, old = {}, kind # "confirms", EnoughHandled
    PROVE  processed = Range(Messages(kind))
  <1>1. processed \subseteq Range(Messages(kind)) /\ kind \in Kinds
    BY KnownFacts DEF TypeOK
  <1>2. CASE kind = "multiple"
    <2>1. Range(Messages(kind)) = Emails \cup {<<"sms", 1, 0>>}
      BY <1>2, Lengths
    <2>2. /\ Cardinality(ProcessedOf("emails")) >= EmailJobs
          /\ Cardinality(ProcessedOf("sms")) >= 1
      BY <1>2 DEF EnoughHandled
    <2>3. ProcessedOf("emails") \subseteq Emails
      BY <1>1, <2>1 DEF ProcessedOf
    <2>4. ProcessedOf("emails") = Emails
      <3>1. /\ IsFiniteSet(ProcessedOf("emails"))
            /\ Cardinality(ProcessedOf("emails")) <= EmailJobs
        BY <2>3, EmailsCount, FS_Subset
      <3>2. Cardinality(ProcessedOf("emails")) = EmailJobs
        BY <2>2, <3>1, FS_CardinalityType, Constants
      <3>3. QED
        BY <2>3, <3>2, EmailsCount, FS_Subset
    <2>5. ProcessedOf("sms") # {}
      <3>1. Cardinality({}) = 0
        BY FS_EmptySet
      <3>2. QED
        BY <2>2, <3>1
    <2>6. PICK m \in processed : m[1] = "sms"
      BY <2>5 DEF ProcessedOf
    <2>7. m \notin Emails
      BY <2>6 DEF Emails
    <2>8. <<"sms", 1, 0>> \in processed
      BY <1>1, <2>1, <2>6, <2>7
    <2>9. QED
      BY <1>1, <2>1, <2>4, <2>8 DEF ProcessedOf
  <1>3. CASE kind # "multiple"
    <2>1. Cardinality(processed) >= Len(Messages(kind))
      BY <1>3 DEF EnoughHandled
    <2>2. /\ IsFiniteSet(Range(Messages(kind)))
          /\ Cardinality(Range(Messages(kind))) = Len(Messages(kind))
      BY <1>1, MessagesCount
    <2>3. IsFiniteSet(processed) /\ Cardinality(processed) <= Cardinality(Range(Messages(kind)))
      BY <1>1, <2>2, FS_Subset
    <2>4. Cardinality(processed) = Cardinality(Range(Messages(kind)))
      BY <1>1, <2>1, <2>2, <2>3, FS_CardinalityType, MessagesFacts
    <2>5. QED
      BY <1>1, <2>2, <2>4, FS_Subset
  <1>4. QED
    BY <1>2, <1>3

(***************************************************************************)
(* The invariant: initially.                                               *)
(***************************************************************************)
LEMMA InitInv == Init => ExamplesInv
  <1> SUFFICES ASSUME Init  PROVE ExamplesInv
    OBVIOUS
  <1>1. kind \in Kinds /\ Len(Messages(kind)) \in Nat /\ Sent = {} /\ old \subseteq Known
    <2>1. kind \in Kinds /\ sent = 0
      BY DEF Init
    <2>2. Len(Messages(kind)) \in Nat
      BY <2>1, MessagesFacts
    <2>3. QED
      BY <2>1, <2>2 DEF Sent, Known
  <1>2. TypeOK
    <2>1. /\ interrupted \in BOOLEAN /\ done \in BOOLEAN /\ hung \in BOOLEAN
          /\ link \in [Workers(kind) -> BOOLEAN]
      BY DEF Init
    <2>2. QED
      BY <1>1, <2>1, Constants DEF Init, TypeOK, Labels, DoneCap
  <1>3. DoneIsTrue /\ DeliveredOnce
    BY DEF Init, DoneIsTrue, DeliveredOnce
  <1>4. Counted
    <2>1. Sleeping = {} /\ ProcessedOf("emails") = {} /\ ProcessedOf("sms") = {}
      BY DEF Init, Sleeping, ProcessedOf
    <2>2. Cardinality({}) = 0
      BY FS_EmptySet
    <2>3. QED
      BY <2>1, <2>2 DEF Init, Counted
  <1>5. Seen
    BY <1>1 DEF Init, Seen
  <1>6. QED
    BY <1>2, <1>3, <1>4, <1>5 DEF ExamplesInv

(***************************************************************************)
(* A worker's step from one label to another.                              *)
(***************************************************************************)
\* A program with workers is not publisher-confirms.
LEMMA HasWorkers ==
    ASSUME NEW w \in Workers(kind)
    PROVE  kind # "confirms"
  BY DEF Workers

\* What is known depends on the program, what it sent and what was lost.
LEMMA SameKnown ==
    ASSUME kind' = kind, old' = old
    PROVE  /\ Workers(kind)' = Workers(kind) /\ Messages(kind)' = Messages(kind)
           /\ Leftovers(kind)' = Leftovers(kind)
           /\ Range(Messages(kind))' = Range(Messages(kind))
           /\ sent' = sent => Sent' = Sent
           /\ sent' = sent /\ losses' = losses => Known' = Known
  <1>1. Workers(kind)' = Workers(kind)
    BY DEF Workers
  <1>2. Messages(kind)' = Messages(kind)
    BY DEF Messages
  <1>3. Range(Messages(kind))' = Range(Messages(kind))
    BY <1>2 DEF Range
  <1>4. Leftovers(kind)' = Leftovers(kind)
    BY <1>3 DEF Leftovers, Parallel, Copy
  <1>5. sent' = sent => Sent' = Sent
    BY <1>2 DEF Sent
  <1>6. sent' = sent /\ losses' = losses => Known' = Known
    BY <1>3, <1>5 DEF Known, Copy
  <1>7. QED
    BY <1>1, <1>2, <1>3, <1>4, <1>5, <1>6

\* What main reported stays true while handlers go on.
LEMMA DoneStays ==
    ASSUME TypeOK, DoneIsTrue, kind # "confirms", kind' = kind, old' = old, done' = done,
           sent' = sent, losses = losses' \/ losses' > 0,
           processed \subseteq processed', losses' = losses => processed' \subseteq Known
    PROVE  DoneIsTrue'
  <1>1. Range(Messages(kind))' = Range(Messages(kind)) /\ Messages(kind)' = Messages(kind)
    BY SameKnown
  <1>2. ASSUME done', losses' = 0
        PROVE  EnoughHandled' /\ (old = {} => processed' = Range(Messages(kind)))
    <2>1. /\ EnoughHandled /\ (old = {} => processed = Range(Messages(kind)))
          /\ losses = 0 /\ processed' \subseteq Known
      BY <1>2 DEF DoneIsTrue
    <2>2. ASSUME NEW q
          PROVE  /\ Cardinality(ProcessedOf(q)) <= Cardinality(ProcessedOf(q)')
                 /\ Cardinality(ProcessedOf(q)) \in Nat /\ Cardinality(ProcessedOf(q)') \in Nat
      <3>1. ProcessedOf(q) \subseteq ProcessedOf(q)' /\ ProcessedOf(q)' \subseteq Known
        BY <2>1 DEF ProcessedOf
      <3>2. QED
        BY <2>1, <3>1, KnownGrows
    <2>3. /\ Cardinality(processed) <= Cardinality(processed')
          /\ Cardinality(processed) \in Nat /\ Cardinality(processed') \in Nat
      BY <2>1, KnownGrows
    <2>4. Len(Messages(kind)) \in Nat
      BY MessagesFacts DEF TypeOK
    <2>5. EnoughHandled'
      BY <1>1, <2>1, <2>2, <2>3, <2>4, Constants DEF EnoughHandled
    <2>6. QED
      BY <2>1, <2>5, KnownFacts
  <1>3. QED
    BY <1>1, <1>2 DEF DoneIsTrue

LEMMA StepFacts ==
    ASSUME ExamplesInv, NEW w \in Workers(kind),
           NEW from \in Labels \ {"idle"}, NEW to \in Labels \ {"idle"},
           Step(w, from, to), kind' = kind, old' = old, interrupted' = interrupted,
           processed' \in {processed, processed \cup {job[w]}},
           a' \in Nat, b' \in Nat, ch' \in 0..(IF kind = "retry" THEN DoneCap ELSE 1),
           to \in {"send", "reject"} => kind = "retry",
           to \in {"emailsDone", "smsDone", "select", "close"} => kind = "multiple",
           to = "sleep" => kind = "graceful",
           to \in Fresh => from \in Fresh /\ processed' = processed
    PROVE  TypeOK' /\ DoneIsTrue' /\ DeliveredOnce'
  <1>1. /\ TypeOK /\ DoneIsTrue /\ DeliveredOnce /\ kind # "confirms"
        /\ pc' = [pc EXCEPT ![w] = to] /\ pc[w] = from
        /\ job' = job /\ ready' = ready /\ link' = link /\ losses' = losses
        /\ mpc' = mpc /\ sent' = sent /\ got' = got /\ par' = par /\ done' = done
        /\ hung' = hung /\ closed' = closed /\ called' = called
    BY HasWorkers DEF ExamplesInv, Step, mainVars, pubVars, shutVars
  <1>2. /\ Workers(kind)' = Workers(kind) /\ Messages(kind)' = Messages(kind)
        /\ Leftovers(kind)' = Leftovers(kind) /\ Known' = Known
    BY <1>1, SameKnown
  <1>3. pc \in [Workers(kind) -> Labels] /\ job[w] \in Known /\ processed \subseteq Known
    BY <1>1 DEF TypeOK
  <1>4. /\ pc'[w] = to /\ \A v \in Workers(kind) : v # w => pc'[v] = pc[v]
        /\ pc' \in [Workers(kind) -> Labels] /\ pc[w] # "idle" /\ to # "idle"
    BY <1>1, <1>3
  <1>5. processed \subseteq processed' /\ processed' \subseteq Known
    BY <1>3
  <1>6. TypeOK'
    <2>1. /\ done' \in BOOLEAN /\ interrupted' \in BOOLEAN /\ hung' \in BOOLEAN
          /\ link' \in [Workers(kind) -> BOOLEAN]
      BY <1>1 DEF TypeOK
    <2>2. \A v \in Workers(kind) :
             /\ IF pc'[v] = "idle" THEN ~link[v] ELSE job[v] \in Known /\ job[v][1] = v[1]
             /\ pc'[v] \in {"send", "reject"} => kind = "retry"
             /\ pc'[v] \in {"emailsDone", "smsDone", "select", "close"} => kind = "multiple"
             /\ pc'[v] = "sleep" => kind = "graceful"
      BY <1>1, <1>4 DEF TypeOK
    <2>3. QED
      BY <1>1, <1>2, <1>4, <1>5, <2>1, <2>2 DEF TypeOK
  <1>7. DoneIsTrue'
    BY <1>1, <1>5, DoneStays
  <1>8. DeliveredOnce'
    <2> SUFFICES ASSUME Steady  PROVE DeliveredOnce'
      BY <1>1 DEF DeliveredOnce, Steady
    <2>1. \A v, u \in Workers(kind) :
             pc[v] # "idle" /\ pc[u] # "idle" /\ job[v] = job[u] => v = u
      BY <1>1 DEF DeliveredOnce
    <2>2. \A v \in Workers(kind) : pc[v] \in Fresh => job[v] \notin processed
      BY <1>1 DEF DeliveredOnce, Fresh
    <2>3. ASSUME NEW v \in Workers(kind), pc'[v] \in Fresh  PROVE job[v] \notin processed'
      <3>1. CASE v = w
        BY <1>1, <1>4, <2>2, <2>3, <3>1
      <3>2. CASE v # w
        <4>1. pc[v] \in Fresh /\ pc[v] # "idle"
          BY <1>4, <2>3, <3>2 DEF Fresh
        <4>2. QED
          BY <1>4, <2>1, <2>2, <3>2, <4>1
      <3>3. QED
        BY <3>1, <3>2
    <2>4. \A v, u \in Workers(kind) :
             pc'[v] # "idle" /\ pc'[u] # "idle" /\ job[v] = job[u] => v = u
      BY <1>4, <2>1
    <2>5. /\ ready \cap processed = {}
          /\ \A v \in Workers(kind) : pc[v] # "idle" => job[v] \notin ready
      BY <1>1 DEF DeliveredOnce
    <2>6. ready \cap processed' = {}
      BY <1>4, <2>5
    <2>7. \A v \in Workers(kind) : pc'[v] # "idle" => job[v] \notin ready
      BY <1>4, <2>5
    <2>8. QED
      BY <1>1, <1>2, <2>3, <2>4, <2>6, <2>7 DEF DeliveredOnce, Fresh
  <1>9. QED
    BY <1>6, <1>7, <1>8

\* What was seen stays so: the counters only grow, and so does what was started.
LEMMA StepSeen ==
    ASSUME ExamplesInv, NEW w \in Workers(kind),
           NEW from \in Labels \ {"idle"}, NEW to \in Labels \ {"idle"},
           Step(w, from, to), kind' = kind, old' = old,
           processed' \in {processed, processed \cup {job[w]}},
           a' \in Nat, b' \in Nat, a' >= a, b' >= b,
           from = "sleep" => job[w] \in processed',
           to \in {"emailsDone", "smsDone", "select", "close"} => job[w] \in processed',
           to \in {"smsDone", "select", "close"} => a' >= EmailJobs,
           to \in {"select", "close"} => b' >= 1,
           kind = "multiple" /\ ch' > 0 /\ ch' # ch => a' >= EmailJobs /\ b' >= 1
    PROVE  Seen'
  <1>1. /\ TypeOK /\ Seen /\ kind # "confirms"
        /\ Workers(kind)' = Workers(kind) /\ Messages(kind)' = Messages(kind)
        /\ pc' = [pc EXCEPT ![w] = to] /\ pc[w] = from
        /\ job' = job /\ losses' = losses /\ mpc' = mpc /\ sent' = sent
        /\ closed' = closed /\ called' = called
    BY HasWorkers, SameKnown DEF ExamplesInv, Step, mainVars, pubVars, shutVars
  <1>2. /\ pc \in [Workers(kind) -> Labels] /\ a \in Nat /\ b \in Nat /\ called \in Nat
        /\ processed \subseteq Known /\ job[w] \in Known
        /\ \A v \in Workers(kind) : pc[v] # "idle" => job[v] \in Known
    BY <1>1 DEF TypeOK
  <1>3. /\ pc'[w] = to /\ \A v \in Workers(kind) : v # w => pc'[v] = pc[v]
        /\ DOMAIN pc = Workers(kind) /\ DOMAIN pc' = Workers(kind)
    BY <1>1, <1>2
  <1>4. processed \subseteq processed' /\ processed' \subseteq Known
    BY <1>2
  <1>5. StartedJobs \subseteq StartedJobs' /\ StartedJobs' \subseteq Known
    <2>1. \A v \in Sleeping : v \in Sleeping' \/ job[v] \in processed'
      BY <1>1, <1>3 DEF Sleeping
    <2>2. StartedJobs' = processed' \cup {job[v] : v \in Sleeping'}
      BY <1>1 DEF StartedJobs
    <2>3. \A v \in Sleeping' : job[v] \in Known
      BY <1>1, <1>2, <1>3 DEF Sleeping
    <2>4. QED
      BY <1>4, <2>1, <2>2, <2>3 DEF StartedJobs
  <1>6. ASSUME losses = 0
        PROVE  /\ mpc \in {"shutdown", "closing"} => Cardinality(StartedJobs') >= SlowJobs
               /\ mpc = "drained" => Cardinality(processed') >= SlowJobs
    <2>1. /\ Cardinality(StartedJobs) \in Nat /\ Cardinality(StartedJobs') \in Nat
          /\ Cardinality(StartedJobs) <= Cardinality(StartedJobs')
      BY <1>1, <1>5, <1>6, KnownGrows
    <2>2. /\ Cardinality(processed) \in Nat /\ Cardinality(processed') \in Nat
          /\ Cardinality(processed) <= Cardinality(processed')
      BY <1>1, <1>4, <1>6, KnownGrows
    <2>3. /\ mpc \in {"shutdown", "closing"} => Cardinality(StartedJobs) >= SlowJobs
          /\ mpc = "drained" => Cardinality(processed) >= SlowJobs
      BY <1>1, <1>6 DEF Seen
    <2>4. QED
      BY <2>1, <2>2, <2>3, Constants
  <1>7. \A v \in Workers(kind) :
           /\ pc'[v] \in {"emailsDone", "smsDone", "select", "close"} => job[v] \in processed'
           /\ pc'[v] \in {"smsDone", "select", "close"} => a' >= EmailJobs
           /\ pc'[v] \in {"select", "close"} => b' >= 1
    BY <1>1, <1>2, <1>3, <1>4, Constants DEF Seen
  <1>8. kind = "multiple" /\ ch' > 0 => a' >= EmailJobs /\ b' >= 1
    BY <1>1, <1>2, Constants DEF Seen
  <1>9. (mpc = "closing" => a' >= called) /\ (mpc = "drained" => b' >= called)
    BY <1>1, <1>2 DEF Seen
  <1>10. QED
    BY <1>1, <1>6, <1>7, <1>8, <1>9 DEF Seen

(***************************************************************************)
(* What the counters count.                                                *)
(***************************************************************************)
LEMMA ProcessedFinite ==
    ASSUME TypeOK, losses = 0
    PROVE  IsFiniteSet(processed) /\ Cardinality(processed) \in Nat
  <1>1. processed \subseteq Known
    BY DEF TypeOK
  <1>2. QED
    BY <1>1, KnownGrows

LEMMA SleepingFinite ==
    ASSUME TypeOK, kind = "graceful"
    PROVE  IsFiniteSet(Sleeping) /\ Cardinality(Sleeping) \in Nat
  <1>1. Sleeping \subseteq {"shutdown"} \X (1..SlowWorkers)
    <2>1. DOMAIN pc = Workers(kind)
      BY DEF TypeOK
    <2>2. Workers(kind) = {"shutdown"} \X (1..SlowWorkers)
      BY DEF Workers
    <2>3. QED
      BY <2>1, <2>2 DEF Sleeping
  <1>2. IsFiniteSet({"shutdown"}) /\ IsFiniteSet(1..SlowWorkers)
    <2>1. IsFiniteSet({"shutdown"})
      BY FS_Singleton
    <2>2. SlowWorkers \in Int /\ 1 \in Int
      BY Constants
    <2>3. IsFiniteSet(1..SlowWorkers)
      BY <2>2, FS_Interval
    <2>4. QED
      BY <2>1, <2>3
  <1>3. IsFiniteSet({"shutdown"} \X (1..SlowWorkers))
    BY <1>2, FS_Product
  <1>4. QED
    BY <1>1, <1>3, FS_Subset, FS_CardinalityType

\* Nothing that is counted changes.
LEMMA CountedSame ==
    ASSUME Counted, kind' = kind, processed' = processed, got' = got,
           losses' = losses \/ losses' # 0, closed' = closed \/ closed' # {},
           kind # "retry" => a' = a, b' = b, got' + ch' = got + ch,
           ch' > 0 => ch > 0, Sleeping' = Sleeping
    PROVE  Counted'
  <1>1. ProcessedOf("emails")' = ProcessedOf("emails") /\ ProcessedOf("sms")' = ProcessedOf("sms")
    BY DEF ProcessedOf
  <1>2. Steady' => Steady
    BY DEF Steady
  <1>3. QED
    BY <1>1, <1>2 DEF Counted

LEMMA SleepingSame ==
    ASSUME TypeOK, NEW w \in Workers(kind), NEW from, NEW to, from # "sleep", to # "sleep",
           Step(w, from, to)
    PROVE  Sleeping' = Sleeping
  <1>1. /\ DOMAIN pc = Workers(kind) /\ pc[w] = from /\ pc' = [pc EXCEPT ![w] = to]
    BY DEF TypeOK, Step
  <1>2. /\ DOMAIN pc' = Workers(kind) /\ pc'[w] = to
        /\ \A v \in Workers(kind) : v # w => pc'[v] = pc[v]
    BY <1>1
  <1>3. QED
    BY <1>1, <1>2 DEF Sleeping

LEMMA BeginInv ==
    ASSUME ExamplesInv, NEW w \in Workers(kind), Begin(w), kind' = kind, old' = old,
           interrupted' = interrupted
    PROVE  ExamplesInv'
  <1>1. /\ TypeOK /\ Counted /\ Seen /\ Step(w, "received", "handler")
        /\ processed' = processed /\ a' = a /\ b' = b /\ ch' = ch
    BY DEF ExamplesInv, Begin, goVars
  <1>2. /\ a \in Nat /\ b \in Nat /\ ch \in 0..(IF kind = "retry" THEN DoneCap ELSE 1)
        /\ got' = got /\ losses' = losses /\ closed' = closed
    BY <1>1 DEF TypeOK, Step, mainVars, shutVars
  <1>3. TypeOK' /\ DoneIsTrue' /\ DeliveredOnce'
    BY <1>1, <1>2, StepFacts DEF Labels, Fresh
  <1>4. Counted'
    BY <1>1, <1>2, SleepingSame, CountedSame
  <1>5. Seen'
    BY <1>1, <1>2, StepSeen DEF Labels
  <1>6. QED
    BY <1>3, <1>4, <1>5 DEF ExamplesInv

LEMMA HandleRetryInv ==
    ASSUME ExamplesInv, NEW w \in Workers(kind), HandleRetry(w), kind' = kind, old' = old,
           interrupted' = interrupted
    PROVE  ExamplesInv'
  <1>1. /\ TypeOK /\ Counted /\ Seen /\ kind = "retry"
        /\ processed' = processed /\ a' \in {a, a + 1} /\ b' = b /\ ch' = ch
    BY DEF ExamplesInv, HandleRetry
  <1>2. PICK to \in {"send", "reject"} : Step(w, "handler", to)
    BY DEF HandleRetry
  <1>3. /\ a \in Nat /\ b \in Nat /\ ch \in 0..(IF kind = "retry" THEN DoneCap ELSE 1)
        /\ got' = got /\ losses' = losses /\ closed' = closed
    BY <1>1, <1>2 DEF TypeOK, Step, mainVars, shutVars
  <1>4. TypeOK' /\ DoneIsTrue' /\ DeliveredOnce'
    BY <1>1, <1>2, <1>3, StepFacts DEF Labels, Fresh
  <1>5. Counted'
    BY <1>1, <1>2, <1>3, SleepingSame, CountedSame
  <1>6. Seen'
    BY <1>1, <1>2, <1>3, StepSeen DEF Labels
  <1>7. QED
    BY <1>4, <1>5, <1>6 DEF ExamplesInv

LEMMA SendInv ==
    ASSUME ExamplesInv, NEW w \in Workers(kind), Send(w), kind' = kind, old' = old,
           interrupted' = interrupted
    PROVE  ExamplesInv'
  <1>1. /\ TypeOK /\ DeliveredOnce /\ Counted /\ Seen /\ Step(w, "send", "ack") /\ ch < DoneCap
        /\ processed' = processed \cup {job[w]} /\ a' = a /\ b' = b /\ ch' = ch + 1
    BY DEF ExamplesInv, Send, Processed
  <1>2. /\ a \in Nat /\ b \in Nat /\ got \in Nat /\ pc[w] = "send" /\ kind = "retry"
        /\ got' = got /\ losses' = losses /\ closed' = closed
    BY <1>1 DEF TypeOK, Step, mainVars, shutVars, DoneCap
  <1>3. ch \in Nat /\ ch' \in 0..(IF kind = "retry" THEN DoneCap ELSE 1)
    BY <1>1, <1>2 DEF TypeOK, DoneCap
  <1>4. TypeOK' /\ DoneIsTrue' /\ DeliveredOnce'
    BY <1>1, <1>2, <1>3, StepFacts DEF Labels, Fresh
  <1>5. ASSUME Steady  PROVE got' + ch' = Cardinality(processed')
    <2>1. got + ch = Cardinality(processed) /\ job[w] \notin processed
      BY <1>1, <1>2, <1>5 DEF Counted, DeliveredOnce
    <2>2. Cardinality(processed') = Cardinality(processed) + 1
      BY <1>1, <1>5, <2>1, ProcessedFinite, FS_AddElement DEF Steady
    <2>3. QED
      BY <1>1, <1>2, <1>3, <2>1, <2>2
  <1>6. Counted'
    BY <1>2, <1>5 DEF Counted, Steady
  <1>7. Seen'
    BY <1>1, <1>2, StepSeen DEF Labels
  <1>8. QED
    BY <1>4, <1>6, <1>7 DEF ExamplesInv

LEMMA CountEmailOrSmsInv ==
    ASSUME ExamplesInv, NEW w \in Workers(kind), CountEmailOrSms(w), kind' = kind, old' = old,
           interrupted' = interrupted
    PROVE  ExamplesInv'
  <1>1. /\ TypeOK /\ DeliveredOnce /\ Counted /\ Seen /\ Step(w, "handler", "emailsDone")
        /\ processed' = processed \cup {job[w]} /\ ch' = ch /\ kind = "multiple"
        /\ a' = (IF w[1] = "emails" THEN a + 1 ELSE a)
        /\ b' = (IF w[1] = "sms" THEN b + 1 ELSE b)
    BY DEF ExamplesInv, CountEmailOrSms, Processed
  <1>2. /\ a \in Nat /\ b \in Nat /\ pc[w] = "handler" /\ losses' = losses /\ closed' = closed
        /\ ch \in 0..(IF kind = "retry" THEN DoneCap ELSE 1) /\ job[w][1] = w[1]
    BY <1>1 DEF TypeOK, Step, mainVars, shutVars
  <1>3. a' \in Nat /\ b' \in Nat /\ a' >= a /\ b' >= b
    BY <1>1, <1>2
  <1>4. TypeOK' /\ DoneIsTrue' /\ DeliveredOnce'
    BY <1>1, <1>2, <1>3, StepFacts DEF Labels, Fresh
  <1>5. ASSUME Steady, NEW q
        PROVE  Cardinality(ProcessedOf(q)') =
                  IF w[1] = q THEN Cardinality(ProcessedOf(q)) + 1 ELSE Cardinality(ProcessedOf(q))
    <2>1. job[w] \notin processed /\ job[w] \notin ProcessedOf(q)
      BY <1>1, <1>2, <1>5 DEF DeliveredOnce, ProcessedOf
    <2>2. IsFiniteSet(ProcessedOf(q))
      <3>1. ProcessedOf(q) \subseteq processed
        BY DEF ProcessedOf
      <3>2. QED
        BY <1>1, <1>5, <3>1, ProcessedFinite, FS_Subset DEF Steady
    <2>3. ProcessedOf(q)' = IF w[1] = q THEN ProcessedOf(q) \cup {job[w]} ELSE ProcessedOf(q)
      BY <1>1, <1>2 DEF ProcessedOf
    <2>4. QED
      BY <2>1, <2>2, <2>3, FS_AddElement
  <1>6. Counted'
    <2>1. ASSUME Steady
          PROVE  a' = Cardinality(ProcessedOf("emails")') /\ b' = Cardinality(ProcessedOf("sms")')
      <3>1. a = Cardinality(ProcessedOf("emails")) /\ b = Cardinality(ProcessedOf("sms"))
        BY <1>1, <2>1 DEF Counted
      <3>2. QED
        BY <1>1, <1>5, <2>1, <3>1
    <2>2. QED
      BY <1>1, <1>2, <2>1 DEF Counted, Steady
  <1>7. Seen'
    BY <1>1, <1>2, <1>3, StepSeen DEF Labels
  <1>8. QED
    BY <1>4, <1>6, <1>7 DEF ExamplesInv

LEMMA MarkInv ==
    ASSUME ExamplesInv, NEW w \in Workers(kind), Mark(w), kind' = kind, old' = old,
           interrupted' = interrupted
    PROVE  ExamplesInv'
  <1>1. /\ TypeOK /\ Counted /\ Seen
        /\ processed' = processed /\ a' = a /\ b' = b /\ ch' = ch
    BY DEF ExamplesInv, Mark, goVars
  <1>2. PICK from \in {"emailsDone", "smsDone", "select"}, to \in {"smsDone", "select", "close", "ack"} :
           /\ Step(w, from, to)
           /\ to = "smsDone" => AllEmails
           /\ to = "select" => from = "smsDone" /\ b = 1
           /\ to = "close" => from = "select"
    BY DEF Mark
  <1>3. /\ a \in Nat /\ b \in Nat /\ ch \in 0..(IF kind = "retry" THEN DoneCap ELSE 1)
        /\ pc[w] = from /\ kind = "multiple" /\ got' = got /\ losses' = losses /\ closed' = closed
    BY <1>1, <1>2 DEF TypeOK, Step, mainVars, shutVars
  <1>4. TypeOK' /\ DoneIsTrue' /\ DeliveredOnce'
    BY <1>1, <1>2, <1>3, StepFacts DEF Labels, Fresh
  <1>5. Counted'
    BY <1>1, <1>2, <1>3, SleepingSame, CountedSame
  <1>6. /\ to \in {"smsDone", "select", "close"} => a >= EmailJobs
        /\ to \in {"select", "close"} => b >= 1
        /\ job[w] \in processed
    BY <1>1, <1>2, <1>3, Constants DEF Seen, AllEmails
  <1>7. Seen'
    BY <1>1, <1>2, <1>3, <1>6, StepSeen DEF Labels
  <1>8. QED
    BY <1>4, <1>5, <1>7 DEF ExamplesInv

LEMMA CloseInv ==
    ASSUME ExamplesInv, NEW w \in Workers(kind), Close(w), kind' = kind, old' = old,
           interrupted' = interrupted
    PROVE  ExamplesInv'
  <1>1. /\ TypeOK /\ Counted /\ Seen
        /\ processed' = processed \cup {job[w]} /\ a' = a /\ b' = b /\ ch' = 1
    BY DEF ExamplesInv, Close, Processed
  <1>2. PICK from \in {"close", "handler"}, to \in {"ack", "panic"} :
           Step(w, from, to) /\ (from = "handler" => kind = "basic")
    BY DEF Close
  <1>3. /\ a \in Nat /\ b \in Nat /\ pc[w] = from /\ got' = got /\ losses' = losses
        /\ closed' = closed
        /\ from = "close" => kind = "multiple"
    BY <1>1, <1>2 DEF TypeOK, Step, mainVars, shutVars
  <1>4. ch' \in 0..(IF kind = "retry" THEN DoneCap ELSE 1)
    BY <1>1 DEF DoneCap
  <1>5. TypeOK' /\ DoneIsTrue' /\ DeliveredOnce'
    BY <1>1, <1>2, <1>3, <1>4, StepFacts DEF Labels, Fresh
  <1>6. CASE from = "close"
    <2>1. processed' = processed
      BY <1>1, <1>3, <1>6 DEF Seen
    <2>2. Counted'
      <3>1. ProcessedOf("emails")' = ProcessedOf("emails") /\ ProcessedOf("sms")' = ProcessedOf("sms")
        BY <2>1 DEF ProcessedOf
      <3>2. QED
        BY <1>1, <1>3, <1>6, <3>1 DEF Counted, Steady
    <2>3. a >= EmailJobs /\ b >= 1
      BY <1>1, <1>3, <1>6 DEF Seen
    <2>4. Seen'
      BY <1>1, <1>2, <1>3, <2>1, <2>3, StepSeen DEF Labels
    <2>5. QED
      BY <1>5, <2>2, <2>4 DEF ExamplesInv
  <1>7. CASE from = "handler"
    <2>1. Counted'
      BY <1>1, <1>2, <1>7 DEF Counted, Steady
    <2>2. Seen'
      BY <1>1, <1>2, <1>3, <1>7, StepSeen DEF Labels
    <2>3. QED
      BY <1>5, <2>1, <2>2 DEF ExamplesInv
  <1>8. QED
    BY <1>6, <1>7

LEMMA SlowInv ==
    ASSUME ExamplesInv, NEW w \in Workers(kind), Slow(w), kind' = kind, old' = old,
           interrupted' = interrupted
    PROVE  ExamplesInv'
  <1>1. /\ TypeOK /\ DeliveredOnce /\ Counted /\ Seen /\ kind = "graceful" /\ ch' = ch
        /\ kind' = "graceful"
    BY DEF ExamplesInv, Slow
  <1>2. /\ a \in Nat /\ b \in Nat /\ ch \in 0..(IF kind = "retry" THEN DoneCap ELSE 1)
        /\ DOMAIN pc = Workers(kind)
    BY <1>1 DEF TypeOK
  <1>3. IsFiniteSet(Sleeping) /\ Cardinality(Sleeping) \in Nat /\ a = b + Cardinality(Sleeping)
    BY <1>1, SleepingFinite DEF Counted
  <1>4. CASE Step(w, "handler", "sleep") /\ a' = a + 1 /\ b' = b /\ processed' = processed
    <2>1. /\ pc[w] = "handler" /\ pc' = [pc EXCEPT ![w] = "sleep"] /\ losses' = losses
          /\ closed' = closed
      BY <1>4 DEF Step, mainVars, shutVars
    <2>2. TypeOK' /\ DoneIsTrue' /\ DeliveredOnce'
      BY <1>1, <1>2, <1>4, StepFacts DEF Labels, Fresh
    <2>3. Sleeping' = Sleeping \cup {w} /\ w \notin Sleeping
      BY <1>2, <2>1 DEF Sleeping
    <2>4. Cardinality(Sleeping') = Cardinality(Sleeping) + 1
      BY <1>3, <2>3, FS_AddElement
    <2>5. Counted'
      BY <1>1, <1>2, <1>3, <1>4, <2>1, <2>4 DEF Counted, Steady
    <2>6. Seen'
      BY <1>1, <1>2, <1>4, StepSeen DEF Labels
    <2>7. QED
      BY <2>2, <2>5, <2>6 DEF ExamplesInv
  <1>5. CASE Step(w, "sleep", "ack") /\ a' = a /\ b' = b + 1 /\ processed' = processed \cup {job[w]}
    <2>1. /\ pc[w] = "sleep" /\ pc' = [pc EXCEPT ![w] = "ack"] /\ losses' = losses
          /\ closed' = closed
      BY <1>5 DEF Step, mainVars, shutVars
    <2>2. TypeOK' /\ DoneIsTrue' /\ DeliveredOnce'
      BY <1>1, <1>2, <1>5, StepFacts DEF Labels, Fresh
    <2>3. Sleeping' = Sleeping \ {w} /\ w \in Sleeping
      BY <1>2, <2>1 DEF Sleeping
    <2>4. Cardinality(Sleeping') = Cardinality(Sleeping) - 1
      BY <1>3, <2>3, FS_RemoveElement
    <2>5. ASSUME Steady  PROVE b' = Cardinality(processed')
      <3>1. b = Cardinality(processed) /\ job[w] \notin processed
        BY <1>1, <2>1, <2>5 DEF Counted, DeliveredOnce
      <3>2. QED
        BY <1>1, <1>5, <2>5, <3>1, ProcessedFinite, FS_AddElement DEF Steady
    <2>6. Counted'
      <3>1. a' = b' + Cardinality(Sleeping')
        BY <1>2, <1>3, <1>5, <2>4
      <3>2. QED
        BY <1>1, <2>1, <2>5, <3>1 DEF Counted, Steady
    <2>7. Seen'
      BY <1>1, <1>2, <1>5, StepSeen DEF Labels
    <2>8. QED
      BY <2>2, <2>6, <2>7 DEF ExamplesInv
  <1>6. QED
    BY <1>4, <1>5 DEF Slow, Processed

(***************************************************************************)
(* Deliveries, settlements and losses.                                     *)
(***************************************************************************)
LEMMA ReceiveInv ==
    ASSUME ExamplesInv, NEW w \in Workers(kind), Receive(w), kind' = kind, old' = old,
           interrupted' = interrupted
    PROVE  ExamplesInv'
  <1>1. PICK m \in ready : m[1] = w[1] /\ ready' = ready \ {m} /\ job' = [job EXCEPT ![w] = m]
    BY DEF Receive
  <1>2. /\ TypeOK /\ DoneIsTrue /\ DeliveredOnce /\ Counted /\ Seen /\ kind # "confirms"
        /\ pc[w] = "idle" /\ pc' = [pc EXCEPT ![w] = "received"] /\ link' = [link EXCEPT ![w] = TRUE]
        /\ processed' = processed /\ a' = a /\ b' = b /\ ch' = ch /\ losses' = losses
        /\ mpc' = mpc /\ sent' = sent /\ got' = got /\ par' = par /\ done' = done
        /\ hung' = hung /\ closed' = closed /\ called' = called
    BY HasWorkers DEF ExamplesInv, Receive, goVars, mainVars, pubVars, shutVars
  <1>0. /\ Workers(kind)' = Workers(kind) /\ Messages(kind)' = Messages(kind)
        /\ Leftovers(kind)' = Leftovers(kind) /\ Known' = Known
    BY <1>2, SameKnown
  <1>3. /\ pc \in [Workers(kind) -> Labels] /\ job \in [Workers(kind) -> Known \cup {None}]
        /\ link \in [Workers(kind) -> BOOLEAN] /\ m \in Known /\ processed \subseteq Known
    BY <1>2 DEF TypeOK
  <1>4. /\ pc'[w] = "received" /\ \A v \in Workers(kind) : v # w => pc'[v] = pc[v]
        /\ pc' \in [Workers(kind) -> Labels]
        /\ job'[w] = m /\ \A v \in Workers(kind) : v # w => job'[v] = job[v]
        /\ job' \in [Workers(kind) -> Known \cup {None}]
    BY <1>0, <1>1, <1>2, <1>3 DEF Labels
  <1>5. link' \in [Workers(kind) -> BOOLEAN] /\ \A v \in Workers(kind) : v # w => link'[v] = link[v]
    BY <1>0, <1>2, <1>3
  <1>6. TypeOK'
    <2>1. done' \in BOOLEAN /\ interrupted' \in BOOLEAN /\ hung' \in BOOLEAN
      BY <1>2 DEF TypeOK
    <2>2. \A v \in Workers(kind) :
             /\ IF pc'[v] = "idle" THEN ~link'[v] ELSE job'[v] \in Known /\ job'[v][1] = v[1]
             /\ pc'[v] \in {"send", "reject"} => kind = "retry"
             /\ pc'[v] \in {"emailsDone", "smsDone", "select", "close"} => kind = "multiple"
             /\ pc'[v] = "sleep" => kind = "graceful"
      BY <1>0, <1>1, <1>2, <1>3, <1>4, <1>5 DEF TypeOK
    <2>3. QED
      BY <1>0, <1>1, <1>2, <1>3, <1>4, <1>5, <2>1, <2>2 DEF TypeOK
  <1>7. DoneIsTrue'
    BY <1>0, <1>2, <1>3, DoneStays
  <1>8. DeliveredOnce'
    <2>1. ASSUME Steady
          PROVE  /\ m \notin processed /\ ready \cap processed = {}
                 /\ \A v \in Workers(kind) : pc[v] # "idle" => job[v] \notin ready
      BY <1>2, <2>1 DEF DeliveredOnce
    <2>2. QED
      BY <1>0, <1>1, <1>2, <1>4, <2>1 DEF DeliveredOnce, Steady
  <1>9. Counted'
    <2>1. Sleeping' = Sleeping
      BY <1>0, <1>2, <1>3, <1>4 DEF Sleeping
    <2>2. QED
      BY <1>2, <2>1, CountedSame
  <1>10. Seen'
    <2>1. StartedJobs' = StartedJobs
      BY <1>0, <1>2, <1>3, <1>4 DEF StartedJobs, Sleeping
    <2>2. QED
      BY <1>0, <1>2, <1>4, <2>1 DEF Seen
  <1>11. QED
    BY <1>6, <1>7, <1>8, <1>9, <1>10 DEF ExamplesInv

LEMMA SettleInv ==
    ASSUME ExamplesInv, NEW w \in Workers(kind), Settle(w), kind' = kind, old' = old,
           interrupted' = interrupted
    PROVE  ExamplesInv'
  <1>1. /\ TypeOK /\ DoneIsTrue /\ DeliveredOnce /\ Counted /\ Seen /\ kind # "confirms"
        /\ pc[w] \in {"ack", "panic", "reject", "received"} /\ pc' = [pc EXCEPT ![w] = "idle"]
        /\ link' = [link EXCEPT ![w] = FALSE] /\ job' = [job EXCEPT ![w] = None]
        /\ ready' \in {ready, ready \cup {job[w]}} /\ (ready' # ready => pc[w] = "reject")
        /\ processed' = processed /\ a' = a /\ b' = b /\ ch' = ch /\ losses' = losses
        /\ mpc' = mpc /\ sent' = sent /\ got' = got /\ par' = par /\ done' = done
        /\ hung' = hung /\ closed' = closed /\ called' = called
    BY HasWorkers DEF ExamplesInv, Settle, goVars, mainVars, pubVars, shutVars
  <1>0. /\ Workers(kind)' = Workers(kind) /\ Messages(kind)' = Messages(kind)
        /\ Leftovers(kind)' = Leftovers(kind) /\ Known' = Known
    BY <1>1, SameKnown
  <1>2. /\ pc \in [Workers(kind) -> Labels] /\ job \in [Workers(kind) -> Known \cup {None}]
        /\ link \in [Workers(kind) -> BOOLEAN] /\ job[w] \in Known /\ processed \subseteq Known
    BY <1>1 DEF TypeOK
  <1>3. /\ pc'[w] = "idle" /\ \A v \in Workers(kind) : v # w => pc'[v] = pc[v]
        /\ pc' \in [Workers(kind) -> Labels]
        /\ \A v \in Workers(kind) : v # w => job'[v] = job[v]
        /\ job' \in [Workers(kind) -> Known \cup {None}]
    BY <1>1, <1>2 DEF Labels
  <1>4. /\ link' \in [Workers(kind) -> BOOLEAN] /\ ~link'[w]
        /\ \A v \in Workers(kind) : v # w => link'[v] = link[v]
    BY <1>1, <1>2
  <1>5. TypeOK'
    <2>1. done' \in BOOLEAN /\ interrupted' \in BOOLEAN /\ hung' \in BOOLEAN
      BY <1>1 DEF TypeOK
    <2>2. \A v \in Workers(kind) :
             /\ IF pc'[v] = "idle" THEN ~link'[v] ELSE job'[v] \in Known /\ job'[v][1] = v[1]
             /\ pc'[v] \in {"send", "reject"} => kind = "retry"
             /\ pc'[v] \in {"emailsDone", "smsDone", "select", "close"} => kind = "multiple"
             /\ pc'[v] = "sleep" => kind = "graceful"
      BY <1>0, <1>1, <1>3, <1>4 DEF TypeOK
    <2>3. QED
      BY <1>0, <1>1, <1>2, <1>3, <1>4, <2>1, <2>2 DEF TypeOK
  <1>6. DoneIsTrue'
    BY <1>1, <1>2, DoneStays
  <1>7. DeliveredOnce'
    <2>1. ASSUME Steady, ready' # ready
          PROVE  /\ job[w] \notin processed
                 /\ \A v \in Workers(kind) : v # w /\ pc[v] # "idle" => job[v] # job[w]
      BY <1>1, <2>1 DEF DeliveredOnce
    <2>2. QED
      BY <1>0, <1>1, <1>3, <2>1 DEF DeliveredOnce, Steady
  <1>8. Counted'
    <2>1. Sleeping' = Sleeping
      BY <1>0, <1>1, <1>2, <1>3 DEF Sleeping
    <2>2. QED
      BY <1>0, <1>1, <2>1, CountedSame
  <1>9. Seen'
    <2>1. StartedJobs' = StartedJobs
      BY <1>0, <1>1, <1>2, <1>3 DEF StartedJobs, Sleeping
    <2>2. QED
      BY <1>0, <1>1, <1>3, <2>1 DEF Seen
  <1>10. QED
    BY <1>5, <1>6, <1>7, <1>8, <1>9 DEF ExamplesInv

\* A loss makes no message known that was not, but copies.
LEMMA KnownWithLoss ==
    ASSUME TypeOK, kind' = kind, old' = old, sent' = sent, losses' = losses + 1
    PROVE  /\ Known \subseteq Known' /\ losses' > 0
           /\ \A m \in Range(Messages(kind)) : Copy(m, losses + 1) \in Known'
  <1>1. Sent' = Sent /\ Range(Messages(kind))' = Range(Messages(kind))
    BY SameKnown
  <1>2. losses \in Nat /\ 1..losses \subseteq 1..losses' /\ losses + 1 \in 1..losses' /\ losses' > 0
    BY Constants DEF TypeOK
  <1>3. Known' = Sent \cup old \cup {Copy(m, n) : m \in Range(Messages(kind)), n \in 1..losses'}
    BY <1>1 DEF Known, Copy
  <1>4. QED
    BY <1>2, <1>3 DEF Known

\* What the guard of both losses leaves of the bound.
LEMMA BelowBound ==
    ASSUME TypeOK, losses + Cardinality(old) < MaxLosses
    PROVE  losses < MaxLosses
  <1> DEFINE n == Cardinality(old)
  <1>1. n \in Nat
    BY FS_CardinalityType DEF TypeOK
  <1>2. losses \in Nat /\ MaxLosses \in Nat /\ losses + n < MaxLosses
    BY Constants DEF TypeOK
  <1> HIDE DEF n
  <1>3. QED
    BY <1>1, <1>2

LEMMA LoseChannelInv ==
    ASSUME ExamplesInv, NEW w \in DOMAIN link, LoseChannel(w)
    PROVE  ExamplesInv'
  <1>1. w \in Workers(kind)
    BY DEF ExamplesInv, TypeOK
  <1>2. /\ TypeOK /\ DoneIsTrue /\ Counted /\ Seen /\ kind # "confirms" /\ kind' = kind /\ old' = old
        /\ link[w] /\ link' = [link EXCEPT ![w] = FALSE] /\ ready' = ready \cup {job[w]}
        /\ losses < MaxLosses /\ losses' = losses + 1 /\ job' = job /\ pc' = pc
        /\ processed' = processed /\ a' = a /\ b' = b /\ ch' = ch /\ interrupted' = interrupted
        /\ mpc' = mpc /\ sent' = sent /\ got' = got /\ par' = par /\ done' = done
        /\ hung' = hung /\ closed' = closed /\ called' = called
    BY <1>1, HasWorkers, BelowBound DEF ExamplesInv, LoseChannel, goVars, mainVars, pubVars, shutVars
  <1>3. /\ Workers(kind)' = Workers(kind) /\ Messages(kind)' = Messages(kind)
        /\ Leftovers(kind)' = Leftovers(kind)
    BY <1>2, SameKnown
  <1>4. /\ link \in [Workers(kind) -> BOOLEAN] /\ pc[w] # "idle" /\ job[w] \in Known
        /\ Known \subseteq Known' /\ losses' > 0 /\ losses' \in 0..MaxLosses
    BY <1>1, <1>2, KnownWithLoss, Constants DEF TypeOK
  <1>5. TypeOK'
    <2>1. /\ done' \in BOOLEAN /\ interrupted' \in BOOLEAN /\ hung' \in BOOLEAN
          /\ link' \in [Workers(kind) -> BOOLEAN]
      BY <1>2, <1>4 DEF TypeOK
    <2>2. \A v \in Workers(kind) : pc[v] = "idle" => ~link'[v]
      BY <1>2, <1>4 DEF TypeOK
    <2>3. job \in [Workers(kind) -> Known' \cup {None}]
      BY <1>2, <1>4 DEF TypeOK
    <2>4. QED
      BY <1>2, <1>3, <1>4, <2>1, <2>2, <2>3 DEF TypeOK
  <1>6. DoneIsTrue'
    BY <1>2, <1>4, DoneStays DEF TypeOK
  <1>7. DeliveredOnce'
    BY <1>4 DEF DeliveredOnce, Steady
  <1>8. Counted'
    <2>1. Sleeping' = Sleeping
      BY <1>2 DEF Sleeping
    <2>2. QED
      BY <1>2, <1>4, <2>1, CountedSame
  <1>9. Seen'
    BY <1>2, <1>3, <1>4 DEF Seen
  <1>10. QED
    BY <1>5, <1>6, <1>7, <1>8, <1>9 DEF ExamplesInv

LEMMA LoseConfirmInv ==
    ASSUME ExamplesInv, LoseConfirm
    PROVE  ExamplesInv'
  <1>1. PICK m \in Publishing : ready' \in {ready, ready \cup {Copy(m, losses + 1)}}
    BY DEF LoseConfirm
  <1>2. /\ TypeOK /\ DoneIsTrue /\ Counted /\ Seen /\ kind' = kind /\ old' = old
        /\ link' = link /\ losses < MaxLosses /\ losses' = losses + 1 /\ job' = job /\ pc' = pc
        /\ processed' = processed /\ a' = a /\ b' = b /\ ch' = ch /\ interrupted' = interrupted
        /\ mpc' = mpc /\ sent' = sent /\ got' = got /\ par' = par /\ done' = done
        /\ closed' = closed /\ called' = called
    BY BelowBound DEF ExamplesInv, LoseConfirm, workVars, goVars, shutVars
  <1>3. /\ Workers(kind)' = Workers(kind) /\ Messages(kind)' = Messages(kind) /\ Sent' = Sent
        /\ Leftovers(kind)' = Leftovers(kind)
        /\ Range(Messages(kind))' = Range(Messages(kind))
    BY <1>2, SameKnown
  <1>4. /\ Known \subseteq Known' /\ losses' > 0 /\ losses' \in 0..MaxLosses
        /\ \A n \in Range(Messages(kind)) : Copy(n, losses + 1) \in Known'
    BY <1>2, KnownWithLoss, Constants DEF TypeOK
  <1>5. kind # "confirms" => m \in Range(Messages(kind))
    <2>1. DOMAIN Messages(kind) = 1..Len(Messages(kind))
      BY <1>2, MessagesFacts DEF TypeOK
    <2>2. kind # "confirms" => \E i \in 1..Len(Messages(kind)) : m = Messages(kind)[i]
      BY DEF Publishing
    <2>3. QED
      BY <2>1, <2>2 DEF Range
  <1>6. TypeOK'
    <2>1. /\ done' \in BOOLEAN /\ interrupted' \in BOOLEAN /\ link' \in [Workers(kind) -> BOOLEAN]
          /\ hung' \in BOOLEAN
      BY <1>2 DEF TypeOK, LoseConfirm
    <2>2. job \in [Workers(kind) -> Known' \cup {None}]
      BY <1>2, <1>4 DEF TypeOK
    <2>3. kind # "confirms" => ready' \subseteq Known'
      BY <1>1, <1>2, <1>4, <1>5 DEF TypeOK
    <2>4. QED
      BY <1>2, <1>3, <1>4, <2>1, <2>2, <2>3 DEF TypeOK
  <1>7. DoneIsTrue'
    BY <1>1, <1>2, <1>3, <1>4 DEF DoneIsTrue, Parallel
  <1>8. DeliveredOnce'
    BY <1>4 DEF DeliveredOnce, Steady
  <1>9. Counted'
    <2>1. Sleeping' = Sleeping
      BY <1>2 DEF Sleeping
    <2>2. QED
      BY <1>2, <1>4, <2>1, CountedSame
  <1>10. Seen'
    BY <1>1, <1>2, <1>3, <1>4 DEF Seen, Parallel
  <1>11. QED
    BY <1>6, <1>7, <1>8, <1>9, <1>10 DEF ExamplesInv

(***************************************************************************)
(* main.                                                                   *)
(***************************************************************************)
\* What every step of main leaves alone.
MainFrame ==
    /\ kind' = kind /\ old' = old /\ job' = job /\ pc' = pc /\ processed' = processed
    /\ a' = a /\ b' = b /\ interrupted' = interrupted /\ losses' = losses

LEMMA MainFrameFacts ==
    ASSUME MainFrame
    PROVE  /\ Workers(kind)' = Workers(kind) /\ Messages(kind)' = Messages(kind)
           /\ Leftovers(kind)' = Leftovers(kind)
           /\ Range(Messages(kind))' = Range(Messages(kind))
           /\ Sleeping' = Sleeping /\ StartedJobs' = StartedJobs
           /\ sent' = sent => Sent' = Sent /\ Known' = Known
           /\ EnoughHandled' = EnoughHandled
  <1>1. /\ Workers(kind)' = Workers(kind) /\ Messages(kind)' = Messages(kind)
        /\ Leftovers(kind)' = Leftovers(kind)
        /\ Range(Messages(kind))' = Range(Messages(kind))
        /\ sent' = sent => Sent' = Sent /\ Known' = Known
    BY SameKnown DEF MainFrame
  <1>2. Sleeping' = Sleeping
    BY DEF MainFrame, Sleeping
  <1>3. StartedJobs' = StartedJobs
    BY <1>2 DEF MainFrame, StartedJobs
  <1>4. EnoughHandled' = EnoughHandled
    BY <1>1 DEF MainFrame, EnoughHandled, ProcessedOf
  <1>5. QED
    BY <1>1, <1>2, <1>3, <1>4

\* main goes from one point to another.
LEMMA MainMoves ==
    ASSUME ExamplesInv, MainFrame, UNCHANGED <<ready, link, ch, sent, got, par, hung>>,
           closed' = closed, called' \in Nat, mpc \notin {"ended", "exit1"},
           mpc' \in {"publish", "wait", "shutdown", "return", "closing", "drained", "closed",
                     "ended", "exit1"},
           done' \in BOOLEAN, DoneIsTrue',
           mpc' = "wait" => sent = Len(Messages(kind)),
           mpc' \in {"publish", "wait"} => mpc \in {"start", "publish"},
           mpc' \in {"shutdown", "closing", "drained"} => kind = "graceful",
           mpc' \in {"shutdown", "closing"} /\ losses = 0 => Cardinality(StartedJobs) >= SlowJobs,
           mpc' = "drained" /\ losses = 0 => Cardinality(processed) >= SlowJobs,
           mpc' = "closing" => a >= called', mpc' = "drained" => b >= called'
    PROVE  ExamplesInv'
  <1>1. /\ TypeOK /\ DeliveredOnce /\ Counted /\ Seen
        /\ Workers(kind)' = Workers(kind) /\ Messages(kind)' = Messages(kind) /\ Sent' = Sent
        /\ Leftovers(kind)' = Leftovers(kind) /\ Known' = Known
        /\ Sleeping' = Sleeping /\ StartedJobs' = StartedJobs
    BY MainFrameFacts DEF ExamplesInv
  <1>2. TypeOK'
    <2>1. /\ interrupted' \in BOOLEAN /\ hung' \in BOOLEAN /\ link' \in [Workers(kind) -> BOOLEAN]
      BY <1>1 DEF TypeOK, MainFrame
    <2>2. QED
      BY <1>1, <2>1 DEF TypeOK, MainFrame
  <1>3. DeliveredOnce'
    BY <1>1 DEF DeliveredOnce, MainFrame, Steady
  <1>4. Counted'
    BY <1>1, CountedSame DEF MainFrame
  <1>5. Seen'
    BY <1>1 DEF Seen, MainFrame, Parallel
  <1>6. QED
    BY <1>2, <1>3, <1>4, <1>5 DEF ExamplesInv

\* Nothing of what main reported changes.
LEMMA DoneSame ==
    ASSUME DoneIsTrue, MainFrame, ready \subseteq ready', done' = done
    PROVE  DoneIsTrue'
  BY MainFrameFacts DEF DoneIsTrue, MainFrame, Parallel

\* What the report is about: enough were handled.
LEMMA ReportTrue ==
    ASSUME TypeOK, MainFrame, kind # "confirms", losses = 0 => EnoughHandled
    PROVE  DoneIsTrue'
  <1>1. losses = 0 => EnoughHandled' /\ (old = {} => processed = Range(Messages(kind)))
    BY OwnHandled, MainFrameFacts
  <1>2. QED
    BY <1>1, MainFrameFacts DEF DoneIsTrue, MainFrame

LEMMA QuietInv ==
    ASSUME ExamplesInv, MainFrame, Start \/ Published \/ WaitEnds \/ ShutdownFails \/ Ends
    PROVE  ExamplesInv'
  <1>1. /\ UNCHANGED <<ready, link, ch, sent, got, par, hung, done>>
        /\ closed' = closed /\ called' = called
        /\ mpc \in {"start", "publish", "wait", "closing", "drained", "closed"}
        /\ mpc' \in {"publish", "wait", "return", "ended", "exit1"}
        /\ mpc' = "wait" => sent = Len(Messages(kind))
        /\ mpc' \in {"publish", "wait"} => mpc \in {"start", "publish"}
    BY DEF Start, Published, WaitEnds, ShutdownFails, Ends, pubVars, shutVars
  <1>2. done' \in BOOLEAN /\ called' \in Nat
    BY <1>1 DEF ExamplesInv, TypeOK
  <1>3. DoneIsTrue'
    BY <1>1, DoneSame DEF ExamplesInv
  <1>4. QED
    BY <1>1, <1>2, <1>3, MainMoves

\* All handlers that waitStarted counted are of different messages.
LEMMA StartedCount ==
    ASSUME ExamplesInv, kind = "graceful", Steady, a >= SlowJobs
    PROVE  Cardinality(StartedJobs) >= SlowJobs
  <1> DEFINE J == {job[w] : w \in Sleeping}
  <1>1. /\ TypeOK /\ losses = 0 /\ b = Cardinality(processed) /\ a = b + Cardinality(Sleeping)
        /\ Sleeping \subseteq Workers(kind) /\ \A w \in Sleeping : pc[w] = "sleep"
    BY DEF ExamplesInv, Counted, Steady, Sleeping, TypeOK
  <1>2. \A w \in Sleeping : job[w] \notin processed
    BY <1>1 DEF ExamplesInv, DeliveredOnce
  <1>3. \A v, w \in Sleeping : job[v] = job[w] => v = w
    BY <1>1 DEF ExamplesInv, DeliveredOnce
  <1>4. IsFiniteSet(Sleeping) /\ Cardinality(Sleeping) \in Nat
    BY <1>1, SleepingFinite
  <1>5. IsFiniteSet(J) /\ Cardinality(J) = Cardinality(Sleeping)
    <2> DEFINE f == [w \in Sleeping |-> job[w]]
    <2>1. f \in Surjection(Sleeping, J)
      BY DEF Surjection
    <2>2. f \in Injection(Sleeping, J)
      BY <1>3 DEF Injection, IsInjective
    <2> HIDE DEF f, J
    <2>3. QED
      BY <1>4, <2>1, <2>2, FS_Surjection
  <1>6. IsFiniteSet(processed) /\ Cardinality(processed) \in Nat
    BY <1>1, ProcessedFinite
  <1>7. processed \cap J = {} /\ StartedJobs = processed \cup J
    BY <1>2 DEF StartedJobs
  <1> HIDE DEF J
  <1>8. Cardinality(processed \cup J) = Cardinality(processed) + Cardinality(J)
    <2>1. Cardinality(processed \cap J) = 0
      BY <1>7, FS_EmptySet
    <2>2. Cardinality(processed \cup J)
             = Cardinality(processed) + Cardinality(J) - Cardinality(processed \cap J)
      BY <1>5, <1>6, FS_Union
    <2>3. QED
      BY <1>4, <1>5, <1>6, <2>1, <2>2
  <1>9. QED
    BY <1>1, <1>4, <1>5, <1>6, <1>7, <1>8

\* The wait is over: what the program counted was enough.
LEMMA FinishedInv ==
    ASSUME ExamplesInv, MainFrame, Finished
    PROVE  ExamplesInv'
  <1>1. /\ TypeOK /\ Counted /\ Seen /\ mpc = "wait"
        /\ UNCHANGED <<ready, link, ch, sent, got, par, hung>>
        /\ closed' = closed /\ called' = called
        /\ mpc' = (IF kind = "graceful" THEN "shutdown" ELSE "return")
        /\ done' = (kind # "graceful")
    BY DEF ExamplesInv, Finished, pubVars, shutVars
  <1>2. /\ kind \in Kinds /\ sent \in 0..Len(Messages(kind)) /\ sent = Len(Messages(kind))
        /\ ch \in Nat /\ got \in Nat /\ called' \in Nat /\ closed = {}
        /\ losses = 0 => Steady
    BY <1>1 DEF TypeOK, Seen, DoneCap, Steady
  <1>3. CASE kind = "graceful"
    <2>1. ~done' /\ mpc' = "shutdown" /\ a >= SlowJobs /\ done' \in BOOLEAN
      BY <1>1, <1>3 DEF Finished, WaitStarted, GotClosed, FinishedClosed, AllReceived, WgWait
    <2>2. DoneIsTrue'
      BY <2>1 DEF DoneIsTrue
    <2>3. losses = 0 => Cardinality(StartedJobs) >= SlowJobs
      BY <1>2, <1>3, <2>1, StartedCount
    <2>4. QED
      BY <1>1, <1>2, <1>3, <2>1, <2>2, <2>3, MainMoves
  <1>4. CASE kind \in {"basic", "retry", "multiple"}
    <2>1. mpc' = "return" /\ done' \in BOOLEAN
      BY <1>1, <1>4
    <2>2. ASSUME losses = 0  PROVE EnoughHandled
      <3>1. CASE kind = "basic"
        <4>1. processed # {}
          BY <1>1, <3>1 DEF Finished, GotClosed, FinishedClosed, AllReceived, WgWait, WaitStarted, Counted
        <4>2. IsFiniteSet(processed) /\ Cardinality(processed) \in Nat
          BY <1>1, <2>2, ProcessedFinite
        <4>3. Cardinality(processed) # 0
          BY <4>1, <4>2, FS_EmptySet
        <4>4. Len(Messages(kind)) = 1
          BY <3>1 DEF Messages, BasicMessages
        <4>5. Cardinality(processed) >= Len(Messages(kind))
          <5> DEFINE n == Cardinality(processed)
          <5>1. n \in Nat /\ n # 0
            BY <4>2, <4>3
          <5>2. n >= 1
            <6> HIDE DEF n
            <6> QED BY <5>1
          <5>3. QED
            BY <4>4, <5>2
        <4>6. kind # "multiple"
          BY <3>1
        <4>7. QED
          BY <4>5, <4>6 DEF EnoughHandled
      <3>2. CASE kind = "retry"
        <4>1. got = DoneCap /\ got + ch = Cardinality(processed)
          BY <1>1, <1>2, <2>2, <3>2
             DEF Finished, GotClosed, FinishedClosed, AllReceived, WgWait, WaitStarted, Counted
        <4>2. QED
          BY <1>2, <3>2, <4>1, Lengths DEF EnoughHandled
      <3>3. CASE kind = "multiple"
        <4>1. ch > 0
          BY <3>3 DEF Finished, GotClosed, FinishedClosed, AllReceived, WgWait, WaitStarted
        <4>2. a >= EmailJobs /\ b >= 1
          BY <1>1, <3>3, <4>1 DEF Seen
        <4>3. a = Cardinality(ProcessedOf("emails")) /\ b = Cardinality(ProcessedOf("sms"))
          BY <1>1, <1>2, <2>2, <3>3 DEF Counted
        <4>4. QED
          BY <3>3, <4>2, <4>3 DEF EnoughHandled
      <3>4. QED
        BY <1>4, <3>1, <3>2, <3>3
    <2>3. DoneIsTrue'
      BY <1>1, <1>4, <2>2, ReportTrue
    <2>4. QED
      BY <1>1, <1>2, <2>1, <2>3, MainMoves
  <1>5. CASE kind = "confirms"
    <2>1. mpc' = "return" /\ done' \in BOOLEAN
      BY <1>1, <1>5
    <2>2. /\ Range(Messages(kind)) \subseteq ready
          /\ ~interrupted => {Parallel(i) : i \in 1..ParPublishes} \subseteq ready
      <3>1. par = 1..ParPublishes
        BY <1>5 DEF Finished, GotClosed, FinishedClosed, AllReceived, WgWait, WaitStarted
      <3>2. Sent = Range(Messages(kind))
        BY <1>2, SentFacts
      <3>3. QED
        BY <1>1, <1>5, <3>1, <3>2 DEF Seen
    <2>3. DoneIsTrue'
      BY <1>1, <1>5, <2>2, MainFrameFacts DEF DoneIsTrue, MainFrame, Parallel
    <2>4. QED
      BY <1>1, <1>2, <2>1, <2>3, MainMoves
  <1>6. QED
    BY <1>2, <1>3, <1>4, <1>5 DEF Kinds

\* All clients are closed: called is what has started.
LEMMA ShutdownClosedInv ==
    ASSUME ExamplesInv, MainFrame, ShutdownClosed
    PROVE  ExamplesInv'
  <1>1. /\ UNCHANGED <<ready, link, ch, sent, got, par, hung, done>>
        /\ closed' = closed /\ called' = a /\ mpc = "shutdown" /\ mpc' = "closing"
    BY DEF ShutdownClosed, pubVars
  <1>2. /\ done' \in BOOLEAN /\ called' \in Nat /\ kind = "graceful" /\ a >= called'
        /\ losses = 0 => Cardinality(StartedJobs) >= SlowJobs
    BY <1>1 DEF ExamplesInv, TypeOK, Seen
  <1>3. DoneIsTrue'
    BY <1>1, DoneSame DEF ExamplesInv
  <1>4. QED
    BY <1>1, <1>2, <1>3, MainMoves

\* No handler runs: all that had started have finished.
LEMMA WaitInflightInv ==
    ASSUME ExamplesInv, MainFrame, WaitInflight
    PROVE  ExamplesInv'
  <1>1. /\ UNCHANGED <<ready, link, ch, sent, got, par, hung, done>>
        /\ closed' = closed /\ called' = called /\ mpc = "closing" /\ mpc' = "drained"
        /\ Inflight = {}
    BY DEF WaitInflight, pubVars, shutVars
  <1>2. /\ done' \in BOOLEAN /\ called' \in Nat /\ kind = "graceful" /\ a >= called
        /\ losses = 0 => Cardinality(StartedJobs) >= SlowJobs
        /\ a = b + Cardinality(Sleeping) /\ b \in Nat
    BY <1>1 DEF ExamplesInv, TypeOK, Seen, Counted
  <1>3. Sleeping = {}
    BY <1>1 DEF Inflight, Sleeping
  <1>4. StartedJobs = processed /\ Cardinality(Sleeping) = 0
    BY <1>3, FS_EmptySet DEF StartedJobs
  <1>5. b >= called'
    BY <1>1, <1>2, <1>4
  <1>6. DoneIsTrue'
    BY <1>1, DoneSame DEF ExamplesInv
  <1>7. QED
    BY <1>1, <1>2, <1>4, <1>5, <1>6, MainMoves

LEMMA ReportInv ==
    ASSUME ExamplesInv, MainFrame, Report
    PROVE  ExamplesInv'
  <1>1. /\ TypeOK /\ Seen /\ UNCHANGED <<ready, link, ch, sent, got, par, hung>>
        /\ closed' = closed /\ called' = called /\ mpc = "drained" /\ mpc' = "closed"
        /\ done' \in BOOLEAN
    BY DEF ExamplesInv, Report, pubVars, shutVars
  <1>2. kind = "graceful" /\ called' \in Nat
    BY <1>1 DEF TypeOK, Seen
  <1>3. losses = 0 => EnoughHandled
    BY <1>1, <1>2, Lengths DEF Seen, EnoughHandled
  <1>4. DoneIsTrue'
    BY <1>1, <1>2, <1>3, ReportTrue
  <1>5. QED
    BY <1>1, <1>2, <1>4, MainMoves

LEMMA ReceiveDoneInv ==
    ASSUME ExamplesInv, MainFrame, ReceiveDone
    PROVE  ExamplesInv'
  <1>1. /\ TypeOK /\ DoneIsTrue /\ DeliveredOnce /\ Counted /\ Seen
        /\ UNCHANGED <<ready, link, mpc, sent, par, hung, closed, called, done>>
        /\ kind = "retry" /\ ch > 0 /\ got < DoneCap /\ ch' = ch - 1 /\ got' = got + 1
    BY DEF ExamplesInv, ReceiveDone, pubVars, shutVars
  <1>2. /\ Workers(kind)' = Workers(kind) /\ Messages(kind)' = Messages(kind) /\ Sent' = Sent
        /\ Leftovers(kind)' = Leftovers(kind) /\ Known' = Known /\ StartedJobs' = StartedJobs
    BY <1>1, MainFrameFacts
  <1>3. /\ ch \in Nat /\ got \in Nat /\ ch' \in 0..DoneCap /\ got' \in 0..DoneCap
        /\ got' + ch' = got + ch
    BY <1>1 DEF TypeOK, DoneCap
  <1>4. TypeOK'
    <2>1. /\ done' \in BOOLEAN /\ interrupted' \in BOOLEAN /\ hung' \in BOOLEAN
          /\ link' \in [Workers(kind) -> BOOLEAN]
      BY <1>1 DEF TypeOK, MainFrame
    <2>2. QED
      BY <1>1, <1>2, <1>3, <2>1 DEF TypeOK, MainFrame
  <1>5. DoneIsTrue'
    BY <1>1, DoneSame
  <1>6. DeliveredOnce'
    BY <1>1, <1>2 DEF DeliveredOnce, MainFrame, Steady
  <1>7. Counted'
    BY <1>1, <1>3 DEF Counted, MainFrame, Steady
  <1>8. Seen'
    BY <1>1, <1>2 DEF Seen, MainFrame
  <1>9. QED
    BY <1>4, <1>5, <1>6, <1>7, <1>8 DEF ExamplesInv

\* A client is closed, or all are: unacknowledged messages go back.
LEMMA ClosesInv ==
    ASSUME ExamplesInv, MainFrame, ShutdownCloses \/ DeferredCloses
    PROVE  ExamplesInv'
  <1>1. /\ TypeOK /\ DoneIsTrue /\ Counted /\ Seen
        /\ UNCHANGED <<ch, sent, got, par, hung, called, done>>
        /\ \/ mpc = "shutdown" /\ mpc' = "shutdown"
           \/ mpc = "return" /\ mpc' = "closed"
    BY DEF ExamplesInv, ShutdownCloses, DeferredCloses, pubVars
  <1>2. /\ Workers(kind)' = Workers(kind) /\ Messages(kind)' = Messages(kind) /\ Sent' = Sent
        /\ Leftovers(kind)' = Leftovers(kind) /\ Known' = Known
        /\ Sleeping' = Sleeping /\ StartedJobs' = StartedJobs
    BY <1>1, MainFrameFacts
  <1>3. /\ link \in [Workers(kind) -> BOOLEAN] /\ DOMAIN link = Workers(kind)
        /\ \A w \in Workers(kind) : link[w] => job[w] \in Known
        /\ closed \subseteq Workers(kind)
    BY <1>1 DEF TypeOK
  <1>4. /\ ready \subseteq ready' /\ ready' \subseteq ready \cup Known
        /\ link' \in [Workers(kind) -> BOOLEAN]
        /\ \A w \in Workers(kind) : ~link[w] => ~link'[w]
        /\ closed' \subseteq Workers(kind)
        /\ closed' = closed \/ closed' # {}
        /\ closed' = {} => ready' = ready
    <2>1. CASE ShutdownCloses
      BY <1>3, <2>1 DEF ShutdownCloses
    <2>2. CASE DeferredCloses
      BY <1>3, <2>2 DEF DeferredCloses
    <2>3. QED
      BY <2>1, <2>2
  <1>5. TypeOK'
    <2>1. done' \in BOOLEAN /\ interrupted' \in BOOLEAN /\ hung' \in BOOLEAN
      BY <1>1 DEF TypeOK, MainFrame
    <2>2. QED
      BY <1>1, <1>2, <1>4, <2>1 DEF TypeOK, MainFrame
  <1>6. DoneIsTrue'
    BY <1>1, <1>4, DoneSame
  <1>7. DeliveredOnce'
    BY <1>2, <1>4 DEF ExamplesInv, DeliveredOnce, MainFrame, Steady
  <1>8. Counted'
    BY <1>1, <1>2, <1>4, CountedSame DEF MainFrame
  <1>9. Seen'
    BY <1>1, <1>2, <1>4 DEF Seen, MainFrame, Parallel
  <1>10. QED
    BY <1>5, <1>6, <1>7, <1>8, <1>9 DEF ExamplesInv

LEMMA PublishNextInv ==
    ASSUME ExamplesInv, MainFrame, PublishNext
    PROVE  ExamplesInv'
  <1> DEFINE m == Messages(kind)[sent + 1]
  <1>1. /\ TypeOK /\ DoneIsTrue /\ DeliveredOnce /\ Counted /\ Seen
        /\ UNCHANGED <<link, ch, got, par, closed, called, done>>
        /\ mpc = "publish" /\ sent < Len(Messages(kind)) /\ sent' = sent + 1
        /\ mpc' \in {"publish", "exit1"}
        /\ ready' \in {ready, ready \cup {m}} /\ (mpc' # "exit1" => m \in ready')
    BY DEF ExamplesInv, PublishNext, Publish, shutVars
  <1>2. hung' \in BOOLEAN
    BY DEF ExamplesInv, TypeOK, PublishNext, Publish
  <1>3. /\ kind \in Kinds /\ sent \in 0..Len(Messages(kind)) /\ Len(Messages(kind)) \in Nat
        /\ Workers(kind)' = Workers(kind) /\ Messages(kind)' = Messages(kind)
        /\ Leftovers(kind)' = Leftovers(kind) /\ Sleeping' = Sleeping
        /\ Range(Messages(kind))' = Range(Messages(kind))
    BY <1>1, MessagesFacts, MainFrameFacts DEF TypeOK
  <1>4. sent' \in 0..Len(Messages(kind)) /\ (losses = 0 => m \notin Known)
    BY <1>1, <1>3, KnownFacts
  <1>5. Sent' = Sent \cup {m} /\ Known' = Known \cup {m}
    <2>1. 1..sent' = (1..sent) \cup {sent + 1}
      BY <1>1, <1>3
    <2>2. Sent' = {Messages(kind)[i] : i \in 1..sent'}
      BY <1>3 DEF Sent
    <2>3. Sent' = Sent \cup {m}
      BY <2>1, <2>2 DEF Sent
    <2>4. QED
      BY <1>3, <2>3 DEF Known, MainFrame, Copy
  <1> HIDE DEF m
  <1>6. TypeOK'
    <2>1. done' \in BOOLEAN /\ interrupted' \in BOOLEAN /\ link' \in [Workers(kind) -> BOOLEAN]
      BY <1>1 DEF TypeOK, MainFrame
    <2>2. job \in [Workers(kind) -> Known' \cup {None}]
      BY <1>1, <1>5 DEF TypeOK
    <2>3. QED
      BY <1>1, <1>2, <1>3, <1>4, <1>5, <2>1, <2>2 DEF TypeOK, MainFrame
  <1>7. DoneIsTrue'
    BY <1>1, DoneSame
  <1>8. DeliveredOnce'
    <2>1. losses = 0 => m \notin processed /\ \A w \in Workers(kind) : pc[w] # "idle" => job[w] # m
      BY <1>1, <1>4 DEF TypeOK
    <2>2. QED
      BY <1>1, <1>3, <2>1 DEF DeliveredOnce, MainFrame, Steady
  <1>9. Counted'
    BY <1>1, <1>3, CountedSame DEF MainFrame
  <1>10. Seen'
    BY <1>1, <1>3, <1>5 DEF Seen, MainFrame, Parallel
  <1>11. QED
    BY <1>6, <1>7, <1>8, <1>9, <1>10 DEF ExamplesInv

LEMMA ParPublishInv ==
    ASSUME ExamplesInv, MainFrame, NEW i \in 1..ParPublishes, ParPublish(i)
    PROVE  ExamplesInv'
  <1> DEFINE m == Parallel(i)
  <1>1. /\ TypeOK /\ DoneIsTrue /\ DeliveredOnce /\ Counted /\ Seen
        /\ UNCHANGED <<link, mpc, ch, sent, got, closed, called, done>> /\ kind = "confirms"
        /\ par' = par \cup {i}
        /\ ready' \in {ready, ready \cup {m}} /\ (~interrupted => m \in ready')
    BY DEF ExamplesInv, ParPublish, Publish, shutVars
  <1>2. hung' \in BOOLEAN
    BY DEF ExamplesInv, TypeOK, ParPublish, Publish
  <1>3. /\ Workers(kind) = {} /\ Workers(kind)' = Workers(kind)
        /\ Messages(kind)' = Messages(kind) /\ Leftovers(kind)' = Leftovers(kind)
        /\ Sent' = Sent /\ Known' = Known /\ Sleeping' = Sleeping /\ StartedJobs' = StartedJobs
    BY <1>1, MainFrameFacts DEF Workers
  <1> HIDE DEF m
  <1>4. TypeOK'
    <2>1. done' \in BOOLEAN /\ interrupted' \in BOOLEAN /\ link' \in [Workers(kind) -> BOOLEAN]
      BY <1>1 DEF TypeOK, MainFrame
    <2>2. QED
      BY <1>1, <1>2, <1>3, <2>1 DEF TypeOK, MainFrame
  <1>5. DoneIsTrue'
    BY <1>1, DoneSame
  <1>6. DeliveredOnce'
    BY <1>1, <1>3 DEF DeliveredOnce, MainFrame
  <1>7. Counted'
    BY <1>1, <1>3, CountedSame DEF MainFrame
  <1>8. Seen'
    <2>1. ~interrupted => {Parallel(j) : j \in par'} \subseteq ready'
      BY <1>1 DEF Seen, m
    <2>2. {Parallel(j) : j \in par}' = {Parallel(j) : j \in par'}
      BY DEF Parallel
    <2>3. QED
      BY <1>1, <1>3, <2>1, <2>2 DEF Seen, MainFrame
  <1>9. QED
    BY <1>4, <1>5, <1>6, <1>7, <1>8 DEF ExamplesInv

LEMMA InterruptInv ==
    ASSUME ExamplesInv, Interrupt
    PROVE  ExamplesInv'
  <1>1. /\ interrupted' = TRUE
        /\ UNCHANGED <<kind, old, ready, job, pc, link, processed, a, b, ch, mpc, sent, got, par,
                       hung, closed, called, done, losses>>
    BY DEF Interrupt, workVars, goVars, mainVars, pubVars, shutVars
  <1>2. /\ Workers(kind)' = Workers(kind) /\ Messages(kind)' = Messages(kind) /\ Sent' = Sent
        /\ Leftovers(kind)' = Leftovers(kind) /\ Known' = Known
        /\ Range(Messages(kind))' = Range(Messages(kind))
    BY <1>1, SameKnown
  <1>3. /\ Sleeping' = Sleeping /\ StartedJobs' = StartedJobs /\ EnoughHandled' = EnoughHandled
    BY <1>1, <1>2 DEF Sleeping, StartedJobs, EnoughHandled, ProcessedOf
  <1>4. TypeOK'
    <2>1. /\ done' \in BOOLEAN /\ interrupted' \in BOOLEAN /\ hung' \in BOOLEAN
          /\ link' \in [Workers(kind) -> BOOLEAN]
      BY <1>1 DEF ExamplesInv, TypeOK
    <2>2. QED
      BY <1>1, <1>2, <2>1 DEF ExamplesInv, TypeOK
  <1>5. DoneIsTrue' /\ DeliveredOnce' /\ Seen'
    BY <1>1, <1>2, <1>3 DEF ExamplesInv, DoneIsTrue, DeliveredOnce, Seen, Steady
  <1>6. Counted'
    BY <1>1, <1>3, CountedSame DEF ExamplesInv
  <1>7. QED
    BY <1>4, <1>5, <1>6 DEF ExamplesInv

LEMMA MainStepInv ==
    ASSUME ExamplesInv, MainStep
    PROVE  ExamplesInv'
  <1>1. MainFrame
    BY DEF MainStep, MainFrame
  <1>2. CASE Start \/ Published \/ WaitEnds \/ ShutdownFails \/ Ends
    BY <1>1, <1>2, QuietInv
  <1>3. CASE PublishNext
    BY <1>1, <1>3, PublishNextInv
  <1>4. CASE Finished
    BY <1>1, <1>4, FinishedInv
  <1>5. CASE ReceiveDone
    BY <1>1, <1>5, ReceiveDoneInv
  <1>6. CASE ShutdownCloses \/ DeferredCloses
    BY <1>1, <1>6, ClosesInv
  <1>7. CASE ShutdownClosed
    BY <1>1, <1>7, ShutdownClosedInv
  <1>8. CASE WaitInflight
    BY <1>1, <1>8, WaitInflightInv
  <1>9. CASE Report
    BY <1>1, <1>9, ReportInv
  <1>10. CASE \E i \in 1..ParPublishes : ParPublish(i)
    BY <1>1, <1>10, ParPublishInv
  <1>11. QED
    BY <1>2, <1>3, <1>4, <1>5, <1>6, <1>7, <1>8, <1>9, <1>10 DEF MainStep

LEMMA WorkerStepInv ==
    ASSUME ExamplesInv, NEW w, WorkerStep(w)
    PROVE  ExamplesInv'
  <1>1. w \in Workers(kind) /\ kind' = kind /\ old' = old /\ interrupted' = interrupted
    BY DEF WorkerStep, ExamplesInv, TypeOK
  <1>2. QED
    BY <1>1, ReceiveInv, BeginInv, HandleRetryInv, SendInv, CountEmailOrSmsInv, MarkInv, CloseInv,
       SlowInv, SettleInv DEF WorkerStep

LEMMA NextInv == ExamplesInv /\ [Next]_vars => ExamplesInv'
  <1> SUFFICES ASSUME ExamplesInv, [Next]_vars  PROVE ExamplesInv'
    OBVIOUS
  <1>1. CASE MainStep
    BY <1>1, MainStepInv
  <1>2. CASE Interrupt
    BY <1>2, InterruptInv
  <1>3. CASE \E w \in AllWorkers : WorkerStep(w)
    BY <1>3, WorkerStepInv
  <1>4. CASE \E w \in DOMAIN link : LoseChannel(w)
    BY <1>4, LoseChannelInv
  <1>5. CASE LoseConfirm
    BY <1>5, LoseConfirmInv
  <1>6. CASE UNCHANGED vars
    BY <1>6 DEF vars, workVars, goVars, mainVars, pubVars, shutVars, ExamplesInv, TypeOK,
                DoneIsTrue, DeliveredOnce, Counted, Seen, Sent, Known, Sleeping, ProcessedOf,
                StartedJobs, Steady, EnoughHandled
  <1>7. QED
    BY <1>1, <1>2, <1>3, <1>4, <1>5, <1>6 DEF Next

(***************************************************************************)
(* The theorems.                                                           *)
(***************************************************************************)
\* No example reports a success it did not have, for any number of jobs, workers,
\* parallel publishes, losses and leftovers: when basic-consumer, retry,
\* multiple-consumers or graceful-shutdown logs that it is done
\* (multiple-consumers/main.go:115, retry/main.go:123) and no channel was lost, as
\* many messages were handled as it published, its own if the queues were empty,
\* and the messages of publisher-confirms are in the queue.
THEOREM ExamplesInvariant == Spec => []ExamplesInv
  <1>1. Init => ExamplesInv
    BY InitInv
  <1>2. ExamplesInv /\ [Next]_vars => ExamplesInv'
    BY NextInv
  <1>3. QED
    BY <1>1, <1>2, PTL DEF Spec

\* The number of finished handlers that graceful-shutdown logs after Shutdown
\* returned nil (graceful-shutdown/main.go:97-101) includes every handler that had
\* started when the connections were closed, whatever was lost, left over or
\* delivered again, and although more handlers may begin in the meantime.
THEOREM ReportCovers == Spec => ReportCoversStarted
  <1>1. ASSUME ExamplesInv, [Next]_vars
        PROVE  [done' /\ ~done /\ kind = "graceful" => b >= called]_vars
    <2> SUFFICES ASSUME Next, done', ~done, kind = "graceful"  PROVE b >= called
      BY <1>1
    <2>1. done' = done \/ Finished \/ Report
      BY DEF Next, MainStep, Start, PublishNext, Published, ReceiveDone, WaitEnds, ShutdownCloses,
             ShutdownClosed, WaitInflight, ShutdownFails, DeferredCloses, Ends, ParPublish,
             Interrupt, WorkerStep, Receive, Begin, HandleRetry, Send, CountEmailOrSms, Mark,
             Close, Slow, Settle, Step, LoseChannel, LoseConfirm, mainVars
    <2>2. ~Finished
      BY DEF Finished
    <2>3. mpc = "drained"
      BY <2>1, <2>2 DEF Report
    <2>4. QED
      BY <1>1, <2>3 DEF ExamplesInv, Seen
  <1>2. QED
    BY <1>1, ExamplesInvariant, PTL DEF Spec, ReportCoversStarted
=============================================================================
