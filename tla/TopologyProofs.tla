--------------------------- MODULE TopologyProofs ---------------------------
(***************************************************************************)
(* Proofs about the topology of module Topology, for every set of queue    *)
(* names, configurations, processes and messages, and any number of        *)
(* starts, losses and broker restarts.                                     *)
(***************************************************************************)
EXTENDS Topology, SequenceTheorems, WellFoundedInduction, TLAPS

(***************************************************************************)
(* Names and the calls of init.                                            *)
(***************************************************************************)
LEMMA PairConcat ==
    ASSUME NEW S, NEW x \in S, NEW y \in S
    PROVE  <<x>> \o <<y>> = <<x, y>>
  <1>1. <<x>> \o <<y>> = Append(<<x>>, y)
    BY AppendIsConcat
  <1>2. <<x, y>> = Append(<<x>>, y)
    OBVIOUS
  <1> QED BY <1>1, <1>2

\* The exchange tells the queue, and the delay exchange of a queue is the
\* exchange that the queue named like its delay queue would have.
LEMMA NameFacts ==
    ASSUME NEW n \in Seq(Parts)
    PROVE  /\ Ex(n) \in Seq(Parts) /\ Ex(n) # Nil
           /\ DelayQ(n) \in Seq(Parts)
           /\ DelayEx(n) = Ex(DelayQ(n))
           /\ DelayEx(n) # Nil
  <1>1. /\ "ex" \in Parts /\ "delay" \in Parts
        /\ <<"ex">> \in Seq(Parts) /\ <<"delay">> \in Seq(Parts)
        /\ <<"delay", "ex">> \in Seq(Parts)
    BY DEF Parts
  <1>2. <<"delay">> \o <<"ex">> = <<"delay", "ex">>
    BY <1>1, PairConcat
  <1>3. (n \o <<"delay">>) \o <<"ex">> = n \o (<<"delay">> \o <<"ex">>)
    BY <1>1, ConcatAssociative
  <1>4. \A s \in Seq(Parts) : n \o s \in Seq(Parts) /\ n \o s # Nil
    <2>1. Nil \notin Seq(Parts)
      BY TopologyAssumption, Zenon
    <2> QED BY <2>1, ConcatProperties
  <1> QED BY <1>1, <1>2, <1>3, <1>4 DEF Ex, DelayQ, DelayEx

LEMMA ExInjective ==
    ASSUME NEW x \in Seq(Parts), NEW y \in Seq(Parts), Ex(x) = Ex(y)
    PROVE  x = y
  <1>1. <<"ex">> \in Seq(Parts)
    BY DEF Parts
  <1> QED BY <1>1, ConcatSimplifications DEF Ex

\* The calls of a client, in retry mode and without.
LEMMA CallsOf ==
    ASSUME ConfOK, NEW c \in Clients, Running(c)
    PROVE  /\ conf[c[1]] \in Versions /\ c[2] \in Names /\ c[2] \in Seq(Parts)
           /\ c[2] \in DOMAIN Deployment[conf[c[1]]].QueueParams
           /\ InitCalls(c) = IF WithRetry(c) THEN initQueueWithRetry(c[2], Item(c).Retry.Delay)
                             ELSE initQueue(c[2])
           /\ WithRetry(c) => Item(c).Retry.Delay \in Int
           /\ step[c] \in Nat \ {0}
  <1>1. conf[c[1]] \in Versions /\ c[2] \in DOMAIN Calls[conf[c[1]]] /\ step[c] \in Nat
    BY DEF ConfOK, Clients
  <1>2. step[c] # 0
    BY <1>1 DEF Running
  <1>3. c[2] \in DOMAIN Deployment[conf[c[1]]].QueueParams
    BY <1>1 DEF Calls
  <1>4. c[2] \in Names /\ c[2] \in Seq(Parts)
    BY <1>1, <1>3, TopologyAssumption
  <1>5. WithRetry(c) => Item(c).Retry.Delay \in Int
    BY <1>1, <1>3, TopologyAssumption DEF WithRetry, Item
  <1> QED BY <1>1, <1>2, <1>3, <1>4, <1>5 DEF InitCalls, Calls, WithRetry, Item

LEMMA CallCases ==
    ASSUME ConfOK, NEW c \in Clients, Running(c)
    PROVE  /\ Len(InitCalls(c)) = IF WithRetry(c) THEN 7 ELSE 2
           /\ \A i \in 1..Len(InitCalls(c)) :
                 LET call == InitCalls(c)[i]
                 IN  \/ call.call = "qos"
                     \/ call.call = "declare" /\ call.args.durable
                     \/ /\ call.call = "bind" /\ call.binding.queue \in Seq(Parts)
                        /\ call.binding.ex = Ex(call.binding.queue)
  <1>1. /\ c[2] \in Seq(Parts)
        /\ InitCalls(c) = IF WithRetry(c) THEN initQueueWithRetry(c[2], Item(c).Retry.Delay)
                          ELSE initQueue(c[2])
    BY CallsOf
  <1>2. DelayQ(c[2]) \in Seq(Parts) /\ DelayEx(c[2]) = Ex(DelayQ(c[2]))
    BY <1>1, NameFacts
  <1>3. CASE WithRetry(c)
    BY <1>1, <1>2, <1>3
       DEF initQueueWithRetry, ExchangeDeclare, QueueDeclare, QueueBind, Qos
  <1>4. CASE ~WithRetry(c)
    BY <1>1, <1>4 DEF initQueue, QueueDeclare, Qos
  <1> QED BY <1>3, <1>4

\* What the broker has once a client is ready.
LEMMA ReadyWired ==
    ASSUME ConfOK, CallsMade, NEW c \in Clients, Ready(c)
    PROVE  /\ c[2] \in Names /\ Declared(c[2]) /\ Args(c[2]).ttl = Nil
           /\ ~WithRetry(c) => Args(c[2]).dlx = Nil
           /\ WithRetry(c) =>
                /\ Args(c[2]).dlx = DelayEx(c[2])
                /\ Declared(DelayQ(c[2])) /\ Args(DelayQ(c[2])).dlx = Ex(c[2])
                /\ Args(DelayQ(c[2])).ttl = Item(c).Retry.Delay \div Millisecond
                /\ [ex |-> Ex(c[2]), queue |-> c[2]] \in bindings
                /\ [ex |-> DelayEx(c[2]), queue |-> DelayQ(c[2])] \in bindings
  <1>1. /\ Running(c) /\ step[c] > Len(InitCalls(c))
    BY DEF Ready
  <1>2. /\ c[2] \in Names /\ c[2] \in Seq(Parts) /\ step[c] \in Nat \ {0}
        /\ InitCalls(c) = IF WithRetry(c) THEN initQueueWithRetry(c[2], Item(c).Retry.Delay)
                          ELSE initQueue(c[2])
    BY <1>1, CallsOf
  <1>3. Len(InitCalls(c)) = IF WithRetry(c) THEN 7 ELSE 2
    BY <1>1, CallCases
  <1>4. \A i \in 1..Len(InitCalls(c)) : Made(InitCalls(c)[i])
    BY <1>1, <1>2, <1>3 DEF CallsMade
  <1>5. CASE WithRetry(c)
    <2>1. /\ Made(QueueDeclare(c[2], DelayEx(c[2]), Nil))
          /\ Made(QueueDeclare(DelayQ(c[2]), Ex(c[2]), Item(c).Retry.Delay \div Millisecond))
          /\ Made(QueueBind(c[2], Ex(c[2])))
          /\ Made(QueueBind(DelayQ(c[2]), DelayEx(c[2])))
      <3>1. InitCalls(c) = initQueueWithRetry(c[2], Item(c).Retry.Delay)
        BY <1>2, <1>5
      <3>2. Made(InitCalls(c)[3]) /\ Made(InitCalls(c)[4]) /\ Made(InitCalls(c)[5])
              /\ Made(InitCalls(c)[6])
        BY <1>3, <1>4, <1>5
      <3> QED BY <3>1, <3>2 DEF initQueueWithRetry
    <2> QED BY <1>2, <1>5, <2>1 DEF Made, QueueDeclare, QueueBind, Declared, Args
  <1>6. CASE ~WithRetry(c)
    <2>1. Made(QueueDeclare(c[2], Nil, Nil))
      BY <1>2, <1>3, <1>4, <1>6 DEF initQueue
    <2> QED BY <1>2, <1>6, <2>1 DEF Made, QueueDeclare, Declared, Args
  <1> QED BY <1>5, <1>6

\* New accepts a retry queue only with a fail handler and a delay of at least a
\* millisecond.
LEMMA Accepted ==
    ASSUME NEW v \in Versions, "nil" \in Results[v],
           NEW n \in DOMAIN Deployment[v].QueueParams,
           Deployment[v].QueueParams[n].Retry # Nil
    PROVE  /\ Opts[v].failHandler # Nil
           /\ ~(Deployment[v].QueueParams[n].Retry.Delay < Millisecond)
  <1> DEFINE item == Deployment[v].QueueParams[n]
             errs == {validateRetryQueue(Deployment[v].QueueParams[k], Opts[v]) :
                         k \in DOMAIN Deployment[v].QueueParams} \ {"nil"}
  <1>1. "nil" \in validateConfig(Deployment[v], Opts[v])
    BY DEF Results, Opts, newQueueStore
  <1>2. errs = {}
    BY <1>1 DEF validateConfig
  <1>3. validateRetryQueue(item, Opts[v]) = "nil"
    BY <1>2
  <1> QED BY <1>3 DEF validateRetryQueue

(***************************************************************************)
(* What the broker has stays.                                              *)
(***************************************************************************)
Stays ==
    /\ \A k \in DOMAIN entities : k \in DOMAIN entities' /\ entities'[k] = entities[k]
    /\ bindings \subseteq bindings'

\* The next call of a client, and what it leads to.
LEMMA InitStepBroker ==
    ASSUME ConfOK, BrokerOK, NEW c \in Clients, InitStep(c)
    PROVE  /\ Stays /\ BrokerOK'
           /\ \A call : call = InitCalls(c)[step[c]] /\ Accepts(call) => Made(call)'
  <1>1. Running(c) /\ ~Ready(c)
    BY DEF InitStep
  <1>2. step[c] \in 1..Len(InitCalls(c))
    <2>1. step[c] \in Nat \ {0} /\ ~(step[c] > Len(InitCalls(c)))
      BY <1>1, CallsOf DEF Ready
    <2>2. Len(InitCalls(c)) \in Nat
      BY <1>1, CallCases
    <2> QED BY <2>1, <2>2
  <1>3. PICK call : call = InitCalls(c)[step[c]]
    OBVIOUS
  <1>4. \/ call.call = "qos"
        \/ call.call = "declare" /\ call.args.durable
        \/ /\ call.call = "bind" /\ call.binding.queue \in Seq(Parts)
           /\ call.binding.ex = Ex(call.binding.queue)
    BY <1>1, <1>2, <1>3, CallCases
  <1>5. /\ entities' = IF Accepts(call) /\ call.call = "declare"
                       THEN Put(entities, call.key, call.args) ELSE entities
        /\ bindings' = IF Accepts(call) /\ call.call = "bind"
                       THEN bindings \cup {call.binding} ELSE bindings
    BY <1>3 DEF InitStep
  <1>6. CASE Accepts(call) /\ call.call = "declare"
    <2>1. /\ entities' = Put(entities, call.key, call.args) /\ bindings' = bindings
          /\ call.key \in DOMAIN entities => entities[call.key] = call.args
      BY <1>5, <1>6 DEF Accepts
    <2>2. /\ DOMAIN entities' = DOMAIN entities \cup {call.key}
          /\ entities'[call.key] = call.args
          /\ \A k \in DOMAIN entities : entities'[k] = entities[k]
      BY <2>1 DEF Put, PutAll
    <2>3. Stays /\ Made(call)'
      BY <1>6, <2>1, <2>2 DEF Stays, Made
    <2>4. BrokerOK'
      BY <1>4, <1>6, <2>1, <2>2 DEF BrokerOK, Declared
    <2> QED BY <1>3, <2>3, <2>4
  <1>7. CASE Accepts(call) /\ call.call = "bind"
    <2>1. /\ entities' = entities /\ bindings' = bindings \cup {call.binding}
          /\ Declared(call.binding.queue)
      BY <1>5, <1>7 DEF Accepts, Declared
    <2>2. Stays /\ Made(call)'
      BY <1>7, <2>1 DEF Stays, Made
    <2>3. BrokerOK'
      BY <1>4, <1>7, <2>1 DEF BrokerOK, Declared
    <2> QED BY <1>3, <2>2, <2>3
  <1>8. CASE ~(Accepts(call) /\ call.call \in {"declare", "bind"})
    <2>1. entities' = entities /\ bindings' = bindings
      BY <1>5, <1>8
    <2>2. Stays /\ BrokerOK'
      BY <2>1 DEF Stays, BrokerOK, Declared
    <2>3. Accepts(call) => Made(call)'
      BY <1>4, <1>8 DEF Made
    <2> QED BY <1>3, <2>2, <2>3
  <1> QED BY <1>6, <1>7, <1>8

\* Nothing that was declared or bound goes away, not by a restart either.
LEMMA BrokerNext ==
    ASSUME TopologyInv, [Next]_vars
    PROVE  Stays /\ BrokerOK'
  <1> USE DEF TopologyInv
  <1>1. CASE UNCHANGED broker
    BY <1>1 DEF broker, Stays, BrokerOK, Declared
  <1>2. CASE BrokerRestart
    <2>1. {k \in DOMAIN entities : entities[k].durable} = DOMAIN entities
      BY DEF BrokerOK
    <2>2. /\ entities' = Restrict(entities, DOMAIN entities)
          /\ bindings' = {b \in bindings :
                             [kind |-> "queue", name |-> b.queue] \in DOMAIN entities}
      BY <1>2, <2>1 DEF BrokerRestart
    <2>3. DOMAIN entities' = DOMAIN entities /\ \A k \in DOMAIN entities : entities'[k] = entities[k]
      BY <2>2 DEF Restrict
    <2>4. bindings' = bindings
      BY <2>2 DEF BrokerOK, Declared
    <2> QED BY <2>3, <2>4 DEF Stays, BrokerOK, Declared
  <1>3. CASE \E c \in Clients : InitStep(c)
    BY <1>3, InitStepBroker
  <1>4. CASE \E p \in Procs : Stop(p) \/ \E v \in Versions : New(p, v)
    BY <1>1, <1>4 DEF Stop, New
  <1>5. CASE \E c \in Clients :
                \/ LoseChannel(c)
                \/ \E m \in Messages :
                      Deliver(c, m) \/ Handle(c, m) \/ \E ctx \in Contexts : Publish(c, m, ctx)
    BY <1>1, <1>5
       DEF LoseChannel, Deliver, Handle, Publish, Ack, Finalize, Requeue, Reject, Settle,
           DeadLetter
  <1>6. CASE \E m \in Messages : Expire(m)
    BY <1>1, <1>6 DEF Expire, DeadLetter
  <1>7. CASE UNCHANGED vars
    BY <1>1, <1>7 DEF vars
  <1> QED BY <1>2, <1>3, <1>4, <1>5, <1>6, <1>7 DEF Next

LEMMA MadeStays ==
    ASSUME Stays, NEW call, Made(call)
    PROVE  Made(call)'
  BY DEF Stays, Made

(***************************************************************************)
(* Processes and their clients.                                            *)
(***************************************************************************)
LEMMA CallsLen ==
    ASSUME NEW v \in Versions, NEW n \in DOMAIN Calls[v]
    PROVE  Len(Calls[v][n]) \in Nat \ {0}
  BY DEF Calls, initQueueWithRetry, initQueue

\* A client within init, with everything it declared so far in place.
ClientOK(c) ==
    Running(c) => /\ conf[c[1]] # Nil
                  /\ c[2] \in DOMAIN Calls[conf[c[1]]]
                  /\ step[c] <= Len(InitCalls(c)) + 1
                  /\ \A i \in 1..(step[c] - 1) : Made(InitCalls(c)[i])

\* The same in the next state, with the calls of the client named.
LEMMA ClientOKNext ==
    ASSUME NEW c, NEW v \in Versions, conf'[c[1]] = v, v # Nil,
           c[2] \in DOMAIN Calls[v],
           step'[c] <= Len(Calls[v][c[2]]) + 1,
           \A i \in 1..(step'[c] - 1) : Made(Calls[v][c[2]][i])'
    PROVE  ClientOK(c)'
  <1>1. InitCalls(c)' = Calls[v][c[2]]
    BY DEF InitCalls
  <1>2. \A i \in 1..(step'[c] - 1) : Made(InitCalls(c)[i])'
    BY <1>1 DEF Made
  <1> QED BY <1>1, <1>2 DEF ClientOK

\* A client whose process goes on, and that stays where it was in init, starts it
\* over, or does not run, still has what it declared.
LEMMA ClientKeeps ==
    ASSUME ConfOK, CallsMade, Stays, NEW c \in Clients,
           \/ conf'[c[1]] = conf[c[1]] /\ (step'[c] = step[c] \/ (Running(c) /\ step'[c] = 1))
           \/ step'[c] = 0
    PROVE  ClientOK(c)'
  <1> SUFFICES ASSUME Running(c)' PROVE ClientOK(c)'
    BY DEF ClientOK
  <1>1. /\ Running(c) /\ conf'[c[1]] = conf[c[1]]
        /\ step'[c] = step[c] \/ step'[c] = 1
    BY DEF Running
  <1>2. /\ conf[c[1]] # Nil /\ conf[c[1]] \in Versions
        /\ c[2] \in DOMAIN Calls[conf[c[1]]]
        /\ step[c] \in Nat /\ step[c] <= Len(Calls[conf[c[1]]][c[2]]) + 1
    BY <1>1 DEF ConfOK, Clients, InitCalls
  <1>3. PICK v \in Versions : v = conf[c[1]]
    BY <1>2
  <1>4. Len(Calls[v][c[2]]) \in Nat \ {0}
    BY <1>2, <1>3, CallsLen
  <1>5. \A i \in 1..(step[c] - 1) : Made(Calls[v][c[2]][i])
    BY <1>1, <1>3 DEF CallsMade, InitCalls
  <1>6. \A i \in 1..(step'[c] - 1) : i \in 1..(step[c] - 1)
    BY <1>1, <1>2
  <1>7. \A i \in 1..(step'[c] - 1) : Made(Calls[v][c[2]][i])'
    BY <1>5, <1>6, MadeStays
  <1>8. step'[c] <= Len(Calls[v][c[2]]) + 1
    BY <1>1, <1>2, <1>3, <1>4
  <1> QED BY <1>1, <1>2, <1>3, <1>7, <1>8, ClientOKNext

LEMMA ClientsNext ==
    ASSUME TopologyInv, [Next]_vars
    PROVE  ConfOK' /\ CallsMade'
  <1> USE TopologyAssumption
  <1>1. ConfOK /\ CallsMade /\ BrokerOK
    BY DEF TopologyInv
  <1>2. Stays
    BY BrokerNext
  <1>3. ASSUME /\ conf' \in [Procs -> Versions \cup {Nil}] /\ step' \in [Clients -> Nat]
               /\ \A p \in Procs : conf'[p] # Nil => "nil" \in Results[conf'[p]],
               \A c \in Clients : ClientOK(c)'
        PROVE  ConfOK' /\ CallsMade'
    <2>1. Clients' = Clients
      BY DEF Clients
    <2>2. CallsMade'
      BY <1>3, <2>1 DEF ClientOK, CallsMade
    <2>3. \A c \in Clients : Running(c)' => /\ conf'[c[1]] # Nil
                                            /\ (c[2] \in DOMAIN Calls[conf[c[1]]])'
                                            /\ (step[c] <= Len(InitCalls(c)) + 1)'
      BY <1>3 DEF ClientOK
    <2>4. ConfOK'
      BY <1>3, <2>3 DEF ConfOK
    <2> QED BY <2>2, <2>4
  <1>4. CASE UNCHANGED <<conf, step>>
    <2>1. \A c \in Clients : ClientOK(c)'
      BY <1>1, <1>2, <1>4, ClientKeeps
    <2> QED BY <1>1, <1>3, <1>4, <2>1 DEF ConfOK
  <1>5. ASSUME NEW p \in Procs, Stop(p)
        PROVE  ConfOK' /\ CallsMade'
    <2>1. /\ conf' = [conf EXCEPT ![p] = Nil]
          /\ step' = [c \in Clients |-> IF c[1] = p THEN 0 ELSE step[c]]
      BY <1>5 DEF Stop
    <2>2. /\ conf' \in [Procs -> Versions \cup {Nil}] /\ step' \in [Clients -> Nat]
          /\ \A q \in Procs : conf'[q] # Nil => "nil" \in Results[conf'[q]]
      BY <1>1, <2>1 DEF ConfOK
    <2>3. \A c \in Clients : \/ conf'[c[1]] = conf[c[1]] /\ step'[c] = step[c]
                             \/ step'[c] = 0
      BY <1>1, <2>1 DEF ConfOK, Clients
    <2> QED BY <1>1, <1>2, <1>3, <2>2, <2>3, ClientKeeps
  <1>6. ASSUME NEW p \in Procs, NEW v \in Versions, New(p, v)
        PROVE  ConfOK' /\ CallsMade'
    <2>1. CASE UNCHANGED <<conf, step>>
      BY <1>4, <2>1
    <2>2. CASE ~UNCHANGED <<conf, step>>
      <3>1. /\ conf[p] = Nil /\ "nil" \in Results[v]
            /\ conf' = [conf EXCEPT ![p] = v]
            /\ step' = [c \in Clients |-> IF c[1] = p /\ c[2] \in DOMAIN Calls[v]
                                          THEN 1 ELSE step[c]]
        BY <1>6, <2>2 DEF New
      <3>2. /\ conf' \in [Procs -> Versions \cup {Nil}] /\ step' \in [Clients -> Nat]
            /\ \A q \in Procs : conf'[q] # Nil => "nil" \in Results[conf'[q]]
        BY <1>1, <3>1 DEF ConfOK
      <3>3. ASSUME NEW c \in Clients, c[1] # p
            PROVE  conf'[c[1]] = conf[c[1]] /\ step'[c] = step[c]
        BY <1>1, <3>1, <3>3 DEF ConfOK, Clients
      <3>4. ASSUME NEW c \in Clients, c[1] = p, Running(c)'
            PROVE  ClientOK(c)'
        <4>1. ~Running(c)
          BY <1>1, <3>1, <3>4 DEF ConfOK
        <4>2. c[2] \in DOMAIN Calls[v] /\ step'[c] = 1 /\ conf'[c[1]] = v /\ v # Nil
          BY <1>1, <3>1, <3>4, <4>1 DEF ConfOK, Running
        <4>3. Len(Calls[v][c[2]]) \in Nat \ {0}
          BY <4>2, CallsLen
        <4>4. step'[c] <= Len(Calls[v][c[2]]) + 1 /\ 1..(step'[c] - 1) = {}
          BY <4>2, <4>3
        <4> QED BY <4>2, <4>4, ClientOKNext
      <3>5. \A c \in Clients : ClientOK(c)'
        BY <1>1, <1>2, <3>3, <3>4, ClientKeeps DEF ClientOK
      <3> QED BY <1>3, <3>2, <3>5
    <2> QED BY <2>1, <2>2
  <1>7. ASSUME NEW c \in Clients, LoseChannel(c)
        PROVE  ConfOK' /\ CallsMade'
    <2>1. conf' = conf /\ step' = [step EXCEPT ![c] = 1] /\ Running(c)
      BY <1>7 DEF LoseChannel
    <2>2. step' \in [Clients -> Nat]
          /\ \A d \in Clients : step'[d] = step[d] \/ (Running(d) /\ step'[d] = 1)
      BY <1>1, <2>1 DEF ConfOK
    <2>3. \A d \in Clients : ClientOK(d)'
      BY <1>1, <1>2, <2>1, <2>2, ClientKeeps
    <2> QED BY <1>1, <1>3, <2>1, <2>2, <2>3 DEF ConfOK
  <1>8. CASE BrokerRestart
    <2>1. conf' = conf /\ step' = [c \in Clients |-> IF Running(c) THEN 1 ELSE 0]
      BY <1>8 DEF BrokerRestart
    <2>2. step' \in [Clients -> Nat]
          /\ \A d \in Clients : step'[d] = 0 \/ (Running(d) /\ step'[d] = 1)
      BY <1>1, <2>1 DEF ConfOK
    <2>3. \A d \in Clients : ClientOK(d)'
      BY <1>1, <1>2, <2>1, <2>2, ClientKeeps
    <2> QED BY <1>1, <1>3, <2>1, <2>2, <2>3 DEF ConfOK
  <1>9. ASSUME NEW c \in Clients, InitStep(c)
        PROVE  ConfOK' /\ CallsMade'
    <2>1. /\ conf' = conf /\ Running(c) /\ ~Ready(c)
          /\ step' = [step EXCEPT ![c] = IF Accepts(InitCalls(c)[step[c]]) THEN @ + 1 ELSE 1]
      BY <1>9 DEF InitStep
    <2>2. step' \in [Clients -> Nat] /\ \A d \in Clients \ {c} : step'[d] = step[d]
      BY <1>1, <2>1 DEF ConfOK
    <2>3. ClientOK(c)'
      <3>1. CASE step'[c] = 1
        BY <1>1, <1>2, <2>1, <3>1, ClientKeeps
      <3>2. CASE step'[c] # 1
        <4>1. /\ conf[c[1]] # Nil /\ conf[c[1]] \in Versions
              /\ c[2] \in DOMAIN Calls[conf[c[1]]] /\ step[c] \in Nat
          BY <1>1, <2>1 DEF ConfOK, Clients
        <4>2. PICK v \in Versions : v = conf[c[1]]
          BY <4>1
        <4>3. PICK call : call = InitCalls(c)[step[c]]
          OBVIOUS
        <4>4. Accepts(call) /\ step'[c] = step[c] + 1
          BY <1>1, <2>1, <3>2, <4>3 DEF ConfOK
        <4>5. Made(call)'
          BY <1>1, <1>9, <4>3, <4>4, InitStepBroker
        <4>6. \A i \in 1..(step[c] - 1) : Made(Calls[v][c[2]][i])'
          <5>1. \A i \in 1..(step[c] - 1) : Made(Calls[v][c[2]][i])
            BY <1>1, <2>1, <4>2 DEF CallsMade, InitCalls
          <5> QED BY <1>2, <5>1, MadeStays
        <4>7. call = Calls[v][c[2]][step[c]]
          BY <4>2, <4>3 DEF InitCalls
        <4>8. \A i \in 1..(step'[c] - 1) : i \in 1..(step[c] - 1) \/ i = step[c]
          BY <4>1, <4>4
        <4>9. \A i \in 1..(step'[c] - 1) : Made(Calls[v][c[2]][i])'
          <5>1. SUFFICES ASSUME NEW i \in 1..(step'[c] - 1), i = step[c]
                         PROVE  Made(Calls[v][c[2]][i])'
            BY <4>6, <4>8
          <5>2. Calls[v][c[2]][i] = call
            BY <4>7, <5>1
          <5> QED BY <4>5, <5>2 DEF Made
        <4>10. step'[c] <= Len(Calls[v][c[2]]) + 1
          <5>1. ~(step[c] > Len(Calls[v][c[2]]))
            BY <2>1, <4>2 DEF Ready, InitCalls
          <5>2. Len(Calls[v][c[2]]) \in Nat
            BY <4>1, <4>2, CallsLen
          <5> QED BY <4>1, <4>4, <5>1, <5>2
        <4> QED BY <2>1, <4>1, <4>2, <4>9, <4>10, ClientOKNext
      <3> QED BY <3>1, <3>2
    <2>4. \A d \in Clients : ClientOK(d)'
      BY <1>1, <1>2, <2>1, <2>2, <2>3, ClientKeeps
    <2> QED BY <1>1, <1>3, <2>1, <2>2, <2>4 DEF ConfOK
  <1>10. CASE \E c \in Clients, m \in Messages :
                 Deliver(c, m) \/ Handle(c, m) \/ \E ctx \in Contexts : Publish(c, m, ctx)
    BY <1>4, <1>10
       DEF Deliver, Handle, Publish, Ack, Finalize, Requeue, Reject, Settle, DeadLetter
  <1>11. CASE \E m \in Messages : Expire(m)
    BY <1>4, <1>11 DEF Expire, DeadLetter
  <1>12. CASE UNCHANGED vars
    BY <1>4, <1>12 DEF vars
  <1> QED BY <1>5, <1>6, <1>7, <1>8, <1>9, <1>10, <1>11, <1>12 DEF Next

(***************************************************************************)
(* Messages.                                                               *)
(***************************************************************************)
LEMMA PlacedStays ==
    ASSUME Stays, NEW m, Placed(m), msg'[m].at = msg[m].at, msg'[m].dest = msg[m].dest
    PROVE  Placed(m)'
  BY DEF Stays, Placed, Declared, Args

\* Steps that change no header but the stamped ones.
LEMMA HeadersKept ==
    ASSUME Stays, NEW m, MessageOK(m), HeadersOK(m),
           msg'[m].st \in {"queued", "unacked"} => msg[m].st \in {"queued", "unacked"},
           msg'[m].dest = msg[m].dest, msg'[m].from = msg[m].from, msg'[m].ctx = msg[m].ctx,
           "expired" \in DOMAIN msg[m].hdr => "expired" \in DOMAIN msg'[m].hdr,
           Agrees(msg'[m].hdr, msg[m].hdr)
    PROVE  HeadersOK(m)'
  <1> SUFFICES ASSUME msg'[m].st \in {"queued", "unacked"}
               PROVE  HeadersOK(m)'
    BY DEF HeadersOK
  <1>1. PICK built : built = NewPublishHeadersBuilder(Opts[msg[m].from].publishHeadersBuilder,
                                                      msg[m].ctx)
    OBVIOUS
  <1>2. Declared(msg[m].dest)
    BY DEF MessageOK, Placed
  <1>3. /\ msg[m].ctx \in Contexts
        /\ Args(msg[m].dest).dlx # Nil => "expired" \in DOMAIN msg[m].hdr
        /\ Agrees(msg[m].hdr, built)
    BY <1>1 DEF HeadersOK
  <1>4. Args(msg[m].dest)' = Args(msg[m].dest)
    BY <1>2 DEF Stays, Declared, Args
  <1>5. Agrees(msg'[m].hdr, built)
    BY <1>3 DEF Agrees
  <1> QED BY <1>1, <1>3, <1>4, <1>5 DEF HeadersOK

\* The broker's x-death table is one of them.
LEMMA PutDeath ==
    ASSUME NEW h
    PROVE  /\ "expired" \in DOMAIN h => "expired" \in DOMAIN Put(h, "x-death", Nil)
           /\ Agrees(Put(h, "x-death", Nil), h)
  BY DEF Put, PutAll, Agrees, Stamped

\* A message that a step leaves alone.
LEMMA MessageKept ==
    ASSUME Stays, NEW m, MessageOK(m), HeadersOK(m), msg'[m] = msg[m],
           \A c \in Clients : c = msg[m].by /\ Ready(c) => Ready(c)'
    PROVE  MessageOK(m)' /\ HeadersOK(m)'
  <1>1. msg[m].st \in {"queued", "unacked"} => Placed(m)'
    BY PlacedStays DEF MessageOK
  <1>2. msg'[m].by # Nil => Ready(msg[m].by)'
    <2>1. SUFFICES ASSUME msg[m].by # Nil PROVE Ready(msg[m].by)'
      OBVIOUS
    <2>2. PICK c \in Clients : c = msg[m].by
      BY <2>1 DEF MessageOK
    <2>3. Ready(c)' /\ c = msg'[m].by
      BY <2>1, <2>2 DEF MessageOK
    <2> QED BY <2>3 DEF Ready, Running, InitCalls
  <1>3. MessageOK(m)'
    BY <1>1, <1>2 DEF MessageOK, Clients
  <1>4. HeadersOK(m)'
    BY HeadersKept DEF Agrees
  <1> QED BY <1>3, <1>4

\* A message whose delivery ends where it is.
LEMMA MessageSettled ==
    ASSUME Stays, NEW m, MessageOK(m), HeadersOK(m), NEW st \in States \ {"lost", "unacked"},
           msg'[m] = [msg[m] EXCEPT !.st = st, !.by = Nil],
           st = "queued" => Placed(m) /\ msg[m].st \in {"queued", "unacked"}
    PROVE  MessageOK(m)' /\ HeadersOK(m)'
  <1>1. /\ DOMAIN msg'[m] = DOMAIN msg[m]
        /\ msg'[m].st = st /\ msg'[m].by = Nil
        /\ msg'[m].at = msg[m].at /\ msg'[m].dest = msg[m].dest
        /\ msg'[m].hdr = msg[m].hdr /\ msg'[m].from = msg[m].from /\ msg'[m].ctx = msg[m].ctx
    BY DEF MessageOK, NoMessage
  <1>2. st = "queued" => Placed(m)'
    BY <1>1, PlacedStays
  <1>3. HeadersOK(m)'
    BY <1>1, HeadersKept DEF States, Agrees
  <1>4. MessageOK(m)'
    BY <1>1, <1>2 DEF MessageOK, States
  <1> QED BY <1>3, <1>4

\* A handler's message is in the queue it was published to.
LEMMA HandledAtHome ==
    ASSUME ConfOK, CallsMade, NEW m, MessageOK(m), msg[m].by # Nil
    PROVE  /\ msg[m].by \in Clients /\ Ready(msg[m].by) /\ Placed(m)
           /\ msg[m].at = msg[m].by[2] /\ msg[m].dest = msg[m].by[2]
  <1>1. /\ msg[m].by \in Clients /\ Ready(msg[m].by) /\ Placed(m)
        /\ msg[m].at = msg[m].by[2]
    BY DEF MessageOK
  <1>2. Args(msg[m].at).ttl = Nil
    BY <1>1, ReadyWired
  <1> QED BY <1>1, <1>2 DEF Placed

\* A rejected message goes to the delay queue, or is dropped without retry mode.
LEMMA RejectedTo ==
    ASSUME TopologyInv, NEW c \in Clients, NEW m \in Messages, msg[m].by = c, Reject(c, m)
    PROVE  \/ ~WithRetry(c) /\ msg' = [msg EXCEPT ![m].st = "dropped", ![m].by = Nil]
           \/ WithRetry(c) /\ msg' = [msg EXCEPT ![m].st = "queued", ![m].by = Nil,
                                                 ![m].at = DelayQ(c[2]),
                                                 ![m].hdr = Put(@, "x-death", Nil)]
  <1> DEFINE routes == {b.queue : b \in {b \in bindings : b.ex = Args(msg[m].at).dlx}}
  <1>1. ConfOK /\ CallsMade /\ BrokerOK /\ MessageOK(m)
    BY DEF TopologyInv, MessagesOK
  <1>2. c # Nil
    BY TopologyAssumption DEF Clients
  <1>3. Ready(c) /\ msg[m].at = c[2]
    BY <1>1, <1>2, HandledAtHome
  <1>4. c[2] \in Names /\ c[2] \in Seq(Parts)
    BY <1>1, <1>3, ReadyWired, TopologyAssumption
  <1>5. /\ ~WithRetry(c) => Args(c[2]).dlx = Nil
        /\ WithRetry(c) => /\ Args(c[2]).dlx = DelayEx(c[2])
                           /\ [ex |-> DelayEx(c[2]), queue |-> DelayQ(c[2])] \in bindings
    BY <1>1, <1>3, ReadyWired
  <1>6. \A b \in bindings : b.queue \in Seq(Parts) /\ b.ex = Ex(b.queue) /\ b.ex # Nil
    BY <1>1, NameFacts DEF BrokerOK
  <1>7. IF routes = {}
        THEN msg' = [msg EXCEPT ![m].st = IF WithRetry(c) THEN "lost" ELSE "dropped",
                                ![m].by = Nil]
        ELSE \E n \in routes :
                msg' = [msg EXCEPT ![m].st = "queued", ![m].by = Nil, ![m].at = n,
                                   ![m].hdr = Put(@, "x-death", Nil)]
    BY Zenon DEF Reject, DeadLetter
  <1>8. CASE ~WithRetry(c)
    <2>1. routes = {}
      BY <1>3, <1>5, <1>6, <1>8
    <2> QED BY <1>7, <1>8, <2>1
  <1>9. CASE WithRetry(c)
    <2>1. /\ DelayQ(c[2]) \in Seq(Parts) /\ DelayEx(c[2]) = Ex(DelayQ(c[2]))
      BY <1>4, NameFacts
    <2>2. DelayQ(c[2]) \in routes
      BY <1>3, <1>5, <1>9
    <2>3. \A n \in routes : n = DelayQ(c[2])
      BY <1>3, <1>5, <1>6, <1>9, <2>1, ExInjective
    <2> QED BY <1>7, <1>9, <2>2, <2>3
  <1> QED BY <1>8, <1>9

\* A message that expires was in the delay queue and goes back.
LEMMA ExpiredTo ==
    ASSUME TopologyInv, NEW m \in Messages, Expire(m)
    PROVE  msg' = [msg EXCEPT ![m].st = "queued", ![m].by = Nil, ![m].at = msg[m].dest,
                              ![m].hdr = Put(@, "x-death", Nil)]
  <1> DEFINE routes == {b.queue : b \in {b \in bindings : b.ex = Args(msg[m].at).dlx}}
  <1>1. BrokerOK /\ MessageOK(m)
    BY DEF TopologyInv, MessagesOK
  <1>2. msg[m].st = "queued" /\ Args(msg[m].at).ttl # Nil /\ Placed(m)
    BY <1>1 DEF Expire, MessageOK
  <1>3. /\ Args(msg[m].at).dlx = Ex(msg[m].dest)
        /\ [ex |-> Ex(msg[m].dest), queue |-> msg[m].dest] \in bindings
        /\ msg[m].dest \in Seq(Parts)
    BY <1>2, TopologyAssumption DEF Placed
  <1>4. \A b \in bindings : b.queue \in Seq(Parts) /\ b.ex = Ex(b.queue)
    BY <1>1 DEF BrokerOK
  <1>5. msg[m].dest \in routes
    BY <1>3
  <1>6. \A n \in routes : n = msg[m].dest
    BY <1>3, <1>4, ExInjective
  <1>7. \E n \in routes :
           msg' = [msg EXCEPT ![m].st = "queued", ![m].by = Nil, ![m].at = n,
                              ![m].hdr = Put(@, "x-death", Nil)]
    BY <1>5, Zenon DEF Expire, DeadLetter
  <1> QED BY <1>6, <1>7

LEMMA ReadyKept ==
    ASSUME NEW c, Ready(c), conf'[c[1]] = conf[c[1]], step'[c] = step[c]
    PROVE  Ready(c)'
  BY DEF Ready, Running, InitCalls

\* A step on one message that leaves the clients as they are.
LEMMA OneMessage ==
    ASSUME Stays, MessagesOK, UNCHANGED <<conf, step>>, NEW m \in Messages, NEW r,
           msg' = [msg EXCEPT ![m] = r], MessageOK(m)', HeadersOK(m)'
    PROVE  MessagesOK'
  <1>1. DOMAIN msg' = Messages /\ \A o \in Messages \ {m} : msg'[o] = msg[o]
    BY DEF MessagesOK
  <1>2. \A c \in Clients : Ready(c) => Ready(c)'
    BY ReadyKept
  <1>3. \A o \in Messages \ {m} : MessageOK(o)' /\ HeadersOK(o)'
    BY <1>1, <1>2, MessageKept DEF MessagesOK
  <1> QED BY <1>1, <1>3 DEF MessagesOK

\* The clients in C give their deliveries back, the others keep theirs.
LEMMA RequeuedOK ==
    ASSUME TopologyInv, Stays, NEW C, C \subseteq Clients, msg' = Requeued(C),
           \A c \in Clients \ C : Ready(c) => Ready(c)'
    PROVE  MessagesOK'
  <1>1. /\ DOMAIN msg' = Messages /\ DOMAIN msg = Messages
        /\ \A m \in Messages : MessageOK(m) /\ HeadersOK(m)
    BY DEF Requeued, TopologyInv, MessagesOK
  <1>2. ASSUME NEW m \in Messages, msg[m].by \in C
        PROVE  MessageOK(m)' /\ HeadersOK(m)'
    <2>1. msg'[m] = [msg[m] EXCEPT !.st = "queued", !.by = Nil]
      BY <1>2 DEF Requeued
    <2>2. msg[m].by # Nil
      BY <1>2, TopologyAssumption DEF Clients
    <2>3. Placed(m) /\ msg[m].st = "unacked"
      BY <1>1, <2>2 DEF MessageOK
    <2> QED BY <1>1, <2>1, <2>3, MessageSettled DEF States
  <1>3. ASSUME NEW m \in Messages, msg[m].by \notin C
        PROVE  MessageOK(m)' /\ HeadersOK(m)'
    <2>1. msg'[m] = msg[m]
      BY <1>3 DEF Requeued
    <2> QED BY <1>1, <1>3, <2>1, MessageKept
  <1> QED BY <1>1, <1>2, <1>3 DEF MessagesOK

LEMMA HandleOK ==
    ASSUME TopologyInv, Stays, NEW c \in Clients, NEW m \in Messages, Handle(c, m)
    PROVE  MessagesOK'
  <1>1. /\ ConfOK /\ CallsMade /\ MessagesOK /\ MessageOK(m) /\ HeadersOK(m)
        /\ msg[m].by = c /\ c # Nil
    BY TopologyAssumption DEF TopologyInv, MessagesOK, Handle, Clients
  <1>2. /\ Ready(c) /\ Placed(m) /\ msg[m].at = c[2] /\ msg[m].dest = c[2]
        /\ msg[m].st = "unacked"
    BY <1>1, HandledAtHome DEF MessageOK
  <1>3. UNCHANGED <<conf, step, entities, bindings>>
    BY DEF Handle, Ack, Finalize, Requeue, Reject, Settle, DeadLetter, broker
  <1>4. ASSUME NEW st \in States \ {"lost", "unacked"}, Settle(m, st)
        PROVE  MessagesOK'
    <2>1. PICK r : r = [msg[m] EXCEPT !.st = st, !.by = Nil]
      OBVIOUS
    <2>2. msg' = [msg EXCEPT ![m] = r] /\ msg'[m] = r
      BY <1>1, <1>4, <2>1 DEF MessagesOK, Settle
    <2>3. MessageOK(m)' /\ HeadersOK(m)'
      BY <1>1, <1>2, <2>1, <2>2, MessageSettled
    <2> QED BY <1>1, <1>3, <2>2, <2>3, OneMessage
  <1>5. {"queued", "done", "failed", "dropped"} \subseteq States \ {"lost", "unacked"}
    BY DEF States
  <1>6. CASE Ack(m)
    BY <1>4, <1>5, <1>6 DEF Ack
  <1>7. CASE Finalize(c, m)
    <2>1. Opts[conf[c[1]]].failHandler # Nil
      <3>1. /\ conf[c[1]] \in Versions /\ c[2] \in DOMAIN Deployment[conf[c[1]]].QueueParams
        BY <1>1, <1>2, CallsOf DEF Ready
      <3>2. "nil" \in Results[conf[c[1]]]
        BY <1>1, <3>1, TopologyAssumption DEF ConfOK, Clients
      <3> QED BY <1>7, <3>1, <3>2, Accepted DEF Finalize, WithRetry, Item
    <2>2. Settle(m, "failed")
      BY <1>7, <2>1, Zenon DEF Finalize
    <2> QED BY <1>4, <1>5, <2>2
  <1>8. CASE Requeue(c, m)
    BY <1>4, <1>5, <1>8 DEF Requeue
  <1>9. CASE Reject(c, m)
    <2>1. CASE ~WithRetry(c)
      <3>1. msg' = [msg EXCEPT ![m].st = "dropped", ![m].by = Nil]
        BY <1>1, <1>9, <2>1, RejectedTo
      <3>2. Settle(m, "dropped")
        BY <1>3, <1>9, <3>1, Zenon DEF Reject, DeadLetter, Settle
      <3> QED BY <1>4, <1>5, <3>2
    <2>2. CASE WithRetry(c)
      <3>1. PICK h : h = Put(msg[m].hdr, "x-death", Nil)
        OBVIOUS
      <3>2. msg' = [msg EXCEPT ![m].st = "queued", ![m].by = Nil, ![m].at = DelayQ(c[2]),
                               ![m].hdr = Put(@, "x-death", Nil)]
        BY <1>1, <1>9, <2>2, RejectedTo
      <3>3. PICK r : r = [msg[m] EXCEPT !.st = "queued", !.by = Nil, !.at = DelayQ(c[2]),
                                        !.hdr = h]
        OBVIOUS
      <3>4. msg' = [msg EXCEPT ![m] = r] /\ msg'[m] = r
        BY <1>1, <3>1, <3>2, <3>3 DEF MessagesOK
      <3>5. /\ DOMAIN r = DOMAIN msg[m]
            /\ r.st = "queued" /\ r.by = Nil /\ r.at = DelayQ(c[2]) /\ r.dest = c[2]
            /\ r.from = msg[m].from /\ r.ctx = msg[m].ctx /\ r.hdr = h
        BY <1>1, <1>2, <3>3 DEF MessageOK, NoMessage
      <3>6. Item(c).Retry.Delay \div Millisecond \in Int
        <4>1. Item(c).Retry.Delay \in Int
          BY <1>1, <1>2, <2>2, CallsOf DEF Ready
        <4> QED BY <4>1, MillisecondAssumption
      <3>7. /\ Declared(DelayQ(c[2])) /\ Args(DelayQ(c[2])).dlx = Ex(c[2])
            /\ Args(DelayQ(c[2])).ttl # Nil
            /\ [ex |-> Ex(c[2]), queue |-> c[2]] \in bindings
            /\ c[2] \in Names /\ Declared(c[2]) /\ Args(c[2]).ttl = Nil
        BY <1>1, <1>2, <2>2, <3>6, ReadyWired, TopologyAssumption
      <3>8. Placed(m)'
        BY <1>3, <3>4, <3>5, <3>7 DEF Placed, Declared, Args
      <3>9. MessageOK(m)'
        BY <1>1, <3>4, <3>5, <3>8 DEF MessageOK, States
      <3>10. HeadersOK(m)'
        BY <1>1, <1>2, <3>1, <3>4, <3>5, PutDeath, HeadersKept
      <3> QED BY <1>1, <1>3, <3>4, <3>9, <3>10, OneMessage
    <2> QED BY <2>1, <2>2
  <1> QED BY <1>6, <1>7, <1>8, <1>9 DEF Handle

LEMMA ExpireOK ==
    ASSUME TopologyInv, Stays, NEW m \in Messages, Expire(m)
    PROVE  MessagesOK'
  <1>1. MessagesOK /\ MessageOK(m) /\ HeadersOK(m) /\ msg[m].st = "queued" /\ Placed(m)
    BY DEF TopologyInv, MessagesOK, MessageOK, Expire
  <1>2. UNCHANGED <<conf, step, entities, bindings>>
    BY DEF Expire, DeadLetter, broker
  <1>3. PICK h : h = Put(msg[m].hdr, "x-death", Nil)
    OBVIOUS
  <1>4. PICK r : r = [msg[m] EXCEPT !.st = "queued", !.by = Nil, !.at = msg[m].dest, !.hdr = h]
    OBVIOUS
  <1>5. msg' = [msg EXCEPT ![m].st = "queued", ![m].by = Nil, ![m].at = msg[m].dest,
                           ![m].hdr = Put(@, "x-death", Nil)]
    BY ExpiredTo
  <1>6. msg' = [msg EXCEPT ![m] = r] /\ msg'[m] = r
    BY <1>1, <1>3, <1>4, <1>5 DEF MessagesOK
  <1>7. /\ DOMAIN r = DOMAIN msg[m]
        /\ r.st = "queued" /\ r.by = Nil /\ r.at = msg[m].dest /\ r.dest = msg[m].dest
        /\ r.from = msg[m].from /\ r.ctx = msg[m].ctx /\ r.hdr = h
    BY <1>1, <1>4 DEF MessageOK, NoMessage
  <1>8. Placed(m)'
    BY <1>1, <1>2, <1>6, <1>7 DEF Placed, Declared, Args
  <1>9. MessageOK(m)'
    BY <1>1, <1>6, <1>7, <1>8 DEF MessageOK, States
  <1>10. HeadersOK(m)'
    BY <1>1, <1>3, <1>6, <1>7, PutDeath, HeadersKept
  <1> QED BY <1>1, <1>2, <1>6, <1>9, <1>10, OneMessage

LEMMA DeliverOK ==
    ASSUME TopologyInv, Stays, NEW c \in Clients, NEW m \in Messages, Deliver(c, m)
    PROVE  MessagesOK'
  <1>1. MessagesOK /\ MessageOK(m) /\ HeadersOK(m) /\ msg[m].st = "queued" /\ Placed(m)
    BY DEF TopologyInv, MessagesOK, MessageOK, Deliver
  <1>2. /\ UNCHANGED <<conf, step>> /\ Ready(c) /\ msg[m].at = c[2]
        /\ msg' = [msg EXCEPT ![m].st = "unacked", ![m].by = c]
    BY DEF Deliver
  <1>3. PICK r : r = [msg[m] EXCEPT !.st = "unacked", !.by = c]
    OBVIOUS
  <1>4. msg' = [msg EXCEPT ![m] = r] /\ msg'[m] = r
    BY <1>1, <1>2, <1>3 DEF MessagesOK
  <1>5. /\ DOMAIN r = DOMAIN msg[m]
        /\ r.st = "unacked" /\ r.by = c /\ r.at = msg[m].at /\ r.dest = msg[m].dest
        /\ r.from = msg[m].from /\ r.ctx = msg[m].ctx /\ r.hdr = msg[m].hdr
    BY <1>1, <1>3 DEF MessageOK, NoMessage
  <1>6. Placed(m)'
    BY <1>1, <1>4, <1>5, PlacedStays
  <1>7. Ready(c)' /\ c # Nil
    BY <1>2, ReadyKept, TopologyAssumption DEF Clients
  <1>8. Ready(msg[m].by)'
    BY <1>4, <1>5, <1>7 DEF Ready, Running, InitCalls
  <1>9. MessageOK(m)'
    BY <1>1, <1>2, <1>4, <1>5, <1>6, <1>7, <1>8 DEF MessageOK, States
  <1>10. HeadersOK(m)'
    BY <1>1, <1>4, <1>5, HeadersKept DEF Agrees
  <1> QED BY <1>1, <1>2, <1>4, <1>9, <1>10, OneMessage

LEMMA PublishOK ==
    ASSUME TopologyInv, Stays, NEW c \in Clients, NEW m \in Messages, NEW ctx \in Contexts,
           Publish(c, m, ctx)
    PROVE  MessagesOK'
  <1>1. ConfOK /\ CallsMade /\ MessagesOK /\ MessageOK(m) /\ Ready(c)
    BY DEF TopologyInv, MessagesOK, Publish
  <1>2. c[2] \in Names /\ Declared(c[2]) /\ Args(c[2]).ttl = Nil
    BY <1>1, ReadyWired
  <1>3. PICK built :
           built = NewPublishHeadersBuilder(Opts[conf[c[1]]].publishHeadersBuilder, ctx)
    OBVIOUS
  <1>4. PICK h : h = Stamp(c, built)
    OBVIOUS
  <1>5. PICK r : r = [st |-> "queued", at |-> c[2], dest |-> c[2], ctx |-> ctx, by |-> Nil,
                      from |-> conf[c[1]], hdr |-> h]
    OBVIOUS
  <1>6. msg' = [msg EXCEPT ![m] = r] /\ UNCHANGED <<conf, step, entities, bindings>>
    BY <1>2, <1>3, <1>4, <1>5 DEF Publish, broker
  <1>7. /\ msg'[m] = r /\ DOMAIN r = DOMAIN NoMessage
        /\ r.st = "queued" /\ r.by = Nil /\ r.at = c[2] /\ r.dest = c[2]
        /\ r.from = conf[c[1]] /\ r.ctx = ctx /\ r.hdr = h
    BY <1>1, <1>5, <1>6 DEF MessagesOK, NoMessage
  <1>8. Placed(m)'
    BY <1>2, <1>6, <1>7 DEF Placed, Declared, Args
  <1>9. MessageOK(m)'
    BY <1>7, <1>8 DEF MessageOK, States
  <1>10. /\ Args(c[2]).dlx # Nil => "expired" \in DOMAIN h
         /\ Agrees(h, built)
    <2>1. Args(c[2]).dlx # Nil => WithRetry(c)
      BY <1>1, ReadyWired
    <2> QED BY <1>4, <2>1 DEF Stamp, Put, PutAll, Agrees, Stamped
  <1>11. HeadersOK(m)'
    <2>1. Args(msg[m].dest)' = Args(c[2])
      BY <1>6, <1>7 DEF Args
    <2>2. conf[c[1]] = msg'[m].from /\ ctx = msg'[m].ctx /\ h = msg'[m].hdr
      BY <1>7
    <2> QED BY <1>3, <1>10, <2>1, <2>2 DEF HeadersOK
  <1> QED BY <1>1, <1>6, <1>9, <1>11, OneMessage

LEMMA MessagesNext ==
    ASSUME TopologyInv, [Next]_vars
    PROVE  MessagesOK'
  <1>1. ConfOK /\ CallsMade /\ BrokerOK /\ MessagesOK
    BY DEF TopologyInv
  <1>2. Stays
    BY BrokerNext
  <1>3. ASSUME msg' = msg, \A c \in Clients : Ready(c) => Ready(c)'
        PROVE  MessagesOK'
    <2>1. \A m \in Messages : MessageOK(m)' /\ HeadersOK(m)'
      BY <1>1, <1>2, <1>3, MessageKept DEF MessagesOK
    <2> QED BY <1>1, <1>3, <2>1 DEF MessagesOK
  <1>4. ASSUME NEW p \in Procs, Stop(p)
        PROVE  MessagesOK'
    <2>1. /\ msg' = Requeued({p} \X Names) /\ conf' = [conf EXCEPT ![p] = Nil]
          /\ step' = [c \in Clients |-> IF c[1] = p THEN 0 ELSE step[c]]
      BY <1>4 DEF Stop
    <2>2. {p} \X Names \subseteq Clients
      BY DEF Clients
    <2>3. ASSUME NEW c \in Clients \ ({p} \X Names)
          PROVE  conf'[c[1]] = conf[c[1]] /\ step'[c] = step[c]
      BY <1>1, <2>1 DEF Clients, ConfOK
    <2>4. \A c \in Clients \ ({p} \X Names) : Ready(c) => Ready(c)'
      BY <2>3, ReadyKept
    <2> QED BY <1>2, <2>1, <2>2, <2>4, RequeuedOK
  <1>5. ASSUME NEW p \in Procs, NEW v \in Versions, New(p, v)
        PROVE  MessagesOK'
    <2>1. /\ msg' = msg /\ conf[p] = Nil
          /\ \/ UNCHANGED <<conf, step>>
             \/ /\ conf' = [conf EXCEPT ![p] = v]
                /\ step' = [c \in Clients |-> IF c[1] = p /\ c[2] \in DOMAIN Calls[v]
                                              THEN 1 ELSE step[c]]
      BY <1>5 DEF New
    <2>2. ASSUME NEW c \in Clients, Ready(c)
          PROVE  Ready(c)'
      <3>1. c[1] # p
        BY <1>1, <2>1, <2>2 DEF ConfOK, Ready
      <3>2. conf'[c[1]] = conf[c[1]] /\ step'[c] = step[c]
        BY <1>1, <2>1, <3>1 DEF ConfOK, Clients
      <3> QED BY <2>2, <3>2, ReadyKept
    <2> QED BY <1>3, <2>1, <2>2
  <1>6. ASSUME NEW c \in Clients, InitStep(c)
        PROVE  MessagesOK'
    <2>1. /\ msg' = msg /\ conf' = conf /\ ~Ready(c)
          /\ \A d \in Clients \ {c} : step'[d] = step[d]
      BY <1>1, <1>6 DEF InitStep, ConfOK
    <2>2. \A d \in Clients : Ready(d) => Ready(d)'
      BY <2>1, ReadyKept
    <2> QED BY <1>3, <2>1, <2>2
  <1>7. ASSUME NEW c \in Clients, LoseChannel(c)
        PROVE  MessagesOK'
    <2>1. /\ msg' = Requeued({c}) /\ conf' = conf
          /\ \A d \in Clients \ {c} : step'[d] = step[d]
      BY <1>1, <1>7 DEF LoseChannel, ConfOK
    <2>2. \A d \in Clients \ {c} : Ready(d) => Ready(d)'
      BY <2>1, ReadyKept
    <2> QED BY <1>2, <2>1, <2>2, RequeuedOK
  <1>8. CASE BrokerRestart
    <2> DEFINE kept == {k \in DOMAIN entities : entities[k].durable}
    <2>1. kept = DOMAIN entities
      BY <1>1 DEF BrokerOK
    <2>2. ASSUME NEW m \in Messages
          PROVE  /\ Requeued(Clients)[m].st = "queued" => Declared(Requeued(Clients)[m].at)
      <3>1. MessageOK(m)
        BY <1>1 DEF MessagesOK
      <3>2. /\ Requeued(Clients)[m].at = msg[m].at
            /\ Requeued(Clients)[m].st = "queued" => msg[m].st \in {"queued", "unacked"}
        <4>1. CASE msg[m].by \in Clients
          <5>1. msg[m].by # Nil /\ msg[m].st = "unacked"
            BY <3>1, <4>1, TopologyAssumption DEF MessageOK, Clients
          <5>2. Requeued(Clients)[m] = [msg[m] EXCEPT !.st = "queued", !.by = Nil]
            BY <4>1 DEF Requeued
          <5> QED BY <3>1, <5>1, <5>2 DEF MessageOK, NoMessage
        <4>2. CASE msg[m].by \notin Clients
          BY <4>2 DEF Requeued
        <4> QED BY <4>1, <4>2
      <3> QED BY <3>1, <3>2 DEF MessageOK, Placed
    <2>3. msg' = [m \in Messages |->
                     LET r == Requeued(Clients)[m]
                     IN  IF r.st = "queued" /\ [kind |-> "queue", name |-> r.at] \notin kept
                         THEN [r EXCEPT !.st = "lost"] ELSE r]
      BY <1>8, Zenon DEF BrokerRestart
    <2>4. msg' = [m \in Messages |-> Requeued(Clients)[m]]
      BY <2>1, <2>2, <2>3 DEF Declared
    <2>5. msg' = Requeued(Clients)
      BY <2>4 DEF Requeued
    <2> QED BY <1>2, <2>5, RequeuedOK
  <1>9. ASSUME NEW c \in Clients, NEW m \in Messages,
               Deliver(c, m) \/ Handle(c, m) \/ \E ctx \in Contexts : Publish(c, m, ctx)
        PROVE  MessagesOK'
    BY <1>2, <1>9, DeliverOK, HandleOK, PublishOK
  <1>10. CASE \E m \in Messages : Expire(m)
    BY <1>2, <1>10, ExpireOK
  <1>11. CASE UNCHANGED vars
    BY <1>3, <1>11, ReadyKept DEF vars
  <1> QED BY <1>4, <1>5, <1>6, <1>7, <1>8, <1>9, <1>10, <1>11 DEF Next

\* Where that leaves the messages.
LEMMA RejectedAt ==
    ASSUME TopologyInv, NEW c \in Clients, NEW m \in Messages, msg[m].by = c, Reject(c, m)
    PROVE  /\ \A o \in Messages \ {m} : msg'[o] = msg[o]
           /\ msg'[m].at = IF WithRetry(c) THEN DelayQ(c[2]) ELSE msg[m].at
  <1>1. DOMAIN msg = Messages /\ DOMAIN msg[m] = DOMAIN NoMessage
    BY DEF TopologyInv, MessagesOK, MessageOK
  <1>2. CASE WithRetry(c)
    <2>1. msg' = [msg EXCEPT ![m].st = "queued", ![m].by = Nil, ![m].at = DelayQ(c[2]),
                             ![m].hdr = Put(@, "x-death", Nil)]
      BY <1>2, RejectedTo, Zenon
    <2> QED BY <1>1, <1>2, <2>1 DEF NoMessage
  <1>3. CASE ~WithRetry(c)
    <2>1. msg' = [msg EXCEPT ![m].st = "dropped", ![m].by = Nil]
      BY <1>3, RejectedTo, Zenon
    <2> QED BY <1>1, <1>3, <2>1 DEF NoMessage
  <1> QED BY <1>2, <1>3

LEMMA WholeMilliseconds ==
    ASSUME NEW d \in Int, d >= Millisecond
    PROVE  d \div Millisecond >= 1
  BY MillisecondAssumption

(***************************************************************************)
(* Options.                                                                *)
(***************************************************************************)
\* One of the options that set a field is the last one.
LEMMA LastExists ==
    ASSUME NEW n \in Nat, NEW S \in SUBSET (1..n), S # {}
    PROVE  Max(S) \in S
  <1> DEFINE T == {n - i : i \in S}
             R == OpToRel(<, Nat)
  <1>1. T \subseteq Nat /\ T # {}
    <2>1. \A i \in S : i \in 1..n /\ n - i \in Nat
      OBVIOUS
    <2> QED BY <2>1
  <1>2. \A x, y \in Nat : <<y, x>> \in R <=> y < x
    BY DEF OpToRel
  <1>3. IsWellFoundedOn(R, Nat)
    BY NatLessThanWellFounded
  <1> HIDE DEF T, R
  <1>4. PICK x \in T : \A y \in T : <<y, x>> \notin R
    BY <1>1, <1>3, WFMin
  <1>5. \A y \in T : ~(y < x)
    BY <1>1, <1>2, <1>4
  <1>6. PICK i \in S : x = n - i
    BY DEF T
  <1>7. \A j \in S : i >= j
    <2>1. SUFFICES ASSUME NEW j \in S  PROVE i >= j
      OBVIOUS
    <2>2. ~(n - j < n - i)
      BY <1>5, <1>6 DEF T
    <2> QED BY <2>2
  <1> QED BY <1>7 DEF Max

\* A field that is not the fail handler keeps its default or is set to a value.
LEMMA OptionSet ==
    ASSUME NEW v \in Versions, NEW f \in DOMAIN defaultOptions, f # "failHandler"
    PROVE  Opts[v][f] = defaultOptions[f] \/ Opts[v][f] # Nil
  <1> DEFINE opts == Deployment[v].opts
             S == {i \in DOMAIN opts : opts[i].field = f /\ ~Ignored(opts[i])}
  <1>1. Opts[v][f] = IF S = {} THEN defaultOptions[f] ELSE opts[Max(S)].value
    BY DEF Opts, Options
  <1>2. Len(opts) \in Nat /\ DOMAIN opts = 1..Len(opts)
    BY TopologyAssumption, LenProperties
  <1>3. S \in SUBSET (1..Len(opts))
    BY <1>2
  <1>4. \A i \in S : opts[i].value # Nil
    BY DEF Ignored
  <1> HIDE DEF S, opts
  <1>5. S # {} => Max(S) \in S
    BY <1>2, <1>3, LastExists
  <1> QED BY <1>1, <1>4, <1>5

LEMMA OptionsUsable == ConfOK => OptionsOK
  <1>1. ASSUME NEW v \in Versions
        PROVE  Opts[v].publishHeadersBuilder # Nil /\ Opts[v].consumeHeadersExtractor # Nil
    <2>1. /\ {"publishHeadersBuilder", "consumeHeadersExtractor"} \subseteq DOMAIN defaultOptions
          /\ defaultOptions["publishHeadersBuilder"] = NoPropagation
          /\ defaultOptions["consumeHeadersExtractor"] = NoPropagation
      BY DEF defaultOptions
    <2>2. NoPropagation # Nil
      BY TopologyAssumption
    <2>3. ASSUME NEW f \in {"publishHeadersBuilder", "consumeHeadersExtractor"}
          PROVE  Opts[v][f] # Nil
      BY <2>1, <2>2, OptionSet
    <2> QED BY <2>3
  <1> QED BY <1>1 DEF ConfOK, OptionsOK

(***************************************************************************)
(* The theorems.                                                           *)
(***************************************************************************)
LEMMA TopologyInit == Init => TopologyInv
  <1> SUFFICES ASSUME Init PROVE TopologyInv
    OBVIOUS
  <1>1. ConfOK /\ CallsMade /\ BrokerOK
    BY DEF Init, ConfOK, CallsMade, BrokerOK, Running
  <1>2. MessagesOK
    BY DEF Init, MessagesOK, MessageOK, HeadersOK, NoMessage, States
  <1> QED BY <1>1, <1>2, OptionsUsable DEF TopologyInv

LEMMA TopologyNext == TopologyInv /\ [Next]_vars => TopologyInv'
  <1> SUFFICES ASSUME TopologyInv, [Next]_vars  PROVE TopologyInv'
    OBVIOUS
  <1>1. ConfOK' /\ CallsMade' /\ BrokerOK' /\ MessagesOK'
    BY BrokerNext, ClientsNext, MessagesNext DEF TopologyInv
  <1>2. OptionsOK'
    BY <1>1, OptionsUsable, PTL
  <1> QED BY <1>1, <1>2 DEF TopologyInv

\* Whatever the processes declare, in whichever order, and whatever is lost:
\* what a client of init (client.go:434-481) declared is still there, an exchange
\* leads to one queue, and every message that is queued or being handled is in
\* its queue or in a delay queue that leads back.
THEOREM TopologyInvariant == Spec => []TopologyInv
  BY TopologyInit, TopologyNext, PTL DEF Spec

\* No message of a retry queue vanishes (client.go:440-481, options.go:112).
THEOREM MessagesNeverLost == Spec => []NeverLost
  <1>1. TopologyInv => NeverLost
    BY DEF TopologyInv, MessagesOK, MessageOK, NeverLost
  <1> QED BY <1>1, TopologyInvariant, PTL

\* A handler is given messages of its own queue only, whatever the queues of
\* other configurations are called (client.go:458).
THEOREM QueuesIsolated == Spec => []Isolated
  <1>1. TopologyInv => Isolated
    BY HandledAtHome DEF TopologyInv, MessagesOK, Isolated
  <1> QED BY <1>1, TopologyInvariant, PTL

(***************************************************************************)
(* The context of the handler.                                             *)
(***************************************************************************)
\* What the builder writes: the correlation id under its key, then the trace.
LEMMA BuiltFields ==
    ASSUME NEW b, NEW ctx \in Contexts
    PROVE  \E corr :
             LET fields == Carried(b, Inject(b, ctx))
             IN  /\ NewPublishHeadersBuilder(b, ctx) = PutAll(corr, fields)
                 /\ DOMAIN fields \subseteq b.TraceKeys
                 /\ DOMAIN corr \subseteq {b.CorrelationIDKey}
                 /\ ctx.corr = "" => DOMAIN corr = {}
                 /\ b.Get /\ b.CorrelationIDKey # "" /\ ctx.corr # "" =>
                      b.CorrelationIDKey \in DOMAIN corr /\ corr[b.CorrelationIDKey] = ctx.corr
  <1> DEFINE fields == Carried(b, Inject(b, ctx))
  <1>1. PICK corr : corr = IF b.Get /\ b.CorrelationIDKey # "" /\ ctx.corr # ""
                           THEN Put(<<>>, b.CorrelationIDKey, ctx.corr) ELSE <<>>
    OBVIOUS
  <1>2. NewPublishHeadersBuilder(b, ctx) = PutAll(corr, fields)
    BY <1>1, Zenon DEF NewPublishHeadersBuilder
  <1>3. DOMAIN fields \subseteq b.TraceKeys
    BY DEF Carried, Restrict
  <1>4. DOMAIN <<>> = {}
    OBVIOUS
  <1>5. /\ DOMAIN Put(<<>>, b.CorrelationIDKey, ctx.corr) = {b.CorrelationIDKey}
        /\ Put(<<>>, b.CorrelationIDKey, ctx.corr)[b.CorrelationIDKey] = ctx.corr
    BY <1>4 DEF Put, PutAll
  <1>6. CASE b.Get /\ b.CorrelationIDKey # "" /\ ctx.corr # ""
    <2>1. corr = Put(<<>>, b.CorrelationIDKey, ctx.corr)
      BY <1>1, <1>6, Zenon
    <2> QED BY <1>2, <1>3, <1>5, <1>6, <2>1, Zenon
  <1>7. CASE ~(b.Get /\ b.CorrelationIDKey # "" /\ ctx.corr # "")
    <2>1. corr = <<>>
      BY <1>1, <1>7, Zenon
    <2>2. DOMAIN corr = {} /\ DOMAIN corr \subseteq {b.CorrelationIDKey}
      BY <1>4, <2>1
    <2> QED BY <1>2, <1>3, <1>7, <2>2, Zenon
  <1> QED BY <1>6, <1>7

LEMMA BuiltCorr ==
    ASSUME NEW b, NEW e, SameKey(b, e), NEW ctx \in Contexts,
           NEW built, built = NewPublishHeadersBuilder(b, ctx)
    PROVE  /\ b.CorrelationIDKey \in DOMAIN built <=> ctx.corr # ""
           /\ ctx.corr # "" => built[b.CorrelationIDKey] = ctx.corr
  <1>1. PICK corr :
          LET fields == Carried(b, Inject(b, ctx))
          IN  /\ NewPublishHeadersBuilder(b, ctx) = PutAll(corr, fields)
              /\ DOMAIN fields \subseteq b.TraceKeys
              /\ DOMAIN corr \subseteq {b.CorrelationIDKey}
              /\ ctx.corr = "" => DOMAIN corr = {}
              /\ b.Get /\ b.CorrelationIDKey # "" /\ ctx.corr # "" =>
                   b.CorrelationIDKey \in DOMAIN corr /\ corr[b.CorrelationIDKey] = ctx.corr
    BY BuiltFields, Zenon
  <1>2. PICK fields : fields = Carried(b, Inject(b, ctx))
    OBVIOUS
  <1>3. b.CorrelationIDKey # "" /\ b.CorrelationIDKey \notin b.TraceKeys
    BY DEF SameKey
  <1>4. ctx.corr # "" => b.CorrelationIDKey \in DOMAIN corr
                         /\ corr[b.CorrelationIDKey] = ctx.corr
    BY <1>1, <1>3, Zenon DEF SameKey
  <1>5. built = PutAll(corr, fields) /\ DOMAIN fields \subseteq b.TraceKeys
        /\ (ctx.corr = "" => DOMAIN corr = {})
    BY <1>1, <1>2, Zenon
  <1> QED BY <1>3, <1>4, <1>5 DEF PutAll

LEMMA BuiltTrace ==
    ASSUME NEW b, NEW ctx \in Contexts, NEW built, built = NewPublishHeadersBuilder(b, ctx),
           b.Propagator # Nil, DOMAIN ctx.trace \subseteq b.TraceKeys
    PROVE  /\ DOMAIN ctx.trace \subseteq DOMAIN built
           /\ \A k \in DOMAIN ctx.trace : built[k] = ctx.trace[k]
           /\ \A k \in DOMAIN built : k \in DOMAIN ctx.trace \/ k = b.CorrelationIDKey
  <1>1. Inject(b, ctx) = ctx.trace
    BY DEF Inject
  <1>2. \A k \in DOMAIN ctx.trace : HasString(ctx.trace, k)
    BY TopologyAssumption
  <1>3. {k \in b.TraceKeys : HasString(ctx.trace, k)} = DOMAIN ctx.trace
    BY <1>2 DEF HasString
  <1>4. PICK fields : fields = Carried(b, ctx.trace)
    OBVIOUS
  <1>5. DOMAIN fields = DOMAIN ctx.trace /\ \A k \in DOMAIN ctx.trace : fields[k] = ctx.trace[k]
    BY <1>3, <1>4 DEF Carried, Restrict
  <1>6. PICK corr : built = PutAll(corr, fields) /\ DOMAIN corr \subseteq {b.CorrelationIDKey}
    BY <1>1, <1>4, BuiltFields, Zenon
  <1> QED BY <1>5, <1>6 DEF PutAll

\* What the extractor of the handler makes of the headers.
LEMMA ExtractedCorr ==
    ASSUME NEW b, NEW e, SameKey(b, e), NEW h, NEW parent \in Contexts,
           NEW got, got = NewConsumeHeadersExtractor(e, parent, h)
    PROVE  got.corr = IF HasString(h, b.CorrelationIDKey) THEN h[b.CorrelationIDKey]
                      ELSE parent.corr
  <1>1. PICK ctx : ctx = IF e.Set /\ e.CorrelationIDKey # "" /\ HasString(h, e.CorrelationIDKey)
                         THEN [parent EXCEPT !.corr = h[e.CorrelationIDKey]]
                         ELSE parent
    OBVIOUS
  <1>2. got = Extract(e, ctx, Carried(e, h))
    BY <1>1, Zenon DEF NewConsumeHeadersExtractor
  <1>3. e.CorrelationIDKey = b.CorrelationIDKey /\ b.CorrelationIDKey # ""
    BY DEF SameKey
  <1>4. ctx = IF HasString(h, b.CorrelationIDKey)
              THEN [parent EXCEPT !.corr = h[b.CorrelationIDKey]] ELSE parent
    BY <1>1, <1>3, Zenon DEF SameKey
  <1>5. parent = [corr |-> parent.corr, trace |-> parent.trace]
    BY TopologyAssumption
  <1>6. /\ ctx.corr = IF HasString(h, b.CorrelationIDKey) THEN h[b.CorrelationIDKey]
                      ELSE parent.corr
        /\ DOMAIN ctx = {"corr", "trace"}
    BY <1>4, <1>5
  <1> QED BY <1>2, <1>6 DEF Extract

LEMMA ExtractedTrace ==
    ASSUME NEW e, NEW h, e.Propagator # Nil, NEW parent \in Contexts,
           NEW got, got = NewConsumeHeadersExtractor(e, parent, h)
    PROVE  got.trace = IF "traceparent" \in e.TraceKeys /\ HasString(h, "traceparent")
                       THEN [k \in {k \in e.TraceKeys \cap TraceFields : HasString(h, k)} |-> h[k]]
                       ELSE parent.trace
  <1>1. PICK ctx : ctx = IF e.Set /\ e.CorrelationIDKey # "" /\ HasString(h, e.CorrelationIDKey)
                         THEN [parent EXCEPT !.corr = h[e.CorrelationIDKey]]
                         ELSE parent
    OBVIOUS
  <1>2. PICK carrier : carrier = Carried(e, h)
    OBVIOUS
  <1>3. got = IF e.Propagator = Nil \/ "traceparent" \notin DOMAIN carrier THEN ctx
              ELSE [ctx EXCEPT !.trace = Restrict(carrier, DOMAIN carrier \cap TraceFields)]
    BY <1>1, <1>2, Zenon DEF NewConsumeHeadersExtractor, Extract
  <1>4. ctx.trace = parent.trace /\ DOMAIN ctx = {"corr", "trace"}
    <2>1. parent = [corr |-> parent.corr, trace |-> parent.trace]
      BY TopologyAssumption
    <2> QED BY <1>1, <2>1
  <1>5. /\ DOMAIN carrier = {k \in e.TraceKeys : HasString(h, k)}
        /\ \A k \in DOMAIN carrier : carrier[k] = h[k]
    BY <1>2 DEF Carried, Restrict
  <1>6. DOMAIN carrier \cap TraceFields = {k \in e.TraceKeys \cap TraceFields : HasString(h, k)}
    BY <1>5
  <1>7. Restrict(carrier, DOMAIN carrier \cap TraceFields)
          = [k \in {k \in e.TraceKeys \cap TraceFields : HasString(h, k)} |-> h[k]]
    BY <1>5, <1>6 DEF Restrict
  <1>8. got.trace = IF "traceparent" \in DOMAIN carrier
                    THEN Restrict(carrier, DOMAIN carrier \cap TraceFields) ELSE parent.trace
    BY <1>3, <1>4
  <1> QED BY <1>5, <1>7, <1>8

\* Headers that agree with the built ones outside of the stamps give back the
\* correlation id and the trace, if there were any.
LEMMA CorrRestored ==
    ASSUME NEW b, NEW e, NEW ctx \in Contexts, SameKey(b, e), NEW h,
           NEW parent \in Contexts, Agrees(h, NewPublishHeadersBuilder(b, ctx)),
           NEW got, got = NewConsumeHeadersExtractor(e, parent, h)
    PROVE  got.corr = OrElse(ctx.corr, Background.corr, parent.corr)
  <1>1. b.CorrelationIDKey \notin Stamped
    BY DEF SameKey
  <1>2. PICK built : built = NewPublishHeadersBuilder(b, ctx)
    OBVIOUS
  <1>3. /\ b.CorrelationIDKey \in DOMAIN built <=> ctx.corr # ""
        /\ ctx.corr # "" => built[b.CorrelationIDKey] = ctx.corr
    BY <1>2, BuiltCorr, Zenon
  <1>4. /\ b.CorrelationIDKey \in DOMAIN h <=> ctx.corr # ""
        /\ ctx.corr # "" => h[b.CorrelationIDKey] = ctx.corr
    BY <1>1, <1>2, <1>3 DEF Agrees
  <1>5. got.corr
          = IF HasString(h, b.CorrelationIDKey) THEN h[b.CorrelationIDKey] ELSE parent.corr
    BY ExtractedCorr
  <1>6. ctx.corr # Nil
    BY TopologyAssumption
  <1> QED BY <1>4, <1>5, <1>6 DEF HasString, OrElse, Background

LEMMA TraceRestored ==
    ASSUME NEW b, NEW e, NEW ctx \in Contexts, SameTrace(b, e, ctx.trace), NEW h,
           NEW parent \in Contexts, Agrees(h, NewPublishHeadersBuilder(b, ctx)),
           NEW got, got = NewConsumeHeadersExtractor(e, parent, h)
    PROVE  got.trace = OrElse(ctx.trace, Background.trace, parent.trace)
  <1>1. /\ b.Propagator # Nil /\ e.Propagator # Nil
        /\ DOMAIN ctx.trace \subseteq b.TraceKeys /\ DOMAIN ctx.trace \subseteq e.TraceKeys
        /\ b.CorrelationIDKey \notin TraceFields
    BY DEF SameTrace
  <1>2. PICK built : built = NewPublishHeadersBuilder(b, ctx)
    OBVIOUS
  <1>3. /\ DOMAIN ctx.trace \subseteq DOMAIN built
        /\ \A k \in DOMAIN ctx.trace : built[k] = ctx.trace[k]
        /\ \A k \in DOMAIN built : k \in DOMAIN ctx.trace \/ k = b.CorrelationIDKey
    BY <1>1, <1>2, BuiltTrace
  <1>4. /\ DOMAIN ctx.trace \subseteq TraceFields
        /\ ctx.trace = [k \in DOMAIN ctx.trace |-> ctx.trace[k]]
        /\ ctx.trace # <<>> => "traceparent" \in DOMAIN ctx.trace
        /\ \A k \in DOMAIN ctx.trace : HasString(ctx.trace, k)
    BY TopologyAssumption
  <1>5. TraceFields \cap Stamped = {} /\ "traceparent" \in TraceFields
    BY DEF TraceFields, Stamped
  <1>6. ASSUME NEW k \in TraceFields
        PROVE  /\ k \in DOMAIN h <=> k \in DOMAIN ctx.trace
               /\ k \in DOMAIN ctx.trace => h[k] = ctx.trace[k] /\ HasString(h, k)
    <2>1. k \in DOMAIN h <=> k \in DOMAIN built
      BY <1>2, <1>5 DEF Agrees
    <2>2. k \in DOMAIN built <=> k \in DOMAIN ctx.trace
      BY <1>1, <1>3
    <2>3. k \in DOMAIN ctx.trace => h[k] = ctx.trace[k]
      BY <1>2, <1>3, <1>5, <2>2 DEF Agrees
    <2> QED BY <1>4, <2>1, <2>2, <2>3 DEF HasString
  <1>7. got = NewConsumeHeadersExtractor(e, parent, h)
    OBVIOUS
  <1>8. got.trace = IF "traceparent" \in e.TraceKeys /\ HasString(h, "traceparent")
                    THEN [k \in {k \in e.TraceKeys \cap TraceFields : HasString(h, k)} |-> h[k]]
                    ELSE parent.trace
    BY <1>1, <1>7, ExtractedTrace
  <1>9. CASE ctx.trace # <<>>
    <2>1. {k \in e.TraceKeys \cap TraceFields : HasString(h, k)} = DOMAIN ctx.trace
      BY <1>1, <1>4, <1>6 DEF HasString
    <2>2. [k \in DOMAIN ctx.trace |-> h[k]] = [k \in DOMAIN ctx.trace |-> ctx.trace[k]]
      BY <1>4, <1>6
    <2> QED BY <1>1, <1>4, <1>5, <1>6, <1>7, <1>8, <1>9, <2>1, <2>2 DEF OrElse, Background
  <1>10. CASE ctx.trace = <<>>
    <2>1. DOMAIN ctx.trace = {}
      BY <1>10
    <2> QED BY <1>5, <1>6, <1>7, <1>8, <1>10, <2>1 DEF HasString, OrElse, Background
  <1> QED BY <1>9, <1>10

\* The handler runs in the context of the publish, over that of InitConsumer, and
\* its message has the expired header, after any number of retries
\* (otel/propagation.go:25-82, delivery.go:18, client.go:299-307).
THEOREM ContextComesThrough == Spec => []ContextRestored
  <1>1. ASSUME TopologyInv, NEW m \in Messages, msg[m].by # Nil
        PROVE  LET v    == conf[msg[m].by[1]]
                   b    == Opts[msg[m].from].publishHeadersBuilder
                   e    == Opts[v].consumeHeadersExtractor
                   ctx  == msg[m].ctx
                   loop == Deployment[v].LoopCtx
                   got  == HandlerContext(m)
               IN  /\ WithRetry(msg[m].by) => "expired" \in DOMAIN msg[m].hdr
                   /\ SameKey(b, e) => got.corr = OrElse(ctx.corr, Background.corr, loop.corr)
                   /\ SameTrace(b, e, ctx.trace) =>
                         got.trace = OrElse(ctx.trace, Background.trace, loop.trace)
    <2>1. ConfOK /\ CallsMade /\ BrokerOK /\ MessageOK(m) /\ HeadersOK(m)
      BY <1>1 DEF TopologyInv, MessagesOK
    <2>2. /\ msg[m].by \in Clients /\ Ready(msg[m].by) /\ msg[m].st = "unacked"
          /\ msg[m].dest = msg[m].by[2]
      BY <1>1, <2>1, HandledAtHome DEF MessageOK
    <2>3. PICK h, ctx, b, e, loop :
             /\ h = msg[m].hdr /\ ctx = msg[m].ctx
             /\ b = Opts[msg[m].from].publishHeadersBuilder
             /\ e = Opts[conf[msg[m].by[1]]].consumeHeadersExtractor
             /\ loop = Deployment[conf[msg[m].by[1]]].LoopCtx
      OBVIOUS
    <2>4. /\ ctx \in Contexts
          /\ Args(msg[m].dest).dlx # Nil => "expired" \in DOMAIN h
          /\ Agrees(h, NewPublishHeadersBuilder(b, ctx))
      BY <2>1, <2>2, <2>3 DEF HeadersOK
    <2>5. msg[m].dest \in Names => DelayEx(msg[m].dest) # Nil
      BY NameFacts, TopologyAssumption
    <2>6. WithRetry(msg[m].by) => "expired" \in DOMAIN h
      <3>1. WithRetry(msg[m].by) => /\ Args(msg[m].dest).dlx = DelayEx(msg[m].dest)
                                    /\ msg[m].dest \in Names
        BY <2>1, <2>2, ReadyWired
      <3> QED BY <2>4, <2>5, <3>1
    <2>7. ctx \in Contexts /\ loop \in Contexts
      <3>1. Running(msg[m].by) /\ msg[m].by[1] \in Procs
        BY <2>2 DEF Ready, Clients
      <3>2. conf[msg[m].by[1]] \in Versions
        BY <2>1, <2>2, <3>1 DEF ConfOK
      <3>3. \A v \in Versions : Deployment[v].LoopCtx \in Contexts
        BY TopologyAssumption
      <3> QED BY <2>3, <2>4, <3>2, <3>3
    <2>8. Agrees(h, NewPublishHeadersBuilder(b, ctx))
      BY <2>4, Zenon
    <2>9. PICK got : got = NewConsumeHeadersExtractor(e, loop, h)
      OBVIOUS
    <2>10. ASSUME SameKey(b, e)
          PROVE  got.corr = OrElse(ctx.corr, Background.corr, loop.corr)
      BY <2>7, <2>8, <2>9, <2>10, CorrRestored
    <2>11. ASSUME SameTrace(b, e, ctx.trace)
          PROVE  got.trace = OrElse(ctx.trace, Background.trace, loop.trace)
      BY <2>7, <2>8, <2>9, <2>11, TraceRestored
    <2>12. HandlerContext(m) = got
      BY <2>3, <2>9, Zenon DEF HandlerContext
    <2> QED BY <2>3, <2>6, <2>10, <2>11, <2>12, Zenon
  <1>2. TopologyInv => ContextRestored
    BY <1>1, Zenon DEF ContextRestored
  <1> QED BY <1>2, TopologyInvariant, PTL

\* A rejected message waits as long as the client that rejected it was
\* configured to wait, and at least a millisecond (client.go:460, options.go:116).
THEOREM RetryDelayHonoured == Spec => DelayHonoured
  <1> DEFINE Honoured ==
        \A m \in Messages :
            (msg[m].by # Nil /\ msg'[m].by = Nil /\ msg'[m].at # msg[m].at)
            => /\ WithRetry(msg[m].by)
               /\ Args(msg'[m].at).ttl = Item(msg[m].by).Retry.Delay \div Millisecond
               /\ Args(msg'[m].at).ttl >= 1
  <1>1. ASSUME TopologyInv, [Next]_vars
        PROVE  [Honoured]_vars
    <2> SUFFICES ASSUME NEW m \in Messages,
                        msg[m].by # Nil, msg'[m].by = Nil, msg'[m].at # msg[m].at
                 PROVE  /\ WithRetry(msg[m].by)
                        /\ Args(msg'[m].at).ttl = Item(msg[m].by).Retry.Delay \div Millisecond
                        /\ Args(msg'[m].at).ttl >= 1
      OBVIOUS
    <2>1. ConfOK /\ CallsMade /\ BrokerOK /\ MessagesOK /\ MessageOK(m)
      BY <1>1 DEF TopologyInv, MessagesOK
    <2>2. PICK c \in Clients : c = msg[m].by
      BY <2>1 DEF MessageOK
    <2>3. msg' # msg /\ msg[m].st = "unacked"
      BY <2>1 DEF MessageOK
    <2>4. ASSUME NEW C, msg' = Requeued(C)
          PROVE  FALSE
      <3>1. msg'[m].at = msg[m].at
        BY <2>1, <2>4 DEF Requeued, MessageOK, NoMessage
      <3> QED BY <3>1
    <2>5. Reject(c, m)
      <3>1. CASE UNCHANGED msg
        BY <2>3, <3>1
      <3>2. CASE BrokerRestart
        <4>1. PICK r : r = Requeued(Clients)[m]
          OBVIOUS
        <4>2. msg'[m] = r \/ msg'[m] = [r EXCEPT !.st = "lost"]
          BY <3>2, <4>1 DEF BrokerRestart
        <4>3. r.at = msg[m].at /\ DOMAIN r = DOMAIN msg[m]
          BY <2>1, <4>1 DEF Requeued, MessageOK, NoMessage
        <4> QED BY <2>1, <4>2, <4>3 DEF MessageOK, NoMessage
      <3>3. CASE \E p \in Procs : Stop(p) \/ \E v \in Versions : New(p, v)
        BY <2>4, <3>1, <3>3 DEF Stop, New
      <3>4. CASE \E d \in Clients : InitStep(d) \/ LoseChannel(d)
        BY <2>4, <3>1, <3>4 DEF InitStep, LoseChannel
      <3>5. ASSUME NEW d \in Clients, NEW o \in Messages, Deliver(d, o)
            PROVE  FALSE
        <4>1. o # m /\ msg' = [msg EXCEPT ![o].st = "unacked", ![o].by = d]
          BY <2>3, <3>5 DEF Deliver
        <4> QED BY <2>1, <4>1 DEF MessagesOK
      <3>6. ASSUME NEW d \in Clients, NEW o \in Messages, NEW ctx, Publish(d, o, ctx)
            PROVE  FALSE
        <4>1. o # m /\ \A x \in Messages \ {o} : msg'[x] = msg[x]
          BY <2>1, <2>3, <3>6 DEF Publish, MessagesOK
        <4> QED BY <4>1
      <3>7. ASSUME NEW o \in Messages, Expire(o)
            PROVE  FALSE
        <4>1. o # m
          BY <2>3, <3>7 DEF Expire
        <4>2. msg' = [msg EXCEPT ![o].st = "queued", ![o].by = Nil, ![o].at = msg[o].dest,
                                 ![o].hdr = Put(@, "x-death", Nil)]
          BY <1>1, <3>7, ExpiredTo, Zenon
        <4> QED BY <2>1, <4>1, <4>2 DEF MessagesOK
      <3>8. ASSUME NEW o \in Messages, NEW st, Settle(o, st)
            PROVE  FALSE
        <4>1. msg' = [msg EXCEPT ![o].st = st, ![o].by = Nil]
          BY <3>8 DEF Settle
        <4>2. msg'[m].at = msg[m].at
          BY <2>1, <4>1 DEF MessagesOK, MessageOK, NoMessage
        <4> QED BY <4>2
      <3>9. ASSUME NEW d \in Clients, NEW o \in Messages, Handle(d, o)
             PROVE  Reject(c, m)
        <4>1. Reject(d, o) /\ msg[o].by = d
          BY <3>8, <3>9 DEF Handle, Ack, Finalize, Requeue
        <4>2. o = m
          BY <1>1, <4>1, RejectedAt
        <4> QED BY <2>2, <4>1, <4>2
      <3> QED
        BY <1>1, <3>1, <3>2, <3>3, <3>4, <3>5, <3>6, <3>7, <3>9 DEF Next, vars
    <2>6. WithRetry(c) /\ msg'[m].at = DelayQ(c[2])
      BY <1>1, <2>2, <2>5, RejectedAt
    <2>7. Ready(c)
      BY <2>1, <2>2 DEF MessageOK
    <2>8. Args(DelayQ(c[2])).ttl = Item(c).Retry.Delay \div Millisecond
      BY <2>1, <2>6, <2>7, ReadyWired
    <2>9. Item(c).Retry.Delay \in Int /\ Item(c).Retry.Delay >= Millisecond
      <3>1. /\ conf[c[1]] \in Versions /\ c[2] \in DOMAIN Deployment[conf[c[1]]].QueueParams
            /\ Item(c).Retry.Delay \in Int
        BY <2>1, <2>6, <2>7, CallsOf DEF Ready
      <3>2. "nil" \in Results[conf[c[1]]]
        BY <2>1, <3>1, TopologyAssumption DEF ConfOK, Clients
      <3>3. ~(Item(c).Retry.Delay < Millisecond)
        BY <2>6, <3>1, <3>2, Accepted DEF WithRetry, Item
      <3> QED BY <3>1, <3>3, MillisecondAssumption
    <2>10. Item(c).Retry.Delay \div Millisecond >= 1
      BY <2>9, WholeMilliseconds
    <2> QED BY <2>2, <2>6, <2>8, <2>10
  <1> QED BY <1>1, TopologyInvariant, PTL DEF Spec, DelayHonoured
=============================================================================
