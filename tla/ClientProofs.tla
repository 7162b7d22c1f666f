---------------------------- MODULE ClientProofs ----------------------------
(***************************************************************************)
(* Proofs about the connection manager of module Client, for every number  *)
(* of faults, kinds of fault and channels, with and without close().       *)
(***************************************************************************)
EXTENDS Client, TLAPS

\* A fresh client satisfies the inductive invariant.
LEMMA ClientInvInit == ClientInit => ClientInv
  <1> SUFFICES ASSUME ClientInit PROVE ClientInv
    OBVIOUS
  <1> USE ClientAssumption DEF ClientInit
  <1>1. owner \in [Chans -> Nat]
    OBVIOUS
  <1>2. /\ notify \in 0..MaxChans
        /\ ch \in 0..MaxChans
    OBVIOUS
  <1>3. ClientTypeOK
    BY <1>1, <1>2 DEF ClientTypeOK, MgrStates
  <1>4. NoOrphan /\ ReadyIsInitialised
    BY DEF NoOrphan, ReadyIsInitialised
  <1>5. Bookkeeping /\ LossNeedsFault
    BY DEF Bookkeeping, LossNeedsFault
  <1> QED BY <1>3, <1>4, <1>5 DEF ClientInv

\* The environment takes connections and channels away and adds none.
LEMMA EnvironmentInv ==
    ASSUME ClientInv, ConnDrops \/ ChanDrops
    PROVE  ClientInv'
  <1> USE ClientAssumption
      DEF ClientInv, ClientTypeOK, NoOrphan, ReadyIsInitialised, Bookkeeping,
          LossNeedsFault, MgrStates, Chans, Fault, mgrVars, closeVars
  <1>1. CASE ConnDrops
    <2>1. PICK k \in liveConn : DropConn(k)
      BY <1>1 DEF ConnDrops
    <2>2. /\ liveConn' = liveConn \ {k}
          /\ liveCh' = {c \in liveCh : owner[c] # k}
      BY <2>1 DEF DropConn
    <2>3. \A c \in liveCh' : owner[c] \in liveConn'
      BY <2>2
    <2>4. /\ UNCHANGED <<mgrVars, closeVars>>
          /\ faults' \in Nat \ {0}
      BY <1>1 DEF ConnDrops
    <2> QED BY <2>2, <2>3, <2>4
  <1>2. CASE ChanDrops
    BY <1>2 DEF ChanDrops
  <1> QED BY <1>1, <1>2

\* The steps that dial: handleReconnect, connect and waitOrDone.
LEMMA DialInv ==
    ASSUME ClientInv, EnsureConnected \/ Connect \/ ConnectFails \/ Redial
    PROVE  ClientInv'
  <1> USE ClientAssumption
      DEF ClientInv, ClientTypeOK, NoOrphan, ReadyIsInitialised, Bookkeeping,
          LossNeedsFault, MgrStates, Chans, Fault, closeVars, liveVars
  <1>1. CASE EnsureConnected
    BY <1>1 DEF EnsureConnected, StartManager
  <1>2. CASE Connect
    <2>1. liveConn = {} /\ liveCh = {}
      BY <1>2 DEF Connect
    <2>2. liveConn' = {conn'} /\ liveCh' = {} /\ conn' \in Nat
      BY <1>2, <2>1 DEF Connect
    <2>3. ClientTypeOK'
      BY <1>2, <2>2 DEF Connect
    <2>4. /\ NoOrphan'
          /\ mgr' = "open"
          /\ isReady' = FALSE
          /\ UNCHANGED <<ch, notify, closeVars, faults>>
      BY <1>2, <2>2 DEF Connect
    <2>5. ch <= notify
      BY <1>2 DEF Connect
    <2> QED BY <2>2, <2>3, <2>4, <2>5
  <1>3. CASE ConnectFails
    BY <1>3 DEF ConnectFails
  <1>4. CASE Redial
    BY <1>4 DEF Redial
  <1> QED BY <1>1, <1>2, <1>3, <1>4

\* The steps of init.
LEMMA InitInv ==
    ASSUME ClientInv,
           \/ OpenChannel \/ OpenChannelFails \/ Listen
           \/ DeclareQueue \/ DeclareQueueFails \/ Announce
    PROVE  ClientInv'
  <1> USE ClientAssumption
      DEF ClientInv, ClientTypeOK, NoOrphan, ReadyIsInitialised, Bookkeeping,
          LossNeedsFault, MgrStates, Chans, Fault, closeVars, liveVars
  <1>1. CASE OpenChannel
    <2>1. /\ notify + 1 \in Chans
          /\ owner' \in [Chans -> Nat]
          /\ owner'[notify + 1] = conn
      BY <1>1 DEF OpenChannel
    <2>2. liveCh' = {notify + 1} /\ liveConn' = liveConn /\ conn \in liveConn
      BY <1>1 DEF OpenChannel
    <2> QED BY <1>1, <2>1, <2>2 DEF OpenChannel
  <1>2. CASE OpenChannelFails
    BY <1>2 DEF OpenChannelFails
  <1>3. CASE Listen
    BY <1>3 DEF Listen
  <1>4. CASE DeclareQueue
    BY <1>4 DEF DeclareQueue
  <1>5. CASE DeclareQueueFails
    <2>1. liveCh' = {}
      BY <1>5 DEF DeclareQueueFails
    <2> QED BY <1>5, <2>1 DEF DeclareQueueFails
  <1>6. CASE Announce
    BY <1>6 DEF Announce
  <1> QED BY <1>1, <1>2, <1>3, <1>4, <1>5, <1>6

\* The selects of handleReInit and waitOrDone.
LEMMA WatchInv ==
    ASSUME ClientInv, Reinit \/ ConnLost \/ ChanLost \/ StopManager
    PROVE  ClientInv'
  <1> USE ClientAssumption
      DEF ClientInv, ClientTypeOK, NoOrphan, ReadyIsInitialised, Bookkeeping,
          LossNeedsFault, MgrStates, Chans, closeVars, liveVars
  <1>1. CASE Reinit
    BY <1>1 DEF Reinit
  <1>2. CASE ConnLost
    <2>1. liveConn = {}
      BY <1>2 DEF ConnLost
    <2> QED BY <1>2, <2>1 DEF ConnLost, ConnWatch
  <1>3. CASE ChanLost
    <2>1. liveCh = {}
      BY <1>3 DEF ChanLost
    <2> QED BY <1>3, <2>1 DEF ChanLost
  <1>4. CASE StopManager
    BY <1>4 DEF StopManager, DoneWatch
  <1> QED BY <1>1, <1>2, <1>3, <1>4

\* close(), at any moment of the manager's life.
LEMMA CloseInv ==
    ASSUME ClientInv, CloseBegin \/ CloseStep
    PROVE  ClientInv'
  <1> USE ClientAssumption
      DEF ClientInv, ClientTypeOK, NoOrphan, ReadyIsInitialised, Bookkeeping,
          LossNeedsFault, MgrStates, Chans, mgrVars, liveVars
  <1>1. CASE CloseBegin
    BY <1>1 DEF CloseBegin
  <1>2. CASE CloseDone
    BY <1>2 DEF CloseDone
  <1>3. CASE CloseChannel
    BY <1>3 DEF CloseChannel
  <1>4. CASE CloseConnection
    BY <1>4 DEF CloseConnection, DropConn
  <1> QED BY <1>1, <1>2, <1>3, <1>4 DEF CloseStep

\* Every step of the client preserves the inductive invariant.
LEMMA ClientInvNext == ClientInv /\ [ClientNext]_clientVars => ClientInv'
  <1> SUFFICES ASSUME ClientInv, [ClientNext]_clientVars
               PROVE  ClientInv'
    OBVIOUS
  <1>1. CASE ConnDrops \/ ChanDrops
    BY <1>1, EnvironmentInv
  <1>2. CASE EnsureConnected \/ Connect \/ ConnectFails \/ Redial
    BY <1>2, DialInv
  <1>3. CASE \/ OpenChannel \/ OpenChannelFails \/ Listen
             \/ DeclareQueue \/ DeclareQueueFails \/ Announce
    BY <1>3, InitInv
  <1>4. CASE Reinit \/ ConnLost \/ ChanLost \/ StopManager
    BY <1>4, WatchInv
  <1>5. CASE CloseBegin \/ CloseStep
    BY <1>5, CloseInv
  <1>6. CASE UNCHANGED clientVars
    BY <1>6
       DEF ClientInv, ClientTypeOK, NoOrphan, ReadyIsInitialised, Bookkeeping,
          LossNeedsFault,
           clientVars, mgrVars, closeVars, liveVars
  <1> QED
    BY <1>1, <1>2, <1>3, <1>4, <1>5, <1>6 DEF ClientNext, ManagerStep

\* The inductive invariant holds in every reachable state of a client.
THEOREM ClientInvariant == ClientSpec => []ClientInv
  BY ClientInvInit, ClientInvNext, PTL DEF ClientSpec

\* The fields of a client always hold values of their types.
THEOREM ClientTypeCorrect == ClientSpec => []ClientTypeOK
  <1>1. ClientInv => ClientTypeOK
    BY DEF ClientInv
  <1> QED BY <1>1, ClientInvariant, PTL

\* Recovery never leaves a connection or a channel behind (client.go:61-80,
\* 110-140): what is open is what clnt.conn and clnt.ch hold.
THEOREM ClientNoOrphan == ClientSpec => []NoOrphan
  <1>1. ClientInv => NoOrphan
    BY DEF ClientInv
  <1> QED BY <1>1, ClientInvariant, PTL

\* While isReady is 1 (client.go:184) the channel in clnt.ch is the newest,
\* declared one.
THEOREM ClientReady == ClientSpec => []ReadyIsInitialised
  <1>1. ClientInv => ReadyIsInitialised
    BY DEF ClientInv
  <1> QED BY <1>1, ClientInvariant, PTL

-----------------------------------------------------------------------------
(***************************************************************************)
(* What the goroutines that use a client rely on.                          *)
(***************************************************************************)
\* A goroutine that finds isReady 1 finds a channel.
LEMMA ReadyIsChecked ==
    ASSUME ClientInv, isReady
    PROVE  CheckedChannel
  BY DEF ClientInv, ReadyIsInitialised, LossNeedsFault, CheckedChannel

\* While it goes on, the client may do what it likes.
LEMMA CheckedNext ==
    ASSUME ClientInv, CheckedChannel, [ClientNext]_clientVars
    PROVE  CheckedChannel'
  <1> USE ClientAssumption
      DEF ClientInv, ClientTypeOK, LossNeedsFault, Bookkeeping, NoOrphan, CheckedChannel,
          MgrStates, Chans, Fault, mgrVars, closeVars, liveVars
  <1>1. CASE ConnDrops \/ ChanDrops
    BY <1>1 DEF ConnDrops, ChanDrops
  <1>2. CASE EnsureConnected \/ Connect \/ ConnectFails \/ Redial
    BY <1>2 DEF EnsureConnected, StartManager, Connect, ConnectFails, Redial
  <1>3. CASE OpenChannel \/ OpenChannelFails \/ Listen
    BY <1>3 DEF OpenChannel, OpenChannelFails, Listen
  <1>4. CASE DeclareQueue \/ DeclareQueueFails \/ Announce
    BY <1>4 DEF DeclareQueue, DeclareQueueFails, Announce
  <1>5. CASE Reinit \/ ConnLost \/ ChanLost \/ StopManager
    BY <1>5 DEF Reinit, ConnLost, ChanLost, StopManager
  <1>6. CASE CloseBegin \/ CloseStep
    BY <1>6 DEF CloseBegin, CloseStep, CloseDone, CloseChannel, CloseConnection
  <1>7. CASE UNCHANGED clientVars
    BY <1>7 DEF clientVars
  <1> QED
    BY <1>1, <1>2, <1>3, <1>4, <1>5, <1>6, <1>7 DEF ClientNext, ManagerStep

\* A channel that was closed is never opened again: what a step of the client
\* adds to the open channels is the number after the listeners' one.
LEMMA NewChannels ==
    ASSUME ClientInv, [ClientNext]_clientVars
    PROVE  /\ liveCh' \subseteq liveCh \cup {notify + 1}
           /\ liveCh' \subseteq liveCh \/ (mgr = "open" /\ mgr' = "listen" /\ ch' = notify + 1)
           /\ notify' = notify \/ (mgr = "listen" /\ notify' = ch)
           /\ mgr = "listen" /\ notify' = notify => mgr' = "listen" /\ ch' = ch
  <1> USE DEF Fault, mgrVars, closeVars, liveVars
  <1>1. CASE ConnDrops \/ ChanDrops
    BY <1>1 DEF ConnDrops, ChanDrops, DropConn
  <1>2. CASE EnsureConnected \/ Connect \/ ConnectFails \/ Redial
    BY <1>2 DEF EnsureConnected, StartManager, Connect, ConnectFails, Redial
  <1>3. CASE OpenChannel \/ OpenChannelFails
    BY <1>3 DEF OpenChannel, OpenChannelFails
  <1>4. CASE Listen
    BY <1>4 DEF Listen, ClientInv, ClientTypeOK, Bookkeeping
  <1>5. CASE DeclareQueue \/ DeclareQueueFails \/ Announce
    BY <1>5 DEF DeclareQueue, DeclareQueueFails, Announce
  <1>6. CASE Reinit \/ ConnLost \/ ChanLost \/ StopManager
    BY <1>6 DEF Reinit, ConnLost, ConnWatch, ChanLost, StopManager, DoneWatch
  <1>7. CASE CloseBegin \/ CloseStep
    BY <1>7 DEF CloseBegin, CloseStep, CloseDone, CloseChannel, CloseConnection, DropConn
  <1>8. CASE UNCHANGED clientVars
    BY <1>8 DEF clientVars
  <1> QED
    BY <1>1, <1>2, <1>3, <1>4, <1>5, <1>6, <1>7, <1>8 DEF ClientNext, ManagerStep

\* Faults are counted and close() is not taken back.
LEMMA FaultsGrow ==
    ASSUME ClientInv, [ClientNext]_clientVars
    PROVE  /\ faults' >= faults
           /\ closer # "open" => closer' # "open"
  <1> USE DEF ClientInv, ClientTypeOK, Fault, mgrVars, closeVars, liveVars
  <1>1. CASE ConnDrops \/ ChanDrops
    BY <1>1 DEF ConnDrops, ChanDrops
  <1>2. CASE EnsureConnected \/ Connect \/ ConnectFails \/ Redial
    BY <1>2 DEF EnsureConnected, Connect, ConnectFails, Redial
  <1>3. CASE \/ OpenChannel \/ OpenChannelFails \/ Listen
             \/ DeclareQueue \/ DeclareQueueFails \/ Announce
    BY <1>3
       DEF OpenChannel, OpenChannelFails, Listen, DeclareQueue, DeclareQueueFails, Announce
  <1>4. CASE Reinit \/ ConnLost \/ ChanLost \/ StopManager
    BY <1>4 DEF Reinit, ConnLost, ChanLost, StopManager
  <1>5. CASE CloseBegin \/ CloseStep
    BY <1>5 DEF CloseBegin, CloseStep, CloseDone, CloseChannel, CloseConnection
  <1>6. CASE UNCHANGED clientVars
    BY <1>6 DEF clientVars
  <1> QED
    BY <1>1, <1>2, <1>3, <1>4, <1>5, <1>6 DEF ClientNext, ManagerStep
=============================================================================
