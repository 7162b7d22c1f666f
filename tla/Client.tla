------------------------------- MODULE Client -------------------------------
(***************************************************************************)
(* The connection manager of one AMQP client (src/client.go).              *)
(*                                                                         *)
(* Every client, publisher or consumer, owns one goroutine that dials the  *)
(* broker (handleReconnect), opens and initialises a channel on the        *)
(* connection (handleReInit, init) and starts over when the connection or  *)
(* the channel is lost.  close() runs concurrently with it, in the         *)
(* goroutine of Shutdown or of a cancelled consumer, and shares the fields *)
(* conn, ch, isReady, done and ready with it without a lock.               *)
(*                                                                         *)
(* Connections are numbered by the dial that made them and channels by the *)
(* order in which they are opened; 0 is Go's nil.                          *)
(***************************************************************************)
EXTENDS Naturals

CONSTANTS
    MaxFaults,    \* bound: faults the environment may inject in a behaviour
    FaultKinds,   \* the kinds of fault it may inject
    MaxChans,     \* bound: channels a behaviour may open
    MayClose      \* whether anybody calls close()

AllFaultKinds == {"dial", "open", "declare", "conn", "chan", "nack"}

ASSUME ClientAssumption ==
    /\ MaxFaults \in Nat
    /\ FaultKinds \subseteq AllFaultKinds
    /\ MaxChans \in Nat
    /\ MayClose \in BOOLEAN

VARIABLES
    mgr,       \* control point of the handleReconnect goroutine
    isReady,   \* clnt.isReady
    ready,     \* clnt.ready has been closed
    done,      \* clnt.done has been closed
    conn,      \* clnt.conn
    ch,        \* clnt.ch
    notify,    \* the channel clnt.notifyChanClose and clnt.notifyConfirm listen to
    owner,     \* the connection each channel was opened on
    liveConn,  \* connections that are open
    liveCh,    \* channels that are open
    closer,    \* control point of the closeOnce body of close()
    faults     \* faults injected so far

mgrVars    == <<mgr, isReady, ready, conn, ch, notify, owner>>
closeVars  == <<done, closer>>
liveVars   == <<liveConn, liveCh>>
clientVars == <<mgrVars, closeVars, liveVars, faults>>

Chans == 1..MaxChans

ClientInit ==
    /\ mgr = "idle"
    /\ isReady = FALSE
    /\ ready = FALSE
    /\ done = FALSE
    /\ conn = 0
    /\ ch = 0
    /\ notify = 0
    /\ owner = [c \in Chans |-> 0]
    /\ liveConn = {}
    /\ liveCh = {}
    /\ closer = "open"
    /\ faults = 0

(***************************************************************************)
(* The environment: the broker and the network.                            *)
(***************************************************************************)
\* The environment spends one fault of the given kind.
Fault(kind) ==
    /\ kind \in FaultKinds
    /\ faults < MaxFaults
    /\ faults' = faults + 1

\* A connection that closes takes its channels with it.
DropConn(k) ==
    /\ liveConn' = liveConn \ {k}
    /\ liveCh' = {c \in liveCh : owner[c] # k}

\* The broker or the network closes a connection.
ConnDrops ==
    /\ Fault("conn")
    /\ \E k \in liveConn : DropConn(k)
    /\ UNCHANGED <<mgrVars, closeVars>>

\* The broker closes a channel (a channel exception).
ChanDrops ==
    /\ Fault("chan")
    /\ \E c \in liveCh : liveCh' = liveCh \ {c}
    /\ UNCHANGED <<liveConn, mgrVars, closeVars>>

(***************************************************************************)
(* handleReconnect, connect, waitOrDone.                                   *)
(***************************************************************************)
\* The goroutine starts: ensureConnected on the first Publish, or the go
\* statement of addConsumerClient.
StartManager ==
    /\ mgr = "idle"
    /\ mgr' = "dial"
    /\ isReady' = FALSE

EnsureConnected ==
    /\ StartManager
    /\ UNCHANGED <<ready, conn, ch, notify, owner, closeVars, liveVars, faults>>

\* connect succeeds and handleReInit begins: isReady is stored 0 again.
Connect ==
    /\ mgr = "dial"
    /\ conn' = conn + 1
    /\ liveConn' = liveConn \cup {conn + 1}
    /\ isReady' = FALSE
    /\ mgr' = "open"
    /\ UNCHANGED <<ready, ch, notify, owner, closeVars, liveCh, faults>>

ConnectFails ==
    /\ mgr = "dial"
    /\ Fault("dial")
    /\ mgr' = "dialWait"
    /\ UNCHANGED <<isReady, ready, conn, ch, notify, owner, closeVars, liveVars>>

\* ReconnectDelay elapses and the loop dials again.
Redial ==
    /\ mgr = "dialWait"
    /\ isReady' = FALSE
    /\ mgr' = "dial"
    /\ UNCHANGED <<ready, conn, ch, notify, owner, closeVars, liveVars, faults>>

(***************************************************************************)
(* init: open a channel, enable confirms, listen, declare, announce.       *)
(***************************************************************************)
\* conn.Channel() and Confirm(false) succeed and clnt.ch is assigned.  The
\* listeners are not yet the new channel's.
OpenChannel ==
    /\ mgr = "open"
    /\ conn \in liveConn
    /\ notify < MaxChans
    /\ ch' = notify + 1
    /\ owner' = [owner EXCEPT ![notify + 1] = conn]
    /\ liveCh' = liveCh \cup {notify + 1}
    /\ mgr' = "listen"
    /\ UNCHANGED <<isReady, ready, conn, notify, closeVars, liveConn, faults>>

\* notifyChanClose and notifyConfirm are replaced and registered with the new
\* channel; on a channel that is closed by now they are closed at once.
Listen ==
    /\ mgr = "listen"
    /\ notify' = ch
    /\ mgr' = "declare"
    /\ UNCHANGED <<isReady, ready, conn, ch, owner, closeVars, liveVars, faults>>

\* conn.Channel() or Confirm(false) fails: always on a closed connection,
\* otherwise by a fault.  A half-open channel is closed again and never
\* becomes the client's, so clnt.ch keeps its old value.
OpenChannelFails ==
    /\ mgr = "open"
    /\ \/ conn \notin liveConn /\ UNCHANGED faults
       \/ conn \in liveConn /\ Fault("open")
    /\ mgr' = "initWait"
    /\ UNCHANGED <<isReady, ready, conn, ch, notify, owner, closeVars, liveVars>>

\* initQueue or initQueueWithRetry succeeds: exchanges, queues, bindings and
\* the prefetch of 1 are in place.
DeclareQueue ==
    /\ mgr = "declare"
    /\ ch \in liveCh
    /\ mgr' = "announce"
    /\ UNCHANGED <<isReady, ready, conn, ch, notify, owner, closeVars, liveVars, faults>>

DeclareQueueFails_KeepsChannel ==
    /\ mgr = "declare"
    /\ \/ ch \notin liveCh /\ UNCHANGED faults
       \/ ch \in liveCh /\ Fault("declare")
    /\ ch' = 0
    /\ mgr' = "initWait"
    /\ UNCHANGED <<isReady, ready, conn, notify, owner, closeVars, liveVars>>

\* A declaration fails: the channel is closed and clnt.ch becomes nil.
DeclareQueueFails ==
    /\ mgr = "declare"
    /\ \/ ch \notin liveCh /\ UNCHANGED faults
       \/ ch \in liveCh /\ Fault("declare")
    /\ liveCh' = liveCh \ {ch}
    /\ ch' = 0
    /\ mgr' = "initWait"
    /\ UNCHANGED <<isReady, ready, conn, notify, owner, closeVars, liveConn>>

\* isReady is stored 1 and ready is closed unless it already is.  close()
\* may have run since the declaration.
Announce ==
    /\ mgr = "announce"
    /\ isReady' = TRUE
    /\ ready' = TRUE
    /\ mgr' = "serve"
    /\ UNCHANGED <<conn, ch, notify, owner, closeVars, liveVars, faults>>

(***************************************************************************)
(* The selects of handleReInit and waitOrDone.                             *)
(***************************************************************************)
\* ReInitDelay elapses and init is tried again.
Reinit ==
    /\ mgr = "initWait"
    /\ isReady' = FALSE
    /\ mgr' = "open"
    /\ UNCHANGED <<ready, conn, ch, notify, owner, closeVars, liveVars, faults>>

ConnWatch_ServeOnly == {"serve"}

\* The selects that receive from notifyConnClose.
ConnWatch == {"initWait", "serve"}

\* notifyConnClose fires: back to handleReconnect, which stores isReady 0.
ConnLost ==
    /\ mgr \in ConnWatch
    /\ conn \notin liveConn
    /\ isReady' = FALSE
    /\ mgr' = "dial"
    /\ UNCHANGED <<ready, conn, ch, notify, owner, closeVars, liveVars, faults>>

ChanLost_StaysReady ==
    /\ mgr = "serve"
    /\ notify \notin liveCh
    /\ mgr' = "open"
    /\ UNCHANGED <<isReady, ready, conn, ch, notify, owner, closeVars, liveVars, faults>>

ChanLost_DropsChannel ==
    /\ mgr = "serve"
    /\ notify \notin liveCh
    /\ isReady' = FALSE
    /\ ch' = 0
    /\ mgr' = "open"
    /\ UNCHANGED <<ready, conn, notify, owner, closeVars, liveVars, faults>>

\* notifyChanClose fires: the loop of handleReInit stores isReady 0 and
\* initialises a new channel on the same connection.
ChanLost ==
    /\ mgr = "serve"
    /\ notify \notin liveCh
    /\ isReady' = FALSE
    /\ mgr' = "open"
    /\ UNCHANGED <<ready, conn, ch, notify, owner, closeVars, liveVars, faults>>

DoneWatch_NotServing == {"dialWait", "initWait"}

\* The selects that receive from done.
DoneWatch == {"dialWait", "initWait", "serve"}

\* done fires: the goroutine returns, closing nothing.
StopManager ==
    /\ mgr \in DoneWatch
    /\ done
    /\ mgr' = "stopped"
    /\ UNCHANGED <<isReady, ready, conn, ch, notify, owner, closeVars, liveVars, faults>>

(***************************************************************************)
(* close(): the body of closeOnce, four steps that interleave with the     *)
(* goroutine above.                                                        *)
(***************************************************************************)
CloseBegin ==
    /\ MayClose
    /\ closer = "open"
    /\ closer' = "signal"
    /\ isReady' = FALSE
    /\ UNCHANGED <<mgr, ready, conn, ch, notify, owner, done, liveVars, faults>>

CloseDone ==
    /\ closer = "signal"
    /\ done' = TRUE
    /\ closer' = "channel"
    /\ UNCHANGED <<mgrVars, liveVars, faults>>

\* An error of ch.Close() does not keep close() from closing the connection;
\* only its result depends on it, see CloseOneClient in module Store.
CloseChannel ==
    /\ closer = "channel"
    /\ liveCh' = liveCh \ {ch}
    /\ closer' = "connection"
    /\ UNCHANGED <<done, mgrVars, liveConn, faults>>

CloseConnection ==
    /\ closer = "connection"
    /\ DropConn(conn)
    /\ closer' = "closed"
    /\ UNCHANGED <<done, mgrVars, faults>>

(***************************************************************************)
(* The client on its own.                                                  *)
(***************************************************************************)
\* A step of the handleReconnect goroutine.
ManagerStep ==
    \/ Connect \/ ConnectFails \/ Redial
    \/ OpenChannel \/ OpenChannelFails \/ Listen
    \/ DeclareQueue \/ DeclareQueueFails \/ Announce
    \/ Reinit \/ ConnLost \/ ChanLost \/ StopManager

CloseStep == CloseDone \/ CloseChannel \/ CloseConnection

ClientNext ==
    \/ EnsureConnected
    \/ ManagerStep
    \/ CloseBegin \/ CloseStep
    \/ ConnDrops \/ ChanDrops

\* The goroutines run whenever they can (weak fairness), and a Go select
\* with several ready cases chooses among them at random, so a case that is
\* ready over and over is taken (strong fairness).
ManagerFairness ==
    /\ WF_clientVars(ManagerStep)
    /\ SF_clientVars(StopManager)
    /\ SF_clientVars(ConnLost)

ClientSpec == ClientInit /\ [][ClientNext]_clientVars

ClientFairSpec == ClientSpec /\ ManagerFairness /\ WF_clientVars(CloseStep)

-----------------------------------------------------------------------------
MgrStates ==
    {"idle", "dial", "dialWait", "open", "listen", "declare", "announce",
     "initWait", "serve", "stopped"}

\* The fields of a client hold values of their types.
ClientTypeOK ==
    /\ mgr \in MgrStates
    /\ isReady \in BOOLEAN /\ ready \in BOOLEAN /\ done \in BOOLEAN
    /\ conn \in Nat
    /\ notify \in 0..MaxChans
    /\ ch \in 0..MaxChans
    /\ owner \in [Chans -> Nat]
    /\ liveConn \subseteq Nat
    /\ liveCh \subseteq Chans
    /\ closer \in {"open", "signal", "channel", "connection", "closed"}
    /\ faults \in Nat

\* However often the client reconnects and re-initialises (client.go:61-80,
\* 110-140), an open connection is the one in clnt.conn and an open channel
\* the one in clnt.ch: recovery never leaves one behind that nothing in the
\* program can reach, and close() any more.
NoOrphan ==
    /\ liveConn \subseteq {conn}
    /\ liveCh \subseteq {ch}

\* While isReady is 1 (client.go:184) the channel in clnt.ch is not nil, is
\* the newest one, has its topology declared, and the manager is watching it
\* or has been told to stop.
ReadyIsInitialised ==
    isReady => /\ mgr \in {"serve", "stopped"}
               /\ ch # 0
               /\ ch = notify

\* The control points of the manager tell what is open and where the fields
\* point: nothing is open when it dials, no channel is open when it opens one,
\* the listeners are the newest channel's from Listen on, and a channel never
\* outlives its connection.  This is what makes NoOrphan and ReadyIsInitialised
\* inductive, with close() and losses at any moment.
Bookkeeping ==
    /\ mgr \in {"idle", "dial", "dialWait"} => liveConn = {}
    /\ mgr \in {"open", "initWait"} => liveCh = {}
    /\ IF mgr = "listen" THEN ch = notify + 1 ELSE ch <= notify
    /\ mgr \in {"declare", "announce", "serve"} => ch # 0 /\ ch = notify
    /\ \A c \in liveCh : owner[c] \in liveConn

\* Until close() is called nothing stops the manager, and until the first fault
\* nothing is lost.
LossNeedsFault ==
    closer = "open" =>
        /\ ~done /\ mgr # "stopped"
        /\ faults = 0 =>
              /\ mgr \notin {"dialWait", "initWait"}
              /\ mgr \in {"open", "listen", "declare", "announce", "serve"} => conn \in liveConn
              /\ mgr \in {"listen", "declare", "announce", "serve"} => ch \in liveCh

ClientInv ==
    ClientTypeOK /\ NoOrphan /\ ReadyIsInitialised /\ Bookkeeping /\ LossNeedsFault

\* What a goroutine that has found isReady 1 may still rely on when it comes to
\* use clnt.ch, while nobody has called close() and there was at most one fault:
\* the one fault was spent on what it found, so the next channel is not lost.
CheckedChannel ==
    closer = "open" /\ faults <= 1 =>
        /\ ch # 0
        /\ mgr # "serve" => faults = 1
        /\ mgr \in {"listen", "declare", "announce"} => ch \in liveCh

Usable == mgr = "serve" /\ isReady /\ ch \in liveCh

\* "Automatic reconnect on connection/channel loss" (README.md:23): once the
\* faults cease, a started client that is not closed comes to serve on a live
\* channel, whatever was lost and in whatever order it noticed.
Recovers == []<>(mgr = "idle" \/ done \/ Usable)

\* close() ends the handleReconnect goroutine, wherever it is (client.go:85,
\* 118, 131).
ManagerEnds == done ~> (mgr \in {"idle", "stopped"})
=============================================================================
