------------------------------ MODULE Publisher ------------------------------
(***************************************************************************)
(* Publishing through one client: push, unsafePush, waitPublishConfirm and *)
(* waitBeforePushRetry of src/client.go, run by any number of concurrent   *)
(* Publish calls on top of the connection manager of module Client.        *)
(*                                                                         *)
(* The library and the broker are modelled from how the code uses them.    *)
(* A message published on channel c waits in wire[c] for the broker, which *)
(* answers in order into acks[c]; the reader goroutine of the connection   *)
(* moves one answer at a time into confirms[c], the Go channel of capacity *)
(* 1 that init registers with NotifyPublish.  When c is lost that Go       *)
(* channel is closed: a receive drains it and then yields zero values,     *)
(* whose Ack is false.                                                     *)
(***************************************************************************)
EXTENDS Client, Sequences

CONSTANTS
    Calls,         \* the Publish calls; each publishes one message
    Cancellable,   \* the calls whose context may be cancelled
    BadPriority,   \* the calls whose message may have a priority above 9
    NoCall         \* the value of lock when pushMu is free

ASSUME PublisherAssumption ==
    /\ Cancellable \subseteq Calls
    /\ BadPriority \subseteq Calls
    /\ NoCall \notin Calls

VARIABLES
    pc,         \* control point of each call
    result,     \* what each call returned
    lock,       \* the holder of clnt.pushMu
    cancelled,  \* calls whose context is done
    sent,       \* the channel a call waiting for a confirmation published on
    await,      \* the channel whose confirms the call's select receives from
    invalid,    \* the calls whose message does have a priority above 9
    wire,       \* per channel: published, not yet handled by the broker
    acks,       \* per channel: the broker's answers, not yet received
    confirms,   \* per channel: the buffer of clnt.notifyConfirm
    stored,     \* messages the broker has taken responsibility for
    strays      \* history: calls that once left waitPublishConfirm other than
                \* by the answer, or the loss, of the channel they published on

callVars   == <<pc, result, lock, cancelled, sent, await, strays>>
brokerVars == <<invalid, wire, acks, confirms, stored>>
pubVars    == <<callVars, brokerVars>>
vars       == <<clientVars, pubVars>>

PubInit ==
    /\ pc = [p \in Calls |-> "start"]
    /\ result = [p \in Calls |-> "none"]
    /\ lock = NoCall
    /\ cancelled = {}
    /\ sent = [p \in Calls |-> 0]
    /\ await = [p \in Calls |-> 0]
    /\ invalid \in SUBSET BadPriority
    /\ wire = [c \in Chans |-> <<>>]
    /\ acks = [c \in Chans |-> <<>>]
    /\ confirms = [c \in Chans |-> <<>>]
    /\ stored = {}
    /\ strays = {}

Init == ClientInit /\ PubInit

(***************************************************************************)
(* The steps of one Publish call.                                          *)
(***************************************************************************)
Goto(p, l) == pc' = [pc EXCEPT ![p] = l]

Return(p, err) ==
    /\ Goto(p, "returned")
    /\ result' = [result EXCEPT ![p] = err]

\* Publish calls ensureConnected, which starts the manager once, then push.  The
\* queue has a publisher: its checks of the name come before any state is used.
Publish(p) ==
    /\ pc[p] = "start"
    /\ Goto(p, "waitReady")
    /\ StartManager \/ (mgr # "idle" /\ UNCHANGED <<mgr, isReady>>)
    /\ UNCHANGED <<ready, conn, ch, notify, owner, closeVars, liveVars, faults,
                   result, lock, cancelled, sent, await, strays, brokerVars>>

\* WaitReady: a select over the context, done and ready.
WaitReady(p) ==
    /\ pc[p] = "waitReady"
    /\ \/ ready /\ Goto(p, "lock") /\ UNCHANGED result
       \/ p \in cancelled /\ Return(p, "ErrContext")
       \/ done /\ Return(p, "ErrClientClosedBeforeReady")
    /\ UNCHANGED <<clientVars, lock, cancelled, sent, await, strays, brokerVars>>

Lock_NoMutex(p) ==
    /\ pc[p] = "lock"
    /\ lock' = p
    /\ Goto(p, "check")
    /\ UNCHANGED <<clientVars, result, cancelled, sent, await, strays, brokerVars>>

\* pushMu.Lock().
Lock(p) ==
    /\ pc[p] = "lock"
    /\ lock = NoCall
    /\ lock' = p
    /\ Goto(p, "check")
    /\ UNCHANGED <<clientVars, result, cancelled, sent, await, strays, brokerVars>>

\* The checks of unsafePush.  Any error unlocks and goes to the retry wait,
\* ErrInvalidPriority included.
Check(p) ==
    /\ pc[p] = "check"
    /\ IF isReady /\ p \notin invalid
       THEN Goto(p, "publish") /\ UNCHANGED lock
       ELSE Goto(p, "retry") /\ lock' = NoCall
    /\ UNCHANGED <<clientVars, result, cancelled, sent, await, strays, brokerVars>>

\* PublishWithContext on clnt.ch, read again since the check: it may be a
\* newer channel, a closed one (an error), or nil (a panic, which leaves
\* pushMu locked).
Send(p) ==
    /\ pc[p] = "publish"
    /\ \/ /\ ch \in liveCh
          /\ wire' = [wire EXCEPT ![ch] = Append(@, p)]
          /\ sent' = [sent EXCEPT ![p] = ch]
          /\ Goto(p, "select")
          /\ UNCHANGED lock
       \/ /\ ch # 0 /\ ch \notin liveCh
          /\ Goto(p, "retry")
          /\ lock' = NoCall
          /\ UNCHANGED <<wire, sent>>
       \/ /\ ch = 0
          /\ Goto(p, "panicked")
          /\ UNCHANGED <<lock, wire, sent>>
    /\ UNCHANGED <<clientVars, result, cancelled, await, strays, invalid, acks, confirms, stored>>

\* waitPublishConfirm evaluates clnt.notifyConfirm, which a re-init since the
\* publish may have replaced, and blocks in its select.
Select(p) ==
    /\ pc[p] = "select"
    /\ await' = [await EXCEPT ![p] = notify]
    /\ Goto(p, "await")
    /\ UNCHANGED <<clientVars, result, lock, cancelled, sent, strays, brokerVars>>

LeaveWait_KeepsLock(p) ==
    /\ sent' = [sent EXCEPT ![p] = 0]
    /\ await' = [await EXCEPT ![p] = 0]
    /\ UNCHANGED lock

\* The call leaves waitPublishConfirm and unlocks pushMu.
LeaveWait(p) ==
    /\ lock' = NoCall
    /\ sent' = [sent EXCEPT ![p] = 0]
    /\ await' = [await EXCEPT ![p] = 0]

IsAck_Any(confirm) == TRUE

\* The confirmation is a positive one.
IsAck(confirm) == confirm.ack

\* ErrPublishNack is not returned: it leads to the retry wait.
Nacked(p) == Goto(p, "retry") /\ UNCHANGED result

Receive(p, confirm) == IF IsAck(confirm) THEN Return(p, "nil") ELSE Nacked(p)

\* What a closed Go channel yields.
ZeroConfirm == [call |-> NoCall, ack |-> FALSE]

\* A receive from notifyConfirm: the buffered answer, or the zero value once
\* the Go channel is closed and drained.
Confirmed(p) ==
    LET c == await[p] IN
    /\ pc[p] = "await"
    /\ \/ /\ confirms[c] # <<>>
          /\ Receive(p, Head(confirms[c]))
          /\ confirms' = [confirms EXCEPT ![c] = Tail(@)]
          /\ UNCHANGED strays
       \/ /\ confirms[c] = <<>> /\ c \notin liveCh
          /\ Receive(p, ZeroConfirm)
          /\ strays' = IF sent[p] # c THEN strays \cup {p} ELSE strays
          /\ UNCHANGED confirms
    /\ LeaveWait(p)
    /\ UNCHANGED <<clientVars, cancelled, invalid, wire, acks, stored>>

\* done or the context fires first: the call leaves with its confirmation
\* still to come.  The signal is still there in waitBeforePushRetry, where
\* ResendDelay, positive by validateConfig, has only begun to run.
Abandon(p) ==
    /\ pc[p] = "await"
    /\ done \/ p \in cancelled
    /\ strays' = strays \cup {p}
    /\ Goto(p, "leave")
    /\ LeaveWait(p)
    /\ UNCHANGED <<clientVars, result, cancelled, brokerVars>>

GiveUp_IgnoresDone(p) ==
    /\ pc[p] \in {"retry", "leave"}
    /\ p \in cancelled
    /\ Return(p, "ErrContextCanceledBeforeAck")
    /\ UNCHANGED <<clientVars, lock, cancelled, sent, await, strays, brokerVars>>

\* waitBeforePushRetry: done, the context, or ResendDelay elapses.
GiveUp(p) ==
    /\ pc[p] \in {"retry", "leave"}
    /\ \/ done /\ Return(p, "ErrDoneSignalBeforeAck")
       \/ p \in cancelled /\ Return(p, "ErrContextCanceledBeforeAck")
    /\ UNCHANGED <<clientVars, lock, cancelled, sent, await, strays, brokerVars>>

Resend(p) ==
    /\ pc[p] = "retry"
    /\ Goto(p, "lock")
    /\ UNCHANGED <<clientVars, result, lock, cancelled, sent, await, strays, brokerVars>>

\* The caller's context is cancelled or its deadline passes.
Cancel(p) ==
    /\ p \in Cancellable \ cancelled
    /\ pc[p] # "returned"
    /\ cancelled' = cancelled \cup {p}
    /\ UNCHANGED <<clientVars, pc, result, lock, sent, await, strays, brokerVars>>

(***************************************************************************)
(* The broker and the reader goroutine of the connection.                  *)
(***************************************************************************)
\* The broker handles the oldest message of a channel and answers.  What was
\* on the wire when the channel was lost may still be stored, but its answer
\* no longer arrives.
Answer(c, ack) ==
    /\ wire[c] # <<>>
    /\ wire' = [wire EXCEPT ![c] = Tail(@)]
    /\ acks' = IF c \in liveCh
               THEN [acks EXCEPT ![c] = Append(@, [call |-> Head(wire[c]), ack |-> ack])]
               ELSE acks
    /\ stored' = IF ack THEN stored \cup {Head(wire[c])} ELSE stored
    /\ UNCHANGED <<mgrVars, closeVars, liveVars, callVars, invalid, confirms>>

BrokerAck(c) == Answer(c, TRUE) /\ UNCHANGED faults

BrokerNack(c) == Answer(c, FALSE) /\ Fault("nack")

\* The reader hands an answer to notifyConfirm and blocks while it is full.  A
\* channel that init has not yet given a listener drops it.
ReadConfirm(c) ==
    /\ c \in liveCh
    /\ acks[c] # <<>>
    /\ acks' = [acks EXCEPT ![c] = Tail(@)]
    /\ \/ /\ c <= notify
          /\ confirms[c] = <<>>
          /\ confirms' = [confirms EXCEPT ![c] = Append(@, Head(acks[c]))]
       \/ /\ c > notify
          /\ UNCHANGED confirms
    /\ UNCHANGED <<clientVars, callVars, invalid, wire, stored>>

\* The reader has handed over every answer it received.  It takes frames in
\* order, so while it is stuck on a full notifyConfirm no later frame of the
\* connection gets through.
Drained == \A c \in liveCh : acks[c] = <<>>

(***************************************************************************)
(* The publisher: calls, manager, close() and broker together.  Closing a  *)
(* channel or a connection is a request that waits for the broker's reply, *)
(* and a channel exception is a frame too: both come behind the answers.   *)
(***************************************************************************)
PubCloseStep ==
    /\ CloseStep
    /\ closer \in {"channel", "connection"} => Drained
    /\ UNCHANGED pubVars

PubEnvStep ==
    /\ CloseBegin \/ ConnDrops \/ (Drained /\ ChanDrops)
    /\ UNCHANGED pubVars

PubManagerStep == ManagerStep /\ UNCHANGED pubVars

CallStep(p) ==
    \/ Publish(p) \/ WaitReady(p) \/ Lock(p) \/ Check(p) \/ Send(p)
    \/ Select(p) \/ Confirmed(p) \/ Abandon(p) \/ GiveUp(p) \/ Resend(p)

BrokerStep(c) == BrokerAck(c) \/ ReadConfirm(c)

Next ==
    \/ \E p \in Calls : CallStep(p) \/ Cancel(p)
    \/ PubManagerStep
    \/ PubCloseStep
    \/ PubEnvStep
    \/ \E c \in Chans : BrokerStep(c) \/ BrokerNack(c)

Spec == Init /\ [][Next]_vars

\* A call that has begun keeps running; a mutex in Go is starvation-free and a
\* select chooses at random among its ready cases; the broker answers and the
\* reader reads.  Calls, cancellations, close() and faults need never happen.
CallFairness(p) ==
    /\ WF_vars(pc[p] # "start" /\ CallStep(p))
    /\ SF_vars(Lock(p))
    /\ SF_vars(GiveUp(p))

Fairness ==
    /\ \A p \in Calls : CallFairness(p)
    /\ \A c \in Chans : WF_vars(BrokerStep(c))
    /\ WF_vars(PubManagerStep)
    /\ SF_vars(StopManager /\ UNCHANGED pubVars)
    /\ SF_vars(ConnLost /\ UNCHANGED pubVars)
    /\ WF_vars(PubCloseStep)

FairSpec == Spec /\ Fairness

-----------------------------------------------------------------------------
Results ==
    {"none", "nil", "ErrContext", "ErrClientClosedBeforeReady",
     "ErrDoneSignalBeforeAck", "ErrContextCanceledBeforeAck"}

Confirmation == [call : Calls, ack : BOOLEAN]

\* The state of the calls and of the confirm pipeline is well typed.
PubTypeOK ==
    /\ pc \in [Calls -> {"start", "waitReady", "lock", "check", "publish", "select",
                         "await", "retry", "leave", "returned", "panicked"}]
    /\ result \in [Calls -> Results]
    /\ lock \in Calls \cup {NoCall}
    /\ cancelled \subseteq Calls
    /\ invalid \subseteq Calls
    /\ sent \in [Calls -> 0..MaxChans]
    /\ await \in [Calls -> 0..MaxChans]
    /\ wire \in [Chans -> Seq(Calls)]
    /\ acks \in [Chans -> Seq(Confirmation)]
    /\ confirms \in [Chans -> Seq(Confirmation)]
    /\ stored \subseteq Calls
    /\ strays \subseteq Calls

TypeOK == ClientTypeOK /\ PubTypeOK

\* "Publish blocks until the broker confirms the message"
\* (examples/publisher-confirms/main.go:1): a call that returned nil has its
\* message in the broker.
PublishedIsStored == \A p \in Calls : result[p] = "nil" => p \in stored

\* The same, for as long as no call has left waitPublishConfirm
\* (client.go:252-268) with its own confirmation unaccounted for: whatever is
\* lost, nacked, re-initialised or closed meanwhile.
ConfirmsMatch == strays = {} => PublishedIsStored

Outstanding(c) == Len(wire[c]) + Len(acks[c]) + Len(confirms[c])

\* "one in-flight publish per connection" (README.md:22): under the same
\* condition pushMu (client.go:219-226) keeps at most one publish unanswered
\* on an open channel.
OneInFlight == strays = {} => \A c \in liveCh : Outstanding(c) <= 1

Returned(p) == pc[p] = "returned"

Panic == \E p \in Calls : pc[p] = "panicked"

\* Closing the client releases every Publish call that has begun, whatever it
\* waits for (client.go:51, 243, 254).
CloseReleasesCalls ==
    \A p \in Calls : (done /\ pc[p] # "start") ~> (Returned(p) \/ Panic)

\* "On nack or publish error the adapter waits ResendDelay and retries until
\* the context is canceled" (examples/publisher-confirms/main.go:4): a call
\* always comes to an end once the faults have ceased.
PublishEnds ==
    \A p \in Calls : (pc[p] = "waitReady") ~> (Returned(p) \/ Panic)

\* A call waits on an open channel that owes no confirmation: it was published on
\* another one, or answered before init listened.
Stranded == \E p \in Calls : pc[p] = "await" /\ await[p] \in liveCh /\ Outstanding(await[p]) = 0

\* Every valid message is confirmed in the end, through faults, nacks and other
\* calls that retry an invalid message for ever (client.go:218-238), unless the
\* channel was replaced or removed under a call that is then stranded or panics.
PublishSucceeds ==
    \A p \in Calls :
        (pc[p] = "waitReady") ~>
            (result[p] = "nil" \/ p \in invalid \/ done \/ Stranded \/ Panic)

\* While its client is not being closed, one fault alone never makes a publish
\* use a nil channel (client.go:309) behind its check of isReady (client.go:271):
\* for that the channel or the connection has to be lost and the declarations of
\* the next one have to fail (client.go:179), both while the call is between the
\* two lines.  close() is such a loss too, of the channel and then the connection.
PanicNeedsTwoFaults == Panic => faults >= 2 \/ closer # "open"

\* pushMu is held from Lock to the end of waitPublishConfirm, and for good by a
\* call that panicked.
LockInv ==
    \A p \in Calls :
        pc[p] \in {"check", "publish", "select", "await", "panicked"} <=> lock = p

\* A call that has passed the check of isReady finds listeners, and only two
\* faults or close() leave it without a channel.
PassedCheck ==
    \A p \in Calls :
        /\ pc[p] \in {"publish", "select"} => notify # 0
        /\ pc[p] = "await" => await[p] # 0
        /\ pc[p] = "publish" => CheckedChannel

\* Nothing was published on a channel that was not opened yet.
Unused ==
    \A c \in Chans : c > notify /\ ~(mgr = "listen" /\ c = ch) => Outstanding(c) = 0

\* The holder of pushMu has published on c and not yet left the wait.
Owns(c) == lock # NoCall /\ pc[lock] \in {"select", "await"} /\ sent[lock] = c

\* What is in flight on an open channel is the message of the holder of pushMu,
\* and an answer that was read can only be received by that call.
InFlightIsHolders ==
    strays = {} =>
        /\ \A c \in liveCh :
              /\ Outstanding(c) > 0 => Owns(c)
              /\ wire[c] # <<>> => Head(wire[c]) = lock
              /\ acks[c] # <<>> => (Head(acks[c]).ack => lock \in stored)
        /\ \A c \in Chans : confirms[c] # <<>> =>
              /\ Len(confirms[c]) = 1
              /\ Owns(c)
              /\ Head(confirms[c]).ack => lock \in stored

\* The inductive invariant: types, the client's own invariant, the mutex
\* (client.go:219-226), what a publish in progress relies on (client.go:271-309)
\* and whose confirmation is under way (client.go:252-268).
PublisherInv ==
    /\ TypeOK /\ ClientInv
    /\ LockInv /\ PassedCheck /\ Unused
    /\ OneInFlight /\ InFlightIsHolders
    /\ ConfirmsMatch /\ PanicNeedsTwoFaults

\* close() comes to an end (client.go:394-424): the confirmations that calls
\* leave unread when done is closed do not fill notifyConfirm (client.go:160) and
\* block the connection's reader, behind which the replies to Close would wait.
\* No context has ended before, and init has not set isReady again after close()
\* cleared it (client.go:184): either could leave a second one unread.
CloseReturns == (closer = "signal") ~> (closer = "closed" \/ isReady)
=============================================================================
