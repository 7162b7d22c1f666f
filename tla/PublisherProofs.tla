-------------------------- MODULE PublisherProofs --------------------------
(***************************************************************************)
(* Proofs about concurrent Publish calls of module Publisher, for any      *)
(* number of calls, faults and channels, with cancellation and close() at  *)
(* any moment.                                                             *)
(***************************************************************************)
EXTENDS Publisher, ClientProofs, SequenceTheorems

\* A sequence loses its head, or gains a last element.
LEMMA HeadTail ==
    ASSUME NEW S, NEW s \in Seq(S), s # <<>>
    PROVE  /\ Head(s) \in S /\ Tail(s) \in Seq(S)
           /\ Len(s) \in Nat \ {0} /\ Len(Tail(s)) = Len(s) - 1
  BY HeadTailProperties, EmptySeq

LEMMA Appended ==
    ASSUME NEW S, NEW s \in Seq(S), NEW x \in S
    PROVE  /\ Append(s, x) \in Seq(S)
           /\ Len(Append(s, x)) = Len(s) + 1
           /\ s = <<>> => Head(Append(s, x)) = x
  BY AppendProperties

LEMMA EmptyLen ==
    ASSUME NEW S, NEW s \in Seq(S)
    PROVE  Len(s) \in Nat /\ (Len(s) = 0 <=> s = <<>>)
  BY EmptySeq

\* The answers under way in three stages of the pipeline: none, or just one.
LEMMA ThreeStages ==
    ASSUME NEW S, NEW T, NEW u \in Seq(S), NEW v \in Seq(T), NEW w \in Seq(T)
    PROVE  /\ Len(u) + Len(v) + Len(w) \in Nat
           /\ Len(u) + Len(v) + Len(w) = 0 <=> u = <<>> /\ v = <<>> /\ w = <<>>
           /\ Len(u) + Len(v) + Len(w) <= 1 =>
                 /\ u # <<>> => Len(u) = 1 /\ v = <<>> /\ w = <<>>
                 /\ v # <<>> => u = <<>> /\ Len(v) = 1 /\ w = <<>>
                 /\ w # <<>> => u = <<>> /\ v = <<>> /\ Len(w) = 1
  <1>1. PICK x \in Nat, y \in Nat, z \in Nat :
           /\ x = Len(u) /\ (x = 0 <=> u = <<>>)
           /\ y = Len(v) /\ (y = 0 <=> v = <<>>)
           /\ z = Len(w) /\ (z = 0 <=> w = <<>>)
    <2>1. /\ Len(u) \in Nat /\ (Len(u) = 0 <=> u = <<>>)
          /\ Len(v) \in Nat /\ (Len(v) = 0 <=> v = <<>>)
          /\ Len(w) \in Nat /\ (Len(w) = 0 <=> w = <<>>)
      BY EmptyLen
    <2> QED BY <2>1, Zenon
  <1>2. /\ x + y + z \in Nat
        /\ x + y + z = 0 <=> x = 0 /\ y = 0 /\ z = 0
        /\ x + y + z <= 1 =>
              /\ x # 0 => x = 1 /\ y = 0 /\ z = 0
              /\ y # 0 => x = 0 /\ y = 1 /\ z = 0
              /\ z # 0 => x = 0 /\ y = 0 /\ z = 1
    OBVIOUS
  <1> QED BY <1>1, <1>2, Zenon

\* The same of the channels of a publisher.
LEMMA OutstandingParts ==
    ASSUME PubTypeOK, NEW c \in Chans
    PROVE  /\ Outstanding(c) \in Nat
           /\ Outstanding(c) = 0 <=> wire[c] = <<>> /\ acks[c] = <<>> /\ confirms[c] = <<>>
           /\ Outstanding(c) <= 1 =>
                 /\ wire[c] # <<>> => Len(wire[c]) = 1 /\ acks[c] = <<>> /\ confirms[c] = <<>>
                 /\ acks[c] # <<>> => wire[c] = <<>> /\ Len(acks[c]) = 1 /\ confirms[c] = <<>>
                 /\ confirms[c] # <<>> => wire[c] = <<>> /\ acks[c] = <<>> /\ Len(confirms[c]) = 1
  <1>1. wire[c] \in Seq(Calls) /\ acks[c] \in Seq(Confirmation) /\ confirms[c] \in Seq(Confirmation)
    BY DEF PubTypeOK
  <1> QED BY <1>1, ThreeStages, Zenon DEF Outstanding

\* No call was made on a fresh client.
LEMMA PublisherInvInit == Init => PublisherInv
  <1> SUFFICES ASSUME Init PROVE PublisherInv
    OBVIOUS
  <1> USE PublisherAssumption, ClientAssumption DEF Init, PubInit
  <1>1. ClientInv
    BY ClientInvInit
  <1>2. TypeOK
    <2>1. 0 \in 0..MaxChans
      OBVIOUS
    <2> QED BY <1>1, <2>1 DEF ClientInv, TypeOK, PubTypeOK, Results
  <1>3. liveCh = {}
    BY DEF ClientInit
  <1>4. LockInv /\ PassedCheck /\ ConfirmsMatch /\ PanicNeedsTwoFaults
    BY DEF LockInv, PassedCheck, ConfirmsMatch, PublishedIsStored, PanicNeedsTwoFaults, Panic
  <1>5. Unused /\ OneInFlight /\ InFlightIsHolders
    BY <1>3 DEF Unused, Outstanding, OneInFlight, InFlightIsHolders
  <1> QED BY <1>1, <1>2, <1>4, <1>5 DEF PublisherInv

\* The manager, close() and the environment, under the calls in progress.
LEMMA UnderCallsInv ==
    ASSUME PublisherInv, [ClientNext]_clientVars, UNCHANGED pubVars
    PROVE  PublisherInv'
  <1> USE DEF PublisherInv
  <1>1. ClientInv'
    BY ClientInvNext
  <1>2. UNCHANGED <<pc, result, lock, cancelled, sent, await, strays,
                    invalid, wire, acks, confirms, stored>>
    BY DEF pubVars, callVars, brokerVars
  <1>3. TypeOK'
    BY <1>1, <1>2 DEF TypeOK, PubTypeOK, ClientInv
  <1>4. LockInv' /\ ConfirmsMatch'
    BY <1>2 DEF LockInv, ConfirmsMatch, PublishedIsStored
  <1>5. /\ liveCh' \subseteq liveCh \/ (mgr = "open" /\ mgr' = "listen" /\ ch' = notify + 1)
        /\ liveCh' \subseteq liveCh \cup {notify + 1}
        /\ notify' = notify \/ (mgr = "listen" /\ notify' = ch)
        /\ mgr = "listen" /\ notify' = notify => mgr' = "listen" /\ ch' = ch
        /\ faults' >= faults
        /\ closer # "open" => closer' # "open"
    BY NewChannels, FaultsGrow
  <1>6. /\ notify \in Nat /\ ch \in Nat /\ liveCh' \subseteq Chans
        /\ faults \in Nat /\ faults' \in Nat
        /\ mgr = "listen" => ch = notify + 1
    BY <1>1, ClientAssumption DEF ClientInv, ClientTypeOK, Bookkeeping
  <1>7. \A c \in Chans : Outstanding(c)' = Outstanding(c) /\ Owns(c)' = Owns(c)
    BY <1>2 DEF Outstanding, Owns
  <1>8. PassedCheck'
    BY <1>2, <1>5, <1>6, CheckedNext DEF PassedCheck
  <1>9. Unused'
    BY <1>5, <1>6, <1>7 DEF Unused, Chans
  <1>10. \A c \in liveCh' : c \in liveCh \/ Outstanding(c) = 0
    BY <1>5, <1>6 DEF Unused, Chans
  <1>11. OneInFlight'
    BY <1>2, <1>6, <1>7, <1>10 DEF OneInFlight
  <1>12. InFlightIsHolders'
    <2>1. \A c \in Chans : Outstanding(c) = 0 => wire[c] = <<>> /\ acks[c] = <<>>
      BY EmptyLen DEF Outstanding, TypeOK, PubTypeOK
    <2> QED BY <1>2, <1>6, <1>7, <1>10, <2>1 DEF InFlightIsHolders
  <1>13. PanicNeedsTwoFaults'
    BY <1>2, <1>5, <1>6 DEF PanicNeedsTwoFaults, Panic
  <1> QED BY <1>1, <1>3, <1>4, <1>8, <1>9, <1>11, <1>12, <1>13

\* A step that leaves the client alone keeps all that is said of the client.
LEMMA ClientStands ==
    ASSUME PublisherInv, UNCHANGED clientVars
    PROVE  /\ UNCHANGED <<mgr, isReady, ready, done, ch, notify, liveCh, closer, faults>>
           /\ ClientTypeOK' /\ ClientInv'
           /\ CheckedChannel' = CheckedChannel
  BY DEF PublisherInv, clientVars, mgrVars, closeVars, liveVars, ClientInv, ClientTypeOK,
         NoOrphan, ReadyIsInitialised, Bookkeeping, LossNeedsFault, CheckedChannel

\* The confirm pipeline is untouched, and so is what the holder of pushMu owns.
LEMMA PipelineStands ==
    ASSUME PublisherInv, UNCHANGED <<mgr, ch, notify, liveCh, strays, brokerVars>>,
           \A c \in Chans : Owns(c) => Owns(c)' /\ lock' = lock
    PROVE  Unused' /\ OneInFlight' /\ InFlightIsHolders'
  <1> USE DEF PublisherInv, brokerVars
  <1>1. \A c \in Chans : Outstanding(c)' = Outstanding(c)
    BY DEF Outstanding
  <1>2. liveCh \subseteq Chans /\ \A c \in Chans : Outstanding(c) \in Nat
    BY EmptyLen DEF TypeOK, PubTypeOK, ClientTypeOK, Outstanding
  <1>3. Unused' /\ OneInFlight'
    BY <1>1, <1>2 DEF Unused, OneInFlight
  <1>4. \A c \in Chans : (wire[c] # <<>> \/ acks[c] # <<>>) => Outstanding(c) > 0
    BY EmptyLen DEF TypeOK, PubTypeOK, Outstanding
  <1>5. InFlightIsHolders'
    BY <1>1, <1>2, <1>4 DEF InFlightIsHolders
  <1> QED BY <1>3, <1>5

\* The steps of a call that touch neither the broker nor the client.
LEMMA QuietCallInv ==
    ASSUME PublisherInv, NEW p \in Calls,
           \/ WaitReady(p) \/ Lock(p) \/ Check(p) \/ Select(p)
           \/ GiveUp(p) \/ Resend(p) \/ Cancel(p)
    PROVE  PublisherInv'
  <1> USE PublisherAssumption DEF Goto, Return
  <1>1. UNCHANGED <<clientVars, strays, brokerVars>>
    BY DEF WaitReady, Lock, Check, Select, GiveUp, Resend, Cancel
  <1>2. /\ UNCHANGED <<mgr, isReady, ready, done, ch, notify, liveCh, closer, faults>>
        /\ ClientTypeOK' /\ ClientInv'
        /\ CheckedChannel' = CheckedChannel
    BY <1>1, ClientStands
  <1>3. UNCHANGED <<strays, invalid, wire, acks, confirms, stored>>
    BY <1>1 DEF brokerVars
  <1>4. /\ pc \in [Calls -> {"start", "waitReady", "lock", "check", "publish", "select",
                             "await", "retry", "leave", "returned", "panicked"}]
        /\ result \in [Calls -> Results]
        /\ sent \in [Calls -> 0..MaxChans] /\ await \in [Calls -> 0..MaxChans]
        /\ lock \in Calls \cup {NoCall} /\ cancelled \subseteq Calls
        /\ notify \in 0..MaxChans
    BY DEF PublisherInv, TypeOK, PubTypeOK, ClientTypeOK
  <1>5. TypeOK'
    <2>1. /\ pc' \in [Calls -> {"start", "waitReady", "lock", "check", "publish", "select",
                                "await", "retry", "leave", "returned", "panicked"}]
          /\ result' \in [Calls -> Results]
          /\ sent' \in [Calls -> 0..MaxChans] /\ await' \in [Calls -> 0..MaxChans]
          /\ lock' \in Calls \cup {NoCall} /\ cancelled' \subseteq Calls
      BY <1>4 DEF WaitReady, Lock, Check, Select, GiveUp, Resend, Cancel, Results
    <2> QED BY <1>2, <1>3, <2>1 DEF PublisherInv, TypeOK, PubTypeOK
  <1>6. LockInv'
    BY <1>4
       DEF PublisherInv, LockInv, WaitReady, Lock, Check, Select, GiveUp, Resend, Cancel
  <1>7. PassedCheck'
    <2>1. p \in Calls /\ pc[p] = "check" /\ isReady => notify # 0 /\ CheckedChannel
      BY ReadyIsChecked DEF PublisherInv, ClientInv, ReadyIsInitialised
    <2> QED BY <1>2, <1>4, <2>1
            DEF PublisherInv, PassedCheck, WaitReady, Lock, Check, Select, GiveUp, Resend,
                Cancel
  <1>8. \A c \in Chans : Owns(c) => Owns(c)' /\ lock' = lock
    BY <1>4
       DEF PublisherInv, LockInv, Owns, WaitReady, Lock, Check, Select, GiveUp, Resend, Cancel
  <1>9. Unused' /\ OneInFlight' /\ InFlightIsHolders'
    BY <1>1, <1>2, <1>8, PipelineStands
  <1>10. ConfirmsMatch'
    BY <1>3, <1>4
       DEF PublisherInv, ConfirmsMatch, PublishedIsStored, WaitReady, Lock, Check, Select,
           GiveUp, Resend, Cancel
  <1>11. PanicNeedsTwoFaults'
    BY <1>2, <1>4
       DEF PublisherInv, PanicNeedsTwoFaults, Panic, WaitReady, Lock, Check, Select, GiveUp,
           Resend, Cancel
  <1> QED BY <1>2, <1>5, <1>6, <1>7, <1>9, <1>10, <1>11 DEF PublisherInv

\* Publish calls ensureConnected, which may start the manager.
LEMMA PublishInv ==
    ASSUME PublisherInv, NEW p \in Calls, Publish(p)
    PROVE  PublisherInv'
  <1> USE PublisherAssumption DEF Goto
  <1>1. /\ pc[p] = "start" /\ pc' = [pc EXCEPT ![p] = "waitReady"]
        /\ UNCHANGED <<ch, notify, closer, liveCh, faults, result, lock, cancelled, sent, await,
                       strays, brokerVars>>
        /\ mgr' = "listen" <=> mgr = "listen"
    BY DEF Publish, StartManager, closeVars, liveVars
  <1>2. [ClientNext]_clientVars
    BY DEF Publish, EnsureConnected, ClientNext, clientVars, mgrVars
  <1>3. ClientInv'
    BY <1>2, ClientInvNext DEF PublisherInv
  <1>4. TypeOK'
    BY <1>1, <1>3 DEF PublisherInv, TypeOK, PubTypeOK, ClientInv, brokerVars
  <1>5. LockInv' /\ ConfirmsMatch' /\ PanicNeedsTwoFaults'
    BY <1>1
       DEF PublisherInv, TypeOK, PubTypeOK, LockInv, ConfirmsMatch, PublishedIsStored,
           PanicNeedsTwoFaults, Panic, brokerVars
  <1>6. PassedCheck'
    BY <1>1, <1>2, CheckedNext DEF PublisherInv, TypeOK, PubTypeOK, PassedCheck
  <1>7. \A c \in Chans : Outstanding(c)' = Outstanding(c) /\ Owns(c)' = Owns(c)
    BY <1>1 DEF PublisherInv, TypeOK, PubTypeOK, LockInv, Owns, Outstanding, brokerVars
  <1>8. liveCh \subseteq Chans
    BY DEF PublisherInv, TypeOK, ClientTypeOK
  <1>9. Unused' /\ OneInFlight' /\ InFlightIsHolders'
    BY <1>1, <1>7, <1>8
       DEF PublisherInv, Unused, OneInFlight, InFlightIsHolders, brokerVars
  <1> QED BY <1>3, <1>4, <1>5, <1>6, <1>9 DEF PublisherInv

\* A call that publishes finds nothing in flight on the channel.
LEMMA SendInv ==
    ASSUME PublisherInv, NEW p \in Calls, Send(p)
    PROVE  PublisherInv'
  <1> USE PublisherAssumption DEF Goto
  <1>1. /\ UNCHANGED <<clientVars, result, cancelled, await, strays, invalid, acks, confirms,
                       stored>>
        /\ pc[p] = "publish"
    BY DEF Send
  <1>2. /\ UNCHANGED <<mgr, isReady, ready, done, ch, notify, liveCh, closer, faults>>
        /\ ClientTypeOK' /\ ClientInv'
        /\ CheckedChannel' = CheckedChannel
    BY <1>1, ClientStands
  <1>3. /\ PubTypeOK /\ LockInv /\ lock = p /\ notify # 0 /\ CheckedChannel
        /\ liveCh \subseteq Chans /\ ch \in 0..MaxChans /\ faults \in Nat
        /\ mgr # "listen" => ch <= notify
    BY <1>1
       DEF PublisherInv, TypeOK, LockInv, PassedCheck, ClientInv, ClientTypeOK, Bookkeeping
  <1>4. ConfirmsMatch'
    BY <1>1 DEF PublisherInv, ConfirmsMatch, PublishedIsStored
  <1>5. CASE ch \in liveCh
    <2>1. /\ wire' = [wire EXCEPT ![ch] = Append(@, p)]
          /\ sent' = [sent EXCEPT ![p] = ch]
          /\ pc' = [pc EXCEPT ![p] = "select"]
          /\ lock' = lock
      BY <1>3, <1>5 DEF Send, Chans
    <2>2. ch \in Chans /\ wire[ch] \in Seq(Calls)
      BY <1>3, <1>5 DEF PubTypeOK
    <2>3. /\ Append(wire[ch], p) \in Seq(Calls)
          /\ Len(Append(wire[ch], p)) = Len(wire[ch]) + 1
          /\ wire[ch] = <<>> => Head(Append(wire[ch], p)) = p
      BY <2>2, Appended
    <2>4. TypeOK'
      BY <1>1, <1>2, <1>3, <2>1, <2>2, <2>3 DEF TypeOK, PubTypeOK
    <2>5. LockInv' /\ PassedCheck' /\ PanicNeedsTwoFaults'
      BY <1>1, <1>2, <1>3, <2>1
         DEF PublisherInv, PubTypeOK, LockInv, PassedCheck, PanicNeedsTwoFaults, Panic
    <2>6. \A c \in Chans \ {ch} : Outstanding(c)' = Outstanding(c)
      BY <1>1, <1>3, <2>1, <2>2 DEF Outstanding, PubTypeOK
    <2>7. Unused'
      <3>1. notify \in Nat /\ (ch <= notify \/ mgr = "listen")
        BY <1>3, ClientAssumption DEF PublisherInv, ClientInv, ClientTypeOK
      <3> QED BY <1>2, <2>2, <2>6, <3>1 DEF PublisherInv, Unused, Chans
    <2>8. strays = {} =>
            \A c \in Chans : /\ ~Owns(c)
                             /\ confirms[c] = <<>>
                             /\ c \in liveCh => Outstanding(c) = 0
      <3>1. \A c \in Chans : ~Owns(c)
        BY <1>1, <1>3 DEF Owns
      <3>2. \A c \in Chans : Outstanding(c) \in Nat
        BY <1>3, EmptyLen DEF PubTypeOK, Outstanding
      <3> QED BY <3>1, <3>2 DEF PublisherInv, InFlightIsHolders
    <2>9. strays = {} =>
            \A c \in liveCh : /\ Outstanding(c)' = 1
                              /\ Owns(c)'
                              /\ Head(wire'[c]) = p /\ acks'[c] = <<>>
      <3> SUFFICES ASSUME strays = {}, NEW c \in liveCh
                   PROVE  /\ Outstanding(c)' = 1
                          /\ Owns(c)'
                          /\ Head(wire'[c]) = p /\ acks'[c] = <<>>
        OBVIOUS
      <3>1. c = ch
        BY DEF PublisherInv, ClientInv, NoOrphan
      <3>2. c \in Chans /\ Outstanding(c) = 0
        BY <1>3, <2>8
      <3>3. wire[c] = <<>> /\ acks[c] = <<>> /\ confirms[c] = <<>>
        BY <1>3, <3>2, OutstandingParts
      <3>4. wire'[c] = Append(<<>>, p) /\ acks'[c] = <<>> /\ confirms'[c] = <<>>
        BY <1>1, <1>3, <2>1, <2>2, <3>1, <3>3 DEF PubTypeOK
      <3>5. Outstanding(c)' = 1 /\ Head(wire'[c]) = p
        BY <3>4 DEF Outstanding
      <3>6. Owns(c)'
        BY <1>3, <2>1, <2>2, <3>1 DEF Owns, PubTypeOK
      <3> QED BY <3>4, <3>5, <3>6
    <2>10. OneInFlight'
      BY <1>1, <1>2, <2>9 DEF OneInFlight
    <2>11. InFlightIsHolders'
      <3> SUFFICES ASSUME strays' = {} PROVE InFlightIsHolders'
        BY DEF InFlightIsHolders
      <3>1. strays = {} /\ lock' = p /\ liveCh' = liveCh /\ confirms' = confirms
        BY <1>1, <1>2, <1>3, <2>1
      <3> QED BY <2>8, <2>9, <3>1 DEF InFlightIsHolders
    <2> QED BY <1>2, <1>4, <2>4, <2>5, <2>7, <2>10, <2>11 DEF PublisherInv
  <1>6. CASE ch \notin liveCh
    <2>1. /\ UNCHANGED <<wire, sent>>
          /\ \/ pc' = [pc EXCEPT ![p] = "retry"] /\ lock' = NoCall
             \/ pc' = [pc EXCEPT ![p] = "panicked"] /\ lock' = lock /\ ch = 0
      BY <1>6 DEF Send
    <2>2. TypeOK'
      BY <1>1, <1>2, <1>3, <2>1 DEF TypeOK, PubTypeOK
    <2>3. LockInv' /\ PassedCheck'
      BY <1>1, <1>2, <1>3, <2>1 DEF PublisherInv, PubTypeOK, LockInv, PassedCheck
    <2>4. PanicNeedsTwoFaults'
      BY <1>2, <1>3, <2>1
         DEF PublisherInv, PubTypeOK, PanicNeedsTwoFaults, Panic, CheckedChannel
    <2>5. \A c \in Chans : ~Owns(c)
      BY <1>1, <1>3 DEF Owns
    <2>6. Unused' /\ OneInFlight' /\ InFlightIsHolders'
      BY <1>1, <1>2, <2>1, <2>5, PipelineStands DEF brokerVars
    <2> QED BY <1>2, <1>4, <2>2, <2>3, <2>4, <2>6 DEF PublisherInv
  <1> QED BY <1>5, <1>6

\* A call that gives up its confirmation becomes a stray one.
LEMMA AbandonInv ==
    ASSUME PublisherInv, NEW p \in Calls, Abandon(p)
    PROVE  PublisherInv'
  <1> USE PublisherAssumption DEF Goto, LeaveWait
  <1>1. /\ UNCHANGED <<clientVars, result, cancelled, brokerVars>>
        /\ pc[p] = "await" /\ strays' # {}
        /\ strays' = strays \cup {p} /\ pc' = [pc EXCEPT ![p] = "leave"]
        /\ lock' = NoCall
        /\ sent' = [sent EXCEPT ![p] = 0] /\ await' = [await EXCEPT ![p] = 0]
    BY DEF Abandon
  <1>2. /\ UNCHANGED <<mgr, isReady, ready, done, ch, notify, liveCh, closer, faults>>
        /\ ClientTypeOK' /\ ClientInv'
        /\ CheckedChannel' = CheckedChannel
    BY <1>1, ClientStands
  <1>3. TypeOK'
    BY <1>1, <1>2, ClientAssumption DEF PublisherInv, TypeOK, PubTypeOK, brokerVars
  <1>4. LockInv' /\ PassedCheck' /\ PanicNeedsTwoFaults'
    BY <1>1, <1>2
       DEF PublisherInv, TypeOK, PubTypeOK, LockInv, PassedCheck, PanicNeedsTwoFaults, Panic
  <1>5. Unused'
    BY <1>1, <1>2 DEF PublisherInv, Unused, Outstanding, brokerVars
  <1>6. OneInFlight' /\ InFlightIsHolders' /\ ConfirmsMatch'
    BY <1>1 DEF OneInFlight, InFlightIsHolders, ConfirmsMatch
  <1> QED BY <1>2, <1>3, <1>4, <1>5, <1>6 DEF PublisherInv

\* While no call has strayed, a confirmation that was read is the answer to the
\* call that receives it, and the channel a call finds closed is the only one
\* with anything of its own: either way nothing is left in flight.
LEMMA ConfirmedInv ==
    ASSUME PublisherInv, NEW p \in Calls, Confirmed(p)
    PROVE  PublisherInv'
  <1> USE PublisherAssumption DEF Goto, LeaveWait, Receive, Return, Nacked, IsAck
  <1>1. /\ UNCHANGED <<clientVars, cancelled, invalid, wire, acks, stored>>
        /\ pc[p] = "await" /\ lock' = NoCall
        /\ sent' = [sent EXCEPT ![p] = 0] /\ await' = [await EXCEPT ![p] = 0]
    BY DEF Confirmed
  <1>2. /\ UNCHANGED <<mgr, isReady, ready, done, ch, notify, liveCh, closer, faults>>
        /\ ClientTypeOK' /\ ClientInv'
        /\ CheckedChannel' = CheckedChannel
    BY <1>1, ClientStands
  <1>3. PubTypeOK /\ lock = p /\ liveCh \subseteq Chans
    BY <1>1 DEF PublisherInv, LockInv, TypeOK, ClientTypeOK
  <1>0. PICK c \in Chans : c = await[p]
    <2>1. await[p] # 0 /\ await[p] \in 0..MaxChans
      BY <1>1 DEF PublisherInv, PassedCheck, TypeOK, PubTypeOK
    <2> QED BY <2>1, ClientAssumption DEF Chans
  <1>4. \A x \in Chans : Owns(x) => x = sent[p]
    BY <1>3 DEF Owns
  <1>5. CASE confirms[c] # <<>>
    <2>1. /\ confirms' = [confirms EXCEPT ![c] = Tail(@)] /\ strays' = strays
          /\ IF Head(confirms[c]).ack
             THEN /\ pc' = [pc EXCEPT ![p] = "returned"]
                  /\ result' = [result EXCEPT ![p] = "nil"]
             ELSE pc' = [pc EXCEPT ![p] = "retry"] /\ result' = result
      BY <1>0, <1>5 DEF Confirmed
    <2>2. /\ Tail(confirms[c]) \in Seq(Confirmation)
          /\ Len(confirms[c]) \in Nat \ {0} /\ Len(Tail(confirms[c])) = Len(confirms[c]) - 1
      BY <1>3, <1>5, HeadTail DEF PubTypeOK
    <2>3. TypeOK'
      <3>1. confirms' \in [Chans -> Seq(Confirmation)]
        BY <1>3, <2>1, <2>2 DEF PubTypeOK
      <3>2. pc' \in [Calls -> {"start", "waitReady", "lock", "check", "publish", "select",
                               "await", "retry", "leave", "returned", "panicked"}]
        BY <1>3, <2>1 DEF PubTypeOK
      <3>3. result' \in [Calls -> Results]
        BY <1>3, <2>1 DEF PubTypeOK, Results
      <3>4. sent' \in [Calls -> 0..MaxChans] /\ await' \in [Calls -> 0..MaxChans]
        BY <1>1, <1>3, ClientAssumption DEF PubTypeOK
      <3> QED BY <1>1, <1>2, <1>3, <2>1, <3>1, <3>2, <3>3, <3>4 DEF TypeOK, PubTypeOK
    <2>4. LockInv' /\ PassedCheck' /\ PanicNeedsTwoFaults'
      BY <1>1, <1>2, <1>3, <2>1
         DEF PublisherInv, PubTypeOK, LockInv, PassedCheck, PanicNeedsTwoFaults, Panic
    <2>5. strays = {} => /\ \A x \in Chans : confirms[x] # <<>> => x = c
                         /\ Len(confirms[c]) = 1
                         /\ Head(confirms[c]).ack => p \in stored
                         /\ \A x \in liveCh : Outstanding(x) > 0 => x = c
      BY <1>3, <1>4, <1>5 DEF PublisherInv, InFlightIsHolders
    <2>6. ConfirmsMatch'
      BY <1>1, <1>3, <2>1, <2>5 DEF PublisherInv, PubTypeOK, ConfirmsMatch, PublishedIsStored
    <2>7. /\ \A x \in Chans \ {c} : Outstanding(x)' = Outstanding(x) /\ confirms'[x] = confirms[x]
          /\ confirms'[c] = Tail(confirms[c])
      BY <1>1, <1>3, <2>1 DEF Outstanding, PubTypeOK
    <2>8. Unused'
      <3>1. Outstanding(c) # 0
        BY <1>3, <1>5, OutstandingParts
      <3> QED BY <1>2, <2>7, <3>1 DEF PublisherInv, Unused
    <2>9. strays = {} => confirms'[c] = <<>>
      <3>1. strays = {} => Len(Tail(confirms[c])) = 0
        BY <2>2, <2>5
      <3>2. Len(Tail(confirms[c])) = 0 <=> Tail(confirms[c]) = <<>>
        BY <2>2, EmptyLen
      <3> QED BY <2>7, <3>1, <3>2
    <2>10. strays = {} /\ c \in liveCh => Outstanding(c)' = 0
      <3> SUFFICES ASSUME strays = {}, c \in liveCh PROVE Outstanding(c)' = 0
        OBVIOUS
      <3>1. Outstanding(c) <= 1
        BY DEF PublisherInv, OneInFlight
      <3>2. wire[c] = <<>> /\ acks[c] = <<>>
        BY <1>3, <1>5, <3>1, OutstandingParts
      <3> QED BY <1>1, <2>9, <3>2 DEF Outstanding
    <2>11. strays = {} => \A x \in liveCh : Outstanding(x)' = 0
      <3>1. \A x \in Chans : Outstanding(x) \in Nat
        BY <1>3, OutstandingParts
      <3> QED BY <1>3, <2>5, <2>7, <2>10, <3>1
    <2>12. OneInFlight'
      BY <1>2, <2>1, <2>11 DEF OneInFlight
    <2>13. InFlightIsHolders'
      <3>1. strays = {} => \A x \in Chans : confirms'[x] = <<>>
        BY <2>5, <2>7, <2>9
      <3>2. strays = {} => \A x \in liveCh : wire'[x] = <<>> /\ acks'[x] = <<>>
        BY <1>3, <2>3, <2>11, OutstandingParts DEF TypeOK, PubTypeOK, Outstanding
      <3> QED BY <1>2, <2>1, <2>11, <3>1, <3>2 DEF InFlightIsHolders
    <2> QED BY <1>2, <2>3, <2>4, <2>6, <2>8, <2>12, <2>13 DEF PublisherInv
  <1>6. CASE confirms[c] = <<>> /\ c \notin liveCh
    <2>1. /\ confirms' = confirms
          /\ strays' = IF sent[p] # c THEN strays \cup {p} ELSE strays
          /\ pc' = [pc EXCEPT ![p] = "retry"] /\ result' = result
      BY <1>0, <1>6 DEF Confirmed, ZeroConfirm
    <2>2. TypeOK'
      BY <1>1, <1>2, <1>3, <2>1, ClientAssumption DEF TypeOK, PubTypeOK
    <2>3. LockInv' /\ PassedCheck' /\ PanicNeedsTwoFaults'
      BY <1>1, <1>2, <1>3, <2>1
         DEF PublisherInv, PubTypeOK, LockInv, PassedCheck, PanicNeedsTwoFaults, Panic
    <2>4. \A x \in Chans : Outstanding(x)' = Outstanding(x)
      BY <1>1, <2>1 DEF Outstanding
    <2>5. Unused' /\ ConfirmsMatch' /\ OneInFlight'
      BY <1>1, <1>2, <1>3, <2>1, <2>4
         DEF PublisherInv, Unused, ConfirmsMatch, PublishedIsStored, OneInFlight
    <2>6. strays' = {} => strays = {} /\ sent[p] = c
      BY <2>1
    <2>7. InFlightIsHolders'
      <3> SUFFICES ASSUME strays = {}, sent[p] = c
                   PROVE  /\ \A x \in Chans : confirms[x] = <<>>
                          /\ \A x \in liveCh : /\ ~(Outstanding(x) > 0)
                                               /\ wire[x] = <<>> /\ acks[x] = <<>>
        BY <1>1, <1>2, <1>3, <2>1, <2>4, <2>6 DEF InFlightIsHolders
      <3>1. \A x \in Chans : confirms[x] = <<>>
        BY <1>4, <1>6 DEF PublisherInv, InFlightIsHolders
      <3>2. \A x \in liveCh : ~(Outstanding(x) > 0)
        BY <1>3, <1>4, <1>6 DEF PublisherInv, InFlightIsHolders
      <3>3. \A x \in liveCh : wire[x] = <<>> /\ acks[x] = <<>>
        <4>1. \A x \in liveCh : Outstanding(x) \in Nat
          BY <1>3, OutstandingParts
        <4> QED BY <1>3, <3>2, <4>1, OutstandingParts
      <3> QED BY <3>1, <3>2, <3>3
    <2> QED BY <1>2, <2>2, <2>3, <2>5, <2>7 DEF PublisherInv
  <1> QED BY <1>0, <1>5, <1>6 DEF Confirmed

\* One more fault, with nothing of the client lost.
LEMMA NackStands ==
    ASSUME PublisherInv, UNCHANGED <<mgrVars, closeVars, liveVars>>,
           UNCHANGED faults \/ Fault("nack")
    PROVE  /\ UNCHANGED <<mgr, isReady, ready, done, ch, notify, liveCh, closer>>
           /\ ClientTypeOK' /\ ClientInv'
           /\ CheckedChannel => CheckedChannel'
           /\ faults \in Nat /\ faults' \in Nat /\ faults' >= faults
  BY DEF PublisherInv, mgrVars, closeVars, liveVars, Fault, ClientInv, ClientTypeOK,
         NoOrphan, ReadyIsInitialised, Bookkeeping, LossNeedsFault, CheckedChannel

\* The broker answers the oldest message of a channel, and its answer is the
\* only thing left in flight there if the message was.
LEMMA AnswerInv ==
    ASSUME PublisherInv, NEW c \in Chans, BrokerAck(c) \/ BrokerNack(c)
    PROVE  PublisherInv'
  <1> USE PublisherAssumption
  <1>1. PICK ack \in BOOLEAN : Answer(c, ack) /\ (UNCHANGED faults \/ Fault("nack"))
    BY DEF BrokerAck, BrokerNack
  <1>2. /\ wire[c] # <<>> /\ wire' = [wire EXCEPT ![c] = Tail(@)]
        /\ acks' = IF c \in liveCh
                   THEN [acks EXCEPT ![c] = Append(@, [call |-> Head(wire[c]), ack |-> ack])]
                   ELSE acks
        /\ stored' = IF ack THEN stored \cup {Head(wire[c])} ELSE stored
        /\ UNCHANGED <<mgrVars, closeVars, liveVars, invalid, confirms>>
        /\ UNCHANGED <<pc, result, lock, cancelled, sent, await, strays>>
    BY <1>1 DEF Answer, callVars
  <1>3. /\ UNCHANGED <<mgr, isReady, ready, done, ch, notify, liveCh, closer>>
        /\ ClientTypeOK' /\ ClientInv'
        /\ CheckedChannel => CheckedChannel'
        /\ faults \in Nat /\ faults' \in Nat /\ faults' >= faults
    BY <1>1, <1>2, NackStands
  <1>4. PubTypeOK /\ liveCh \subseteq Chans
    BY DEF PublisherInv, TypeOK, ClientTypeOK
  <1>5. /\ wire[c] \in Seq(Calls) /\ Head(wire[c]) \in Calls /\ Tail(wire[c]) \in Seq(Calls)
        /\ Len(wire[c]) \in Nat \ {0} /\ Len(Tail(wire[c])) = Len(wire[c]) - 1
    BY <1>2, <1>4, HeadTail DEF PubTypeOK
  <1>6. PICK r \in Confirmation : r = [call |-> Head(wire[c]), ack |-> ack]
    BY <1>5 DEF Confirmation
  <1>7. /\ acks[c] \in Seq(Confirmation) /\ Append(acks[c], r) \in Seq(Confirmation)
        /\ Len(Append(acks[c], r)) = Len(acks[c]) + 1
        /\ acks[c] = <<>> => Head(Append(acks[c], r)) = r
    BY <1>4, <1>6, Appended DEF PubTypeOK
  <1>8. acks' = IF c \in liveCh THEN [acks EXCEPT ![c] = Append(@, r)] ELSE acks
    BY <1>2, <1>6
  <1>9. TypeOK'
    <2>1. wire' \in [Chans -> Seq(Calls)]
      BY <1>2, <1>4, <1>5 DEF PubTypeOK
    <2>2. acks' \in [Chans -> Seq(Confirmation)]
      BY <1>4, <1>7, <1>8 DEF PubTypeOK
    <2>3. stored' \subseteq Calls
      BY <1>2, <1>4, <1>5 DEF PubTypeOK
    <2> QED BY <1>2, <1>3, <1>4, <2>1, <2>2, <2>3 DEF TypeOK, PubTypeOK
  <1>10. LockInv' /\ PassedCheck' /\ PanicNeedsTwoFaults' /\ ConfirmsMatch'
    BY <1>2, <1>3
       DEF PublisherInv, LockInv, PassedCheck, PanicNeedsTwoFaults, Panic, ConfirmsMatch,
           PublishedIsStored
  <1>11. \A x \in Chans \ {c} : /\ Outstanding(x)' = Outstanding(x)
                                /\ wire'[x] = wire[x] /\ acks'[x] = acks[x]
    <2>1. \A x \in Chans \ {c} : wire'[x] = wire[x] /\ acks'[x] = acks[x]
      BY <1>2, <1>4, <1>8 DEF PubTypeOK
    <2> QED BY <1>2, <2>1 DEF Outstanding
  <1>12. Outstanding(c) # 0
    BY <1>2, <1>4, OutstandingParts
  <1>13. Unused'
    BY <1>3, <1>11, <1>12 DEF PublisherInv, Unused
  <1>14. \A x \in Chans : Owns(x)' = Owns(x)
    BY <1>2 DEF Owns
  <1>15. strays = {} /\ c \in liveCh =>
           /\ Outstanding(c) = 1 /\ Owns(c) /\ Head(wire[c]) = lock
           /\ wire'[c] = <<>> /\ acks'[c] = Append(acks[c], r) /\ acks[c] = <<>>
           /\ confirms[c] = <<>>
    <2> SUFFICES ASSUME strays = {}, c \in liveCh
                 PROVE  /\ Outstanding(c) = 1 /\ Owns(c) /\ Head(wire[c]) = lock
                        /\ wire'[c] = <<>> /\ acks'[c] = Append(acks[c], r) /\ acks[c] = <<>>
                        /\ confirms[c] = <<>>
      OBVIOUS
    <2>1. Outstanding(c) \in Nat /\ Outstanding(c) <= 1
      BY <1>4, OutstandingParts DEF PublisherInv, OneInFlight
    <2>2. Owns(c) /\ Head(wire[c]) = lock
      BY <1>2, <1>12, <2>1 DEF PublisherInv, InFlightIsHolders
    <2>3. Len(wire[c]) = 1 /\ acks[c] = <<>> /\ confirms[c] = <<>>
      BY <1>2, <1>4, <2>1, OutstandingParts
    <2>4. Tail(wire[c]) = <<>>
      <3>1. Len(Tail(wire[c])) = 0
        BY <1>5, <2>3
      <3> QED BY <1>5, <3>1, EmptyLen
    <2>5. wire'[c] = Tail(wire[c]) /\ acks'[c] = Append(acks[c], r)
      BY <1>2, <1>4, <1>8 DEF PubTypeOK
    <2> QED BY <1>12, <2>1, <2>2, <2>3, <2>4, <2>5
  <1>16. strays = {} /\ c \in liveCh => Outstanding(c)' = 1
    <2> SUFFICES ASSUME strays = {}, c \in liveCh PROVE Outstanding(c)' = 1
      OBVIOUS
    <2>1. Len(acks'[c]) = 1 /\ wire'[c] = <<>> /\ confirms'[c] = <<>>
      <3>1. Len(acks[c]) = 0
        BY <1>7, <1>15, EmptyLen
      <3> QED BY <1>2, <1>7, <1>15, <3>1
    <2> QED BY <2>1 DEF Outstanding
  <1>17. OneInFlight'
    BY <1>2, <1>3, <1>4, <1>11, <1>16 DEF PublisherInv, OneInFlight
  <1>18. InFlightIsHolders'
    <2> SUFFICES ASSUME strays = {}
                 PROVE  /\ \A x \in liveCh :
                              /\ Outstanding(x)' > 0 => Owns(x)
                              /\ wire'[x] # <<>> => Head(wire'[x]) = lock
                              /\ acks'[x] # <<>> => (Head(acks'[x]).ack => lock \in stored')
                        /\ \A x \in Chans : confirms[x] # <<>> =>
                              /\ Len(confirms[x]) = 1
                              /\ Owns(x)
                              /\ Head(confirms[x]).ack => lock \in stored'
      BY <1>2, <1>3, <1>4, <1>14 DEF InFlightIsHolders
    <2>1. stored \subseteq stored'
      BY <1>2
    <2>2. ASSUME NEW x \in liveCh
          PROVE  /\ Outstanding(x)' > 0 => Owns(x)
                 /\ wire'[x] # <<>> => Head(wire'[x]) = lock
                 /\ acks'[x] # <<>> => (Head(acks'[x]).ack => lock \in stored')
      <3>1. CASE x # c
        BY <1>4, <1>11, <2>1, <3>1 DEF PublisherInv, InFlightIsHolders
      <3>2. CASE x = c
        <4>1. Head(acks'[c]) = r /\ (r.ack => lock \in stored')
          BY <1>2, <1>6, <1>7, <1>15, <3>2
        <4> QED BY <1>15, <3>2, <4>1
      <3> QED BY <3>1, <3>2
    <2> QED BY <2>1, <2>2 DEF PublisherInv, InFlightIsHolders
  <1> QED BY <1>3, <1>9, <1>10, <1>13, <1>17, <1>18 DEF PublisherInv

\* The reader passes an answer on to the call that waits for it, or drops it
\* where nobody listens.
LEMMA ReadConfirmInv ==
    ASSUME PublisherInv, NEW c \in Chans, ReadConfirm(c)
    PROVE  PublisherInv'
  <1> USE PublisherAssumption
  <1>1. /\ c \in liveCh /\ acks[c] # <<>> /\ acks' = [acks EXCEPT ![c] = Tail(@)]
        /\ \/ confirms' = [confirms EXCEPT ![c] = Append(@, Head(acks[c]))]
           \/ confirms' = confirms
        /\ UNCHANGED <<clientVars, invalid, wire, stored>>
        /\ UNCHANGED <<pc, result, lock, cancelled, sent, await, strays>>
    BY DEF ReadConfirm, callVars
  <1>2. /\ UNCHANGED <<mgr, isReady, ready, done, ch, notify, liveCh, closer, faults>>
        /\ ClientTypeOK' /\ ClientInv'
        /\ CheckedChannel' = CheckedChannel
    BY <1>1, ClientStands
  <1>3. PubTypeOK /\ liveCh \subseteq Chans
    BY DEF PublisherInv, TypeOK, ClientTypeOK
  <1>4. /\ acks[c] \in Seq(Confirmation)
        /\ Head(acks[c]) \in Confirmation /\ Tail(acks[c]) \in Seq(Confirmation)
        /\ Len(acks[c]) \in Nat \ {0} /\ Len(Tail(acks[c])) = Len(acks[c]) - 1
    BY <1>1, <1>3, HeadTail DEF PubTypeOK
  <1>5. PICK r \in Confirmation : r = Head(acks[c])
    BY <1>4
  <1>6. /\ confirms[c] \in Seq(Confirmation) /\ Append(confirms[c], r) \in Seq(Confirmation)
        /\ Len(Append(confirms[c], r)) = Len(confirms[c]) + 1
        /\ confirms[c] = <<>> => Head(Append(confirms[c], r)) = r
    BY <1>3, Appended DEF PubTypeOK
  <1>7. confirms' = [confirms EXCEPT ![c] = Append(@, r)] \/ confirms' = confirms
    BY <1>1, <1>5
  <1>8. TypeOK'
    <2>1. acks' \in [Chans -> Seq(Confirmation)]
      BY <1>1, <1>3, <1>4 DEF PubTypeOK
    <2>2. confirms' \in [Chans -> Seq(Confirmation)]
      BY <1>3, <1>6, <1>7 DEF PubTypeOK
    <2> QED BY <1>1, <1>2, <1>3, <2>1, <2>2 DEF TypeOK, PubTypeOK
  <1>9. LockInv' /\ PassedCheck' /\ PanicNeedsTwoFaults' /\ ConfirmsMatch'
    BY <1>1, <1>2
       DEF PublisherInv, LockInv, PassedCheck, PanicNeedsTwoFaults, Panic, ConfirmsMatch,
           PublishedIsStored
  <1>10. \A x \in Chans \ {c} : /\ Outstanding(x)' = Outstanding(x)
                                /\ acks'[x] = acks[x] /\ confirms'[x] = confirms[x]
    <2>1. \A x \in Chans \ {c} : acks'[x] = acks[x] /\ confirms'[x] = confirms[x]
      BY <1>1, <1>3, <1>7 DEF PubTypeOK
    <2> QED BY <1>1, <2>1 DEF Outstanding
  <1>11. Outstanding(c) # 0
    BY <1>1, <1>3, OutstandingParts
  <1>12. Unused'
    BY <1>2, <1>10, <1>11 DEF PublisherInv, Unused
  <1>13. \A x \in Chans : Owns(x)' = Owns(x)
    BY <1>1 DEF Owns
  <1>14. strays = {} =>
           /\ Owns(c) /\ (r.ack => lock \in stored)
           /\ wire'[c] = <<>> /\ acks'[c] = <<>> /\ confirms[c] = <<>>
           /\ confirms'[c] = <<>> \/ confirms'[c] = Append(confirms[c], r)
    <2> SUFFICES ASSUME strays = {}
                 PROVE  /\ Owns(c) /\ (r.ack => lock \in stored)
                        /\ wire'[c] = <<>> /\ acks'[c] = <<>> /\ confirms[c] = <<>>
                        /\ confirms'[c] = <<>> \/ confirms'[c] = Append(confirms[c], r)
      OBVIOUS
    <2>1. Outstanding(c) \in Nat /\ Outstanding(c) <= 1
      BY <1>1, <1>3, OutstandingParts DEF PublisherInv, OneInFlight
    <2>2. Owns(c) /\ (r.ack => lock \in stored)
      BY <1>1, <1>5, <1>11, <2>1 DEF PublisherInv, InFlightIsHolders
    <2>3. wire[c] = <<>> /\ Len(acks[c]) = 1 /\ confirms[c] = <<>>
      BY <1>1, <1>3, <2>1, OutstandingParts
    <2>4. Tail(acks[c]) = <<>>
      <3>1. Len(Tail(acks[c])) = 0
        BY <1>4, <2>3
      <3> QED BY <1>4, <3>1, EmptyLen
    <2>5. /\ acks'[c] = Tail(acks[c])
          /\ confirms'[c] = confirms[c] \/ confirms'[c] = Append(confirms[c], r)
      BY <1>1, <1>3, <1>7 DEF PubTypeOK
    <2> QED BY <1>1, <2>2, <2>3, <2>4, <2>5
  <1>15. strays = {} => /\ Outstanding(c)' \in {0, 1}
                        /\ confirms'[c] # <<>> => Len(confirms'[c]) = 1 /\ Head(confirms'[c]) = r
    <2> SUFFICES ASSUME strays = {}
                 PROVE  /\ Outstanding(c)' \in {0, 1}
                        /\ confirms'[c] # <<>> => Len(confirms'[c]) = 1 /\ Head(confirms'[c]) = r
      OBVIOUS
    <2>1. wire'[c] = <<>> /\ acks'[c] = <<>>
      BY <1>14
    <2>2. Len(confirms[c]) = 0
      BY <1>6, <1>14, EmptyLen
    <2>3. CASE confirms'[c] = <<>>
      BY <2>1, <2>3 DEF Outstanding
    <2>4. CASE confirms'[c] = Append(confirms[c], r)
      <3>1. Len(confirms'[c]) = 1 /\ Head(confirms'[c]) = r
        BY <1>6, <1>14, <2>2, <2>4
      <3> QED BY <2>1, <3>1 DEF Outstanding
    <2> QED BY <1>14, <2>3, <2>4
  <1>16. OneInFlight'
    BY <1>1, <1>2, <1>3, <1>10, <1>15 DEF PublisherInv, OneInFlight
  <1>17. InFlightIsHolders'
    <2> SUFFICES ASSUME strays = {}
                 PROVE  /\ \A x \in liveCh :
                              /\ Outstanding(x)' > 0 => Owns(x)
                              /\ wire[x] # <<>> => Head(wire[x]) = lock
                              /\ acks'[x] # <<>> => (Head(acks'[x]).ack => lock \in stored)
                        /\ \A x \in Chans : confirms'[x] # <<>> =>
                              /\ Len(confirms'[x]) = 1
                              /\ Owns(x)
                              /\ Head(confirms'[x]).ack => lock \in stored
      BY <1>1, <1>2, <1>3, <1>13 DEF InFlightIsHolders
    <2>1. \A x \in liveCh :
             /\ Outstanding(x)' > 0 => Owns(x)
             /\ wire[x] # <<>> => Head(wire[x]) = lock
             /\ acks'[x] # <<>> => (Head(acks'[x]).ack => lock \in stored)
      BY <1>3, <1>10, <1>14 DEF PublisherInv, InFlightIsHolders
    <2>2. \A x \in Chans : confirms'[x] # <<>> =>
             /\ Len(confirms'[x]) = 1
             /\ Owns(x)
             /\ Head(confirms'[x]).ack => lock \in stored
      BY <1>10, <1>14, <1>15 DEF PublisherInv, InFlightIsHolders
    <2> QED BY <2>1, <2>2
  <1> QED BY <1>2, <1>8, <1>9, <1>12, <1>16, <1>17 DEF PublisherInv

\* Every step of the publisher preserves the inductive invariant.
LEMMA PublisherInvNext == PublisherInv /\ [Next]_vars => PublisherInv'
  <1> SUFFICES ASSUME PublisherInv, [Next]_vars PROVE PublisherInv'
    OBVIOUS
  <1>1. CASE \E p \in Calls : CallStep(p) \/ Cancel(p)
    <2>1. PICK p \in Calls : CallStep(p) \/ Cancel(p)
      BY <1>1
    <2> QED BY <2>1, QuietCallInv, PublishInv, SendInv, ConfirmedInv, AbandonInv DEF CallStep
  <1>2. CASE PubManagerStep \/ PubCloseStep \/ PubEnvStep
    <2>1. ClientNext /\ UNCHANGED pubVars
      BY <1>2 DEF PubManagerStep, PubCloseStep, PubEnvStep, ClientNext
    <2> QED BY <2>1, UnderCallsInv
  <1>3. CASE \E c \in Chans : BrokerStep(c) \/ BrokerNack(c)
    <2>1. PICK c \in Chans : BrokerAck(c) \/ ReadConfirm(c) \/ BrokerNack(c)
      BY <1>3 DEF BrokerStep
    <2> QED BY <2>1, AnswerInv, ReadConfirmInv
  <1>4. CASE UNCHANGED vars
    BY <1>4, UnderCallsInv DEF vars
  <1> QED BY <1>1, <1>2, <1>3, <1>4 DEF Next

\* Concurrent Publish calls, the manager, close() and the broker keep PublisherInv,
\* for any number of calls, channels and faults.
THEOREM PublisherInvariant == Spec => []PublisherInv
  BY PublisherInvInit, PublisherInvNext, PTL DEF Spec

\* A Publish call that returns nil has its message in the broker
\* (client.go:218-231), for as long as every call has waited for its own
\* confirmation: reconnects, nacks and close() do not shift confirmations from one
\* call to another.
THEOREM ConfirmedIsStored == Spec => []ConfirmsMatch
  <1>1. PublisherInv => ConfirmsMatch
    BY DEF PublisherInv
  <1> QED BY <1>1, PublisherInvariant, PTL

\* pushMu (client.go:219-226) allows one publish in flight on an open channel,
\* under the same condition.
THEOREM OnePublishInFlight == Spec => []OneInFlight
  <1>1. PublisherInv => OneInFlight
    BY DEF PublisherInv
  <1> QED BY <1>1, PublisherInvariant, PTL

\* A publish on a nil channel (client.go:309) takes two faults, or close().
THEOREM PublishPanicNeedsTwoFaults == Spec => []PanicNeedsTwoFaults
  <1>1. PublisherInv => PanicNeedsTwoFaults
    BY DEF PublisherInv
  <1> QED BY <1>1, PublisherInvariant, PTL
=============================================================================
