------------------------------ MODULE JobQueue ------------------------------
(***************************************************************************)
(* What a queue of jobs promises the application, without its broker,      *)
(* consumers, delay queue or clock.  A submitted job is finished (its      *)
(* handler succeeds, or the fail handler is given it) and is removed only  *)
(* then; it is finished a second time only after something was lost.       *)
(***************************************************************************)
EXTENDS Naturals

CONSTANT Messages   \* the jobs

VARIABLES
    status,     \* "absent", "pending" or "removed"
    finals,     \* how often each job was finished
    broken,     \* jobs that may be removed without being finished
    losses      \* channels and processes lost so far

jobVars == <<status, finals, broken, losses>>

Init ==
    /\ status = [m \in Messages |-> "absent"]
    /\ finals = [m \in Messages |-> 0]
    /\ broken = {}
    /\ losses = 0

Submit(m) ==
    /\ status[m] = "absent"
    /\ status' = [status EXCEPT ![m] = "pending"]
    /\ UNCHANGED <<finals, broken, losses>>

\* A job that was removed may be finished again by a consumer that did not
\* notice: the surplus is bounded by the losses.
Finish(m) ==
    /\ status[m] # "absent"
    /\ finals[m] <= losses
    /\ finals' = [finals EXCEPT ![m] = @ + 1]
    /\ UNCHANGED <<status, broken, losses>>

Remove(m) ==
    /\ status[m] = "pending"
    /\ finals[m] > 0 \/ m \in broken
    /\ status' = [status EXCEPT ![m] = "removed"]
    /\ UNCHANGED <<finals, broken, losses>>

\* A job breaks its handler where nothing is provided for it.
Break(m) ==
    /\ status[m] # "absent"
    /\ broken' = broken \cup {m}
    /\ UNCHANGED <<status, finals, losses>>

Lose ==
    /\ losses' = losses + 1
    /\ UNCHANGED <<status, finals, broken>>

Next == Lose \/ \E m \in Messages : Submit(m) \/ Finish(m) \/ Break(m) \/ Remove(m)

Spec == Init /\ [][Next]_jobVars
=============================================================================
