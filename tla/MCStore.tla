------------------------------- MODULE MCStore -------------------------------
(* The queue store with concurrent callers, for model checking. *)
EXTENDS Store, TLC

CONSTANTS a, b, u   \* the calls of AddConsumerN

\* Two workers, "parallelism <= 0", and a queue that is not configured.
MCParallelism == (a :> 2) @@ (b :> 0) @@ (u :> 1)
=============================================================================
