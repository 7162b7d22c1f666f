---------------------------- MODULE MCFailedJobs ----------------------------
(* Instance of FailedJobs for TLC. *)
EXTENDS FailedJobs, TLC

CONSTANTS j0, j1, j2, r1, r2

MCLeftovers == {j1, j2}
MCBodyOf    == (j1 :> "other") @@ (j2 :> "hello-from-retry")
MCRequests  == {r1, r2}
=============================================================================
