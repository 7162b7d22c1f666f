---------------------------- MODULE MCPublisher ----------------------------
(* A publisher client with concurrent Publish calls, for model checking. *)
EXTENDS Publisher, TLC

\* The calls are interchangeable in the safety runs.
CallSymmetry == Permutations(Calls)
=============================================================================
