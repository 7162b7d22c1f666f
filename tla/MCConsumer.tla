----------------------------- MODULE MCConsumer -----------------------------
(* One consumer client with its loop, for model checking. *)
EXTENDS Consumer
=============================================================================
