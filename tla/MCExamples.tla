----------------------------- MODULE MCExamples -----------------------------
(* Instance of Examples for TLC. *)
EXTENDS Examples, TLC
=============================================================================
