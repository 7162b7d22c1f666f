----------------------------- MODULE MCDelivery -----------------------------
(* One queue with its consumers, for model checking. *)
EXTENDS Delivery

\* A retry window that is not a whole number of seconds.
MCLifetime == [m \in Messages |-> 3]
=============================================================================
