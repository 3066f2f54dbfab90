------------------------------ MODULE MCBooking ------------------------------
(* Small instances of Booking for TLC. *)
EXTENDS Booking, TLC

\* Callers that are not runs of the queue are interchangeable.
Symmetry == Permutations(Callers)
=============================================================================
