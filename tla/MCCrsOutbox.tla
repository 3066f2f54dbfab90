----------------------------- MODULE MCCrsOutbox -----------------------------
(* Small instances of CrsOutbox for TLC. *)
EXTENDS CrsOutbox, TLC

\* Two payments of one booking, and one event of another.
SharedPosting == [e \in Events |-> IF e <= 2 THEN "payment" ELSE "obligation"]

Symmetry == Permutations(Flushers)
=============================================================================
