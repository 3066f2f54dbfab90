---------------------------- MODULE MCApplication ----------------------------
(* Small instances of Application for TLC. *)
EXTENDS Application, TLC

Symmetry == Permutations(Calls)
TwoChecks == <<"PAN", "BANK">>
OneCheck == <<"PAN">>
SomeResults == [check |-> {"passed"}, ESIGN |-> {"passed", "failed"}]
=============================================================================
