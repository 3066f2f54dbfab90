----------------------------- MODULE CrsDelivery -----------------------------
(***************************************************************************)
(* What the outbox promises the CRS, with no queue in sight: a posting     *)
(* stands for a correlation id and an event type, the CRS receives only    *)
(* postings of committed financial changes, and forgets none.              *)
(***************************************************************************)
CONSTANT Postings

VARIABLES
    committed,  \* postings whose financial change is committed
    ledger      \* postings the CRS holds

Init == committed = {} /\ ledger = {}

Commit(p) ==
    /\ committed' = committed \cup {p}
    /\ UNCHANGED ledger

Deliver(p) ==
    /\ p \in committed
    /\ ledger' = ledger \cup {p}
    /\ UNCHANGED committed

Next == \E p \in Postings : Commit(p) \/ Deliver(p)

Spec == Init /\ [][Next]_<<committed, ledger>>
=============================================================================
