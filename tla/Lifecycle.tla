------------------------------ MODULE Lifecycle ------------------------------
(***************************************************************************)
(* The lifecycle of an agency's application, as the transition table of    *)
(* server/src/modules/lifecycle/lifecycle.machine.ts defines it, and the   *)
(* part of it that survives concurrent requests.                           *)
(*                                                                         *)
(* An application may enter a state that follows, by the table, a state it *)
(* has been in, not only the one it is in now: every transition is         *)
(* validated, but against the state its request read, which another may    *)
(* have replaced before it writes.                                         *)
(***************************************************************************)
States == {"DRAFT", "VERIFICATION", "REVIEW", "APPROVED", "REJECTED",
           "COMMERCIAL_CONFIGURATION", "ACTIVE", "SUSPENDED"}

Roles == {"APPLICANT", "SYSTEM", "ADMIN", "VERIFIER"}

Rule(from, to, allowedActors) == [from |-> from, to |-> to, allowedActors |-> allowedActors]

TRANSITIONS ==
    {Rule("DRAFT", "VERIFICATION", {"APPLICANT", "ADMIN"}),
     Rule("VERIFICATION", "REVIEW", {"SYSTEM", "ADMIN"}),
     Rule("REVIEW", "APPROVED", {"ADMIN", "VERIFIER"}),
     Rule("REVIEW", "REJECTED", {"ADMIN", "VERIFIER"}),
     Rule("REVIEW", "VERIFICATION", {"ADMIN", "VERIFIER"}),
     Rule("APPROVED", "COMMERCIAL_CONFIGURATION", {"ADMIN"}),
     Rule("COMMERCIAL_CONFIGURATION", "ACTIVE", {"SYSTEM", "ADMIN"}),
     Rule("ACTIVE", "SUSPENDED", {"ADMIN"}),
     Rule("SUSPENDED", "ACTIVE", {"ADMIN"})}

FindTransition(from, to) == {rule \in TRANSITIONS : rule.from = from /\ rule.to = to}

CanTransition(from, to, actor) == \E rule \in FindTransition(from, to) : actor \in rule.allowedActors

-----------------------------------------------------------------------------
VARIABLES
    state,  \* AgencyApplication.lifecycleState
    seen    \* the states it has been in

\* Applicants start a draft; an admin may create an agency that is active at once.
Init == state \in {"DRAFT", "ACTIVE"} /\ seen = {state}

Enter(to) ==
    /\ state' = to
    /\ seen' = seen \cup {to}
    /\ \E from \in seen : FindTransition(from, to) # {}

Next == \E to \in States : Enter(to)

Spec == Init /\ [][Next]_<<state, seen>>
=============================================================================
