----------------------------- MODULE Application -----------------------------
(***************************************************************************)
(* One agency application: submission, verification by Digio, review,      *)
(* commercial terms, e-signature, activation and suspension                *)
(* (server/src/modules/{lifecycle, onboarding, verification, review,       *)
(* commercial, agreement, agencies}).                                      *)
(*                                                                         *)
(* Requests and Digio's callbacks interleave at every await.  A request    *)
(* is a record of `call': the operation, the point it has reached and what *)
(* it carries from its earlier reads.  A step that only rejects a request  *)
(* is left out.  Digio may call back for a reference it returned at any    *)
(* time, again, and with another verdict.                                  *)
(*                                                                         *)
(* As in Booking, a faulty variant F-fault may precede a definition F.     *)
(***************************************************************************)
EXTENDS Naturals, Sequences, FiniteSets

CONSTANTS
    Calls,    \* requests and callbacks in flight
    Checks,   \* MANDATORY_CHECKS in order (without GST for an independent agent)
    Results,  \* Digio's verdicts on a check, and on an agreement: [check |-> ..., ESIGN |-> ...]
    Vetting,  \* bound: the states in which new requests are made about checks
    MaxRows,  \* bound: Verification rows ever created
    MaxStrays \* bound: strays after which no request starts

CheckTypes == {"GST", "PAN", "AADHAAR_EKYC", "BANK", "DOCUMENT"}
DIGIO_STATUS_MAP == [passed |-> "PASSED", failed |-> "FAILED", manual_review |-> "MANUAL_REVIEW"]

ASSUME ApplicationAssumption ==
    /\ Checks \in Seq(CheckTypes) /\ Checks # <<>>
    /\ Results \in [{"check", "ESIGN"} -> SUBSET DOMAIN DIGIO_STATUS_MAP]
    /\ MaxRows \in Nat /\ MaxStrays \in Nat

VARIABLES
    state,   \* AgencyApplication.lifecycleState
    check,   \* Verification rows in order of creation
    agency,  \* the Agency, its terms and its first user
    call,    \* requests and callbacks in flight
    seen,    \* history: the states the application has been in
    signers, \* history: who recorded an agreement as signed
    fresh,   \* history: a check result was recorded since VERIFICATION was entered
    strays,  \* history: how often a transition was applied to a state it was not
             \* validated for, or a reactivation to one that was not suspended
    died     \* history: a request stopped half way

vars == <<state, check, agency, call, seen, signers, fresh, strays, died>>

Path == INSTANCE Lifecycle

RowIds == 1 .. MaxRows
Mandatory == {Checks[i] : i \in 1 .. Len(Checks)}
Terminal == {"PASSED", "FAILED", "MANUAL_REVIEW"}

Row == [checkType: CheckTypes \cup {"ESIGN", "none", "deleted"},
        status: {"PENDING", "IN_PROGRESS"} \cup Terminal,
        providerRef: BOOLEAN, completed: BOOLEAN]
NewRow(type, status, ref) ==
    [checkType |-> type, status |-> status, providerRef |-> ref, completed |-> FALSE]

Agency == [created: BOOLEAN, status: {"ACTIVE", "SUSPENDED"}, activated: BOOLEAN,
           terms: BOOLEAN, user: BOOLEAN]
NoAgency == [created |-> FALSE, status |-> "ACTIVE", activated |-> FALSE, terms |-> FALSE, user |-> FALSE]

\* The state an operation moves the application to, and who may run it.
Target == [submit |-> "VERIFICATION", evaluate |-> "REVIEW", approve |-> "APPROVED",
           reject |-> "REJECTED", resubmit |-> "VERIFICATION", terms |-> "COMMERCIAL_CONFIGURATION",
           sign |-> "ACTIVE", activate |-> "ACTIVE", suspend |-> "SUSPENDED", reactivate |-> "ACTIVE"]
RolesOf == [submit |-> {"APPLICANT"}, evaluate |-> {"SYSTEM"}, approve |-> {"ADMIN", "VERIFIER"},
            reject |-> {"ADMIN", "VERIFIER"}, resubmit |-> {"ADMIN", "VERIFIER"}, terms |-> {"ADMIN"},
            sign |-> {"SYSTEM"}, activate |-> {"ADMIN"}, suspend |-> {"ADMIN"}, reactivate |-> {"ADMIN"}]

\* A call keeps only what it still needs of what it has read: the state it
\* validated, the row it found, the result it brings, the checks it names, the
\* place in the list of checks it has reached.
Points == {"idle", "read", "move", "delete", "find", "create", "initiate", "result", "weigh",
           "count", "ensure", "terms", "send", "activate", "stamp", "user", "flag"}
Call == [op: DOMAIN Target \cup {"none", "initiate", "callback", "override", "send"}, at: Points,
         from: Path!States, row: RowIds \cup {0}, status: Terminal,
         named: SUBSET (CheckTypes \cup {"ESIGN"}), next: 1 .. Len(Checks)]
NewCall(op, at, from, r, status, named, next) ==
    [op |-> op, at |-> at, from |-> from, row |-> r, status |-> status, named |-> named, next |-> next]
At(op, at) == NewCall(op, at, "DRAFT", 0, "PASSED", {}, 1)
Moving(op, from, named) == NewCall(op, "move", from, 0, "PASSED", named, 1)
Checking(at, r, next) == NewCall("initiate", at, "DRAFT", r, "PASSED", {}, next)
Recording(op, r, status) == NewCall(op, "result", "DRAFT", r, status, {}, 1)
Configuring(at, from) == NewCall("terms", at, from, 0, "PASSED", {}, 1)
Idle == At("none", "idle")

TypeOK ==
    /\ state \in Path!States
    /\ check \in [RowIds -> Row]
    /\ agency \in Agency
    /\ call \in [Calls -> Call]
    /\ seen \subseteq Path!States
    /\ signers \subseteq {"DIGIO", "STAFF"} /\ fresh \in BOOLEAN /\ strays \in Nat /\ died \in BOOLEAN

\* createDraft; or createAgency, an application that starts out active with its
\* agency, terms and user.
Drafted == state = "DRAFT" /\ agency = NoAgency
CreatedByAdmin ==
    /\ state = "ACTIVE"
    /\ agency = [created |-> TRUE, status |-> "ACTIVE", activated |-> TRUE, terms |-> TRUE, user |-> TRUE]

Init ==
    /\ Drafted \/ CreatedByAdmin
    /\ check = [r \in RowIds |-> NewRow("none", "PENDING", FALSE)]
    /\ call = [c \in Calls |-> Idle]
    /\ seen = {state}
    /\ signers = {} /\ fresh = FALSE /\ strays = 0 /\ died = FALSE

-----------------------------------------------------------------------------
Go(c, new) == call' = [call EXCEPT ![c] = new]
Start(c, new) == call[c].at = "idle" /\ strays < MaxStrays /\ Go(c, new)
OnlyCall == UNCHANGED <<state, check, agency, seen, signers, fresh, strays, died>>

Live(r) == check[r].checkType \notin {"none", "deleted"}
RowsOf(types) == {r \in RowIds : check[r].checkType \in types}

\* r is the next row to be created.
IsNext(r) == check[r].checkType = "none" /\ \A q \in 1 .. r - 1 : check[q].checkType # "none"

-----------------------------------------------------------------------------
(* transitionApplication: read and validate, then write by id.             *)

ValidatedByTarget(from, op) ==
    \E old \in Path!States : \E role \in RolesOf[op] : Path!CanTransition(old, Target[op], role)
Validated(from, op) == \E role \in RolesOf[op] : Path!CanTransition(from, Target[op], role)

\* A request whose first effect is a transition reads and validates the state.
Ask(c, op, named) ==
    /\ Validated(state, op)
    /\ Start(c, Moving(op, state, named))
    /\ OnlyCall

Submit(c) == Ask(c, "submit", {})
Approve(c) == Ask(c, "approve", {})
Reject(c) == Ask(c, "reject", {})
RequestResubmission(c) ==
    state = "REVIEW" /\ \E named \in SUBSET (Mandatory \cup {"ESIGN"}) : Ask(c, "resubmit", named)
SuspendAgency(c) == agency.created /\ Ask(c, "suspend", {})
ReactivateAgency(c) == agency.created /\ Ask(c, "reactivate", {})

\* The read of a request that did something else before.
Read(c) ==
    /\ call[c].at = "read"
    /\ Go(c, IF Validated(state, call[c].op) THEN Moving(call[c].op, state, {}) ELSE Idle)
    /\ OnlyCall

\* What a request does after its transition.
AfterMove(k) ==
    CASE k.op = "submit" -> At("initiate", "find")
      [] k.op = "resubmit" /\ k.named # {} -> NewCall("initiate", "delete", "DRAFT", 0, "PASSED", k.named, 1)
      [] k.op \in {"sign", "activate"} -> At("activate", "stamp")
      [] k.op \in {"suspend", "reactivate"} -> At(k.op, "flag")
      [] OTHER -> Idle

Strays(k) == state # k.from \/ (k.op = "reactivate" /\ state # "SUSPENDED")

Move(c) ==
    /\ call[c].at = "move"
    /\ state' = Target[call[c].op]
    /\ seen' = seen \cup {state'}
    /\ fresh' = FALSE
    /\ strays' = IF Strays(call[c]) THEN strays + 1 ELSE strays
    /\ Go(c, AfterMove(call[c]))
    /\ UNCHANGED <<check, agency, signers, died>>

\* suspendAgency and reactivateAgency set the agency's status last.
Flag(c) ==
    /\ call[c].at = "flag"
    /\ agency' = [agency EXCEPT !.status = IF call[c].op = "suspend" THEN "SUSPENDED" ELSE "ACTIVE"]
    /\ Go(c, Idle)
    /\ UNCHANGED <<state, check, seen, signers, fresh, strays, died>>

-----------------------------------------------------------------------------
(* Initiating the checks, check by check.                                  *)

InitiateChecks(c) == state \in Vetting /\ Start(c, At("initiate", "find")) /\ OnlyCall

\* reinitiateChecks deletes the named checks first.
DeleteChecks(c) ==
    /\ call[c].at = "delete"
    /\ check' = [r \in RowIds |-> IF check[r].checkType \in call[c].named
                                    THEN NewRow("deleted", "PENDING", FALSE) ELSE check[r]]
    /\ Go(c, At("initiate", "find"))
    /\ UNCHANGED <<state, agency, seen, signers, fresh, strays, died>>

\* On to the check after the one call k is at.
AfterCheckPast(k) == IF k.next > Len(Checks) THEN Idle ELSE Checking("find", 0, k.next + 1)
AfterCheck(k) == IF k.next = Len(Checks) THEN Idle ELSE Checking("find", 0, k.next + 1)

FindCheck(c) ==
    LET k == call[c] IN
    /\ k.at = "find"
    /\ Go(c, IF RowsOf({Checks[k.next]}) # {} THEN AfterCheck(k) ELSE Checking("create", 0, k.next))
    /\ OnlyCall

CreateCheck(c) ==
    LET k == call[c] IN
    /\ k.at = "create"
    /\ \E r \in RowIds :
          /\ IsNext(r)
          /\ check' = [check EXCEPT ![r] = NewRow(Checks[k.next], "PENDING", FALSE)]
          /\ Go(c, Checking("initiate", r, k.next))
    /\ UNCHANGED <<state, agency, seen, signers, fresh, strays, died>>

\* Digio returns a reference, which is stored, or the attempt fails (also
\* because the row is gone) and the loop goes on.
InitiateCheck(c) ==
    LET k == call[c] IN
    /\ k.at = "initiate"
    /\ \/ /\ Live(k.row)
          /\ check' = [check EXCEPT ![k.row] = [@ EXCEPT !.status = "IN_PROGRESS", !.providerRef = TRUE]]
       \/ UNCHANGED check
    /\ Go(c, AfterCheck(k))
    /\ UNCHANGED <<state, agency, seen, signers, fresh, strays, died>>

-----------------------------------------------------------------------------
(* Results: processWebhook and overrideVerification.                       *)

ResultsFor(r) == Results[IF check[r].checkType = "ESIGN" THEN "ESIGN" ELSE "check"]

\* A callback finds its check by reference, not completed.
ReceiveCallback(c) ==
    \E r \in RowIds : \E result \in ResultsFor(r) :
        /\ Live(r) /\ check[r].providerRef /\ ~check[r].completed
        /\ check[r].checkType = "ESIGN" \/ state \in Vetting
        /\ Start(c, Recording(IF check[r].checkType = "ESIGN" THEN "sign" ELSE "callback",
                              r, DIGIO_STATUS_MAP[result]))
        /\ OnlyCall

\* Staff decide one check themselves; whichever row of its type is found.
OverrideVerification(c) ==
    \E r \in RowIds : \E result \in ResultsFor(r) :
        /\ Live(r)
        /\ check[r].checkType = "ESIGN" \/ state \in Vetting
        /\ Start(c, Recording("override", r, DIGIO_STATUS_MAP[result]))
        /\ OnlyCall

AfterResultForgotten(k) ==
    IF k.op = "sign" /\ k.status = "PASSED" THEN At("sign", "activate")
    ELSE IF k.op = "callback" THEN At("evaluate", "weigh") ELSE Idle
AfterResultUnsigned(k) == IF k.op = "sign" THEN Idle ELSE At("evaluate", "weigh")
AfterResult(k) ==
    CASE k.op # "sign" -> At("evaluate", "weigh")
      [] k.op = "sign" /\ k.status = "PASSED" -> At("sign", "activate")
      [] OTHER -> Idle

Decided(row, status) == [row EXCEPT !.status = status, !.completed = TRUE]

RecordResult(c) ==
    LET k == call[c] IN
    /\ k.at = "result"
    /\ Live(k.row)
    /\ check' = [check EXCEPT ![k.row] = Decided(@, k.status)]
    /\ signers' = IF check[k.row].checkType = "ESIGN" /\ k.status = "PASSED"
                     THEN signers \cup {IF k.op = "override" THEN "STAFF" ELSE "DIGIO"} ELSE signers
    /\ fresh' = (fresh \/ (state = "VERIFICATION" /\ check[k.row].checkType # "ESIGN"))
    /\ Go(c, AfterResult(k))
    /\ UNCHANGED <<state, agency, seen, strays, died>>

\* The row was deleted in between: the update throws.
LoseResult(c) ==
    /\ call[c].at = "result" /\ ~Live(call[c].row)
    /\ Go(c, Idle)
    /\ OnlyCall

\* decideProgression: as many rows as mandatory checks, all of them terminal.
Complete ==
    LET rows == RowsOf(CheckTypes) IN
    Cardinality(rows) >= Len(Checks) /\ \A r \in rows : check[r].status \in Terminal

\* evaluateAutoProgression reads the application, then the checks.
Weigh(c) ==
    /\ call[c].at = "weigh"
    /\ Go(c, IF state = "VERIFICATION" THEN At("evaluate", "count") ELSE Idle)
    /\ OnlyCall

Count(c) ==
    /\ call[c].at = "count"
    /\ Go(c, IF Complete THEN At("evaluate", "read") ELSE Idle)
    /\ OnlyCall

-----------------------------------------------------------------------------
(* Commercial terms: setCommercialConfig.                                  *)

SetCommercialConfig(c) ==
    /\ state \in {"APPROVED", "COMMERCIAL_CONFIGURATION"}
    /\ Start(c, Configuring("ensure", state))
    /\ OnlyCall

\* ensureAgency: use the agency or create it.  applicationId is unique: the
\* later of two requests that both create it throws, like one that dies.
EnsureAgency(c) ==
    /\ call[c].at = "ensure"
    /\ agency' = [agency EXCEPT !.created = TRUE]
    /\ Go(c, Configuring("terms", call[c].from))
    /\ UNCHANGED <<state, check, seen, signers, fresh, strays, died>>

\* Only the first assignment, as read at the start, moves the application.
AfterTerms(k) == IF k.from = "APPROVED" THEN At("terms", "read") ELSE Idle

SetTerms(c) ==
    /\ call[c].at = "terms"
    /\ agency' = [agency EXCEPT !.terms = TRUE]
    /\ Go(c, AfterTerms(call[c]))
    /\ UNCHANGED <<state, check, seen, signers, fresh, strays, died>>

-----------------------------------------------------------------------------
(* Agreement and activation.                                               *)

GenerateAgreement(c) ==
    /\ state = "COMMERCIAL_CONFIGURATION" /\ agency.created /\ agency.terms
    /\ Start(c, At("send", "send"))
    /\ OnlyCall

\* Every agreement sent has a row of its own, once Digio accepted it.
SendAgreement(c) ==
    /\ call[c].at = "send"
    /\ \/ \E r \in RowIds : /\ IsNext(r)
                            /\ check' = [check EXCEPT ![r] = NewRow("ESIGN", "IN_PROGRESS", TRUE)]
       \/ UNCHANGED check
    /\ Go(c, Idle)
    /\ UNCHANGED <<state, agency, seen, signers, fresh, strays, died>>

\* activateIfSigned looks at the last agreement sent.
LatestIsSignedAny == RowsOf({"ESIGN"}) # {}
LatestIsSigned ==
    \E r \in RowsOf({"ESIGN"}) :
        check[r].status = "PASSED" /\ \A q \in RowsOf({"ESIGN"}) : q <= r

ActivateIfSigned(c) ==
    /\ LatestIsSigned
    /\ Start(c, At("activate", "activate"))
    /\ OnlyCall

\* activateAgencyForApplication: move the application, or find it active.
AfterLoad(op) ==
    CASE agency.created /\ state = "COMMERCIAL_CONFIGURATION" -> At(op, "read")
      [] agency.created /\ state = "ACTIVE" -> At("activate", "stamp")
      [] OTHER -> Idle

LoadForActivation(c) ==
    /\ call[c].at = "activate"
    /\ Go(c, AfterLoad(call[c].op))
    /\ OnlyCall

Stamp(c) ==
    /\ call[c].at = "stamp"
    /\ agency' = [agency EXCEPT !.status = "ACTIVE", !.activated = TRUE]
    /\ Go(c, At("activate", "user"))
    /\ UNCHANGED <<state, check, seen, signers, fresh, strays, died>>

EnsureUser(c) ==
    /\ call[c].at = "user"
    /\ agency' = [agency EXCEPT !.user = TRUE]
    /\ Go(c, Idle)
    /\ UNCHANGED <<state, check, seen, signers, fresh, strays, died>>

-----------------------------------------------------------------------------
\* A request stops half way: an exception, or the process.
Die(c) ==
    /\ call[c].at # "idle" /\ ~died
    /\ Go(c, Idle)
    /\ died' = TRUE
    /\ UNCHANGED <<state, check, agency, seen, signers, fresh, strays>>

Next ==
    \E c \in Calls :
        \/ Submit(c) \/ Approve(c) \/ Reject(c) \/ RequestResubmission(c)
        \/ SuspendAgency(c) \/ ReactivateAgency(c) \/ Read(c) \/ Move(c) \/ Flag(c)
        \/ InitiateChecks(c) \/ DeleteChecks(c) \/ FindCheck(c) \/ CreateCheck(c) \/ InitiateCheck(c)
        \/ ReceiveCallback(c) \/ OverrideVerification(c) \/ RecordResult(c) \/ LoseResult(c)
        \/ Weigh(c) \/ Count(c)
        \/ SetCommercialConfig(c) \/ EnsureAgency(c) \/ SetTerms(c)
        \/ GenerateAgreement(c) \/ SendAgreement(c) \/ ActivateIfSigned(c)
        \/ LoadForActivation(c) \/ Stamp(c) \/ EnsureUser(c) \/ Die(c)

Spec == Init /\ [][Next]_vars

-----------------------------------------------------------------------------
(* Properties.                                                             *)

\* No stage is skipped, whatever requests overlap: an application that began as
\* a draft has been reviewed, approved and given its terms before it is active,
\* and rejected only after a review.
NoStageSkipped ==
    "DRAFT" \in seen =>
        /\ "REVIEW" \in seen => "VERIFICATION" \in seen
        /\ seen \cap {"APPROVED", "REJECTED"} # {} => "REVIEW" \in seen
        /\ "COMMERCIAL_CONFIGURATION" \in seen => "APPROVED" \in seen
        /\ "ACTIVE" \in seen => "COMMERCIAL_CONFIGURATION" \in seen
        /\ "SUSPENDED" \in seen => "ACTIVE" \in seen

\* The agency follows the application: it exists and has terms once these are
\* configured, is activated only after the application was, by terms and a
\* signature recorded by Digio or by staff, and has its user only after that.
AgencyFollows ==
    /\ "COMMERCIAL_CONFIGURATION" \in seen => agency.created /\ agency.terms
    /\ agency.activated => "ACTIVE" \in seen /\ agency.created /\ agency.terms
    /\ agency.activated /\ "DRAFT" \in seen => signers # {}
    /\ agency.user => agency.activated

\* Instructions.md: "No activation without a signed agreement."  Reactivating
\* an agency that awaits its signature makes the application active: the table
\* lets an admin move it on from COMMERCIAL_CONFIGURATION.
ActiveIsSigned == "DRAFT" \in seen /\ "ACTIVE" \in seen => signers # {}

Quiet == \A c \in Calls : call[c].at = "idle"

\* No result is forgotten: when all requests have ended, none of them half way,
\* an application is not left in VERIFICATION with all checks decided, unless
\* nothing was decided since it came there.
ResultsActedOn == Quiet /\ ~died /\ fresh /\ state = "VERIFICATION" => ~Complete

\* Once Digio reports an agreement as signed, and all requests have ended, none
\* of them half way, the agency is activated and its user can log in; as long
\* as no transition overwrote another and only suspended agencies are reactivated.
SignedIsActivated ==
    Quiet /\ ~died /\ strays = 0 /\ "DIGIO" \in signers => agency.activated /\ agency.user

\* Every move is allowed by the table from a state the application has been in.
ImplementsLifecycle == Path!Spec
=============================================================================
