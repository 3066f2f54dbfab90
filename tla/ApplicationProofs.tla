-------------------------- MODULE ApplicationProofs --------------------------
(* What TLAPS proves of Application, for any number of requests and checks. *)
EXTENDS Application, TLAPS

(***************************************************************************)
(* The inductive invariant.  A call carries into each of its points what   *)
(* its earlier steps established; the four facts only grow, so no other    *)
(* request can take them away from it.                                     *)
(***************************************************************************)
HasTerms(ag) == ag.created /\ ag.terms
Signed(sn, sg) == "DRAFT" \in sn => sg # {}

Carries(k, ag, sn, sg) ==
    /\ k.at \in {"read", "move"} => k.op \in DOMAIN Target
    /\ k.at = "move" => k.from \in sn /\ Path!FindTransition(k.from, Target[k.op]) # {}
    /\ k.at = "terms" => ag.created
    /\ k.at \in {"read", "move"} /\ k.op = "terms" => HasTerms(ag)
    /\ k.at = "activate" => k.op \in {"sign", "activate"}
    /\ k.at \in {"activate", "read", "move"} /\ k.op \in {"sign", "activate"} => Signed(sn, sg)
    /\ k.at = "stamp" => "ACTIVE" \in sn /\ HasTerms(ag) /\ Signed(sn, sg)
    /\ k.at = "user" => ag.activated

Carried == \A c \in Calls : Carries(call[c], agency, seen, signers)
Origin == "DRAFT" \notin seen => HasTerms(agency)
SignedRows == \A r \in RowIds :
                  check[r].checkType = "ESIGN" /\ check[r].status = "PASSED" => signers # {}

Inv == /\ TypeOK /\ NoStageSkipped /\ AgencyFollows
       /\ state \in seen /\ Origin /\ SignedRows /\ Carried

\* A call that brings the result of an agreement found an agreement, one that
\* brings the result of a check a check; its row may have been deleted since.
Brings(k, rows) ==
    k.at = "result" =>
        /\ k.row \in RowIds /\ k.op \in {"sign", "callback", "override"}
        /\ k.op = "sign" => rows[k.row].checkType \in {"ESIGN", "deleted"}
        /\ k.op = "callback" => rows[k.row].checkType \in CheckTypes \cup {"deleted"}
Callbacks == \A c \in Calls : Brings(call[c], check)

Grows ==
    /\ seen \subseteq seen' /\ ("DRAFT" \in seen' => "DRAFT" \in seen)
    /\ signers \subseteq signers'
    /\ agency.created => agency'.created
    /\ agency.terms => agency'.terms
    /\ agency.activated => agency'.activated

-----------------------------------------------------------------------------
(* Calls and the transition table.                                         *)

LEMMA Places == 1 \in 1 .. Len(Checks) /\ Len(Checks) \in Nat
BY ApplicationAssumption

\* Whatever a call is made of, it is a call.
LEMMA NewIsCall ==
    ASSUME NEW op \in DOMAIN Target \cup {"none", "initiate", "callback", "override", "send"},
           NEW at \in Points, NEW from \in Path!States, NEW r \in RowIds \cup {0},
           NEW status \in Terminal, NEW named \in SUBSET (CheckTypes \cup {"ESIGN"}),
           NEW next \in 1 .. Len(Checks)
    PROVE  NewCall(op, at, from, r, status, named, next) \in Call
BY DEF NewCall, Call

LEMMA Defaults ==
    /\ "DRAFT" \in Path!States /\ "PASSED" \in Terminal
    /\ {} \in SUBSET (CheckTypes \cup {"ESIGN"}) /\ 0 \in RowIds \cup {0}
BY DEF Path!States, Terminal

LEMMA Operations == DOMAIN Target = {"submit", "evaluate", "approve", "reject", "resubmit", "terms",
                                     "sign", "activate", "suspend", "reactivate"}
BY DEF Target

LEMMA PlainCall ==
    ASSUME NEW op \in DOMAIN Target \cup {"none", "initiate", "callback", "override", "send"},
           NEW at \in Points
    PROVE  At(op, at) \in Call
BY NewIsCall, Defaults, Places DEF At

\* An idle call carries nothing.
LEMMA IdleCall == Idle \in Call /\ \A ag, sn, sg : Carries(Idle, ag, sn, sg)
<1>1. Idle \in Call BY PlainCall DEF Idle, Points
<1>2. \A ag, sn, sg : Carries(Idle, ag, sn, sg) BY DEF Idle, At, NewCall, Carries
<1> QED BY <1>1, <1>2

\* No operation leads back to the draft.
LEMMA Targets == \A op \in DOMAIN Target : Target[op] \in Path!States /\ Target[op] # "DRAFT"
BY Operations DEF Target, Path!States

\* What a validated request knows.
LEMMA ValidatedRule ==
    ASSUME NEW from, NEW op \in DOMAIN Target, Validated(from, op)
    PROVE  Path!FindTransition(from, Target[op]) # {}
BY DEF Validated, Path!CanTransition

\* The table, read backwards: where a state can be entered from.
LEMMA Predecessors ==
    ASSUME NEW from, NEW to, Path!FindTransition(from, to) # {}
    PROVE  /\ to = "REVIEW" => from = "VERIFICATION"
           /\ to \in {"APPROVED", "REJECTED"} => from = "REVIEW"
           /\ to = "COMMERCIAL_CONFIGURATION" => from = "APPROVED"
           /\ to = "ACTIVE" => from \in {"COMMERCIAL_CONFIGURATION", "SUSPENDED"}
           /\ to = "SUSPENDED" => from = "ACTIVE"
<1> PICK rule \in Path!TRANSITIONS : rule.from = from /\ rule.to = to BY DEF Path!FindTransition
<1> QED BY DEF Path!TRANSITIONS, Path!Rule

-----------------------------------------------------------------------------
(* Steps that only change some of the state.                               *)

\* The calls, when one of them becomes new and what they rely on only grows.
LEMMA CallsStep ==
    ASSUME Inv, NEW c \in Calls, NEW new \in Call, Go(c, new), Grows,
           Carries(new, agency', seen', signers')
    PROVE  Carried' /\ call' \in [Calls -> Call]
<1>1. call \in [Calls -> Call] BY DEF Inv, TypeOK
<1>2. call' = [call EXCEPT ![c] = new] BY DEF Go
<1>3. call' \in [Calls -> Call] BY <1>1, <1>2
<1>4. ASSUME NEW d \in Calls PROVE Carries(call'[d], agency', seen', signers')
  <2>1. CASE d = c BY <1>1, <1>2, <2>1
  <2>2. CASE d # c
    <3>1. call'[d] = call[d] BY <1>1, <1>2, <2>2
    <3>2. Carries(call[d], agency, seen, signers) BY DEF Inv, Carried
    <3> QED BY <3>1, <3>2 DEF Carries, Grows, HasTerms, Signed
  <2> QED BY <2>1, <2>2
<1> QED BY <1>3, <1>4 DEF Carried

LEMMA QuietStep ==
    ASSUME Inv, NEW c \in Calls, NEW new \in Call, Go(c, new), OnlyCall,
           Carries(new, agency, seen, signers)
    PROVE  Inv'
<1> USE DEF OnlyCall
<1>1. Grows BY DEF Grows
<1>2. Carried' /\ call' \in [Calls -> Call] BY <1>1, CallsStep
<1>3. TypeOK' BY <1>2 DEF Inv, TypeOK
<1>4. NoStageSkipped' /\ AgencyFollows' BY DEF Inv, NoStageSkipped, AgencyFollows
<1>5. (state \in seen)' /\ Origin' /\ SignedRows' BY DEF Inv, Origin, SignedRows
<1> QED BY <1>2, <1>3, <1>4, <1>5 DEF Inv

LEMMA CheckStep ==
    ASSUME Inv, NEW c \in Calls, NEW new \in Call, Go(c, new),
           UNCHANGED <<state, agency, seen, signers, fresh, strays, died>>,
           Carries(new, agency, seen, signers), check' \in [RowIds -> Row],
           \A r \in RowIds : check'[r].checkType = "ESIGN" /\ check'[r].status = "PASSED"
               => check[r].checkType = "ESIGN" /\ check[r].status = "PASSED"
    PROVE  Inv'
<1>1. Grows BY DEF Grows
<1>2. Carried' /\ call' \in [Calls -> Call] BY <1>1, CallsStep
<1>3. TypeOK' BY <1>2 DEF Inv, TypeOK
<1>4. NoStageSkipped' /\ AgencyFollows' BY DEF Inv, NoStageSkipped, AgencyFollows
<1>5. (state \in seen)' /\ Origin' /\ SignedRows' BY DEF Inv, Origin, SignedRows
<1> QED BY <1>2, <1>3, <1>4, <1>5 DEF Inv

LEMMA AgencyStep ==
    ASSUME Inv, NEW c \in Calls, NEW new \in Call, Go(c, new), Grows,
           UNCHANGED <<state, check, seen, signers, fresh, strays, died>>,
           Carries(new, agency', seen, signers), agency' \in Agency, AgencyFollows'
    PROVE  Inv'
<1>1. Carried' /\ call' \in [Calls -> Call] BY CallsStep
<1>2. TypeOK' BY <1>1 DEF Inv, TypeOK
<1>3. NoStageSkipped' BY DEF Inv, NoStageSkipped
<1>4. (state \in seen)' /\ Origin' /\ SignedRows' BY DEF Inv, Origin, SignedRows, Grows, HasTerms
<1> QED BY <1>1, <1>2, <1>3, <1>4 DEF Inv

-----------------------------------------------------------------------------
(* The initial states.                                                     *)

LEMMA InitHolds == Init => Inv
<1> SUFFICES ASSUME Init PROVE Inv OBVIOUS
<1>1. /\ seen = {state} /\ signers = {} /\ fresh = FALSE /\ strays = 0 /\ died = FALSE
      /\ check = [r \in RowIds |-> NewRow("none", "PENDING", FALSE)]
      /\ call = [d \in Calls |-> Idle]
  BY DEF Init
<1>2. \/ state = "DRAFT" /\ agency = NoAgency
      \/ /\ state = "ACTIVE"
         /\ agency = [created |-> TRUE, status |-> "ACTIVE", activated |-> TRUE, terms |-> TRUE, user |-> TRUE]
  BY DEF Init, Drafted, CreatedByAdmin
<1>3. agency \in Agency
  <2>1. NoAgency \in Agency BY DEF NoAgency, Agency
  <2>2. [created |-> TRUE, status |-> "ACTIVE", activated |-> TRUE, terms |-> TRUE, user |-> TRUE] \in Agency
    BY DEF Agency
  <2> QED BY <1>2, <2>1, <2>2
<1>4. check \in [RowIds -> Row] BY <1>1 DEF NewRow, Row
<1>5. call \in [Calls -> Call] /\ Carried BY <1>1, IdleCall DEF Carried
<1>6. TypeOK BY <1>1, <1>2, <1>3, <1>4, <1>5 DEF TypeOK, Path!States
<1>7. state \in seen /\ Origin BY <1>1, <1>2 DEF Origin, HasTerms
<1>8. NoStageSkipped BY <1>1, <1>2 DEF NoStageSkipped
<1>9. AgencyFollows BY <1>1, <1>2 DEF AgencyFollows, NoAgency
<1>10. SignedRows BY <1>1 DEF SignedRows, NewRow
<1> QED BY <1>5, <1>6, <1>7, <1>8, <1>9, <1>10 DEF Inv

-----------------------------------------------------------------------------
(* Steps of one request that touch nothing but the request.                *)

\* What a call is at decides what it carries.
LEMMA FreeCall ==
    ASSUME NEW k, k.at \notin {"read", "move", "terms", "activate", "stamp", "user"},
           NEW ag, NEW sn, NEW sg
    PROVE  Carries(k, ag, sn, sg)
BY DEF Carries

LEMMA AtFields == \A op, at : At(op, at).op = op /\ At(op, at).at = at
BY DEF At, NewCall

LEMMA CheckingFields == \A at, r, next : Checking(at, r, next).at = at
BY DEF Checking, NewCall

LEMMA CheckingTyped ==
    ASSUME NEW at \in Points, NEW r \in RowIds \cup {0}, NEW next \in 1 .. Len(Checks)
    PROVE  Checking(at, r, next) \in Call
BY NewIsCall, Defaults DEF Checking

LEMMA CallTyped ==
    ASSUME Inv, NEW c \in Calls
    PROVE  /\ call[c] \in Call /\ Carries(call[c], agency, seen, signers)
           /\ state \in seen /\ check \in [RowIds -> Row] /\ agency \in Agency
           /\ state \in Path!States
BY DEF Inv, TypeOK, Carried

LEMMA AskKeeps ==
    ASSUME Inv, NEW c \in Calls,
           NEW op \in {"submit", "approve", "reject", "resubmit", "suspend", "reactivate"},
           NEW named \in SUBSET (CheckTypes \cup {"ESIGN"}), Ask(c, op, named)
    PROVE  Inv'
<1> DEFINE new == Moving(op, state, named)
<1>1. op \in DOMAIN Target BY Operations
<1>2. new \in Call BY <1>1, CallTyped, NewIsCall, Defaults, Places DEF Moving, Points
<1>3. new.at = "move" /\ new.from = state /\ new.op = op BY DEF Moving, NewCall
<1>4. Path!FindTransition(state, Target[op]) # {} BY <1>1, ValidatedRule DEF Ask
<1>5. Carries(new, agency, seen, signers) BY <1>1, <1>3, <1>4, CallTyped DEF Carries
<1>6. Go(c, new) /\ OnlyCall BY DEF Ask, Start
<1> HIDE DEF new
<1> QED BY <1>2, <1>5, <1>6, QuietStep

LEMMA RequestsKeep ==
    ASSUME Inv, NEW c \in Calls,
           Submit(c) \/ Approve(c) \/ Reject(c) \/ RequestResubmission(c)
           \/ SuspendAgency(c) \/ ReactivateAgency(c)
    PROVE  Inv'
<1>1. Mandatory \subseteq CheckTypes BY ApplicationAssumption DEF Mandatory
<1>2. CASE RequestResubmission(c)
  <2> PICK named \in SUBSET (Mandatory \cup {"ESIGN"}) : Ask(c, "resubmit", named)
    BY <1>2 DEF RequestResubmission
  <2>1. named \in SUBSET (CheckTypes \cup {"ESIGN"}) BY <1>1
  <2> QED BY <2>1, AskKeeps
<1> QED BY <1>2, AskKeeps, Defaults DEF Submit, Approve, Reject, SuspendAgency, ReactivateAgency

LEMMA ReadKeeps == ASSUME Inv, NEW c \in Calls, Read(c) PROVE Inv'
<1> DEFINE op == call[c].op
           new == Moving(op, state, {})
<1>1. op \in DOMAIN Target /\ call[c].at = "read" BY CallTyped DEF Read, Carries
<1>2. CASE Validated(state, op)
  <2>1. new \in Call BY <1>1, CallTyped, NewIsCall, Defaults, Places DEF Moving, Points
  <2>2. new.at = "move" /\ new.from = state /\ new.op = op BY DEF Moving, NewCall
  <2>3. Path!FindTransition(state, Target[op]) # {} BY <1>1, <1>2, ValidatedRule
  <2>4. Carries(new, agency, seen, signers) BY <1>1, <2>2, <2>3, CallTyped DEF Carries
  <2>5. Go(c, new) /\ OnlyCall BY <1>2 DEF Read
  <2> HIDE DEF new
  <2> QED BY <2>1, <2>4, <2>5, QuietStep
<1>3. CASE ~Validated(state, op)
  <2>1. Go(c, Idle) /\ OnlyCall BY <1>3 DEF Read
  <2> QED BY <2>1, IdleCall, QuietStep
<1> QED BY <1>2, <1>3

\* A request goes on to a point at which it relies on nothing.
LEMMA GoesOnFreely ==
    ASSUME Inv, NEW c \in Calls, OnlyCall,
           NEW op \in DOMAIN Target \cup {"none", "initiate", "callback", "override", "send"},
           NEW at \in Points \ {"read", "move", "terms", "activate", "stamp", "user"},
           Go(c, At(op, at))
    PROVE  Inv'
BY PlainCall, AtFields, FreeCall, QuietStep

LEMMA StopsKeep == ASSUME Inv, NEW c \in Calls, OnlyCall, Go(c, Idle) PROVE Inv'
BY IdleCall, QuietStep

LEMMA AfterCheckCall ==
    ASSUME Inv, NEW c \in Calls
    PROVE  /\ AfterCheck(call[c]) \in Call
           /\ \A ag, sn, sg : Carries(AfterCheck(call[c]), ag, sn, sg)
<1> DEFINE k == call[c]
<1>1. k.next \in 1 .. Len(Checks) BY CallTyped DEF Call
<1>2. CASE k.next = Len(Checks) BY <1>2, IdleCall DEF AfterCheck
<1>3. CASE k.next # Len(Checks)
  <2>1. k.next + 1 \in 1 .. Len(Checks) BY <1>1, <1>3, Places
  <2>2. "find" \in Points /\ 0 \in RowIds \cup {0} BY DEF Points
  <2>3. AfterCheck(k) = Checking("find", 0, k.next + 1) BY <1>3 DEF AfterCheck
  <2>4. Checking("find", 0, k.next + 1) \in Call BY <2>1, <2>2, CheckingTyped
  <2> HIDE DEF k
  <2> QED BY <2>3, <2>4, CheckingFields, FreeCall DEF k
<1> QED BY <1>2, <1>3

LEMMA InitiateChecksKeeps == ASSUME Inv, NEW c \in Calls, InitiateChecks(c) PROVE Inv'
BY GoesOnFreely DEF InitiateChecks, Start, Points

LEMMA FindCheckKeeps == ASSUME Inv, NEW c \in Calls, FindCheck(c) PROVE Inv'
<1> DEFINE k == call[c]
           new == Checking("create", 0, k.next)
<1>1. k.next \in 1 .. Len(Checks) BY CallTyped DEF Call
<1>2. OnlyCall /\ (Go(c, AfterCheck(k)) \/ Go(c, new)) BY DEF FindCheck
<1>3. new \in Call BY <1>1, CheckingTyped DEF Points
<1>4. Carries(new, agency, seen, signers) BY CheckingFields, FreeCall
<1>5. AfterCheck(k) \in Call /\ Carries(AfterCheck(k), agency, seen, signers) BY AfterCheckCall
<1> HIDE DEF new, k
<1> QED BY <1>2, <1>3, <1>4, <1>5, QuietStep

LEMMA ResultStatus ==
    ASSUME NEW r \in RowIds, NEW result \in ResultsFor(r)
    PROVE  DIGIO_STATUS_MAP[result] \in Terminal
BY ApplicationAssumption DEF ResultsFor, DIGIO_STATUS_MAP, Terminal

LEMMA RecordingCall ==
    ASSUME NEW op \in {"sign", "callback", "override"}, NEW r \in RowIds, NEW status \in Terminal
    PROVE  /\ Recording(op, r, status) \in Call
           /\ \A ag, sn, sg : Carries(Recording(op, r, status), ag, sn, sg)
<1>1. op \in DOMAIN Target \cup {"none", "initiate", "callback", "override", "send"} BY Operations
<1>2. Recording(op, r, status) \in Call BY <1>1, NewIsCall, Defaults, Places DEF Recording, Points
<1>3. Recording(op, r, status).at = "result" BY DEF Recording, NewCall
<1> QED BY <1>2, <1>3, FreeCall

LEMMA ReceiveCallbackKeeps == ASSUME Inv, NEW c \in Calls, ReceiveCallback(c) PROVE Inv'
<1> PICK r \in RowIds : \E result \in ResultsFor(r) :
        /\ OnlyCall
        /\ Go(c, Recording(IF check[r].checkType = "ESIGN" THEN "sign" ELSE "callback",
                           r, DIGIO_STATUS_MAP[result]))
  BY DEF ReceiveCallback, Start
<1> PICK result \in ResultsFor(r) :
        /\ OnlyCall
        /\ Go(c, Recording(IF check[r].checkType = "ESIGN" THEN "sign" ELSE "callback",
                           r, DIGIO_STATUS_MAP[result]))
  OBVIOUS
<1> DEFINE op == IF check[r].checkType = "ESIGN" THEN "sign" ELSE "callback"
<1>1. op \in {"sign", "callback", "override"} /\ DIGIO_STATUS_MAP[result] \in Terminal BY ResultStatus
<1> HIDE DEF op
<1> QED BY <1>1, RecordingCall, QuietStep DEF op

LEMMA OverrideVerificationKeeps == ASSUME Inv, NEW c \in Calls, OverrideVerification(c) PROVE Inv'
<1> PICK r \in RowIds : \E result \in ResultsFor(r) :
        OnlyCall /\ Go(c, Recording("override", r, DIGIO_STATUS_MAP[result]))
  BY DEF OverrideVerification, Start
<1> QED BY ResultStatus, RecordingCall, QuietStep

LEMMA LoseResultKeeps == ASSUME Inv, NEW c \in Calls, LoseResult(c) PROVE Inv'
BY StopsKeep DEF LoseResult

LEMMA WeighKeeps == ASSUME Inv, NEW c \in Calls, Weigh(c) PROVE Inv'
BY StopsKeep, GoesOnFreely, Operations DEF Weigh, Points

\* An evaluation that goes on to its transition relies on no earlier step.
LEMMA EvaluateReads == At("evaluate", "read") \in Call
                       /\ \A ag, sn, sg : Carries(At("evaluate", "read"), ag, sn, sg)
<1>1. At("evaluate", "read") \in Call BY PlainCall, Operations DEF Points
<1> QED BY <1>1, AtFields, Operations DEF Carries

LEMMA CountKeeps == ASSUME Inv, NEW c \in Calls, Count(c) PROVE Inv'
<1>1. OnlyCall /\ (Go(c, Idle) \/ Go(c, At("evaluate", "read"))) BY DEF Count
<1> QED BY <1>1, StopsKeep, EvaluateReads, QuietStep

LEMMA SetCommercialConfigKeeps == ASSUME Inv, NEW c \in Calls, SetCommercialConfig(c) PROVE Inv'
<1> DEFINE new == Configuring("ensure", state)
<1>1. new \in Call BY CallTyped, NewIsCall, Defaults, Places, Operations DEF Configuring, Points
<1>2. new.at = "ensure" BY DEF Configuring, NewCall
<1>3. Go(c, new) /\ OnlyCall BY DEF SetCommercialConfig, Start
<1> HIDE DEF new
<1> QED BY <1>1, <1>2, <1>3, FreeCall, QuietStep

LEMMA GenerateAgreementKeeps == ASSUME Inv, NEW c \in Calls, GenerateAgreement(c) PROVE Inv'
BY GoesOnFreely DEF GenerateAgreement, Start, Points

LEMMA ActivateIfSignedKeeps == ASSUME Inv, NEW c \in Calls, ActivateIfSigned(c) PROVE Inv'
<1>1. signers # {} BY DEF ActivateIfSigned, LatestIsSigned, RowsOf, Inv, SignedRows
<1>2. At("activate", "activate") \in Call BY PlainCall, Operations DEF Points
<1>3. Carries(At("activate", "activate"), agency, seen, signers)
  BY <1>1, AtFields DEF Carries, Signed
<1> QED BY <1>2, <1>3, QuietStep DEF ActivateIfSigned, Start

LEMMA LoadForActivationKeeps == ASSUME Inv, NEW c \in Calls, LoadForActivation(c) PROVE Inv'
<1> DEFINE op == call[c].op
<1>1. /\ op \in {"sign", "activate"} /\ Signed(seen, signers)
      /\ Go(c, AfterLoad(op)) /\ OnlyCall
  BY CallTyped DEF LoadForActivation, Carries
<1>2. op \in DOMAIN Target BY <1>1, Operations
<1>3. CASE agency.created /\ state = "COMMERCIAL_CONFIGURATION"
  <2>1. AfterLoad(op) = At(op, "read") BY <1>3 DEF AfterLoad
  <2>2. At(op, "read") \in Call BY <1>2, PlainCall DEF Points
  <2>3. Carries(At(op, "read"), agency, seen, signers) BY <1>1, <1>2, AtFields DEF Carries
  <2> QED BY <1>1, <2>1, <2>2, <2>3, QuietStep
<1>4. CASE agency.created /\ state = "ACTIVE"
  <2>1. AfterLoad(op) = At("activate", "stamp") BY <1>4 DEF AfterLoad
  <2>2. At("activate", "stamp") \in Call BY PlainCall, Operations DEF Points
  <2>3. "ACTIVE" \in seen BY <1>4, CallTyped
  <2>4. HasTerms(agency) BY <2>3 DEF Inv, Origin, NoStageSkipped, AgencyFollows, HasTerms
  <2>5. Carries(At("activate", "stamp"), agency, seen, signers)
    BY <1>1, <2>3, <2>4, AtFields DEF Carries
  <2> QED BY <1>1, <2>1, <2>2, <2>5, QuietStep
<1>5. CASE ~(agency.created /\ state \in {"COMMERCIAL_CONFIGURATION", "ACTIVE"})
  <2>1. AfterLoad(op) = Idle BY <1>5 DEF AfterLoad
  <2> QED BY <1>1, <2>1, StopsKeep
<1> QED BY <1>3, <1>4, <1>5

-----------------------------------------------------------------------------
(* Steps that write checks.                                                *)

LEMMA RowTyped ==
    ASSUME NEW type \in CheckTypes \cup {"ESIGN", "none", "deleted"},
           NEW status \in {"PENDING", "IN_PROGRESS"}, NEW ref \in BOOLEAN
    PROVE  NewRow(type, status, ref) \in Row /\ NewRow(type, status, ref).status # "PASSED"
BY DEF NewRow, Row

\* One row is written, and its agreement is not signed by that.
LEMMA OneCheck ==
    ASSUME Inv, NEW c \in Calls, NEW new \in Call, Go(c, new),
           UNCHANGED <<state, agency, seen, signers, fresh, strays, died>>,
           Carries(new, agency, seen, signers),
           NEW r \in RowIds, NEW row \in Row, row.status # "PASSED",
           check' = [check EXCEPT ![r] = row]
    PROVE  Inv'
<1>1. check \in [RowIds -> Row] BY DEF Inv, TypeOK
<1>2. check' \in [RowIds -> Row] BY <1>1
<1>3. \A q \in RowIds : check'[q] = IF q = r THEN row ELSE check[q] BY <1>1
<1> QED BY <1>2, <1>3, CheckStep

LEMMA DeleteChecksKeeps == ASSUME Inv, NEW c \in Calls, DeleteChecks(c) PROVE Inv'
<1> DEFINE none == NewRow("deleted", "PENDING", FALSE)
<1>1. none \in Row /\ none.status # "PASSED" BY RowTyped
<1>2. check' = [r \in RowIds |-> IF check[r].checkType \in call[c].named THEN none ELSE check[r]]
  BY DEF DeleteChecks
<1> HIDE DEF none
<1>3. check' \in [RowIds -> Row] BY <1>1, <1>2, CallTyped
<1>4. \A r \in RowIds : check'[r] = none \/ check'[r] = check[r] BY <1>2
<1>5. \A r \in RowIds : check'[r].checkType = "ESIGN" /\ check'[r].status = "PASSED"
          => check[r].checkType = "ESIGN" /\ check[r].status = "PASSED"
  BY <1>1, <1>4
<1>6. At("initiate", "find") \in Call BY PlainCall DEF Points
<1>7. Carries(At("initiate", "find"), agency, seen, signers) BY AtFields, FreeCall
<1>8. /\ Go(c, At("initiate", "find"))
      /\ UNCHANGED <<state, agency, seen, signers, fresh, strays, died>>
  BY DEF DeleteChecks
<1> QED BY <1>3, <1>5, <1>6, <1>7, <1>8, CheckStep

LEMMA CreateCheckKeeps == ASSUME Inv, NEW c \in Calls, CreateCheck(c) PROVE Inv'
<1> DEFINE k == call[c]
           row == NewRow(Checks[k.next], "PENDING", FALSE)
<1> PICK r \in RowIds : check' = [check EXCEPT ![r] = row] /\ Go(c, Checking("initiate", r, k.next))
  BY DEF CreateCheck
<1>1. k.next \in 1 .. Len(Checks) BY CallTyped DEF Call
<1>2. Checks[k.next] \in CheckTypes BY <1>1, ApplicationAssumption
<1>3. row \in Row /\ row.status # "PASSED" BY <1>2, RowTyped
<1>4. Checking("initiate", r, k.next) \in Call BY <1>1, CheckingTyped DEF Points
<1>5. Carries(Checking("initiate", r, k.next), agency, seen, signers) BY CheckingFields, FreeCall
<1>6. UNCHANGED <<state, agency, seen, signers, fresh, strays, died>> BY DEF CreateCheck
<1> HIDE DEF row, k
<1> QED BY <1>3, <1>4, <1>5, <1>6, OneCheck

LEMMA InitiateCheckKeeps == ASSUME Inv, NEW c \in Calls, InitiateCheck(c) PROVE Inv'
<1> DEFINE k == call[c]
<1>1. /\ AfterCheck(k) \in Call /\ Carries(AfterCheck(k), agency, seen, signers)
      /\ Go(c, AfterCheck(k))
  BY AfterCheckCall DEF InitiateCheck
<1>2. UNCHANGED <<state, agency, seen, signers, fresh, strays, died>> BY DEF InitiateCheck
<1>3. CASE UNCHANGED check BY <1>1, <1>2, <1>3, CallTyped, CheckStep
<1>4. CASE check' # check
  <2> DEFINE row == [check[k.row] EXCEPT !.status = "IN_PROGRESS", !.providerRef = TRUE]
  <2>1. Live(k.row) /\ check' = [check EXCEPT ![k.row] = row] BY <1>4 DEF InitiateCheck
  <2>2. k.row \in RowIds \/ k.row = 0 BY CallTyped DEF Call
  <2>3. CASE k.row \in RowIds
    <3>1. check[k.row] \in Row BY <2>3, CallTyped
    <3>2. row \in Row /\ row.status # "PASSED" BY <3>1 DEF Row
    <3> HIDE DEF row, k
    <3> QED BY <1>1, <1>2, <2>1, <2>3, <3>2, OneCheck
  <2>4. CASE k.row = 0
    <3>1. check \in [RowIds -> Row] /\ 0 \notin RowIds BY CallTyped DEF RowIds
    <3>2. check' = check BY <2>1, <2>4, <3>1
    <3> QED BY <1>4, <3>2
  <2> QED BY <2>2, <2>3, <2>4
<1> QED BY <1>3, <1>4

LEMMA SendAgreementKeeps == ASSUME Inv, NEW c \in Calls, SendAgreement(c) PROVE Inv'
<1> DEFINE row == NewRow("ESIGN", "IN_PROGRESS", TRUE)
<1>1. Go(c, Idle) /\ UNCHANGED <<state, agency, seen, signers, fresh, strays, died>>
  BY DEF SendAgreement
<1>2. row \in Row /\ row.status # "PASSED" BY RowTyped
<1>3. UNCHANGED check \/ \E r \in RowIds : check' = [check EXCEPT ![r] = row] BY DEF SendAgreement
<1> HIDE DEF row
<1>4. CASE UNCHANGED check BY <1>1, <1>4, IdleCall, CallTyped, CheckStep
<1> QED BY <1>1, <1>2, <1>3, <1>4, IdleCall, OneCheck

-----------------------------------------------------------------------------
(* Steps that write the agency.                                            *)

LEMMA FlagKeeps == ASSUME Inv, NEW c \in Calls, Flag(c) PROVE Inv'
<1> DEFINE status == IF call[c].op = "suspend" THEN "SUSPENDED" ELSE "ACTIVE"
<1>1. /\ agency' = [agency EXCEPT !.status = status] /\ Go(c, Idle)
      /\ UNCHANGED <<state, check, seen, signers, fresh, strays, died>>
  BY DEF Flag
<1>2. agency \in Agency /\ status \in {"ACTIVE", "SUSPENDED"} BY CallTyped
<1> HIDE DEF status
<1>3. /\ agency' \in Agency /\ agency'.created = agency.created /\ agency'.terms = agency.terms
      /\ agency'.activated = agency.activated /\ agency'.user = agency.user
  BY <1>1, <1>2 DEF Agency
<1>4. Grows /\ AgencyFollows' BY <1>1, <1>3 DEF Grows, Inv, AgencyFollows
<1> QED BY <1>1, <1>3, <1>4, IdleCall, AgencyStep

LEMMA EnsureAgencyKeeps == ASSUME Inv, NEW c \in Calls, EnsureAgency(c) PROVE Inv'
<1> DEFINE new == Configuring("terms", call[c].from)
<1>1. /\ agency' = [agency EXCEPT !.created = TRUE] /\ Go(c, new)
      /\ UNCHANGED <<state, check, seen, signers, fresh, strays, died>>
  BY DEF EnsureAgency
<1>2. agency \in Agency BY CallTyped
<1>3. /\ agency' \in Agency /\ agency'.created /\ agency'.terms = agency.terms
      /\ agency'.activated = agency.activated /\ agency'.user = agency.user
  BY <1>1, <1>2 DEF Agency
<1>4. Grows /\ AgencyFollows' BY <1>1, <1>3 DEF Grows, Inv, AgencyFollows
<1>5. call[c].from \in Path!States BY CallTyped DEF Call
<1>6. new \in Call BY <1>5, NewIsCall, Defaults, Places, Operations DEF Configuring, Points
<1>7. new.at = "terms" BY DEF Configuring, NewCall
<1>8. Carries(new, agency', seen, signers) BY <1>3, <1>7 DEF Carries
<1> HIDE DEF new
<1> QED BY <1>1, <1>3, <1>4, <1>6, <1>8, AgencyStep

LEMMA SetTermsKeeps == ASSUME Inv, NEW c \in Calls, SetTerms(c) PROVE Inv'
<1>1. /\ agency' = [agency EXCEPT !.terms = TRUE] /\ Go(c, AfterTerms(call[c]))
      /\ UNCHANGED <<state, check, seen, signers, fresh, strays, died>>
  BY DEF SetTerms
<1>2. agency \in Agency /\ agency.created BY CallTyped DEF SetTerms, Carries
<1>3. /\ agency' \in Agency /\ agency'.created /\ agency'.terms
      /\ agency'.activated = agency.activated /\ agency'.user = agency.user
  BY <1>1, <1>2 DEF Agency
<1>4. Grows /\ AgencyFollows' BY <1>1, <1>3 DEF Grows, Inv, AgencyFollows
<1>5. CASE AfterTerms(call[c]) = Idle BY <1>1, <1>3, <1>4, <1>5, IdleCall, AgencyStep
<1>6. CASE AfterTerms(call[c]) = At("terms", "read")
  <2>1. At("terms", "read") \in Call BY PlainCall, Operations DEF Points
  <2>2. Carries(At("terms", "read"), agency', seen, signers)
    BY <1>3, AtFields, Operations DEF Carries, HasTerms
  <2> QED BY <1>1, <1>3, <1>4, <1>6, <2>1, <2>2, AgencyStep
<1> QED BY <1>5, <1>6 DEF AfterTerms

LEMMA StampKeeps == ASSUME Inv, NEW c \in Calls, Stamp(c) PROVE Inv'
<1>1. /\ agency' = [agency EXCEPT !.status = "ACTIVE", !.activated = TRUE]
      /\ Go(c, At("activate", "user"))
      /\ UNCHANGED <<state, check, seen, signers, fresh, strays, died>>
  BY DEF Stamp
<1>2. /\ agency \in Agency /\ agency.created /\ agency.terms
      /\ "ACTIVE" \in seen /\ ("DRAFT" \in seen => signers # {})
  BY CallTyped DEF Stamp, Carries, HasTerms, Signed
<1>3. /\ agency' \in Agency /\ agency'.created /\ agency'.terms
      /\ agency'.activated /\ agency'.user = agency.user
  BY <1>1, <1>2 DEF Agency
<1>4. Grows /\ AgencyFollows' BY <1>1, <1>2, <1>3 DEF Grows, Inv, AgencyFollows
<1>5. At("activate", "user") \in Call BY PlainCall, Operations DEF Points
<1>6. Carries(At("activate", "user"), agency', seen, signers) BY <1>3, AtFields DEF Carries
<1> QED BY <1>1, <1>3, <1>4, <1>5, <1>6, AgencyStep

LEMMA EnsureUserKeeps == ASSUME Inv, NEW c \in Calls, EnsureUser(c) PROVE Inv'
<1>1. /\ agency' = [agency EXCEPT !.user = TRUE] /\ Go(c, Idle)
      /\ UNCHANGED <<state, check, seen, signers, fresh, strays, died>>
  BY DEF EnsureUser
<1>2. agency \in Agency /\ agency.activated BY CallTyped DEF EnsureUser, Carries
<1>3. /\ agency' \in Agency /\ agency'.created = agency.created /\ agency'.terms = agency.terms
      /\ agency'.activated
  BY <1>1, <1>2 DEF Agency
<1>4. Grows /\ AgencyFollows' BY <1>1, <1>2, <1>3 DEF Grows, Inv, AgencyFollows
<1> QED BY <1>1, <1>3, <1>4, IdleCall, AgencyStep

-----------------------------------------------------------------------------
(* The transition, the result and the stop.                                *)

LEMMA AfterMoveCall ==
    ASSUME Inv, NEW c \in Calls, call[c].op \in DOMAIN Target
    PROVE  LET new == AfterMove(call[c]) IN
           /\ new \in Call
           /\ new.at \in {"idle", "find", "delete", "flag", "stamp"}
           /\ new.at = "stamp" => call[c].op \in {"sign", "activate"}
<1> DEFINE k == call[c]
<1>1. k.op \in DOMAIN Target \cup {"none", "initiate", "callback", "override", "send"} BY Operations
<1>2. CASE k.op = "submit"
  <2>1. AfterMove(k) = At("initiate", "find") BY <1>2 DEF AfterMove
  <2> QED BY <2>1, AtFields, PlainCall DEF Points
<1>3. CASE k.op = "resubmit" /\ k.named # {}
  <2> DEFINE new == NewCall("initiate", "delete", "DRAFT", 0, "PASSED", k.named, 1)
  <2>1. AfterMove(k) = new BY <1>3 DEF AfterMove
  <2>2. k.named \in SUBSET (CheckTypes \cup {"ESIGN"}) BY CallTyped DEF Call
  <2>3. new \in Call BY <2>2, NewIsCall, Defaults, Places DEF Points
  <2>4. new.at = "delete" BY DEF NewCall
  <2> QED BY <2>1, <2>3, <2>4
<1>4. CASE k.op \in {"sign", "activate"}
  <2>1. AfterMove(k) = At("activate", "stamp") BY <1>4 DEF AfterMove
  <2>2. "activate" \in DOMAIN Target /\ "stamp" \in Points BY Operations DEF Points
  <2> QED BY <1>4, <2>1, <2>2, AtFields, PlainCall
<1>5. CASE k.op \in {"suspend", "reactivate"}
  <2>1. AfterMove(k) = At(k.op, "flag") BY <1>5 DEF AfterMove
  <2>2. At(k.op, "flag") \in Call BY <1>1, PlainCall DEF Points
  <2> QED BY <2>1, <2>2, AtFields
<1>6. CASE k.op \notin {"submit", "sign", "activate", "suspend", "reactivate"}
           /\ ~(k.op = "resubmit" /\ k.named # {})
  <2>1. AfterMove(k) = Idle BY <1>6 DEF AfterMove
  <2> QED BY <2>1, IdleCall, AtFields DEF Idle
<1> QED BY <1>2, <1>3, <1>4, <1>5, <1>6

LEMMA MoveKeeps == ASSUME Inv, NEW c \in Calls, Move(c) PROVE Inv'
<1> DEFINE k == call[c]
           to == Target[k.op]
           new == AfterMove(k)
<1>1. /\ k.at = "move" /\ state' = to /\ seen' = seen \cup {to}
      /\ fresh' = FALSE /\ strays' \in {strays, strays + 1} /\ Go(c, new)
      /\ UNCHANGED <<check, agency, signers, died>>
  BY DEF Move
<1>2. /\ k.op \in DOMAIN Target /\ k.from \in seen /\ Path!FindTransition(k.from, to) # {}
      /\ k.op = "terms" => HasTerms(agency)
      /\ k.op \in {"sign", "activate"} => Signed(seen, signers)
  BY <1>1, CallTyped DEF Carries
<1>3. to \in Path!States /\ to # "DRAFT" BY <1>2, Targets
<1>4. to = "COMMERCIAL_CONFIGURATION" => k.op = "terms" BY <1>2, Operations DEF Target
<1>5. k.op \in {"sign", "activate"} => to = "ACTIVE" BY DEF Target
<1>6. /\ new \in Call /\ new.at \in {"idle", "find", "delete", "flag", "stamp"}
      /\ new.at = "stamp" => k.op \in {"sign", "activate"}
  BY <1>2, AfterMoveCall
<1>7. /\ to = "REVIEW" => k.from = "VERIFICATION"
      /\ to \in {"APPROVED", "REJECTED"} => k.from = "REVIEW"
      /\ to = "COMMERCIAL_CONFIGURATION" => k.from = "APPROVED"
      /\ to = "ACTIVE" => k.from \in {"COMMERCIAL_CONFIGURATION", "SUSPENDED"}
      /\ to = "SUSPENDED" => k.from = "ACTIVE"
  BY <1>2, Predecessors
<1> HIDE DEF to, new, k
<1>8. NoStageSkipped' BY <1>1, <1>2, <1>3, <1>7 DEF Inv, NoStageSkipped
<1>9. Grows BY <1>1, <1>3 DEF Grows
<1>10. AgencyFollows' BY <1>1, <1>2, <1>3, <1>4 DEF Inv, AgencyFollows, HasTerms
<1>11. (state \in seen)' /\ Origin' /\ SignedRows' BY <1>1 DEF Inv, Origin, SignedRows
<1>12. Carries(new, agency', seen', signers')
  <2>1. new.at = "stamp" => "ACTIVE" \in seen' BY <1>1, <1>5, <1>6
  <2>2. new.at = "stamp" => HasTerms(agency')
    BY <2>1, <1>8, <1>10, <1>11 DEF NoStageSkipped, AgencyFollows, Origin, HasTerms
  <2>3. new.at = "stamp" => Signed(seen', signers') BY <1>1, <1>2, <1>3, <1>6 DEF Signed
  <2> QED BY <1>6, <2>1, <2>2, <2>3 DEF Carries
<1>13. Carried' /\ call' \in [Calls -> Call] BY <1>1, <1>6, <1>9, <1>12, CallsStep
<1>14. TypeOK'
  <2>1. TypeOK BY DEF Inv
  <2>2. state' \in Path!States /\ seen' \subseteq Path!States BY <1>1, <1>3, <2>1 DEF TypeOK
  <2>3. strays' \in Nat BY <1>1, <2>1 DEF TypeOK
  <2>4. fresh' \in BOOLEAN BY <1>1
  <2>5. check' \in [RowIds -> Row] /\ agency' \in Agency BY <1>1, <2>1 DEF TypeOK
  <2>6. signers' \subseteq {"DIGIO", "STAFF"} /\ died' \in BOOLEAN BY <1>1, <2>1 DEF TypeOK
  <2> QED BY <1>13, <2>2, <2>3, <2>4, <2>5, <2>6 DEF TypeOK
<1> QED BY <1>8, <1>10, <1>11, <1>13, <1>14 DEF Inv

LEMMA RecordResultKeeps == ASSUME Inv, Callbacks, NEW c \in Calls, RecordResult(c) PROVE Inv'
<1> DEFINE k == call[c]
           new == AfterResult(k)
           row == Decided(check[k.row], k.status)
<1>1. /\ k.at = "result" /\ Live(k.row)
      /\ check' = [check EXCEPT ![k.row] = row] /\ Go(c, new)
      /\ signers' = IF check[k.row].checkType = "ESIGN" /\ k.status = "PASSED"
                       THEN signers \cup {IF k.op = "override" THEN "STAFF" ELSE "DIGIO"} ELSE signers
      /\ fresh' = (fresh \/ (state = "VERIFICATION" /\ check[k.row].checkType # "ESIGN"))
      /\ UNCHANGED <<state, agency, seen, strays, died>>
  BY DEF RecordResult
<1>2. k.status \in Terminal /\ (k.row \in RowIds \/ k.row = 0) BY CallTyped DEF Call
<1>3. Grows BY <1>1 DEF Grows
<1>4. check \in [RowIds -> Row] /\ call \in [Calls -> Call] /\ TypeOK BY DEF Inv, TypeOK
<1>5. k.row \in RowIds => row \in Row BY <1>2, <1>4 DEF Decided, Row
<1>6. k.row \in RowIds => row.checkType = check[k.row].checkType /\ row.status = k.status
  BY <1>4 DEF Decided, Row
<1> HIDE DEF row
<1>7. check' \in [RowIds -> Row] BY <1>1, <1>4, <1>5
<1>8. \A r \in RowIds : check'[r] = IF r = k.row THEN row ELSE check[r] BY <1>1, <1>4
<1>9. SignedRows' BY <1>1, <1>6, <1>8 DEF Inv, SignedRows
<1>10. new \in Call /\ Carries(new, agency', seen', signers')
  <2>1. CASE k.op # "sign"
    <3>1. new = At("evaluate", "weigh") BY <2>1 DEF AfterResult
    <3>2. "evaluate" \in DOMAIN Target /\ "weigh" \in Points BY Operations DEF Points
    <3>3. new \in Call BY <3>1, <3>2, PlainCall
    <3>4. new.at = "weigh" BY <3>1, AtFields
    <3> QED BY <3>3, <3>4, FreeCall
  <2>2. CASE k.op = "sign" /\ k.status = "PASSED"
    <3>1. new = At("sign", "activate") BY <2>2 DEF AfterResult
    <3>2. check[k.row].checkType = "ESIGN" BY <1>1, <2>2 DEF Callbacks, Brings, Live
    <3>3. signers' # {} BY <1>1, <2>2, <3>2
    <3>4. At("sign", "activate") \in Call BY PlainCall, Operations DEF Points
    <3> QED BY <3>1, <3>3, <3>4, AtFields DEF Carries, Signed
  <2>3. CASE k.op = "sign" /\ k.status # "PASSED"
    <3>1. new = Idle BY <2>3 DEF AfterResult
    <3> QED BY <3>1, IdleCall
  <2> QED BY <2>1, <2>2, <2>3
<1> HIDE DEF new, k
<1>11. Carried' /\ call' \in [Calls -> Call] BY <1>1, <1>3, <1>10, CallsStep
<1>12. TypeOK'
  <2>1. signers' \subseteq {"DIGIO", "STAFF"} /\ fresh' \in BOOLEAN BY <1>1, <1>4 DEF TypeOK
  <2> QED BY <1>1, <1>4, <1>7, <1>11, <2>1 DEF TypeOK
<1>13. NoStageSkipped' BY <1>1 DEF Inv, NoStageSkipped
<1>14. AgencyFollows' BY <1>1, <1>3 DEF Inv, AgencyFollows, Grows
<1>15. (state \in seen)' /\ Origin' BY <1>1 DEF Inv, Origin
<1> QED BY <1>9, <1>11, <1>12, <1>13, <1>14, <1>15 DEF Inv

LEMMA DieKeeps == ASSUME Inv, NEW c \in Calls, Die(c) PROVE Inv'
<1>1. Go(c, Idle) /\ died' = TRUE /\ UNCHANGED <<state, check, agency, seen, signers, fresh, strays>>
  BY DEF Die
<1>2. Grows BY <1>1 DEF Grows
<1>3. Carried' /\ call' \in [Calls -> Call] BY <1>1, <1>2, IdleCall, CallsStep
<1>4. TypeOK' BY <1>1, <1>3 DEF Inv, TypeOK
<1>5. NoStageSkipped' /\ AgencyFollows' BY <1>1 DEF Inv, NoStageSkipped, AgencyFollows
<1>6. (state \in seen)' /\ Origin' /\ SignedRows' BY <1>1 DEF Inv, Origin, SignedRows
<1> QED BY <1>3, <1>4, <1>5, <1>6 DEF Inv

-----------------------------------------------------------------------------
(* Results of agreements come to agreements.                               *)

\* No row of an agreement, or of a check, becomes one of something else.
KindsStay ==
    \A r \in RowIds :
        \A kind \in {{"ESIGN", "deleted"}, CheckTypes \cup {"deleted"}} :
            check[r].checkType \in kind => check'[r].checkType \in kind

LEMMA BringsStep ==
    ASSUME Inv, Callbacks, NEW c \in Calls, NEW new, Go(c, new), Brings(new, check'), KindsStay
    PROVE  Callbacks'
<1> SUFFICES ASSUME NEW d \in Calls PROVE Brings(call'[d], check') BY DEF Callbacks
<1>1. call \in [Calls -> Call] BY DEF Inv, TypeOK
<1>2. CASE d = c BY <1>1, <1>2 DEF Go
<1>3. CASE d # c
  <2>1. call'[d] = call[d] /\ Brings(call[d], check) BY <1>1, <1>3 DEF Go, Callbacks
  <2> QED BY <2>1 DEF Brings, KindsStay
<1> QED BY <1>2, <1>3

LEMMA MovingFields ==
    \A op, from, named :
        /\ Moving(op, from, named).at = "move" /\ Moving(op, from, named).op = op
        /\ Moving(op, from, named).named = named
BY DEF Moving, NewCall

LEMMA InitHasNoCallbacks == Init => Callbacks
BY AtFields DEF Init, Callbacks, Brings, Idle

\* A call that has gone on to anything but a result.
LEMMA NotAResult == \A k, rows : k.at # "result" => Brings(k, rows)
BY DEF Brings

LEMMA IdleFields == Idle.at = "idle"
BY AtFields DEF Idle

LEMMA AfterCheckFields == \A k : AfterCheck(k).at \in {"idle", "find"}
BY IdleFields, CheckingFields DEF AfterCheck

LEMMA CallbacksKept == ASSUME Inv, Callbacks, Next PROVE Callbacks'
<1> PICK c \in Calls :
        \/ Submit(c) \/ Approve(c) \/ Reject(c) \/ RequestResubmission(c)
        \/ SuspendAgency(c) \/ ReactivateAgency(c) \/ Read(c) \/ Move(c) \/ Flag(c)
        \/ InitiateChecks(c) \/ DeleteChecks(c) \/ FindCheck(c) \/ CreateCheck(c) \/ InitiateCheck(c)
        \/ ReceiveCallback(c) \/ OverrideVerification(c) \/ RecordResult(c) \/ LoseResult(c)
        \/ Weigh(c) \/ Count(c)
        \/ SetCommercialConfig(c) \/ EnsureAgency(c) \/ SetTerms(c)
        \/ GenerateAgreement(c) \/ SendAgreement(c) \/ ActivateIfSigned(c)
        \/ LoadForActivation(c) \/ Stamp(c) \/ EnsureUser(c) \/ Die(c)
  BY DEF Next
<1> DEFINE Elsewhere == \E new : Go(c, new) /\ new.at # "result"
<1>1. ASSUME Elsewhere, UNCHANGED check PROVE Callbacks'
  BY <1>1, BringsStep, NotAResult DEF KindsStay
<1>2. ASSUME Elsewhere, KindsStay PROVE Callbacks'
  BY <1>2, BringsStep, NotAResult
<1>3. CASE Submit(c) \/ Approve(c) \/ Reject(c) \/ RequestResubmission(c)
           \/ SuspendAgency(c) \/ ReactivateAgency(c)
  <2>1. \E op, named : Go(c, Moving(op, state, named)) /\ UNCHANGED check
    BY <1>3 DEF Submit, Approve, Reject, RequestResubmission, SuspendAgency, ReactivateAgency,
                Ask, Start, OnlyCall
  <2> QED BY <1>1, <2>1, MovingFields
<1>4. CASE Read(c)
  <2>1. /\ Go(c, Moving(call[c].op, state, {})) \/ Go(c, Idle)
        /\ UNCHANGED check
    BY <1>4 DEF Read, OnlyCall
  <2> QED BY <1>1, <2>1, MovingFields, IdleFields
<1>5. CASE Move(c)
  <2>1. Go(c, AfterMove(call[c])) /\ UNCHANGED check BY <1>5 DEF Move
  <2>2. call[c].op \in DOMAIN Target BY <1>5, CallTyped DEF Move, Carries
  <2>3. AfterMove(call[c]).at # "result" BY <2>2, AfterMoveCall
  <2> QED BY <1>1, <2>1, <2>3
<1>6. CASE Flag(c) \/ LoseResult(c) \/ EnsureUser(c) \/ Die(c)
  <2>1. Go(c, Idle) /\ UNCHANGED check BY <1>6 DEF Flag, LoseResult, EnsureUser, Die, OnlyCall
  <2> QED BY <1>1, <2>1, IdleFields
<1>7. CASE InitiateChecks(c) \/ GenerateAgreement(c) \/ ActivateIfSigned(c) \/ Stamp(c)
           \/ Weigh(c) \/ Count(c)
  <2>1. UNCHANGED check
    BY <1>7 DEF InitiateChecks, GenerateAgreement, ActivateIfSigned, Stamp, Weigh, Count, OnlyCall
  <2>2. \/ Go(c, Idle)
        \/ \E op, at : Go(c, At(op, at)) /\ at # "result"
    BY <1>7 DEF InitiateChecks, GenerateAgreement, ActivateIfSigned, Stamp, Weigh, Count, Start
  <2> QED BY <1>1, <2>1, <2>2, IdleFields, AtFields
<1>8. CASE DeleteChecks(c)
  <2>1. Go(c, At("initiate", "find")) BY <1>8 DEF DeleteChecks
  <2>2. KindsStay BY <1>8 DEF DeleteChecks, KindsStay, NewRow
  <2> QED BY <1>2, <2>1, <2>2, AtFields
<1>9. CASE FindCheck(c)
  <2>1. /\ Go(c, AfterCheck(call[c])) \/ Go(c, Checking("create", 0, call[c].next))
        /\ UNCHANGED check
    BY <1>9 DEF FindCheck, OnlyCall
  <2> QED BY <1>1, <2>1, AfterCheckFields, CheckingFields
<1>10. CASE CreateCheck(c) \/ SendAgreement(c)
  <2>1. UNCHANGED check \/ \E r \in RowIds : IsNext(r) /\ \E row : check' = [check EXCEPT ![r] = row]
    BY <1>10 DEF CreateCheck, SendAgreement
  <2>2. KindsStay BY <2>1, CallTyped DEF KindsStay, IsNext, CheckTypes
  <2>3. Go(c, Idle) \/ \E r, next : Go(c, Checking("initiate", r, next))
    BY <1>10 DEF CreateCheck, SendAgreement
  <2> QED BY <1>2, <2>2, <2>3, IdleFields, CheckingFields
<1>11. CASE InitiateCheck(c)
  <2>1. Go(c, AfterCheck(call[c])) BY <1>11 DEF InitiateCheck
  <2> DEFINE row == [check[call[c].row] EXCEPT !.status = "IN_PROGRESS", !.providerRef = TRUE]
  <2>2. UNCHANGED check \/ check' = [check EXCEPT ![call[c].row] = row] BY <1>11 DEF InitiateCheck
  <2>3. check \in [RowIds -> Row] BY CallTyped
  <2>4. call[c].row \in RowIds => row.checkType = check[call[c].row].checkType BY <2>3 DEF Row
  <2> HIDE DEF row
  <2>5. \A r \in RowIds : check'[r].checkType = check[r].checkType BY <2>2, <2>3, <2>4
  <2> QED BY <1>2, <2>1, <2>5, AfterCheckFields DEF KindsStay
<1>12. CASE ReceiveCallback(c) \/ OverrideVerification(c)
  <2>1. PICK r \in RowIds : \E status, op :
            /\ Go(c, Recording(op, r, status)) /\ UNCHANGED check
            /\ op \in {"sign", "callback", "override"}
            /\ op = "sign" => check[r].checkType = "ESIGN"
            /\ op = "callback" => Live(r) /\ check[r].checkType # "ESIGN"
    BY <1>12 DEF ReceiveCallback, OverrideVerification, Start, OnlyCall
  <2> PICK status, op : /\ Go(c, Recording(op, r, status)) /\ UNCHANGED check
                        /\ op \in {"sign", "callback", "override"}
                        /\ op = "sign" => check[r].checkType = "ESIGN"
                        /\ op = "callback" => Live(r) /\ check[r].checkType # "ESIGN"
    BY <2>1
  <2>3. op = "callback" => check[r].checkType \in CheckTypes BY CallTyped DEF Live, Row
  <2>2. Recording(op, r, status).row = r /\ Recording(op, r, status).op = op
    BY DEF Recording, NewCall
  <2>4. Brings(Recording(op, r, status), check') BY <2>2, <2>3 DEF Brings
  <2> QED BY <2>4, BringsStep DEF KindsStay
<1>13. CASE RecordResult(c)
  <2>1. /\ check' = [check EXCEPT ![call[c].row] = Decided(@, call[c].status)]
        /\ Go(c, AfterResult(call[c]))
    BY <1>13 DEF RecordResult
  <2>2. \A r \in RowIds : check'[r].checkType = check[r].checkType
    BY <2>1, CallTyped DEF Row, Decided
  <2>3. AfterResult(call[c]) = Idle \/ \E op, at : AfterResult(call[c]) = At(op, at) /\ at # "result"
    BY DEF AfterResult
  <2> QED BY <1>2, <2>1, <2>2, <2>3, IdleFields, AtFields DEF KindsStay
<1>14. CASE SetCommercialConfig(c) \/ EnsureAgency(c)
  <2>1. \E at, from : Go(c, Configuring(at, from)) /\ at # "result" /\ UNCHANGED check
    BY <1>14 DEF SetCommercialConfig, EnsureAgency, Start, OnlyCall
  <2>2. \A at, from : Configuring(at, from).at = at BY DEF Configuring, NewCall
  <2> QED BY <1>1, <2>1, <2>2
<1>15. CASE SetTerms(c)
  <2>1. Go(c, AfterTerms(call[c])) /\ UNCHANGED check BY <1>15 DEF SetTerms
  <2>2. AfterTerms(call[c]).at # "result" BY IdleFields, AtFields DEF AfterTerms
  <2> QED BY <1>1, <2>1, <2>2
<1>16. CASE LoadForActivation(c)
  <2>1. Go(c, AfterLoad(call[c].op)) /\ UNCHANGED check BY <1>16 DEF LoadForActivation, OnlyCall
  <2>2. AfterLoad(call[c].op).at # "result" BY IdleFields, AtFields DEF AfterLoad
  <2> QED BY <1>1, <2>1, <2>2
<1> QED BY <1>3, <1>4, <1>5, <1>6, <1>7, <1>8, <1>9, <1>10, <1>11, <1>12, <1>13, <1>14, <1>15, <1>16

-----------------------------------------------------------------------------
(* The invariant holds.                                                    *)

LEMMA StepKeeps == Inv /\ Callbacks /\ [Next]_vars => (Inv /\ Callbacks)'
<1> SUFFICES ASSUME Inv, Callbacks, [Next]_vars PROVE Inv' /\ Callbacks' OBVIOUS
<1>1. CASE Next
  <2>1. Callbacks' BY <1>1, CallbacksKept
  <2>2. ASSUME NEW c \in Calls,
               \/ Submit(c) \/ Approve(c) \/ Reject(c) \/ RequestResubmission(c)
               \/ SuspendAgency(c) \/ ReactivateAgency(c) \/ Read(c) \/ Move(c) \/ Flag(c)
        PROVE  Inv'
    BY <2>2, RequestsKeep, ReadKeeps, MoveKeeps, FlagKeeps
  <2>3. ASSUME NEW c \in Calls,
               \/ InitiateChecks(c) \/ DeleteChecks(c) \/ FindCheck(c) \/ CreateCheck(c) \/ InitiateCheck(c)
               \/ ReceiveCallback(c) \/ OverrideVerification(c) \/ RecordResult(c) \/ LoseResult(c)
               \/ Weigh(c) \/ Count(c)
        PROVE  Inv'
    BY <2>3, InitiateChecksKeeps, DeleteChecksKeeps, FindCheckKeeps, CreateCheckKeeps,
       InitiateCheckKeeps, ReceiveCallbackKeeps, OverrideVerificationKeeps, RecordResultKeeps,
       LoseResultKeeps, WeighKeeps, CountKeeps
  <2>4. ASSUME NEW c \in Calls,
               \/ SetCommercialConfig(c) \/ EnsureAgency(c) \/ SetTerms(c)
               \/ GenerateAgreement(c) \/ SendAgreement(c) \/ ActivateIfSigned(c)
               \/ LoadForActivation(c) \/ Stamp(c) \/ EnsureUser(c) \/ Die(c)
        PROVE  Inv'
    BY <2>4, SetCommercialConfigKeeps, EnsureAgencyKeeps, SetTermsKeeps, GenerateAgreementKeeps,
       SendAgreementKeeps, ActivateIfSignedKeeps, LoadForActivationKeeps, StampKeeps,
       EnsureUserKeeps, DieKeeps
  <2> QED BY <1>1, <2>1, <2>2, <2>3, <2>4 DEF Next
<1>2. CASE UNCHANGED vars
  <2>1. Callbacks' BY <1>2 DEF vars, Callbacks
  <2>2. TypeOK' /\ Carried' BY <1>2 DEF vars, Inv, TypeOK, Carried
  <2>3. NoStageSkipped' /\ AgencyFollows' BY <1>2 DEF vars, Inv, NoStageSkipped, AgencyFollows
  <2>4. (state \in seen)' /\ Origin' /\ SignedRows' BY <1>2 DEF vars, Inv, Origin, SignedRows
  <2> QED BY <2>1, <2>2, <2>3, <2>4 DEF Inv
<1> QED BY <1>1, <1>2

LEMMA Invariance == Spec => [](Inv /\ Callbacks)
BY InitHolds, InitHasNoCallbacks, StepKeeps, PTL DEF Spec

-----------------------------------------------------------------------------
\* No step of any request takes the application, its checks, its agency or the
\* request itself out of its type.
THEOREM TypeCorrect == Spec => []TypeOK
<1>1. Inv => TypeOK BY DEF Inv
<1> QED BY <1>1, Invariance, PTL

\* However many requests and callbacks overlap, die or validate a state that has
\* changed before they write, a drafted application goes through every stage
\* before it is active (transitionApplication).
THEOREM NoStageSkippedHolds == Spec => []NoStageSkipped
<1>1. Inv => NoStageSkipped BY DEF Inv
<1> QED BY <1>1, Invariance, PTL

\* An agency is activated only after its application, with terms and with a
\* recorded signature, and has a user only then (setCommercialConfig,
\* handleESignResult, activateAgencyForApplication).
THEOREM AgencyFollowsHolds == Spec => []AgencyFollows
<1>1. Inv => AgencyFollows BY DEF Inv
<1> QED BY <1>1, Invariance, PTL

-----------------------------------------------------------------------------
(* Application implements Lifecycle.                                       *)

LEMMA MoveEnters == ASSUME Inv, NEW c \in Calls, Move(c) PROVE Path!Next
<1>1. /\ state' = Target[call[c].op] /\ seen' = seen \cup {state'}
      /\ call[c].at = "move"
  BY DEF Move
<1>2. /\ call[c].op \in DOMAIN Target /\ call[c].from \in seen
      /\ Path!FindTransition(call[c].from, Target[call[c].op]) # {}
  BY <1>1, CallTyped DEF Carries
<1>3. state' \in Path!States BY <1>1, <1>2, Targets
<1>4. Path!Enter(state') BY <1>1, <1>2 DEF Path!Enter
<1> QED BY <1>3, <1>4 DEF Path!Next

LEMMA OthersStay ==
    ASSUME Next, \A d \in Calls : ~Move(d)
    PROVE  UNCHANGED <<state, seen>>
BY DEF Next, Submit, Approve, Reject, RequestResubmission, SuspendAgency, ReactivateAgency, Ask,
       Read, Flag, InitiateChecks, DeleteChecks, FindCheck, CreateCheck, InitiateCheck,
       ReceiveCallback, OverrideVerification, RecordResult, LoseResult, Weigh, Count,
       SetCommercialConfig, EnsureAgency, SetTerms, GenerateAgreement, SendAgreement,
       ActivateIfSigned, LoadForActivation, Stamp, EnsureUser, Die, OnlyCall

\* Every change of the application's state is one the table allows from a state
\* it has been in, for any number of requests (transitionApplication).
THEOREM LifecycleImplemented == Spec => ImplementsLifecycle
<1>1. Init => Path!Init BY DEF Init, Drafted, CreatedByAdmin, Path!Init
<1>2. Inv /\ [Next]_vars => [Path!Next]_<<state, seen>>
  <2> SUFFICES ASSUME Inv, [Next]_vars PROVE Path!Next \/ UNCHANGED <<state, seen>> OBVIOUS
  <2>1. CASE \E c \in Calls : Move(c) BY <2>1, MoveEnters
  <2>2. CASE Next /\ \A c \in Calls : ~Move(c) BY <2>2, OthersStay
  <2>3. CASE UNCHANGED vars BY <2>3 DEF vars
  <2> QED BY <2>1, <2>2, <2>3
<1> QED BY <1>1, <1>2, Invariance, PTL DEF Spec, ImplementsLifecycle, Path!Spec

-----------------------------------------------------------------------------
(* A signature is acted on.  As long as no transition overwrote another, an *)
(* application with an agreement is either still configured or has been     *)
(* activated.  Whatever stands between Digio's signature and the activated  *)
(* agency with its user is then the work of some request in flight.         *)

\* A call that will move the application on for a signature, and one that will
\* finish what the move to ACTIVE started.
Activates(k) == k.op = "sign" /\ k.at \in {"activate", "read", "move"}
Finishes(k, ag) == k.at = "stamp" \/ (k.at = "user" /\ ag.activated)
Finished(ag) == ag.activated /\ ag.user

Agreed == "COMMERCIAL_CONFIGURATION" \in seen
AgreementsFollow ==
    /\ \A r \in RowIds : check[r].checkType = "ESIGN" => Agreed
    /\ \A c \in Calls : call[c].at = "send" \/ Activates(call[c]) => Agreed
    /\ "DIGIO" \in signers => Agreed
OnceActive == "DRAFT" \notin seen \/ "SUSPENDED" \in seen => "ACTIVE" \in seen
InOrder == strays = 0 /\ Agreed => state \in {"COMMERCIAL_CONFIGURATION", "ACTIVE", "SUSPENDED"}

Activating ==
    ~died /\ strays = 0 /\ "DIGIO" \in signers =>
        "ACTIVE" \in seen \/ \E c \in Calls : Activates(call[c])
Finishing ==
    ~died /\ strays = 0 /\ "ACTIVE" \in seen =>
        Finished(agency) \/ \E c \in Calls : Finishes(call[c], agency)

Signing == AgreementsFollow /\ OnceActive /\ InOrder /\ Activating /\ Finishing

LEMMA InitIsSigning == Init => Signing
<1> SUFFICES ASSUME Init PROVE Signing OBVIOUS
<1>1. /\ seen = {state} /\ signers = {} /\ \A r \in RowIds : check[r].checkType = "none"
      /\ \A c \in Calls : call[c].at = "idle"
      /\ state = "DRAFT" \/ (state = "ACTIVE" /\ Finished(agency))
  BY IdleFields DEF Init, Drafted, CreatedByAdmin, Finished, NewRow
<1>2. AgreementsFollow BY <1>1 DEF AgreementsFollow, Activates
<1>3. OnceActive /\ InOrder BY <1>1 DEF OnceActive, InOrder, Agreed
<1>4. Activating /\ Finishing BY <1>1 DEF Activating, Finishing
<1> QED BY <1>2, <1>3, <1>4 DEF Signing

\* The table, read forwards, from the last three states.
LEMMA Successors ==
    ASSUME NEW from, NEW to, Path!FindTransition(from, to) # {}
    PROVE  /\ from = "COMMERCIAL_CONFIGURATION" => to = "ACTIVE"
           /\ from = "ACTIVE" => to = "SUSPENDED"
           /\ from = "SUSPENDED" => to = "ACTIVE"
<1> PICK rule \in Path!TRANSITIONS : rule.from = from /\ rule.to = to BY DEF Path!FindTransition
<1> QED BY DEF Path!TRANSITIONS, Path!Rule

\* The system may act on a signature and on complete checks.
LEMMA SystemMay == Validated("COMMERCIAL_CONFIGURATION", "sign") /\ Validated("VERIFICATION", "evaluate")
<1>1. ASSUME NEW from, NEW to, NEW roles, Path!Rule(from, to, roles) \in Path!TRANSITIONS, "SYSTEM" \in roles
      PROVE  Path!CanTransition(from, to, "SYSTEM")
  <2>1. Path!Rule(from, to, roles) \in Path!FindTransition(from, to)
    BY <1>1 DEF Path!FindTransition, Path!Rule
  <2>2. "SYSTEM" \in Path!Rule(from, to, roles).allowedActors BY <1>1 DEF Path!Rule
  <2> QED BY <2>1, <2>2 DEF Path!CanTransition
<1>2. Path!CanTransition("COMMERCIAL_CONFIGURATION", "ACTIVE", "SYSTEM")
  BY <1>1 DEF Path!TRANSITIONS
<1>3. Path!CanTransition("VERIFICATION", "REVIEW", "SYSTEM") BY <1>1 DEF Path!TRANSITIONS
<1> QED BY <1>2, <1>3 DEF Validated, Target, RolesOf

\* A step that leaves the application in its state.  The request that takes it
\* hands on what it was about to do, or has done it.
LEMMA SigningStep ==
    ASSUME Inv, Signing, NEW c \in Calls, NEW new, Go(c, new), UNCHANGED <<state, seen, strays>>,
           died => died',
           "DIGIO" \in signers' => "DIGIO" \in signers \/ (Activates(new) /\ Agreed),
           agency.activated => agency'.activated, agency.user => agency'.user,
           \A r \in RowIds : check'[r].checkType = "ESIGN" => check[r].checkType = "ESIGN" \/ Agreed,
           new.at = "send" \/ Activates(new) => Agreed,
           Activates(call[c]) => Activates(new) \/ died' \/ "ACTIVE" \in seen \/ strays # 0,
           Finishes(call[c], agency) => Finishes(new, agency') \/ died' \/ Finished(agency')
    PROVE  Signing'
<1>1. \A d \in Calls : call'[d] = IF d = c THEN new ELSE call[d] BY DEF Inv, TypeOK, Go
<1>2. AgreementsFollow' BY <1>1 DEF Signing, AgreementsFollow, Agreed
<1>3. OnceActive' /\ InOrder' BY DEF Signing, OnceActive, InOrder, Agreed
<1>4. Activating'
  <2> SUFFICES ASSUME ~died', strays = 0, "DIGIO" \in signers', "ACTIVE" \notin seen
               PROVE  \E d \in Calls : Activates(call'[d])
    BY DEF Activating
  <2>1. CASE Activates(new) BY <1>1, <2>1
  <2>2. CASE ~Activates(new)
    <3>1. PICK d \in Calls : Activates(call[d]) BY <2>2 DEF Signing, Activating
    <3>2. d # c BY <2>2, <3>1
    <3> QED BY <1>1, <3>1, <3>2
  <2> QED BY <2>1, <2>2
<1>5. Finishing'
  <2> SUFFICES ASSUME ~died', strays = 0, "ACTIVE" \in seen, ~Finished(agency)'
               PROVE  \E d \in Calls : Finishes(call'[d], agency')
    BY DEF Finishing
  <2>1. ~Finished(agency) BY DEF Finished
  <2>2. PICK d \in Calls : Finishes(call[d], agency) BY <2>1 DEF Signing, Finishing
  <2>3. CASE d = c BY <1>1, <2>2, <2>3
  <2>4. CASE d # c BY <1>1, <2>2, <2>4 DEF Finishes
  <2> QED BY <2>3, <2>4
<1> QED BY <1>2, <1>3, <1>4, <1>5 DEF Signing

\* The same for a request that has nothing to do with activation, before and
\* after its step.
LEMMA UnrelatedStep ==
    ASSUME Inv, Signing, NEW c \in Calls, NEW new, Go(c, new),
           UNCHANGED <<state, seen, strays, died, signers>>,
           agency.activated => agency'.activated, agency.user => agency'.user,
           \A r \in RowIds : check'[r].checkType = "ESIGN" => check[r].checkType = "ESIGN" \/ Agreed,
           new.at = "send" \/ Activates(new) => Agreed,
           ~Activates(call[c]), ~Finishes(call[c], agency)
    PROVE  Signing'
BY SigningStep

LEMMA MoveSigning == ASSUME Inv, Signing, NEW c \in Calls, Move(c) PROVE Signing'
<1> DEFINE k == call[c]
           to == Target[k.op]
           new == AfterMove(k)
<1>1. /\ k.at = "move" /\ state' = to /\ seen' = seen \cup {to} /\ Go(c, new)
      /\ strays' = IF Strays(k) THEN strays + 1 ELSE strays
      /\ UNCHANGED <<check, agency, signers, died>>
  BY DEF Move
<1>2. k.op \in DOMAIN Target /\ k.from \in seen /\ Path!FindTransition(k.from, to) # {}
  BY <1>1, CallTyped DEF Carries
<1>3. to # "DRAFT" BY <1>2, Targets
<1>4. new.at # "send" /\ ~Activates(new) BY <1>2, AfterMoveCall DEF Activates
<1>5. strays \in Nat /\ state \in seen BY DEF Inv, TypeOK
<1>6. strays' = 0 => /\ strays = 0 /\ state = k.from
                     /\ k.op = "reactivate" => state = "SUSPENDED"
  BY <1>1, <1>5 DEF Strays
<1>7. /\ to = "SUSPENDED" => k.from = "ACTIVE"
      /\ k.from = "COMMERCIAL_CONFIGURATION" => to = "ACTIVE"
      /\ k.from = "ACTIVE" => to = "SUSPENDED"
      /\ k.from = "SUSPENDED" => to = "ACTIVE"
  BY <1>2, Predecessors, Successors
<1>8. to = "ACTIVE" => k.op \in {"sign", "activate", "reactivate"} BY <1>2, Operations DEF Target
<1>9. k.op = "sign" => to = "ACTIVE" BY DEF Target
<1>10. k.op \in {"sign", "activate"} => new.at = "stamp" BY AtFields DEF AfterMove
<1>11. \A d \in Calls : call'[d] = IF d = c THEN new ELSE call[d] BY <1>1 DEF Inv, TypeOK, Go
<1> HIDE DEF to, new
<1>12. AgreementsFollow' BY <1>1, <1>4, <1>11 DEF Signing, AgreementsFollow, Agreed
<1>13. OnceActive' BY <1>1, <1>2, <1>3, <1>7 DEF Signing, OnceActive
<1>14. InOrder' BY <1>1, <1>6, <1>7 DEF Signing, InOrder, Agreed
<1>15. Activating'
  <2> SUFFICES ASSUME ~died, strays' = 0, "DIGIO" \in signers, "ACTIVE" \notin seen'
               PROVE  \E d \in Calls : Activates(call'[d])
    BY <1>1 DEF Activating
  <2>1. PICK d \in Calls : Activates(call[d]) BY <1>1, <1>6 DEF Signing, Activating
  <2>2. d # c BY <1>1, <1>9, <2>1 DEF Activates
  <2> QED BY <1>11, <2>1, <2>2
<1>16. Finishing'
  <2> SUFFICES ASSUME ~died, strays' = 0, "ACTIVE" \in seen', ~Finished(agency)
               PROVE  \E d \in Calls : Finishes(call'[d], agency)
    BY <1>1 DEF Finishing
  <2>1. CASE "ACTIVE" \in seen
    <3>1. PICK d \in Calls : Finishes(call[d], agency) BY <1>6, <2>1 DEF Signing, Finishing
    <3>2. d # c BY <1>1, <3>1 DEF Finishes
    <3> QED BY <1>11, <3>1, <3>2
  <2>2. CASE "ACTIVE" \notin seen
    <3>1. to = "ACTIVE" BY <1>1, <2>2
    <3>2. "SUSPENDED" \notin seen BY <2>2 DEF Signing, OnceActive
    <3>3. k.op # "reactivate" BY <1>5, <1>6, <3>2
    <3>4. new.at = "stamp" BY <1>8, <1>10, <3>1, <3>3
    <3> QED BY <1>11, <3>4 DEF Finishes
  <2> QED BY <2>1, <2>2
<1> QED BY <1>12, <1>13, <1>14, <1>15, <1>16 DEF Signing

LEMMA RecordResultSigning ==
    ASSUME Inv, Callbacks, Signing, NEW c \in Calls, RecordResult(c)
    PROVE  Signing'
<1> DEFINE k == call[c]
           new == AfterResult(k)
<1>1. /\ k.at = "result" /\ Live(k.row) /\ Go(c, new)
      /\ check' = [check EXCEPT ![k.row] = Decided(@, k.status)]
      /\ signers' = IF check[k.row].checkType = "ESIGN" /\ k.status = "PASSED"
                       THEN signers \cup {IF k.op = "override" THEN "STAFF" ELSE "DIGIO"} ELSE signers
      /\ UNCHANGED <<state, agency, seen, strays, died>>
  BY DEF RecordResult
<1>2. /\ k.row \in RowIds /\ k.op \in {"sign", "callback", "override"}
      /\ k.op = "callback" => check[k.row].checkType \in CheckTypes \cup {"deleted"}
  BY <1>1 DEF Callbacks, Brings
<1>3. check \in [RowIds -> Row] BY CallTyped
<1>4. \A r \in RowIds : check'[r].checkType = check[r].checkType BY <1>1, <1>3 DEF Row, Decided
<1>5. "DIGIO" \in signers' /\ "DIGIO" \notin signers => k.op = "sign" /\ k.status = "PASSED"
  BY <1>1, <1>2 DEF CheckTypes
<1>6. k.op = "sign" /\ k.status = "PASSED" => Activates(new)
  BY AtFields DEF AfterResult, Activates
<1>7. new.at # "send" /\ (Activates(new) => k.op = "sign")
  BY AtFields, IdleFields DEF AfterResult, Activates
<1>8. ~Activates(k) /\ ~Finishes(k, agency) BY <1>1 DEF Activates, Finishes
<1>9. k.op = "sign" => Agreed
  <2>1. k.op = "sign" => check[k.row].checkType = "ESIGN" BY <1>1, <1>2 DEF Callbacks, Brings, Live
  <2> QED BY <1>2, <2>1 DEF Signing, AgreementsFollow
<1> HIDE DEF new, k
<1>10. \A r \in RowIds : check'[r].checkType = "ESIGN" => check[r].checkType = "ESIGN" \/ Agreed BY <1>4
<1>11. "DIGIO" \in signers' => "DIGIO" \in signers \/ (Activates(new) /\ Agreed) BY <1>5, <1>6, <1>9
<1> QED BY <1>1, <1>7, <1>8, <1>9, <1>10, <1>11, SigningStep DEF k

\* Steps on the way to an activated agency.
LEMMA LoadSigning == ASSUME Inv, Signing, NEW c \in Calls, LoadForActivation(c) PROVE Signing'
<1> DEFINE k == call[c]
           new == AfterLoad(k.op)
<1>1. k.at = "activate" /\ Go(c, new) /\ OnlyCall BY DEF LoadForActivation
<1>2. k.op \in {"sign", "activate"} /\ state \in seen BY <1>1, CallTyped DEF Carries
<1>3. Activates(k) => Agreed BY DEF Signing, AgreementsFollow
<1>4. ~Finishes(k, agency) BY <1>1 DEF Finishes
<1>5. new.at # "send" /\ (Activates(new) => Activates(k))
  BY <1>1, AtFields, IdleFields DEF AfterLoad, Activates
<1>6. Activates(k) => Activates(new) \/ "ACTIVE" \in seen \/ strays # 0
  <2> SUFFICES ASSUME Activates(k), strays = 0, "ACTIVE" \notin seen PROVE Activates(new) OBVIOUS
  <2>1. state = "COMMERCIAL_CONFIGURATION"
    BY <1>2, <1>3 DEF Signing, InOrder, OnceActive
  <2>2. agency.created BY <1>3 DEF Inv, AgencyFollows, Agreed
  <2>3. new = At(k.op, "read") BY <2>1, <2>2 DEF AfterLoad
  <2> QED BY <2>3, AtFields DEF Activates
<1> HIDE DEF new, k
<1> QED BY <1>1, <1>3, <1>4, <1>5, <1>6, SigningStep DEF OnlyCall, k

LEMMA ReadSigning == ASSUME Inv, Signing, NEW c \in Calls, Read(c) PROVE Signing'
<1> DEFINE k == call[c]
           new == IF Validated(state, k.op) THEN Moving(k.op, state, {}) ELSE Idle
<1>1. k.at = "read" /\ Go(c, new) /\ OnlyCall BY DEF Read
<1>2. state \in seen BY CallTyped
<1>3. Activates(k) => Agreed BY DEF Signing, AgreementsFollow
<1>4. ~Finishes(k, agency) BY <1>1 DEF Finishes
<1>5. new.at # "send" /\ (Activates(new) => Activates(k))
  BY <1>1, MovingFields, IdleFields DEF Activates
<1>6. Activates(k) => Activates(new) \/ "ACTIVE" \in seen \/ strays # 0
  <2> SUFFICES ASSUME Activates(k), strays = 0, "ACTIVE" \notin seen PROVE Activates(new) OBVIOUS
  <2>1. state = "COMMERCIAL_CONFIGURATION" BY <1>2, <1>3 DEF Signing, InOrder, OnceActive
  <2>2. k.op = "sign" BY DEF Activates
  <2>3. new = Moving("sign", state, {}) BY <2>1, <2>2, SystemMay
  <2> QED BY <2>3, MovingFields DEF Activates
<1> HIDE DEF new, k
<1> QED BY <1>1, <1>3, <1>4, <1>5, <1>6, SigningStep DEF OnlyCall, k

LEMMA StampSigning == ASSUME Inv, Signing, NEW c \in Calls, Stamp(c) PROVE Signing'
<1> DEFINE new == At("activate", "user")
<1>1. /\ call[c].at = "stamp" /\ Go(c, new)
      /\ agency' = [agency EXCEPT !.status = "ACTIVE", !.activated = TRUE]
      /\ UNCHANGED <<state, check, seen, signers, fresh, strays, died>>
  BY DEF Stamp
<1>2. new.at = "user" /\ new.op = "activate" BY AtFields
<1>3. agency'.activated /\ agency'.user = agency.user BY <1>1, CallTyped DEF Agency
<1>4. Finishes(new, agency') BY <1>2, <1>3 DEF Finishes
<1>5. ~Activates(call[c]) /\ ~Activates(new) BY <1>1, <1>2 DEF Activates
<1> HIDE DEF new
<1> QED BY <1>1, <1>2, <1>3, <1>4, <1>5, SigningStep

LEMMA EnsureUserSigning == ASSUME Inv, Signing, NEW c \in Calls, EnsureUser(c) PROVE Signing'
<1>1. /\ call[c].at = "user" /\ Go(c, Idle) /\ agency' = [agency EXCEPT !.user = TRUE]
      /\ UNCHANGED <<state, check, seen, signers, fresh, strays, died>>
  BY DEF EnsureUser
<1>2. agency'.activated = agency.activated /\ agency'.user BY <1>1, CallTyped DEF Agency
<1>3. Finishes(call[c], agency) => Finished(agency') BY <1>1, <1>2 DEF Finishes, Finished
<1>4. ~Activates(call[c]) /\ ~Activates(Idle) /\ Idle.at # "send" BY <1>1, IdleFields DEF Activates
<1> QED BY <1>1, <1>2, <1>3, <1>4, SigningStep

LEMMA DieSigning == ASSUME Inv, Signing, NEW c \in Calls, Die(c) PROVE Signing'
<1>1. /\ Go(c, Idle) /\ died' = TRUE
      /\ UNCHANGED <<state, check, agency, seen, signers, fresh, strays>>
  BY DEF Die
<1>2. ~Activates(Idle) /\ Idle.at # "send" BY IdleFields DEF Activates
<1> QED BY <1>1, <1>2, SigningStep

LEMMA SigningKept == ASSUME Inv, Callbacks, Signing, Next PROVE Signing'
<1> PICK c \in Calls :
        \/ Submit(c) \/ Approve(c) \/ Reject(c) \/ RequestResubmission(c)
        \/ SuspendAgency(c) \/ ReactivateAgency(c) \/ Read(c) \/ Move(c) \/ Flag(c)
        \/ InitiateChecks(c) \/ DeleteChecks(c) \/ FindCheck(c) \/ CreateCheck(c) \/ InitiateCheck(c)
        \/ ReceiveCallback(c) \/ OverrideVerification(c) \/ RecordResult(c) \/ LoseResult(c)
        \/ Weigh(c) \/ Count(c)
        \/ SetCommercialConfig(c) \/ EnsureAgency(c) \/ SetTerms(c)
        \/ GenerateAgreement(c) \/ SendAgreement(c) \/ ActivateIfSigned(c)
        \/ LoadForActivation(c) \/ Stamp(c) \/ EnsureUser(c) \/ Die(c)
  BY DEF Next
<1> DEFINE Elsewhere == \E new : Go(c, new) /\ new.at # "send" /\ ~Activates(new)
           Before == call[c].at \notin {"activate", "read", "move", "stamp", "user"}
           Kept == UNCHANGED <<state, seen, strays, died, signers>>
           Agreements == \A r \in RowIds : check'[r].checkType = "ESIGN" => check[r].checkType = "ESIGN" \/ Agreed
<1>1. ASSUME Elsewhere, Before, Kept, UNCHANGED agency, Agreements PROVE Signing'
  BY <1>1, UnrelatedStep DEF Activates, Finishes
<1>2. ASSUME OnlyCall PROVE Kept /\ UNCHANGED agency /\ Agreements BY <1>2 DEF OnlyCall
<1>3. CASE Submit(c) \/ Approve(c) \/ Reject(c) \/ RequestResubmission(c)
           \/ SuspendAgency(c) \/ ReactivateAgency(c)
  <2>1. \E op, named : /\ Go(c, Moving(op, state, named)) /\ call[c].at = "idle" /\ OnlyCall
                       /\ op # "sign"
    BY <1>3 DEF Submit, Approve, Reject, RequestResubmission, SuspendAgency, ReactivateAgency,
                Ask, Start
  <2> QED BY <1>1, <1>2, <2>1, MovingFields DEF Activates
<1>4. CASE Flag(c) \/ LoseResult(c)
  <2>1. Go(c, Idle) /\ Before /\ ~Activates(Idle) /\ Idle.at # "send"
    BY <1>4, IdleFields DEF Flag, LoseResult, Activates
  <2>2. CASE LoseResult(c) BY <1>1, <1>2, <2>1, <2>2 DEF LoseResult
  <2>3. CASE Flag(c)
    <3>1. Kept /\ Agreements /\ agency'.activated = agency.activated /\ agency'.user = agency.user
      BY <2>3, CallTyped DEF Flag, Agency
    <3> QED BY <2>1, <3>1, UnrelatedStep DEF Activates, Finishes
  <2> QED BY <1>4, <2>2, <2>3
<1>5. CASE InitiateChecks(c) \/ Weigh(c) \/ Count(c) \/ ActivateIfSigned(c)
  <2>1. Before /\ OnlyCall BY <1>5 DEF InitiateChecks, Weigh, Count, ActivateIfSigned, Start
  <2>2. \/ Go(c, Idle)
        \/ \E op, at : Go(c, At(op, at)) /\ at # "send" /\ op # "sign"
    BY <1>5 DEF InitiateChecks, Weigh, Count, ActivateIfSigned, Start
  <2>3. Elsewhere BY <2>2, AtFields, IdleFields DEF Activates
  <2> QED BY <1>1, <1>2, <2>1, <2>3
<1>6. CASE GenerateAgreement(c)
  <2>1. /\ state = "COMMERCIAL_CONFIGURATION" /\ call[c].at = "idle"
        /\ Go(c, At("send", "send")) /\ OnlyCall
    BY <1>6 DEF GenerateAgreement, Start
  <2>2. Agreed BY <2>1, CallTyped DEF Agreed
  <2>3. ~Activates(call[c]) /\ ~Finishes(call[c], agency) BY <2>1 DEF Activates, Finishes
  <2> QED BY <1>2, <2>1, <2>2, <2>3, UnrelatedStep
<1>7. CASE DeleteChecks(c)
  <2>1. Before /\ Go(c, At("initiate", "find")) /\ Kept /\ UNCHANGED agency BY <1>7 DEF DeleteChecks
  <2>2. Agreements BY <1>7 DEF DeleteChecks, NewRow
  <2>3. Elsewhere BY <2>1, AtFields DEF Activates
  <2> QED BY <1>1, <2>1, <2>2, <2>3
<1>8. CASE FindCheck(c)
  <2>1. Before /\ OnlyCall /\ (Go(c, AfterCheck(call[c])) \/ Go(c, Checking("create", 0, call[c].next)))
    BY <1>8 DEF FindCheck
  <2>2. Elsewhere BY <2>1, AfterCheckFields, CheckingFields DEF Activates
  <2> QED BY <1>1, <1>2, <2>1, <2>2
<1>9. CASE CreateCheck(c)
  <2>1. Before /\ Kept /\ UNCHANGED agency BY <1>9 DEF CreateCheck
  <2>2. PICK r \in RowIds : /\ check' = [check EXCEPT ![r] = NewRow(Checks[call[c].next], "PENDING", FALSE)]
                            /\ Go(c, Checking("initiate", r, call[c].next))
    BY <1>9 DEF CreateCheck
  <2>3. Checks[call[c].next] \in CheckTypes BY CallTyped, ApplicationAssumption DEF Call
  <2>4. Agreements BY <2>2, <2>3, CallTyped DEF NewRow, CheckTypes
  <2>5. Elsewhere BY <2>2, CheckingFields DEF Activates
  <2> QED BY <1>1, <2>1, <2>4, <2>5
<1>10. CASE InitiateCheck(c)
  <2>1. Before /\ Go(c, AfterCheck(call[c])) /\ Kept /\ UNCHANGED agency BY <1>10 DEF InitiateCheck
  <2>2. Elsewhere BY <2>1, AfterCheckFields DEF Activates
  <2> DEFINE row == [check[call[c].row] EXCEPT !.status = "IN_PROGRESS", !.providerRef = TRUE]
  <2>3. UNCHANGED check \/ check' = [check EXCEPT ![call[c].row] = row] BY <1>10 DEF InitiateCheck
  <2>4. call[c].row \in RowIds => row.checkType = check[call[c].row].checkType BY CallTyped DEF Row
  <2> HIDE DEF row
  <2>5. Agreements BY <2>3, <2>4, CallTyped
  <2> QED BY <1>1, <2>1, <2>2, <2>5
<1>11. CASE ReceiveCallback(c) \/ OverrideVerification(c)
  <2>1. /\ Before /\ OnlyCall
        /\ \E op, r, status : Go(c, Recording(op, r, status))
    BY <1>11 DEF ReceiveCallback, OverrideVerification, Start
  <2>2. \A op, r, status : Recording(op, r, status).at = "result" BY DEF Recording, NewCall
  <2>3. Elsewhere BY <2>1, <2>2 DEF Activates
  <2> QED BY <1>1, <1>2, <2>1, <2>3
<1>12. CASE SetCommercialConfig(c)
  <2>1. Before /\ OnlyCall /\ Go(c, Configuring("ensure", state)) BY <1>12 DEF SetCommercialConfig, Start
  <2>2. Elsewhere BY <2>1 DEF Configuring, NewCall, Activates
  <2> QED BY <1>1, <1>2, <2>1, <2>2
<1>13. CASE EnsureAgency(c) \/ SetTerms(c)
  <2>1. /\ Before /\ Kept /\ Agreements
        /\ agency'.activated = agency.activated /\ agency'.user = agency.user
    BY <1>13, CallTyped DEF EnsureAgency, SetTerms, Agency
  <2>2. CASE EnsureAgency(c)
    <3>1. Go(c, Configuring("terms", call[c].from)) BY <2>2 DEF EnsureAgency
    <3>2. Elsewhere BY <3>1 DEF Configuring, NewCall, Activates
    <3> QED BY <2>1, <3>2, UnrelatedStep DEF Activates, Finishes
  <2>3. CASE SetTerms(c)
    <3>1. Go(c, AfterTerms(call[c])) BY <2>3 DEF SetTerms
    <3>2. Elsewhere BY <3>1, IdleFields, AtFields DEF AfterTerms, Activates
    <3> QED BY <2>1, <3>2, UnrelatedStep DEF Activates, Finishes
  <2> QED BY <1>13, <2>2, <2>3
<1>14. CASE SendAgreement(c)
  <2>1. /\ call[c].at = "send" /\ Before /\ Go(c, Idle) /\ Kept /\ UNCHANGED agency
    BY <1>14 DEF SendAgreement
  <2>2. Agreed BY <2>1 DEF Signing, AgreementsFollow
  <2>3. Elsewhere BY <2>1, IdleFields DEF Activates
  <2> QED BY <1>1, <2>1, <2>2, <2>3
<1> QED BY <1>3, <1>4, <1>5, <1>6, <1>7, <1>8, <1>9, <1>10, <1>11, <1>12, <1>13, <1>14,
           MoveSigning, ReadSigning, RecordResultSigning, LoadSigning, StampSigning,
           EnsureUserSigning, DieSigning

LEMMA SigningStays == Inv /\ Callbacks /\ Signing /\ [Next]_vars => Signing'
<1> SUFFICES ASSUME Inv, Callbacks, Signing, UNCHANGED vars PROVE Signing' BY SigningKept
<1>1. AgreementsFollow' BY DEF vars, Signing, AgreementsFollow, Agreed
<1>2. OnceActive' /\ InOrder' BY DEF vars, Signing, OnceActive, InOrder, Agreed
<1>3. Activating' /\ Finishing' BY DEF vars, Signing, Activating, Finishing
<1> QED BY <1>1, <1>2, <1>3 DEF Signing

LEMMA SigningInvariance == Spec => []Signing
BY InitIsSigning, SigningStays, Invariance, PTL DEF Spec

\* A signature reported by Digio is acted on: once all requests have ended, none
\* half way, the agency is activated and has its user, as long as no transition
\* overwrote another (handleESignResult, activateAgencyForApplication).
THEOREM SignedIsActivatedHolds == Spec => []SignedIsActivated
<1>1. Signing => SignedIsActivated
  BY DEF Signing, Activating, Finishing, Activates, Finishes, Finished, SignedIsActivated, Quiet
<1> QED BY <1>1, SigningInvariance, PTL

-----------------------------------------------------------------------------
(* A result is acted on.  When all checks are decided, some request in      *)
(* flight is weighing them, or is about to create one that is missing and   *)
(* pending again.                                                           *)

Missing(rows, i) == \A r \in RowIds : rows[r].checkType # Checks[i]
Settles(k, rows) ==
    \/ k.op = "evaluate" /\ k.at \in {"weigh", "count", "read", "move"}
    \/ k.at = "create"
    \/ k.at = "find" /\ \E i \in k.next .. Len(Checks) : Missing(rows, i)
    \/ k.at = "initiate" /\ \E i \in k.next + 1 .. Len(Checks) : Missing(rows, i)

\* The checks a resubmission names.
Names(k) ==
    /\ k.at = "delete" => k.named # {}
    /\ k.at = "delete" \/ (k.at = "move" /\ k.op = "resubmit") => k.named \subseteq Mandatory \cup {"ESIGN"}
    /\ k.at \in {"weigh", "count"} => k.op = "evaluate"
Naming == \A c \in Calls : Names(call[c])
Settling ==
    ~died /\ fresh /\ state = "VERIFICATION" /\ Complete => \E c \in Calls : Settles(call[c], check)

LEMMA InitIsSettling == Init => Naming /\ Settling
<1> SUFFICES ASSUME Init PROVE Naming /\ Settling OBVIOUS
<1>1. \A c \in Calls : call[c].at = "idle" BY IdleFields DEF Init
<1>2. Naming BY <1>1 DEF Naming, Names
<1>3. Settling BY DEF Init, Settling
<1> QED BY <1>2, <1>3

LEMMA MandatoryChecks == \A i \in 1 .. Len(Checks) : Checks[i] \in CheckTypes
BY ApplicationAssumption

\* Rows of other kinds do not matter to what is decided or missing.
LEMMA OtherRows ==
    ASSUME \A r \in RowIds : check[r].checkType \in CheckTypes \/ check'[r].checkType \in CheckTypes
                                 => check'[r] = check[r]
    PROVE  /\ Complete' <=> Complete
           /\ \A i \in 1 .. Len(Checks) : Missing(check', i) <=> Missing(check, i)
<1>1. RowsOf(CheckTypes)' = RowsOf(CheckTypes) BY DEF RowsOf
<1>2. \A r \in RowsOf(CheckTypes) : check'[r] = check[r] BY DEF RowsOf
<1>3. Complete' <=> Complete BY <1>1, <1>2 DEF Complete
<1>4. \A i \in 1 .. Len(Checks) : Missing(check', i) <=> Missing(check, i)
  BY MandatoryChecks DEF Missing
<1> QED BY <1>3, <1>4

\* A check that is pending or in progress keeps the application waiting.
LEMMA PendingWaits ==
    ASSUME NEW r \in RowIds, check'[r].checkType \in CheckTypes, check'[r].status \notin Terminal
    PROVE  ~Complete'
BY DEF Complete, RowsOf

LEMMA NamingStep == ASSUME Inv, Naming, NEW c \in Calls, NEW new, Go(c, new), Names(new) PROVE Naming'
BY DEF Inv, TypeOK, Go, Naming

\* The missing checks of a call's list.
LEMMA SettlesRows ==
    ASSUME NEW k \in Call, NEW rows, NEW after, Settles(k, rows),
           \A i \in 1 .. Len(Checks) : Missing(rows, i) => Missing(after, i)
    PROVE  Settles(k, after)
<1>1. k.next \in 1 .. Len(Checks) BY DEF Call
<1>2. \A i \in k.next .. Len(Checks) : i \in 1 .. Len(Checks) BY <1>1, Places
<1>3. \A i \in k.next + 1 .. Len(Checks) : i \in 1 .. Len(Checks) BY <1>1, Places
<1> QED BY <1>2, <1>3 DEF Settles

\* A step after which nothing is decided that was not, and nothing exists that
\* was missing: the request that takes it hands on what it was about to do.
LEMMA SettlingStep ==
    ASSUME Inv, Settling, NEW c \in Calls, NEW new, Go(c, new), UNCHANGED <<state, fresh, died>>,
           Complete' => Complete,
           \A i \in 1 .. Len(Checks) : Missing(check, i) => Missing(check', i),
           Settles(call[c], check) /\ Complete' /\ state = "VERIFICATION" => Settles(new, check')
    PROVE  Settling'
<1> SUFFICES ASSUME ~died, fresh, state = "VERIFICATION", Complete'
             PROVE  \E d \in Calls : Settles(call'[d], check')
  BY DEF Settling
<1>1. PICK d \in Calls : Settles(call[d], check) BY DEF Settling
<1>2. \A e \in Calls : call'[e] = IF e = c THEN new ELSE call[e] BY DEF Inv, TypeOK, Go
<1>3. CASE d = c BY <1>1, <1>2, <1>3
<1>4. CASE d # c
  <2>1. call[d] \in Call BY CallTyped
  <2>2. Settles(call[d], check') BY <1>1, <2>1, SettlesRows
  <2> QED BY <1>2, <1>4, <2>2
<1> QED BY <1>3, <1>4

LEMMA SettlingQuietly ==
    ASSUME Inv, Settling, NEW c \in Calls, NEW new, Go(c, new), UNCHANGED <<state, fresh, died, check>>,
           Settles(call[c], check) /\ Complete /\ state = "VERIFICATION" => Settles(new, check)
    PROVE  Settling'
<1>1. Complete' <=> Complete BY DEF Complete, RowsOf
<1> QED BY <1>1, SettlingStep

\* A call that goes on to its next check still has the checks after this one.
LEMMA AfterCheckSettles ==
    ASSUME NEW k, k.next \in 1 .. Len(Checks), NEW rows,
           \E i \in k.next + 1 .. Len(Checks) : Missing(rows, i)
    PROVE  Settles(AfterCheck(k), rows)
<1>1. k.next # Len(Checks) BY Places
<1>2. AfterCheck(k) = Checking("find", 0, k.next + 1) BY <1>1 DEF AfterCheck
<1>3. Checking("find", 0, k.next + 1).at = "find" /\ Checking("find", 0, k.next + 1).next = k.next + 1
  BY DEF Checking, NewCall
<1> QED BY <1>2, <1>3 DEF Settles

LEMMA FindCheckSettles == ASSUME Inv, Settling, NEW c \in Calls, FindCheck(c) PROVE Settling'
<1> DEFINE k == call[c]
<1>1. /\ k.at = "find" /\ OnlyCall
      /\ Go(c, IF RowsOf({Checks[k.next]}) # {} THEN AfterCheck(k) ELSE Checking("create", 0, k.next))
  BY DEF FindCheck
<1>2. k.next \in 1 .. Len(Checks) BY CallTyped DEF Call
<1>3. UNCHANGED <<state, fresh, died, check>> BY <1>1 DEF OnlyCall
<1>4. CASE RowsOf({Checks[k.next]}) = {}
  <2>1. Go(c, Checking("create", 0, k.next)) BY <1>1, <1>4
  <2>2. Settles(Checking("create", 0, k.next), check) BY CheckingFields DEF Settles
  <2> QED BY <1>3, <2>1, <2>2, SettlingQuietly
<1>5. CASE RowsOf({Checks[k.next]}) # {}
  <2>1. Go(c, AfterCheck(k)) BY <1>1, <1>5
  <2>2. ASSUME Settles(k, check) PROVE Settles(AfterCheck(k), check)
    <3>1. PICK i \in k.next .. Len(Checks) : Missing(check, i) BY <1>1, <2>2 DEF Settles
    <3>2. i # k.next BY <1>5, <3>1 DEF Missing, RowsOf
    <3>3. i \in k.next + 1 .. Len(Checks) BY <1>2, <3>1, <3>2, Places
    <3> QED BY <1>2, <3>1, <3>3, AfterCheckSettles
  <2> HIDE DEF k
  <2> QED BY <1>3, <2>1, <2>2, SettlingQuietly DEF k
<1> QED BY <1>4, <1>5

LEMMA CreateCheckSettles == ASSUME Inv, NEW c \in Calls, CreateCheck(c) PROVE Settling'
<1>1. PICK r \in RowIds : check' = [check EXCEPT ![r] = NewRow(Checks[call[c].next], "PENDING", FALSE)]
  BY DEF CreateCheck
<1>2. call[c].next \in 1 .. Len(Checks) BY CallTyped DEF Call
<1>3. check'[r].checkType \in CheckTypes /\ check'[r].status \notin Terminal
  BY <1>1, <1>2, CallTyped, MandatoryChecks DEF NewRow, Terminal
<1>4. ~Complete' BY <1>3, PendingWaits
<1> QED BY <1>4 DEF Settling

LEMMA InitiateCheckSettles == ASSUME Inv, Settling, NEW c \in Calls, InitiateCheck(c) PROVE Settling'
<1> DEFINE k == call[c]
           row == [check[k.row] EXCEPT !.status = "IN_PROGRESS", !.providerRef = TRUE]
<1>1. /\ k.at = "initiate" /\ Go(c, AfterCheck(k)) /\ UNCHANGED <<state, fresh, died>>
      /\ UNCHANGED check \/ check' = [check EXCEPT ![k.row] = row]
  BY DEF InitiateCheck
<1>2. k.next \in 1 .. Len(Checks) /\ (k.row \in RowIds \/ k.row = 0) BY CallTyped DEF Call
<1>3. check \in [RowIds -> Row] /\ 0 \notin RowIds BY CallTyped DEF RowIds
<1>4. k.row \in RowIds => row.checkType = check[k.row].checkType /\ row.status = "IN_PROGRESS"
  BY <1>3 DEF Row
<1>5. Settles(k, check) => \E i \in k.next + 1 .. Len(Checks) : Missing(check, i)
  BY <1>1 DEF Settles
<1> HIDE DEF row, k
<1>6. CASE k.row \in RowIds /\ check' # check /\ check[k.row].checkType \in CheckTypes
  <2>1. check'[k.row] = row BY <1>1, <1>3, <1>6
  <2>2. ~Complete' BY <1>4, <1>6, <2>1, PendingWaits DEF Terminal
  <2> QED BY <2>2 DEF Settling
<1>7. CASE ~(k.row \in RowIds /\ check' # check /\ check[k.row].checkType \in CheckTypes)
  <2>1. \A r \in RowIds : check'[r].checkType = check[r].checkType BY <1>1, <1>3, <1>4
  <2>2. \A r \in RowIds : check[r].checkType \in CheckTypes => check'[r] = check[r]
    BY <1>1, <1>2, <1>3, <1>7
  <2>3. /\ Complete' <=> Complete
        /\ \A i \in 1 .. Len(Checks) : Missing(check', i) <=> Missing(check, i)
    BY <2>1, <2>2, OtherRows
  <2>4. \A i \in k.next + 1 .. Len(Checks) : i \in 1 .. Len(Checks) BY <1>2, Places
  <2>5. Settles(k, check) => Settles(AfterCheck(k), check')
    BY <1>2, <1>5, <2>3, <2>4, AfterCheckSettles
  <2> QED BY <1>1, <2>3, <2>5, SettlingStep DEF k
<1> QED BY <1>6, <1>7

\* A resubmission that deletes a check creates it again.
LEMMA DeleteChecksSettles == ASSUME Inv, Naming, Settling, NEW c \in Calls, DeleteChecks(c) PROVE Settling'
<1> DEFINE k == call[c]
           new == At("initiate", "find")
<1>1. /\ k.at = "delete" /\ Go(c, new) /\ UNCHANGED <<state, fresh, died>>
      /\ check' = [r \in RowIds |-> IF check[r].checkType \in k.named
                                      THEN NewRow("deleted", "PENDING", FALSE) ELSE check[r]]
  BY DEF DeleteChecks
<1>2. k.named # {} /\ k.named \subseteq Mandatory \cup {"ESIGN"} BY <1>1 DEF Naming, Names
<1>3. new.at = "find" /\ new.next = 1 BY DEF At, NewCall
<1>4. "deleted" \notin CheckTypes /\ "ESIGN" \notin CheckTypes BY DEF CheckTypes
<1>5. \A r \in RowIds : check[r].checkType \in k.named => check'[r].checkType = "deleted"
  BY <1>1 DEF NewRow
<1>6. \A r \in RowIds : check[r].checkType \notin k.named => check'[r] = check[r] BY <1>1
<1>7. \A d \in Calls : call'[d] = IF d = c THEN new ELSE call[d] BY <1>1 DEF Inv, TypeOK, Go
<1> HIDE DEF k, new
<1>8. CASE \E i \in 1 .. Len(Checks) : Checks[i] \in k.named
  <2>1. PICK i \in 1 .. Len(Checks) : Checks[i] \in k.named BY <1>8
  <2>2. Missing(check', i) BY <1>4, <1>5, <1>6, <2>1, MandatoryChecks DEF Missing
  <2>3. Settles(new, check') BY <1>3, <2>2 DEF Settles
  <2> QED BY <1>7, <2>3 DEF Settling
<1>9. CASE ~\E i \in 1 .. Len(Checks) : Checks[i] \in k.named
  <2>1. k.named \subseteq {"ESIGN"} BY <1>2, <1>9 DEF Mandatory
  <2>2. \A r \in RowIds : check[r].checkType \in CheckTypes \/ check'[r].checkType \in CheckTypes
                              => check'[r] = check[r]
    BY <1>4, <1>5, <1>6, <2>1
  <2>3. ~Settles(k, check) BY <1>1 DEF Settles
  <2> QED BY <1>1, <2>2, <2>3, OtherRows, SettlingStep DEF k
<1> QED BY <1>8, <1>9

LEMMA RecordResultSettles ==
    ASSUME Inv, Callbacks, Settling, NEW c \in Calls, RecordResult(c)
    PROVE  Settling'
<1> DEFINE k == call[c]
           new == AfterResult(k)
<1>1. /\ k.at = "result" /\ Live(k.row) /\ Go(c, new) /\ UNCHANGED <<state, died>>
      /\ check' = [check EXCEPT ![k.row] = Decided(@, k.status)]
      /\ fresh' = (fresh \/ (state = "VERIFICATION" /\ check[k.row].checkType # "ESIGN"))
  BY DEF RecordResult
<1>2. k.row \in RowIds /\ (k.op = "sign" => check[k.row].checkType \in {"ESIGN", "deleted"})
  BY <1>1 DEF Callbacks, Brings
<1>3. \A d \in Calls : call'[d] = IF d = c THEN new ELSE call[d] BY <1>1 DEF Inv, TypeOK, Go
<1>4. CASE k.op # "sign"
  <2>1. new = At("evaluate", "weigh") BY <1>4 DEF AfterResult
  <2>2. Settles(new, check') BY <2>1, AtFields DEF Settles
  <2> HIDE DEF new
  <2> QED BY <1>3, <2>2 DEF Settling
<1>5. CASE k.op = "sign"
  <2>1. check[k.row].checkType = "ESIGN" BY <1>1, <1>2, <1>5 DEF Live
  <2>2. fresh' = fresh BY <1>1, <2>1 DEF Inv, TypeOK
  <2>3. check \in [RowIds -> Row] BY CallTyped
  <2>4. check'[k.row].checkType = "ESIGN" /\ \A r \in RowIds \ {k.row} : check'[r] = check[r]
    BY <1>1, <1>2, <2>1, <2>3 DEF Row, Decided
  <2>5. \A r \in RowIds : check[r].checkType \in CheckTypes \/ check'[r].checkType \in CheckTypes
                              => check'[r] = check[r]
    BY <2>1, <2>4 DEF CheckTypes
  <2>6. ~Settles(k, check) BY <1>1, <1>5 DEF Settles
  <2> HIDE DEF new, k
  <2> QED BY <1>1, <2>2, <2>5, <2>6, OtherRows, SettlingStep DEF k
<1> QED BY <1>4, <1>5

\* An evaluation goes on while there is something to settle.
LEMMA EvaluationSettles ==
    ASSUME Inv, Naming, Settling, NEW c \in Calls, Weigh(c) \/ Count(c) \/ Read(c)
    PROVE  Settling'
<1>1. UNCHANGED <<state, fresh, died, check>> BY DEF Weigh, Count, Read, OnlyCall
<1>2. At("evaluate", "count").op = "evaluate" /\ At("evaluate", "read").op = "evaluate" BY AtFields
<1>3. CASE Weigh(c)
  <2>1. Go(c, IF state = "VERIFICATION" THEN At("evaluate", "count") ELSE Idle) BY <1>3 DEF Weigh
  <2>2. Settles(At("evaluate", "count"), check) BY <1>2, AtFields DEF Settles
  <2> QED BY <1>1, <2>1, <2>2, SettlingQuietly
<1>4. CASE Count(c)
  <2>1. Go(c, IF Complete THEN At("evaluate", "read") ELSE Idle) BY <1>4 DEF Count
  <2>2. Settles(At("evaluate", "read"), check) BY <1>2, AtFields DEF Settles
  <2> QED BY <1>1, <2>1, <2>2, SettlingQuietly
<1>5. CASE Read(c)
  <2> DEFINE op == call[c].op
             new == IF Validated(state, op) THEN Moving(op, state, {}) ELSE Idle
  <2>1. call[c].at = "read" /\ Go(c, new) BY <1>5 DEF Read
  <2>2. Settles(call[c], check) => op = "evaluate" BY <2>1 DEF Settles
  <2>3. op = "evaluate" /\ state = "VERIFICATION" => new = Moving("evaluate", state, {}) BY SystemMay
  <2>4. Settles(Moving("evaluate", state, {}), check) BY MovingFields DEF Settles
  <2> HIDE DEF new, op
  <2> QED BY <1>1, <2>1, <2>2, <2>3, <2>4, SettlingQuietly
<1> QED BY <1>3, <1>4, <1>5

LEMMA MoveSettles == ASSUME Inv, NEW c \in Calls, Move(c) PROVE Settling'
<1>1. fresh' = FALSE BY DEF Move
<1> QED BY <1>1 DEF Settling

\* What a request names is kept from its request to its deletion.
LEMMA NamingKept == ASSUME Inv, Naming, Next PROVE Naming'
<1> PICK c \in Calls :
        \/ Submit(c) \/ Approve(c) \/ Reject(c) \/ RequestResubmission(c)
        \/ SuspendAgency(c) \/ ReactivateAgency(c) \/ Read(c) \/ Move(c) \/ Flag(c)
        \/ InitiateChecks(c) \/ DeleteChecks(c) \/ FindCheck(c) \/ CreateCheck(c) \/ InitiateCheck(c)
        \/ ReceiveCallback(c) \/ OverrideVerification(c) \/ RecordResult(c) \/ LoseResult(c)
        \/ Weigh(c) \/ Count(c)
        \/ SetCommercialConfig(c) \/ EnsureAgency(c) \/ SetTerms(c)
        \/ GenerateAgreement(c) \/ SendAgreement(c) \/ ActivateIfSigned(c)
        \/ LoadForActivation(c) \/ Stamp(c) \/ EnsureUser(c) \/ Die(c)
  BY DEF Next
<1>1. ASSUME NEW new, Go(c, new), new.at \notin {"delete", "move", "weigh", "count"} PROVE Naming'
  BY <1>1, NamingStep DEF Names
<1>2. CASE Submit(c) \/ Approve(c) \/ Reject(c) \/ RequestResubmission(c)
           \/ SuspendAgency(c) \/ ReactivateAgency(c)
  <2>1. PICK op, named : Go(c, Moving(op, state, named)) /\ named \subseteq Mandatory \cup {"ESIGN"}
    BY <1>2 DEF Submit, Approve, Reject, RequestResubmission, SuspendAgency, ReactivateAgency,
                Ask, Start
  <2>2. Names(Moving(op, state, named)) BY <2>1, MovingFields DEF Names
  <2> QED BY <2>1, <2>2, NamingStep
<1>3. CASE Read(c)
  <2>1. Go(c, Moving(call[c].op, state, {})) \/ Go(c, Idle) BY <1>3 DEF Read
  <2>2. Names(Moving(call[c].op, state, {})) BY MovingFields DEF Names
  <2>3. Names(Idle) BY IdleFields DEF Names
  <2> QED BY <2>1, <2>2, <2>3, NamingStep
<1>4. CASE Move(c)
  <2> DEFINE k == call[c]
  <2>1. k.at = "move" /\ Go(c, AfterMove(k)) BY <1>4 DEF Move
  <2>2. k.op \in DOMAIN Target BY <2>1, CallTyped DEF Carries
  <2>3. CASE k.op = "resubmit" /\ k.named # {}
    <3>1. AfterMove(k) = NewCall("initiate", "delete", "DRAFT", 0, "PASSED", k.named, 1)
      BY <2>3 DEF AfterMove
    <3>2. AfterMove(k).at = "delete" /\ AfterMove(k).named = k.named BY <3>1 DEF NewCall
    <3>3. k.named \subseteq Mandatory \cup {"ESIGN"} BY <2>1, <2>3 DEF Naming, Names
    <3>4. Names(AfterMove(k)) BY <2>3, <3>2, <3>3 DEF Names
    <3> QED BY <2>1, <3>4, NamingStep
  <2>4. CASE ~(k.op = "resubmit" /\ k.named # {})
    <3>1. AfterMove(k) = Idle \/ \E op, at : AfterMove(k) = At(op, at) /\ at \in {"find", "stamp", "flag"}
      BY <2>4 DEF AfterMove
    <3>2. AfterMove(k).at \notin {"delete", "move", "weigh", "count"} BY <3>1, AtFields, IdleFields
    <3> QED BY <1>1, <2>1, <3>2
  <2> QED BY <2>3, <2>4
<1>5. CASE Flag(c) \/ LoseResult(c) \/ SendAgreement(c) \/ EnsureUser(c) \/ Die(c)
  <2>1. Go(c, Idle) BY <1>5 DEF Flag, LoseResult, SendAgreement, EnsureUser, Die
  <2> QED BY <1>1, <2>1, IdleFields
<1>6. CASE InitiateChecks(c) \/ DeleteChecks(c) \/ GenerateAgreement(c) \/ ActivateIfSigned(c) \/ Stamp(c)
  <2>1. \E op, at : Go(c, At(op, at)) /\ at \in {"find", "send", "activate", "user"}
    BY <1>6 DEF InitiateChecks, DeleteChecks, GenerateAgreement, ActivateIfSigned, Stamp, Start
  <2> QED BY <1>1, <2>1, AtFields
<1>7. CASE FindCheck(c) \/ CreateCheck(c) \/ InitiateCheck(c)
  <2>1. \/ Go(c, AfterCheck(call[c]))
        \/ \E at, r, next : Go(c, Checking(at, r, next)) /\ at \in {"create", "initiate"}
    BY <1>7 DEF FindCheck, CreateCheck, InitiateCheck
  <2> QED BY <1>1, <2>1, AfterCheckFields, CheckingFields
<1>8. CASE ReceiveCallback(c) \/ OverrideVerification(c)
  <2>1. \E op, r, status : Go(c, Recording(op, r, status))
    BY <1>8 DEF ReceiveCallback, OverrideVerification, Start
  <2>2. \A op, r, status : Recording(op, r, status).at = "result" BY DEF Recording, NewCall
  <2> QED BY <1>1, <2>1, <2>2
<1>9. CASE RecordResult(c) \/ Weigh(c) \/ Count(c)
  <2>1. \A at \in {"weigh", "count", "read"} : Names(At("evaluate", at)) BY AtFields DEF Names
  <2>2. \/ Go(c, Idle) \/ Go(c, At("sign", "activate"))
        \/ \E at \in {"weigh", "count", "read"} : Go(c, At("evaluate", at))
    BY <1>9 DEF RecordResult, AfterResult, Weigh, Count
  <2> QED BY <1>1, <2>1, <2>2, NamingStep, IdleFields, AtFields
<1>10. CASE SetCommercialConfig(c) \/ EnsureAgency(c)
  <2>1. \E at, from : Go(c, Configuring(at, from)) /\ at \in {"ensure", "terms"}
    BY <1>10 DEF SetCommercialConfig, EnsureAgency, Start
  <2>2. \A at, from : Configuring(at, from).at = at BY DEF Configuring, NewCall
  <2> QED BY <1>1, <2>1, <2>2
<1>11. CASE SetTerms(c)
  <2>1. Go(c, AfterTerms(call[c])) BY <1>11 DEF SetTerms
  <2>2. AfterTerms(call[c]).at \in {"idle", "read"} BY IdleFields, AtFields DEF AfterTerms
  <2> QED BY <1>1, <2>1, <2>2
<1>12. CASE LoadForActivation(c)
  <2>1. Go(c, AfterLoad(call[c].op)) BY <1>12 DEF LoadForActivation
  <2>2. AfterLoad(call[c].op).at \in {"idle", "read", "stamp"} BY IdleFields, AtFields DEF AfterLoad
  <2> QED BY <1>1, <2>1, <2>2
<1> QED BY <1>2, <1>3, <1>4, <1>5, <1>6, <1>7, <1>8, <1>9, <1>10, <1>11, <1>12

\* A call at one of these points settles nothing.
LEMMA HasNothingToSettle ==
    ASSUME NEW k, NEW rows,
           k.at \notin {"weigh", "count", "read", "move", "find", "create", "initiate"}
    PROVE  ~Settles(k, rows)
BY DEF Settles

LEMMA SettlingKept == ASSUME Inv, Callbacks, Naming, Settling, Next PROVE Settling'
<1> PICK c \in Calls :
        \/ Submit(c) \/ Approve(c) \/ Reject(c) \/ RequestResubmission(c)
        \/ SuspendAgency(c) \/ ReactivateAgency(c) \/ Read(c) \/ Move(c) \/ Flag(c)
        \/ InitiateChecks(c) \/ DeleteChecks(c) \/ FindCheck(c) \/ CreateCheck(c) \/ InitiateCheck(c)
        \/ ReceiveCallback(c) \/ OverrideVerification(c) \/ RecordResult(c) \/ LoseResult(c)
        \/ Weigh(c) \/ Count(c)
        \/ SetCommercialConfig(c) \/ EnsureAgency(c) \/ SetTerms(c)
        \/ GenerateAgreement(c) \/ SendAgreement(c) \/ ActivateIfSigned(c)
        \/ LoadForActivation(c) \/ Stamp(c) \/ EnsureUser(c) \/ Die(c)
  BY DEF Next
<1> DEFINE Somewhere == \E new : Go(c, new)
           Before == call[c].at \notin {"weigh", "count", "read", "move", "find", "create", "initiate"}
<1>1. ASSUME Somewhere, Before, UNCHANGED <<state, fresh, died, check>> PROVE Settling'
  BY <1>1, HasNothingToSettle, SettlingQuietly
<1>2. CASE Submit(c) \/ Approve(c) \/ Reject(c) \/ RequestResubmission(c)
           \/ SuspendAgency(c) \/ ReactivateAgency(c)
  BY <1>1, <1>2 DEF Submit, Approve, Reject, RequestResubmission, SuspendAgency, ReactivateAgency,
                    Ask, Start, OnlyCall
<1>3. CASE Flag(c) \/ LoseResult(c) \/ EnsureAgency(c) \/ SetTerms(c) \/ LoadForActivation(c)
           \/ Stamp(c) \/ EnsureUser(c)
  BY <1>1, <1>3 DEF Flag, LoseResult, EnsureAgency, SetTerms, LoadForActivation, Stamp, EnsureUser,
                    OnlyCall
<1>4. CASE InitiateChecks(c) \/ ReceiveCallback(c) \/ OverrideVerification(c)
           \/ SetCommercialConfig(c) \/ GenerateAgreement(c) \/ ActivateIfSigned(c)
  BY <1>1, <1>4 DEF InitiateChecks, ReceiveCallback, OverrideVerification, SetCommercialConfig,
                    GenerateAgreement, ActivateIfSigned, Start, OnlyCall
<1>5. CASE SendAgreement(c)
  <2>1. /\ call[c].at = "send" /\ Go(c, Idle) /\ UNCHANGED <<state, fresh, died>>
        /\ \/ \E r \in RowIds : IsNext(r) /\ check' = [check EXCEPT ![r] = NewRow("ESIGN", "IN_PROGRESS", TRUE)]
           \/ UNCHANGED check
    BY <1>5 DEF SendAgreement
  <2>2. \A r \in RowIds : check[r].checkType \in CheckTypes \/ check'[r].checkType \in CheckTypes
                              => check'[r] = check[r]
    BY <2>1, CallTyped DEF IsNext, NewRow, CheckTypes
  <2>3. ~Settles(call[c], check) BY <2>1, HasNothingToSettle
  <2> QED BY <2>1, <2>2, <2>3, OtherRows, SettlingStep
<1>6. CASE Die(c)
  <2>1. died' = TRUE BY <1>6 DEF Die
  <2> QED BY <2>1 DEF Settling
<1> QED BY <1>2, <1>3, <1>4, <1>5, <1>6, MoveSettles, EvaluationSettles, DeleteChecksSettles,
           FindCheckSettles, CreateCheckSettles, InitiateCheckSettles, RecordResultSettles

LEMMA SettlingStays ==
    Inv /\ Callbacks /\ Naming /\ Settling /\ [Next]_vars => Naming' /\ Settling'
<1> SUFFICES ASSUME Naming, Settling, UNCHANGED vars PROVE Naming' /\ Settling'
  BY NamingKept, SettlingKept
<1>1. Naming' BY DEF vars, Naming
<1>2. Complete' <=> Complete BY DEF vars, Complete, RowsOf
<1>3. Settling' BY <1>2 DEF vars, Settling
<1> QED BY <1>1, <1>3

LEMMA SettlingInvariance == Spec => [](Naming /\ Settling)
BY InitIsSettling, SettlingStays, Invariance, PTL DEF Spec

\* No result is forgotten: when all requests have ended, none half way, an
\* application whose checks are all decided, one of them since it came there,
\* is no longer in VERIFICATION, however results, evaluations, resubmissions
\* and deletions overlap (processWebhook, overrideVerification,
\* evaluateAutoProgression, reinitiateChecks).
THEOREM ResultsActedOnHolds == Spec => []ResultsActedOn
<1>1. Settling => ResultsActedOn
  <2>1. \A c \in Calls : call[c].at = "idle" => ~Settles(call[c], check) BY HasNothingToSettle
  <2> QED BY <2>1 DEF Settling, ResultsActedOn, Quiet
<1> QED BY <1>1, SettlingInvariance, PTL
=============================================================================
