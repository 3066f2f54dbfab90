------------------------------ MODULE CrsOutbox ------------------------------
(***************************************************************************)
(* The CRS outbox (server/src/modules/finance/crsOutbox.service.ts) and    *)
(* the CRS as its adapter shows it (server/src/lib/crs/index.ts).          *)
(*                                                                         *)
(* A financial change writes its event in its own transaction.  Any number *)
(* of flushes may then run at once, one after every financial change and   *)
(* one per request of an admin.  A flush lists the pending events with     *)
(* their attempts, and then posts them one by one, writing back by primary *)
(* key what it computed from what it listed.                               *)
(*                                                                         *)
(* As in Booking, a faulty variant F-fault may precede a definition F.     *)
(***************************************************************************)
EXTENDS Naturals, FiniteSets

CONSTANTS
    NumEvents,    \* financial events, numbered in the order of createdAt
    Postings,     \* correlation id and event type, as the CRS sees them
    PostingOf,    \* the posting an event is delivered as
    Flushers,     \* runs of flushOutbox
    Nothing,      \* what the CRS holds for a posting it never received
    MaxAttempts,  \* MAX_ATTEMPTS
    Limit,        \* events one flush takes
    MaxDeaths     \* bound: flushes that stop half way

Events == 1 .. NumEvents

ASSUME OutboxAssumption ==
    /\ NumEvents \in Nat
    /\ PostingOf \in [Events -> Postings]
    /\ Nothing \notin Events
    /\ MaxAttempts \in Nat \ {0}
    /\ Limit \in Nat \ {0}
    /\ MaxDeaths \in Nat

VARIABLES
    recorded,    \* the financial change of the event is committed
    event,       \* CrsOutboxEvent rows
    crs,         \* the CRS: the event it accepted for each posting
    flush,       \* the flushes in flight
    tries,       \* history: how often the event was posted
    overlapped,  \* history: two flushes had the event at once
    lost,        \* history: postings of the event whose outcome was not recorded
    deaths       \* history: flushes that stopped half way

history == <<tries, overlapped, lost, deaths>>
vars == <<recorded, event, crs, flush, tries, overlapped, lost, deaths>>

Statuses == {"NONE", "PENDING", "SENT", "FAILED"}
Row == [status: Statuses, attempts: 0 .. MaxAttempts]
Flush == [pc: {"idle", "post", "markSent", "markTried"}, at: Events \cup {0},
          batch: SUBSET Events, read: [Events -> 0 .. MaxAttempts]]
Idle == [pc |-> "idle", at |-> 0, batch |-> {}, read |-> [e \in Events |-> 0]]

TypeOK ==
    /\ recorded \in [Events -> BOOLEAN]
    /\ event \in [Events -> Row]
    /\ crs \in [Postings -> Events \cup {Nothing}]
    /\ flush \in [Flushers -> Flush]
    /\ tries \in [Events -> Nat]
    /\ overlapped \in [Events -> BOOLEAN]
    /\ lost \in [Events -> BOOLEAN]
    /\ deaths \in Nat

Init ==
    /\ recorded = [e \in Events |-> FALSE]
    /\ event = [e \in Events |-> [status |-> "NONE", attempts |-> 0]]
    /\ crs = [p \in Postings |-> Nothing]
    /\ flush = [f \in Flushers |-> Idle]
    /\ tries = [e \in Events |-> 0]
    /\ overlapped = [e \in Events |-> FALSE]
    /\ lost = [e \in Events |-> FALSE]
    /\ deaths = 0

-----------------------------------------------------------------------------
\* enqueueCrsEvent in the transaction of its financial change, which commits
\* (ok) with the event or rolls back with it.
WrittenOutside(row, ok) == [row EXCEPT !.status = "PENDING"]
Written(row, ok) == IF ok THEN [row EXCEPT !.status = "PENDING"] ELSE row

Record(e) ==
    /\ event[e].status = "NONE" /\ \A d \in 1 .. e - 1 : event[d].status # "NONE"
    /\ \E ok \in BOOLEAN :
          /\ recorded' = [recorded EXCEPT ![e] = ok]
          /\ event' = [event EXCEPT ![e] = Written(@, ok)]
    /\ UNCHANGED <<crs, flush, history>>

-----------------------------------------------------------------------------
(* flushOutbox.                                                            *)

DueAnyStatus(row) == row.status # "NONE" /\ row.attempts < MaxAttempts
Due(row) == row.status = "PENDING" /\ row.attempts < MaxAttempts

\* An event flush f has listed and not finished with.
Has(f, e) == e \in flush[f].batch \/ (flush[f].pc # "idle" /\ flush[f].at = e)

\* The Limit oldest events that are due.
List(f) ==
    /\ flush[f].pc = "idle"
    /\ LET due == {e \in Events : Due(event[e])}
           batch == {e \in due : Cardinality({d \in due : d < e}) < Limit}
       IN  /\ due # {}
           /\ flush' = [flush EXCEPT ![f] =
                 [Idle EXCEPT !.pc = "post", !.batch = batch,
                              !.read = [e \in Events |-> event[e].attempts]]]
           /\ overlapped' = [e \in Events |-> \/ overlapped[e]
                                              \/ e \in batch /\ \E g \in Flushers \ {f} : Has(g, e)]
    /\ UNCHANGED <<recorded, event, crs, tries, lost, deaths>>

\* The CRS keeps the first event it accepts for a posting.
Accept(e) == [crs EXCEPT ![PostingOf[e]] = IF @ = Nothing THEN e ELSE @]

AfterPostUnchecked(answered) == "markSent"
AfterPost(answered) == IF answered THEN "markSent" ELSE "markTried"

\* postEvent for the oldest event left: accepted and answered, accepted with
\* the answer lost, or refused.
Post(f) ==
    /\ flush[f].pc = "post"
    /\ \E e \in flush[f].batch :
          /\ \A d \in flush[f].batch : e <= d
          /\ \E accepted, answered \in BOOLEAN :
                /\ answered => accepted
                /\ crs' = IF accepted THEN Accept(e) ELSE crs
                /\ flush' = [flush EXCEPT ![f].pc = AfterPost(answered), ![f].at = e,
                                          ![f].batch = @ \ {e}]
                /\ lost' = [lost EXCEPT ![e] = @ \/ (accepted /\ ~answered)]
          /\ tries' = [tries EXCEPT ![e] = @ + 1]
    /\ UNCHANGED <<recorded, event, overlapped, deaths>>

\* On to the next event of the batch, if any.
Advance(f) ==
    flush' = [flush EXCEPT ![f] = IF @.batch = {} THEN Idle ELSE [@ EXCEPT !.pc = "post", !.at = 0]]

\* The write of SENT may itself fail, and is then treated as a failed post.
MarkSent(f) ==
    /\ flush[f].pc = "markSent"
    /\ LET e == flush[f].at
       IN  \/ /\ event' = [event EXCEPT ![e] = [status |-> "SENT", attempts |-> flush[f].read[e] + 1]]
              /\ Advance(f)
              /\ UNCHANGED lost
           \/ /\ flush' = [flush EXCEPT ![f].pc = "markTried"]
              /\ lost' = [lost EXCEPT ![e] = TRUE]
              /\ UNCHANGED event
    /\ UNCHANGED <<recorded, crs, tries, overlapped, deaths>>

Tried(read) == read + 1

\* The rebook queue's word, unknown to CrsOutboxStatus.
ParkedAbandoned(n) == IF n >= MaxAttempts THEN "ABANDONED" ELSE "PENDING"
ParkedEarly(n) == IF n + 1 >= MaxAttempts THEN "FAILED" ELSE "PENDING"
ParkedLate(n) == IF n > MaxAttempts THEN "FAILED" ELSE "PENDING"
Parked(n) == IF n >= MaxAttempts THEN "FAILED" ELSE "PENDING"

MarkTried(f) ==
    /\ flush[f].pc = "markTried"
    /\ LET n == Tried(flush[f].read[flush[f].at])
       IN  event' = [event EXCEPT ![flush[f].at] = [status |-> Parked(n), attempts |-> n]]
    /\ Advance(f)
    /\ UNCHANGED <<recorded, crs, history>>

\* The process stops, or the write after a failed post throws: the rest of the
\* batch is dropped.
Die(f) ==
    /\ flush[f].pc # "idle" /\ deaths < MaxDeaths
    /\ flush' = [flush EXCEPT ![f] = Idle]
    /\ lost' = [e \in Events |-> lost[e] \/ flush[f].at = e]
    /\ deaths' = deaths + 1
    /\ UNCHANGED <<recorded, event, crs, tries, overlapped>>

Step(f) == Post(f) \/ MarkSent(f) \/ MarkTried(f)

Next ==
    \/ \E e \in Events : Record(e)
    \/ \E f \in Flushers : List(f) \/ Step(f) \/ Die(f)

Spec == Init /\ [][Next]_vars

\* A flush in flight goes on; and there is always another flush, since one
\* follows every financial change and an admin may ask for one.
FairSpec ==
    /\ Spec
    /\ \A f \in Flushers : WF_vars(Step(f))
    /\ WF_vars(\E f \in Flushers : List(f))

-----------------------------------------------------------------------------
(* Properties.                                                             *)

Quiet(e) == \A f \in Flushers : ~Has(f, e)

\* Nothing outside the outbox went wrong for e: its flushes never overlapped,
\* and no outcome of a post got lost.
Undisturbed(e) == ~overlapped[e] /\ ~lost[e]

\* An event marked SENT was posted and accepted by the CRS, whatever flushes
\* overlap, stop half way or write back late (flushOutbox, try branch).
SentIsPosted == \A e \in Events : event[e].status = "SENT" => crs[PostingOf[e]] # Nothing

\* Why: rows, flushes in flight and the CRS only speak of committed changes,
\* and a flush about to write SENT, however late, has a posting in the CRS.
Provenance ==
    /\ SentIsPosted
    /\ \A e \in Events : event[e].status # "NONE" <=> recorded[e]
    /\ \A f \in Flushers :
          /\ \A e \in flush[f].batch : recorded[e] /\ flush[f].read[e] < MaxAttempts
          /\ flush[f].pc \in {"markSent", "markTried"} =>
                /\ flush[f].at \in Events /\ recorded[flush[f].at]
                /\ flush[f].read[flush[f].at] < MaxAttempts
          /\ flush[f].pc = "markSent" => crs[PostingOf[flush[f].at]] # Nothing
    /\ \A p \in Postings :
          crs[p] # Nothing => recorded[crs[p]] /\ PostingOf[crs[p]] = p

\* An undisturbed event is parked only after exactly MaxAttempts refusals, and
\* is then really unknown to the CRS; its attempts count its posts.
ParkedIsUndelivered ==
    \A e \in Events :
        Undisturbed(e) /\ Quiet(e) =>
            /\ event[e].attempts = tries[e]
            /\ event[e].status = "FAILED" => tries[e] = MaxAttempts /\ crs[PostingOf[e]] # e

\* An event marked SENT loses the mark only to a flush that had listed it while
\* another flush had it too and is still to write what it saw (flushOutbox, both
\* updates).  No lost answer, failed write, stop or later flush takes it back.
SentStays ==
    [][\A e \in Events :
          event[e].status = "SENT" /\ event'[e].status # "SENT" => overlapped[e] /\ ~Quiet(e)]_vars

\* Every event comes to rest, delivered or parked, even when flushes leapfrog
\* one another and write back old attempts.
EventsSettle ==
    \A e \in Events : event[e].status = "PENDING" ~> [](event[e].status \in {"SENT", "FAILED"})

\* The outbox implements the delivery it stands for.
Delivery == INSTANCE CrsDelivery WITH
    committed <- {PostingOf[e] : e \in {d \in Events : recorded[d]}},
    ledger <- {p \in Postings : crs[p] # Nothing}
ImplementsDelivery == Delivery!Spec

-----------------------------------------------------------------------------
(* What the documents and comments say, and the code does not keep.        *)

\* docs/API-CONTRACTS.md, section 3: the CRS receives every financial event.
\* Two events of one booking and one type are one posting.
EveryEventReceived ==
    \A e \in Events : event[e].status = "SENT" => crs[PostingOf[e]] = e

\* docs/API-CONTRACTS.md, section 3: "failed events are retryable via POST
\* /api/finance/crs/flush".  Flushes keep coming, so one takes a FAILED event up.
FailedIsRetried == \A e \in Events : event[e].status = "FAILED" ~> ~Quiet(e)
=============================================================================
