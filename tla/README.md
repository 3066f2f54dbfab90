# PARAKKAT B2B: specifications

TLA+ specifications of the PARAKKAT B2B portal, the TLC configurations that check them on small
instances and the proofs TLAPS checks for every instance. Paths below are relative to the
repository; `booking.service.ts` without a directory is
`server/src/modules/booking/booking.service.ts`, and likewise for the other services.

## 1. The system

The portal is one Node process (Express, Prisma, PostgreSQL) and a React client. Travel agencies
are onboarded, verified and activated; their agents then book resort rooms on credit or against
payment. Four parties lie outside: **AxisRooms** (the resorts' reservations), the **payment
gateway**, the **CRS** (the financial ledger of record) and **Digio** (identity checks and
e-signature). Two Digio callbacks and one gateway callback come in over HTTP.

Every operation is an asynchronous handler. It reads rows, awaits, calls outside parties and writes
rows by primary key; few writes carry a condition on the row's current state, and transactions
cover only a handler's last step. There is no worker, no scheduler and no lock: the two queues (rebook tasks, CRS
outbox) are drained by an admin's request (`POST /api/bookings/admin/rebook/run`, `POST /api/finance/crs/flush`)
and, for the outbox, inline after each financial change. Two requests therefore interleave at every
`await`, and a request may stop at any of them.

| component | state | operations | what makes it correct |
|---|---|---|---|
| booking lifecycle | `Booking.state`, `RebookTask` | create (one line, cart), pay (line, group), lazy expiry, commit, rebook (queue, forced), cancel (agent, no-show, resort) | pay first; bill only what landed; a charge ends in a room, the queue or a refund; terminal states are final |
| finance ledger | `Invoice`, `Payment`, `CreditNote` | obligation, collection, cancellation, settlement, offline settlement, advance, chargeback | invoices agree with the cash that came in; no payment counted twice; what is owed is what was billed and not settled |
| credit gate, prices | derived: outstanding balance, limit, rates | price, evaluate on create | an agency never owes more than its limit; tax and refunds add up |
| CRS outbox | `CrsOutboxEvent` | enqueue in the change's transaction, flush, retry, park | every committed event reaches the CRS, at most once in effect, and parked events are the undelivered ones |
| inventory | `Allotment`, `ChannelPolicy` | create, delete, assert bookable | no more rooms sold than the channel allows |
| application lifecycle | `AgencyApplication.state` | transition table, submit, approve, reject, suspend | only listed transitions; terminal states are final |
| verification, review | `Verification` rows | initiate, callback, override, resubmit, automatic progression | an application moves on exactly when its checks allow |
| commercial, agreement | `CommercialConfiguration`, agreement document | configure, send, sign, activate | one current configuration; active only with terms and a stored signature |
| sessions | `RefreshToken`, `OtpCode`, `User` | login, code, rotate, revoke, change password | a token or code is used once; reuse revokes the family; a suspended user is out |
| web client | per tab: access token, page, cart; per browser: the cookie | sign in, refresh, add, confirm | one session per browser; a cart is booked once |

How they interact: bookings call AxisRooms and the ledger (obligation, collection, cancellation);
the ledger writes outbox events in its own transactions and calls the gateway outside them; the
credit gate reads the ledger; activation creates the agency, its terms and its users, which sessions
and bookings then require; verification and agreement move the application by transitions.

What is hard here is the same everywhere: a state read before an `await` and acted on after it, an
outside effect before the transaction that records it, retries of what may already have happened,
and queues that somebody has to drain. `PROJECT.json` lists these hazards at their lines.

## 2. The modules

1. `Booking`: the lifecycle of bookings with the collection, obligation and cancellation steps it calls.
2. `CrsOutbox`: the outbox rows, overlapping flushes and the CRS, implementing the abstract `CrsDelivery`.
3. `Ledger`: invoices with amounts, settlements, offline payments, advances, chargebacks.
4. `Application`: submission, verification, review, terms, agreement, activation and suspension,
   implementing `Lifecycle`, the transition table as concurrent requests leave it.
5. `Sessions`: login, second factor, refresh rotation and reuse detection, password change, and what an
   administrator does to an account. `Browser` composes it with the web client: tabs, the cookie they share,
   replies that are lost or cross.
6. `Charges`: the pure functions of a booking's money (dates, price, tax, cancellation), without state.
   `Admission` extends it: the cart of the search page, the channel's policy, allotments and the credit gate,
   checked first and consumed later.

Each has an `MC` module and configurations for TLC, and a module of proofs. `Sums` says what a sum is for `Ledger` and
`Admission`, and `SumsProofs` has its laws.

`Booking` and `Ledger` model the same functions of `finance.service.ts` twice, on purpose: the first
by status and interleaved with the booking around them, the second with amounts and among themselves.
Their composition would multiply two state spaces and add nothing either misses: they meet only where
a cancellation reads an invoice, and both have that step. `Admission` meets `Booking` the same way: it has
many bookings and what they take from each other, and a booking's own steps are single actions in it.

What is left, in order of worth: versions of the commercial terms and a second application with the same PAN in `Application`; dunning's
choice of agencies.

## 3. Booking

`Booking.tla` has one action per stretch of code between two awaits that matter. `booking`, `task`
and `invoice` are the database rows (at most one task and one invoice per booking: both have a unique
`bookingId`); `resv`, `captured` and `refunded` are what AxisRooms and the gateway have
really done, which no transaction takes back; `req` holds each request's program counter and what it
read earlier. Requests are `Callers` (agents and admins); those in `Runs` may also process the rebook
queue.

* **Create.** `BeginCreate` fixes the lines of a booking or cart and the gate's branch;
  `CreateCreditLine` and `CreatePrepayLine` create one line each, as the loops do.
* **Pay.** `BeginPay`, `LoadForPay`, `Capture`, `RecordPayment`, `MarkPaid`. A line not awaiting
  payment any more throws, and drops the rest of the cart. `RecordPayment` is one
  transaction; the unique key fails it when an invoice exists. The transient `CONFIRMED` passed to
  the commit is never stored, and `DRAFT` is never used: neither is a state of the model.
* **Expire.** `Lapse` is the passing of the hold's TTL; only a read (`GetBooking`) or a payment
  (`LoadForPay`) notices, and then writes `EXPIRED` by key (`Expire`).
* **Commit.** `Reserve` may make the reservation and still report an error; `MarkCommitted` may
  fail, and goes the failure way too, because the write is inside the same `try`.
  `ReadTask`, `MarkFailed`, `UpsertTask` are `handleCommitFailure`.
* **Rebook.** `ListQueue`, `PickTask`, `RetryRebook`, `ResolveTask`, and `RecordObligation` for a
  credit booking that landed late.
* **Cancel.** `Cancel` takes the branch from the state read; then `AxisCancel`, the three steps of
  `applyCancellation` (`ReadInvoice`, `Refund`, `AdjustInvoice`), `CloseTask`, `MarkCancelled`.
* **Die.** A request stops between two awaits: the process ends, or a call throws uncaught.

Abstracted: prices (a cancellation's charge is nothing, a part or all), notifications, audit rows and
broadcasts (none throws into the caller), ownership checks (one agency), CRS events (module 2).
A cancellation releases whatever reservation the booking's correlation id holds, where the code names
the reservation by reference; they differ only after a release, a new reservation and a second
cancellation that read the old reference, and no checked property speaks of that case.

### Runs

All are instances of `MCBooking`. Bounds: `MaxAttempts` is the server's own ceiling, made small;
`RetryBound` stops admins retrying for ever; `MaxCaptures` and `MaxDeaths` bound gateway charges and
deaths per booking. Two requests are enough for every pairwise race, and a booking's rows are independent
of another's: only a cart or a run of the queue visits several, one after the other. TLC's instances have one; the theorems
below are about any number, carts of several lines and long queues included. Deadlock is not checked: with every booking
final and the bounds used up, the system does stop.

| run | instance | result |
|---|---|---|
| `races` | 1 booking, 2 requests, one of them also a run of the queue, 2 captures, 3 retries, 1 death, `FairSpec` | the five invariants, `TerminalIsFinal` and `RebookSettles` hold |
| `charge_race`, `ghost_room` | 1 booking, 1 or 2 callers | each violates the one sentence it checks |

The properties split by what they assume. `TypeOK`, `PayFirst` and `BillOnlyLanded` (and `Causality`, which is
proved and therefore no longer run) hold whatever interleaves and whoever dies. `NoLostCharge` and `CommittedIsBacked` speak of a booking that
is *quiet* (no request is on it) and *undisturbed* (no two requests ever met on it, none died): they
are what the sequential code gets right, failed pushes, retries and partial failures included. The
history variables `raced` and `deaths` only record this. `TerminalIsFinal` needs only that no two
requests met, or that those that met are gone: a retry that raced a cancellation may write `COMMITTED` over `CANCELLED`
as it ends, but no later request takes up a booking left `CANCELLED` or `EXPIRED`.

The two violations are statements of the repository's own words that the code does not keep.
`charge_race`: a cancel that read `AWAITING_PAYMENT`, a payment that commits, the cancel's write; the
customer is charged, the booking cancelled, nothing refunded. `ghost_room`: a push that lands and
times out, then a cancel, which has no reservation reference to release. The same missing guards
allow more that no run checks separately: a stop between capture and record, two cancels that
both refund, a retry that commits a booking refunded meanwhile.

**Fairness.** `FairSpec` assumes that a request in flight goes on (`Step`; the event loop) and that
someone keeps running the queue (`ListQueue`). The second is an assumption about operators, not the
server: `docs/RUNBOOK.md` says there is no worker, and `docs/DR-BACKUP-RUNBOOK.md` makes it their duty.
Nothing is assumed of new calls, deaths or the resort's answers: a resort that refuses for
ever leads to `ABANDONED`, which is why `RebookSettles` holds.

### Proofs

`BookingProofs` proves, for any sets of bookings, callers and runs and any bounds,

* `TypeCorrect`: `Spec => []TypeOK`;
* `CausalityHolds`: `Spec => []Causality`, the inductive invariant;
* `PayFirstHolds` and `BillOnlyLandedHolds`, its consequences;
* `OrderHolds`: `Spec => []Order`, a second inductive invariant;
* `NoLostChargeHolds`, `CommittedIsBackedHolds` and `TerminalIsFinalHolds`, its consequences.

`PayFirst` alone is not inductive: a request that read long ago may still write. `Causality` adds what
each pending write may rely on: a request about to reserve or to write `PAID`, `COMMITTED` or
`COMMIT_FAILED` has a booking that is on credit or funded (`Committable`), one about to bill has a
reservation, and one about to adjust an invoice read as `PAID` finds it `PAID` or `REFUNDED`. Those
facts are stable, since no action undoes a capture, deletes an invoice or changes a booking's mode; so
old reads stay good enough. There is a lemma per action, `OthersKeep` for the requests that do not move, and
assumptions only on the constants (`BoundsAssumption`, `NoneAssumption`).

`Order` is about one booking at a time, and says nothing of one that requests met on (`raced`). Otherwise
one request at most is on the booking, and none once it is cancelled or expired, wherever requests died; if nobody died
either, `Working` says for each point that request can be at what was captured, billed, reserved and queued there, and
`Rests` what is so once it has ended. Both are needed together: what a booking at rest holds is what its next request
starts from. A step of a request on another booking keeps it (`SparedKeepsOrder`), a step that makes two requests meet
makes it say nothing, so each action has only its own booking and its own next point to account for.

Only model-checked: `RebookSettles` (liveness).

## 4. CrsOutbox and CrsDelivery

`CrsOutbox.tla` models `crsOutbox.service.ts` and the CRS as its adapter (`lib/crs/index.ts`) shows
it. `event` are the `CrsOutboxEvent` rows, numbered by `createdAt`; `recorded` says whether the financial
change of an event committed; `crs` is what the CRS accepted, one event for each posting (correlation
id and event type). `flush` are the runs of `flushOutbox` in flight, with what each listed. `tries`,
`overlapped`, `lost` and `deaths` are history.

`Record` is a transaction that enqueues its event and commits or rolls back. `List` takes the due events
with their attempts; then for each, in order, `Post` (accepted and answered, accepted with the answer
lost, refused), `MarkSent` (whose failure the `catch` treats as a failed post) or `MarkTried`, which
writes the attempts computed from what was *listed*. `Die` drops the rest of a batch.

`CrsDelivery.tla` is the promise with no queue in it: the CRS holds only postings of committed changes and
forgets none.

| run | instance | result |
|---|---|---|
| `outbox` | 2 events of one posting, 2 flushes, 2 attempts, 1 death, `FairSpec` | the five safety properties and `EventsSettle` hold |
| `swallowed` | the same | `EveryEventReceived` is violated |
| `parked` | 1 flush at a time, no death, `FairSpec` | `FailedIsRetried` is violated |

Two flushes are enough for stale write-backs to cross; two attempts separate the first from the last. `Limit`
is 2 and does not bind, so the starvation of events behind 50 failing ones is outside the instance (it ends
anyway, since each parks). Deadlock is not checked: all events may be settled.

`ParkedIsUndelivered` assumes an event whose flushes never overlapped and whose outcomes
were never lost. `SentStays` says who may take `SENT` back: only a flush that overlapped another on the event and
writes what it saw before. `SentIsPosted`, `ImplementsDelivery` and `EventsSettle` hold even then, because the CRS drops a repeated posting and any
further flush settles the row again. `swallowed` shows the price: two part payments of one invoice are one
posting, so the second is marked `SENT` and the CRS never learns of it. `parked` shows that an event refused
`MaxAttempts` times is `FAILED` for good, whatever flushes follow: `flushOutbox` lists `PENDING` rows only and no code
resets one, although `docs/API-CONTRACTS.md:57` says that "failed events are retryable via `POST /api/finance/crs/flush`"
and `docs/RUNBOOK.md:56-57` sends operators there. `FailedIsRetried` asks for no more than that a flush takes it up again.

**Fairness.** A flush in flight goes on (event loop), and flushes keep coming: each financial change runs one
inline, and an admin may post to `/api/finance/crs/flush`. Nothing is assumed of the CRS's answers.

**Proofs** (`CrsOutboxProofs`, any number of events, postings and flushes). `Provenance` is the inductive
invariant: rows exist exactly for committed changes, a flush in flight only holds such rows with attempts
left, one about to write `SENT` has a posting in the CRS, and the CRS only knows postings of
committed changes. `TypeCorrect`, `ProvenanceHolds` and `SentIsPostedHolds` follow; `DeliveryImplemented` is the
refinement, step by step: `Record` that commits is `Commit`, `Post` that is accepted is `Deliver`, the rest stutters.
`SentStaysHolds` needs `InvExclusive`: an event
that flushes did not overlap on has one holder at most and is `PENDING` as long as it has one, whoever stopped and
whatever was lost. `ParkedIsUndeliveredHolds` needs `InvUndisturbed`: an undisturbed event is in the batch of one flush at most, what that flush read is what the row still
says, and the row is behind the posts by just the one whose outcome is about to be written. Only `EventsSettle` (liveness) is
left to TLC.

## 5. Ledger

`Ledger.tla` models the invoices of one agency with amounts. `invoice` are `Invoice` rows (with whether the
booking is alive and what the credit notes add up to), numbered in FIFO order (`dueDate`, `issuedAt`);
`payments` are `Payment` rows; `captured`, `refunded` are the gateway's and `received` what offline
settlements declared. An operation is a read (`BeginSettle`, `BeginCancel`, `BeginOffline`, `BeginAdvance`
and `ReadPool`, `BeginChargeback`) and a later transaction (`RecordSettle`, `Adjust`, `RecordOffline`,
`ApplyAdvance`, `RecordChargeback`) that writes absolute amounts computed from what was read. `Issue`
and `Collect` create rows; their interleavings are `Booking`'s.

The capture of a settlement is one step with its read: nobody else sees it, and a death between the two
is a call that never came. The nested loop of `applyAgencyAdvance` is `FifoTakes`: the one allocation in
which, for each invoice and advance, the invoice is filled by the advances so far or the advance is spent on the
invoices so far; an offline payment is the case of a single fund. `Relinked` is what the loop does to an
advance row: left alone, shrunk, or linked to the last invoice it pays. Amounts are whole units, so the
code's tolerance of 0.001 and its rounding are exact comparisons.

Left out: GST fields and numbering of documents, CRS events (module 2), notifications. A reference is only
its method, as when an admin leaves it blank, so two such payments of one invoice share it.

| run | instance | result |
|---|---|---|
| `ledger` | 2 invoices of price 2, 2 requests, 3 calls, offline payments up to 3, 1 death | all nine properties hold |
| `half_paid` | 1 request, no death | `CancelledOwesCharge` is violated |

Price 2 gives part payments and three charges (none, part, full); an offline payment of 3 fills one invoice
and half of the next, or leaves an advance that is split; three calls are enough to record an
advance, apply it and dispute it. Deadlock is not checked: the calls are bounded.

`raced` names the invoices, and the pool of advances, that two requests had in hand at once.
`StatusReflectsPaid` and `GatewayBooked` hold regardless: a stale write may lose an *amount* on an invoice, never a
payment row. `LedgersAgree`, `OpenIsOwed`, `ChargedBackOnce`, `RefundIsNoted`, `OldestFirst` and
`OfflineBooked` are per invoice (or for the pool) where no two requests met, with other invoices
interleaving freely.

What the code does not keep, beyond `half_paid`: two concurrent applications of one advance pay two invoices with it
(hence the assumption in `OfflineBooked`, against the comment "no new cash is created"); an advance may be charged
back, then applied and charged back again, since applying changes the reference it is recognised by; a
chargeback reopens a `REFUNDED` invoice, against the comment "unless it was a refund basis"; pre-paid
invoices never get an `amountPaid`, so the reconciliation reports every one of them; dunning looks
only at `ISSUED`, so a part payment stops reminders and suspension.

**Proofs** (`LedgerProofs`, any price, number of invoices and requests). All nine properties. `TypeCorrect` and
`StatusReflectsPaidHolds` need only their conjunction and one fact about requests in flight: a settlement is
not empty and a charge at most the price. They need nothing of the *current* row when a stale one is written back,
which is why races cannot break them. The others rest on `Book`, which does say what a stale row is worth: every payment row
is well formed and has a number of its own, each request holds what its operation can have read (`CallFits`), an invoice
that was not raced is held by one request at most (`Exclusive`), and what that request read of it is what it still is (`Fresh`).
Each property then adds its own part, per invoice or for the pool:

* `OpenIsOwedHolds`: `Sound` rows, an open one with less paid than owed; every step is a move of such rows (`AllMove`).
* `OldestFirstHolds`, an action property: what `FifoTakes` gives an invoice is all it needs unless the funds end there.
* `ChargedBackOnceHolds`: `Once`, nor is a payment in hand to be charged back that was before.
* `RefundIsNotedHolds`: `NotedIs`, the one refund row and the credit note are written together, and then not again.
* `GatewayBookedHolds`: `Booked`, what the gateway has is the rows *plus what requests in flight are about to write*.
* `OfflineBookedHolds`: `OfflineKept`; what an allocation takes from the advances is what it gives the invoices, so splitting
  and linking them moves money and makes none.
* `LedgersAgreeHolds`: `Matched`, and `Origins`: every chargeback has the payment it disputes.

The last three add up rows. `SumOf(f)` (module `Sums`) is the cardinality of the units `<<x, n>>` with `n` in `1 .. f[x]`, which counts the same as a
fold and is no recursion, so that the laws of sums follow from those of finite sets (`SumsProofs`): a sum splits over disjoint parts
(`SumSplit`), is regrouped (`SumGrouped`), and that an allocation is balanced follows from them. The assumptions are
on the constants only.

## 6. Application and Lifecycle

`Lifecycle.tla` is the transition table of `lifecycle.machine.ts` and the promise that survives concurrency: an
application enters a state only if the table lets some state it *has been* in lead there.

`Application.tla` is one application with everything that moves it. `state` is its `lifecycleState`; `check` are
its `Verification` rows in order of creation, agreements (`ESIGN`) among them; `agency` is the `Agency` with whether it has
current terms and its first user; `call` holds the requests and callbacks in flight. `seen`, `signers`, `fresh`,
`strays` and `died` are history. An application begins as a draft or, by `createAgency`, as an active one.

* **Transition.** `transitionApplication` reads and validates (`Ask`, or `Read` for a request that did something
  before), then writes by id (`Move`), whatever the state is by then. `AfterMove` is what each caller does next.
* **Checks.** `DeleteChecks`, then for each mandatory check `FindCheck`, `CreateCheck` and `InitiateCheck`, whose
  failure is swallowed and leaves the row `PENDING`.
* **Results.** `ReceiveCallback` and `OverrideVerification` find a row; `RecordResult` writes it, or `LoseResult` when a
  resubmission has deleted it; `Weigh` and `Count` are the two reads of `evaluateAutoProgression`.
* **Terms.** `SetCommercialConfig` reads the state, then `EnsureAgency`, `SetTerms` and, for the first assignment, the
  transition.
* **Agreement and activation.** `GenerateAgreement` and `SendAgreement`; a signature or `ActivateIfSigned` leads to
  `LoadForActivation`, the transition unless the application is active, `Stamp` and `EnsureUser`.
* **Suspension.** `SuspendAgency` and `ReactivateAgency` move the application, then set the agency's status (`Flag`).
* **Die.** A request stops half way, once per behaviour. The loser of two creations of the agency stops by the
  unique `applicationId`.

Abstracted: automatic progression is on (the default); the checks of an independent agent are a shorter list; whether
checks passed only decides an audit event, so one verdict stands for all in the instance; input validation and the
duplicate check only reject; documents, notifications and audit rows are left out, as are versions and values of the
terms, `deleteAgency` and edits of a draft.

| run | instance | result |
|---|---|---|
| `application` | 2 requests, 2 checks, 3 rows, 1 stray, 1 death | the five invariants and `ImplementsLifecycle` hold |
| `unsigned` | 1 request, 1 check, 1 row | `ActiveIsSigned` is violated |

Two checks let one be decided while the other is missing, pending or recreated, and three rows leave one for a
duplicate, a resubmission or the agreement. `Vetting` limits new requests about checks to the two states in which they
matter. After the first *stray* (a transition written to a state it was not validated for, or a reactivation of what
was not suspended) only the requests in flight go on, so the instance covers every first stray, and not sequences of
several; the proofs do. Deadlock is not checked: a rejected application rests, and rows run out.

`NoStageSkipped`, `AgencyFollows` and `ImplementsLifecycle` hold whatever interleaves. `ResultsActedOn` and
`SignedIsActivated` speak of a moment with no request in flight and no death; the second also of no stray: a signature
that arrives while an admin reactivates the unsigned agency is recorded and activates nothing.

`unsigned` needs one request: `reactivateAgency` asks for `ACTIVE` from whatever state the application is in, and the
table allows an admin `COMMERCIAL_CONFIGURATION` to `ACTIVE`, which is how activation gets there. The agency row exists
by then, so an agency that nobody signed for becomes active; `agency.activated` (`activatedAt`) stays unset, and the
booking layer asks for that, so it cannot book (`AgencyFollows` is why).

What the code does not keep besides, at the lines `PROJECT.json` lists: a transition legal from the *current* state
(an approval and a rejection that both read `REVIEW` both succeed, and the application leaves a terminal state);
one row per check (two initiations); agreement between the application's and the agency's suspension; Digio's verdict
on a check that was overridden while it was being initiated.

**Proofs** (`ApplicationProofs`, any number of requests, checks and rows, any number of strays). The inductive invariant joins
`NoStageSkipped` and `AgencyFollows` to what each request in flight relies on (`Carries`): one about to move carries a
state the application has been in and a rule of the table from there; one about to stamp or to move to
`ACTIVE` by a signature has a signature; one about to move to `COMMERCIAL_CONFIGURATION` has an agency with terms. `NoStageSkipped` alone
is not inductive, since `Move` writes what was validated long ago. `seen` and `signers` only grow and the agency
loses nothing, so these facts stay true while others move; that is also why stale transitions, which break so
much else, cannot skip a stage. `Callbacks` says that a signature's callback holds the row of an agreement, which may
have been deleted since. `LifecycleImplemented` follows: `Move` is `Enter`, every other step stutters.

`SignedIsActivatedHolds` and `ResultsActedOnHolds` speak of a time without requests, so their invariants say which request is
to blame before it. `Signing`: when Digio has reported a signature and the application is not yet active, some request carries the move
to `ACTIVE`; when it is active and the agency has no user yet, some request is stamping or making one. That holds because the table
leaves `COMMERCIAL_CONFIGURATION` only for `ACTIVE`, so nothing else can move the application away (`InOrder`). `Settling`: when
all checks are decided in `VERIFICATION`, some request is about to weigh them, or is initiating and will find one missing and
create it. A request that dies takes the blame with it (`died`). Nothing of this module is only model-checked.


## 7. Sessions and Browser

`Sessions.tla` is one user on the server. `tokens`, `codes` are the rows of `RefreshToken` and `OtpCode`; `pendings`
are the mfa-pending tokens given out; `calls` holds a handler per slot, with the step it is at and what it read.
`LoginRead`, `Challenge`, `VerifyRead`, `ConsumeOtpCode` and `IssueRefreshToken` are a login in one or two requests;
`RefreshRead`, then `Rotate` or `DetectReuse`, is `rotateRefreshToken`; `ChangeRead`, `ChangeUpdate`, `ChangeSweep` is a password
change, which issues a new session last; `AdminUpdate` and `AdminSweep` are suspension, reactivation and reset.
`Abandon` stops a handler at any await, and `Refuse` stands for every rejection that writes nothing (a wrong password,
an expired token or code, maintenance mode). Expiry is a refusal that may come at any time: no clock is modelled.

`Browser.tla` adds the web client. Tabs share their browser's `cookie` and the flag in its `localStorage`; each has an access
token, a page and at most one refresh, which all its requests wait for (`httpClient.ts`). `OpenTab` is a page load, with its
silent refresh; the others are the user's forms and the interceptor's retry. `Deliver` sets the cookie, then what the tab does with the
reply; `LoseReply` is a connection that fails after the server answered. Replies to two tabs are delivered in any order.

| run | instance | result |
|---|---|---|
| `sessions` | 2 tabs on 1 or 2 browsers, 2 requests at once, 4 in all, no factor or mailed codes, `FairSpec` | the six invariants and `TabsSettle` hold |

Two requests at a time are every pairwise race. Four in all are a login (or two, or one with its code) and two more that meet on
its tokens: a rotation with a rotation, a suspension with a second factor, a password change with a cookie. An authenticator's
code (`TOTP`) is left to the proofs: it writes nothing, so it is a mailed code without `ConsumeOtpCode`. Deadlock is
not checked: the requests are bounded.

The history variables name the cases in which the code promises nothing. `branch` separates the tokens of a rotation that found its
token revoked *under its hands*: then two live sessions come of one (the fork is noticed only if the old token
is presented again), and `OneLivePerBranch` says that nothing else forks a session. `crossed` marks a token whose check (of a
password, a second factor, an access token, a refresh token) lies before a revocation of all tokens and whose creation lies after it;
`lost` says that a handler stopped between the user's row and its own revocation. `SuspendedIsOut` and
`OldPasswordIsOut` say that nothing else survives a suspension or a new password. `twice` marks a code accepted by two logins before either
consumed it. `missed` and `pulled` exempt a browser whose reply was lost and a token an administrator revoked from `CookieIsLive`.

What the code does not keep besides: a cookie that a password change in another browser revoked is, when presented once more, taken
for theft, and ends the session the user made since.

**Fairness.** A handler in flight goes on or stops (event loop), and a reply is delivered or the connection fails.
Nothing is assumed of users, administrators or the order of replies.

**Proofs** (`SessionsProofs`, any number of slots and requests). `SessionsTypeCorrect`: rows and handlers are well typed and
refer to rows that exist, since rows are never deleted and handlers keep the index they read. `RotationForksNothing`: two live tokens
of one branch are one token; the step that matters is `Rotate`, whose transaction revokes the old token as it adds the new.

`SuspensionLogsOut` states `SuspendedIsOut` and `NewPasswordLogsOut` states `OldPasswordIsOut`. Neither is
inductive: a handler, or an mfa-pending token, carries a check made earlier and becomes a live token steps later. The invariant,
`Accounted`, follows the check through every place that carries it: a credential is good if it is in a base set or if a sweep is due or was
missed, and whatever was established since the last sweep is good wherever a row or a handler holds it. One lemma, `GoodStep`,
takes it through every action for any base set that follows the user's row; the theorems are its two instances, all
credentials or none for suspension, the present password for passwords.

`CodeOpensOneSessionHolds`: its invariant, `CodesInv`, follows a mailed code to the session it opens:
the code of a session, or of a handler about to issue one, is consumed, and among those that found it unconsumed no two sessions,
no two handlers, and no session and handler have the same. Only the second step of a login carries a code, so no rotation or
password change counts as an opening.

`BrowserProofs`, for any number of tabs, browsers and requests: `TabsAreCallers` is the refinement `BSpec => Spec`, since what a tab
does is a request the server may get anyway; so all of the above holds of the web client. `CookieIsLiveHolds` rests on
`Jar`, which says whose token is whose: a cookie is in one browser and only its tabs present it (`Mine`); a token whose
reply is under way is nobody's yet, so no rotation can spend it (`Undelivered`); and a cookie is fine or a reply is under way that replaces
it (`Works`). A rotation or a logout that spends a cookie is itself that reply (`Handled`), and delivering it sets a token nobody had;
hence the order of replies does not matter. Only `TabsSettle` (liveness) is left to TLC.

## 8. Charges and Admission

`Charges.tla` has the pure functions: stay dates, occupancy, child bands, price with markup (`AgencyPrice`), tax
(`ComputeGst`, `CreditNoteGst`) and cancellation (`ComputeCancellation`). Amounts are whole paise, so `round2` and `Math.round` are
`RoundDiv`; errors of binary fractions, and the dates' time zones, are not modelled (`booking.service.ts:86` sends a local midnight
through `toISOString`, which names the day before east of Greenwich).

`Admission.tla` extends it with how a booking is admitted. `pages` are the search pages with their carts; `calls` holds a
`createGroupBooking` per slot (`createBooking` is a cart of one line). For each line in turn `GetRoomType` asks AxisRooms and `AssertBookable`
counts; `EvaluateCreditGate` decides once for the cart; `CreateLine` creates, commits and bills line after line. `Follow` is
what becomes of a booking, as far as it holds a room or owes money: each step writes by id what it computed, so `Write` may bring a
booking back that no longer counted (`revived`). The steps *within* a commit, a payment or a cancellation are `Booking`'s. AxisRooms is
external: it has `Stock[d]` rooms in night `d`, answers the undated question of `GetRoomType` with the rooms of any night, and refuses a reservation
only for want of a room or by a failure. (The mock in the repository never counts down.)

| run | instance | result |
|---|---|---|
| `admission` | 2 agents of one agency or two, 2 requests, 2 cart lines, 2 bookings of 3 stays, 1 upset | the four invariants hold |

The three stays overlap in one night, in two or not at all (a day-use stay overlaps no other); the policies are a cap of one room on the night they share and a
stop-sell on another; agency `A` has credit for two short stays or one long one, `B` pays first. Two lines and two bookings are a cart of two, two carts of
one, and one line twice. An *upset* is anything from outside that disturbs this: a lost answer, a stop, a failing commit, a lapsed hold, a
cancellation, a settlement, a policy or an allotment that comes or goes; one at a time is in the instance. Agents and slots
are symmetric, the agencies are not. Deadlock is not checked: keys and rows are bounded.

What was checked is not held until it is used, and the properties name exactly the gaps. `CapIsKept` exempts a booking whose
call was *overtaken* (another booking was created on its nights, or the limits became stricter, while its cart was handled).
`CreditWithinLimit` exempts an agency with a *blind* line (created when more was owed or to be billed than its gate had seen) or one that a late
commit revived. `BookedOnce` exempts the cart lines of requests that were *torn*: the page keeps its cart after an error, although some
lines may exist, and nothing in a request says that it is a repeat.

What the code does not keep besides: an allotment is added to what remains and is neither drawn down by bookings nor
released at its `releaseDate`, so an agency that has one passes every cap (`CapIsKept` leaves its bookings aside); day-use stays do not overlap
one another and escape caps among themselves; a booking whose commit failed is announced as confirmed by the page.

**Proofs** (`AdmissionProofs`). Of the functions, for any amounts, bands and slabs: `MarkupNeverLoses`; `CancellationSplitsThePrice` and
`CancellingLaterCostsNoLess` (the second for bands that get stricter towards arrival: the assumption is in its statement, since an administrator may
configure others); `TaxIsSplitExactly`; `CreditNoteReversesTheTax`: what a cancellation reverses and what it leaves differ from the
invoice's tax by at most one paisa. They rest on what `RoundDiv` does, proved once.

Of `Admission`, all four invariants, for any agents, slots, stays, policies, allotments and limits, and any number of upsets.
`Typed` is what they share: rows, calls and pages are what the handlers can make of them (`CallFits`, `RowFits`), and a row once
created is only ever written by a step that it `Follows`: key, agency, stay, price and mode stay, and it comes to hold a room or to owe
more only as revived.

* `BookedOnceHolds` and `AdmissionTypeCorrect` rest on `Carts`: a page waits for one call, which has its cart (`Waiting`); keys are given
  out once (`KeysFit`); and a booked line that is still in a cart is before the line its call has reached, or torn (`BookedLeave`).
  So the call that empties the cart is the one that booked it, and no other can carry the line again.
* `CreditWithinLimitHolds`: the balance alone is not inductive, since a booking on credit is billed later. `ExposureFits` bounds what an
  agency owes *or will owe*, and `GateHolds` says that what the gate saw, with what was created since and what is left of the cart, fits in the
  limit. A line moves its price from the rest of the cart to the exposure, unless somebody else added to it meanwhile; then it is blind.
* `CapIsKeptHolds`: `RoomHolds` says of every line that a call has checked and not yet created that the rooms taken on its nights,
  with the earlier lines of its cart, are fewer than each cap. A line that is created takes a room that was kept for it, and
  overtakes every other call it could disturb; a write never takes a room, a stricter rule overtakes the calls it is about.

The assumptions are on the constants: settings, rates and charges are natural numbers (`ChargesAssumption`), agents belong to agencies, limits, caps
and allotments are numbers (`AdmissionAssumption`), and a stay that is asked for has dates, occupants and, if it is overnight, rates for its
nights (`LinesAssumption`). Amounts in the instance are small, because `SumOf` counts units.

## 9. Not modelled

* **Documents and storage, notifications, realtime, mail, SMS, WhatsApp, audit**: best-effort effects whose failure no caller sees
  and which no handler reads back to decide anything.
* **Vouchers, invoices and PDF; reports, dashboard, catalog**: rendering and aggregation of rows the modules above have.
* **Settings, support, HTTP shell**: single rows, routing and validation. A rejected request changes nothing, so validation only
  narrows the inputs; settings are constants of the modules that use them.
* **AxisRooms' cache**: a read may be as old as its TTL. `Admission` lets the answer to `GetRoomType` be that of any night, and the commit decides.
* **The payment gateway's webhook**: it updates only a payment that is neither succeeded nor failed, and no such
  row is created but a chargeback's, which shares its reference with the payment it reverses.
* **Dunning and reconciliation**: reads of the ledger; the suspension dunning asks for is `SuspendAgency`.
* **Users and agents**: edits of a name or a role, and `deleteAgency`.
* **Clocks**: holds, tokens and codes expire at any time a check looks at them; durations are not compared.
* **Most of the web client**: pages that show what the API returns and call one operation each. Its two protocols, the session
  and the cart, are modelled.

Liveness and `ENABLED` are out of the prover's reach: `RebookSettles`, `EventsSettle` and `TabsSettle` are checked on the instances
only. So is induction over data: nothing here needs it, since sums are counts and sequences are read by index. Every safety property
that a passing run checks is also a theorem.
