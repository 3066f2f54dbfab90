------------------------------- MODULE Booking -------------------------------
(***************************************************************************)
(* The booking lifecycle of server/src/modules/booking/booking.service.ts  *)
(* with the parts of finance.service.ts it calls.                          *)
(*                                                                         *)
(* Every operation is an asynchronous request: it reads rows, awaits, and  *)
(* later writes by primary key with no condition on the row's current      *)
(* state.  One action below is what happens between two awaits, so any two *)
(* requests interleave exactly where the code yields.                      *)
(*                                                                         *)
(* The database holds booking, task (RebookTask) and invoice rows.  The    *)
(* outside world holds the AxisRooms reservation (resv) and the gateway's  *)
(* captures and refunds, which no database transaction can take back.      *)
(*                                                                         *)
(* A definition F may be preceded by a faulty one, F followed by the fault *)
(* (AfterPushUnchecked, AttemptForgotten...): a mutation of F that the     *)
(* properties must detect.  Nothing in the specification uses it.          *)
(***************************************************************************)
EXTENDS Naturals, FiniteSets

CONSTANTS
    Bookings,     \* booking ids
    Callers,      \* API requests in flight: agents and admins
    Runs,         \* those that may also be runs of processRebookQueue
    None,         \* no booking
    MaxAttempts,  \* env.REBOOK_MAX_ATTEMPTS
    RetryBound,   \* bound: an admin retries while attempts are below it
    MaxCaptures,  \* bound: captures the gateway makes for one booking
    MaxDeaths     \* bound: requests that die while working on one booking

Requests == Callers \cup Runs

ASSUME BoundsAssumption ==
    /\ MaxAttempts \in Nat \ {0}
    /\ RetryBound \in Nat
    /\ MaxCaptures \in Nat
    /\ MaxDeaths \in Nat
ASSUME NoneAssumption == None \notin Bookings

VARIABLES
    booking,   \* Booking rows
    task,      \* RebookTask rows
    invoice,   \* Invoice rows (bookingId is unique)
    resv,      \* AxisRooms: the reservation under the booking's correlationId
    captured,  \* gateway: captures made for the booking
    refunded,  \* gateway: refunds made for the booking
    req,       \* the requests in flight
    raced,     \* history: two requests were on the booking at once
    deaths     \* history: requests that died while on the booking

db == <<booking, task, invoice>>
world == <<resv, captured, refunded>>
vars == <<booking, task, invoice, resv, captured, refunded, req, raced, deaths>>

States == {"NONE", "CONFIRMED_ON_CREDIT", "AWAITING_PAYMENT", "PAID",
           "COMMITTED", "COMMIT_FAILED", "CANCELLED", "EXPIRED"}
Modes == {"NONE", "CREDIT", "PREPAY"}
TaskStatuses == {"NONE", "PENDING", "ABANDONED", "RESOLVED"}
InvoiceStatuses == {"NONE", "ISSUED", "PAID", "VOID", "REFUNDED"}
\* Share of the price a cancellation charges: 0 %, a band between, 100 %.
Charges == {"NONE", "PART", "FULL"}
Ops == {"none", "createCredit", "createPrepay", "pay", "rebook", "cancel", "get"}
PCs == {"idle", "next", "expire", "capture", "recordPayment", "markPaid",
        "reserve", "markCommitted", "obligation", "resolveTask",
        "readTask", "markFailed", "upsertTask",
        "axisCancel", "readInvoice", "refund", "adjust", "closeTask",
        "markCancelled"}

BookingRow == [state: States, mode: Modes, lapsed: BOOLEAN]
TaskRow == [status: TaskStatuses, attempts: Nat]
Request == [pc: PCs, op: Ops, b: Bookings \cup {None}, batch: SUBSET Bookings,
            state: States, invoice: InvoiceStatuses, attempts: Nat, charge: Charges]

Idle == [pc |-> "idle", op |-> "none", b |-> None, batch |-> {},
         state |-> "NONE", invoice |-> "NONE", attempts |-> 0, charge |-> "NONE"]

TypeOK ==
    /\ booking \in [Bookings -> BookingRow]
    /\ task \in [Bookings -> TaskRow]
    /\ invoice \in [Bookings -> InvoiceStatuses]
    /\ resv \in [Bookings -> {"NONE", "HELD", "RELEASED"}]
    /\ captured \in [Bookings -> Nat]
    /\ refunded \in [Bookings -> Nat]
    /\ req \in [Requests -> Request]
    /\ raced \in [Bookings -> BOOLEAN]
    /\ deaths \in [Bookings -> Nat]

Init ==
    /\ booking = [b \in Bookings |-> [state |-> "NONE", mode |-> "NONE", lapsed |-> FALSE]]
    /\ task = [b \in Bookings |-> [status |-> "NONE", attempts |-> 0]]
    /\ invoice = [b \in Bookings |-> "NONE"]
    /\ resv = [b \in Bookings |-> "NONE"]
    /\ captured = [b \in Bookings |-> 0]
    /\ refunded = [b \in Bookings |-> 0]
    /\ req = [r \in Requests |-> Idle]
    /\ raced = [b \in Bookings |-> FALSE]
    /\ deaths = [b \in Bookings |-> 0]

-----------------------------------------------------------------------------
(* Control of a request.                                                   *)

On(r, b) == req[r].pc \notin {"idle", "next"} /\ req[r].b = b

\* Request r starts working on b in the local state loc.
Take(r, b, loc) ==
    /\ req' = [req EXCEPT ![r] = loc]
    /\ raced' = [raced EXCEPT ![b] = @ \/ \E q \in Requests \ {r} : On(q, b)]
    /\ UNCHANGED deaths

Goto(r, pc) ==
    /\ req' = [req EXCEPT ![r].pc = pc]
    /\ UNCHANGED <<raced, deaths>>

\* The booking is dealt with: on to the next one of the request's list, if any.
Finish(r) ==
    /\ req' = [req EXCEPT ![r] =
                 IF @.batch = {} THEN Idle
                 ELSE [Idle EXCEPT !.pc = "next", !.op = req[r].op, !.batch = req[r].batch]]
    /\ UNCHANGED <<raced, deaths>>

\* A request's local state once b is off its list, with nothing left to do on b.
Without(loc, b) ==
    IF loc.batch = {b} THEN Idle ELSE [loc EXCEPT !.batch = @ \ {b}]

\* The request throws: the rest of its list is dropped too.
Throw(r) ==
    /\ req' = [req EXCEPT ![r] = Idle]
    /\ UNCHANGED <<raced, deaths>>

SetState(b, s) == booking' = [booking EXCEPT ![b].state = s]

-----------------------------------------------------------------------------
(* createBooking / createGroupBooking.  The credit gate's decision is taken *)
(* from outside; a cart is created line by line.                            *)

BeginCreate(r, lines, op) ==
    /\ req[r].pc = "idle"
    /\ \A b \in lines : /\ booking[b].state = "NONE"
                        /\ \A q \in Requests : b \notin req[q].batch
    /\ req' = [req EXCEPT ![r] = [Idle EXCEPT !.pc = "next", !.op = op, !.batch = lines]]
    /\ UNCHANGED <<db, world, raced, deaths>>

CreateCreditLine(r, b) ==
    /\ req[r].pc = "next" /\ req[r].op = "createCredit" /\ b \in req[r].batch
    /\ booking[b].state = "NONE"
    /\ booking' = [booking EXCEPT ![b].state = "CONFIRMED_ON_CREDIT", ![b].mode = "CREDIT"]
    /\ Take(r, b, [req[r] EXCEPT !.pc = "reserve", !.b = b, !.batch = @ \ {b}])
    /\ UNCHANGED <<task, invoice, world>>

CreatePrepayLine(r, b) ==
    /\ req[r].pc = "next" /\ req[r].op = "createPrepay" /\ b \in req[r].batch
    /\ booking[b].state = "NONE"
    /\ booking' = [booking EXCEPT ![b].state = "AWAITING_PAYMENT", ![b].mode = "PREPAY"]
    /\ req' = [req EXCEPT ![r] = Without(@, b)]
    /\ UNCHANGED <<task, invoice, world, raced, deaths>>

-----------------------------------------------------------------------------
(* payBooking / payGroup: the lines found awaiting payment, one at a time.  *)

BeginPay(r, lines) ==
    /\ req[r].pc = "idle"
    /\ \A b \in lines : booking[b].state = "AWAITING_PAYMENT"
    /\ req' = [req EXCEPT ![r] = [Idle EXCEPT !.pc = "next", !.op = "pay", !.batch = lines]]
    /\ UNCHANGED <<db, world, raced, deaths>>

LoadForPay(r, b) ==
    /\ req[r].pc = "next" /\ req[r].op = "pay" /\ b \in req[r].batch
    /\ IF booking[b].state = "AWAITING_PAYMENT"
       THEN Take(r, b, [req[r] EXCEPT !.pc = IF booking[b].lapsed THEN "expire" ELSE "capture",
                                      !.b = b, !.batch = @ \ {b}])
       ELSE Throw(r)
    /\ UNCHANGED <<db, world>>

\* Every capture is a new charge; it may also fail, and then the call throws.
Capture(r, b) ==
    /\ req[r].pc = "capture" /\ req[r].b = b
    /\ \/ /\ captured[b] < MaxCaptures
          /\ captured' = [captured EXCEPT ![b] = @ + 1]
          /\ Goto(r, "recordPayment")
       \/ /\ UNCHANGED captured
          /\ Throw(r)
    /\ UNCHANGED <<db, resv, refunded>>

\* One transaction: PAID invoice, INBOUND payment, CRS event.  A booking that
\* has an invoice already breaks the unique key and rolls it all back.
RecordPayment(r, b) ==
    /\ req[r].pc = "recordPayment" /\ req[r].b = b
    /\ IF invoice[b] = "NONE"
       THEN invoice' = [invoice EXCEPT ![b] = "PAID"] /\ Goto(r, "markPaid")
       ELSE UNCHANGED invoice /\ Throw(r)
    /\ UNCHANGED <<booking, task, world>>

MarkPaid(r, b) ==
    /\ req[r].pc = "markPaid" /\ req[r].b = b
    /\ SetState(b, "PAID")
    /\ Goto(r, "reserve")
    /\ UNCHANGED <<task, invoice, world>>

-----------------------------------------------------------------------------
(* Holds lapse with time and are expired lazily, by a read or a payment.    *)

Lapse(b) ==
    /\ booking[b].mode = "PREPAY" /\ ~booking[b].lapsed
    /\ booking' = [booking EXCEPT ![b].lapsed = TRUE]
    /\ UNCHANGED <<task, invoice, world, req, raced, deaths>>

GetBooking(r, b) ==
    /\ req[r].pc = "idle"
    /\ booking[b].state = "AWAITING_PAYMENT" /\ booking[b].lapsed
    /\ Take(r, b, [Idle EXCEPT !.pc = "expire", !.op = "get", !.b = b])
    /\ UNCHANGED <<db, world>>

\* expireIfLapsed writes the row it judged; a payment then throws.
Expire(r, b) ==
    /\ req[r].pc = "expire" /\ req[r].b = b
    /\ SetState(b, "EXPIRED")
    /\ Throw(r)
    /\ UNCHANGED <<task, invoice, world>>

-----------------------------------------------------------------------------
(* commitToAxisRooms: idempotent on the correlation id.  Anything thrown up *)
(* to the COMMITTED write goes to handleCommitFailure, also when the        *)
(* reservation was in fact made.                                            *)

AfterPushUnchecked(ok) == "markCommitted"
AfterPush(ok) == IF ok THEN "markCommitted" ELSE "readTask"

Reserve(r, b) ==
    /\ req[r].pc = "reserve" /\ req[r].b = b
    /\ \E made, ok \in BOOLEAN :
          /\ ok => made
          /\ resv' = IF made THEN [resv EXCEPT ![b] = "HELD"] ELSE resv
          /\ Goto(r, AfterPush(ok))
    /\ UNCHANGED <<db, captured, refunded>>

\* What the caller of a successful commit does next.
AfterCommitUnbilled(op) == IF op = "createCredit" THEN "obligation" ELSE "done"
AfterCommit(op) ==
    CASE op = "createCredit" -> "obligation"
      [] op = "rebook"       -> "resolveTask"
      [] OTHER               -> "done"

MarkCommitted(r, b) ==
    /\ req[r].pc = "markCommitted" /\ req[r].b = b
    /\ \/ /\ SetState(b, "COMMITTED")
          /\ IF AfterCommit(req[r].op) = "done"
             THEN Finish(r) ELSE Goto(r, AfterCommit(req[r].op))
       \/ UNCHANGED booking /\ Goto(r, "readTask")
    /\ UNCHANGED <<task, invoice, world>>

\* recordBookingObligation.  The unique key refuses a second invoice, and the
\* call throws; after a rebook the invoice is looked up first.
RecordObligation(r, b) ==
    /\ req[r].pc = "obligation" /\ req[r].b = b
    /\ IF invoice[b] = "NONE"
       THEN invoice' = [invoice EXCEPT ![b] = "ISSUED"] /\ Finish(r)
       ELSE /\ UNCHANGED invoice
            /\ Throw(r) \/ (req[r].op = "rebook" /\ Finish(r))
    /\ UNCHANGED <<booking, task, world>>

\* handleCommitFailure: one more attempt, parked at the ceiling.
AttemptForgotten(read) == 1
Attempt(read) == read + 1

Parked(n) == IF n >= MaxAttempts THEN "ABANDONED" ELSE "PENDING"

ReadTask(r, b) ==
    /\ req[r].pc = "readTask" /\ req[r].b = b
    /\ req' = [req EXCEPT ![r].pc = "markFailed", ![r].attempts = task[b].attempts]
    /\ UNCHANGED <<db, world, raced, deaths>>

MarkFailed(r, b) ==
    /\ req[r].pc = "markFailed" /\ req[r].b = b
    /\ SetState(b, "COMMIT_FAILED")
    /\ Goto(r, "upsertTask")
    /\ UNCHANGED <<task, invoice, world>>

UpsertTask(r, b) ==
    /\ req[r].pc = "upsertTask" /\ req[r].b = b
    /\ LET n == Attempt(req[r].attempts)
       IN  task' = [task EXCEPT ![b] = [status |-> Parked(n), attempts |-> n]]
    /\ Finish(r)
    /\ UNCHANGED <<booking, invoice, world>>

-----------------------------------------------------------------------------
(* The rebook queue.                                                        *)

\* processRebookQueue lists the PENDING tasks ...
ListQueue(r) ==
    /\ req[r].pc = "idle"
    /\ LET pending == {b \in Bookings : task[b].status = "PENDING"}
       IN  /\ pending # {}
           /\ req' = [req EXCEPT ![r] = [Idle EXCEPT !.pc = "next", !.op = "rebook",
                                                     !.batch = pending]]
    /\ UNCHANGED <<db, world, raced, deaths>>

RetryableAny(s) == s \notin {"NONE", "COMMITTED"}
Retryable(s) == s = "COMMIT_FAILED"

\* ... and takes them one by one, skipping a booking that moved on meanwhile.
PickTask(r, b) ==
    /\ req[r].pc = "next" /\ req[r].op = "rebook" /\ b \in req[r].batch
    /\ IF Retryable(booking[b].state)
       THEN Take(r, b, [req[r] EXCEPT !.pc = "reserve", !.b = b, !.batch = @ \ {b}])
       ELSE /\ req' = [req EXCEPT ![r] = Without(@, b)]
            /\ UNCHANGED <<raced, deaths>>
    /\ UNCHANGED <<db, world>>

\* retryRebook: an admin forces one booking, whatever its task says.
RetryRebook(r, b) ==
    /\ req[r].pc = "idle"
    /\ Retryable(booking[b].state) /\ task[b].attempts < RetryBound
    /\ Take(r, b, [Idle EXCEPT !.pc = "reserve", !.op = "rebook", !.b = b])
    /\ UNCHANGED <<db, world>>

\* onRebookResolved: the update throws when there is no task row; a credit
\* booking without an invoice is billed now.
ResolveTask(r, b) ==
    /\ req[r].pc = "resolveTask" /\ req[r].b = b
    /\ IF task[b].status = "NONE"
       THEN UNCHANGED task /\ Throw(r)
       ELSE /\ task' = [task EXCEPT ![b].status = "RESOLVED"]
            /\ IF booking[b].mode = "CREDIT" THEN Goto(r, "obligation") ELSE Finish(r)
    /\ UNCHANGED <<booking, invoice, world>>

-----------------------------------------------------------------------------
(* cancelBooking (agent) and adminCancelBooking (no-show, resort).  The     *)
(* branch follows the state read at the start.                              *)

CancellableExpired(s) == s \notin {"NONE", "CANCELLED"}
Cancellable(s) == s \notin {"NONE", "CANCELLED", "EXPIRED"}

Cancel(r, b, charge) ==
    /\ req[r].pc = "idle"
    /\ Cancellable(booking[b].state)
    /\ LET s == booking[b].state
       IN  Take(r, b, [Idle EXCEPT
             !.op = "cancel", !.b = b, !.state = s,
             !.charge = IF s = "COMMITTED" THEN charge ELSE "NONE",
             !.pc = CASE s = "COMMITTED"     -> "axisCancel"
                      [] s = "COMMIT_FAILED" -> "readInvoice"
                      [] OTHER               -> "markCancelled"])
    /\ UNCHANGED <<db, world>>

AxisCancel(r, b) ==
    /\ req[r].pc = "axisCancel" /\ req[r].b = b
    /\ resv' = [resv EXCEPT ![b] = IF @ = "HELD" THEN "RELEASED" ELSE @]
    /\ Goto(r, "readInvoice")
    /\ UNCHANGED <<db, captured, refunded>>

\* applyCancellation, up to its first await.
ReadInvoice(r, b) ==
    /\ req[r].pc = "readInvoice" /\ req[r].b = b
    /\ req' = [req EXCEPT ![r].pc = "refund", ![r].invoice = invoice[b]]
    /\ UNCHANGED <<db, world, raced, deaths>>

\* Cash goes back only for a PAID invoice, and only if something is refundable.
Refund(r, b) ==
    /\ req[r].pc = "refund" /\ req[r].b = b
    /\ refunded' = IF req[r].invoice = "PAID" /\ req[r].charge # "FULL"
                   THEN [refunded EXCEPT ![b] = @ + 1] ELSE refunded
    /\ Goto(r, "adjust")
    /\ UNCHANGED <<db, resv, captured>>

\* The status the transaction of applyCancellation leaves, from the one read.
AdjustedKeepPaid(read, charge, now) ==
    IF read = "ISSUED" /\ charge = "NONE" THEN "VOID" ELSE now
AdjustedUnknown(read, charge, now) == IF read = "PAID" THEN "CREDITED" ELSE now
Adjusted(read, charge, now) ==
    CASE read = "PAID"                       -> "REFUNDED"
      [] read = "ISSUED" /\ charge = "NONE"  -> "VOID"
      [] OTHER                               -> now

AdjustInvoice(r, b) ==
    /\ req[r].pc = "adjust" /\ req[r].b = b
    /\ invoice' = [invoice EXCEPT ![b] = Adjusted(req[r].invoice, req[r].charge, @)]
    /\ Goto(r, IF req[r].state = "COMMIT_FAILED" THEN "closeTask" ELSE "markCancelled")
    /\ UNCHANGED <<booking, task, world>>

CloseTask(r, b) ==
    /\ req[r].pc = "closeTask" /\ req[r].b = b
    /\ task' = IF task[b].status \in {"PENDING", "ABANDONED"}
               THEN [task EXCEPT ![b].status = "RESOLVED"] ELSE task
    /\ Goto(r, "markCancelled")
    /\ UNCHANGED <<booking, invoice, world>>

MarkCancelled(r, b) ==
    /\ req[r].pc = "markCancelled" /\ req[r].b = b
    /\ SetState(b, "CANCELLED")
    /\ Finish(r)
    /\ UNCHANGED <<task, invoice, world>>

-----------------------------------------------------------------------------
\* A request dies between two awaits: the process stops, or a database call or
\* an external call throws where nothing catches it.
Die(r, b) ==
    /\ On(r, b) /\ deaths[b] < MaxDeaths
    /\ req' = [req EXCEPT ![r] = Idle]
    /\ deaths' = [deaths EXCEPT ![b] = @ + 1]
    /\ UNCHANGED <<db, world, raced>>

\* What a request in flight does next.
Step(r) ==
    \E b \in Bookings :
        \/ CreateCreditLine(r, b) \/ CreatePrepayLine(r, b)
        \/ LoadForPay(r, b) \/ Capture(r, b) \/ RecordPayment(r, b) \/ MarkPaid(r, b)
        \/ Expire(r, b)
        \/ Reserve(r, b) \/ MarkCommitted(r, b) \/ RecordObligation(r, b)
        \/ ReadTask(r, b) \/ MarkFailed(r, b) \/ UpsertTask(r, b)
        \/ PickTask(r, b) \/ ResolveTask(r, b)
        \/ AxisCancel(r, b) \/ ReadInvoice(r, b) \/ Refund(r, b)
        \/ AdjustInvoice(r, b) \/ CloseTask(r, b) \/ MarkCancelled(r, b)

\* A new call arrives.
Call(r) ==
    \/ \E lines \in SUBSET Bookings \ {{}} :
          \/ \E op \in {"createCredit", "createPrepay"} : BeginCreate(r, lines, op)
          \/ BeginPay(r, lines)
    \/ \E b \in Bookings :
          \/ GetBooking(r, b) \/ RetryRebook(r, b)
          \/ \E charge \in Charges : Cancel(r, b, charge)

Next ==
    \/ \E r \in Requests : Step(r)
    \/ \E r \in Callers : Call(r)
    \/ \E r \in Runs : ListQueue(r)
    \/ \E b \in Bookings : Lapse(b) \/ (\E r \in Requests : Die(r, b))

Spec == Init /\ [][Next]_vars

-----------------------------------------------------------------------------
(* Properties.  A booking is quiet when no request is on it, and undisturbed *)
(* when no two requests ever met on it and none died there.                  *)

Quiet(b) == \A r \in Requests : ~On(r, b)
Undisturbed(b) == ~raced[b] /\ deaths[b] = 0

\* Money came in and is on the books: recordPayment committed.
Funded(b) == captured[b] > 0 /\ invoice[b] \in {"PAID", "REFUNDED"}

\* Pay first (createPrepayLine, payBookingInternal): whatever requests
\* interleave and wherever they die, a pre-paid booking is never sent to
\* AxisRooms, nor moved past AWAITING_PAYMENT, before its payment was captured
\* and recorded.
PayFirst ==
    \A b \in Bookings :
        /\ booking[b].mode = "PREPAY"
        /\ resv[b] # "NONE" \/ booking[b].state \in {"PAID", "COMMITTED", "COMMIT_FAILED"}
        => Funded(b)

\* A credit booking is billed only once its reservation landed at the resort
\* (createCreditLine, onRebookResolved): one queued for rebook owes nothing.
BillOnlyLanded ==
    \A b \in Bookings :
        booking[b].mode = "CREDIT" /\ invoice[b] # "NONE" => resv[b] # "NONE"

-----------------------------------------------------------------------------
(* Why PayFirst and BillOnlyLanded hold: what every row and every request in *)
(* flight may rely on, however late it acts on what it read.                 *)

\* A booking that may be sent to AxisRooms.
Committable(b) == booking[b].mode = "CREDIT" \/ (booking[b].mode = "PREPAY" /\ Funded(b))

RowInv(b) ==
    /\ booking[b].state = "NONE" <=> booking[b].mode = "NONE"
    /\ booking[b].state = "AWAITING_PAYMENT" => booking[b].mode = "PREPAY"
    /\ booking[b].mode = "NONE" => invoice[b] = "NONE" /\ resv[b] = "NONE"
    /\ booking[b].mode = "CREDIT" => invoice[b] \in {"NONE", "ISSUED", "VOID"}
    /\ booking[b].mode = "PREPAY" => invoice[b] \in {"NONE", "PAID", "REFUNDED"}
    /\ invoice[b] \in {"PAID", "REFUNDED"} => captured[b] > 0
    /\ invoice[b] \in {"ISSUED", "VOID"} => resv[b] # "NONE"
    /\ \/ resv[b] # "NONE" \/ booking[b].state \in {"PAID", "COMMITTED", "COMMIT_FAILED"}
       => Committable(b)

RequestInv(r) ==
    LET b == req[r].b
    IN  req[r].pc \notin {"idle", "next"} =>
          /\ b \in Bookings /\ booking[b].mode # "NONE"
          /\ req[r].pc \in {"expire", "capture", "recordPayment", "markPaid"}
                => booking[b].mode = "PREPAY"
          /\ req[r].op = "createCredit" => booking[b].mode = "CREDIT"
          /\ req[r].pc = "recordPayment" => captured[b] > 0
          /\ req[r].pc \in {"markPaid", "reserve", "markCommitted", "obligation", "resolveTask",
                            "readTask", "markFailed", "upsertTask"} => Committable(b)
          /\ req[r].pc \in {"markCommitted", "obligation", "resolveTask"} => resv[b] # "NONE"
          /\ req[r].pc = "obligation" => booking[b].mode = "CREDIT"
          /\ req[r].pc \in {"refund", "adjust"} =>
                /\ req[r].invoice = "PAID" => invoice[b] \in {"PAID", "REFUNDED"}
                /\ req[r].invoice = "ISSUED" => invoice[b] \in {"ISSUED", "VOID"}

Causality ==
    /\ \A b \in Bookings : RowInv(b)
    /\ \A r \in Requests : RequestInv(r)

-----------------------------------------------------------------------------
(* The resting states of an undisturbed booking.                             *)

\* Where the money of a booking may rest once nobody works on it: on a room
\* held at the resort, in the rebook queue, or settled by the cancellation.
Resolved(b) ==
    captured[b] > 0 =>
        \/ booking[b].state = "COMMITTED" /\ resv[b] = "HELD" /\ invoice[b] = "PAID"
        \/ /\ booking[b].state = "COMMIT_FAILED" /\ invoice[b] = "PAID"
           /\ task[b].status \in {"PENDING", "ABANDONED"}
        \/ booking[b].state = "CANCELLED" /\ invoice[b] = "REFUNDED"

\* No charge is lost: an undisturbed quiet booking was charged at most once,
\* refunded at most once, and its money is resolved.
NoLostCharge ==
    \A b \in Bookings :
        Quiet(b) /\ Undisturbed(b) =>
            captured[b] <= 1 /\ refunded[b] <= captured[b] /\ Resolved(b)

\* An undisturbed quiet COMMITTED booking has its room and its invoice, and
\* one that failed to commit is in the rebook queue.
CommittedIsBacked ==
    \A b \in Bookings :
        Quiet(b) /\ Undisturbed(b) =>
            /\ booking[b].state = "COMMITTED" =>
                  /\ resv[b] = "HELD"
                  /\ invoice[b] = IF booking[b].mode = "CREDIT" THEN "ISSUED" ELSE "PAID"
            /\ booking[b].state = "COMMIT_FAILED" => task[b].status \in {"PENDING", "ABANDONED"}

\* CANCELLED and EXPIRED are final, wherever requests die, as long as no two
\* requests meet on the booking.  Even if they did: once those that met have
\* left such a booking, no payment, queue run or cart listed earlier takes it up
\* again, since each looks at the row before it starts on it.
TerminalIsFinal ==
    [][\A b \in Bookings :
          booking[b].state \in {"CANCELLED", "EXPIRED"} /\ (Quiet(b) \/ ~raced'[b])
              => /\ booking'[b].state = booking[b].state
                 /\ Quiet(b) => Quiet(b)']_vars

-----------------------------------------------------------------------------
(* Requests in flight run to their end, and somebody keeps asking for the    *)
(* rebook queue to be processed: the server itself schedules nothing.        *)

Fairness ==
    /\ \A r \in Requests : WF_vars(Step(r))
    /\ \A r \in Runs : WF_vars(ListQueue(r))
FairSpec == Spec /\ Fairness

\* A booking whose push failed does not stay queued for ever: it is committed,
\* cancelled, or parked as ABANDONED after MaxAttempts (handleCommitFailure).
RebookSettles ==
    \A b \in Bookings :
        booking[b].state = "COMMIT_FAILED" /\ Undisturbed(b)
            ~> \/ booking[b].state # "COMMIT_FAILED" \/ task[b].status = "ABANDONED"
               \/ ~Undisturbed(b)

-----------------------------------------------------------------------------
(* What the documents and comments say, and the code does not keep.          *)

\* v2Fixes.md 5.2: the flow "never leaves the agency charged without a booking
\* or a resolution".  Here: however requests meet, if none dies.
ChargeSurvivesRace ==
    \A b \in Bookings : Quiet(b) /\ deaths[b] = 0 => Resolved(b)

\* booking.service.ts, cancelBooking: a COMMIT_FAILED booking was "never
\* committed at the resort", so cancelling it leaves no room held there.
CancelledHoldsNoRoom ==
    \A b \in Bookings :
        Quiet(b) /\ Undisturbed(b) /\ booking[b].state = "CANCELLED" => resv[b] # "HELD"
=============================================================================
