---------------------------- MODULE BookingProofs ----------------------------
EXTENDS Booking, TLAPS

LEMMA IdleType == Idle \in Request
  BY NoneAssumption DEF Idle, Request, PCs, Ops, States, InvoiceStatuses, Charges

\* Only request r moves, and the histories keep their type.
Moves(r) ==
    /\ req' \in [Requests -> Request]
    /\ \A q \in Requests : q # r => req'[q] = req[q]
    /\ raced' \in [Bookings -> BOOLEAN] /\ deaths' \in [Bookings -> Nat]

LEMMA GotoEffect ==
  ASSUME TypeOK, NEW r \in Requests, NEW pc \in PCs, Goto(r, pc)
  PROVE  /\ Moves(r)
         /\ req'[r].pc = pc /\ req'[r].b = req[r].b /\ req'[r].op = req[r].op
         /\ req'[r].invoice = req[r].invoice /\ req'[r].state = req[r].state
         /\ UNCHANGED <<raced, deaths>>
  <1>1. req' = [req EXCEPT ![r] = [req[r] EXCEPT !.pc = pc]]
    BY DEF Goto
  <1>2. [req[r] EXCEPT !.pc = pc] \in Request
    BY DEF Request, TypeOK
  <1>. QED BY <1>1, <1>2 DEF Request, TypeOK, Moves, Goto

LEMMA FinishEffect ==
  ASSUME TypeOK, NEW r \in Requests, Finish(r)
  PROVE  /\ Moves(r)
         /\ req'[r].pc \in {"idle", "next"} /\ UNCHANGED <<raced, deaths>>
  <1>. DEFINE rest == [Idle EXCEPT !.pc = "next", !.op = req[r].op, !.batch = req[r].batch]
  <1>1. rest \in Request /\ rest.pc = "next"
    BY IdleType DEF Idle, Request, PCs, TypeOK
  <1>2. req' = [req EXCEPT ![r] = IF req[r].batch = {} THEN Idle ELSE rest]
    BY DEF Finish
  <1>. QED BY <1>1, <1>2, IdleType DEF Idle, TypeOK, Moves, Finish

LEMMA ThrowEffect ==
  ASSUME TypeOK, NEW r \in Requests, Throw(r)
  PROVE  /\ Moves(r)
         /\ req'[r].pc = "idle" /\ UNCHANGED <<raced, deaths>>
  BY IdleType DEF Throw, Idle, TypeOK, Moves

LEMMA TakeEffect ==
  ASSUME TypeOK, NEW r \in Requests, NEW b \in Bookings, NEW loc \in Request, Take(r, b, loc)
  PROVE  /\ Moves(r)
         /\ req'[r] = loc
  BY DEF Take, TypeOK, Moves

LEMMA SetStateEffect ==
  ASSUME booking \in [Bookings -> BookingRow], NEW b \in Bookings, NEW s \in States, SetState(b, s)
  PROVE  /\ booking' \in [Bookings -> BookingRow]
         /\ \A c \in Bookings : c # b => booking'[c] = booking[c]
         /\ booking'[b].state = s /\ booking'[b].mode = booking[b].mode
  <1>1. booking' = [booking EXCEPT ![b] = [booking[b] EXCEPT !.state = s]]
    BY DEF SetState
  <1>2. [booking[b] EXCEPT !.state = s] \in BookingRow
    BY DEF BookingRow
  <1>. QED BY <1>1, <1>2 DEF BookingRow


-----------------------------------------------------------------------------
(* What one step keeps.                                                    *)

\* The row of c only moves forward: what a request relies on stays true.
Forward(c) ==
    /\ booking[c].mode # "NONE" => booking'[c].mode = booking[c].mode
    /\ captured'[c] >= captured[c]
    /\ resv[c] # "NONE" => resv'[c] # "NONE"
    /\ invoice[c] \in {"PAID", "REFUNDED"} => invoice'[c] \in {"PAID", "REFUNDED"}
    /\ invoice[c] \in {"ISSUED", "VOID"} => invoice'[c] \in {"ISSUED", "VOID"}

Rows == \A c \in Bookings : RowInv(c)' /\ Forward(c)

Preserved(r) == TypeOK' /\ Moves(r) /\ Rows /\ RequestInv(r)'


LEMMA CaptureStep ==
  ASSUME TypeOK, Causality, NEW r \in Requests, NEW b \in Bookings, Capture(r, b)
  PROVE  Preserved(r)
  <1>. USE DEF Capture, TypeOK
  <1>1. Moves(r)
    BY GotoEffect, ThrowEffect DEF PCs
  <1>2. TypeOK'
    BY <1>1 DEF Moves, db
  <1>3. Rows
    BY SMT DEF Rows, Causality, RowInv, RequestInv, Forward, Committable, Funded, db
  <1>4. RequestInv(r)'
    BY GotoEffect, ThrowEffect DEF Causality, RequestInv, RowInv, Committable, Funded, db, PCs
  <1>. QED BY <1>1, <1>2, <1>3, <1>4 DEF Preserved

LEMMA RecordPaymentStep ==
  ASSUME TypeOK, Causality, NEW r \in Requests, NEW b \in Bookings, RecordPayment(r, b)
  PROVE  Preserved(r)
  <1>. USE DEF RecordPayment, TypeOK
  <1>1. Moves(r)
    BY GotoEffect, ThrowEffect DEF PCs
  <1>2. TypeOK'
    BY <1>1 DEF Moves, world, InvoiceStatuses
  <1>3. Rows
    BY SMT DEF Rows, Causality, RowInv, RequestInv, Forward, Committable, Funded, world
  <1>4. RequestInv(r)'
    BY GotoEffect, ThrowEffect DEF Causality, RequestInv, RowInv, Committable, Funded, world, PCs
  <1>. QED BY <1>1, <1>2, <1>3, <1>4 DEF Preserved

LEMMA MarkPaidStep ==
  ASSUME TypeOK, Causality, NEW r \in Requests, NEW b \in Bookings, MarkPaid(r, b)
  PROVE  Preserved(r)
  <1>. USE DEF MarkPaid, TypeOK
  <1>1. Moves(r)
    BY GotoEffect DEF PCs
  <1>2. TypeOK'
    BY SetStateEffect, <1>1 DEF Moves, world, States
  <1>3. Rows
    BY SetStateEffect, SMT DEF Rows, Causality, RowInv, RequestInv, Forward, Committable, Funded, world, States
  <1>4. RequestInv(r)'
    BY SetStateEffect, GotoEffect DEF Causality, RequestInv, RowInv, Committable, Funded, world, PCs, States
  <1>. QED BY <1>1, <1>2, <1>3, <1>4 DEF Preserved

LEMMA ExpireStep ==
  ASSUME TypeOK, Causality, NEW r \in Requests, NEW b \in Bookings, Expire(r, b)
  PROVE  Preserved(r)
  <1>. USE DEF Expire, TypeOK
  <1>1. Moves(r)
    BY ThrowEffect DEF PCs
  <1>2. TypeOK'
    BY SetStateEffect, <1>1 DEF Moves, world, States
  <1>3. Rows
    BY SetStateEffect, SMT DEF Rows, Causality, RowInv, RequestInv, Forward, Committable, Funded, world, States
  <1>4. RequestInv(r)'
    BY SetStateEffect, ThrowEffect DEF Causality, RequestInv, RowInv, Committable, Funded, world, PCs, States
  <1>. QED BY <1>1, <1>2, <1>3, <1>4 DEF Preserved

LEMMA ReserveStep ==
  ASSUME TypeOK, Causality, NEW r \in Requests, NEW b \in Bookings, Reserve(r, b)
  PROVE  Preserved(r)
  <1>. USE DEF Reserve, AfterPush, TypeOK
  <1>1. Moves(r)
    BY GotoEffect DEF PCs
  <1>2. TypeOK'
    BY <1>1 DEF Moves, db
  <1>3. Rows
    BY SMT DEF Rows, Causality, RowInv, RequestInv, Forward, Committable, Funded, db
  <1>4. RequestInv(r)'
    BY GotoEffect DEF Causality, RequestInv, RowInv, Committable, Funded, db, PCs
  <1>. QED BY <1>1, <1>2, <1>3, <1>4 DEF Preserved

LEMMA MarkCommittedStep ==
  ASSUME TypeOK, Causality, NEW r \in Requests, NEW b \in Bookings, MarkCommitted(r, b)
  PROVE  Preserved(r)
  <1>. USE DEF MarkCommitted, TypeOK
  <1>1. \/ Finish(r)
        \/ \E pc \in {"obligation", "resolveTask", "readTask"} :
              /\ Goto(r, pc)
              /\ pc = "obligation" => req[r].op = "createCredit"
    BY DEF AfterCommit
  <1>2. Moves(r)
    BY <1>1, GotoEffect, FinishEffect DEF PCs
  <1>3. TypeOK'
    BY <1>2, SetStateEffect DEF Moves, world, States
  <1>4. Rows
    BY SetStateEffect, SMT DEF Rows, Causality, RowInv, RequestInv, Forward, Committable, Funded, world, States
  <1>5. RequestInv(r)'
    <2>1. CASE Finish(r)
      BY <2>1, FinishEffect DEF RequestInv
    <2>2. ASSUME NEW pc \in {"obligation", "resolveTask", "readTask"}, Goto(r, pc),
                 pc = "obligation" => req[r].op = "createCredit"
          PROVE  RequestInv(r)'
      BY <2>2, GotoEffect, SetStateEffect DEF Causality, RequestInv, Committable, Funded, world, PCs, States
    <2>. QED BY <1>1, <2>1, <2>2
  <1>. QED BY <1>2, <1>3, <1>4, <1>5 DEF Preserved

LEMMA RecordObligationStep ==
  ASSUME TypeOK, Causality, NEW r \in Requests, NEW b \in Bookings, RecordObligation(r, b)
  PROVE  Preserved(r)
  <1>. USE DEF RecordObligation, TypeOK
  <1>1. Moves(r)
    BY FinishEffect, ThrowEffect DEF PCs
  <1>2. TypeOK'
    BY <1>1 DEF Moves, world, InvoiceStatuses
  <1>3. Rows
    BY SMT DEF Rows, Causality, RowInv, RequestInv, Forward, Committable, Funded, world
  <1>4. RequestInv(r)'
    BY FinishEffect, ThrowEffect DEF Causality, RequestInv, RowInv, Committable, Funded, world, PCs
  <1>. QED BY <1>1, <1>2, <1>3, <1>4 DEF Preserved

LEMMA MarkFailedStep ==
  ASSUME TypeOK, Causality, NEW r \in Requests, NEW b \in Bookings, MarkFailed(r, b)
  PROVE  Preserved(r)
  <1>. USE DEF MarkFailed, TypeOK
  <1>1. Moves(r)
    BY GotoEffect DEF PCs
  <1>2. TypeOK'
    BY SetStateEffect, <1>1 DEF Moves, world, States
  <1>3. Rows
    BY SetStateEffect, SMT DEF Rows, Causality, RowInv, RequestInv, Forward, Committable, Funded, world, States
  <1>4. RequestInv(r)'
    BY SetStateEffect, GotoEffect DEF Causality, RequestInv, RowInv, Committable, Funded, world, PCs, States
  <1>. QED BY <1>1, <1>2, <1>3, <1>4 DEF Preserved

LEMMA UpsertTaskStep ==
  ASSUME TypeOK, Causality, NEW r \in Requests, NEW b \in Bookings, UpsertTask(r, b)
  PROVE  Preserved(r)
  <1>. USE DEF UpsertTask, Attempt, Parked, TypeOK
  <1>1. Moves(r)
    BY FinishEffect DEF PCs
  <1>2. TypeOK'
    <2>1. req[r].attempts + 1 \in Nat
      BY DEF Request
    <2>2. task' \in [Bookings -> TaskRow]
      BY <2>1 DEF TaskRow, TaskStatuses
    <2>. QED BY <1>1, <2>2 DEF Moves, world
  <1>3. Rows
    BY SMT DEF Rows, Causality, RowInv, RequestInv, Forward, Committable, Funded, world
  <1>4. RequestInv(r)'
    BY FinishEffect DEF Causality, RequestInv, RowInv, Committable, Funded, world, PCs
  <1>. QED BY <1>1, <1>2, <1>3, <1>4 DEF Preserved

LEMMA ResolveTaskStep ==
  ASSUME TypeOK, Causality, NEW r \in Requests, NEW b \in Bookings, ResolveTask(r, b)
  PROVE  Preserved(r)
  <1>. USE DEF ResolveTask, TypeOK
  <1>1. Moves(r)
    BY GotoEffect, FinishEffect, ThrowEffect DEF PCs
  <1>2. TypeOK'
    <2>1. [task[b] EXCEPT !.status = "RESOLVED"] \in TaskRow
      BY DEF TaskRow, TaskStatuses
    <2>2. task' \in [Bookings -> TaskRow]
      BY <2>1
    <2>. QED BY <1>1, <2>2 DEF Moves, world
  <1>3. Rows
    BY SMT DEF Rows, Causality, RowInv, RequestInv, Forward, Committable, Funded, world
  <1>4. RequestInv(r)'
    BY GotoEffect, FinishEffect, ThrowEffect DEF Causality, RequestInv, RowInv, Committable, Funded, world, PCs
  <1>. QED BY <1>1, <1>2, <1>3, <1>4 DEF Preserved

LEMMA AxisCancelStep ==
  ASSUME TypeOK, Causality, NEW r \in Requests, NEW b \in Bookings, AxisCancel(r, b)
  PROVE  Preserved(r)
  <1>. USE DEF AxisCancel, TypeOK
  <1>1. Moves(r)
    BY GotoEffect DEF PCs
  <1>2. TypeOK'
    BY <1>1 DEF Moves, db
  <1>3. Rows
    BY SMT DEF Rows, Causality, RowInv, RequestInv, Forward, Committable, Funded, db
  <1>4. RequestInv(r)'
    BY GotoEffect DEF Causality, RequestInv, RowInv, Committable, Funded, db, PCs
  <1>. QED BY <1>1, <1>2, <1>3, <1>4 DEF Preserved

LEMMA RefundStep ==
  ASSUME TypeOK, Causality, NEW r \in Requests, NEW b \in Bookings, Refund(r, b)
  PROVE  Preserved(r)
  <1>. USE DEF Refund, TypeOK
  <1>1. Moves(r)
    BY GotoEffect DEF PCs
  <1>2. TypeOK'
    BY <1>1 DEF Moves, db
  <1>3. Rows
    BY SMT DEF Rows, Causality, RowInv, RequestInv, Forward, Committable, Funded, db
  <1>4. RequestInv(r)'
    BY GotoEffect DEF Causality, RequestInv, RowInv, Committable, Funded, db, PCs
  <1>. QED BY <1>1, <1>2, <1>3, <1>4 DEF Preserved

LEMMA AdjustInvoiceStep ==
  ASSUME TypeOK, Causality, NEW r \in Requests, NEW b \in Bookings, AdjustInvoice(r, b)
  PROVE  Preserved(r)
  <1>. USE DEF AdjustInvoice, TypeOK
  <1>1. Moves(r)
    BY GotoEffect DEF PCs
  <1>2. TypeOK'
    BY <1>1 DEF Moves, world, Adjusted, InvoiceStatuses
  <1>3. Rows
    BY SMT DEF Rows, Causality, RowInv, RequestInv, Forward, Committable, Funded, world, Adjusted
  <1>4. RequestInv(r)'
    BY GotoEffect DEF Causality, RequestInv, RowInv, Committable, Funded, world, Adjusted, PCs
  <1>. QED BY <1>1, <1>2, <1>3, <1>4 DEF Preserved

LEMMA CloseTaskStep ==
  ASSUME TypeOK, Causality, NEW r \in Requests, NEW b \in Bookings, CloseTask(r, b)
  PROVE  Preserved(r)
  <1>. USE DEF CloseTask, TypeOK
  <1>1. Moves(r)
    BY GotoEffect DEF PCs
  <1>2. TypeOK'
    <2>1. [task[b] EXCEPT !.status = "RESOLVED"] \in TaskRow
      BY DEF TaskRow, TaskStatuses
    <2>2. task' \in [Bookings -> TaskRow]
      BY <2>1
    <2>. QED BY <1>1, <2>2 DEF Moves, world
  <1>3. Rows
    BY SMT DEF Rows, Causality, RowInv, RequestInv, Forward, Committable, Funded, world
  <1>4. RequestInv(r)'
    BY GotoEffect DEF Causality, RequestInv, RowInv, Committable, Funded, world, PCs
  <1>. QED BY <1>1, <1>2, <1>3, <1>4 DEF Preserved

LEMMA MarkCancelledStep ==
  ASSUME TypeOK, Causality, NEW r \in Requests, NEW b \in Bookings, MarkCancelled(r, b)
  PROVE  Preserved(r)
  <1>. USE DEF MarkCancelled, TypeOK
  <1>1. Moves(r)
    BY FinishEffect DEF PCs
  <1>2. TypeOK'
    BY SetStateEffect, <1>1 DEF Moves, world, States
  <1>3. Rows
    BY SetStateEffect, SMT DEF Rows, Causality, RowInv, RequestInv, Forward, Committable, Funded, world, States
  <1>4. RequestInv(r)'
    BY SetStateEffect, FinishEffect DEF Causality, RequestInv, RowInv, Committable, Funded, world, PCs, States
  <1>. QED BY <1>1, <1>2, <1>3, <1>4 DEF Preserved

LEMMA ReadTaskStep ==
  ASSUME TypeOK, Causality, NEW r \in Requests, NEW b \in Bookings, ReadTask(r, b)
  PROVE  Preserved(r)
  <1>. USE DEF ReadTask, TypeOK
  <1>. DEFINE loc == [req[r] EXCEPT !.pc = "markFailed", !.attempts = task[b].attempts]
  <1>1. loc \in Request /\ req' = [req EXCEPT ![r] = loc]
    BY DEF Request, PCs, TaskRow
  <1>a. /\ loc.pc = "markFailed" /\ loc.b = req[r].b /\ loc.op = req[r].op
        /\ loc.invoice = req[r].invoice
    BY DEF Request
  <1>. HIDE DEF loc
  <1>2. Moves(r) /\ req'[r] = loc
    BY <1>1 DEF Moves
  <1>3. TypeOK'
    BY <1>2 DEF Moves, db, world
  <1>4. Rows
    BY SMT DEF Rows, Causality, RowInv, Forward, Committable, Funded, db, world
  <1>5. RequestInv(r)'
    BY <1>a, <1>2 DEF Causality, RowInv, RequestInv, Committable, Funded, db, world
  <1>. QED BY <1>2, <1>3, <1>4, <1>5 DEF Preserved

LEMMA ReadInvoiceStep ==
  ASSUME TypeOK, Causality, NEW r \in Requests, NEW b \in Bookings, ReadInvoice(r, b)
  PROVE  Preserved(r)
  <1>. USE DEF ReadInvoice, TypeOK
  <1>. DEFINE loc == [req[r] EXCEPT !.pc = "refund", !.invoice = invoice[b]]
  <1>1. loc \in Request /\ req' = [req EXCEPT ![r] = loc]
    BY DEF Request, PCs, TaskRow
  <1>a. /\ loc.pc = "refund" /\ loc.b = req[r].b /\ loc.op = req[r].op
        /\ loc.invoice = invoice[b]
    BY DEF Request
  <1>. HIDE DEF loc
  <1>2. Moves(r) /\ req'[r] = loc
    BY <1>1 DEF Moves
  <1>3. TypeOK'
    BY <1>2 DEF Moves, db, world
  <1>4. Rows
    BY SMT DEF Rows, Causality, RowInv, Forward, Committable, Funded, db, world
  <1>5. RequestInv(r)'
    BY <1>a, <1>2 DEF Causality, RowInv, RequestInv, Committable, Funded, db, world
  <1>. QED BY <1>2, <1>3, <1>4, <1>5 DEF Preserved

LEMMA GetBookingStep ==
  ASSUME TypeOK, Causality, NEW r \in Requests, NEW b \in Bookings, GetBooking(r, b)
  PROVE  Preserved(r)
  <1>. USE DEF GetBooking, TypeOK
  <1>. DEFINE loc == [Idle EXCEPT !.pc = "expire", !.op = "get", !.b = b]
  <1>1. loc \in Request /\ loc.pc = "expire" /\ loc.b = b /\ loc.op = "get"
    BY IdleType DEF Idle, Request, PCs, Ops
  <1>2. Moves(r) /\ req'[r] = loc
    BY <1>1, TakeEffect
  <1>3. TypeOK'
    BY <1>2 DEF Moves, db, world
  <1>4. Rows
    BY SMT DEF Rows, Causality, RowInv, Forward, Committable, Funded, db, world
  <1>5. RequestInv(r)'
    BY <1>1, <1>2 DEF Causality, RowInv, RequestInv, Committable, Funded, db, world
  <1>. QED BY <1>2, <1>3, <1>4, <1>5 DEF Preserved

LEMMA RetryRebookStep ==
  ASSUME TypeOK, Causality, NEW r \in Requests, NEW b \in Bookings, RetryRebook(r, b)
  PROVE  Preserved(r)
  <1>. USE DEF RetryRebook, Retryable, TypeOK
  <1>. DEFINE loc == [Idle EXCEPT !.pc = "reserve", !.op = "rebook", !.b = b]
  <1>1. loc \in Request /\ loc.pc = "reserve" /\ loc.b = b /\ loc.op = "rebook"
    BY IdleType DEF Idle, Request, PCs, Ops
  <1>2. Moves(r) /\ req'[r] = loc
    BY <1>1, TakeEffect
  <1>3. TypeOK'
    BY <1>2 DEF Moves, db, world
  <1>4. Rows
    BY SMT DEF Rows, Causality, RowInv, Forward, Committable, Funded, db, world
  <1>5. RequestInv(r)'
    BY <1>1, <1>2 DEF Causality, RowInv, RequestInv, Committable, Funded, db, world
  <1>. QED BY <1>2, <1>3, <1>4, <1>5 DEF Preserved

LEMMA CancelStep ==
  ASSUME TypeOK, Causality, NEW r \in Requests, NEW b \in Bookings,
         NEW charge \in Charges, Cancel(r, b, charge)
  PROVE  Preserved(r)
  <1>. USE DEF Cancel, Cancellable, TypeOK
  <1>. DEFINE s == booking[b].state
              loc == [Idle EXCEPT
                !.op = "cancel", !.b = b, !.state = s,
                !.charge = IF s = "COMMITTED" THEN charge ELSE "NONE",
                !.pc = CASE s = "COMMITTED"     -> "axisCancel"
                         [] s = "COMMIT_FAILED" -> "readInvoice"
                         [] OTHER               -> "markCancelled"]
  <1>0. s \in States
    BY DEF BookingRow
  <1>1. /\ loc \in Request /\ loc.b = b /\ loc.op = "cancel"
        /\ loc.pc \in {"axisCancel", "readInvoice", "markCancelled"}
    BY <1>0, IdleType DEF Idle, Request, PCs, Ops, Charges
  <1>a. Take(r, b, loc)
    OBVIOUS
  <1>. HIDE DEF loc
  <1>2. Moves(r) /\ req'[r] = loc
    BY <1>1, <1>a, TakeEffect
  <1>3. TypeOK'
    BY <1>2 DEF Moves, db, world
  <1>4. Rows
    BY SMT DEF Rows, Causality, RowInv, Forward, Committable, Funded, db, world
  <1>5. RequestInv(r)'
    BY <1>1, <1>2 DEF Causality, RowInv, RequestInv, Committable, Funded, db, world
  <1>. QED BY <1>2, <1>3, <1>4, <1>5 DEF Preserved

LEMMA LoadForPayStep ==
  ASSUME TypeOK, Causality, NEW r \in Requests, NEW b \in Bookings, LoadForPay(r, b)
  PROVE  Preserved(r)
  <1>. USE DEF LoadForPay, TypeOK
  <1>. DEFINE loc == [req[r] EXCEPT !.pc = IF booking[b].lapsed THEN "expire" ELSE "capture",
                                    !.b = b, !.batch = @ \ {b}]
  <1>0. req[r] \in Request /\ req[r].op = "pay"
    OBVIOUS
  <1>1. /\ loc \in Request /\ loc.pc \in {"expire", "capture"}
        /\ loc.b = b /\ loc.op = "pay"
    <2>1. CASE booking[b].lapsed
      BY ONLY <1>0, <2>1, b \in Bookings DEF Request, PCs
    <2>2. CASE ~booking[b].lapsed
      BY ONLY <1>0, <2>2, b \in Bookings DEF Request, PCs
    <2>. QED BY <2>1, <2>2
  <1>a. \/ booking[b].state = "AWAITING_PAYMENT" /\ Take(r, b, loc)
        \/ Throw(r)
    OBVIOUS
  <1>. HIDE DEF loc
  <1>2. /\ Moves(r)
        /\ \/ booking[b].state = "AWAITING_PAYMENT" /\ req'[r] = loc
           \/ req'[r].pc = "idle"
    BY <1>1, <1>a, TakeEffect, ThrowEffect
  <1>3. TypeOK'
    BY <1>2 DEF Moves, db, world
  <1>4. Rows
    BY SMT DEF Rows, Causality, RowInv, Forward, Committable, Funded, db, world
  <1>5. RequestInv(r)'
    BY <1>1, <1>2 DEF Causality, RowInv, RequestInv, Committable, Funded, db, world
  <1>. QED BY <1>2, <1>3, <1>4, <1>5 DEF Preserved

LEMMA PickTaskStep ==
  ASSUME TypeOK, Causality, NEW r \in Requests, NEW b \in Bookings, PickTask(r, b)
  PROVE  Preserved(r)
  <1>. USE DEF PickTask, Retryable, TypeOK
  <1>. DEFINE loc  == [req[r] EXCEPT !.pc = "reserve", !.b = b, !.batch = @ \ {b}]
              skip == Without(req[r], b)
  <1>1. /\ loc \in Request /\ loc.pc = "reserve" /\ loc.b = b /\ loc.op = "rebook"
        /\ skip \in Request /\ skip.pc \in {"idle", "next"}
    BY IdleType DEF Idle, Request, PCs, Without
  <1>a. \/ booking[b].state = "COMMIT_FAILED" /\ Take(r, b, loc)
        \/ req' = [req EXCEPT ![r] = skip] /\ UNCHANGED <<raced, deaths>>
    OBVIOUS
  <1>. HIDE DEF loc, skip
  <1>2. /\ Moves(r)
        /\ \/ booking[b].state = "COMMIT_FAILED" /\ req'[r] = loc
           \/ req'[r] = skip
    BY <1>1, <1>a, TakeEffect DEF Moves
  <1>3. TypeOK'
    BY <1>2 DEF Moves, db, world
  <1>4. Rows
    BY SMT DEF Rows, Causality, RowInv, Forward, Committable, Funded, db, world
  <1>5. RequestInv(r)'
    BY <1>1, <1>2 DEF Causality, RowInv, RequestInv, Committable, Funded, db, world
  <1>. QED BY <1>2, <1>3, <1>4, <1>5 DEF Preserved

LEMMA CreateCreditLineStep ==
  ASSUME TypeOK, Causality, NEW r \in Requests, NEW b \in Bookings, CreateCreditLine(r, b)
  PROVE  Preserved(r)
  <1>. USE DEF CreateCreditLine, TypeOK
  <1>. DEFINE loc == [req[r] EXCEPT !.pc = "reserve", !.b = b, !.batch = @ \ {b}]
              row == [booking[b] EXCEPT !.state = "CONFIRMED_ON_CREDIT", !.mode = "CREDIT"]
  <1>1. loc \in Request /\ loc.pc = "reserve" /\ loc.b = b
    BY DEF Request, PCs
  <1>a. /\ row \in BookingRow /\ row.state = "CONFIRMED_ON_CREDIT" /\ row.mode = "CREDIT"
        /\ booking' = [booking EXCEPT ![b] = row]
    BY DEF BookingRow, States, Modes
  <1>b. Take(r, b, loc)
    OBVIOUS
  <1>. HIDE DEF loc, row
  <1>2. Moves(r) /\ req'[r] = loc
    BY <1>1, <1>b, TakeEffect
  <1>3. TypeOK'
    BY <1>a, <1>2 DEF Moves, world
  <1>4. Rows
    BY <1>a, SMT DEF Rows, Causality, RowInv, Forward, Committable, Funded, world
  <1>5. RequestInv(r)'
    BY <1>1, <1>a, <1>2 DEF Causality, RowInv, RequestInv, Committable, Funded, world
  <1>. QED BY <1>2, <1>3, <1>4, <1>5 DEF Preserved

LEMMA CreatePrepayLineStep ==
  ASSUME TypeOK, Causality, NEW r \in Requests, NEW b \in Bookings, CreatePrepayLine(r, b)
  PROVE  Preserved(r)
  <1>. USE DEF CreatePrepayLine, TypeOK
  <1>. DEFINE loc == Without(req[r], b)
              row == [booking[b] EXCEPT !.state = "AWAITING_PAYMENT", !.mode = "PREPAY"]
  <1>1. loc \in Request /\ loc.pc \in {"idle", "next"} /\ req' = [req EXCEPT ![r] = loc]
    BY IdleType DEF Idle, Request, Without
  <1>a. /\ row \in BookingRow /\ row.state = "AWAITING_PAYMENT" /\ row.mode = "PREPAY"
        /\ booking' = [booking EXCEPT ![b] = row]
    BY DEF BookingRow, States, Modes
  <1>. HIDE DEF loc, row
  <1>2. Moves(r) /\ req'[r] = loc
    BY <1>1 DEF Moves
  <1>3. TypeOK'
    <2>1. booking' \in [Bookings -> BookingRow]
      BY <1>a
    <2>2. UNCHANGED <<task, invoice, resv, captured, refunded>>
      BY DEF world
    <2>. QED BY <1>2, <2>1, <2>2 DEF Moves
  <1>4. Rows
    BY <1>a, SMT DEF Rows, Causality, RowInv, Forward, Committable, Funded, world
  <1>5. RequestInv(r)'
    BY <1>1, <1>2 DEF RequestInv
  <1>. QED BY <1>2, <1>3, <1>4, <1>5 DEF Preserved

\* Listing the bookings to work on, and dying, touch no row.
LEMMA ListStep ==
  ASSUME TypeOK, Causality, NEW r \in Requests,
         \/ \E lines \in SUBSET Bookings :
               (\E op \in {"createCredit", "createPrepay"} : BeginCreate(r, lines, op)) \/ BeginPay(r, lines)
         \/ ListQueue(r)
         \/ \E b \in Bookings : Die(r, b)
  PROVE  Preserved(r)
  <1>. USE DEF TypeOK
  <1>1. /\ UNCHANGED <<booking, task, invoice, resv, captured, refunded, raced>>
        /\ deaths' \in [Bookings -> Nat]
    <2>1. CASE ListQueue(r)
      BY <2>1 DEF ListQueue, db, world
    <2>2. ASSUME NEW b \in Bookings, Die(r, b)
          PROVE  <1>1!:
      BY <2>2 DEF Die, db, world
    <2>3. ASSUME NEW lines \in SUBSET Bookings, NEW op \in Ops,
                 BeginCreate(r, lines, op) \/ BeginPay(r, lines)
          PROVE  <1>1!:
      BY <2>3 DEF BeginCreate, BeginPay, db, world
    <2>. QED BY <2>1, <2>2, <2>3 DEF Ops
  <1>2. \E loc \in Request : loc.pc \in {"idle", "next"} /\ req' = [req EXCEPT ![r] = loc]
    <2>1. ASSUME NEW lines \in SUBSET Bookings, NEW op \in Ops
          PROVE  LET loc == [Idle EXCEPT !.pc = "next", !.op = op, !.batch = lines]
                 IN  loc \in Request /\ loc.pc = "next"
      BY IdleType DEF Idle, Request, PCs
    <2>2. {b \in Bookings : task[b].status = "PENDING"} \in SUBSET Bookings
      OBVIOUS
    <2>3. Idle \in Request /\ Idle.pc = "idle"
      BY IdleType DEF Idle
    <2>4. CASE ListQueue(r)
      BY <2>1, <2>2, <2>4 DEF ListQueue, Ops
    <2>5. CASE \E b \in Bookings : Die(r, b)
      BY <2>3, <2>5 DEF Die
    <2>6. ASSUME NEW lines \in SUBSET Bookings, NEW op \in {"createCredit", "createPrepay"},
                 BeginCreate(r, lines, op)
          PROVE  \E loc \in Request : loc.pc \in {"idle", "next"} /\ req' = [req EXCEPT ![r] = loc]
      BY <2>1, <2>6 DEF BeginCreate, Ops
    <2>7. ASSUME NEW lines \in SUBSET Bookings, BeginPay(r, lines)
          PROVE  \E loc \in Request : loc.pc \in {"idle", "next"} /\ req' = [req EXCEPT ![r] = loc]
      BY <2>1, <2>7 DEF BeginPay, Ops
    <2>. QED BY <2>4, <2>5, <2>6, <2>7
  <1>3. Moves(r) /\ RequestInv(r)'
    BY <1>1, <1>2 DEF Moves, RequestInv
  <1>4. TypeOK'
    BY <1>1, <1>3 DEF Moves
  <1>5. Rows
    BY <1>1, SMT DEF Rows, Causality, RowInv, Forward, Committable, Funded
  <1>. QED BY <1>3, <1>4, <1>5 DEF Preserved

-----------------------------------------------------------------------------
(* Putting the steps together.                                             *)

\* A request that does not move keeps what it relies on, since rows only move
\* forward.
LEMMA OthersKeep ==
  ASSUME TypeOK, Causality, NEW r \in Requests, Preserved(r)
  PROVE  TypeOK' /\ Causality'
  <1>1. ASSUME NEW q \in Requests, q # r
        PROVE  RequestInv(q)'
    <2>1. req'[q] = req[q] /\ RequestInv(q)
      BY <1>1 DEF Preserved, Moves, Causality
    <2>2. req[q].b \in Bookings => Forward(req[q].b)
      BY DEF Preserved, Rows
    <2>3. req[q].b \in Bookings => captured[req[q].b] \in Nat /\ captured'[req[q].b] \in Nat
      BY DEF Preserved, TypeOK
    <2>. QED BY <2>1, <2>2, <2>3 DEF RequestInv, Forward, Committable, Funded
  <1>. QED BY <1>1 DEF Preserved, Rows, Causality

\* The passing of time only marks a hold as lapsed.
LEMMA LapseStep ==
  ASSUME TypeOK, Causality, NEW b \in Bookings, Lapse(b)
  PROVE  TypeOK' /\ Causality'
  <1>. DEFINE row == [booking[b] EXCEPT !.lapsed = TRUE]
  <1>1. /\ row \in BookingRow /\ row.state = booking[b].state /\ row.mode = booking[b].mode
        /\ booking' = [booking EXCEPT ![b] = row]
    BY DEF Lapse, TypeOK, BookingRow
  <1>. HIDE DEF row
  <1>2. TypeOK'
    BY <1>1 DEF Lapse, TypeOK, world
  <1>3. \A c \in Bookings : booking'[c].state = booking[c].state /\ booking'[c].mode = booking[c].mode
    BY <1>1 DEF TypeOK
  <1>4. Causality'
    BY <1>3 DEF Lapse, Causality, RowInv, RequestInv, Committable, Funded, world
  <1>. QED BY <1>2, <1>4

LEMMA NextStep == TypeOK /\ Causality /\ [Next]_vars => TypeOK' /\ Causality'
  <1>. SUFFICES ASSUME TypeOK, Causality, [Next]_vars
                PROVE  TypeOK' /\ Causality'
    OBVIOUS
  <1>1. ASSUME NEW r \in Requests, Step(r)
        PROVE  TypeOK' /\ Causality'
    <2>. PICK b \in Bookings :
           \/ CreateCreditLine(r, b) \/ CreatePrepayLine(r, b)
           \/ LoadForPay(r, b) \/ Capture(r, b) \/ RecordPayment(r, b) \/ MarkPaid(r, b)
           \/ Expire(r, b)
           \/ Reserve(r, b) \/ MarkCommitted(r, b) \/ RecordObligation(r, b)
           \/ ReadTask(r, b) \/ MarkFailed(r, b) \/ UpsertTask(r, b)
           \/ PickTask(r, b) \/ ResolveTask(r, b)
           \/ AxisCancel(r, b) \/ ReadInvoice(r, b) \/ Refund(r, b)
           \/ AdjustInvoice(r, b) \/ CloseTask(r, b) \/ MarkCancelled(r, b)
      BY <1>1 DEF Step
    <2>1. Preserved(r)
      BY CreateCreditLineStep, CreatePrepayLineStep, LoadForPayStep, CaptureStep,
         RecordPaymentStep, MarkPaidStep, ExpireStep, ReserveStep, MarkCommittedStep,
         RecordObligationStep, ReadTaskStep, MarkFailedStep, UpsertTaskStep, PickTaskStep,
         ResolveTaskStep, AxisCancelStep, ReadInvoiceStep, RefundStep, AdjustInvoiceStep,
         CloseTaskStep, MarkCancelledStep
    <2>. QED BY <2>1, OthersKeep
  <1>2. ASSUME NEW r \in Callers, Call(r)
        PROVE  TypeOK' /\ Causality'
    <2>. r \in Requests
      BY DEF Requests
    <2>1. Preserved(r)
      BY <1>2, ListStep, GetBookingStep, RetryRebookStep, CancelStep DEF Call
    <2>. QED BY <2>1, OthersKeep
  <1>3. ASSUME NEW r \in Runs, ListQueue(r)
        PROVE  TypeOK' /\ Causality'
    BY <1>3, ListStep, OthersKeep DEF Requests
  <1>4. ASSUME NEW b \in Bookings, Lapse(b)
        PROVE  TypeOK' /\ Causality'
    BY <1>4, LapseStep
  <1>5. ASSUME NEW b \in Bookings, NEW r \in Requests, Die(r, b)
        PROVE  TypeOK' /\ Causality'
    BY <1>5, ListStep, OthersKeep
  <1>6. CASE UNCHANGED vars
    <2>1. TypeOK'
      BY <1>6 DEF vars, TypeOK
    <2>2. Causality'
      BY <1>6 DEF vars, Causality, RowInv, RequestInv, Committable, Funded
    <2>. QED BY <2>1, <2>2
  <1>. QED BY <1>1, <1>2, <1>3, <1>4, <1>5, <1>6 DEF Next

LEMMA InitHolds == Init => TypeOK /\ Causality
  <1>1. Init => TypeOK
    BY BoundsAssumption, IdleType DEF Init, TypeOK, BookingRow, TaskRow, States, Modes,
       TaskStatuses, InvoiceStatuses
  <1>2. Init => Causality
    BY DEF Init, Causality, RowInv, RequestInv, Committable, Funded, Idle
  <1>. QED BY <1>1, <1>2

\* Every row and every request keeps its type.
THEOREM TypeCorrect == Spec => []TypeOK
  <1>1. TypeOK /\ Causality /\ [Next]_vars => (TypeOK /\ Causality)'
    BY NextStep
  <1>. QED BY InitHolds, <1>1, PTL DEF Spec

\* Whatever a request in flight read before an await, the facts it acts on
\* after it still hold.
THEOREM CausalityHolds == Spec => []Causality
  <1>1. TypeOK /\ Causality /\ [Next]_vars => (TypeOK /\ Causality)'
    BY NextStep
  <1>. QED BY InitHolds, <1>1, PTL DEF Spec

\* No pre-paid booking reaches the resort unpaid, for any number of bookings,
\* requests, races and deaths.
THEOREM PayFirstHolds == Spec => []PayFirst
  <1>1. Causality => PayFirst
    BY DEF Causality, RowInv, PayFirst, Committable
  <1>. QED BY CausalityHolds, <1>1, PTL

\* No credit booking is billed before its reservation landed.
THEOREM BillOnlyLandedHolds == Spec => []BillOnlyLanded
  <1>1. TypeOK /\ Causality => BillOnlyLanded
    BY DEF TypeOK, InvoiceStatuses, Causality, RowInv, BillOnlyLanded
  <1>. QED BY TypeCorrect, CausalityHolds, <1>1, PTL
-----------------------------------------------------------------------------
(* A booking where no two requests met and none died.  Working says, for    *)
(* each point a request can be at, what the rows of its booking hold there; *)
(* Rests, what they hold once nobody is on it.                              *)

Unpaid(b) == captured[b] = 0 /\ refunded[b] = 0
Untouched(b) == Unpaid(b) /\ invoice[b] = "NONE"
PaidFor(b) == captured[b] = 1 /\ refunded[b] = 0 /\ invoice[b] = "PAID"

\* Ready to be pushed: a credit booking is not billed yet, a pre-paid one is paid.
Ready(b) == IF booking[b].mode = "CREDIT" THEN Untouched(b) ELSE PaidFor(b)
Billed(b) ==
    IF booking[b].mode = "CREDIT" THEN Unpaid(b) /\ invoice[b] = "ISSUED" ELSE PaidFor(b)
Queued(b) == task[b].status \in {"PENDING", "ABANDONED"}

\* The money of a cancelled booking.
Settled(b) ==
    Unpaid(b) \/ (captured[b] = 1 /\ refunded[b] <= 1 /\ invoice[b] = "REFUNDED")

Rests(b) ==
    LET s == booking[b].state
    IN  /\ s \notin {"CONFIRMED_ON_CREDIT", "PAID"}
        /\ s \in {"NONE", "AWAITING_PAYMENT", "EXPIRED"} => Untouched(b)
        /\ s = "COMMITTED" => Billed(b) /\ resv[b] = "HELD"
        /\ s = "COMMIT_FAILED" => Ready(b) /\ Queued(b)
        /\ s = "CANCELLED" => Settled(b)

\* Where a booking is while it is being pushed, by the call that pushes it.
Pushed(op) ==
    CASE op = "createCredit" -> "CONFIRMED_ON_CREDIT"
      [] op = "pay"          -> "PAID"
      [] OTHER               -> "COMMIT_FAILED"

\* A cancellation works on what it found: a reservation and its bill, or a
\* failed push.
Cancelling(r, b) ==
    /\ req[r].op = "cancel" /\ req[r].state = booking[b].state
    /\ booking[b].state \in {"COMMITTED", "COMMIT_FAILED"}

Undone(b) == IF booking[b].state = "COMMITTED" THEN Billed(b) ELSE Ready(b)

Working(r, b) ==
    LET pc == req[r].pc
        op == req[r].op
        s  == booking[b].state
    IN  /\ pc \in {"expire", "capture"} => s = "AWAITING_PAYMENT" /\ Untouched(b)
        /\ pc \in {"capture", "recordPayment", "markPaid"} => op = "pay"
        /\ op = "pay" => booking[b].mode = "PREPAY"
        /\ pc = "recordPayment" =>
              /\ s = "AWAITING_PAYMENT"
              /\ captured[b] = 1 /\ refunded[b] = 0 /\ invoice[b] = "NONE"
        /\ pc = "markPaid" => s = "AWAITING_PAYMENT" /\ PaidFor(b)
        /\ pc \in {"reserve", "markCommitted", "readTask", "markFailed"} =>
              /\ op \in {"createCredit", "pay", "rebook"} /\ s = Pushed(op) /\ Ready(b)
              /\ op = "rebook" => Queued(b)
        /\ pc = "markCommitted" => resv[b] = "HELD"
        /\ pc = "obligation" => s = "COMMITTED" /\ Untouched(b) /\ resv[b] = "HELD"
        /\ pc = "resolveTask" => s = "COMMITTED" /\ Ready(b) /\ Queued(b) /\ resv[b] = "HELD"
        /\ pc = "upsertTask" => s = "COMMIT_FAILED" /\ Ready(b)
        /\ pc \in {"axisCancel", "readInvoice", "refund", "adjust"} => Cancelling(r, b)
        /\ pc \in {"axisCancel", "readInvoice"} => Undone(b)
        /\ pc = "refund" => Undone(b) /\ req[r].invoice = invoice[b]
        /\ pc = "adjust" =>
              /\ Unpaid(b) \/ (captured[b] = 1 /\ refunded[b] <= 1 /\ invoice[b] = "PAID")
              /\ req[r].invoice = invoice[b]
        /\ pc \in {"closeTask", "markCancelled"} => Settled(b)

Alone(b) == \A q, r \in Requests : On(q, b) /\ On(r, b) => q = r

Orderly(b) ==
    /\ Quiet(b) => Rests(b)
    /\ \A r \in Requests : On(r, b) => Working(r, b)

Terminal(b) == booking[b].state \in {"CANCELLED", "EXPIRED"}

OrderOf(b) ==
    /\ ~raced[b] => Alone(b) /\ (Terminal(b) => Quiet(b))
    /\ Undisturbed(b) => Orderly(b)

Order == \A b \in Bookings : OrderOf(b)

\* No step undoes a cancellation or an expiry, or takes up a booking that rests so.
Final ==
    \A b \in Bookings :
        Terminal(b) /\ (Quiet(b) \/ ~raced'[b])
            => booking'[b].state = booking[b].state /\ (Quiet(b) => Quiet(b)')

SameRow(c) ==
    /\ booking'[c] = booking[c] /\ task'[c] = task[c] /\ invoice'[c] = invoice[c]
    /\ resv'[c] = resv[c] /\ captured'[c] = captured[c] /\ refunded'[c] = refunded[c]

\* Nothing happens to c, and the requests on it stay as they are.
Spared(c) ==
    /\ SameRow(c) /\ raced'[c] = raced[c] /\ deaths'[c] = deaths[c]
    /\ \A q \in Requests : (On(q, c)' <=> On(q, c)) /\ (On(q, c) => req'[q] = req[q])

LEMMA SparedKeepsOrder ==
  ASSUME NEW c \in Bookings, OrderOf(c), Spared(c)
  PROVE  OrderOf(c)'
  <1>1. /\ Undisturbed(c)' <=> Undisturbed(c)
        /\ Quiet(c)' <=> Quiet(c)
        /\ Alone(c)' <=> Alone(c)
        /\ Terminal(c)' <=> Terminal(c)
    BY DEF Spared, SameRow, Undisturbed, Quiet, Alone, Terminal
  <1>2. /\ Untouched(c)' <=> Untouched(c)
        /\ PaidFor(c)' <=> PaidFor(c)
        /\ Ready(c)' <=> Ready(c)
        /\ Billed(c)' <=> Billed(c)
        /\ Undone(c)' <=> Undone(c)
        /\ Queued(c)' <=> Queued(c)
        /\ Settled(c)' <=> Settled(c)
    BY DEF Spared, SameRow, Untouched, Unpaid, PaidFor, Ready, Billed, Undone, Queued, Settled
  <1>3. Rests(c)' <=> Rests(c)
    BY <1>2 DEF Spared, SameRow, Rests
  <1>4. ASSUME NEW q \in Requests, On(q, c), Working(q, c)
        PROVE  Working(q, c)'
    <2>1. req'[q] = req[q] /\ SameRow(c)
      BY <1>4 DEF Spared
    <2>. QED BY <1>2, <1>4, <2>1 DEF SameRow, Working, Cancelling, Unpaid
  <1>5. Orderly(c) => Orderly(c)'
    BY <1>1, <1>3, <1>4 DEF Orderly, Spared
  <1>. QED BY <1>1, <1>5 DEF OrderOf, Spared

Elsewhere(b) == \A c \in Bookings : c # b => SameRow(c)

\* A request goes on with the booking it is on.
LEMMA WorkKeepsOrder ==
  ASSUME TypeOK, Order, NEW r \in Requests, NEW b \in Bookings, On(r, b),
         Elsewhere(b), Moves(r), UNCHANGED <<raced, deaths>>,
         req'[r].pc \in {"idle", "next"} \/ req'[r].b = b,
         Terminal(b)' => Terminal(b) \/ ~On(r, b)',
         Working(r, b) => IF On(r, b)' THEN Working(r, b)' ELSE Rests(b)'
  PROVE  Order' /\ Final
  <1>1. ASSUME NEW c \in Bookings, c # b
        PROVE  Spared(c)
    BY <1>1 DEF Elsewhere, Moves, Spared, On
  <1>2. OrderOf(b)
    BY DEF Order
  <1>3. ~raced[b] => /\ ~Terminal(b)
                     /\ \A q \in Requests : q # r => ~On(q, b) /\ ~On(q, b)'
    BY <1>2 DEF OrderOf, Quiet, Alone, Moves, On
  <1>4. OrderOf(b)'
    <2>1. ~raced'[b] => Alone(b)' /\ (Terminal(b)' => Quiet(b)')
      BY <1>3 DEF Alone, Quiet
    <2>2. ASSUME Undisturbed(b)' PROVE Orderly(b)'
      <3>1. ~raced[b] /\ Working(r, b)
        BY <1>2, <2>2 DEF OrderOf, Orderly, Undisturbed
      <3>. QED BY <1>3, <3>1 DEF Orderly, Quiet
    <2>. QED BY <2>1, <2>2 DEF OrderOf
  <1>5. Final
    BY <1>1, <1>3 DEF Final, Spared, SameRow, Quiet
  <1>6. \A c \in Bookings : OrderOf(c)'
    BY <1>1, <1>4, SparedKeepsOrder DEF Order
  <1>. QED BY <1>5, <1>6 DEF Order

\* A request takes up a booking.
LEMMA TakeKeepsOrder ==
  ASSUME TypeOK, Order, NEW r \in Requests, NEW b \in Bookings, NEW loc \in Request,
         req[r].pc \in {"idle", "next"}, Take(r, b, loc), loc.b = b,
         loc.pc \notin {"idle", "next"}, Elsewhere(b), ~Terminal(b), ~Terminal(b)',
         Rests(b) => Working(r, b)'
  PROVE  Order' /\ Final
  <1>1. /\ Moves(r) /\ req'[r] = loc /\ UNCHANGED deaths
        /\ \A c \in Bookings : c # b => raced'[c] = raced[c]
        /\ ~raced'[b] => ~raced[b] /\ \A q \in Requests : q # r => ~On(q, b)
    BY TakeEffect DEF Take, TypeOK
  <1>2. ASSUME NEW c \in Bookings, c # b
        PROVE  Spared(c)
    BY <1>1, <1>2 DEF Elsewhere, Moves, Spared, On
  <1>3. ~raced'[b] => Quiet(b) /\ \A q \in Requests : q # r => ~On(q, b)'
    BY <1>1 DEF Quiet, Moves, On
  <1>4. OrderOf(b)'
    <2>1. ~raced'[b] => Alone(b)'
      BY <1>3 DEF Alone
    <2>2. ASSUME Undisturbed(b)' PROVE Working(r, b)' /\ ~raced'[b]
      <3>1. Undisturbed(b)
        BY <1>1, <2>2 DEF Undisturbed
      <3>2. Quiet(b) /\ ~raced'[b]
        BY <1>3, <2>2 DEF Undisturbed
      <3>. QED BY <3>1, <3>2 DEF Order, OrderOf, Orderly
    <2>3. ~Quiet(b)'
      BY <1>1 DEF Quiet, On
    <2>4. ASSUME Undisturbed(b)' PROVE Orderly(b)'
      BY <1>3, <2>2, <2>3, <2>4 DEF Orderly
    <2>. QED BY <2>1, <2>4 DEF OrderOf
  <1>5. Final
    BY <1>2 DEF Final, Spared, SameRow, Quiet
  <1>6. \A c \in Bookings : OrderOf(c)'
    BY <1>2, <1>4, SparedKeepsOrder DEF Order
  <1>. QED BY <1>5, <1>6 DEF Order

\* One lemma per step of a request at work.
LEMMA CaptureOrder ==
  ASSUME TypeOK, Causality, Order, NEW r \in Requests, NEW b \in Bookings, Capture(r, b)
  PROVE  Order' /\ Final
  <1>. USE DEF Capture, TypeOK
  <1>1. On(r, b) /\ RequestInv(r)
    BY DEF On, Causality
  <1>2. Elsewhere(b)
    BY DEF Elsewhere, SameRow, db
  <1>3. /\ Moves(r) /\ UNCHANGED <<raced, deaths>>
        /\ req'[r].pc \in {"idle", "next"} \/ req'[r].b = b
    BY GotoEffect, ThrowEffect DEF PCs
  <1>4. Terminal(b)' => Terminal(b) \/ ~On(r, b)'
    BY GotoEffect, ThrowEffect DEF Terminal, On, PCs, db
  <1>5. ASSUME Working(r, b) PROVE IF On(r, b)' THEN Working(r, b)' ELSE Rests(b)'
    BY <1>1, <1>5, GotoEffect, ThrowEffect DEF On, Working, Pushed, Cancelling, Undone, Ready, Billed, PaidFor, Untouched, Unpaid, Queued, Settled,
       Rests, RequestInv, PCs, db
  <1>. QED BY <1>1, <1>2, <1>3, <1>4, <1>5, WorkKeepsOrder

LEMMA RecordPaymentOrder ==
  ASSUME TypeOK, Causality, Order, NEW r \in Requests, NEW b \in Bookings, RecordPayment(r, b)
  PROVE  Order' /\ Final
  <1>. USE DEF RecordPayment, TypeOK
  <1>1. On(r, b) /\ RequestInv(r)
    BY DEF On, Causality
  <1>2. Elsewhere(b)
    BY DEF Elsewhere, SameRow, world
  <1>3. /\ Moves(r) /\ UNCHANGED <<raced, deaths>>
        /\ req'[r].pc \in {"idle", "next"} \/ req'[r].b = b
    BY GotoEffect, ThrowEffect DEF PCs
  <1>4. Terminal(b)' => Terminal(b) \/ ~On(r, b)'
    BY GotoEffect, ThrowEffect DEF Terminal, On, PCs, world
  <1>5. ASSUME Working(r, b) PROVE IF On(r, b)' THEN Working(r, b)' ELSE Rests(b)'
    BY <1>1, <1>5, GotoEffect, ThrowEffect DEF On, Working, Pushed, Cancelling, Undone, Ready, Billed, PaidFor, Untouched, Unpaid, Queued, Settled,
       Rests, RequestInv, PCs, world
  <1>. QED BY <1>1, <1>2, <1>3, <1>4, <1>5, WorkKeepsOrder

LEMMA MarkPaidOrder ==
  ASSUME TypeOK, Causality, Order, NEW r \in Requests, NEW b \in Bookings, MarkPaid(r, b)
  PROVE  Order' /\ Final
  <1>. USE DEF MarkPaid, TypeOK
  <1>1. On(r, b) /\ RequestInv(r)
    BY DEF On, Causality
  <1>2. Elsewhere(b)
    BY SetStateEffect DEF Elsewhere, SameRow, world, States
  <1>3. /\ Moves(r) /\ UNCHANGED <<raced, deaths>>
        /\ req'[r].pc \in {"idle", "next"} \/ req'[r].b = b
    BY GotoEffect DEF PCs
  <1>4. Terminal(b)' => Terminal(b) \/ ~On(r, b)'
    BY SetStateEffect, GotoEffect DEF Terminal, On, PCs, world, States
  <1>5. ASSUME Working(r, b) PROVE IF On(r, b)' THEN Working(r, b)' ELSE Rests(b)'
    BY SetStateEffect, <1>1, <1>5, GotoEffect DEF On, Working, Pushed, Cancelling, Undone, Ready, Billed, PaidFor, Untouched, Unpaid, Queued, Settled,
       Rests, RequestInv, PCs, world, States
  <1>. QED BY <1>1, <1>2, <1>3, <1>4, <1>5, WorkKeepsOrder

LEMMA ExpireOrder ==
  ASSUME TypeOK, Causality, Order, NEW r \in Requests, NEW b \in Bookings, Expire(r, b)
  PROVE  Order' /\ Final
  <1>. USE DEF Expire, TypeOK
  <1>1. On(r, b) /\ RequestInv(r)
    BY DEF On, Causality
  <1>2. Elsewhere(b)
    BY SetStateEffect DEF Elsewhere, SameRow, world, States
  <1>3. /\ Moves(r) /\ UNCHANGED <<raced, deaths>>
        /\ req'[r].pc \in {"idle", "next"} \/ req'[r].b = b
    BY ThrowEffect DEF PCs
  <1>4. Terminal(b)' => Terminal(b) \/ ~On(r, b)'
    BY SetStateEffect, ThrowEffect DEF Terminal, On, PCs, world, States
  <1>5. ASSUME Working(r, b) PROVE IF On(r, b)' THEN Working(r, b)' ELSE Rests(b)'
    BY SetStateEffect, <1>1, <1>5, ThrowEffect DEF On, Working, Pushed, Cancelling, Undone, Ready, Billed, PaidFor, Untouched, Unpaid, Queued, Settled,
       Rests, RequestInv, PCs, world, States
  <1>. QED BY <1>1, <1>2, <1>3, <1>4, <1>5, WorkKeepsOrder

LEMMA ReserveOrder ==
  ASSUME TypeOK, Causality, Order, NEW r \in Requests, NEW b \in Bookings, Reserve(r, b)
  PROVE  Order' /\ Final
  <1>. USE DEF Reserve, TypeOK
  <1>1. On(r, b) /\ RequestInv(r)
    BY DEF On, Causality
  <1>2. Elsewhere(b)
    BY DEF Elsewhere, SameRow, db
  <1>3. /\ Moves(r) /\ UNCHANGED <<raced, deaths>>
        /\ req'[r].pc \in {"idle", "next"} \/ req'[r].b = b
    BY GotoEffect DEF PCs, AfterPush
  <1>4. Terminal(b)' => Terminal(b) \/ ~On(r, b)'
    BY GotoEffect DEF Terminal, On, PCs, db, AfterPush
  <1>5. ASSUME Working(r, b) PROVE IF On(r, b)' THEN Working(r, b)' ELSE Rests(b)'
    BY <1>1, <1>5, GotoEffect DEF On, Working, Pushed, Cancelling, Undone, Ready, Billed, PaidFor, Untouched, Unpaid, Queued, Settled,
       Rests, RequestInv, PCs, db, AfterPush
  <1>. QED BY <1>1, <1>2, <1>3, <1>4, <1>5, WorkKeepsOrder

LEMMA RecordObligationOrder ==
  ASSUME TypeOK, Causality, Order, NEW r \in Requests, NEW b \in Bookings, RecordObligation(r, b)
  PROVE  Order' /\ Final
  <1>. USE DEF RecordObligation, TypeOK
  <1>1. On(r, b) /\ RequestInv(r)
    BY DEF On, Causality
  <1>2. Elsewhere(b)
    BY DEF Elsewhere, SameRow, world
  <1>3. /\ Moves(r) /\ UNCHANGED <<raced, deaths>>
        /\ req'[r].pc \in {"idle", "next"} \/ req'[r].b = b
    BY FinishEffect, ThrowEffect DEF PCs
  <1>4. Terminal(b)' => Terminal(b) \/ ~On(r, b)'
    BY FinishEffect, ThrowEffect DEF Terminal, On, PCs, world
  <1>5. ASSUME Working(r, b) PROVE IF On(r, b)' THEN Working(r, b)' ELSE Rests(b)'
    BY <1>1, <1>5, FinishEffect, ThrowEffect DEF On, Working, Pushed, Cancelling, Undone, Ready, Billed, PaidFor, Untouched, Unpaid, Queued, Settled,
       Rests, RequestInv, PCs, world
  <1>. QED BY <1>1, <1>2, <1>3, <1>4, <1>5, WorkKeepsOrder

LEMMA MarkFailedOrder ==
  ASSUME TypeOK, Causality, Order, NEW r \in Requests, NEW b \in Bookings, MarkFailed(r, b)
  PROVE  Order' /\ Final
  <1>. USE DEF MarkFailed, TypeOK
  <1>1. On(r, b) /\ RequestInv(r)
    BY DEF On, Causality
  <1>2. Elsewhere(b)
    BY SetStateEffect DEF Elsewhere, SameRow, world, States
  <1>3. /\ Moves(r) /\ UNCHANGED <<raced, deaths>>
        /\ req'[r].pc \in {"idle", "next"} \/ req'[r].b = b
    BY GotoEffect DEF PCs
  <1>4. Terminal(b)' => Terminal(b) \/ ~On(r, b)'
    BY SetStateEffect, GotoEffect DEF Terminal, On, PCs, world, States
  <1>5. ASSUME Working(r, b) PROVE IF On(r, b)' THEN Working(r, b)' ELSE Rests(b)'
    BY SetStateEffect, <1>1, <1>5, GotoEffect DEF On, Working, Pushed, Cancelling, Undone, Ready, Billed, PaidFor, Untouched, Unpaid, Queued, Settled,
       Rests, RequestInv, PCs, world, States
  <1>. QED BY <1>1, <1>2, <1>3, <1>4, <1>5, WorkKeepsOrder

LEMMA UpsertTaskOrder ==
  ASSUME TypeOK, Causality, Order, NEW r \in Requests, NEW b \in Bookings, UpsertTask(r, b)
  PROVE  Order' /\ Final
  <1>. USE DEF UpsertTask, TypeOK
  <1>1. On(r, b) /\ RequestInv(r)
    BY DEF On, Causality
  <1>2. Elsewhere(b)
    BY DEF Elsewhere, SameRow, world
  <1>3. /\ Moves(r) /\ UNCHANGED <<raced, deaths>>
        /\ req'[r].pc \in {"idle", "next"} \/ req'[r].b = b
    BY FinishEffect DEF PCs, Attempt, Parked
  <1>4. Terminal(b)' => Terminal(b) \/ ~On(r, b)'
    BY FinishEffect DEF Terminal, On, PCs, world, Attempt, Parked
  <1>5. ASSUME Working(r, b) PROVE IF On(r, b)' THEN Working(r, b)' ELSE Rests(b)'
    BY <1>1, <1>5, FinishEffect DEF On, Working, Pushed, Cancelling, Undone, Ready, Billed, PaidFor, Untouched, Unpaid, Queued, Settled,
       Rests, RequestInv, PCs, world, Attempt, Parked
  <1>. QED BY <1>1, <1>2, <1>3, <1>4, <1>5, WorkKeepsOrder

LEMMA ResolveTaskOrder ==
  ASSUME TypeOK, Causality, Order, NEW r \in Requests, NEW b \in Bookings, ResolveTask(r, b)
  PROVE  Order' /\ Final
  <1>. USE DEF ResolveTask, TypeOK
  <1>1. On(r, b) /\ RequestInv(r)
    BY DEF On, Causality
  <1>2. Elsewhere(b)
    BY DEF Elsewhere, SameRow, world
  <1>3. /\ Moves(r) /\ UNCHANGED <<raced, deaths>>
        /\ req'[r].pc \in {"idle", "next"} \/ req'[r].b = b
    BY GotoEffect, FinishEffect, ThrowEffect DEF PCs
  <1>4. Terminal(b)' => Terminal(b) \/ ~On(r, b)'
    BY GotoEffect, FinishEffect, ThrowEffect DEF Terminal, On, PCs, world
  <1>5. ASSUME Working(r, b) PROVE IF On(r, b)' THEN Working(r, b)' ELSE Rests(b)'
    BY <1>1, <1>5, GotoEffect, FinishEffect, ThrowEffect DEF On, Working, Pushed, Cancelling, Undone, Ready, Billed, PaidFor, Untouched, Unpaid, Queued, Settled,
       Rests, RequestInv, PCs, world
  <1>. QED BY <1>1, <1>2, <1>3, <1>4, <1>5, WorkKeepsOrder

LEMMA AxisCancelOrder ==
  ASSUME TypeOK, Causality, Order, NEW r \in Requests, NEW b \in Bookings, AxisCancel(r, b)
  PROVE  Order' /\ Final
  <1>. USE DEF AxisCancel, TypeOK
  <1>1. On(r, b) /\ RequestInv(r)
    BY DEF On, Causality
  <1>2. Elsewhere(b)
    BY DEF Elsewhere, SameRow, db
  <1>3. /\ Moves(r) /\ UNCHANGED <<raced, deaths>>
        /\ req'[r].pc \in {"idle", "next"} \/ req'[r].b = b
    BY GotoEffect DEF PCs
  <1>4. Terminal(b)' => Terminal(b) \/ ~On(r, b)'
    BY GotoEffect DEF Terminal, On, PCs, db
  <1>5. ASSUME Working(r, b) PROVE IF On(r, b)' THEN Working(r, b)' ELSE Rests(b)'
    BY <1>1, <1>5, GotoEffect DEF On, Working, Pushed, Cancelling, Undone, Ready, Billed, PaidFor, Untouched, Unpaid, Queued, Settled,
       Rests, RequestInv, PCs, db
  <1>. QED BY <1>1, <1>2, <1>3, <1>4, <1>5, WorkKeepsOrder

LEMMA RefundOrder ==
  ASSUME TypeOK, Causality, Order, NEW r \in Requests, NEW b \in Bookings, Refund(r, b)
  PROVE  Order' /\ Final
  <1>. USE DEF Refund, TypeOK
  <1>1. On(r, b) /\ RequestInv(r)
    BY DEF On, Causality
  <1>2. Elsewhere(b)
    BY DEF Elsewhere, SameRow, db
  <1>3. /\ Moves(r) /\ UNCHANGED <<raced, deaths>>
        /\ req'[r].pc \in {"idle", "next"} \/ req'[r].b = b
    BY GotoEffect DEF PCs
  <1>4. Terminal(b)' => Terminal(b) \/ ~On(r, b)'
    BY GotoEffect DEF Terminal, On, PCs, db
  <1>5. ASSUME Working(r, b) PROVE IF On(r, b)' THEN Working(r, b)' ELSE Rests(b)'
    BY <1>1, <1>5, GotoEffect DEF On, Working, Pushed, Cancelling, Undone, Ready, Billed, PaidFor, Untouched, Unpaid, Queued, Settled,
       Rests, RequestInv, PCs, db
  <1>. QED BY <1>1, <1>2, <1>3, <1>4, <1>5, WorkKeepsOrder

LEMMA AdjustInvoiceOrder ==
  ASSUME TypeOK, Causality, Order, NEW r \in Requests, NEW b \in Bookings, AdjustInvoice(r, b)
  PROVE  Order' /\ Final
  <1>. USE DEF AdjustInvoice, TypeOK
  <1>1. On(r, b) /\ RequestInv(r)
    BY DEF On, Causality
  <1>2. Elsewhere(b)
    BY DEF Elsewhere, SameRow, world
  <1>3. /\ Moves(r) /\ UNCHANGED <<raced, deaths>>
        /\ req'[r].pc \in {"idle", "next"} \/ req'[r].b = b
    BY GotoEffect DEF PCs, Adjusted
  <1>4. Terminal(b)' => Terminal(b) \/ ~On(r, b)'
    BY GotoEffect DEF Terminal, On, PCs, world, Adjusted
  <1>5. ASSUME Working(r, b) PROVE IF On(r, b)' THEN Working(r, b)' ELSE Rests(b)'
    BY <1>1, <1>5, GotoEffect DEF On, Working, Pushed, Cancelling, Undone, Ready, Billed, PaidFor, Untouched, Unpaid, Queued, Settled,
       Rests, RequestInv, PCs, world, Adjusted
  <1>. QED BY <1>1, <1>2, <1>3, <1>4, <1>5, WorkKeepsOrder

LEMMA CloseTaskOrder ==
  ASSUME TypeOK, Causality, Order, NEW r \in Requests, NEW b \in Bookings, CloseTask(r, b)
  PROVE  Order' /\ Final
  <1>. USE DEF CloseTask, TypeOK
  <1>1. On(r, b) /\ RequestInv(r)
    BY DEF On, Causality
  <1>2. Elsewhere(b)
    BY DEF Elsewhere, SameRow, world
  <1>3. /\ Moves(r) /\ UNCHANGED <<raced, deaths>>
        /\ req'[r].pc \in {"idle", "next"} \/ req'[r].b = b
    BY GotoEffect DEF PCs
  <1>4. Terminal(b)' => Terminal(b) \/ ~On(r, b)'
    BY GotoEffect DEF Terminal, On, PCs, world
  <1>5. ASSUME Working(r, b) PROVE IF On(r, b)' THEN Working(r, b)' ELSE Rests(b)'
    BY <1>1, <1>5, GotoEffect DEF On, Working, Pushed, Cancelling, Undone, Ready, Billed, PaidFor, Untouched, Unpaid, Queued, Settled,
       Rests, RequestInv, PCs, world
  <1>. QED BY <1>1, <1>2, <1>3, <1>4, <1>5, WorkKeepsOrder

LEMMA MarkCancelledOrder ==
  ASSUME TypeOK, Causality, Order, NEW r \in Requests, NEW b \in Bookings, MarkCancelled(r, b)
  PROVE  Order' /\ Final
  <1>. USE DEF MarkCancelled, TypeOK
  <1>1. On(r, b) /\ RequestInv(r)
    BY DEF On, Causality
  <1>2. Elsewhere(b)
    BY SetStateEffect DEF Elsewhere, SameRow, world, States
  <1>3. /\ Moves(r) /\ UNCHANGED <<raced, deaths>>
        /\ req'[r].pc \in {"idle", "next"} \/ req'[r].b = b
    BY FinishEffect DEF PCs
  <1>4. Terminal(b)' => Terminal(b) \/ ~On(r, b)'
    BY SetStateEffect, FinishEffect DEF Terminal, On, PCs, world, States
  <1>5. ASSUME Working(r, b) PROVE IF On(r, b)' THEN Working(r, b)' ELSE Rests(b)'
    BY SetStateEffect, <1>1, <1>5, FinishEffect DEF On, Working, Pushed, Cancelling, Undone, Ready, Billed, PaidFor, Untouched, Unpaid, Queued, Settled,
       Rests, RequestInv, PCs, world, States
  <1>. QED BY <1>1, <1>2, <1>3, <1>4, <1>5, WorkKeepsOrder

LEMMA MarkCommittedOrder ==
  ASSUME TypeOK, Causality, Order, NEW r \in Requests, NEW b \in Bookings, MarkCommitted(r, b)
  PROVE  Order' /\ Final
  <1>. USE DEF MarkCommitted, TypeOK
  <1>1. On(r, b) /\ RequestInv(r)
    BY DEF On, Causality
  <1>2. Elsewhere(b)
    BY SetStateEffect DEF Elsewhere, SameRow, world, States
  <1>a. \/ SetState(b, "COMMITTED") /\ Finish(r) /\ req[r].op \notin {"createCredit", "rebook"}
        \/ \E pc \in {"obligation", "resolveTask"} :
              /\ SetState(b, "COMMITTED") /\ Goto(r, pc)
              /\ req[r].op = IF pc = "obligation" THEN "createCredit" ELSE "rebook"
        \/ UNCHANGED booking /\ Goto(r, "readTask")
    BY DEF AfterCommit
  <1>3. /\ Moves(r) /\ UNCHANGED <<raced, deaths>>
        /\ req'[r].pc \in {"idle", "next"} \/ req'[r].b = b
    BY <1>a, GotoEffect, FinishEffect DEF PCs
  <1>4. Terminal(b)' => Terminal(b) \/ ~On(r, b)'
    BY <1>a, SetStateEffect DEF Terminal, States
  <1>5. ASSUME Working(r, b) PROVE IF On(r, b)' THEN Working(r, b)' ELSE Rests(b)'
    <2>1. CASE SetState(b, "COMMITTED") /\ Finish(r) /\ req[r].op \notin {"createCredit", "rebook"}
      BY <2>1, <1>5, SetStateEffect, FinishEffect
         DEF On, Working, Rests, Ready, Billed, PaidFor, Untouched, Unpaid, Queued, States, world
    <2>2. ASSUME NEW pc \in {"obligation", "resolveTask"}, SetState(b, "COMMITTED"), Goto(r, pc),
                 req[r].op = IF pc = "obligation" THEN "createCredit" ELSE "rebook"
          PROVE  Working(r, b)' /\ On(r, b)'
      BY <2>2, <1>1, <1>5, SetStateEffect, GotoEffect
         DEF On, RequestInv, Working, Ready, PaidFor, Untouched, Unpaid, Queued, PCs, States, world
    <2>3. CASE UNCHANGED booking /\ Goto(r, "readTask")
      BY <2>3, <1>5, GotoEffect
         DEF On, Working, Pushed, Ready, PaidFor, Untouched, Unpaid, Queued, PCs, world
    <2>. QED BY <1>a, <2>1, <2>2, <2>3
  <1>. QED BY <1>1, <1>2, <1>3, <1>4, <1>5, WorkKeepsOrder

\* A request that only reads.
LEMMA ReadOrder ==
  ASSUME TypeOK, Causality, Order, NEW r \in Requests, NEW b \in Bookings,
         ReadTask(r, b) \/ ReadInvoice(r, b)
  PROVE  Order' /\ Final
  <1>. USE DEF TypeOK
  <1>. DEFINE loc == IF req[r].pc = "readTask"
                     THEN [req[r] EXCEPT !.pc = "markFailed", !.attempts = task[b].attempts]
                     ELSE [req[r] EXCEPT !.pc = "refund", !.invoice = invoice[b]]
  <1>1. /\ req[r].pc \in {"readTask", "readInvoice"} /\ req[r].b = b
        /\ UNCHANGED <<booking, task, invoice, resv, captured, refunded, raced, deaths>>
        /\ req' = [req EXCEPT ![r] = loc]
    BY DEF ReadTask, ReadInvoice, db, world
  <1>2. /\ loc \in Request /\ loc.b = b /\ loc.op = req[r].op /\ loc.state = req[r].state
        /\ IF req[r].pc = "readTask" THEN loc.pc = "markFailed"
           ELSE loc.pc = "refund" /\ loc.invoice = invoice[b]
    <2>1. req[r] \in Request /\ task[b].attempts \in Nat /\ invoice[b] \in InvoiceStatuses
      BY DEF TaskRow
    <2>2. CASE req[r].pc = "readTask"
      BY ONLY <1>1, <2>1, <2>2 DEF Request, PCs
    <2>3. CASE req[r].pc # "readTask"
      BY ONLY <1>1, <2>1, <2>3 DEF Request, PCs
    <2>. QED BY <2>2, <2>3
  <1>. HIDE DEF loc
  <1>3. Moves(r) /\ req'[r] = loc
    BY <1>1, <1>2 DEF Moves
  <1>4. On(r, b) /\ On(r, b)' /\ Elsewhere(b)
    BY <1>1, <1>2, <1>3 DEF On, Elsewhere, SameRow
  <1>5. Working(r, b) => Working(r, b)'
    BY <1>1, <1>2, <1>3 DEF Working, Pushed, Cancelling, Undone, Ready, Billed, PaidFor, Untouched,
                            Unpaid, Queued
  <1>6. Terminal(b)' => Terminal(b)
    BY <1>1 DEF Terminal
  <1>. QED BY <1>1, <1>2, <1>3, <1>4, <1>5, <1>6, WorkKeepsOrder

-----------------------------------------------------------------------------
(* Requests that take up a booking, and the rest.                           *)

LEMMA GetBookingOrder ==
  ASSUME TypeOK, Order, NEW r \in Requests, NEW b \in Bookings, GetBooking(r, b)
  PROVE  Order' /\ Final
  <1>. USE DEF GetBooking, TypeOK
  <1>. DEFINE loc == [Idle EXCEPT !.pc = "expire", !.op = "get", !.b = b]
  <1>1. loc \in Request /\ loc.pc = "expire" /\ loc.b = b /\ loc.op = "get"
    BY IdleType DEF Idle, Request, PCs, Ops
  <1>2. Take(r, b, loc) /\ UNCHANGED <<booking, task, invoice, resv, captured, refunded>>
    BY DEF db, world
  <1>. HIDE DEF loc
  <1>3. req'[r] = loc /\ Elsewhere(b) /\ ~Terminal(b) /\ ~Terminal(b)'
    BY <1>1, <1>2, TakeEffect DEF Elsewhere, SameRow, Terminal
  <1>4. Rests(b) => Working(r, b)'
    BY <1>1, <1>2, <1>3 DEF Rests, Working, Untouched, Unpaid
  <1>. QED BY <1>1, <1>2, <1>3, <1>4, TakeKeepsOrder

LEMMA RetryRebookOrder ==
  ASSUME TypeOK, Order, NEW r \in Requests, NEW b \in Bookings, RetryRebook(r, b)
  PROVE  Order' /\ Final
  <1>. USE DEF RetryRebook, Retryable, TypeOK
  <1>. DEFINE loc == [Idle EXCEPT !.pc = "reserve", !.op = "rebook", !.b = b]
  <1>1. loc \in Request /\ loc.pc = "reserve" /\ loc.b = b /\ loc.op = "rebook"
    BY IdleType DEF Idle, Request, PCs, Ops
  <1>2. Take(r, b, loc) /\ UNCHANGED <<booking, task, invoice, resv, captured, refunded>>
    BY DEF db, world
  <1>. HIDE DEF loc
  <1>3. req'[r] = loc /\ Elsewhere(b) /\ ~Terminal(b) /\ ~Terminal(b)'
    BY <1>1, <1>2, TakeEffect DEF Elsewhere, SameRow, Terminal
  <1>4. Rests(b) => Working(r, b)'
    BY <1>1, <1>2, <1>3 DEF Rests, Working, Pushed, Ready, PaidFor, Untouched, Unpaid, Queued
  <1>. QED BY <1>1, <1>2, <1>3, <1>4, TakeKeepsOrder

LEMMA CancelOrder ==
  ASSUME TypeOK, Order, NEW r \in Requests, NEW b \in Bookings,
         NEW charge \in Charges, Cancel(r, b, charge)
  PROVE  Order' /\ Final
  <1>. USE DEF Cancel, Cancellable, TypeOK
  <1>. DEFINE s == booking[b].state
              loc == [Idle EXCEPT
                !.op = "cancel", !.b = b, !.state = s,
                !.charge = IF s = "COMMITTED" THEN charge ELSE "NONE",
                !.pc = CASE s = "COMMITTED"     -> "axisCancel"
                         [] s = "COMMIT_FAILED" -> "readInvoice"
                         [] OTHER               -> "markCancelled"]
  <1>0. s \in States
    BY DEF BookingRow
  <1>1. /\ loc \in Request /\ loc.b = b /\ loc.op = "cancel" /\ loc.state = s
        /\ loc.pc = CASE s = "COMMITTED"     -> "axisCancel"
                      [] s = "COMMIT_FAILED" -> "readInvoice"
                      [] OTHER               -> "markCancelled"
    BY <1>0, IdleType DEF Idle, Request, PCs, Ops, Charges
  <1>2. Take(r, b, loc) /\ UNCHANGED <<booking, task, invoice, resv, captured, refunded>>
    BY DEF db, world
  <1>. HIDE DEF loc
  <1>3. req'[r] = loc /\ Elsewhere(b) /\ ~Terminal(b) /\ ~Terminal(b)'
    BY <1>1, <1>2, TakeEffect DEF Elsewhere, SameRow, Terminal
  <1>4. Rests(b) => Working(r, b)'
    <2>1. s \in {"COMMITTED", "COMMIT_FAILED", "AWAITING_PAYMENT", "CONFIRMED_ON_CREDIT", "PAID"}
      BY <1>0 DEF States
    <2>. QED BY <1>1, <1>2, <1>3, <2>1
             DEF Rests, Working, Cancelling, Undone, Settled, Untouched, Unpaid, Ready, Billed, PaidFor
  <1>. QED BY <1>1, <1>2, <1>3, <1>4, TakeKeepsOrder

\* A request that is on no booking afterwards, and was on none unless it died.
LEMMA IdleKeepsOrder ==
  ASSUME TypeOK, Order, NEW r \in Requests, Moves(r), req'[r].pc \in {"idle", "next"},
         UNCHANGED <<booking, task, invoice, resv, captured, refunded, raced>>,
         \A c \in Bookings : IF On(r, c) THEN deaths'[c] # 0 ELSE deaths'[c] = deaths[c]
  PROVE  Order' /\ Final
  <1>1. ASSUME NEW c \in Bookings
        PROVE  OrderOf(c)'
    <2>1. CASE On(r, c)
      <3>1. ~Undisturbed(c)'
        BY <2>1 DEF Undisturbed
      <3>2. Terminal(c)' <=> Terminal(c)
        BY DEF Terminal
      <3>3. \A q \in Requests : On(q, c)' => On(q, c)
        BY DEF On, Moves
      <3>. QED BY <3>1, <3>2, <3>3 DEF Order, OrderOf, Alone, Quiet
    <2>2. CASE ~On(r, c)
      <3>1. Spared(c)
        BY <2>2 DEF Spared, SameRow, On, Moves
      <3>. QED BY <3>1, SparedKeepsOrder DEF Order
    <2>. QED BY <2>1, <2>2
  <1>2. Final
    BY DEF Final, Quiet, On, Moves
  <1>. QED BY <1>1, <1>2 DEF Order

LEMMA LoadForPayOrder ==
  ASSUME TypeOK, Causality, Order, NEW r \in Requests, NEW b \in Bookings, LoadForPay(r, b)
  PROVE  Order' /\ Final
  <1>. USE DEF LoadForPay, TypeOK
  <1>. DEFINE loc == [req[r] EXCEPT !.pc = IF booking[b].lapsed THEN "expire" ELSE "capture",
                                    !.b = b, !.batch = @ \ {b}]
  <1>0. req[r] \in Request /\ req[r].op = "pay" /\ req[r].pc = "next"
    OBVIOUS
  <1>1. /\ loc \in Request /\ loc.pc \in {"expire", "capture"}
        /\ loc.b = b /\ loc.op = "pay"
    <2>1. CASE booking[b].lapsed
      BY ONLY <1>0, <2>1, b \in Bookings DEF Request, PCs
    <2>2. CASE ~booking[b].lapsed
      BY ONLY <1>0, <2>2, b \in Bookings DEF Request, PCs
    <2>. QED BY <2>1, <2>2
  <1>2. UNCHANGED <<booking, task, invoice, resv, captured, refunded>>
    BY DEF db, world
  <1>3. CASE Throw(r)
    BY <1>0, <1>2, <1>3, ThrowEffect, IdleKeepsOrder DEF On
  <1>4. CASE booking[b].state = "AWAITING_PAYMENT" /\ Take(r, b, loc)
    <2>. HIDE DEF loc
    <2>1. req'[r] = loc /\ Elsewhere(b) /\ ~Terminal(b) /\ ~Terminal(b)'
      BY <1>1, <1>2, <1>4, TakeEffect DEF Elsewhere, SameRow, Terminal
    <2>2. booking[b].mode = "PREPAY"
      BY <1>4 DEF Causality, RowInv
    <2>3. Rests(b) => Working(r, b)'
      BY <1>1, <1>2, <1>4, <2>1, <2>2 DEF Rests, Working, Untouched, Unpaid
    <2>. QED BY <1>0, <1>1, <1>4, <2>1, <2>3, TakeKeepsOrder
  <1>. QED BY <1>3, <1>4

LEMMA PickTaskOrder ==
  ASSUME TypeOK, Order, NEW r \in Requests, NEW b \in Bookings, PickTask(r, b)
  PROVE  Order' /\ Final
  <1>. USE DEF PickTask, Retryable, TypeOK
  <1>. DEFINE loc  == [req[r] EXCEPT !.pc = "reserve", !.b = b, !.batch = @ \ {b}]
              skip == Without(req[r], b)
  <1>1. /\ loc \in Request /\ loc.pc = "reserve" /\ loc.b = b /\ loc.op = "rebook"
        /\ skip \in Request /\ skip.pc \in {"idle", "next"}
    BY IdleType DEF Idle, Request, PCs, Without
  <1>2. /\ UNCHANGED <<booking, task, invoice, resv, captured, refunded>>
        /\ req[r].pc = "next"
    BY DEF db, world
  <1>3. \/ booking[b].state = "COMMIT_FAILED" /\ Take(r, b, loc)
        \/ req' = [req EXCEPT ![r] = skip] /\ UNCHANGED <<raced, deaths>>
    OBVIOUS
  <1>. HIDE DEF loc, skip
  <1>4. CASE req' = [req EXCEPT ![r] = skip] /\ UNCHANGED <<raced, deaths>>
    <2>1. Moves(r) /\ req'[r] = skip
      BY <1>1, <1>4 DEF Moves
    <2>. QED BY <1>1, <1>2, <1>4, <2>1, IdleKeepsOrder DEF On
  <1>5. CASE booking[b].state = "COMMIT_FAILED" /\ Take(r, b, loc)
    <2>1. req'[r] = loc /\ Elsewhere(b) /\ ~Terminal(b) /\ ~Terminal(b)'
      BY <1>1, <1>2, <1>5, TakeEffect DEF Elsewhere, SameRow, Terminal
    <2>2. Rests(b) => Working(r, b)'
      BY <1>1, <1>2, <1>5, <2>1
         DEF Rests, Working, Pushed, Ready, PaidFor, Untouched, Unpaid, Queued
    <2>. QED BY <1>1, <1>2, <1>5, <2>1, <2>2, TakeKeepsOrder
  <1>. QED BY <1>3, <1>4, <1>5

\* Nobody is on a booking that does not exist yet.
LEMMA NobodyBefore ==
  ASSUME Causality, NEW b \in Bookings, booking[b].state = "NONE"
  PROVE  Quiet(b)
  BY DEF Causality, RowInv, RequestInv, Quiet, On

LEMMA CreateCreditLineOrder ==
  ASSUME TypeOK, Order, NEW r \in Requests, NEW b \in Bookings, CreateCreditLine(r, b)
  PROVE  Order' /\ Final
  <1>. USE DEF CreateCreditLine, TypeOK
  <1>. DEFINE loc == [req[r] EXCEPT !.pc = "reserve", !.b = b, !.batch = @ \ {b}]
              row == [booking[b] EXCEPT !.state = "CONFIRMED_ON_CREDIT", !.mode = "CREDIT"]
  <1>1. loc \in Request /\ loc.pc = "reserve" /\ loc.b = b /\ loc.op = "createCredit"
    BY DEF Request, PCs
  <1>2. /\ row.state = "CONFIRMED_ON_CREDIT" /\ row.mode = "CREDIT"
        /\ booking' = [booking EXCEPT ![b] = row]
    BY DEF BookingRow, States, Modes
  <1>3. /\ Take(r, b, loc) /\ UNCHANGED <<task, invoice, resv, captured, refunded>>
        /\ req[r].pc = "next" /\ booking[b].state = "NONE"
    BY DEF world
  <1>. HIDE DEF loc, row
  <1>4. req'[r] = loc /\ booking'[b] = row
    <2>1. req'[r] = loc
      BY <1>1, <1>3, TakeEffect
    <2>2. booking \in [Bookings -> BookingRow]
      OBVIOUS
    <2>3. booking'[b] = row
      BY ONLY <1>2, <2>2, b \in Bookings
    <2>. QED BY <2>1, <2>3
  <1>5. Elsewhere(b) /\ ~Terminal(b) /\ ~Terminal(b)'
    BY <1>2, <1>3, <1>4 DEF Elsewhere, SameRow, Terminal
  <1>6. Rests(b) => Working(r, b)'
    BY <1>1, <1>2, <1>3, <1>4 DEF Rests, Working, Pushed, Ready, Untouched, Unpaid
  <1>. QED BY <1>1, <1>3, <1>4, <1>5, <1>6, TakeKeepsOrder

LEMMA CreatePrepayLineOrder ==
  ASSUME TypeOK, Causality, Order, NEW r \in Requests, NEW b \in Bookings, CreatePrepayLine(r, b)
  PROVE  Order' /\ Final
  <1>. USE DEF CreatePrepayLine, TypeOK
  <1>. DEFINE loc == Without(req[r], b)
              row == [booking[b] EXCEPT !.state = "AWAITING_PAYMENT", !.mode = "PREPAY"]
  <1>1. loc \in Request /\ loc.pc \in {"idle", "next"} /\ req' = [req EXCEPT ![r] = loc]
    BY IdleType DEF Idle, Request, Without
  <1>2. /\ row.state = "AWAITING_PAYMENT" /\ row.mode = "PREPAY"
        /\ booking' = [booking EXCEPT ![b] = row]
    BY DEF BookingRow, States, Modes
  <1>3. /\ UNCHANGED <<task, invoice, resv, captured, refunded, raced, deaths>>
        /\ req[r].pc = "next" /\ booking[b].state = "NONE"
    BY DEF world
  <1>. HIDE DEF loc, row
  <1>4. Moves(r) /\ req'[r] = loc /\ booking'[b] = row
    BY <1>1, <1>2, <1>3 DEF Moves
  <1>5. ASSUME NEW c \in Bookings, c # b
        PROVE  Spared(c)
    BY <1>1, <1>2, <1>3, <1>4, <1>5 DEF Moves, Spared, SameRow, On
  <1>6. Quiet(b) /\ Quiet(b)'
    BY <1>1, <1>3, <1>4, NobodyBefore DEF Quiet, On, Moves
  <1>7. OrderOf(b)'
    <2>1. Alone(b)' /\ ~Terminal(b)'
      BY <1>2, <1>4, <1>6 DEF Alone, Quiet, Terminal
    <2>2. Undisturbed(b) => Rests(b)
      BY <1>6 DEF Order, OrderOf, Orderly
    <2>3. Undisturbed(b)' => Rests(b)'
      BY <1>2, <1>3, <1>4, <2>2 DEF Undisturbed, Rests, Untouched, Unpaid
    <2>. QED BY <1>6, <2>1, <2>3 DEF OrderOf, Orderly, Quiet
  <1>8. Final
    BY <1>3, <1>5 DEF Final, Terminal, Spared, SameRow, Quiet
  <1>9. \A c \in Bookings : OrderOf(c)'
    BY <1>5, <1>7, SparedKeepsOrder DEF Order
  <1>. QED BY <1>8, <1>9 DEF Order

LEMMA LapseOrder ==
  ASSUME TypeOK, Order, NEW b \in Bookings, Lapse(b)
  PROVE  Order' /\ Final
  <1>. DEFINE row == [booking[b] EXCEPT !.lapsed = TRUE]
  <1>1. /\ row.state = booking[b].state /\ row.mode = booking[b].mode
        /\ booking' = [booking EXCEPT ![b] = row]
    BY DEF Lapse, TypeOK, BookingRow
  <1>2. UNCHANGED <<task, invoice, resv, captured, refunded, req, raced, deaths>>
    BY DEF Lapse, world
  <1>. HIDE DEF row
  <1>3. \A c \in Bookings : booking'[c].state = booking[c].state /\ booking'[c].mode = booking[c].mode
    BY <1>1 DEF TypeOK
  <1>4. ASSUME NEW c \in Bookings
        PROVE  OrderOf(c)'
    <2>1. OrderOf(c) /\ booking'[c].state = booking[c].state /\ booking'[c].mode = booking[c].mode
      BY <1>3 DEF Order
    <2>2. /\ Undisturbed(c)' <=> Undisturbed(c)
          /\ Quiet(c)' <=> Quiet(c)
          /\ Alone(c)' <=> Alone(c)
          /\ Terminal(c)' <=> Terminal(c)
      BY <1>2, <2>1 DEF Undisturbed, Quiet, Alone, Terminal, On
    <2>3. /\ Ready(c)' <=> Ready(c)
          /\ Billed(c)' <=> Billed(c)
          /\ Undone(c)' <=> Undone(c)
      BY <1>2, <2>1 DEF Untouched, Unpaid, PaidFor, Ready, Billed, Undone
    <2>4. Rests(c)' <=> Rests(c)
      BY <1>2, <2>1, <2>3 DEF Rests, Untouched, Unpaid, Queued, Settled
    <2>5. ASSUME NEW q \in Requests, Working(q, c)
          PROVE  Working(q, c)'
      BY <1>2, <2>1, <2>3, <2>5 DEF Working, Cancelling, Untouched, Unpaid, PaidFor, Queued, Settled
    <2>6. Orderly(c) => Orderly(c)'
      BY <1>2, <2>2, <2>4, <2>5 DEF Orderly, On
    <2>. QED BY <1>2, <2>1, <2>2, <2>6 DEF OrderOf
  <1>5. Final
    BY <1>2, <1>3 DEF Final, Quiet, On
  <1>. QED BY <1>4, <1>5 DEF Order

\* Listing the bookings to work on, and dying.
LEMMA ListOrder ==
  ASSUME TypeOK, Causality, Order, NEW r \in Requests,
         \/ \E lines \in SUBSET Bookings :
               (\E op \in {"createCredit", "createPrepay"} : BeginCreate(r, lines, op)) \/ BeginPay(r, lines)
         \/ ListQueue(r)
         \/ \E b \in Bookings : Die(r, b)
  PROVE  Order' /\ Final
  <1>. USE DEF TypeOK
  <1>1. Moves(r)
    BY ListStep DEF Preserved
  <1>2. CASE \E b \in Bookings : Die(r, b)
    <2>1. PICK b \in Bookings : Die(r, b)
      BY <1>2
    <2>2. /\ UNCHANGED <<booking, task, invoice, resv, captured, refunded, raced>>
          /\ req'[r].pc = "idle" /\ On(r, b)
      BY <2>1 DEF Die, db, world, Idle
    <2>3. \A c \in Bookings : IF On(r, c) THEN deaths'[c] # 0 ELSE deaths'[c] = deaths[c]
      BY <2>1, <2>2 DEF Die, On
    <2>. QED BY <1>1, <2>2, <2>3, IdleKeepsOrder
  <1>3. CASE ~\E b \in Bookings : Die(r, b)
    <2>1. /\ UNCHANGED <<booking, task, invoice, resv, captured, refunded, raced, deaths>>
          /\ req[r].pc = "idle"
      BY <1>3 DEF ListQueue, BeginCreate, BeginPay, db, world
    <2>2. req'[r].pc = "next"
      <3>1. \A op, lines : [Idle EXCEPT !.pc = "next", !.op = op, !.batch = lines].pc = "next"
        BY DEF Idle
      <3>2. \E op, lines : req' = [req EXCEPT ![r] = [Idle EXCEPT !.pc = "next", !.op = op,
                                                                !.batch = lines]]
        <4>1. CASE ListQueue(r)
          BY <4>1 DEF ListQueue
        <4>2. ASSUME NEW lines, NEW op, BeginCreate(r, lines, op)
              PROVE  <3>2!:
          BY <4>2 DEF BeginCreate
        <4>3. ASSUME NEW lines, BeginPay(r, lines)
              PROVE  <3>2!:
          BY <4>3 DEF BeginPay
        <4>. QED BY <1>3, <4>1, <4>2, <4>3
      <3>. QED BY <3>1, <3>2
    <2>3. \A c \in Bookings : ~On(r, c)
      BY <2>1 DEF On
    <2>. QED BY <1>1, <2>1, <2>2, <2>3, IdleKeepsOrder
  <1>. QED BY <1>2, <1>3

LEMMA OrderStep == TypeOK /\ Causality /\ Order /\ Next => Order' /\ Final
  <1>. SUFFICES ASSUME TypeOK, Causality, Order, Next
                PROVE  Order' /\ Final
    OBVIOUS
  <1>1. ASSUME NEW r \in Requests, Step(r)
        PROVE  Order' /\ Final
    <2>. PICK b \in Bookings :
           \/ CreateCreditLine(r, b) \/ CreatePrepayLine(r, b)
           \/ LoadForPay(r, b) \/ Capture(r, b) \/ RecordPayment(r, b) \/ MarkPaid(r, b)
           \/ Expire(r, b)
           \/ Reserve(r, b) \/ MarkCommitted(r, b) \/ RecordObligation(r, b)
           \/ ReadTask(r, b) \/ MarkFailed(r, b) \/ UpsertTask(r, b)
           \/ PickTask(r, b) \/ ResolveTask(r, b)
           \/ AxisCancel(r, b) \/ ReadInvoice(r, b) \/ Refund(r, b)
           \/ AdjustInvoice(r, b) \/ CloseTask(r, b) \/ MarkCancelled(r, b)
      BY <1>1 DEF Step
    <2>. QED
      BY CreateCreditLineOrder, CreatePrepayLineOrder, LoadForPayOrder, CaptureOrder,
         RecordPaymentOrder, MarkPaidOrder, ExpireOrder, ReserveOrder, MarkCommittedOrder,
         RecordObligationOrder, ReadOrder, MarkFailedOrder, UpsertTaskOrder, PickTaskOrder,
         ResolveTaskOrder, AxisCancelOrder, RefundOrder, AdjustInvoiceOrder,
         CloseTaskOrder, MarkCancelledOrder
  <1>2. ASSUME NEW r \in Callers, Call(r)
        PROVE  Order' /\ Final
    <2>. r \in Requests
      BY DEF Requests
    <2>. QED BY <1>2, ListOrder, GetBookingOrder, RetryRebookOrder, CancelOrder DEF Call
  <1>3. ASSUME NEW r \in Runs, ListQueue(r)
        PROVE  Order' /\ Final
    BY <1>3, ListOrder DEF Requests
  <1>. QED BY <1>1, <1>2, <1>3, LapseOrder, ListOrder DEF Next

LEMMA OrderStays == Order /\ UNCHANGED vars => Order'
  <1>. SUFFICES ASSUME Order, UNCHANGED vars, NEW c \in Bookings
                PROVE  OrderOf(c)'
    BY DEF Order
  <1>1. Spared(c)
    BY DEF Spared, SameRow, vars, On
  <1>. QED BY <1>1, SparedKeepsOrder DEF Order

LEMMA InitialOrder == Init => Order
  <1>. SUFFICES ASSUME Init, NEW b \in Bookings
                PROVE  OrderOf(b)
    BY DEF Order
  <1>1. Quiet(b) /\ Rests(b) /\ ~Terminal(b)
    BY DEF Init, Idle, Quiet, On, Rests, Untouched, Unpaid, Terminal
  <1>. QED BY <1>1 DEF OrderOf, Orderly, Quiet, Alone

(* The inductive invariant of what follows: a booking on which no two       *)
(* requests met is at rest, or has one request whose reads still hold, and  *)
(* a booking that requests met on is left out.                              *)
THEOREM OrderHolds == Spec => []Order
  <1>1. TypeOK /\ Causality /\ Order /\ [Next]_vars => Order'
    BY OrderStep, OrderStays
  <1>. QED BY <1>1, InitialOrder, TypeCorrect, CausalityHolds, PTL DEF Spec

(* An undisturbed booking that rests was charged at most once and refunded  *)
(* at most once, and its money is on a room, in the rebook queue or given   *)
(* back (payBookingInternal, commitToAxisRooms, applyCancellation).         *)
THEOREM NoLostChargeHolds == Spec => []NoLostCharge
  <1>1. TypeOK /\ Order => NoLostCharge
    <2>. SUFFICES ASSUME TypeOK, Order, NEW b \in Bookings, Quiet(b), Undisturbed(b)
                  PROVE  captured[b] <= 1 /\ refunded[b] <= captured[b] /\ Resolved(b)
      BY DEF NoLostCharge
    <2>1. Rests(b)
      BY DEF Order, OrderOf, Orderly
    <2>2. booking[b].state \in States
      BY DEF TypeOK, BookingRow
    <2>3. captured[b] \in Nat /\ refunded[b] \in Nat
      BY DEF TypeOK
    <2>. QED BY <2>1, <2>2, <2>3 DEF Rests, Untouched, Unpaid, Billed, Ready, PaidFor, Queued, Settled,
                                     Resolved, States
  <1>. QED BY <1>1, TypeCorrect, OrderHolds, PTL

(* An undisturbed booking that rests COMMITTED has its room and its         *)
(* invoice, and one that failed to commit is in the rebook queue            *)
(* (commitToAxisRooms, handleCommitFailure, onRebookResolved).              *)
THEOREM CommittedIsBackedHolds == Spec => []CommittedIsBacked
  <1>1. Order => CommittedIsBacked
    BY DEF Order, OrderOf, Orderly, CommittedIsBacked, Rests, Billed, PaidFor, Queued
  <1>. QED BY <1>1, OrderHolds, PTL

(* As long as no two requests meet on a booking, nothing reopens it once it *)
(* is cancelled or expired, wherever requests die; and even if they met,    *)
(* no request takes it up again once they have left.                        *)
THEOREM TerminalIsFinalHolds == Spec => TerminalIsFinal
  <1>1. TypeOK /\ Causality /\ Order /\ [Next]_vars
           => [\A b \in Bookings :
                  booking[b].state \in {"CANCELLED", "EXPIRED"} /\ (Quiet(b) \/ ~raced'[b])
                      => /\ booking'[b].state = booking[b].state
                         /\ Quiet(b) => Quiet(b)']_vars
    BY OrderStep DEF Final, Terminal
  <1>. QED BY <1>1, TypeCorrect, CausalityHolds, OrderHolds, PTL DEF Spec, TerminalIsFinal
=============================================================================
