-------------------------------- MODULE Ledger --------------------------------
(***************************************************************************)
(* The finance ledger of one agency: the invoices, payments and credit     *)
(* notes of server/src/modules/finance/finance.service.ts, with amounts.   *)
(*                                                                         *)
(* Every operation but the two that create an invoice reads its rows       *)
(* first, and in a later transaction writes absolute amounts computed from *)
(* what it read.  Between the two lies a call to the gateway or at least a *)
(* round trip to the database, and nothing locks the rows.                 *)
(*                                                                         *)
(* Booking has the same invoices by their status alone, with the steps of  *)
(* the bookings around them; here a collection is one step.                *)
(*                                                                         *)
(* As in Booking, a faulty variant F-fault may precede a definition F.     *)
(***************************************************************************)
EXTENDS Integers, FiniteSets, FiniteSetsExt, Sums

CONSTANTS
    NumInvoices,  \* invoices, numbered in the order of dueDate, issuedAt
    Price,        \* the agency price of a booking
    Requests,     \* API requests in flight
    MaxCash,      \* bound: the largest offline payment
    MaxCalls,     \* bound: requests that read and then write
    MaxDeaths     \* bound: requests that die half way

Invoices == 1 .. NumInvoices

ASSUME LedgerAssumption ==
    /\ NumInvoices \in Nat
    /\ Price \in Nat \ {0}
    /\ MaxCash \in Nat
    /\ MaxCalls \in Nat
    /\ MaxDeaths \in Nat

VARIABLES
    invoice,   \* Invoice rows, each with its booking's liveness and its credit notes
    payments,  \* Payment rows
    captured,  \* gateway: money captured
    refunded,  \* gateway: money refunded
    received,  \* history: money that offline settlements say came in
    req,       \* the requests in flight
    clock,     \* transactions committed by requests
    raced,     \* history: invoices (0: the advance pool) that two requests had at once
    deaths     \* history: requests that died half way

vars == <<invoice, payments, captured, refunded, received, req, clock, raced, deaths>>

Statuses == {"NONE", "ISSUED", "PARTIALLY_PAID", "PAID", "REFUNDED", "VOID"}
Modes == {"NONE", "CREDIT", "PREPAY"}
\* live: the booking is not cancelled.  noted: what its credit notes add up to.
Invoice == [status: Statuses, mode: Modes, amount: Nat, paid: Nat, live: BOOLEAN, noted: Nat]
NoInvoice == [status |-> "NONE", mode |-> "NONE", amount |-> 0, paid |-> 0,
              live |-> FALSE, noted |-> 0]

\* IN is an INBOUND row that SUCCEEDED, REFUND and CHARGEBACK are OUTBOUND.
\* corr is the correlationId: an invoice's, or a fresh one on an advance that
\* no invoice has (invoiceId null).  via and capture stand for the gatewayRef:
\* a capture's is its own, an offline one only names the method.
Payment == [id: Nat \X Nat \X Nat, kind: {"IN", "REFUND", "CHARGEBACK"}, corr: Nat,
            amount: Nat, via: {"GATEWAY", "OFFLINE", "ADVANCE", "APPLIED"}, capture: Nat]

PCs == {"idle", "settle", "refund", "adjust", "markCancelled", "offline", "readPool",
        "apply", "chargeback"}
Request == [pc: PCs, inv: Invoices \cup {0}, read: [Invoices -> Invoice], amount: Nat,
            refundRef: BOOLEAN, pool: SUBSET Payment]
Idle == [pc |-> "idle", inv |-> 0, read |-> [i \in Invoices |-> NoInvoice], amount |-> 0,
         refundRef |-> FALSE, pool |-> {}]

NewCall(pc, inv, read, amount, pool) ==
    [pc |-> pc, inv |-> inv, read |-> read, amount |-> amount, refundRef |-> FALSE, pool |-> pool]

TypeOK ==
    /\ invoice \in [Invoices -> Invoice]
    /\ payments \subseteq Payment
    /\ captured \in Nat /\ refunded \in Nat /\ received \in Nat
    /\ req \in [Requests -> Request]
    /\ clock \in Nat
    /\ raced \subseteq Invoices \cup {0}
    /\ deaths \in Nat

Init ==
    /\ invoice = [i \in Invoices |-> NoInvoice]
    /\ payments = {}
    /\ captured = 0 /\ refunded = 0 /\ received = 0
    /\ req = [r \in Requests |-> Idle]
    /\ clock = 0
    /\ raced = {}
    /\ deaths = 0

-----------------------------------------------------------------------------
Least(a, b) == IF a <= b THEN a ELSE b

\* The rows with ids in S as a request reads them.
Rows(S) == [i \in Invoices |-> IF i \in S THEN invoice[i] ELSE NoInvoice]
Read(r) == {i \in Invoices : req[r].read[i].status # "NONE"}

\* What a request works on: the invoices it read, and the advances (0).
Has(loc) == {i \in Invoices : loc.read[i].status # "NONE"} \cup
            (IF \/ loc.pc \in {"readPool", "apply"}
                \/ loc.pc = "chargeback" /\ loc.inv = 0 THEN {0} ELSE {})

InFlight == {r \in Requests : req[r].pc # "idle"}

\* A call that arrives: it reads, and is now in flight.
Begin(r, loc) ==
    /\ req[r].pc = "idle" /\ clock + Cardinality(InFlight) < MaxCalls
    /\ req' = [req EXCEPT ![r] = loc]
    /\ raced' = raced \cup (Has(loc) \cap UNION {Has(req[q]) : q \in Requests \ {r}})
    /\ UNCHANGED <<clock, deaths>>

Goto(r, pc) == req' = [req EXCEPT ![r].pc = pc] /\ UNCHANGED <<clock, raced, deaths>>

\* The request's last transaction commits.
Commit(r) ==
    /\ req' = [req EXCEPT ![r] = Idle] /\ clock' = clock + 1
    /\ UNCHANGED <<raced, deaths>>

\* A row created by the transaction now committing.
Row(kind, corr, amount, via, capture, i, k) ==
    [id |-> <<clock + 1, i, k>>, kind |-> kind, corr |-> corr, amount |-> amount,
     via |-> via, capture |-> capture]

IsOpen(row) == row.status \in {"ISSUED", "PARTIALLY_PAID"}
Need(row) == row.amount - row.paid

\* An invoice paid down by x, from the row that was read.
PaidDownAfresh(now, read, x) ==
    [now EXCEPT !.paid = x, !.status = IF read.paid + x >= read.amount THEN "PAID" ELSE "PARTIALLY_PAID"]
PaidDownClosed(now, read, x) == [now EXCEPT !.paid = read.paid + x, !.status = "PAID"]
PaidDownOpen(now, read, x) ==
    [now EXCEPT !.paid = read.paid + x,
                !.status = IF read.paid + x >= read.amount THEN "PAID" ELSE "ISSUED"]
PaidDown(now, read, x) ==
    [now EXCEPT !.paid = read.paid + x,
                !.status = IF read.paid + x >= read.amount THEN "PAID" ELSE "PARTIALLY_PAID"]

-----------------------------------------------------------------------------
(* The two ways an invoice comes about, each one transaction.               *)

\* recordBookingObligation.
Issue(i) ==
    /\ invoice[i].status = "NONE"
    /\ invoice' = [invoice EXCEPT ![i] = [status |-> "ISSUED", mode |-> "CREDIT", amount |-> Price,
                                          paid |-> 0, live |-> TRUE, noted |-> 0]]
    /\ UNCHANGED <<payments, captured, refunded, received, req, clock, raced, deaths>>

\* collectPaymentForBooking, which leaves amountPaid at its default.
Collect(i) ==
    /\ invoice[i].status = "NONE" /\ clock + Cardinality(InFlight) < MaxCalls
    /\ captured' = captured + Price
    /\ invoice' = [invoice EXCEPT ![i] = [status |-> "PAID", mode |-> "PREPAY", amount |-> Price,
                                          paid |-> 0, live |-> TRUE, noted |-> 0]]
    /\ payments' = payments \cup {Row("IN", i, Price, "GATEWAY", clock + 1, i, 0)}
    /\ clock' = clock + 1
    /\ UNCHANGED <<refunded, received, req, raced, deaths>>

-----------------------------------------------------------------------------
(* settleInvoice: the capture is between the read and the transaction.      *)

Payable(row, x) == IsOpen(row) /\ x > 0 /\ x <= Need(row)

BeginSettle(r, i, x) ==
    /\ Payable(invoice[i], x)
    /\ Begin(r, NewCall("settle", i, Rows({i}), x, {}))
    /\ captured' = captured + x
    /\ UNCHANGED <<invoice, payments, refunded, received>>

RecordSettle(r) ==
    /\ req[r].pc = "settle"
    /\ LET i == req[r].inv
           x == req[r].amount
       IN  /\ invoice' = [invoice EXCEPT ![i] = PaidDown(invoice[i], req[r].read[i], x)]
           /\ payments' = payments \cup {Row("IN", i, x, "GATEWAY", clock + 1, i, 0)}
    /\ Commit(r)
    /\ UNCHANGED <<captured, refunded, received>>

-----------------------------------------------------------------------------
(* applyCancellation, called while the booking is not cancelled yet.  The   *)
(* request's amount is the charge.                                          *)

BeginCancel(r, i, charge) ==
    /\ invoice[i].live
    /\ Begin(r, NewCall("refund", i, Rows({i}), charge, {}))
    /\ UNCHANGED <<invoice, payments, captured, refunded, received>>

\* Cash goes back through the gateway for whatever payment the booking has.
Refund(r) ==
    /\ req[r].pc = "refund"
    /\ LET i == req[r].inv
           ref == /\ req[r].read[i].status = "PAID" /\ req[r].amount < Price
                  /\ \E p \in payments : p.kind = "IN" /\ p.corr = i
       IN  /\ refunded' = IF ref THEN refunded + (Price - req[r].amount) ELSE refunded
           /\ req' = [req EXCEPT ![r].pc = "adjust", ![r].refundRef = ref]
    /\ UNCHANGED <<invoice, payments, captured, received, clock, raced, deaths>>

\* The invoice after the cancellation, by the status that was read.
CancelledNotesCharge(now, read, charge) == [now EXCEPT !.status = "REFUNDED", !.noted = @ + charge]
Cancelled(now, read, charge) ==
    LET noted == [now EXCEPT !.noted = @ + (Price - charge)]
    IN  CASE read.status = "PAID"                  -> [noted EXCEPT !.status = "REFUNDED"]
          [] read.status = "ISSUED" /\ charge > 0  -> [noted EXCEPT !.amount = charge]
          [] read.status = "ISSUED" /\ charge = 0  -> [noted EXCEPT !.status = "VOID"]
          [] OTHER                                 -> noted

RefundRowCharge(r) ==
    IF req[r].refundRef THEN {Row("REFUND", req[r].inv, req[r].amount, "GATEWAY", 0, req[r].inv, 0)} ELSE {}
RefundRow(r) ==
    IF req[r].refundRef
    THEN {Row("REFUND", req[r].inv, Price - req[r].amount, "GATEWAY", 0, req[r].inv, 0)} ELSE {}

Adjust(r) ==
    /\ req[r].pc = "adjust"
    /\ LET i == req[r].inv
       IN  invoice' = [invoice EXCEPT ![i] = Cancelled(invoice[i], req[r].read[i], req[r].amount)]
    /\ payments' = payments \cup RefundRow(r)
    /\ req' = [req EXCEPT ![r].pc = "markCancelled"]
    /\ clock' = clock + 1
    /\ UNCHANGED <<captured, refunded, received, raced, deaths>>

MarkCancelled(r) ==
    /\ req[r].pc = "markCancelled"
    /\ invoice' = [invoice EXCEPT ![req[r].inv].live = FALSE]
    /\ req' = [req EXCEPT ![r] = Idle]
    /\ UNCHANGED <<payments, captured, refunded, received, clock, raced, deaths>>

-----------------------------------------------------------------------------
(* First in, first out: funds k, in their order, go to invoices i, in       *)
(* theirs.  Of each pair, the invoice is filled by the funds up to k, or    *)
(* the fund is spent on the invoices up to i.                               *)

FifoTakesAny(need, fund) ==
    LET B == DOMAIN need
        K == DOMAIN fund
        Given(take, i) == SumOf(take[i])
        Taken(take, k) == SumOf([i \in B |-> take[i][k]])
    IN  {take \in [B -> [K -> 0 .. Price]] :
            /\ \A i \in B : Given(take, i) <= need[i]
            /\ \A k \in K : Taken(take, k) <= fund[k]
            /\ (\A i \in B : Given(take, i) = need[i]) \/ (\A k \in K : Taken(take, k) = fund[k])}
FifoTakes(need, fund) ==
    LET B == DOMAIN need
        K == DOMAIN fund
        Given(take, i, S) == SumOf([k \in S |-> take[i][k]])
        Taken(take, k, S) == SumOf([i \in S |-> take[i][k]])
    IN  {take \in [B -> [K -> 0 .. Price]] :
            /\ \A i \in B : Given(take, i, K) <= need[i]
            /\ \A k \in K : Taken(take, k, B) <= fund[k]
            /\ \A i \in B, k \in K :
                  \/ Given(take, i, {l \in K : l <= k}) = need[i]
                  \/ Taken(take, k, {j \in B : j <= i}) = fund[k]}

\* What each invoice got and what is left of each fund.
Applied(take, B, K) == {got \in [B -> 0 .. Price] : \A i \in B : got[i] = SumOf([k \in K |-> take[i][k]])}
Unspent(take, B, fund) ==
    {rest \in [DOMAIN fund -> 0 .. MaxCash] :
        \A k \in DOMAIN fund : rest[k] + SumOf([i \in B |-> take[i][k]]) = fund[k]}

\* The agency's open credit invoices, as read.
OpenCredit == {i \in Invoices : IsOpen(invoice[i]) /\ invoice[i].mode = "CREDIT"}
Needy(r) == {i \in Read(r) : Need(req[r].read[i]) > 0}
NeedOf(r) == [i \in Needy(r) |-> Need(req[r].read[i])]

PayDownAll(r, got) ==
    invoice' = [i \in Invoices |->
                  IF i \in Needy(r) /\ got[i] > 0
                  THEN PaidDown(invoice[i], req[r].read[i], got[i]) ELSE invoice[i]]

-----------------------------------------------------------------------------
(* recordOfflineSettlement.                                                 *)

BeginOffline(r, x) ==
    /\ x > 0
    /\ Begin(r, NewCall("offline", 0, Rows(OpenCredit), x, {}))
    /\ UNCHANGED <<invoice, payments, captured, refunded, received>>

\* What no invoice takes is parked as an advance.
RemainderLost(left) == {}
Remainder(left) ==
    IF left > 0 THEN {Row("IN", NumInvoices + clock + 1, left, "ADVANCE", 0, 0, 0)} ELSE {}

RecordOffline(r) ==
    /\ req[r].pc = "offline"
    /\ LET fund == [k \in {0} |-> req[r].amount]
       IN  \E take \in FifoTakes(NeedOf(r), fund) :
           \E got \in Applied(take, Needy(r), {0}), rest \in Unspent(take, Needy(r), fund) :
              /\ PayDownAll(r, got)
              /\ payments' = payments \cup Remainder(rest[0]) \cup
                    {Row("IN", i, got[i], "OFFLINE", 0, i, 0) : i \in {j \in Needy(r) : got[j] > 0}}
    /\ received' = received + req[r].amount
    /\ Commit(r)
    /\ UNCHANGED <<captured, refunded>>

-----------------------------------------------------------------------------
(* applyAgencyAdvance: reads the open invoices, then the advances.          *)

Advances == {p \in payments : p.kind = "IN" /\ p.via = "ADVANCE" /\ p.corr > NumInvoices}

BeginAdvance(r) ==
    /\ Advances # {} /\ MapThenSumSet(LAMBDA i : Need(invoice[i]), OpenCredit) > 0
    /\ Begin(r, NewCall("readPool", 0, Rows(OpenCredit), 0, {}))
    /\ UNCHANGED <<invoice, payments, captured, refunded, received>>

ReadPool(r) ==
    /\ req[r].pc = "readPool"
    /\ req' = [req EXCEPT ![r].pc = "apply", ![r].pool = Advances]
    /\ UNCHANGED <<invoice, payments, captured, refunded, received, clock, raced, deaths>>

\* What becomes of an advance p, now row q, of which the invoices in S got
\* their shares: it is shrunk to the rest, or goes to the last of them.
Last(S) == {i \in S : \A j \in S : j <= i}
Relinked(q, p, S, share, rest) ==
    CASE S = {}              -> {q}
      [] S # {} /\ rest > 0  -> {[q EXCEPT !.amount = rest]}
      [] OTHER -> {[q EXCEPT !.corr = i, !.via = "APPLIED",
                             !.amount = IF share[i] = p.amount THEN @ ELSE share[i]] : i \in Last(S)}

ApplyAdvance(r) ==
    /\ req[r].pc = "apply"
    /\ LET pool == req[r].pool
           fund == [k \in {p.id[1] : p \in pool} |-> (CHOOSE p \in pool : p.id[1] = k).amount]
       IN  \E take \in FifoTakes(NeedOf(r), fund) :
           \E got \in Applied(take, Needy(r), DOMAIN fund), rest \in Unspent(take, Needy(r), fund) :
              LET Share(k) == [i \in Needy(r) |-> take[i][k]]
                  Takers(k) == {i \in Needy(r) : Share(k)[i] > 0}
                  Moved(q) == IF \E p \in pool : p.id = q.id
                              THEN LET p == CHOOSE p \in pool : p.id = q.id
                                       k == p.id[1]
                                   IN  Relinked(q, p, Takers(k), Share(k), rest[k])
                              ELSE {q}
                  Split(k) == IF rest[k] > 0 THEN Takers(k) ELSE Takers(k) \ Last(Takers(k))
              IN  /\ PayDownAll(r, got)
                  /\ payments' = (UNION {Moved(q) : q \in payments}) \cup
                        (UNION {{Row("IN", i, Share(k)[i], "APPLIED", 0, i, k) : i \in Split(k)} :
                                k \in DOMAIN fund})
    /\ Commit(r)
    /\ UNCHANGED <<captured, refunded, received>>

-----------------------------------------------------------------------------
(* recordChargeback.                                                        *)

SameRef(p, q) == p.corr = q.corr /\ p.via = q.via /\ p.capture = q.capture
DisputableAny(p) == p.kind = "IN"
Disputable(p) == p.kind = "IN" /\ \A q \in payments : q.kind = "CHARGEBACK" => ~SameRef(p, q)

BeginChargeback(r, p) ==
    /\ Disputable(p)
    /\ Begin(r, NewCall("chargeback", IF p.corr \in Invoices THEN p.corr ELSE 0,
                         Rows({p.corr} \cap Invoices), 0, {p}))
    /\ UNCHANGED <<invoice, payments, captured, refunded, received>>

\* The invoice with x reversed, from the row that was read; it is open again.
ReopenedBelow(now, read, x) ==
    [now EXCEPT !.paid = read.paid - x, !.status = IF read.paid <= x THEN "ISSUED" ELSE "PARTIALLY_PAID"]
Reopened(now, read, x) ==
    [now EXCEPT !.paid = IF read.paid <= x THEN 0 ELSE read.paid - x,
                !.status = IF read.paid <= x THEN "ISSUED" ELSE "PARTIALLY_PAID"]

RecordChargeback(r) ==
    /\ req[r].pc = "chargeback"
    /\ \E p \in req[r].pool :
          /\ payments' = payments \cup {Row("CHARGEBACK", p.corr, p.amount, p.via, p.capture, 0, 0)}
          /\ LET i == req[r].inv
             IN  invoice' = IF i = 0 THEN invoice
                            ELSE [invoice EXCEPT ![i] = Reopened(invoice[i], req[r].read[i], p.amount)]
    /\ Commit(r)
    /\ UNCHANGED <<captured, refunded, received>>

-----------------------------------------------------------------------------
\* A request dies between its read and its transaction, or the transaction
\* rolls back.
Die(r) ==
    /\ req[r].pc # "idle" /\ deaths < MaxDeaths
    /\ req' = [req EXCEPT ![r] = Idle]
    /\ deaths' = deaths + 1
    /\ UNCHANGED <<invoice, payments, captured, refunded, received, clock, raced>>

Call(r) ==
    \/ \E i \in Invoices :
          \/ \E x \in 1 .. Price : BeginSettle(r, i, x)
          \/ \E charge \in 0 .. Price : BeginCancel(r, i, charge)
    \/ \E x \in 1 .. MaxCash : BeginOffline(r, x)
    \/ BeginAdvance(r)
    \/ \E p \in payments : BeginChargeback(r, p)

Step(r) ==
    \/ RecordSettle(r)
    \/ Refund(r) \/ Adjust(r) \/ MarkCancelled(r)
    \/ RecordOffline(r)
    \/ ReadPool(r) \/ ApplyAdvance(r)
    \/ RecordChargeback(r)

Next ==
    \/ \E i \in Invoices : Issue(i) \/ Collect(i)
    \/ \E r \in Requests : Call(r) \/ Step(r) \/ Die(r)

Spec == Init /\ [][Next]_vars

-----------------------------------------------------------------------------
(* Properties.  raced names the invoices, and the pool of advances (0), that *)
(* two requests ever had in hand at once.                                    *)

Total(rows) == SumOf([p \in rows |-> p.amount])
RowsOf(kind, i) == {p \in payments : p.kind = kind /\ p.corr = i}

\* Whatever settles, cancels or disputes it at once, and however stale its
\* write: an ISSUED invoice has nothing paid on it, a PARTIALLY_PAID one and a
\* PAID credit invoice have something.
StatusReflectsPaid ==
    \A i \in Invoices :
        /\ invoice[i].status = "ISSUED" => invoice[i].paid = 0
        /\ invoice[i].status = "PARTIALLY_PAID" => invoice[i].paid > 0
        /\ invoice[i].status = "PAID" /\ invoice[i].mode = "CREDIT" => invoice[i].paid > 0

\* Once every call is answered, the gateway's net takings are the rows that say
\* so, races included: a stale request loses amounts on invoices, never a row.
GatewayBooked ==
    InFlight = {} /\ deaths = 0 =>
        captured - refunded = Total({p \in payments : p.kind = "IN" /\ p.via = "GATEWAY"})
                              - Total({p \in payments : p.kind = "REFUND"})

\* applyAgencyAdvance creates no new cash, and recordOfflineSettlement loses
\* none, as long as no two requests have the advances at once.
OfflineBooked ==
    0 \notin raced =>
        Total({p \in payments : p.kind = "IN" /\ p.via # "GATEWAY"}) = received

\* The two ledgers agree (runReconciliation): what a credit invoice says is
\* paid is what its rows brought in, less what was charged back.
LedgersAgree ==
    \A i \in Invoices :
        invoice[i].mode = "CREDIT" /\ {0, i} \cap raced = {} =>
            invoice[i].paid = Total(RowsOf("IN", i)) - Total(RowsOf("CHARGEBACK", i))

\* An open invoice is owed something and a PAID credit invoice nothing, so
\* getOutstanding adds up positive balances only.
OpenIsOwed ==
    \A i \in Invoices :
        i \notin raced =>
            /\ IsOpen(invoice[i]) => Need(invoice[i]) > 0
            /\ invoice[i].status = "PAID" /\ invoice[i].mode = "CREDIT" => Need(invoice[i]) = 0

\* A captured payment is charged back at most once (recordChargeback, already).
ChargedBackOnce ==
    \A p \in payments :
        p.kind = "IN" /\ p.via = "GATEWAY" /\ p.corr \notin raced =>
            Cardinality({q \in payments : q.kind = "CHARGEBACK" /\ SameRef(p, q)}) <= 1

\* Credit notes never exceed the price, and a refund has its credit note.
RefundIsNoted ==
    \A i \in Invoices :
        i \notin raced /\ deaths = 0 =>
            /\ invoice[i].noted <= Price
            /\ Total(RowsOf("REFUND", i)) \in {0, invoice[i].noted}

\* Oldest due first: no invoice gets offline money or an advance while an older
\* one the same request found open stays open.
OldestFirst ==
    [][\A r \in Requests :
          RecordOffline(r) \/ ApplyAdvance(r) =>
              \A i, j \in Needy(r) :
                  i < j /\ {i, j} \cap raced = {} /\ invoice'[j].paid > invoice[j].paid
                      => ~IsOpen(invoice'[i])]_vars

-----------------------------------------------------------------------------
(* What the documents and comments say, and the code does not keep.          *)

\* finance.service.ts, applyCancellation: "agency now owes only the
\* cancellation charge", the part its credit note does not cover.
CancelledOwesCharge ==
    \A i \in Invoices :
        /\ i \notin raced /\ deaths = 0
        /\ invoice[i].mode = "CREDIT" /\ ~invoice[i].live /\ IsOpen(invoice[i])
        /\ RowsOf("CHARGEBACK", i) = {}
        => invoice[i].amount = Price - invoice[i].noted
=============================================================================
