----------------------------- MODULE LedgerProofs -----------------------------
(* What TLAPS proves of Ledger, for any number of invoices and requests, any *)
(* price and any bounds.                                                     *)
EXTENDS Ledger, SumsProofs, WellFoundedInduction

\* StatusReflectsPaid, of one row.
Good(row) ==
    /\ row.status = "ISSUED" => row.paid = 0
    /\ row.status = "PARTIALLY_PAID" => row.paid > 0
    /\ row.status = "PAID" /\ row.mode = "CREDIT" => row.paid > 0

\* What a request in flight knows of its amount: a settlement is not empty, a
\* charge is at most the price.
AmountFits(loc) ==
    /\ loc.pc = "settle" => loc.amount > 0
    /\ loc.pc \in {"refund", "adjust"} => loc.amount <= Price

Inv ==
    /\ TypeOK
    /\ \A i \in Invoices : Good(invoice[i])
    /\ \A r \in Requests : AmountFits(req[r])

LEMMA StatusParts == StatusReflectsPaid <=> \A i \in Invoices : Good(invoice[i])
BY DEF StatusReflectsPaid, Good

LEMMA InitHolds == Init => Inv
BY LedgerAssumption DEF Init, Inv, TypeOK, Invoice, NoInvoice, Statuses, Modes, Idle, Request, PCs,
                        Payment, Good, AmountFits, Invoices

-----------------------------------------------------------------------------
(* What each kind of write leaves of a row.                                  *)

LEMMA PaidDownGood ==
    ASSUME NEW now \in Invoice, NEW read \in Invoice, NEW x \in Nat, x > 0
    PROVE  PaidDown(now, read, x) \in Invoice /\ Good(PaidDown(now, read, x))
<1> DEFINE row(s) == [now EXCEPT !.paid = read.paid + x, !.status = s]
<1>1. read.paid + x \in Nat /\ read.paid + x > 0 BY DEF Invoice
<1>2. row("PAID") \in Invoice /\ Good(row("PAID")) BY <1>1 DEF Invoice, Statuses, Good
<1>3. row("PARTIALLY_PAID") \in Invoice /\ Good(row("PARTIALLY_PAID"))
  BY <1>1 DEF Invoice, Statuses, Good
<1>4. CASE read.paid + x >= read.amount
  <2>1. PaidDown(now, read, x) = row("PAID") BY <1>4 DEF PaidDown
  <2> QED BY <2>1, <1>2
<1>5. CASE ~(read.paid + x >= read.amount)
  <2>1. PaidDown(now, read, x) = row("PARTIALLY_PAID") BY <1>5 DEF PaidDown
  <2> QED BY <2>1, <1>3
<1> QED BY <1>4, <1>5

LEMMA ReopenedGood ==
    ASSUME NEW now \in Invoice, NEW read \in Invoice, NEW x \in Nat
    PROVE  Reopened(now, read, x) \in Invoice /\ Good(Reopened(now, read, x))
<1>1. CASE read.paid <= x
  <2>1. Reopened(now, read, x) = [now EXCEPT !.paid = 0, !.status = "ISSUED"]
    BY <1>1 DEF Reopened
  <2>2. [now EXCEPT !.paid = 0, !.status = "ISSUED"] \in Invoice BY DEF Invoice, Statuses
  <2>3. Good([now EXCEPT !.paid = 0, !.status = "ISSUED"]) BY DEF Invoice, Good
  <2> QED BY ONLY <2>1, <2>2, <2>3
<1>2. CASE ~(read.paid <= x)
  <2>1. Reopened(now, read, x) = [now EXCEPT !.paid = read.paid - x, !.status = "PARTIALLY_PAID"]
    BY <1>2 DEF Reopened
  <2>2. read.paid - x \in Nat /\ read.paid - x > 0 BY <1>2 DEF Invoice
  <2> QED BY <2>1, <2>2 DEF Invoice, Statuses, Good
<1> QED BY <1>1, <1>2

LEMMA CancelledGood ==
    ASSUME NEW now \in Invoice, NEW read \in Invoice, NEW charge \in Nat, charge <= Price, Good(now)
    PROVE  Cancelled(now, read, charge) \in Invoice /\ Good(Cancelled(now, read, charge))
<1> DEFINE noted == [now EXCEPT !.noted = now.noted + (Price - charge)]
<1>1. noted \in Invoice /\ Good(noted) BY LedgerAssumption DEF Invoice, Good
<1>2. CASE read.status = "PAID"
  <2>1. Cancelled(now, read, charge) = [noted EXCEPT !.status = "REFUNDED"] BY <1>2 DEF Cancelled
  <2> HIDE DEF noted
  <2> QED BY <1>1, <2>1 DEF Invoice, Statuses, Good
<1>3. CASE read.status = "ISSUED" /\ charge > 0
  <2>1. Cancelled(now, read, charge) = [noted EXCEPT !.amount = charge] BY <1>3 DEF Cancelled
  <2> HIDE DEF noted
  <2> QED BY <1>1, <2>1 DEF Invoice, Statuses, Good
<1>4. CASE read.status = "ISSUED" /\ charge = 0
  <2>1. Cancelled(now, read, charge) = [noted EXCEPT !.status = "VOID"] BY <1>4 DEF Cancelled
  <2> HIDE DEF noted
  <2> QED BY <1>1, <2>1 DEF Invoice, Statuses, Good
<1>5. CASE read.status \notin {"PAID", "ISSUED"}
  <2>1. Cancelled(now, read, charge) = noted BY <1>5 DEF Cancelled
  <2> QED BY <1>1, <2>1
<1> QED BY <1>2, <1>3, <1>4, <1>5

LEMMA RowTyped ==
    ASSUME clock \in Nat, NEW kind \in {"IN", "REFUND", "CHARGEBACK"}, NEW corr \in Nat,
           NEW amount \in Nat, NEW via \in {"GATEWAY", "OFFLINE", "ADVANCE", "APPLIED"},
           NEW capture \in Nat, NEW i \in Nat, NEW k \in Nat
    PROVE  Row(kind, corr, amount, via, capture, i, k) \in Payment
BY DEF Row, Payment

-----------------------------------------------------------------------------
(* What the three ways to move a request do.                                 *)

LEMMA BeginKeeps ==
    ASSUME Inv, NEW r \in Requests, NEW loc \in Request, Begin(r, loc), AmountFits(loc)
    PROVE  /\ req' \in [Requests -> Request] /\ clock' \in Nat
           /\ raced' \subseteq Invoices \cup {0} /\ deaths' \in Nat
           /\ \A q \in Requests : AmountFits(req'[q])
<1>1. Has(loc) \subseteq Invoices \cup {0} BY DEF Has
<1> QED BY <1>1 DEF Begin, Inv, TypeOK

LEMMA IdleTyped == Idle \in Request /\ AmountFits(Idle)
BY LedgerAssumption DEF Idle, Request, PCs, NoInvoice, Invoice, Statuses, Modes, AmountFits

LEMMA CommitKeeps ==
    ASSUME Inv, NEW r \in Requests, Commit(r)
    PROVE  /\ req' \in [Requests -> Request] /\ clock' \in Nat
           /\ raced' \subseteq Invoices \cup {0} /\ deaths' \in Nat
           /\ \A q \in Requests : AmountFits(req'[q])
BY IdleTyped DEF Commit, Inv, TypeOK

LEMMA CallTyped ==
    ASSUME NEW pc \in PCs, NEW inv \in Invoices \cup {0}, NEW read \in [Invoices -> Invoice],
           NEW amount \in Nat, NEW pool \in SUBSET Payment,
           pc = "settle" => amount > 0, pc \in {"refund", "adjust"} => amount <= Price
    PROVE  NewCall(pc, inv, read, amount, pool) \in Request /\ AmountFits(NewCall(pc, inv, read, amount, pool))
BY DEF NewCall, Request, AmountFits

LEMMA RowsTyped == ASSUME Inv, NEW S PROVE Rows(S) \in [Invoices -> Invoice]
BY DEF Inv, TypeOK, Rows, NoInvoice, Invoice, Statuses, Modes

-----------------------------------------------------------------------------
(* One lemma per action.  Goal restates what each has to show.               *)

LEMMA Goal ==
    ASSUME invoice' \in [Invoices -> Invoice], \A i \in Invoices : Good(invoice'[i]),
           payments' \subseteq Payment,
           captured' \in Nat, refunded' \in Nat, received' \in Nat,
           req' \in [Requests -> Request], clock' \in Nat,
           raced' \subseteq Invoices \cup {0}, deaths' \in Nat,
           \A r \in Requests : AmountFits(req'[r])
    PROVE  Inv'
BY DEF Inv, TypeOK, Good, AmountFits

\* A step that leaves requests or invoices alone.
LEMMA Kept ==
    ASSUME Inv
    PROVE  /\ invoice \in [Invoices -> Invoice] /\ \A i \in Invoices : Good(invoice[i])
           /\ payments \subseteq Payment
           /\ captured \in Nat /\ refunded \in Nat /\ received \in Nat
           /\ req \in [Requests -> Request] /\ clock \in Nat
           /\ raced \subseteq Invoices \cup {0} /\ deaths \in Nat
           /\ \A r \in Requests : AmountFits(req[r])
BY DEF Inv, TypeOK

\* One invoice is replaced by a good row.
LEMMA OneInvoice ==
    ASSUME Inv, NEW i, NEW row \in Invoice, Good(row), invoice' = [invoice EXCEPT ![i] = row]
    PROVE  invoice' \in [Invoices -> Invoice] /\ \A j \in Invoices : Good(invoice'[j])
BY Kept

LEMMA IssueKeeps == ASSUME Inv, NEW i \in Invoices, Issue(i) PROVE Inv'
<1> DEFINE row == [status |-> "ISSUED", mode |-> "CREDIT", amount |-> Price,
                   paid |-> 0, live |-> TRUE, noted |-> 0]
<1>1. row \in Invoice /\ Good(row) BY LedgerAssumption DEF Invoice, Statuses, Modes, Good
<1>2. invoice' = [invoice EXCEPT ![i] = row] BY DEF Issue
<1> HIDE DEF row
<1>3. invoice' \in [Invoices -> Invoice] /\ \A j \in Invoices : Good(invoice'[j])
  BY <1>1, <1>2, OneInvoice
<1>4. UNCHANGED <<payments, captured, refunded, received, req, clock, raced, deaths>> BY DEF Issue
<1> QED BY <1>3, <1>4, Kept, Goal

LEMMA CollectKeeps == ASSUME Inv, NEW i \in Invoices, Collect(i) PROVE Inv'
<1> DEFINE row == [status |-> "PAID", mode |-> "PREPAY", amount |-> Price,
                   paid |-> 0, live |-> TRUE, noted |-> 0]
           pay == Row("IN", i, Price, "GATEWAY", clock + 1, i, 0)
<1>1. row \in Invoice /\ Good(row) BY LedgerAssumption DEF Invoice, Statuses, Modes, Good
<1>2. invoice' = [invoice EXCEPT ![i] = row] /\ payments' = payments \cup {pay} BY DEF Collect
<1>3. pay \in Payment
  <2>1. clock \in Nat /\ clock + 1 \in Nat /\ i \in Nat /\ Price \in Nat
    BY Kept, LedgerAssumption DEF Invoices
  <2> QED BY ONLY <2>1, RowTyped
<1> HIDE DEF row, pay
<1>4. invoice' \in [Invoices -> Invoice] /\ \A j \in Invoices : Good(invoice'[j])
  BY <1>1, <1>2, OneInvoice
<1>5. captured' = captured + Price /\ clock' = clock + 1
      /\ UNCHANGED <<refunded, received, req, raced, deaths>> BY DEF Collect
<1>6. captured' \in Nat /\ clock' \in Nat BY <1>5, Kept, LedgerAssumption
<1>7. payments' \subseteq Payment BY <1>2, <1>3, Kept
<1> QED BY <1>4, <1>5, <1>6, <1>7, Kept, Goal

LEMMA BeginSettleKeeps ==
    ASSUME Inv, NEW r \in Requests, NEW i \in Invoices, NEW x \in 1 .. Price, BeginSettle(r, i, x)
    PROVE  Inv'
<1> DEFINE loc == NewCall("settle", i, Rows({i}), x, {})
<1>1. loc \in Request /\ AmountFits(loc)
  <2>1. Rows({i}) \in [Invoices -> Invoice] BY RowsTyped
  <2> QED BY <2>1, CallTyped, LedgerAssumption DEF PCs
<1>2. Begin(r, loc) /\ captured' = captured + x /\ UNCHANGED <<invoice, payments, refunded, received>>
  BY DEF BeginSettle
<1> HIDE DEF loc
<1>3. captured' \in Nat BY <1>2, Kept, LedgerAssumption
<1> QED BY <1>1, <1>2, <1>3, BeginKeeps, Kept, Goal

LEMMA RecordSettleKeeps == ASSUME Inv, NEW r \in Requests, RecordSettle(r) PROVE Inv'
<1> DEFINE i == req[r].inv
           x == req[r].amount
           row == PaidDown(invoice[i], req[r].read[i], x)
           pay == Row("IN", i, x, "GATEWAY", clock + 1, i, 0)
<1>1. req[r] \in Request /\ AmountFits(req[r]) BY Kept
<1>2. x \in Nat /\ x > 0 /\ i \in Invoices \cup {0} BY <1>1 DEF RecordSettle, Request, AmountFits
<1>3. invoice' = [invoice EXCEPT ![i] = row] /\ payments' = payments \cup {pay} /\ Commit(r)
      /\ UNCHANGED <<captured, refunded, received>>
  BY DEF RecordSettle
<1>4. pay \in Payment
  <2>1. clock \in Nat /\ clock + 1 \in Nat /\ i \in Nat /\ x \in Nat
    BY <1>2, Kept, LedgerAssumption DEF Invoices
  <2> HIDE DEF i, x
  <2> QED BY ONLY <2>1, RowTyped
<1>5. invoice' \in [Invoices -> Invoice] /\ \A j \in Invoices : Good(invoice'[j])
  <2>1. CASE i \in Invoices
    <3>1. req[r].read[i] \in Invoice BY <1>1, <2>1 DEF Request
    <3>2. row \in Invoice /\ Good(row) BY <1>2, <2>1, <3>1, Kept, PaidDownGood
    <3> HIDE DEF row
    <3> QED BY <1>3, <3>2, OneInvoice
  <2>2. CASE i \notin Invoices
    <3> HIDE DEF row
    <3>1. invoice' = invoice BY <1>3, <2>2, Kept
    <3> QED BY <3>1, Kept
  <2> QED BY <2>1, <2>2
<1> HIDE DEF pay
<1>6. payments' \subseteq Payment BY <1>3, <1>4, Kept
<1> QED BY <1>3, <1>5, <1>6, CommitKeeps, Kept, Goal

LEMMA BeginCancelKeeps ==
    ASSUME Inv, NEW r \in Requests, NEW i \in Invoices, NEW charge \in 0 .. Price,
           BeginCancel(r, i, charge)
    PROVE  Inv'
<1> DEFINE loc == NewCall("refund", i, Rows({i}), charge, {})
<1>1. loc \in Request /\ AmountFits(loc)
  <2>1. Rows({i}) \in [Invoices -> Invoice] BY RowsTyped
  <2> QED BY <2>1, CallTyped, LedgerAssumption DEF PCs
<1>2. Begin(r, loc) /\ UNCHANGED <<invoice, payments, captured, refunded, received>>
  BY DEF BeginCancel
<1> HIDE DEF loc
<1> QED BY <1>1, <1>2, BeginKeeps, Kept, Goal

LEMMA RefundKeeps == ASSUME Inv, NEW r \in Requests, Refund(r) PROVE Inv'
<1>1. PICK ref \in BOOLEAN :
        /\ refunded' = IF ref THEN refunded + (Price - req[r].amount) ELSE refunded
        /\ req' = [req EXCEPT ![r].pc = "adjust", ![r].refundRef = ref]
  BY DEF Refund
<1>2. UNCHANGED <<invoice, payments, captured, received, clock, raced, deaths>> BY DEF Refund
<1>3. req[r] \in Request /\ req[r].amount <= Price /\ req[r].amount \in Nat
  BY Kept DEF Refund, AmountFits, Request
<1>4. refunded' \in Nat BY <1>1, <1>3, Kept, LedgerAssumption
<1>5. req' \in [Requests -> Request] BY <1>1, <1>3, Kept DEF Request, PCs
<1>6. \A q \in Requests : AmountFits(req'[q]) BY <1>1, <1>3, Kept DEF AmountFits
<1> QED BY <1>2, <1>4, <1>5, <1>6, Kept, Goal

LEMMA AdjustKeeps == ASSUME Inv, NEW r \in Requests, Adjust(r) PROVE Inv'
<1> DEFINE i == req[r].inv
           row == Cancelled(invoice[i], req[r].read[i], req[r].amount)
<1>1. req[r] \in Request /\ req[r].amount <= Price /\ req[r].amount \in Nat
      /\ i \in Invoices \cup {0} /\ i \in Nat
  BY Kept, LedgerAssumption DEF Adjust, AmountFits, Request, Invoices
<1>2. /\ invoice' = [invoice EXCEPT ![i] = row]
      /\ payments' = payments \cup RefundRow(r)
      /\ req' = [req EXCEPT ![r].pc = "markCancelled"]
      /\ clock' = clock + 1
      /\ UNCHANGED <<captured, refunded, received, raced, deaths>>
  BY DEF Adjust
<1>3. RefundRow(r) \subseteq Payment
  <2>1. Price - req[r].amount \in Nat /\ clock \in Nat BY <1>1, Kept, LedgerAssumption
  <2>2. Row("REFUND", i, Price - req[r].amount, "GATEWAY", 0, i, 0) \in Payment
    <3> HIDE DEF i
    <3> QED BY ONLY <1>1, <2>1, RowTyped
  <2> QED BY <2>2 DEF RefundRow
<1>4. invoice' \in [Invoices -> Invoice] /\ \A j \in Invoices : Good(invoice'[j])
  <2>1. CASE i \in Invoices
    <3>1. req[r].read[i] \in Invoice BY <1>1, <2>1 DEF Request
    <3>2. row \in Invoice /\ Good(row) BY <1>1, <2>1, <3>1, Kept, CancelledGood
    <3> HIDE DEF row
    <3> QED BY <1>2, <3>2, OneInvoice
  <2>2. CASE i \notin Invoices
    <3> HIDE DEF row, i
    <3>1. invoice' = invoice BY <1>2, <2>2, Kept
    <3> QED BY <3>1, Kept
  <2> QED BY <2>1, <2>2
<1> HIDE DEF row, i
<1>5. payments' \subseteq Payment /\ clock' \in Nat BY <1>2, <1>3, Kept
<1>6. req' \in [Requests -> Request] BY <1>1, <1>2, Kept DEF Request, PCs
<1>7. \A q \in Requests : AmountFits(req'[q]) BY <1>1, <1>2, Kept DEF AmountFits
<1> QED BY <1>2, <1>4, <1>5, <1>6, <1>7, Kept, Goal

LEMMA MarkCancelledKeeps == ASSUME Inv, NEW r \in Requests, MarkCancelled(r) PROVE Inv'
<1>1. /\ invoice' = [invoice EXCEPT ![req[r].inv].live = FALSE]
      /\ req' = [req EXCEPT ![r] = Idle]
      /\ UNCHANGED <<payments, captured, refunded, received, clock, raced, deaths>>
  BY DEF MarkCancelled
<1>2. invoice' \in [Invoices -> Invoice] BY <1>1, Kept DEF Invoice
<1>3. \A j \in Invoices : Good(invoice'[j])
  <2> TAKE j \in Invoices
  <2>1. /\ invoice'[j].status = invoice[j].status
        /\ invoice'[j].paid = invoice[j].paid /\ invoice'[j].mode = invoice[j].mode
    BY <1>1, Kept DEF Invoice
  <2> QED BY <2>1, Kept DEF Good
<1>4. req' \in [Requests -> Request] /\ \A q \in Requests : AmountFits(req'[q])
  BY <1>1, IdleTyped, Kept
<1> QED BY <1>1, <1>2, <1>3, <1>4, Kept, Goal

LEMMA BeginOfflineKeeps ==
    ASSUME Inv, NEW r \in Requests, NEW x \in 1 .. MaxCash, BeginOffline(r, x)
    PROVE  Inv'
<1> DEFINE loc == NewCall("offline", 0, Rows(OpenCredit), x, {})
<1>1. loc \in Request /\ AmountFits(loc)
  <2>1. Rows(OpenCredit) \in [Invoices -> Invoice] BY RowsTyped
  <2> QED BY <2>1, CallTyped, LedgerAssumption DEF PCs
<1>2. Begin(r, loc) /\ UNCHANGED <<invoice, payments, captured, refunded, received>>
  BY DEF BeginOffline
<1> HIDE DEF loc
<1> QED BY <1>1, <1>2, BeginKeeps, Kept, Goal

LEMMA BeginAdvanceKeeps == ASSUME Inv, NEW r \in Requests, BeginAdvance(r) PROVE Inv'
<1> DEFINE loc == NewCall("readPool", 0, Rows(OpenCredit), 0, {})
<1>1. loc \in Request /\ AmountFits(loc)
  <2>1. Rows(OpenCredit) \in [Invoices -> Invoice] BY RowsTyped
  <2> QED BY <2>1, CallTyped, LedgerAssumption DEF PCs
<1>2. Begin(r, loc) /\ UNCHANGED <<invoice, payments, captured, refunded, received>>
  BY DEF BeginAdvance
<1> HIDE DEF loc
<1> QED BY <1>1, <1>2, BeginKeeps, Kept, Goal

LEMMA ReadPoolKeeps == ASSUME Inv, NEW r \in Requests, ReadPool(r) PROVE Inv'
<1>1. req' = [req EXCEPT ![r].pc = "apply", ![r].pool = Advances]
      /\ UNCHANGED <<invoice, payments, captured, refunded, received, clock, raced, deaths>>
  BY DEF ReadPool
<1> DEFINE loc == [req[r] EXCEPT !.pc = "apply", !.pool = Advances]
<1>2. Advances \subseteq Payment BY Kept DEF Advances
<1>3. req' \in [Requests -> Request]
  <2>1. req[r] \in Request BY Kept
  <2>2. loc \in Request BY ONLY <1>2, <2>1 DEF Request, PCs
  <2>3. req' = [req EXCEPT ![r] = loc] BY <1>1
  <2> HIDE DEF loc
  <2> QED BY <2>2, <2>3, Kept
<1>4. \A q \in Requests : AmountFits(req'[q]) BY <1>1, Kept DEF AmountFits
<1> QED BY <1>1, <1>3, <1>4, Kept, Goal

\* The allocation is typed by its bounds, whatever the sums in it are.
LEMMA AppliedTyped ==
    ASSUME NEW take, NEW B, NEW K, NEW got \in Applied(take, B, K)
    PROVE  got \in [B -> 0 .. Price]
BY Zenon DEF Applied

LEMMA UnspentTyped ==
    ASSUME NEW take, NEW B, NEW fund, NEW rest \in Unspent(take, B, fund)
    PROVE  rest \in [DOMAIN fund -> 0 .. MaxCash]
BY Zenon DEF Unspent

LEMMA TakesTyped ==
    ASSUME NEW need, NEW fund, NEW take \in FifoTakes(need, fund)
    PROVE  take \in [DOMAIN need -> [DOMAIN fund -> 0 .. Price]]
BY Zenon DEF FifoTakes

\* Invoices paid down together by what each got.
LEMMA PayDownAllGood ==
    ASSUME Inv, NEW r \in Requests, NEW got \in [Needy(r) -> 0 .. Price], PayDownAll(r, got)
    PROVE  invoice' \in [Invoices -> Invoice] /\ \A i \in Invoices : Good(invoice'[i])
<1> SUFFICES ASSUME NEW i \in Invoices PROVE invoice'[i] \in Invoice /\ Good(invoice'[i])
  BY DEF PayDownAll
<1>1. CASE i \in Needy(r) /\ got[i] > 0
  <2>1. invoice'[i] = PaidDown(invoice[i], req[r].read[i], got[i]) BY <1>1 DEF PayDownAll
  <2>2. got[i] \in Nat BY <1>1, LedgerAssumption
  <2>3. req[r].read[i] \in Invoice /\ invoice[i] \in Invoice BY Kept DEF Request
  <2> QED BY <1>1, <2>1, <2>2, <2>3, PaidDownGood
<1>2. CASE ~(i \in Needy(r) /\ got[i] > 0)
  <2>1. invoice'[i] = invoice[i] BY <1>2 DEF PayDownAll
  <2> QED BY <2>1, Kept
<1> QED BY <1>1, <1>2

LEMMA RecordOfflineKeeps == ASSUME Inv, NEW r \in Requests, RecordOffline(r) PROVE Inv'
<1> DEFINE fund == [k \in {0} |-> req[r].amount]
<1>1. PICK take, got, rest :
        /\ got \in Applied(take, Needy(r), {0}) /\ rest \in Unspent(take, Needy(r), fund)
        /\ PayDownAll(r, got)
        /\ payments' = payments \cup Remainder(rest[0]) \cup
              {Row("IN", i, got[i], "OFFLINE", 0, i, 0) : i \in {j \in Needy(r) : got[j] > 0}}
  BY DEF RecordOffline
<1>2. received' = received + req[r].amount /\ Commit(r) /\ UNCHANGED <<captured, refunded>>
  BY DEF RecordOffline
<1>3. got \in [Needy(r) -> 0 .. Price] BY <1>1, AppliedTyped
<1>4. rest[0] \in Nat
  <2>1. rest \in [DOMAIN fund -> 0 .. MaxCash] BY <1>1, UnspentTyped
  <2> QED BY <2>1, LedgerAssumption
<1>5. clock \in Nat /\ NumInvoices + clock + 1 \in Nat /\ NumInvoices \in Nat
  BY Kept, LedgerAssumption
<1>6. Remainder(rest[0]) \subseteq Payment
  <2>1. Row("IN", NumInvoices + clock + 1, rest[0], "ADVANCE", 0, 0, 0) \in Payment
    BY ONLY <1>4, <1>5, RowTyped
  <2> QED BY <2>1 DEF Remainder
<1>7. ASSUME NEW i \in Needy(r) PROVE Row("IN", i, got[i], "OFFLINE", 0, i, 0) \in Payment
  <2>1. i \in Nat /\ got[i] \in Nat BY <1>3, <1>7, LedgerAssumption DEF Needy, Read, Invoices
  <2> QED BY ONLY <1>5, <2>1, RowTyped
<1>8. payments' \subseteq Payment BY <1>1, <1>6, <1>7, Kept
<1>9. received' \in Nat BY <1>2, Kept DEF Request
<1>10. invoice' \in [Invoices -> Invoice] /\ \A i \in Invoices : Good(invoice'[i])
  BY <1>1, <1>3, PayDownAllGood
<1> QED BY <1>2, <1>8, <1>9, <1>10, CommitKeeps, Kept, Goal

\* What becomes of an advance is a set of payments.
LEMMA RelinkedTyped ==
    ASSUME NEW q \in Payment, NEW p, NEW S \in SUBSET Invoices, NEW share, NEW rest \in Nat,
           \A i \in S : share[i] \in Nat
    PROVE  Relinked(q, p, S, share, rest) \subseteq Payment
<1> DEFINE x(i) == IF share[i] = p.amount THEN q.amount ELSE share[i]
           to(i) == [q EXCEPT !.corr = i, !.via = "APPLIED", !.amount = x(i)]
<1>1. CASE S = {}
  <2>1. Relinked(q, p, S, share, rest) = {q} BY <1>1 DEF Relinked
  <2> QED BY <2>1
<1>2. CASE S # {} /\ rest > 0
  <2>1. Relinked(q, p, S, share, rest) = {[q EXCEPT !.amount = rest]} BY <1>2 DEF Relinked
  <2>2. [q EXCEPT !.amount = rest] \in Payment BY DEF Payment
  <2> QED BY <2>1, <2>2
<1>3. CASE S # {} /\ ~(rest > 0)
  <2>1. Relinked(q, p, S, share, rest) = {to(i) : i \in Last(S)} BY <1>3 DEF Relinked
  <2>2. ASSUME NEW i \in S PROVE to(i) \in Payment
    <3>1. x(i) \in Nat /\ i \in Nat BY LedgerAssumption DEF Payment, Invoices
    <3> HIDE DEF x
    <3> QED BY ONLY <3>1, q \in Payment DEF Payment
  <2>3. Last(S) \subseteq S BY DEF Last
  <2> HIDE DEF to
  <2> QED BY <2>1, <2>2, <2>3
<1> QED BY <1>1, <1>2, <1>3

LEMMA ApplyAdvanceKeeps == ASSUME Inv, NEW r \in Requests, ApplyAdvance(r) PROVE Inv'
<1> DEFINE pool == req[r].pool
           fund == [k \in {p.id[1] : p \in pool} |-> (CHOOSE p \in pool : p.id[1] = k).amount]
           Share(take, k) == [i \in Needy(r) |-> take[i][k]]
           Takers(take, k) == {i \in Needy(r) : Share(take, k)[i] > 0}
           Moved(take, rest, q) ==
               IF \E p \in pool : p.id = q.id
               THEN LET p == CHOOSE p \in pool : p.id = q.id
                        k == p.id[1]
                    IN  Relinked(q, p, Takers(take, k), Share(take, k), rest[k])
               ELSE {q}
           Split(take, rest, k) ==
               IF rest[k] > 0 THEN Takers(take, k) ELSE Takers(take, k) \ Last(Takers(take, k))
           Slices(take, rest) ==
               UNION {{Row("IN", i, Share(take, k)[i], "APPLIED", 0, i, k) : i \in Split(take, rest, k)} :
                      k \in DOMAIN fund}
           moved(take, rest) == UNION {Moved(take, rest, q) : q \in payments}
<1>1. PICK take \in FifoTakes(NeedOf(r), fund) :
        \E got \in Applied(take, Needy(r), DOMAIN fund), rest \in Unspent(take, Needy(r), fund) :
            /\ PayDownAll(r, got)
            /\ payments' = moved(take, rest) \cup Slices(take, rest)
  BY DEF ApplyAdvance
<1>2. PICK got \in Applied(take, Needy(r), DOMAIN fund), rest \in Unspent(take, Needy(r), fund) :
            /\ PayDownAll(r, got)
            /\ payments' = moved(take, rest) \cup Slices(take, rest)
  BY <1>1
<1>3. Commit(r) /\ UNCHANGED <<captured, refunded, received>> BY DEF ApplyAdvance
<1>4. invoice' \in [Invoices -> Invoice] /\ \A i \in Invoices : Good(invoice'[i])
  <2>1. got \in [Needy(r) -> 0 .. Price] BY AppliedTyped
  <2> QED BY ONLY Inv, r \in Requests, <1>2, <2>1, PayDownAllGood
<1>5. pool \subseteq Payment BY Kept DEF Request
<1>6. ASSUME NEW k \in DOMAIN fund
      PROVE  /\ rest[k] \in Nat /\ k \in Nat
             /\ \A i \in Needy(r) : i \in Invoices /\ i \in Nat /\ Share(take, k)[i] \in Nat
  <2>1. rest \in [DOMAIN fund -> 0 .. MaxCash] BY UnspentTyped
  <2>2. take \in [Needy(r) -> [DOMAIN fund -> 0 .. Price]] BY TakesTyped DEF NeedOf
  <2>3. k \in Nat BY <1>5, <1>6 DEF Payment
  <2>4. Needy(r) \subseteq Invoices BY DEF Needy, Read
  <2> HIDE DEF fund
  <2> QED BY <1>6, <2>1, <2>2, <2>3, <2>4, LedgerAssumption DEF Invoices
<1>7. ASSUME NEW q \in payments PROVE Moved(take, rest, q) \subseteq Payment
  <2>1. q \in Payment BY Kept
  <2>2. CASE \E p \in pool : p.id = q.id
    <3> DEFINE p == CHOOSE p \in pool : p.id = q.id
               k == p.id[1]
    <3>1. p \in pool BY <2>2
    <3>2. k \in DOMAIN fund
      <4>1. DOMAIN fund = {c.id[1] : c \in pool} OBVIOUS
      <4> HIDE DEF p, fund, pool
      <4> QED BY <3>1, <4>1
    <3>3. Takers(take, k) \subseteq Invoices /\ \A i \in Takers(take, k) : Share(take, k)[i] \in Nat
      BY <1>6, <3>2
    <3>4. rest[k] \in Nat BY <1>6, <3>2
    <3>5. Moved(take, rest, q) = Relinked(q, p, Takers(take, k), Share(take, k), rest[k]) BY <2>2
    <3> HIDE DEF p, k, Takers, Share, Moved
    <3> QED BY ONLY <2>1, <3>3, <3>4, <3>5, RelinkedTyped
  <2>3. CASE ~(\E p \in pool : p.id = q.id)
    <3>1. Moved(take, rest, q) = {q} BY <2>3
    <3> QED BY <2>1, <3>1
  <2> QED BY <2>2, <2>3
<1>8. ASSUME NEW x \in Slices(take, rest) PROVE x \in Payment
  <2>1. PICK k \in DOMAIN fund :
          x \in {Row("IN", i, Share(take, k)[i], "APPLIED", 0, i, k) : i \in Split(take, rest, k)}
    <3> HIDE DEF Share, Split, fund
    <3> QED OBVIOUS
  <2>2. PICK i \in Split(take, rest, k) : x = Row("IN", i, Share(take, k)[i], "APPLIED", 0, i, k)
    BY <2>1
  <2>3. i \in Needy(r)
    <3>1. i \in Takers(take, k) BY <2>2
    <3> QED BY <3>1
  <2>4. i \in Nat /\ k \in Nat /\ Share(take, k)[i] \in Nat BY <1>6, <2>3
  <2>5. clock \in Nat BY Kept
  <2> HIDE DEF Share
  <2>6. Row("IN", i, Share(take, k)[i], "APPLIED", 0, i, k) \in Payment
    BY ONLY <2>4, <2>5, RowTyped
  <2> QED BY <2>2, <2>6
<1>9. payments' \subseteq Payment
  <2> SUFFICES ASSUME NEW x \in payments' PROVE x \in Payment OBVIOUS
  <2> HIDE DEF Moved, Slices
  <2>1. CASE x \in moved(take, rest)
    <3>1. PICK q \in payments : x \in Moved(take, rest, q) BY <2>1
    <3> QED BY <1>7, <3>1
  <2>2. CASE x \in Slices(take, rest) BY <1>8, <2>2
  <2> HIDE DEF moved
  <2> QED BY <1>2, <2>1, <2>2
<1> QED BY <1>3, <1>4, <1>9, CommitKeeps, Kept, Goal

LEMMA BeginChargebackKeeps ==
    ASSUME Inv, NEW r \in Requests, NEW p \in payments, BeginChargeback(r, p)
    PROVE  Inv'
<1> DEFINE i == IF p.corr \in Invoices THEN p.corr ELSE 0
           loc == NewCall("chargeback", i, Rows({p.corr} \cap Invoices), 0, {p})
<1>1. loc \in Request /\ AmountFits(loc)
  <2>1. Rows({p.corr} \cap Invoices) \in [Invoices -> Invoice] BY RowsTyped
  <2>2. i \in Invoices \cup {0} /\ {p} \in SUBSET Payment BY Kept
  <2> HIDE DEF i
  <2> QED BY <2>1, <2>2, CallTyped DEF PCs
<1>2. Begin(r, loc) /\ UNCHANGED <<invoice, payments, captured, refunded, received>>
  BY DEF BeginChargeback
<1> HIDE DEF loc
<1> QED BY <1>1, <1>2, BeginKeeps, Kept, Goal

LEMMA RecordChargebackKeeps == ASSUME Inv, NEW r \in Requests, RecordChargeback(r) PROVE Inv'
<1> DEFINE i == req[r].inv
<1>1. PICK p \in req[r].pool :
        /\ payments' = payments \cup {Row("CHARGEBACK", p.corr, p.amount, p.via, p.capture, 0, 0)}
        /\ invoice' = IF i = 0 THEN invoice
                      ELSE [invoice EXCEPT ![i] = Reopened(invoice[i], req[r].read[i], p.amount)]
  BY DEF RecordChargeback
<1>2. Commit(r) /\ UNCHANGED <<captured, refunded, received>> BY DEF RecordChargeback
<1>3. req[r] \in Request /\ p \in Payment BY Kept DEF Request
<1>4. payments' \subseteq Payment
  <2>1. clock \in Nat /\ p.corr \in Nat /\ p.amount \in Nat /\ p.capture \in Nat /\ 0 \in Nat
        /\ p.via \in {"GATEWAY", "OFFLINE", "ADVANCE", "APPLIED"}
    BY <1>3, Kept DEF Payment
  <2>2. Row("CHARGEBACK", p.corr, p.amount, p.via, p.capture, 0, 0) \in Payment
    BY ONLY <2>1, RowTyped
  <2> QED BY <1>1, <2>2, Kept
<1>5. invoice' \in [Invoices -> Invoice] /\ \A j \in Invoices : Good(invoice'[j])
  <2>1. CASE i = 0 BY <1>1, <2>1, Kept
  <2>2. CASE i # 0
    <3> DEFINE row == Reopened(invoice[i], req[r].read[i], p.amount)
    <3>1. i \in Invoices /\ p.amount \in Nat BY <1>3, <2>2 DEF Request, Payment
    <3>2. req[r].read[i] \in Invoice /\ invoice[i] \in Invoice BY <1>3, <3>1, Kept DEF Request
    <3>3. row \in Invoice /\ Good(row) BY <3>1, <3>2, ReopenedGood
    <3>4. invoice' = [invoice EXCEPT ![i] = row] BY <1>1, <2>2
    <3> HIDE DEF row
    <3> QED BY <3>3, <3>4, OneInvoice
  <2> QED BY <2>1, <2>2
<1> QED BY <1>2, <1>4, <1>5, CommitKeeps, Kept, Goal

LEMMA DieKeeps == ASSUME Inv, NEW r \in Requests, Die(r) PROVE Inv'
<1>1. /\ req' = [req EXCEPT ![r] = Idle] /\ deaths' = deaths + 1
      /\ UNCHANGED <<invoice, payments, captured, refunded, received, clock, raced>>
  BY DEF Die
<1>2. req' \in [Requests -> Request] /\ \A q \in Requests : AmountFits(req'[q])
  BY <1>1, IdleTyped, Kept
<1> QED BY <1>1, <1>2, Kept, Goal

LEMMA StepKeeps == Inv /\ [Next]_vars => Inv'
<1> SUFFICES ASSUME Inv, [Next]_vars PROVE Inv' OBVIOUS
<1>1. ASSUME NEW i \in Invoices, Issue(i) \/ Collect(i) PROVE Inv'
  BY <1>1, IssueKeeps, CollectKeeps
<1>2. ASSUME NEW r \in Requests, Call(r) PROVE Inv'
  BY <1>2, BeginSettleKeeps, BeginCancelKeeps, BeginOfflineKeeps, BeginAdvanceKeeps,
     BeginChargebackKeeps DEF Call
<1>3. ASSUME NEW r \in Requests, Step(r) PROVE Inv'
  BY <1>3, RecordSettleKeeps, RefundKeeps, AdjustKeeps, MarkCancelledKeeps, RecordOfflineKeeps,
     ReadPoolKeeps, ApplyAdvanceKeeps, RecordChargebackKeeps DEF Step
<1>4. CASE UNCHANGED vars BY <1>4, Kept, Goal DEF vars
<1> QED BY <1>1, <1>2, <1>3, <1>4, DieKeeps DEF Next

LEMMA Invariance == Spec => []Inv
BY InitHolds, StepKeeps, PTL DEF Spec

-----------------------------------------------------------------------------
\* No row, payment or request ever leaves its type: no write, however stale,
\* drives an amount below zero.
THEOREM TypeCorrect == Spec => []TypeOK
<1>1. Inv => TypeOK BY DEF Inv
<1> QED BY <1>1, Invariance, PTL

\* An ISSUED invoice has nothing paid on it, and a PARTIALLY_PAID one and a PAID
\* credit invoice have something, whatever interleaves (settleInvoice,
\* recordOfflineSettlement, applyAgencyAdvance, recordChargeback,
\* applyCancellation).
THEOREM StatusReflectsPaidHolds == Spec => []StatusReflectsPaid
<1>1. Inv => StatusReflectsPaid BY StatusParts DEF Inv
<1> QED BY <1>1, Invariance, PTL

-----------------------------------------------------------------------------
(* Totals of payments. *)

LEMMA TotalType ==
    ASSUME NEW rows \in SUBSET Payment, IsFiniteSet(rows)
    PROVE  Summable([p \in rows |-> p.amount]) /\ Total(rows) \in Nat
<1>1. Summable([p \in rows |-> p.amount]) BY DEF Summable, Payment
<1> QED BY <1>1, SumType DEF Total

LEMMA TotalEmpty == Total({}) = 0
BY SumEmpty DEF Total

LEMMA TotalOne == ASSUME NEW p \in Payment PROVE Total({p}) = p.amount
<1> DEFINE f == [q \in {p} |-> q.amount]
<1>1. DOMAIN f = {p} /\ f[p] = p.amount /\ f[p] \in Nat BY DEF Payment
<1>2. Total({p}) = SumOf(f) BY DEF Total
<1> HIDE DEF f
<1> QED BY <1>1, <1>2, SumOne

LEMMA TotalSplit ==
    ASSUME NEW A \in SUBSET Payment, NEW B \in SUBSET Payment, IsFiniteSet(A), IsFiniteSet(B),
           A \cap B = {}
    PROVE  Total(A \cup B) = Total(A) + Total(B)
<1> DEFINE f(S) == [p \in S |-> p.amount]
<1>1. IsFiniteSet(A \cup B) BY FS_Union
<1>2. Summable(f(A)) /\ Summable(f(B)) /\ Summable(f(A \cup B)) BY <1>1, TotalType
<1>3. /\ DOMAIN f(A) = A /\ DOMAIN f(B) = B /\ DOMAIN f(A \cup B) = A \cup B
      /\ \A p \in A : f(A \cup B)[p] = f(A)[p]
      /\ \A p \in B : f(A \cup B)[p] = f(B)[p]
  OBVIOUS
<1>4. Total(A) = SumOf(f(A)) /\ Total(B) = SumOf(f(B)) /\ Total(A \cup B) = SumOf(f(A \cup B))
  BY DEF Total
<1> HIDE DEF f
<1>5. SumOf(f(A \cup B)) = SumOf(f(A)) + SumOf(f(B)) BY ONLY <1>2, <1>3, SumSplit, A \cap B = {}
<1> QED BY <1>4, <1>5

LEMMA TotalAdd ==
    ASSUME NEW A \in SUBSET Payment, IsFiniteSet(A), NEW p \in Payment, p \notin A
    PROVE  Total(A \cup {p}) = Total(A) + p.amount
<1>1. IsFiniteSet({p}) /\ {p} \in SUBSET Payment /\ A \cap {p} = {} BY FS_Singleton
<1>2. Total(A \cup {p}) = Total(A) + Total({p}) BY <1>1, TotalSplit
<1> QED BY <1>2, TotalOne

-----------------------------------------------------------------------------
(* The table of payments, and what a request in flight holds of it.         *)

Present(i) == invoice[i].status # "NONE"
Advance(p) == p.kind = "IN" /\ p.via = "ADVANCE"

\* A row is dated, not empty, and an advance has no invoice where any other has.
RowFits(p) ==
    /\ p.amount > 0 /\ p.id[1] <= clock
    /\ p.via = "ADVANCE" => p.corr > NumInvoices
    /\ p.via # "ADVANCE" => p.corr \in Invoices /\ Present(p.corr)
    /\ Advance(p) => p.id[2] = 0 /\ p.id[3] = 0

Table ==
    /\ IsFiniteSet(payments)
    /\ \A p \in payments : RowFits(p)
    /\ \A p, q \in payments : p.id = q.id => p = q
    /\ \A i \in Invoices : Present(i) \/ invoice[i] = NoInvoice

\* The call c has one invoice, its own.
Only(c) == c.inv \in Invoices /\ \A i \in Invoices : (c.read[i].status # "NONE") <=> (i = c.inv)

\* What is known at the time now, when the table has these rows, of the advances
\* that c read.
PoolFits(c, rows, now) ==
    /\ IsFiniteSet(c.pool)
    /\ \A p \in c.pool :
          /\ Advance(p) /\ p.id[2] = 0 /\ p.id[3] = 0 /\ p.id[1] <= now /\ p.amount > 0
          /\ p.corr > NumInvoices
          /\ \A q \in rows : p.id = q.id => q.kind = "IN" /\ q.via \in {"ADVANCE", "APPLIED"}
          /\ \A q \in c.pool : p.id = q.id => p = q

\* The payment p that c disputes is an advance, or the payment of c's invoice.
Disputes(c, p) ==
    /\ c.pool = {p} /\ p.kind = "IN" /\ p.amount > 0
    /\ \/ p.via = "ADVANCE" /\ c.inv = 0 /\ p.corr > NumInvoices
       \/ p.via # "ADVANCE" /\ c.inv = p.corr /\ Only(c)

CallFits(c, rows, now) ==
    /\ c.pc = "settle" => Only(c) /\ Payable(c.read[c.inv], c.amount)
    /\ c.pc \in {"refund", "adjust", "markCancelled"} => Only(c) /\ c.read[c.inv].live
    /\ c.pc = "adjust" /\ c.refundRef => c.amount < Price
    /\ c.pc \in {"offline", "readPool", "apply"} =>
          \A i \in Invoices : c.read[i].status # "NONE" => IsOpen(c.read[i]) /\ c.read[i].mode = "CREDIT"
    /\ c.pc = "apply" => PoolFits(c, rows, now)
    /\ c.pc = "chargeback" => \E p \in Payment : Disputes(c, p)

\* Unless it was ever raced, an invoice is in the hands of one request.
Exclusive ==
    \A i \in (Invoices \cup {0}) \ raced : \A r, q \in Requests :
        i \in Has(req[r]) /\ i \in Has(req[q]) => r = q

\* What a request read of it is then what it still is.
Fresh ==
    /\ \A r \in Requests : \A i \in Invoices :
          i \in Has(req[r]) =>
             /\ Present(i)
             /\ i \notin raced /\ req[r].pc # "markCancelled" => invoice[i] = req[r].read[i]
    /\ 0 \notin raced => \A r \in Requests : req[r].pc = "apply" => req[r].pool \subseteq payments

Book ==
    /\ Inv /\ Table
    /\ \A r \in Requests : CallFits(req[r], payments, clock)
    /\ Exclusive /\ Fresh

LEMMA HasIs ==
    ASSUME NEW c, NEW i \in Invoices
    PROVE  i \in Has(c) <=> c.read[i].status # "NONE"
<1>1. 0 \notin Invoices BY LedgerAssumption DEF Invoices
<1> QED BY <1>1 DEF Has

LEMMA HasPool ==
    ASSUME NEW c
    PROVE  0 \in Has(c) <=> c.pc \in {"readPool", "apply"} \/ (c.pc = "chargeback" /\ c.inv = 0)
<1>1. 0 \notin Invoices BY LedgerAssumption DEF Invoices
<1> QED BY <1>1 DEF Has

LEMMA IdleHasNone ==
    Has(Idle) = {} /\ Idle.pc = "idle" /\ \A rows, now : CallFits(Idle, rows, now)
<1>1. Has(Idle) = {} BY DEF Idle, Has, NoInvoice
<1>2. \A rows, now : CallFits(Idle, rows, now) BY DEF Idle, CallFits
<1>3. Idle.pc = "idle" BY DEF Idle
<1> QED BY <1>1, <1>2, <1>3

LEMMA BookInit == Init => Book
<1> SUFFICES ASSUME Init PROVE Book OBVIOUS
<1>1. Inv BY InitHolds
<1>2. payments = {} /\ req = [r \in Requests |-> Idle] /\ invoice = [i \in Invoices |-> NoInvoice]
  BY DEF Init
<1>3. Table BY <1>2, FS_EmptySet DEF Table
<1>4. \A r \in Requests : CallFits(req[r], payments, clock) BY <1>2, IdleHasNone
<1>5. Exclusive /\ Fresh
  <2>1. \A r \in Requests : Has(req[r]) = {} /\ req[r].pc = "idle" BY <1>2, IdleHasNone
  <2> QED BY <2>1 DEF Exclusive, Fresh
<1> QED BY <1>1, <1>3, <1>4, <1>5 DEF Book

LEMMA Parts ==
    ASSUME Book
    PROVE  /\ Inv /\ Table /\ Exclusive /\ Fresh
           /\ IsFiniteSet(payments) /\ payments \subseteq Payment
           /\ \A r \in Requests : req[r] \in Request /\ CallFits(req[r], payments, clock)
           /\ clock \in Nat
BY Kept DEF Book, Table

-----------------------------------------------------------------------------
(* What a step may do to the table and to the requests.                     *)

\* A row that is new is dated later, or is what became of an advance.
LEMMA CallStaysFit ==
    ASSUME NEW c \in Request, NEW rows, NEW now \in Nat, NEW rows2, NEW now2 \in Nat, now <= now2,
           CallFits(c, rows, now),
           \A q \in rows2 : \/ q \in rows \/ q.id[1] > now
                            \/ q.kind = "IN" /\ q.via \in {"ADVANCE", "APPLIED"}
    PROVE  CallFits(c, rows2, now2)
<1>1. ASSUME PoolFits(c, rows, now) PROVE PoolFits(c, rows2, now2)
  <2>1. ASSUME NEW p \in c.pool PROVE p.id[1] <= now2 /\ p.id[1] \in Nat /\ p.id[1] <= now
    BY <1>1, <2>1 DEF PoolFits, Request, Payment
  <2>2. ASSUME NEW p \in c.pool, NEW q \in rows2, p.id = q.id
        PROVE  q.kind = "IN" /\ q.via \in {"ADVANCE", "APPLIED"}
    <3>1. ~(q.id[1] > now) BY <2>1, <2>2
    <3> QED BY <1>1, <2>2, <3>1 DEF PoolFits
  <2> QED BY <1>1, <2>1, <2>2 DEF PoolFits
<1> QED BY <1>1 DEF CallFits

LEMMA CallsStayFit ==
    ASSUME Book, clock' \in Nat, clock <= clock',
           \A q \in payments' : \/ q \in payments \/ q.id[1] > clock
                                \/ q.kind = "IN" /\ q.via \in {"ADVANCE", "APPLIED"},
           \A r \in Requests : req'[r] = req[r] \/ CallFits(req'[r], payments', clock')
    PROVE  \A r \in Requests : CallFits(req'[r], payments', clock')
<1> SUFFICES ASSUME NEW r \in Requests, req'[r] = req[r] PROVE CallFits(req[r], payments', clock')
  OBVIOUS
<1>1. req[r] \in Request /\ CallFits(req[r], payments, clock) /\ clock \in Nat BY Parts
<1> QED BY <1>1, CallStaysFit

LEMMA ExclusiveStays ==
    ASSUME Exclusive, raced' = raced, \A r \in Requests : Has(req'[r]) \subseteq Has(req[r])
    PROVE  Exclusive'
<1> SUFFICES ASSUME NEW i \in (Invoices \cup {0}) \ raced, NEW r \in Requests, NEW q \in Requests,
                    i \in Has(req'[r]), i \in Has(req'[q])
             PROVE  r = q
  BY DEF Exclusive, Has
<1> QED BY DEF Exclusive

\* New rows are dated now.
LEMMA TableStays ==
    ASSUME Book, Inv', NEW new, payments' = payments \cup new, IsFiniteSet(new), clock <= clock',
           \A p \in new : RowFits(p)' /\ p.id[1] > clock,
           \A p, q \in new : p.id = q.id => p = q,
           \A i \in Invoices : Present(i) => Present(i)',
           \A i \in Invoices : Present(i)' \/ invoice'[i] = invoice[i]
    PROVE  Table'
<1>1. IsFiniteSet(payments') BY Parts, FS_Union
<1>2. \A p \in payments : p \in Payment /\ RowFits(p) BY Parts DEF Table
<1>3. clock \in Nat /\ clock' \in Nat BY Parts DEF Inv, TypeOK
<1>4. ASSUME NEW p \in payments' PROVE RowFits(p)'
  <2>1. CASE p \in new BY <2>1
  <2>2. CASE p \in payments
    <3>1. p.id[1] \in Nat BY <1>2, <2>2 DEF Payment
    <3>2. p.id[1] <= clock' BY <1>2, <1>3, <2>2, <3>1 DEF RowFits
    <3>3. RowFits(p) BY <1>2, <2>2
    <3>4. p.via # "ADVANCE" => Present(p.corr)' BY <3>3 DEF RowFits
    <3> QED BY <3>2, <3>3, <3>4 DEF RowFits, Advance
  <2> QED BY <2>1, <2>2
<1>5. ASSUME NEW p \in payments', NEW q \in payments', p.id = q.id PROVE p = q
  <2>1. \A c \in payments : ~(c.id[1] > clock)
    <3> TAKE c \in payments
    <3>1. c.id[1] \in Nat /\ c.id[1] <= clock BY <1>2 DEF RowFits, Payment
    <3> QED BY <1>3, <3>1
  <2>2. \A c, d \in payments : c.id = d.id => c = d BY Parts DEF Table
  <2> QED BY <1>5, <2>1, <2>2
<1>6. \A i \in Invoices : Present(i)' \/ invoice'[i] = NoInvoice BY Parts DEF Table
<1> QED BY <1>1, <1>4, <1>5, <1>6 DEF Table

\* One request moves on or is done, and writes only invoices that it has.
LEMMA FreshStays ==
    ASSUME Book, NEW r \in Requests, raced' = raced,
           \A q \in Requests \ {r} : req'[q] = req[q],
           Has(req'[r]) \subseteq Has(req[r]),
           \A i \in Invoices : Present(i) => Present(i)',
           \A i \in Invoices \ Has(req[r]) : invoice'[i] = invoice[i],
           \/ Has(req'[r]) = {}
           \/ req'[r].read = req[r].read /\ (req'[r].pc = "markCancelled" \/ invoice' = invoice)
              /\ req[r].pc # "markCancelled",
           req'[r].pc = "apply" => req'[r].pool \subseteq payments',
           0 \in Has(req[r]) \/ payments \subseteq payments'
    PROVE  Fresh' /\ Exclusive'
<1>1. \A q \in Requests : Has(req'[q]) \subseteq Has(req[q]) OBVIOUS
<1>2. Exclusive' BY <1>1, Parts, ExclusiveStays
<1>3. ASSUME NEW q \in Requests, NEW i \in Invoices, i \in Has(req'[q])
      PROVE  /\ Present(i)'
             /\ i \notin raced /\ req'[q].pc # "markCancelled" => invoice'[i] = req'[q].read[i]
  <2>1. i \in Has(req[q]) BY <1>1, <1>3
  <2>2. Present(i)' BY <2>1, Parts DEF Fresh
  <2>3. ASSUME i \notin raced, req'[q].pc # "markCancelled", q # r PROVE invoice'[i] = req'[q].read[i]
    <3>1. i \notin Has(req[r]) BY <2>1, <2>3, Parts DEF Exclusive
    <3>2. invoice'[i] = invoice[i] /\ req'[q] = req[q] BY <2>3, <3>1
    <3> QED BY <2>1, <2>3, <3>2, Parts DEF Fresh
  <2>4. ASSUME i \notin raced, req'[r].pc # "markCancelled", q = r PROVE invoice'[i] = req'[r].read[i]
    <3>1. req'[r].read = req[r].read /\ invoice' = invoice /\ req[r].pc # "markCancelled"
      BY <1>3, <2>4
    <3> QED BY <2>1, <2>4, <3>1, Parts DEF Fresh
  <2> QED BY <2>2, <2>3, <2>4
<1>4. ASSUME 0 \notin raced, NEW q \in Requests, req'[q].pc = "apply" PROVE req'[q].pool \subseteq payments'
  <2>1. CASE q = r BY <1>4, <2>1
  <2>2. CASE q # r
    <3>1. req'[q] = req[q] /\ req[q].pc = "apply" BY <1>4, <2>2
    <3>2. 0 \in Has(req[q]) BY <3>1, HasPool
    <3>3. 0 \notin Has(req[r]) BY <1>4, <2>2, <3>2, Parts DEF Exclusive
    <3>4. req[q].pool \subseteq payments BY <1>4, <3>1, Parts DEF Fresh
    <3> QED BY <3>1, <3>3, <3>4
  <2> QED BY <2>1, <2>2
<1>5. Fresh'
  <2>1. raced' = raced OBVIOUS
  <2> QED BY <1>3, <1>4, <2>1 DEF Fresh
<1> QED BY <1>2, <1>5

LEMMA InvoicesFinite == IsFiniteSet(Invoices)
BY LedgerAssumption, FS_Interval DEF Invoices

LEMMA FiniteImage ==
    ASSUME NEW T, IsFiniteSet(T), NEW g, DOMAIN g = T
    PROVE  IsFiniteSet({g[x] : x \in T})
<1> DEFINE S == {g[x] : x \in T}
           h == [x \in T |-> g[x]]
<1>1. h \in [T -> S] /\ \A y \in S : \E x \in T : h[x] = y OBVIOUS
<1>2. h \in Surjection(T, S)
  <2> HIDE DEF h, S
  <2> QED BY <1>1, Fun_IsSurj
<1> HIDE DEF h, S
<1>3. IsFiniteSet(S) BY <1>2, FS_Surjection
<1> QED BY <1>3 DEF S

LEMMA BookGoal ==
    ASSUME Inv', Table', \A r \in Requests : CallFits(req'[r], payments', clock'), Exclusive', Fresh'
    PROVE  Book'
BY DEF Book

LEMMA TableSame ==
    ASSUME Book, UNCHANGED <<invoice, payments>>, clock' = clock
    PROVE  Table'
BY Parts DEF Table, RowFits, Present

\* A call begins.
LEMMA BookBegins ==
    ASSUME Book, Inv', NEW r \in Requests, NEW loc, Begin(r, loc), UNCHANGED <<invoice, payments>>,
           CallFits(loc, payments, clock), loc.pc \notin {"apply", "markCancelled"},
           \A i \in Invoices : i \in Has(loc) => loc.read[i] = invoice[i]
    PROVE  Book'
<1>1. /\ req' = [req EXCEPT ![r] = loc] /\ clock' = clock
      /\ raced' = raced \cup (Has(loc) \cap UNION {Has(req[q]) : q \in Requests \ {r}})
  BY DEF Begin
<1>2. req \in [Requests -> Request] BY Kept DEF Book
<1>3. req'[r] = loc /\ \A q \in Requests \ {r} : req'[q] = req[q] BY <1>1, <1>2
<1>4. Table' BY <1>1, TableSame
<1>5. \A q \in Requests : CallFits(req'[q], payments', clock') BY <1>1, <1>3, Parts
<1>6. Exclusive'
  <2> SUFFICES ASSUME NEW i \in (Invoices \cup {0}) \ raced', NEW p \in Requests, NEW q \in Requests,
                      i \in Has(req'[p]), i \in Has(req'[q])
               PROVE  p = q
    BY DEF Exclusive, Has
  <2>1. i \notin raced BY <1>1
  <2>2. ASSUME NEW a \in Requests \ {r}, i \in Has(req[a]), i \in Has(loc) PROVE FALSE
    BY <1>1, <2>2
  <2>3. CASE p # r /\ q # r BY <1>3, <2>1, <2>3, Parts DEF Exclusive
  <2>4. CASE p = r /\ q # r BY <1>3, <2>2, <2>4
  <2>5. CASE p # r /\ q = r BY <1>3, <2>2, <2>5
  <2> QED BY <2>3, <2>4, <2>5
<1>7. Fresh'
  <2>1. ASSUME NEW q \in Requests, NEW i \in Invoices, i \in Has(req'[q])
        PROVE  /\ Present(i)'
               /\ i \notin raced' /\ req'[q].pc # "markCancelled" => invoice'[i] = req'[q].read[i]
    <3>1. CASE q = r
      <4>1. i \in Has(loc) /\ loc.read[i] = invoice[i] BY <1>3, <2>1, <3>1
      <4>2. loc.read[i].status # "NONE" BY <4>1, HasIs
      <4> QED BY <1>3, <3>1, <4>1, <4>2 DEF Present
    <3>2. CASE q # r
      <4>1. req'[q] = req[q] /\ (i \notin raced' => i \notin raced) BY <1>1, <1>3, <3>2
      <4>2. Present(i)' <=> Present(i) BY DEF Present
      <4> QED BY <2>1, <4>1, <4>2, Parts DEF Fresh
    <3> QED BY <3>1, <3>2
  <2>2. ASSUME 0 \notin raced', NEW q \in Requests, req'[q].pc = "apply" PROVE req'[q].pool \subseteq payments'
    <3>1. q # r /\ 0 \notin raced BY <1>1, <1>3, <2>2
    <3>2. req'[q] = req[q] BY <1>3, <3>1
    <3> QED BY <2>2, <3>1, <3>2, Parts DEF Fresh
  <2> QED BY <2>1, <2>2 DEF Fresh
<1> QED BY <1>4, <1>5, <1>6, <1>7, BookGoal

\* What Rows gives to a call.
LEMMA RowsRead ==
    ASSUME NEW S, NEW i \in Invoices
    PROVE  /\ Rows(S)[i].status # "NONE" <=> i \in S /\ Present(i)
           /\ Rows(S)[i].status # "NONE" => Rows(S)[i] = invoice[i]
           /\ i \in S => Rows(S)[i] = invoice[i]
BY DEF Rows, NoInvoice, Present

LEMMA OnlyRow ==
    ASSUME NEW i \in Invoices, Present(i), NEW pc, NEW amount, NEW pool
    PROVE  Only(NewCall(pc, i, Rows({i}), amount, pool))
BY RowsRead DEF Only, NewCall

LEMMA CallReads ==
    ASSUME NEW pc, NEW inv, NEW S, NEW amount, NEW pool, NEW i \in Invoices,
           i \in Has(NewCall(pc, inv, Rows(S), amount, pool))
    PROVE  NewCall(pc, inv, Rows(S), amount, pool).read[i] = invoice[i]
<1>1. NewCall(pc, inv, Rows(S), amount, pool).read = Rows(S) BY DEF NewCall
<1> QED BY <1>1, HasIs, RowsRead

LEMMA BeginSettleBooks ==
    ASSUME Book, NEW r \in Requests, NEW i \in Invoices, NEW x \in 1 .. Price, BeginSettle(r, i, x)
    PROVE  Book'
<1> DEFINE loc == NewCall("settle", i, Rows({i}), x, {})
<1>1. Inv' BY Parts, BeginSettleKeeps
<1>2. Begin(r, loc) /\ UNCHANGED <<invoice, payments>> /\ Payable(invoice[i], x) BY DEF BeginSettle
<1>3. Present(i) BY <1>2 DEF Payable, IsOpen, Present
<1>4. Only(loc) BY <1>3, OnlyRow
<1>5. loc.pc = "settle" /\ loc.inv = i /\ loc.read[i] = invoice[i] /\ loc.amount = x
  BY RowsRead DEF NewCall
<1>6. \A j \in Invoices : j \in Has(loc) => loc.read[j] = invoice[j] BY CallReads
<1> HIDE DEF loc
<1>7. CallFits(loc, payments, clock) BY <1>2, <1>4, <1>5 DEF CallFits
<1> QED BY <1>1, <1>2, <1>5, <1>6, <1>7, BookBegins

LEMMA BeginCancelBooks ==
    ASSUME Book, NEW r \in Requests, NEW i \in Invoices, NEW charge \in 0 .. Price,
           BeginCancel(r, i, charge)
    PROVE  Book'
<1> DEFINE loc == NewCall("refund", i, Rows({i}), charge, {})
<1>1. Inv' BY Parts, BeginCancelKeeps
<1>2. Begin(r, loc) /\ UNCHANGED <<invoice, payments>> /\ invoice[i].live BY DEF BeginCancel
<1>3. Present(i)
  <2>1. Present(i) \/ invoice[i] = NoInvoice BY Parts DEF Table
  <2> QED BY <1>2, <2>1 DEF NoInvoice
<1>4. Only(loc) BY <1>3, OnlyRow
<1>5. loc.pc = "refund" /\ loc.inv = i /\ loc.read[i] = invoice[i] BY RowsRead DEF NewCall
<1>6. \A j \in Invoices : j \in Has(loc) => loc.read[j] = invoice[j] BY CallReads
<1> HIDE DEF loc
<1>7. CallFits(loc, payments, clock) BY <1>2, <1>4, <1>5 DEF CallFits
<1> QED BY <1>1, <1>2, <1>5, <1>6, <1>7, BookBegins

\* A call that reads the open credit invoices.
LEMMA OpenCreditRead ==
    ASSUME NEW pc \in {"offline", "readPool"}, NEW amount
    PROVE  CallFits(NewCall(pc, 0, Rows(OpenCredit), amount, {}), payments, clock)
<1> DEFINE loc == NewCall(pc, 0, Rows(OpenCredit), amount, {})
<1>1. loc.pc = pc /\ loc.read = Rows(OpenCredit) BY DEF NewCall
<1>2. \A i \in Invoices : loc.read[i].status # "NONE" => IsOpen(loc.read[i]) /\ loc.read[i].mode = "CREDIT"
  BY <1>1, RowsRead DEF OpenCredit
<1> HIDE DEF loc
<1>3. CallFits(loc, payments, clock) BY <1>1, <1>2 DEF CallFits
<1> QED BY <1>3 DEF loc

LEMMA BeginOfflineBooks ==
    ASSUME Book, NEW r \in Requests, NEW x \in 1 .. MaxCash, BeginOffline(r, x)
    PROVE  Book'
<1> DEFINE loc == NewCall("offline", 0, Rows(OpenCredit), x, {})
<1>1. Inv' BY Parts, BeginOfflineKeeps
<1>2. Begin(r, loc) /\ UNCHANGED <<invoice, payments>> BY DEF BeginOffline
<1>3. CallFits(loc, payments, clock) BY OpenCreditRead
<1>4. loc.pc = "offline" BY DEF NewCall
<1>5. \A j \in Invoices : j \in Has(loc) => loc.read[j] = invoice[j] BY CallReads
<1> HIDE DEF loc
<1> QED BY <1>1, <1>2, <1>3, <1>4, <1>5, BookBegins

LEMMA BeginAdvanceBooks ==
    ASSUME Book, NEW r \in Requests, BeginAdvance(r)
    PROVE  Book'
<1> DEFINE loc == NewCall("readPool", 0, Rows(OpenCredit), 0, {})
<1>1. Inv' BY Parts, BeginAdvanceKeeps
<1>2. Begin(r, loc) /\ UNCHANGED <<invoice, payments>> BY DEF BeginAdvance
<1>3. CallFits(loc, payments, clock) BY OpenCreditRead
<1>4. loc.pc = "readPool" BY DEF NewCall
<1>5. \A j \in Invoices : j \in Has(loc) => loc.read[j] = invoice[j] BY CallReads
<1> HIDE DEF loc
<1> QED BY <1>1, <1>2, <1>3, <1>4, <1>5, BookBegins

LEMMA BeginChargebackBooks ==
    ASSUME Book, NEW r \in Requests, NEW p \in payments, BeginChargeback(r, p)
    PROVE  Book'
<1> DEFINE i == IF p.corr \in Invoices THEN p.corr ELSE 0
           loc == NewCall("chargeback", i, Rows({p.corr} \cap Invoices), 0, {p})
<1>1. Inv' BY Parts, BeginChargebackKeeps
<1>2. Begin(r, loc) /\ UNCHANGED <<invoice, payments>> /\ p.kind = "IN"
  BY DEF BeginChargeback, Disputable
<1>3. p \in Payment /\ RowFits(p) BY Parts DEF Table
<1>4. loc.pc = "chargeback" /\ loc.inv = i /\ loc.read = Rows({p.corr} \cap Invoices) /\ loc.pool = {p}
  BY DEF NewCall
<1>5. \A j \in Invoices : j \in Has(loc) => loc.read[j] = invoice[j] BY CallReads
<1>6. Disputes(loc, p)
  <2>1. CASE p.via = "ADVANCE"
    <3>1. p.corr > NumInvoices /\ p.corr \in Nat BY <1>3, <2>1 DEF RowFits, Payment
    <3>2. i = 0 BY <3>1, LedgerAssumption DEF Invoices
    <3> HIDE DEF loc, i
    <3> QED BY <1>2, <1>3, <1>4, <2>1, <3>1, <3>2 DEF Disputes, RowFits
  <2>2. CASE p.via # "ADVANCE"
    <3>1. p.corr \in Invoices /\ Present(p.corr) /\ i = p.corr BY <1>3, <2>2 DEF RowFits
    <3>2. {p.corr} \cap Invoices = {p.corr} BY <3>1
    <3>3. Only(loc) BY <3>1, <3>2, OnlyRow
    <3> HIDE DEF loc, i
    <3> QED BY <1>2, <1>3, <1>4, <2>2, <3>1, <3>3 DEF Disputes, RowFits
  <2> QED BY <2>1, <2>2
<1> HIDE DEF loc
<1>7. CallFits(loc, payments, clock) BY <1>3, <1>4, <1>6 DEF CallFits
<1> QED BY <1>1, <1>2, <1>4, <1>5, <1>7, BookBegins

\* Invoices stay as they are, or are of the call and stay present.
Writes(r) ==
    \A i \in Invoices : \/ invoice'[i] = invoice[i]
                        \/ i \in Has(req[r]) /\ invoice'[i].status # "NONE"

LEMMA WritesKeep ==
    ASSUME Book, NEW r \in Requests, Writes(r)
    PROVE  /\ \A i \in Invoices : Present(i) => Present(i)'
           /\ \A i \in Invoices : Present(i)' \/ invoice'[i] = invoice[i]
           /\ \A i \in Invoices \ Has(req[r]) : invoice'[i] = invoice[i]
BY DEF Writes, Present

\* A request's last transaction adds rows, and writes invoices that it has.
LEMMA BookRecords ==
    ASSUME Book, Inv', NEW r \in Requests, Commit(r), Writes(r),
           NEW new, payments' = payments \cup new, IsFiniteSet(new),
           \A p \in new : RowFits(p)' /\ p.id[1] = clock + 1,
           \A p, q \in new : p.id = q.id => p = q
    PROVE  Book'
<1>1. clock' = clock + 1 /\ raced' = raced /\ req' = [req EXCEPT ![r] = Idle] BY DEF Commit
<1>2. clock \in Nat /\ clock' \in Nat /\ clock <= clock' /\ \A p \in new : p.id[1] > clock
  BY <1>1, Parts
<1>3. req'[r] = Idle /\ \A q \in Requests \ {r} : req'[q] = req[q] BY <1>1, Kept DEF Book
<1>4. Table' BY <1>2, WritesKeep, TableStays
<1>5. \A q \in Requests : CallFits(req'[q], payments', clock')
  <2>1. \A q \in Requests : req'[q] = req[q] \/ CallFits(req'[q], payments', clock')
    BY <1>3, IdleHasNone
  <2> QED BY <1>2, <2>1, CallsStayFit
<1>6. Has(req'[r]) = {} /\ req'[r].pc # "apply" BY <1>3, IdleHasNone
<1>7. Fresh' /\ Exclusive' BY <1>1, <1>3, <1>6, WritesKeep, FreshStays
<1> QED BY <1>4, <1>5, <1>7, BookGoal

\* A request moves on, and no invoice or payment does.
LEMMA BookMoves ==
    ASSUME Book, Inv', NEW r \in Requests, UNCHANGED <<invoice, payments, clock, raced>>,
           \A q \in Requests \ {r} : req'[q] = req[q],
           CallFits(req'[r], payments, clock),
           Has(req'[r]) \subseteq Has(req[r]),
           Has(req'[r]) = {} \/ (req'[r].read = req[r].read /\ req[r].pc # "markCancelled"),
           req'[r].pc = "apply" => req'[r].pool \subseteq payments
    PROVE  Book'
<1>1. Table' BY TableSame
<1>2. \A q \in Requests : CallFits(req'[q], payments', clock') BY Parts
<1>3. \A i \in Invoices : Present(i) => Present(i)' BY DEF Present
<1>4. Fresh' /\ Exclusive' BY <1>3, FreshStays
<1> QED BY <1>1, <1>2, <1>4, BookGoal

\* An invoice comes about.
LEMMA BookOpens ==
    ASSUME Book, Inv', NEW i \in Invoices, ~Present(i), NEW row, row.status # "NONE",
           invoice' = [invoice EXCEPT ![i] = row], UNCHANGED <<req, raced>>,
           Table', clock <= clock', clock' \in Nat, payments \subseteq payments',
           \A q \in payments' : q \in payments \/ q.id[1] > clock
    PROVE  Book'
<1>1. \A q \in Requests : CallFits(req'[q], payments', clock') BY CallsStayFit
<1>2. Exclusive' BY Parts, ExclusiveStays
<1>3. invoice'[i] = row /\ \A j \in Invoices \ {i} : invoice'[j] = invoice[j] BY Kept DEF Book
<1>4. \A q \in Requests : i \notin Has(req[q]) BY Parts DEF Fresh
<1>5. Fresh'
  <2>1. \A j \in Invoices : Present(j) => Present(j)' /\ invoice'[j] = invoice[j]
    BY <1>3 DEF Present
  <2> QED BY <1>4, <2>1, Parts DEF Fresh
<1> QED BY <1>1, <1>2, <1>5, BookGoal

LEMMA IssueBooks == ASSUME Book, NEW i \in Invoices, Issue(i) PROVE Book'
<1> DEFINE row == [status |-> "ISSUED", mode |-> "CREDIT", amount |-> Price,
                   paid |-> 0, live |-> TRUE, noted |-> 0]
<1>1. Inv' BY Parts, IssueKeeps
<1>2. /\ invoice' = [invoice EXCEPT ![i] = row] /\ UNCHANGED <<payments, req, clock, raced>>
      /\ invoice[i].status = "NONE"
  BY DEF Issue
<1>3. row.status # "NONE" /\ ~Present(i) BY <1>2 DEF Present
<1> HIDE DEF row
<1>4. invoice'[i] = row /\ \A j \in Invoices \ {i} : invoice'[j] = invoice[j] BY <1>2, Kept DEF Book
<1>5. /\ \A j \in Invoices : Present(j) => Present(j)'
      /\ \A j \in Invoices : Present(j)' \/ invoice'[j] = invoice[j]
  BY <1>3, <1>4 DEF Present
<1>6. payments' = payments \cup {} /\ IsFiniteSet({}) /\ clock <= clock' /\ clock' \in Nat
  BY <1>2, FS_EmptySet, Parts
<1>7. Table' BY <1>1, <1>5, <1>6, TableStays
<1> QED BY <1>1, <1>2, <1>3, <1>6, <1>7, BookOpens

LEMMA CollectBooks == ASSUME Book, NEW i \in Invoices, Collect(i) PROVE Book'
<1> DEFINE row == [status |-> "PAID", mode |-> "PREPAY", amount |-> Price,
                   paid |-> 0, live |-> TRUE, noted |-> 0]
<1>p. PICK pay : pay = Row("IN", i, Price, "GATEWAY", clock + 1, i, 0) OBVIOUS
<1>1. Inv' BY Parts, CollectKeeps
<1>2. /\ invoice' = [invoice EXCEPT ![i] = row] /\ UNCHANGED <<req, raced>> /\ clock' = clock + 1
      /\ payments' = payments \cup {pay} /\ invoice[i].status = "NONE"
  BY <1>p DEF Collect
<1>3. row.status # "NONE" /\ ~Present(i) BY <1>2 DEF Present
<1> HIDE DEF row
<1>4. invoice'[i] = row /\ \A j \in Invoices \ {i} : invoice'[j] = invoice[j] BY <1>2, Kept DEF Book
<1>5. /\ \A j \in Invoices : Present(j) => Present(j)'
      /\ \A j \in Invoices : Present(j)' \/ invoice'[j] = invoice[j]
      /\ Present(i)'
  BY <1>3, <1>4 DEF Present
<1>6. clock \in Nat /\ clock <= clock' /\ clock' \in Nat /\ clock + 1 > clock BY <1>2, Parts
<1>7. /\ pay.id[1] = clock + 1 /\ pay.amount = Price /\ pay.via = "GATEWAY" /\ pay.corr = i
  BY <1>p DEF Row
<1>8. RowFits(pay)' BY <1>2, <1>5, <1>6, <1>7, LedgerAssumption DEF RowFits, Advance
<1>9. Table'
  <2>1. IsFiniteSet({pay}) BY FS_Singleton
  <2> QED BY <1>1, <1>2, <1>5, <1>6, <1>7, <1>8, <2>1, TableStays
<1> QED BY <1>1, <1>2, <1>3, <1>6, <1>7, <1>9, BookOpens

LEMMA RecordSettleBooks == ASSUME Book, NEW r \in Requests, RecordSettle(r) PROVE Book'
<1> DEFINE i == req[r].inv
           x == req[r].amount
           row == PaidDown(invoice[i], req[r].read[i], x)
<1>p. PICK pay : pay = Row("IN", i, x, "GATEWAY", clock + 1, i, 0) OBVIOUS
<1>1. Inv' BY Parts, RecordSettleKeeps
<1>2. /\ invoice' = [invoice EXCEPT ![i] = row] /\ Commit(r) /\ payments' = payments \cup {pay}
      /\ req[r].pc = "settle"
  BY <1>p DEF RecordSettle
<1>3. Only(req[r]) /\ Payable(req[r].read[i], x) BY <1>2, Parts DEF CallFits
<1>4. i \in Invoices /\ i \in Has(req[r]) /\ x > 0 BY <1>3, HasIs DEF Only, Payable
<1>5. invoice[i] \in Invoice BY <1>4, Kept DEF Book
<1>6. row.status # "NONE" BY <1>5 DEF PaidDown, Invoice
<1>7. pay.id[1] = clock + 1 /\ pay.amount = x /\ pay.via = "GATEWAY" /\ pay.corr = i
  BY <1>p DEF Row
<1>8. clock' = clock + 1 /\ clock \in Nat BY <1>2, Parts DEF Commit
<1> HIDE DEF row, x, i
<1>9. invoice'[i] = row /\ \A j \in Invoices \ {i} : invoice'[j] = invoice[j]
  BY <1>2, <1>4, Kept DEF Book
<1>10. Writes(r) BY <1>4, <1>6, <1>9 DEF Writes
<1>11. RowFits(pay)' BY <1>4, <1>6, <1>7, <1>8, <1>9 DEF RowFits, Advance, Present
<1>12. IsFiniteSet({pay}) BY FS_Singleton
<1> QED BY <1>1, <1>2, <1>7, <1>10, <1>11, <1>12, BookRecords

LEMMA RefundBooks == ASSUME Book, NEW r \in Requests, Refund(r) PROVE Book'
<1>1. Inv' BY Parts, RefundKeeps
<1>2. PICK ref \in BOOLEAN :
        /\ req' = [req EXCEPT ![r].pc = "adjust", ![r].refundRef = ref]
        /\ ref => req[r].amount < Price
  BY DEF Refund
<1>3. UNCHANGED <<invoice, payments, clock, raced>> /\ req[r].pc = "refund" BY DEF Refund
<1>4. req[r] \in Request /\ CallFits(req[r], payments, clock) /\ req \in [Requests -> Request]
  BY Parts, Kept
<1>5. /\ req'[r] = [req[r] EXCEPT !.pc = "adjust", !.refundRef = ref]
      /\ \A q \in Requests \ {r} : req'[q] = req[q]
  BY <1>2, <1>4
<1>6. /\ req'[r].pc = "adjust" /\ req'[r].read = req[r].read /\ req'[r].inv = req[r].inv
      /\ req'[r].amount = req[r].amount /\ (req'[r].refundRef <=> ref)
  BY <1>4, <1>5 DEF Request
<1>7. CallFits(req'[r], payments, clock) BY <1>2, <1>3, <1>4, <1>6 DEF CallFits, Only
<1>8. Has(req'[r]) \subseteq Has(req[r]) BY <1>6 DEF Has
<1> QED BY <1>1, <1>3, <1>5, <1>6, <1>7, <1>8, BookMoves

LEMMA ReadPoolBooks == ASSUME Book, NEW r \in Requests, ReadPool(r) PROVE Book'
<1>1. Inv' BY Parts, ReadPoolKeeps
<1>2. /\ req' = [req EXCEPT ![r].pc = "apply", ![r].pool = Advances]
      /\ UNCHANGED <<invoice, payments, clock, raced>> /\ req[r].pc = "readPool"
  BY DEF ReadPool
<1>4. req[r] \in Request /\ CallFits(req[r], payments, clock) /\ req \in [Requests -> Request]
  BY Parts, Kept
<1>5. /\ req'[r] = [req[r] EXCEPT !.pc = "apply", !.pool = Advances]
      /\ \A q \in Requests \ {r} : req'[q] = req[q]
  BY <1>2, <1>4
<1>6. req'[r].pc = "apply" /\ req'[r].read = req[r].read /\ req'[r].inv = req[r].inv
      /\ req'[r].pool = Advances
  BY <1>4, <1>5 DEF Request
<1>7. PoolFits(req'[r], payments, clock)
  <2>1. Advances \subseteq payments BY DEF Advances
  <2>2. IsFiniteSet(Advances) BY <2>1, Parts, FS_Subset
  <2>3. \A p \in Advances : RowFits(p) /\ Advance(p) BY <2>1, Parts DEF Table, Advances, Advance
  <2>4. \A p, q \in payments : p.id = q.id => p = q BY Parts DEF Table
  <2> QED BY <1>6, <2>1, <2>2, <2>3, <2>4 DEF PoolFits, RowFits, Advance
<1>8. CallFits(req'[r], payments, clock) BY <1>2, <1>4, <1>6, <1>7 DEF CallFits
<1>9. Has(req'[r]) \subseteq Has(req[r]) BY <1>2, <1>6 DEF Has
<1>10. Advances \subseteq payments BY DEF Advances
<1> QED BY <1>1, <1>2, <1>5, <1>6, <1>8, <1>9, <1>10, BookMoves

LEMMA DieBooks == ASSUME Book, NEW r \in Requests, Die(r) PROVE Book'
<1>1. Inv' BY Parts, DieKeeps
<1>2. req' = [req EXCEPT ![r] = Idle] /\ UNCHANGED <<invoice, payments, clock, raced>> BY DEF Die
<1>3. req'[r] = Idle /\ \A q \in Requests \ {r} : req'[q] = req[q] BY <1>2, Kept DEF Book
<1>4. Has(req'[r]) = {} /\ req'[r].pc # "apply" /\ CallFits(req'[r], payments, clock)
  BY <1>3, IdleHasNone
<1> QED BY <1>1, <1>2, <1>3, <1>4, BookMoves

LEMMA RowIs ==
    ASSUME NEW kind, NEW corr, NEW amount, NEW via, NEW capture, NEW i, NEW k, NEW p,
           p = Row(kind, corr, amount, via, capture, i, k)
    PROVE  /\ p.kind = kind /\ p.corr = corr /\ p.amount = amount /\ p.via = via /\ p.capture = capture
           /\ p.id = <<clock + 1, i, k>> /\ p.id[1] = clock + 1 /\ p.id[2] = i /\ p.id[3] = k
BY DEF Row

LEMMA AdjustBooks == ASSUME Book, NEW r \in Requests, Adjust(r) PROVE Book'
<1>0. PICK i : i = req[r].inv OBVIOUS
<1> DEFINE row == Cancelled(invoice[i], req[r].read[i], req[r].amount)
<1>1. PICK new : new = RefundRow(r) OBVIOUS
<1>2. Inv' BY Parts, AdjustKeeps
<1>3. /\ invoice' = [invoice EXCEPT ![i] = row] /\ payments' = payments \cup new
      /\ req' = [req EXCEPT ![r].pc = "markCancelled"] /\ clock' = clock + 1 /\ raced' = raced
      /\ req[r].pc = "adjust"
  BY <1>0, <1>1 DEF Adjust
<1>4. /\ req[r] \in Request /\ CallFits(req[r], payments, clock) /\ req \in [Requests -> Request]
      /\ clock \in Nat
  BY Parts, Kept
<1>5. Only(req[r]) /\ req[r].read[i].live /\ (req[r].refundRef => req[r].amount < Price)
  BY <1>0, <1>3, <1>4 DEF CallFits
<1>6. i \in Invoices /\ i \in Has(req[r]) /\ Present(i)
  <2>1. i \in Invoices /\ i \in Has(req[r]) BY <1>0, <1>5, HasIs DEF Only
  <2> QED BY <2>1, Parts DEF Fresh
<1>7. row.status # "NONE"
  <2>1. invoice[i] \in Invoice BY <1>6, Kept DEF Book
  <2> QED BY <1>6, <2>1 DEF Cancelled, Present, Invoice
<1>8. /\ req'[r] = [req[r] EXCEPT !.pc = "markCancelled"]
      /\ \A q \in Requests \ {r} : req'[q] = req[q]
  BY <1>3, <1>4
<1>9. req'[r].pc = "markCancelled" /\ req'[r].read = req[r].read /\ req'[r].inv = i
  BY <1>0, <1>4, <1>8 DEF Request
<1>10. CallFits(req'[r], payments', clock') BY <1>0, <1>5, <1>9 DEF CallFits, Only
<1>11. Has(req'[r]) \subseteq Has(req[r]) BY <1>0, <1>9 DEF Has
<1>12. ASSUME NEW p \in new
       PROVE  /\ p = Row("REFUND", i, Price - req[r].amount, "GATEWAY", 0, i, 0)
              /\ p.amount > 0 /\ p.id[1] = clock + 1 /\ p.via = "GATEWAY" /\ p.corr = i
  <2>1. p = Row("REFUND", i, Price - req[r].amount, "GATEWAY", 0, i, 0) /\ req[r].refundRef
    BY <1>0, <1>1, <1>12 DEF RefundRow
  <2>2. Price - req[r].amount > 0 BY <1>4, <1>5, <2>1, LedgerAssumption DEF Request
  <2> QED BY <2>1, <2>2, RowIs
<1> HIDE DEF row
<1>13. invoice'[i] = row /\ \A j \in Invoices \ {i} : invoice'[j] = invoice[j]
  BY <1>3, <1>6, Kept DEF Book
<1>14. Writes(r) BY <1>6, <1>7, <1>13 DEF Writes
<1>15. clock <= clock' /\ clock' \in Nat /\ \A p \in new : p.id[1] > clock BY <1>3, <1>4, <1>12
<1>16. Table'
  <2>1. \A p \in new : RowFits(p)'
    <3> TAKE p \in new
    <3>1. Present(i)' BY <1>7, <1>13 DEF Present
    <3>2. p.amount > 0 /\ p.id[1] = clock + 1 /\ p.via = "GATEWAY" /\ p.corr = i BY <1>12
    <3> QED BY <1>3, <1>4, <1>6, <3>1, <3>2 DEF RowFits, Advance
  <2>2. \A p, q \in new : p = q BY <1>12
  <2>3. IsFiniteSet(new)
    <3>1. new = {} \/ \E p : new = {p} BY <2>2
    <3> QED BY <3>1, FS_EmptySet, FS_Singleton
  <2> QED BY <1>2, <1>3, <1>14, <1>15, <2>1, <2>2, <2>3, WritesKeep, TableStays
<1>17. \A q \in Requests : CallFits(req'[q], payments', clock')
  <2>1. \A q \in Requests : req'[q] = req[q] \/ CallFits(req'[q], payments', clock') BY <1>8, <1>10
  <2> QED BY <1>3, <1>15, <2>1, CallsStayFit
<1>18. Fresh' /\ Exclusive' BY <1>3, <1>8, <1>9, <1>11, <1>14, WritesKeep, FreshStays
<1> QED BY <1>2, <1>16, <1>17, <1>18, BookGoal

LEMMA MarkCancelledBooks == ASSUME Book, NEW r \in Requests, MarkCancelled(r) PROVE Book'
<1> DEFINE i == req[r].inv
<1>1. Inv' BY Parts, MarkCancelledKeeps
<1>2. /\ invoice' = [invoice EXCEPT ![i].live = FALSE] /\ req' = [req EXCEPT ![r] = Idle]
      /\ UNCHANGED <<payments, clock, raced>> /\ req[r].pc = "markCancelled"
  BY DEF MarkCancelled
<1>3. CallFits(req[r], payments, clock) BY Parts
<1>4. i \in Invoices /\ i \in Has(req[r]) BY <1>2, <1>3, HasIs DEF Only, CallFits
<1>5. Present(i) BY <1>4, Parts DEF Fresh
<1> HIDE DEF i
<1>6. /\ invoice'[i].status = invoice[i].status
      /\ \A j \in Invoices \ {i} : invoice'[j] = invoice[j]
  BY <1>2, <1>4, Kept DEF Book, Invoice
<1>7. Writes(r) BY <1>4, <1>5, <1>6 DEF Writes, Present
<1>8. Table'
  <2>1. payments' = payments \cup {} /\ IsFiniteSet({}) /\ clock <= clock'
    BY <1>2, FS_EmptySet, Parts
  <2> QED BY <1>1, <1>7, <2>1, WritesKeep, TableStays
<1>9. req'[r] = Idle /\ \A q \in Requests \ {r} : req'[q] = req[q] BY <1>2, Kept DEF Book
<1>10. \A q \in Requests : CallFits(req'[q], payments', clock') BY <1>2, <1>9, Parts, IdleHasNone
<1>11. Has(req'[r]) = {} /\ req'[r].pc # "apply" BY <1>9, IdleHasNone
<1>12. Fresh' /\ Exclusive' BY <1>2, <1>7, <1>9, <1>11, WritesKeep, FreshStays
<1> QED BY <1>1, <1>8, <1>10, <1>12, BookGoal

\* What all invoices together are paid down by.
LEMMA PayDownAllWrites ==
    ASSUME Book, NEW r \in Requests, NEW got \in [Needy(r) -> 0 .. Price], PayDownAll(r, got)
    PROVE  /\ Writes(r)
           /\ \A i \in Needy(r) : got[i] > 0 => Present(i)'
           /\ Needy(r) \subseteq Invoices /\ IsFiniteSet(Needy(r)) /\ 0 \notin Needy(r)
           /\ \A i \in Needy(r) : i \in Has(req[r])
<1>1. Needy(r) \subseteq Invoices BY DEF Needy, Read
<1>2. \A i \in Needy(r) : i \in Has(req[r])
  BY HasIs DEF Needy, Read
<1>3. ASSUME NEW i \in Needy(r), got[i] > 0 PROVE invoice'[i].status # "NONE"
  <2>1. invoice'[i] = PaidDown(invoice[i], req[r].read[i], got[i]) BY <1>1, <1>3 DEF PayDownAll
  <2>2. invoice[i] \in Invoice BY <1>1, Kept DEF Book
  <2> QED BY <2>1, <2>2 DEF PaidDown, Invoice
<1>4. \A i \in Invoices : ~(i \in Needy(r) /\ got[i] > 0) => invoice'[i] = invoice[i]
  BY DEF PayDownAll
<1>5. Writes(r) BY <1>2, <1>3, <1>4 DEF Writes
<1>6. IsFiniteSet(Needy(r)) BY <1>1, InvoicesFinite, FS_Subset
<1>7. 0 \notin Invoices BY LedgerAssumption DEF Invoices
<1> QED BY <1>1, <1>2, <1>3, <1>5, <1>6, <1>7 DEF Present

LEMMA RecordOfflineBooks == ASSUME Book, NEW r \in Requests, RecordOffline(r) PROVE Book'
<1> DEFINE fund == [k \in {0} |-> req[r].amount]
           S(got) == {j \in Needy(r) : got[j] > 0}
           paid(got) == [i \in S(got) |-> Row("IN", i, got[i], "OFFLINE", 0, i, 0)]
<1>1. PICK take, got, rest :
        /\ got \in Applied(take, Needy(r), {0}) /\ rest \in Unspent(take, Needy(r), fund)
        /\ PayDownAll(r, got)
        /\ payments' = payments \cup Remainder(rest[0]) \cup
              {Row("IN", i, got[i], "OFFLINE", 0, i, 0) : i \in S(got)}
  BY DEF RecordOffline
<1>2. PICK new : new = Remainder(rest[0]) \cup {Row("IN", i, got[i], "OFFLINE", 0, i, 0) : i \in S(got)}
  OBVIOUS
<1>3. Inv' BY Parts, RecordOfflineKeeps
<1>4. Commit(r) BY DEF RecordOffline
<1>5. got \in [Needy(r) -> 0 .. Price] BY <1>1, AppliedTyped
<1>6. rest[0] \in Nat
  <2>1. rest \in [DOMAIN fund -> 0 .. MaxCash] BY <1>1, UnspentTyped
  <2> QED BY <2>1, LedgerAssumption
<1>7. payments' = payments \cup new BY <1>1, <1>2
<1>8. clock' = clock + 1 /\ clock \in Nat /\ NumInvoices \in Nat
  BY <1>4, Parts, LedgerAssumption DEF Commit
<1>9. Writes(r) BY <1>1, <1>5, PayDownAllWrites
<1>10. ASSUME NEW p \in new
       PROVE  \/ /\ p.id = <<clock + 1, 0, 0>> /\ p.amount > 0 /\ p.via = "ADVANCE" /\ p.kind = "IN"
                 /\ p.corr = NumInvoices + clock + 1 /\ p \in Remainder(rest[0])
              \/ \E i \in S(got) : /\ p = Row("IN", i, got[i], "OFFLINE", 0, i, 0)
                                   /\ p.id = <<clock + 1, i, 0>> /\ p.amount > 0 /\ p.via = "OFFLINE"
                                   /\ p.corr = i
  <2>1. CASE p \in Remainder(rest[0])
    <3>1. p = Row("IN", NumInvoices + clock + 1, rest[0], "ADVANCE", 0, 0, 0) /\ rest[0] > 0
      BY <2>1 DEF Remainder
    <3> QED BY <2>1, <3>1, RowIs
  <2>2. CASE p \in {Row("IN", i, got[i], "OFFLINE", 0, i, 0) : i \in S(got)}
    <3>1. PICK i \in S(got) : p = Row("IN", i, got[i], "OFFLINE", 0, i, 0) BY <2>2
    <3>2. got[i] > 0 BY <3>1
    <3> QED BY <3>1, <3>2, RowIs
  <2> QED BY <1>2, <1>10, <2>1, <2>2
<1>11. \A p \in new : RowFits(p)' /\ p.id[1] = clock + 1
  <2> TAKE p \in new
  <2>1. CASE /\ p.id = <<clock + 1, 0, 0>> /\ p.amount > 0 /\ p.via = "ADVANCE"
             /\ p.corr = NumInvoices + clock + 1
    BY <1>8, <2>1 DEF RowFits, Advance
  <2>2. ASSUME NEW i \in S(got), p.id = <<clock + 1, i, 0>>, p.amount > 0, p.via = "OFFLINE", p.corr = i
        PROVE  RowFits(p)' /\ p.id[1] = clock + 1
    <3>1. i \in Invoices /\ Present(i)' BY <1>1, <1>5, <2>2, PayDownAllWrites
    <3> QED BY <1>8, <2>2, <3>1 DEF RowFits, Advance
  <2> QED BY <1>10, <2>1, <2>2
<1>12. \A p, q \in new : p.id = q.id => p = q
  <2> SUFFICES ASSUME NEW p \in new, NEW q \in new, p.id = q.id PROVE p = q OBVIOUS
  <2>1. \A i \in S(got) : i # 0 BY <1>1, <1>5, PayDownAllWrites
  <2>2. \A a, b \in Remainder(rest[0]) : a = b BY DEF Remainder
  <2> HIDE DEF S
  <2>3. p.id[2] = q.id[2] OBVIOUS
  <2>4. CASE p.id[2] = 0
    <3>1. p \in Remainder(rest[0]) BY <1>10, <2>1, <2>4
    <3>2. q \in Remainder(rest[0]) BY <1>10, <2>1, <2>3, <2>4
    <3> QED BY <2>2, <3>1, <3>2
  <2>5. CASE p.id[2] # 0
    <3>1. PICK i \in S(got) : p = Row("IN", i, got[i], "OFFLINE", 0, i, 0) /\ p.id = <<clock + 1, i, 0>>
      BY <1>10, <2>5
    <3>2. PICK j \in S(got) : q = Row("IN", j, got[j], "OFFLINE", 0, j, 0) /\ q.id = <<clock + 1, j, 0>>
      BY <1>10, <2>3, <2>5
    <3>3. i = j BY <2>3, <3>1, <3>2
    <3> QED BY <3>1, <3>2, <3>3
  <2> QED BY <2>4, <2>5
<1>13. IsFiniteSet(new)
  <2>1. IsFiniteSet(Remainder(rest[0])) BY FS_EmptySet, FS_Singleton DEF Remainder
  <2>2. IsFiniteSet(S(got)) BY <1>1, <1>5, PayDownAllWrites, FS_Subset
  <2>3. DOMAIN paid(got) = S(got) OBVIOUS
  <2>4. {Row("IN", i, got[i], "OFFLINE", 0, i, 0) : i \in S(got)} = {paid(got)[i] : i \in S(got)}
    OBVIOUS
  <2> HIDE DEF S, paid
  <2>5. IsFiniteSet({paid(got)[i] : i \in S(got)}) BY <2>2, <2>3, FiniteImage
  <2> QED BY <1>2, <2>1, <2>4, <2>5, FS_Union
<1> QED BY <1>3, <1>4, <1>7, <1>9, <1>11, <1>12, <1>13, BookRecords

LEMMA RecordChargebackBooks == ASSUME Book, NEW r \in Requests, RecordChargeback(r) PROVE Book'
<1> DEFINE i == req[r].inv
<1>1. Inv' BY Parts, RecordChargebackKeeps
<1>2. CallFits(req[r], payments, clock) /\ req[r].pc = "chargeback" /\ clock \in Nat
  BY Parts DEF RecordChargeback
<1>3. PICK p \in Payment : Disputes(req[r], p) BY <1>2 DEF CallFits
<1>4. PICK new : new = Row("CHARGEBACK", p.corr, p.amount, p.via, p.capture, 0, 0) OBVIOUS
<1>5. /\ payments' = payments \cup {new} /\ Commit(r)
      /\ invoice' = IF i = 0 THEN invoice
                    ELSE [invoice EXCEPT ![i] = Reopened(invoice[i], req[r].read[i], p.amount)]
  BY <1>3, <1>4 DEF RecordChargeback, Disputes
<1>6. /\ new.kind = "CHARGEBACK" /\ new.corr = p.corr /\ new.amount = p.amount /\ new.via = p.via
      /\ new.id[1] = clock + 1
  BY <1>4, RowIs
<1>7. clock' = clock + 1 BY <1>5 DEF Commit
<1>8. i # 0 => i \in Invoices /\ i \in Has(req[r]) /\ p.corr = i /\ p.via # "ADVANCE"
  BY <1>3, HasIs DEF Disputes, Only
<1>9. i # 0 => Reopened(invoice[i], req[r].read[i], p.amount).status # "NONE"
  <2> SUFFICES ASSUME i # 0 PROVE Reopened(invoice[i], req[r].read[i], p.amount).status # "NONE"
    OBVIOUS
  <2>1. invoice[i] \in Invoice BY <1>8, Kept DEF Book
  <2> QED BY <2>1 DEF Reopened, Invoice
<1> HIDE DEF i
<1>10. Writes(r)
  <2> SUFFICES ASSUME NEW j \in Invoices
               PROVE  invoice'[j] = invoice[j] \/ (j \in Has(req[r]) /\ invoice'[j].status # "NONE")
    BY DEF Writes
  <2>1. CASE i = 0 BY <1>5, <2>1
  <2>2. CASE i # 0
    <3> DEFINE row == Reopened(invoice[i], req[r].read[i], p.amount)
    <3>1. invoice' = [invoice EXCEPT ![i] = row] /\ row.status # "NONE" BY <1>5, <1>9, <2>2
    <3> HIDE DEF row
    <3>2. CASE j = i BY <1>8, <2>2, <3>1, <3>2, Kept DEF Book
    <3>3. CASE j # i BY <3>1, <3>3, Kept DEF Book
    <3> QED BY <3>2, <3>3
  <2> QED BY <2>1, <2>2
<1>11. RowFits(new)'
  <2>1. ASSUME p.via # "ADVANCE" PROVE p.corr \in Invoices /\ Present(p.corr)'
    <3>1. p.corr \in Invoices /\ p.corr \in Has(req[r]) BY <1>3, <2>1, HasIs DEF Disputes, Only
    <3>2. Present(p.corr) BY <3>1, Parts DEF Fresh
    <3> QED BY <1>10, <3>1, <3>2, WritesKeep
  <2>2. p.amount > 0 /\ (p.via = "ADVANCE" => p.corr > NumInvoices) BY <1>3 DEF Disputes
  <2> QED BY <1>2, <1>6, <1>7, <2>1, <2>2 DEF RowFits, Advance
<1>12. IsFiniteSet({new}) BY FS_Singleton
<1> QED BY <1>1, <1>5, <1>6, <1>10, <1>11, <1>12, BookRecords

-----------------------------------------------------------------------------
(* applyAgencyAdvance, piece by piece: B are the invoices it pays down, and  *)
(* pool the advances that it read.                                          *)

FundOf(pool) == [k \in {p.id[1] : p \in pool} |-> (CHOOSE p \in pool : p.id[1] = k).amount]
Takers(B, take, k) == {i \in B : take[i][k] > 0}
Shares(B, take, k) == [i \in B |-> take[i][k]]
Moved(pool, B, take, rest, q) ==
    IF \E p \in pool : p.id = q.id
    THEN LET p == CHOOSE p \in pool : p.id = q.id
         IN  Relinked(q, p, Takers(B, take, p.id[1]), Shares(B, take, p.id[1]), rest[p.id[1]])
    ELSE {q}
Splits(B, take, rest, k) ==
    IF rest[k] > 0 THEN Takers(B, take, k) ELSE Takers(B, take, k) \ Last(Takers(B, take, k))
Slice(take, k, i) == Row("IN", i, take[i][k], "APPLIED", 0, i, k)
Slices(B, take, rest, k) == {Slice(take, k, i) : i \in Splits(B, take, rest, k)}

\* What an advance was applied to, and what that left, in one formula.
Applies(r, take, got, rest) ==
    LET pool == req[r].pool
        B == Needy(r)
    IN  /\ take \in FifoTakes(NeedOf(r), FundOf(pool))
        /\ got \in Applied(take, B, DOMAIN FundOf(pool))
        /\ rest \in Unspent(take, B, FundOf(pool))
        /\ PayDownAll(r, got)
        /\ payments' = (UNION {Moved(pool, B, take, rest, q) : q \in payments})
                       \cup (UNION {Slices(B, take, rest, k) : k \in DOMAIN FundOf(pool)})

LEMMA ApplyDoes ==
    ASSUME NEW r \in Requests, ApplyAdvance(r)
    PROVE  \E take, got, rest : Applies(r, take, got, rest)
<1> DEFINE pool == req[r].pool
           fund == FundOf(pool)
           B == Needy(r)
           Share(take, k) == [i \in B |-> take[i][k]]
           Taking(take, k) == {i \in B : Share(take, k)[i] > 0}
           Gone(take, rest, q) ==
               IF \E p \in pool : p.id = q.id
               THEN LET p == CHOOSE p \in pool : p.id = q.id
                        k == p.id[1]
                    IN  Relinked(q, p, Taking(take, k), Share(take, k), rest[k])
               ELSE {q}
           Split(take, rest, k) ==
               IF rest[k] > 0 THEN Taking(take, k) ELSE Taking(take, k) \ Last(Taking(take, k))
           Cuts(take, rest, k) ==
               {Row("IN", i, Share(take, k)[i], "APPLIED", 0, i, k) : i \in Split(take, rest, k)}
<1>1. PICK take \in FifoTakes(NeedOf(r), fund) :
        \E got \in Applied(take, B, DOMAIN fund), rest \in Unspent(take, B, fund) :
            /\ PayDownAll(r, got)
            /\ payments' = (UNION {Gone(take, rest, q) : q \in payments})
                           \cup (UNION {Cuts(take, rest, k) : k \in DOMAIN fund})
  BY DEF ApplyAdvance, FundOf
<1>2. PICK got \in Applied(take, B, DOMAIN fund), rest \in Unspent(take, B, fund) :
            /\ PayDownAll(r, got)
            /\ payments' = (UNION {Gone(take, rest, q) : q \in payments})
                           \cup (UNION {Cuts(take, rest, k) : k \in DOMAIN fund})
  BY <1>1
<1>3. \A k : Taking(take, k) = Takers(B, take, k) BY DEF Takers
<1>4. \A k : Share(take, k) = Shares(B, take, k) BY DEF Shares
<1>5. ASSUME NEW q PROVE Gone(take, rest, q) = Moved(pool, B, take, rest, q)
  <2> HIDE DEF Taking, Share, pool, B
  <2> QED BY <1>3, <1>4 DEF Moved
<1>6. ASSUME NEW k PROVE Cuts(take, rest, k) = Slices(B, take, rest, k)
  <2>1. Split(take, rest, k) = Splits(B, take, rest, k)
    <3> HIDE DEF Taking, B
    <3> QED BY <1>3 DEF Splits
  <2>2. \A i \in Split(take, rest, k) : i \in B OBVIOUS
  <2>3. \A i \in B : Share(take, k)[i] = take[i][k] OBVIOUS
  <2> HIDE DEF Split, Share, B
  <2> QED BY <2>1, <2>2, <2>3 DEF Slices, Slice
<1>7. payments' = (UNION {Moved(pool, B, take, rest, q) : q \in payments})
                  \cup (UNION {Slices(B, take, rest, k) : k \in DOMAIN fund})
  <2> HIDE DEF Gone, Cuts, pool, B, fund
  <2> QED BY <1>2, <1>5, <1>6
<1> HIDE DEF Gone, Cuts
<1>8. Applies(r, take, got, rest) BY <1>1, <1>2, <1>7 DEF Applies
<1> QED BY <1>8

\* There is one last.
LEMMA LastIs ==
    ASSUME NEW S \in SUBSET Invoices
    PROVE  Last(S) \subseteq S /\ \A i, j \in Last(S) : i = j
BY LedgerAssumption DEF Last, Invoices

Relink(q, p, i, x) ==
    [q EXCEPT !.corr = i, !.via = "APPLIED", !.amount = IF x = p.amount THEN q.amount ELSE x]

Shrunk(q, x) == [q EXCEPT !.amount = x]

\* What becomes of a payment q that is an advance p of the pool, or was one.
LEMMA RelinkedIs ==
    ASSUME NEW q, NEW p, NEW S \in SUBSET Invoices, NEW share, NEW rest,
           NEW x \in Relinked(q, p, S, share, rest)
    PROVE  \/ S = {} /\ x = q
           \/ S # {} /\ rest > 0 /\ x = Shrunk(q, rest)
           \/ /\ S # {} /\ ~(rest > 0)
              /\ \E i \in Last(S) : x = Relink(q, p, i, share[i])
BY DEF Relinked, Relink, Shrunk

LEMMA RelinkedOnce ==
    ASSUME NEW q, NEW p, NEW S \in SUBSET Invoices, NEW share, NEW rest,
           NEW x \in Relinked(q, p, S, share, rest), NEW y \in Relinked(q, p, S, share, rest)
    PROVE  x = y
<1>1. \A i, j \in Last(S) : i = j BY LastIs
<1>2. CASE S = {} BY <1>2, RelinkedIs
<1>3. CASE S # {} /\ rest > 0 BY <1>3, RelinkedIs
<1>4. CASE S # {} /\ ~(rest > 0)
  <2> DEFINE to(i) == Relink(q, p, i, share[i])
  <2>0. Relinked(q, p, S, share, rest) = {to(i) : i \in Last(S)} BY <1>4 DEF Relinked, Relink
  <2> HIDE DEF to
  <2>1. PICK i \in Last(S) : x = to(i) BY <2>0
  <2>2. PICK j \in Last(S) : y = to(j) BY <2>0
  <2> QED BY <1>1, <2>1, <2>2
<1> QED BY <1>2, <1>3, <1>4

LEMMA FiniteUnion ==
    ASSUME NEW T, IsFiniteSet(T), NEW g, DOMAIN g = T, \A x \in T : IsFiniteSet(g[x])
    PROVE  IsFiniteSet(UNION {g[x] : x \in T})
<1>1. IsFiniteSet({g[x] : x \in T}) BY FiniteImage
<1>2. \A S \in {g[x] : x \in T} : IsFiniteSet(S) OBVIOUS
<1> QED BY <1>1, <1>2, FS_UNION

LEMMA MovedIs ==
    ASSUME NEW pool, NEW B \in SUBSET Invoices, NEW take, NEW rest, NEW q,
           NEW x \in Moved(pool, B, take, rest, q)
    PROVE  \/ x = q
           \/ \E p \in pool : p.id = q.id /\ rest[p.id[1]] > 0 /\ x = Shrunk(q, rest[p.id[1]])
           \/ \E p \in pool : /\ p.id = q.id /\ ~(rest[p.id[1]] > 0)
                              /\ \E i \in Last(Takers(B, take, p.id[1])) :
                                    x = Relink(q, p, i, take[i][p.id[1]])
<1>1. CASE ~\E p \in pool : p.id = q.id BY <1>1 DEF Moved
<1>2. CASE \E p \in pool : p.id = q.id
  <2> DEFINE p == CHOOSE p \in pool : p.id = q.id
             S == Takers(B, take, p.id[1])
             share == Shares(B, take, p.id[1])
  <2>1. p \in pool /\ p.id = q.id BY <1>2
  <2>2. x \in Relinked(q, p, S, share, rest[p.id[1]]) BY <1>2 DEF Moved
  <2>3. S \in SUBSET Invoices /\ S \subseteq B BY DEF Takers
  <2>4. \A i \in B : share[i] = take[i][p.id[1]] BY DEF Shares
  <2>5. Last(S) \subseteq S BY DEF Last
  <2> HIDE DEF p, S, share
  <2>6. \/ x = q
        \/ rest[p.id[1]] > 0 /\ x = Shrunk(q, rest[p.id[1]])
        \/ ~(rest[p.id[1]] > 0) /\ \E i \in Last(S) : x = Relink(q, p, i, share[i])
    BY ONLY <2>2, <2>3, RelinkedIs
  <2>7. \A i \in Last(S) : share[i] = take[i][p.id[1]] BY <2>3, <2>4, <2>5
  <2>8. S = Takers(B, take, p.id[1]) BY DEF S
  <2>9. ASSUME NEW i \in Last(S), x = Relink(q, p, i, share[i]), ~(rest[p.id[1]] > 0)
        PROVE  \E c \in pool : /\ c.id = q.id /\ ~(rest[c.id[1]] > 0)
                               /\ \E j \in Last(Takers(B, take, c.id[1])) :
                                     x = Relink(q, c, j, take[j][c.id[1]])
    BY <2>1, <2>7, <2>8, <2>9
  <2> QED BY <2>1, <2>6, <2>9
<1> QED BY <1>1, <1>2

\* An advance stays in one row.
LEMMA MovedOnce ==
    ASSUME NEW pool, NEW B \in SUBSET Invoices, NEW take, NEW rest, NEW q,
           NEW x \in Moved(pool, B, take, rest, q), NEW y \in Moved(pool, B, take, rest, q)
    PROVE  x = y
<1>1. CASE ~\E p \in pool : p.id = q.id BY <1>1 DEF Moved
<1>2. CASE \E p \in pool : p.id = q.id
  <2> DEFINE p == CHOOSE p \in pool : p.id = q.id
             S == Takers(B, take, p.id[1])
             share == Shares(B, take, p.id[1])
  <2>1. x \in Relinked(q, p, S, share, rest[p.id[1]]) /\ y \in Relinked(q, p, S, share, rest[p.id[1]])
    BY <1>2 DEF Moved
  <2>2. S \in SUBSET Invoices BY DEF Takers
  <2> HIDE DEF p, S, share
  <2> QED BY ONLY <2>1, <2>2, RelinkedOnce
<1> QED BY <1>1, <1>2

LEMMA RelinkFields ==
    ASSUME NEW q \in Payment, NEW p, NEW i, NEW x
    PROVE  /\ Relink(q, p, i, x).id = q.id /\ Relink(q, p, i, x).kind = q.kind
           /\ Relink(q, p, i, x).corr = i /\ Relink(q, p, i, x).via = "APPLIED"
           /\ Relink(q, p, i, x).amount \in {q.amount, x}
           /\ (x = p.amount /\ p = q) => Relink(q, p, i, x).amount = x
           /\ x # p.amount => Relink(q, p, i, x).amount = x
           /\ Relink(q, p, i, x).capture = q.capture
BY DEF Relink, Payment

LEMMA RestFields ==
    ASSUME NEW q \in Payment, NEW x
    PROVE  /\ Shrunk(q, x).id = q.id /\ Shrunk(q, x).kind = q.kind
           /\ Shrunk(q, x).corr = q.corr /\ Shrunk(q, x).via = q.via
           /\ Shrunk(q, x).amount = x /\ Shrunk(q, x).capture = q.capture
BY DEF Shrunk, Payment

\* The advances that it read, and their funds K.
LEMMA PoolTyped ==
    ASSUME Book, NEW r \in Requests, req[r].pc = "apply", NEW K, K = DOMAIN FundOf(req[r].pool)
    PROVE  /\ PoolFits(req[r], payments, clock) /\ req[r].pool \subseteq Payment
           /\ \A p \in req[r].pool : p.id[1] \in K
           /\ \A k \in K : k \in Nat /\ \E p \in req[r].pool : p.id[1] = k
           /\ IsFiniteSet(K)
<1> DEFINE pool == req[r].pool
           g == [p \in pool |-> p.id[1]]
<1>1. req[r] \in Request /\ CallFits(req[r], payments, clock) BY Parts
<1>2. PoolFits(req[r], payments, clock) /\ pool \subseteq Payment BY <1>1 DEF CallFits, Request
<1>3. IsFiniteSet(pool) BY <1>2 DEF PoolFits
<1>4. K = {p.id[1] : p \in pool} BY DEF FundOf
<1>5. K \subseteq Nat BY <1>2, <1>4 DEF Payment
<1>6. IsFiniteSet(K)
  <2>1. K = {g[p] : p \in pool} /\ DOMAIN g = pool BY <1>4
  <2> HIDE DEF g, pool
  <2> QED BY <1>3, <2>1, FiniteImage
<1> QED BY <1>2, <1>4, <1>5, <1>6

\* The types of an application, and who gets something.
LEMMA AppliesTyped ==
    ASSUME Book, NEW r \in Requests, req[r].pc = "apply", NEW take, NEW got, NEW rest,
           Applies(r, take, got, rest), NEW K, K = DOMAIN FundOf(req[r].pool)
    PROVE  /\ IsFiniteSet(Needy(r)) /\ Needy(r) \subseteq Invoices
           /\ take \in [Needy(r) -> [K -> 0 .. Price]]
           /\ got \in [Needy(r) -> 0 .. Price] /\ rest \in [K -> 0 .. MaxCash]
           /\ \A i \in Needy(r), k \in K : take[i][k] \in Nat
           /\ \A k \in K : rest[k] \in Nat
           /\ \A i \in Needy(r), k \in K : take[i][k] > 0 => got[i] > 0 /\ Present(i)'
<1> DEFINE pool == req[r].pool
           B == Needy(r)
<1>6. IsFiniteSet(K) BY PoolTyped
<1>7. /\ take \in FifoTakes(NeedOf(r), FundOf(pool)) /\ got \in Applied(take, B, K)
      /\ rest \in Unspent(take, B, FundOf(pool)) /\ PayDownAll(r, got)
  BY DEF Applies
<1>8. got \in [B -> 0 .. Price] BY <1>7, AppliedTyped
<1>9. rest \in [K -> 0 .. MaxCash] BY <1>7, UnspentTyped
<1>10. take \in [B -> [K -> 0 .. Price]]
  <2>1. DOMAIN NeedOf(r) = B BY DEF NeedOf
  <2> QED BY <1>7, <2>1, TakesTyped
<1>11. B \subseteq Invoices /\ IsFiniteSet(B) /\ \A i \in B : got[i] > 0 => Present(i)'
  BY <1>7, <1>8, PayDownAllWrites
<1> HIDE DEF B, pool
<1>12. (\A i \in B, k \in K : take[i][k] \in Nat) /\ \A k \in K : rest[k] \in Nat
  BY <1>9, <1>10, LedgerAssumption
<1>13. ASSUME NEW i \in B, NEW k \in K, take[i][k] > 0 PROVE got[i] > 0
  <2> DEFINE f == [l \in K |-> take[i][l]]
  <2>1. got[i] = SumOf(f) BY <1>7 DEF Applied
  <2>2. Summable(f) BY <1>6, <1>12 DEF Summable
  <2>3. f[k] > 0 /\ k \in DOMAIN f BY <1>13
  <2> HIDE DEF f
  <2> QED BY <2>1, <2>2, <2>3, SumPositive
<1> QED BY <1>8, <1>9, <1>10, <1>11, <1>12, <1>13 DEF B, pool

\* The rows after it, whether or not the advances are still what was read.
LEMMA AppliedRows ==
    ASSUME Book, NEW r \in Requests, req[r].pc = "apply", NEW take, NEW got, NEW rest,
           Applies(r, take, got, rest), NEW K, K = DOMAIN FundOf(req[r].pool), NEW x \in payments'
    PROVE  \/ \E q \in payments :
                 /\ x \in Moved(req[r].pool, Needy(r), take, rest, q)
                 /\ x.id = q.id
                 /\ \/ x = q
                    \/ /\ q.kind = "IN" /\ q.via \in {"ADVANCE", "APPLIED"}
                       /\ x.kind = "IN" /\ x.via \in {"ADVANCE", "APPLIED"} /\ x.amount > 0
                       /\ \/ x.via = q.via /\ x.corr = q.corr
                          \/ x.via = "APPLIED" /\ x.corr \in Needy(r) /\ Present(x.corr)'
           \/ \E k \in K, i \in Needy(r) :
                 /\ x = Slice(take, k, i) /\ x.id = <<clock + 1, i, k>>
                 /\ x.kind = "IN" /\ x.via = "APPLIED" /\ x.amount > 0 /\ x.corr = i /\ Present(i)'
<1> DEFINE pool == req[r].pool
           B == Needy(r)
<1>1. /\ B \subseteq Invoices
      /\ \A i \in B, k \in K : take[i][k] \in Nat
      /\ \A i \in B, k \in K : take[i][k] > 0 => got[i] > 0 /\ Present(i)'
      /\ PoolFits(req[r], payments, clock) /\ \A p \in pool : p.id[1] \in K
  <2> HIDE DEF B, pool
  <2> QED BY AppliesTyped, PoolTyped DEF B, pool
<1>2. CASE x \in UNION {Moved(pool, B, take, rest, q) : q \in payments}
  <2>1. PICK q \in payments : x \in Moved(pool, B, take, rest, q) BY <1>2
  <2>2. q \in Payment /\ RowFits(q) BY Parts DEF Table
  <2>3. q.amount > 0 BY <2>2 DEF RowFits
  <2>4. ASSUME NEW p \in pool, p.id = q.id
        PROVE  /\ q.kind = "IN" /\ q.via \in {"ADVANCE", "APPLIED"} /\ p.id[1] \in K
    BY <1>1, <2>4 DEF PoolFits
  <2>5. CASE x = q BY <2>1, <2>5
  <2>6. ASSUME NEW p \in pool, p.id = q.id, rest[p.id[1]] > 0, x = Shrunk(q, rest[p.id[1]])
        PROVE  /\ x.id = q.id /\ q.kind = "IN" /\ q.via \in {"ADVANCE", "APPLIED"} /\ x.kind = "IN"
               /\ x.via \in {"ADVANCE", "APPLIED"} /\ x.amount > 0 /\ x.via = q.via /\ x.corr = q.corr
    BY ONLY <2>2, <2>4, <2>6, RestFields
  <2>7. ASSUME NEW p \in pool, p.id = q.id, NEW i \in Last(Takers(B, take, p.id[1])),
               x = Relink(q, p, i, take[i][p.id[1]])
        PROVE  /\ x.id = q.id /\ q.kind = "IN" /\ q.via \in {"ADVANCE", "APPLIED"} /\ x.kind = "IN"
               /\ x.via = "APPLIED" /\ x.amount > 0 /\ x.corr \in B /\ Present(x.corr)'
    <3>1. i \in B /\ take[i][p.id[1]] > 0 BY DEF Last, Takers
    <3>2. p.id[1] \in K /\ q.kind = "IN" /\ q.via \in {"ADVANCE", "APPLIED"} BY <2>4, <2>7
    <3>3. Present(i)' BY <1>1, <3>1, <3>2
    <3>4. x.id = q.id /\ x.kind = q.kind /\ x.corr = i /\ x.via = "APPLIED"
          /\ x.amount \in {q.amount, take[i][p.id[1]]}
      BY ONLY <2>2, <2>7, RelinkFields
    <3> QED BY <2>3, <3>1, <3>2, <3>3, <3>4
  <2> HIDE DEF pool, B
  <2>8. \/ x = q
        \/ \E p \in pool : p.id = q.id /\ rest[p.id[1]] > 0 /\ x = Shrunk(q, rest[p.id[1]])
        \/ \E p \in pool : p.id = q.id /\ \E i \in Last(Takers(B, take, p.id[1])) :
                                             x = Relink(q, p, i, take[i][p.id[1]])
    BY <1>1, <2>1, MovedIs
  <2> QED BY <2>1, <2>5, <2>6, <2>7, <2>8 DEF pool, B
<1>3. CASE x \in UNION {Slices(B, take, rest, k) : k \in K}
  <2>1. PICK k \in K : x \in Slices(B, take, rest, k) BY <1>3
  <2>2. PICK i \in Takers(B, take, k) : x = Slice(take, k, i) BY <2>1 DEF Slices, Splits
  <2>3. i \in B /\ take[i][k] > 0 BY DEF Takers
  <2>4. x = Row("IN", i, take[i][k], "APPLIED", 0, i, k) BY <2>2 DEF Slice
  <2>5. /\ x.kind = "IN" /\ x.corr = i /\ x.amount = take[i][k] /\ x.via = "APPLIED"
        /\ x.id = <<clock + 1, i, k>>
    BY <2>4, RowIs
  <2> QED BY <1>1, <2>2, <2>3, <2>5
<1> QED BY <1>2, <1>3 DEF Applies

LEMMA AppliedFinite ==
    ASSUME Book, NEW r \in Requests, req[r].pc = "apply", NEW take, NEW got, NEW rest,
           Applies(r, take, got, rest)
    PROVE  IsFiniteSet(payments')
<1> DEFINE pool == req[r].pool
           B == Needy(r)
           K == DOMAIN FundOf(pool)
           m == [q \in payments |-> Moved(pool, B, take, rest, q)]
           s == [k \in K |-> Slices(B, take, rest, k)]
           cut(k) == [i \in Splits(B, take, rest, k) |-> Slice(take, k, i)]
<1>1. IsFiniteSet(K) /\ IsFiniteSet(B) /\ B \subseteq Invoices BY PoolTyped, AppliesTyped
<1>2. IsFiniteSet(payments) BY Parts
<1> HIDE DEF pool, B, K
<1>3. ASSUME NEW q \in payments PROVE IsFiniteSet(m[q])
  <2>1. \A x, y \in m[q] : x = y BY <1>1, MovedOnce
  <2> HIDE DEF m
  <2>2. m[q] = {} \/ \E x : m[q] = {x} BY ONLY <2>1
  <2> QED BY <2>2, FS_EmptySet, FS_Singleton
<1>4. ASSUME NEW k \in K PROVE IsFiniteSet(s[k])
  <2>1. Splits(B, take, rest, k) \subseteq B BY DEF Splits, Takers
  <2>2. IsFiniteSet(Splits(B, take, rest, k)) BY <1>1, <2>1, FS_Subset
  <2>3. s[k] = {cut(k)[i] : i \in Splits(B, take, rest, k)} BY DEF Slices
  <2>4. DOMAIN cut(k) = Splits(B, take, rest, k) OBVIOUS
  <2> HIDE DEF cut, s
  <2> QED BY <2>2, <2>3, <2>4, FiniteImage
<1>5. DOMAIN m = payments /\ DOMAIN s = K OBVIOUS
<1>6. payments' = (UNION {m[q] : q \in payments}) \cup (UNION {s[k] : k \in K})
  <2>1. payments' = (UNION {Moved(pool, B, take, rest, q) : q \in payments})
                    \cup (UNION {Slices(B, take, rest, k) : k \in K})
    BY DEF Applies, pool, B, K
  <2> QED BY <2>1
<1> HIDE DEF m, s
<1>7. IsFiniteSet(UNION {m[q] : q \in payments}) BY <1>2, <1>3, <1>5, FiniteUnion
<1>8. IsFiniteSet(UNION {s[k] : k \in K}) BY <1>1, <1>4, <1>5, FiniteUnion
<1> QED BY <1>6, <1>7, <1>8, FS_Union

LEMMA ApplyAdvanceBooks == ASSUME Book, NEW r \in Requests, ApplyAdvance(r) PROVE Book'
<1>1. Inv' BY Parts, ApplyAdvanceKeeps
<1>2. PICK take, got, rest : Applies(r, take, got, rest) BY ApplyDoes
<1>3. PICK K : K = DOMAIN FundOf(req[r].pool) OBVIOUS
<1>4. PICK B : B = Needy(r) OBVIOUS
<1>5. Commit(r) /\ req[r].pc = "apply" BY DEF ApplyAdvance
<1>6. PayDownAll(r, got) /\ got \in [B -> 0 .. Price] /\ B \subseteq Invoices
  BY <1>2, <1>3, <1>4, <1>5, AppliesTyped DEF Applies
<1>7. Writes(r) BY <1>4, <1>6, PayDownAllWrites
<1>8. /\ clock' = clock + 1 /\ raced' = raced /\ req' = [req EXCEPT ![r] = Idle] /\ clock \in Nat
      /\ clock' \in Nat /\ clock <= clock'
  BY <1>5, Parts DEF Commit
<1>9. req'[r] = Idle /\ \A q \in Requests \ {r} : req'[q] = req[q] BY <1>8, Kept DEF Book
<1>10. \A q \in payments : /\ q \in Payment /\ RowFits(q)
                           /\ q.id[1] \in Nat /\ q.id[1] <= clock /\ q.id[1] # clock + 1
  <2> TAKE q \in payments
  <2>1. q \in Payment /\ RowFits(q) BY Parts DEF Table
  <2>2. q.id[1] \in Nat /\ q.id[1] <= clock BY <2>1 DEF RowFits, Payment
  <2> QED BY <1>8, <2>1, <2>2
<1>11. ASSUME NEW x \in payments'
       PROVE  \/ \E q \in payments :
                    /\ x \in Moved(req[r].pool, B, take, rest, q) /\ x.id = q.id
                    /\ \/ x = q
                       \/ /\ q.kind = "IN" /\ q.via \in {"ADVANCE", "APPLIED"}
                          /\ x.kind = "IN" /\ x.via \in {"ADVANCE", "APPLIED"} /\ x.amount > 0
                          /\ \/ x.via = q.via /\ x.corr = q.corr
                             \/ x.via = "APPLIED" /\ x.corr \in B /\ Present(x.corr)'
              \/ \E k \in K, i \in B :
                    /\ x = Slice(take, k, i) /\ x.id = <<clock + 1, i, k>>
                    /\ x.kind = "IN" /\ x.via = "APPLIED" /\ x.amount > 0 /\ x.corr = i /\ Present(i)'
  BY <1>2, <1>3, <1>4, <1>5, <1>11, AppliedRows
<1>12. ASSUME NEW x \in payments' PROVE RowFits(x)'
  <2>1. ASSUME NEW q \in payments, x = q PROVE RowFits(x)'
    <3>1. RowFits(q) /\ q.id[1] <= clock' BY <1>8, <1>10
    <3>2. q.via # "ADVANCE" => Present(q.corr)' BY <1>7, <3>1, WritesKeep DEF RowFits
    <3> QED BY <2>1, <3>1, <3>2 DEF RowFits, Advance
  <2>2. ASSUME NEW q \in payments, x.id = q.id, q.kind = "IN", q.via \in {"ADVANCE", "APPLIED"},
               x.kind = "IN", x.amount > 0, x.via = q.via, x.corr = q.corr
        PROVE  RowFits(x)'
    <3>1. RowFits(q) /\ q.id[1] <= clock' BY <1>8, <1>10
    <3>2. q.via # "ADVANCE" => Present(q.corr)' BY <1>7, <3>1, WritesKeep DEF RowFits
    <3> QED BY <2>2, <3>1, <3>2 DEF RowFits, Advance
  <2>3. ASSUME NEW q \in payments, x.id = q.id, x.amount > 0, x.via = "APPLIED", x.corr \in B,
               Present(x.corr)'
        PROVE  RowFits(x)'
    <3>1. q.id[1] <= clock' BY <1>8, <1>10
    <3> QED BY <1>6, <2>3, <3>1 DEF RowFits, Advance
  <2>4. ASSUME NEW k \in K, NEW i \in B, x.id = <<clock + 1, i, k>>, x.via = "APPLIED", x.amount > 0,
               x.corr = i, Present(i)'
        PROVE  RowFits(x)'
    BY <1>6, <1>8, <2>4 DEF RowFits, Advance
  <2> QED BY <1>11, <2>1, <2>2, <2>3, <2>4
<1>13. ASSUME NEW x \in payments', NEW y \in payments', x.id = y.id PROVE x = y
  <2>1. CASE x.id[1] = clock + 1
    <3>1. PICK k \in K, i \in B : x = Slice(take, k, i) /\ x.id = <<clock + 1, i, k>>
      BY <1>10, <1>11, <2>1
    <3>2. PICK l \in K, j \in B : y = Slice(take, l, j) /\ y.id = <<clock + 1, j, l>>
      BY <1>10, <1>11, <1>13, <2>1
    <3>3. i = j /\ k = l BY ONLY <1>13, <3>1, <3>2
    <3> QED BY <3>1, <3>2, <3>3
  <2>2. CASE x.id[1] # clock + 1
    <3>1. PICK q \in payments : x \in Moved(req[r].pool, B, take, rest, q) /\ x.id = q.id
      BY <1>11, <2>2
    <3>2. PICK c \in payments : y \in Moved(req[r].pool, B, take, rest, c) /\ y.id = c.id
      BY <1>11, <1>13, <2>2
    <3>3. q = c BY <1>13, <3>1, <3>2, Parts DEF Table
    <3> QED BY <1>6, <3>1, <3>2, <3>3, MovedOnce
  <2> QED BY <2>1, <2>2
<1>14. Table'
  <2>1. IsFiniteSet(payments') BY <1>2, <1>5, AppliedFinite
  <2>2. \A i \in Invoices : Present(i)' \/ invoice'[i] = NoInvoice BY <1>7, WritesKeep, Parts DEF Table
  <2> QED BY <1>12, <1>13, <2>1, <2>2 DEF Table
<1>15. \A q \in Requests : CallFits(req'[q], payments', clock')
  <2>1. \A x \in payments' : \/ x \in payments \/ x.id[1] > clock
                             \/ x.kind = "IN" /\ x.via \in {"ADVANCE", "APPLIED"}
    BY <1>11
  <2>2. \A q \in Requests : req'[q] = req[q] \/ CallFits(req'[q], payments', clock')
    BY <1>9, IdleHasNone
  <2> QED BY <1>8, <2>1, <2>2, CallsStayFit
<1>16. Has(req'[r]) = {} /\ req'[r].pc # "apply" BY <1>9, IdleHasNone
<1>17. 0 \in Has(req[r]) BY <1>5, HasPool
<1>18. Fresh' /\ Exclusive' BY <1>7, <1>8, <1>9, <1>16, <1>17, WritesKeep, FreshStays
<1> QED BY <1>1, <1>14, <1>15, <1>18, BookGoal

LEMMA BookStays == Book /\ [Next]_vars => Book'
<1> SUFFICES ASSUME Book, [Next]_vars PROVE Book' OBVIOUS
<1>1. ASSUME NEW i \in Invoices, Issue(i) \/ Collect(i) PROVE Book'
  BY <1>1, IssueBooks, CollectBooks
<1>2. ASSUME NEW r \in Requests, Call(r) PROVE Book'
  BY <1>2, BeginSettleBooks, BeginCancelBooks, BeginOfflineBooks, BeginAdvanceBooks,
     BeginChargebackBooks DEF Call
<1>3. ASSUME NEW r \in Requests, Step(r) PROVE Book'
  BY <1>3, RecordSettleBooks, RefundBooks, AdjustBooks, MarkCancelledBooks, RecordOfflineBooks,
     ReadPoolBooks, ApplyAdvanceBooks, RecordChargebackBooks DEF Step
<1>4. CASE UNCHANGED vars
  <2>1. Inv' BY <1>4, StepKeeps, Parts
  <2>2. Table' BY <1>4, TableSame DEF vars
  <2>3. \A q \in Requests : CallFits(req'[q], payments', clock') BY <1>4, Parts DEF vars
  <2>4. Exclusive' BY <1>4, Parts DEF vars, Exclusive
  <2>5. Fresh' BY <1>4, Parts DEF vars, Fresh, Present
  <2> QED BY <2>1, <2>2, <2>3, <2>4, <2>5, BookGoal
<1> QED BY <1>1, <1>2, <1>3, <1>4, DieBooks DEF Next

LEMMA BookHolds == Spec => []Book
BY BookInit, BookStays, PTL DEF Spec

-----------------------------------------------------------------------------
(* What a step may do to an invoice that no two requests had at once.        *)

Opens(i) ==
    /\ ~Present(i)
    /\ \E row : /\ invoice'[i] = row /\ row.live /\ row.amount = Price /\ row.paid = 0 /\ row.noted = 0
                /\ \/ row.status = "ISSUED" /\ row.mode = "CREDIT"
                   \/ row.status = "PAID" /\ row.mode = "PREPAY"
Draws(i, x) ==
    /\ x \in Nat /\ Payable(invoice[i], x)
    /\ invoice'[i] = PaidDown(invoice[i], invoice[i], x)
Cancels(i, charge) ==
    /\ Present(i) /\ invoice[i].live
    /\ charge \in 0 .. Price /\ invoice'[i] = Cancelled(invoice[i], invoice[i], charge)
Ends(i) == Present(i) /\ invoice'[i] = [invoice[i] EXCEPT !.live = FALSE]
Reopens(i, x) ==
    /\ Present(i)
    /\ x \in Nat \ {0} /\ invoice'[i] = Reopened(invoice[i], invoice[i], x)

Moves(i) ==
    \/ invoice'[i] = invoice[i]
    \/ Opens(i)
    \/ \E x : Draws(i, x)
    \/ \E charge : Cancels(i, charge)
    \/ Ends(i)
    \/ \E x : Reopens(i, x)

\* What a call reads of an invoice that was never raced.
LEMMA ReadIsNow ==
    ASSUME Book, NEW r \in Requests, NEW i \in Invoices, i \notin raced, i \in Has(req[r]),
           req[r].pc # "markCancelled"
    PROVE  req[r].read[i] = invoice[i] /\ Present(i)
BY Parts DEF Fresh

LEMMA TakesFit ==
    ASSUME NEW need, NEW fund, NEW take \in FifoTakes(need, fund), NEW i \in DOMAIN need
    PROVE  SumOf([k \in DOMAIN fund |-> take[i][k]]) <= need[i]
BY Zenon DEF FifoTakes

LEMMA PayDownMoves ==
    ASSUME Book, NEW r \in Requests, req[r].pc \in {"offline", "apply"}, NEW take, NEW fund, NEW got,
           take \in FifoTakes(NeedOf(r), fund), got \in Applied(take, Needy(r), DOMAIN fund),
           PayDownAll(r, got), NEW i \in Invoices, i \notin raced
    PROVE  \/ invoice'[i] = invoice[i] /\ (i \in Needy(r) => got[i] = 0)
           \/ /\ i \in Needy(r) /\ got[i] > 0 /\ req[r].read[i] = invoice[i]
              /\ invoice[i].mode = "CREDIT" /\ Draws(i, got[i])
<1>1. got \in [Needy(r) -> 0 .. Price] BY AppliedTyped
<1>2. CASE ~(i \in Needy(r) /\ got[i] > 0)
  <2>1. invoice'[i] = invoice[i] BY <1>2 DEF PayDownAll
  <2>2. i \in Needy(r) => got[i] = 0 BY <1>1, <1>2, LedgerAssumption
  <2> QED BY <2>1, <2>2
<1>3. CASE i \in Needy(r) /\ got[i] > 0
  <2>1. got[i] \in Nat BY <1>1, <1>3, LedgerAssumption
  <2>2. i \in Has(req[r]) BY <1>1, <1>3, PayDownAllWrites
  <2>3. req[r].read[i] = invoice[i] /\ Present(i) BY <2>2, ReadIsNow
  <2>4. IsOpen(invoice[i]) /\ invoice[i].mode = "CREDIT"
    <3>1. CallFits(req[r], payments, clock) BY Parts
    <3> QED BY <2>3, <3>1 DEF CallFits, Present
  <2>5. got[i] <= Need(invoice[i])
    <3> DEFINE need == NeedOf(r)
    <3>1. DOMAIN need = Needy(r) /\ need[i] = Need(req[r].read[i]) BY <1>3 DEF NeedOf
    <3>2. got[i] = SumOf([k \in DOMAIN fund |-> take[i][k]]) BY <1>3 DEF Applied
    <3> HIDE DEF need
    <3>3. i \in DOMAIN need /\ take \in FifoTakes(need, fund) BY <1>3, <3>1 DEF need
    <3>4. SumOf([k \in DOMAIN fund |-> take[i][k]]) <= need[i] BY ONLY <3>3, TakesFit
    <3> QED BY <2>3, <3>1, <3>2, <3>4
  <2>6. invoice'[i] = PaidDown(invoice[i], invoice[i], got[i]) BY <1>3, <2>3 DEF PayDownAll
  <2> QED BY <1>3, <2>1, <2>3, <2>4, <2>5, <2>6 DEF Draws, Payable
<1> QED BY <1>2, <1>3

LEMMA SettleMoves ==
    ASSUME Book, NEW r \in Requests, RecordSettle(r), NEW i \in Invoices, i \notin raced
    PROVE  IF i = req[r].inv THEN Draws(i, req[r].amount) ELSE invoice'[i] = invoice[i]
<1>1. Only(req[r]) /\ Payable(req[r].read[req[r].inv], req[r].amount) /\ req[r].pc = "settle"
      /\ req[r].amount \in Nat
  BY Parts DEF CallFits, RecordSettle, Request
<1>2. CASE i = req[r].inv
  <2>1. i \in Has(req[r]) BY <1>1, <1>2, HasIs DEF Only
  <2>2. req[r].read[i] = invoice[i] BY <1>1, <2>1, ReadIsNow
  <2>3. invoice'[i] = PaidDown(invoice[i], req[r].read[i], req[r].amount)
    BY <1>2, Kept DEF RecordSettle, Book
  <2> QED BY <1>1, <1>2, <2>2, <2>3 DEF Draws
<1>3. CASE i # req[r].inv
  <2>1. invoice'[i] = invoice[i] BY <1>3, Kept DEF RecordSettle, Book
  <2> QED BY <1>3, <2>1
<1> QED BY <1>2, <1>3

LEMMA AdjustMoves ==
    ASSUME Book, NEW r \in Requests, Adjust(r), NEW i \in Invoices, i \notin raced
    PROVE  IF i = req[r].inv THEN Cancels(i, req[r].amount) ELSE invoice'[i] = invoice[i]
<1>1. /\ Only(req[r]) /\ req[r].read[req[r].inv].live /\ req[r].pc = "adjust"
      /\ req[r].amount \in 0 .. Price
  <2>1. AmountFits(req[r]) /\ req[r].pc = "adjust" BY Kept DEF Book, Adjust
  <2> QED BY <2>1, Parts, LedgerAssumption DEF CallFits, Request, AmountFits
<1>2. CASE i = req[r].inv
  <2>1. i \in Has(req[r]) BY <1>1, <1>2, HasIs DEF Only
  <2>2. req[r].read[i] = invoice[i] /\ Present(i) BY <1>1, <2>1, ReadIsNow
  <2>3. invoice'[i] = Cancelled(invoice[i], req[r].read[i], req[r].amount)
    BY <1>2, Kept DEF Adjust, Book
  <2> QED BY <1>1, <1>2, <2>2, <2>3 DEF Cancels
<1>3. CASE i # req[r].inv
  <2>1. invoice'[i] = invoice[i] BY <1>3, Kept DEF Adjust, Book
  <2> QED BY <1>3, <2>1
<1> QED BY <1>2, <1>3

LEMMA MarkMoves ==
    ASSUME Book, NEW r \in Requests, MarkCancelled(r), NEW i \in Invoices
    PROVE  IF i = req[r].inv THEN Ends(i) ELSE invoice'[i] = invoice[i]
<1>1. Only(req[r]) BY Parts DEF CallFits, MarkCancelled
<1>2. CASE i = req[r].inv
  <2>1. i \in Has(req[r]) BY <1>1, <1>2, HasIs DEF Only
  <2>2. Present(i) BY <2>1, Parts DEF Fresh
  <2>3. invoice'[i] = [invoice[i] EXCEPT !.live = FALSE] BY <1>2, Kept DEF MarkCancelled, Book
  <2> QED BY <1>2, <2>2, <2>3 DEF Ends
<1>3. CASE i # req[r].inv
  <2>1. invoice'[i] = invoice[i] BY <1>3, Kept DEF MarkCancelled, Book
  <2> QED BY <1>3, <2>1
<1> QED BY <1>2, <1>3

\* The payment that is charged back, and its row.
LEMMA ChargebackDoes ==
    ASSUME Book, NEW r \in Requests, RecordChargeback(r)
    PROVE  \E p \in Payment :
              /\ Disputes(req[r], p)
              /\ payments' = payments \cup {Row("CHARGEBACK", p.corr, p.amount, p.via, p.capture, 0, 0)}
              /\ invoice' = IF req[r].inv = 0 THEN invoice
                            ELSE [invoice EXCEPT ![req[r].inv] =
                                     Reopened(invoice[req[r].inv], req[r].read[req[r].inv], p.amount)]
<1>1. CallFits(req[r], payments, clock) /\ req[r].pc = "chargeback" BY Parts DEF RecordChargeback
<1>2. PICK p \in Payment : Disputes(req[r], p) BY <1>1 DEF CallFits
<1> QED BY <1>2 DEF RecordChargeback, Disputes

LEMMA ChargebackMoves ==
    ASSUME Book, NEW r \in Requests, RecordChargeback(r), NEW i \in Invoices, i \notin raced,
           NEW p \in Payment, req[r].pool = {p}
    PROVE  IF i = req[r].inv THEN Reopens(i, p.amount) ELSE invoice'[i] = invoice[i]
<1>1. PICK c \in Payment :
        /\ Disputes(req[r], c)
        /\ invoice' = IF req[r].inv = 0 THEN invoice
                      ELSE [invoice EXCEPT ![req[r].inv] =
                               Reopened(invoice[req[r].inv], req[r].read[req[r].inv], c.amount)]
  BY ChargebackDoes
<1>2. c = p BY <1>1 DEF Disputes
<1>3. CASE i = req[r].inv
  <2>1. i # 0 BY LedgerAssumption DEF Invoices
  <2>2. Only(req[r]) /\ p.amount > 0 /\ p.amount \in Nat BY <1>1, <1>2, <1>3, <2>1 DEF Disputes, Payment
  <2>3. i \in Has(req[r]) BY <1>3, <2>2, HasIs DEF Only
  <2>4. req[r].read[i] = invoice[i] /\ Present(i) BY <2>3, ReadIsNow DEF RecordChargeback
  <2>5. invoice'[i] = Reopened(invoice[i], req[r].read[i], p.amount)
    BY <1>1, <1>2, <1>3, <2>1, Kept DEF Book
  <2> QED BY <1>3, <2>2, <2>4, <2>5 DEF Reopens
<1>4. CASE i # req[r].inv
  <2>1. invoice'[i] = invoice[i] BY <1>1, <1>4, Kept DEF Book
  <2> QED BY <1>4, <2>1
<1> QED BY <1>3, <1>4

LEMMA IssueMoves ==
    ASSUME Book, NEW j \in Invoices, Issue(j) \/ Collect(j), NEW i \in Invoices
    PROVE  IF i = j THEN Opens(i) ELSE invoice'[i] = invoice[i]
<1>1. invoice \in [Invoices -> Invoice] BY Kept DEF Book
<1>2. CASE Issue(j) BY <1>1, <1>2 DEF Issue, Opens, Present
<1>3. CASE Collect(j) BY <1>1, <1>3 DEF Collect, Opens, Present
<1> QED BY <1>2, <1>3

LEMMA OfflineMoves ==
    ASSUME Book, NEW r \in Requests, RecordOffline(r), NEW i \in Invoices, i \notin raced
    PROVE  Moves(i)
<1> DEFINE fund == [k \in {0} |-> req[r].amount]
<1>1. PICK take, got :
        /\ take \in FifoTakes(NeedOf(r), fund) /\ got \in Applied(take, Needy(r), {0})
        /\ PayDownAll(r, got)
  BY DEF RecordOffline
<1>2. DOMAIN fund = {0} /\ req[r].pc = "offline" BY DEF RecordOffline
<1> HIDE DEF fund
<1> QED BY <1>1, <1>2, PayDownMoves DEF Moves

LEMMA ApplyMoves ==
    ASSUME Book, NEW r \in Requests, ApplyAdvance(r), NEW i \in Invoices, i \notin raced
    PROVE  Moves(i)
<1>1. PICK take, got, rest : Applies(r, take, got, rest) BY ApplyDoes
<1>2. req[r].pc = "apply" BY DEF ApplyAdvance
<1> QED BY <1>1, <1>2, PayDownMoves DEF Moves, Applies

LEMMA CallMoves ==
    ASSUME NEW r \in Requests, Call(r) \/ Refund(r) \/ ReadPool(r) \/ Die(r)
    PROVE  invoice' = invoice
BY DEF Call, BeginSettle, BeginCancel, BeginOffline, BeginAdvance, BeginChargeback, Refund, ReadPool, Die

LEMMA RacedStays == [Next]_vars => raced \subseteq raced' /\ (deaths \in Nat => deaths' \in {deaths, deaths + 1})
<1> SUFFICES ASSUME [Next]_vars
             PROVE  raced \subseteq raced' /\ (deaths \in Nat => deaths' \in {deaths, deaths + 1})
  OBVIOUS
<1>1. ASSUME NEW r \in Requests, Call(r) \/ Step(r) \/ Die(r)
      PROVE  raced \subseteq raced' /\ (deaths \in Nat => deaths' \in {deaths, deaths + 1})
  BY <1>1 DEF Call, BeginSettle, BeginCancel, BeginOffline, BeginAdvance, BeginChargeback, Begin, Step,
     RecordSettle, Refund, Adjust, MarkCancelled, RecordOffline, ReadPool, ApplyAdvance,
     RecordChargeback, Commit, Die
<1>2. ASSUME NEW i \in Invoices, Issue(i) \/ Collect(i)
      PROVE  raced \subseteq raced' /\ (deaths \in Nat => deaths' \in {deaths, deaths + 1})
  BY <1>2 DEF Issue, Collect
<1>3. CASE UNCHANGED vars BY <1>3 DEF vars
<1> QED BY <1>1, <1>2, <1>3 DEF Next

LEMMA AllMove ==
    ASSUME Book, [Next]_vars, NEW i \in Invoices, i \notin raced
    PROVE  Moves(i)
<1>1. ASSUME NEW j \in Invoices, Issue(j) \/ Collect(j) PROVE Moves(i)
  BY <1>1, IssueMoves DEF Moves
<1>2. ASSUME NEW r \in Requests, Call(r) \/ Die(r) PROVE Moves(i)
  BY <1>2, CallMoves DEF Moves
<1>3. ASSUME NEW r \in Requests, Step(r) PROVE Moves(i)
  <2>1. CASE RecordSettle(r) BY <2>1, SettleMoves DEF Moves
  <2>2. CASE Refund(r) \/ ReadPool(r) BY <2>2, CallMoves DEF Moves
  <2>3. CASE Adjust(r) BY <2>3, AdjustMoves DEF Moves
  <2>4. CASE MarkCancelled(r) BY <2>4, MarkMoves DEF Moves
  <2>5. CASE RecordOffline(r) BY <2>5, OfflineMoves
  <2>6. CASE ApplyAdvance(r) BY <2>6, ApplyMoves
  <2>7. CASE RecordChargeback(r)
    <3>1. PICK p \in Payment : req[r].pool = {p} BY <2>7, ChargebackDoes DEF Disputes
    <3> QED BY <2>7, <3>1, ChargebackMoves DEF Moves
  <2> QED BY <1>3, <2>1, <2>2, <2>3, <2>4, <2>5, <2>6, <2>7 DEF Step
<1>4. CASE UNCHANGED vars BY <1>4 DEF vars, Moves
<1> QED BY <1>1, <1>2, <1>3, <1>4 DEF Next

-----------------------------------------------------------------------------
(* An open invoice is owed something.                                       *)

Sound(row) ==
    /\ row.paid <= row.amount
    /\ row.status # "NONE" => row.amount > 0
    /\ IsOpen(row) => row.paid < row.amount
    /\ row.status = "PAID" /\ row.mode = "CREDIT" => row.paid = row.amount

Owed == \A i \in Invoices \ raced : Sound(invoice[i])

LEMMA OwedInit == Init => Owed
BY DEF Init, Owed, Sound, NoInvoice, IsOpen

LEMMA PaidDownSound ==
    ASSUME NEW row \in Invoice, Sound(row), NEW x \in Nat, Payable(row, x)
    PROVE  Sound(PaidDown(row, row, x))
<1> DEFINE to(s) == [row EXCEPT !.paid = row.paid + x, !.status = s]
<1>1. row.paid \in Nat /\ row.amount \in Nat /\ x > 0 /\ x <= row.amount - row.paid
  BY DEF Payable, Need, Invoice
<1>2. CASE row.paid + x >= row.amount
  <2>1. PaidDown(row, row, x) = to("PAID") BY <1>2 DEF PaidDown
  <2>2. to("PAID").paid = row.paid + x /\ to("PAID").amount = row.amount /\ to("PAID").status = "PAID"
    BY DEF Invoice
  <2> HIDE DEF to
  <2> QED BY <1>1, <1>2, <2>1, <2>2 DEF Sound, IsOpen
<1>3. CASE ~(row.paid + x >= row.amount)
  <2>1. PaidDown(row, row, x) = to("PARTIALLY_PAID") BY <1>3 DEF PaidDown
  <2>2. /\ to("PARTIALLY_PAID").paid = row.paid + x /\ to("PARTIALLY_PAID").amount = row.amount
        /\ to("PARTIALLY_PAID").status = "PARTIALLY_PAID"
    BY DEF Invoice
  <2> HIDE DEF to
  <2> QED BY <1>1, <1>3, <2>1, <2>2 DEF Sound, IsOpen
<1> QED BY <1>2, <1>3

LEMMA ReopenedSound ==
    ASSUME NEW row \in Invoice, Sound(row), row.status # "NONE", NEW x \in Nat \ {0}
    PROVE  Sound(Reopened(row, row, x))
<1> DEFINE to(y, s) == [row EXCEPT !.paid = y, !.status = s]
<1>1. row.paid \in Nat /\ row.amount \in Nat /\ row.amount > 0 /\ row.paid <= row.amount
  BY DEF Sound, Invoice
<1>2. \A y, s : to(y, s).paid = y /\ to(y, s).amount = row.amount /\ to(y, s).status = s
  BY DEF Invoice
<1>3. CASE row.paid <= x
  <2>1. Reopened(row, row, x) = to(0, "ISSUED") BY <1>3 DEF Reopened
  <2> HIDE DEF to
  <2> QED BY <1>1, <1>2, <2>1 DEF Sound, IsOpen
<1>4. CASE ~(row.paid <= x)
  <2>1. Reopened(row, row, x) = to(row.paid - x, "PARTIALLY_PAID") BY <1>4 DEF Reopened
  <2> HIDE DEF to
  <2> QED BY <1>1, <1>2, <1>4, <2>1 DEF Sound, IsOpen
<1> QED BY <1>3, <1>4

LEMMA CancelledIs ==
    ASSUME NEW row \in Invoice, NEW charge \in 0 .. Price
    PROVE  /\ Cancelled(row, row, charge).paid = row.paid
           /\ Cancelled(row, row, charge).noted = row.noted + (Price - charge)
           /\ Cancelled(row, row, charge).mode = row.mode
           /\ Cancelled(row, row, charge).live = row.live
           /\ \/ Cancelled(row, row, charge).status \in {"REFUNDED", "VOID"}
                 /\ Cancelled(row, row, charge).amount = row.amount
              \/ row.status = "ISSUED" /\ charge > 0 /\ Cancelled(row, row, charge).status = "ISSUED"
                 /\ Cancelled(row, row, charge).amount = charge
              \/ row.status \notin {"PAID", "ISSUED"} /\ Cancelled(row, row, charge).status = row.status
                 /\ Cancelled(row, row, charge).amount = row.amount
<1> DEFINE noted == [row EXCEPT !.noted = row.noted + (Price - charge)]
           c == Cancelled(row, row, charge)
<1>1. /\ noted.paid = row.paid /\ noted.noted = row.noted + (Price - charge)
      /\ noted.mode = row.mode /\ noted.live = row.live
      /\ noted.status = row.status /\ noted.amount = row.amount
      /\ noted \in Invoice
  BY LedgerAssumption DEF Invoice
<1>2. CASE row.status = "PAID"
  <2>1. c = [noted EXCEPT !.status = "REFUNDED"] BY <1>2 DEF Cancelled
  <2> HIDE DEF noted, c
  <2> QED BY <1>1, <2>1 DEF Invoice, c
<1>3. CASE row.status = "ISSUED" /\ charge > 0
  <2>1. c = [noted EXCEPT !.amount = charge] BY <1>3 DEF Cancelled
  <2> HIDE DEF noted, c
  <2> QED BY <1>1, <1>3, <2>1 DEF Invoice, c
<1>4. CASE row.status = "ISSUED" /\ ~(charge > 0)
  <2>1. charge = 0 BY <1>4, LedgerAssumption
  <2>2. c = [noted EXCEPT !.status = "VOID"] BY <1>4, <2>1 DEF Cancelled
  <2> HIDE DEF noted, c
  <2> QED BY <1>1, <2>2 DEF Invoice, c
<1>5. CASE row.status \notin {"PAID", "ISSUED"}
  <2>1. c = noted BY <1>5 DEF Cancelled
  <2> HIDE DEF noted, c
  <2> QED BY <1>1, <1>5, <2>1 DEF c
<1> QED BY <1>2, <1>3, <1>4, <1>5

LEMMA CancelledSound ==
    ASSUME NEW row \in Invoice, Sound(row), Good(row), row.status # "NONE", NEW charge \in 0 .. Price
    PROVE  Sound(Cancelled(row, row, charge))
<1> DEFINE c == Cancelled(row, row, charge)
<1>1. row.paid \in Nat /\ row.amount \in Nat /\ charge \in Nat BY LedgerAssumption DEF Invoice
<1>2. c.paid = row.paid /\ c.mode = row.mode BY CancelledIs
<1>3. \/ c.status \in {"REFUNDED", "VOID"} /\ c.amount = row.amount
      \/ row.status = "ISSUED" /\ charge > 0 /\ c.status = "ISSUED" /\ c.amount = charge
      \/ row.status \notin {"PAID", "ISSUED"} /\ c.status = row.status /\ c.amount = row.amount
  BY CancelledIs
<1> HIDE DEF c
<1>4. Sound(c) BY <1>1, <1>2, <1>3 DEF Sound, IsOpen, Good
<1> QED BY <1>4 DEF c

LEMMA OwedStays == Book /\ Owed /\ [Next]_vars => Owed'
<1> SUFFICES ASSUME Book, Owed, [Next]_vars, NEW i \in Invoices, i \notin raced'
             PROVE  Sound(invoice'[i])
  BY DEF Owed, Sound, IsOpen
<1>1. i \notin raced BY RacedStays
<1>2. Sound(invoice[i]) /\ invoice[i] \in Invoice /\ Good(invoice[i]) BY <1>1, Kept DEF Owed, Book
<1>3. Moves(i) BY <1>1, AllMove
<1>4. CASE invoice'[i] = invoice[i] BY <1>2, <1>4
<1>5. CASE Opens(i) BY <1>5, LedgerAssumption DEF Opens, Sound, IsOpen
<1>6. ASSUME NEW x, Draws(i, x) PROVE Sound(invoice'[i]) BY <1>2, <1>6, PaidDownSound DEF Draws
<1>7. ASSUME NEW c, Cancels(i, c) PROVE Sound(invoice'[i])
  BY <1>2, <1>7, CancelledSound DEF Cancels, Present
<1>8. CASE Ends(i)
  <2>1. /\ invoice'[i].paid = invoice[i].paid /\ invoice'[i].amount = invoice[i].amount
        /\ invoice'[i].status = invoice[i].status /\ invoice'[i].mode = invoice[i].mode
    BY <1>2, <1>8 DEF Ends, Invoice
  <2> QED BY <1>2, <2>1 DEF Sound, IsOpen
<1>9. ASSUME NEW x, Reopens(i, x) PROVE Sound(invoice'[i])
  BY <1>2, <1>9, ReopenedSound DEF Reopens, Present
<1> QED BY <1>3, <1>4, <1>5, <1>6, <1>7, <1>8, <1>9 DEF Moves

LEMMA OwedHolds == Spec => [](Book /\ Owed)
<1>1. Init => Book /\ Owed BY BookInit, OwedInit
<1>2. Book /\ Owed /\ [Next]_vars => (Book /\ Owed)' BY BookStays, OwedStays
<1> QED BY <1>1, <1>2, PTL DEF Spec

\* An open invoice that no two requests ever had at once is owed something, and
\* a PAID credit invoice nothing (settleInvoice, recordOfflineSettlement,
\* applyAgencyAdvance, recordChargeback, applyCancellation, getOutstanding).
THEOREM OpenIsOwedHolds == Spec => []OpenIsOwed
<1>1. Book /\ Owed => OpenIsOwed
  <2> SUFFICES ASSUME Book, Owed, NEW i \in Invoices, i \notin raced
               PROVE  /\ IsOpen(invoice[i]) => Need(invoice[i]) > 0
                      /\ invoice[i].status = "PAID" /\ invoice[i].mode = "CREDIT" => Need(invoice[i]) = 0
    BY DEF OpenIsOwed
  <2>1. Sound(invoice[i]) /\ invoice[i] \in Invoice BY Kept DEF Owed, Book
  <2>2. invoice[i].paid \in Nat /\ invoice[i].amount \in Nat BY <2>1 DEF Invoice
  <2> QED BY <2>1, <2>2 DEF Sound, Need
<1> QED BY <1>1, OwedHolds, PTL

-----------------------------------------------------------------------------
(* Oldest due first.                                                        *)

LEMMA FifoIs ==
    ASSUME NEW need, NEW fund, NEW take \in FifoTakes(need, fund),
           NEW B, B = DOMAIN need, NEW K, K = DOMAIN fund
    PROVE  /\ \A i \in B : SumOf([k \in K |-> take[i][k]]) <= need[i]
           /\ \A k \in K : SumOf([i \in B |-> take[i][k]]) <= fund[k]
           /\ \A i \in B, k \in K :
                 \/ SumOf([l \in {l \in K : l <= k} |-> take[i][l]]) = need[i]
                 \/ SumOf([j \in {j \in B : j <= i} |-> take[j][k]]) = fund[k]
BY Zenon DEF FifoTakes

LEMMA FifoFills ==
    ASSUME NEW need, NEW fund, NEW take \in FifoTakes(need, fund),
           NEW got \in Applied(take, DOMAIN need, DOMAIN fund),
           IsFiniteSet(DOMAIN need), DOMAIN need \subseteq Int,
           IsFiniteSet(DOMAIN fund), DOMAIN fund \subseteq Int,
           \A b \in DOMAIN need : need[b] \in Int,
           NEW i \in DOMAIN need, NEW j \in DOMAIN need, i < j, got[j] > 0
    PROVE  got[i] = need[i]
<1> DEFINE B == DOMAIN need
           K == DOMAIN fund
<1>0. /\ IsFiniteSet(B) /\ B \subseteq Int /\ IsFiniteSet(K) /\ K \subseteq Int
      /\ i \in B /\ j \in B /\ need[i] \in Int
      /\ B = DOMAIN need /\ K = DOMAIN fund /\ got \in Applied(take, B, K)
  OBVIOUS
<1> HIDE DEF B, K
<1>1. take \in [B -> [K -> 0 .. Price]] BY <1>0, TakesTyped
<1>2. \A b \in B, k \in K : take[b][k] \in Nat BY <1>1, LedgerAssumption
<1>3. \A b \in B : got[b] = SumOf([k \in K |-> take[b][k]]) BY <1>0, Zenon DEF Applied
<1> DEFINE row(b) == [k \in K |-> take[b][k]]
           col(k) == [b \in B |-> take[b][k]]
<1>4. \A b \in B : Summable(row(b)) /\ DOMAIN row(b) = K BY <1>0, <1>2 DEF Summable
<1>5. \A k \in K : Summable(col(k)) /\ DOMAIN col(k) = B BY <1>0, <1>2 DEF Summable
<1>6. PICK k \in K : take[j][k] > 0
  <2>1. SumOf(row(j)) > 0 BY <1>0, <1>3
  <2>2. \A k \in K : row(j)[k] = take[j][k] OBVIOUS
  <2> HIDE DEF row
  <2> QED BY <1>0, <1>4, <2>1, <2>2, SumPositive
<1> DEFINE L == {l \in K : l <= k}
           A == {b \in B : b <= i}
<1>7. SumOf([l \in L |-> row(i)[l]]) \in Nat /\ SumOf(row(i)) \in Nat
      /\ SumOf([l \in L |-> row(i)[l]]) <= SumOf(row(i))
  <2>1. L \in SUBSET DOMAIN row(i) BY <1>0, <1>4
  <2> HIDE DEF row, L
  <2> QED BY <1>0, <1>4, <2>1, SumBeyond
<1>8. SumOf([b \in A |-> col(k)[b]]) < SumOf(col(k)) /\ SumOf(col(k)) \in Nat
      /\ SumOf([b \in A |-> col(k)[b]]) \in Nat
  <2>1. A \in SUBSET DOMAIN col(k) /\ j \in DOMAIN col(k) \ A BY <1>0, <1>5
  <2>2. col(k)[j] > 0 BY <1>0, <1>6
  <2> HIDE DEF col, A
  <2> QED BY <1>5, <2>1, <2>2, SumBeyond
<1>9. [l \in L |-> row(i)[l]] = [l \in L |-> take[i][l]] OBVIOUS
<1>10. [b \in A |-> col(k)[b]] = [b \in A |-> take[b][k]] OBVIOUS
<1>11. /\ SumOf(row(i)) <= need[i] /\ SumOf(col(k)) <= fund[k]
       /\ \/ SumOf([l \in L |-> take[i][l]]) = need[i]
          \/ SumOf([b \in A |-> take[b][k]]) = fund[k]
  BY <1>0, FifoIs
<1>12. got[i] = SumOf(row(i)) BY <1>0, <1>3
<1>13. need[i] \in Int BY <1>0
<1> DEFINE s == SumOf(row(i))
           sl == SumOf([l \in L |-> take[i][l]])
           t == SumOf(col(k))
           ta == SumOf([b \in A |-> take[b][k]])
<1>14. s \in Nat /\ sl \in Nat /\ sl <= s /\ t \in Nat /\ ta \in Nat /\ ta < t
  BY ONLY <1>7, <1>8, <1>9, <1>10
<1>15. s <= need[i] /\ t <= fund[k] /\ (sl = need[i] \/ ta = fund[k]) BY ONLY <1>11
<1> HIDE DEF s, sl, t, ta, row, col, L, A
<1> QED BY <1>12, <1>13, <1>14, <1>15 DEF s

\* The invoices that a call reads, and what they need.
LEMMA NeedTyped ==
    ASSUME Book, NEW r \in Requests
    PROVE  /\ DOMAIN NeedOf(r) = Needy(r) /\ NeedOf(r) \in [Needy(r) -> Int]
           /\ \A i \in Needy(r) : NeedOf(r)[i] = Need(req[r].read[i]) /\ NeedOf(r)[i] > 0
           /\ Needy(r) \subseteq Int /\ IsFiniteSet(Needy(r)) /\ Needy(r) \subseteq Invoices
<1>1. Needy(r) \subseteq Invoices BY DEF Needy, Read
<1>2. IsFiniteSet(Needy(r)) BY <1>1, InvoicesFinite, FS_Subset
<1>3. \A i \in Needy(r) : Need(req[r].read[i]) \in Int
  <2> TAKE i \in Needy(r)
  <2>1. req[r].read[i] \in Invoice BY <1>1, Parts DEF Request
  <2> QED BY <2>1 DEF Invoice, Need
<1>4. \A i \in Needy(r) : Need(req[r].read[i]) > 0 BY DEF Needy
<1>5. Needy(r) \subseteq Int BY <1>1 DEF Invoices
<1> QED BY <1>1, <1>2, <1>3, <1>4, <1>5 DEF NeedOf

LEMMA OldestPaid ==
    ASSUME Book, NEW r \in Requests, req[r].pc \in {"offline", "apply"}, NEW take, NEW fund, NEW got,
           take \in FifoTakes(NeedOf(r), fund), got \in Applied(take, Needy(r), DOMAIN fund),
           PayDownAll(r, got), IsFiniteSet(DOMAIN fund), DOMAIN fund \subseteq Int,
           NEW i \in Needy(r), NEW j \in Needy(r), i < j, i \notin raced, j \notin raced,
           invoice'[j].paid > invoice[j].paid
    PROVE  ~IsOpen(invoice'[i])
<1>1. i \in Invoices /\ j \in Invoices BY NeedTyped
<1>2. got[j] > 0
  <2>1. invoice[j].paid \in Nat BY <1>1, Kept DEF Book, Invoice
  <2>2. invoice'[j] # invoice[j] BY <2>1
  <2> QED BY <1>1, <2>2, PayDownMoves
<1>3. got[i] = NeedOf(r)[i]
  <2> DEFINE need == NeedOf(r)
  <2>1. DOMAIN need = Needy(r) /\ (\A b \in DOMAIN need : need[b] \in Int)
        /\ IsFiniteSet(DOMAIN need) /\ DOMAIN need \subseteq Int
    BY NeedTyped
  <2>2. /\ take \in FifoTakes(need, fund) /\ got \in Applied(take, DOMAIN need, DOMAIN fund)
        /\ i \in DOMAIN need /\ j \in DOMAIN need
    BY <2>1
  <2> HIDE DEF need
  <2>3. got[i] = need[i]
    BY ONLY IsFiniteSet(DOMAIN fund), DOMAIN fund \subseteq Int, i < j, <1>2, <2>1, <2>2, FifoFills
  <2> QED BY <2>3 DEF need
<1>4. got[i] = Need(req[r].read[i]) /\ got[i] > 0 BY <1>3, NeedTyped
<1>5. Draws(i, got[i]) /\ req[r].read[i] = invoice[i] BY <1>1, <1>4, PayDownMoves
<1>6. invoice[i] \in Invoice BY <1>1, Kept DEF Book
<1>7. invoice[i].paid + got[i] >= invoice[i].amount BY <1>4, <1>5, <1>6 DEF Need, Invoice
<1>8. invoice'[i] = [invoice[i] EXCEPT !.paid = invoice[i].paid + got[i], !.status = "PAID"]
  BY <1>5, <1>7 DEF Draws, PaidDown
<1>9. invoice'[i].status = "PAID" BY <1>6, <1>8 DEF Invoice
<1> QED BY <1>9 DEF IsOpen

\* Oldest due first: an invoice gets offline money or an advance only if no older
\* one of those the same request found open stays open (recordOfflineSettlement,
\* applyAgencyAdvance).
THEOREM OldestFirstHolds == Spec => OldestFirst
<1> DEFINE Oldest == \A r \in Requests :
              RecordOffline(r) \/ ApplyAdvance(r) =>
                  \A i, j \in Needy(r) :
                      i < j /\ {i, j} \cap raced = {} /\ invoice'[j].paid > invoice[j].paid
                          => ~IsOpen(invoice'[i])
<1>1. ASSUME Book, NEW r \in Requests, RecordOffline(r), NEW i \in Needy(r), NEW j \in Needy(r),
             i < j, {i, j} \cap raced = {}, invoice'[j].paid > invoice[j].paid
      PROVE  ~IsOpen(invoice'[i])
  <2> DEFINE fund == [k \in {0} |-> req[r].amount]
  <2>1. PICK take, got :
          /\ take \in FifoTakes(NeedOf(r), fund) /\ got \in Applied(take, Needy(r), {0})
          /\ PayDownAll(r, got)
    BY <1>1 DEF RecordOffline
  <2>2. DOMAIN fund = {0} /\ req[r].pc = "offline" BY <1>1 DEF RecordOffline
  <2>3. IsFiniteSet(DOMAIN fund) /\ DOMAIN fund \subseteq Int
    <3>1. IsFiniteSet({0}) BY FS_Singleton
    <3> QED BY <2>2, <3>1
  <2>4. i \notin raced /\ j \notin raced BY <1>1
  <2> HIDE DEF fund
  <2> QED BY <1>1, <2>1, <2>2, <2>3, <2>4, OldestPaid
<1>2. ASSUME Book, NEW r \in Requests, ApplyAdvance(r), NEW i \in Needy(r), NEW j \in Needy(r),
             i < j, {i, j} \cap raced = {}, invoice'[j].paid > invoice[j].paid
      PROVE  ~IsOpen(invoice'[i])
  <2> DEFINE fund == FundOf(req[r].pool)
  <2>1. PICK take, got, rest : Applies(r, take, got, rest) BY <1>2, ApplyDoes
  <2>2. req[r].pc = "apply" BY <1>2 DEF ApplyAdvance
  <2>3. IsFiniteSet(DOMAIN fund) /\ DOMAIN fund \subseteq Int BY <1>2, <2>2, PoolTyped
  <2>4. i \notin raced /\ j \notin raced BY <1>2
  <2>5. /\ take \in FifoTakes(NeedOf(r), fund) /\ got \in Applied(take, Needy(r), DOMAIN fund)
        /\ PayDownAll(r, got)
    BY <2>1 DEF Applies
  <2> HIDE DEF fund
  <2> QED BY <1>2, <2>2, <2>3, <2>4, <2>5, OldestPaid
<1>3. Book /\ [Next]_vars => [Oldest]_vars BY <1>1, <1>2
<1> QED BY <1>3, BookHolds, PTL DEF Spec, OldestFirst

-----------------------------------------------------------------------------
(* Rows that are no advance, and were none, stay as they are.                *)

Fixed(x) == x.kind # "IN" \/ x.via \in {"GATEWAY", "OFFLINE"}

LEMMA AppliedFixed ==
    ASSUME Book, NEW r \in Requests, ApplyAdvance(r), NEW x, Fixed(x)
    PROVE  x \in payments <=> x \in payments'
<1>1. PICK take, got, rest : Applies(r, take, got, rest) BY ApplyDoes
<1>2. PICK K : K = DOMAIN FundOf(req[r].pool) OBVIOUS
<1>3. req[r].pc = "apply" BY DEF ApplyAdvance
<1>4. ASSUME x \in payments' PROVE x \in payments
  <2>1. ~(x.kind = "IN" /\ x.via \in {"ADVANCE", "APPLIED"}) BY DEF Fixed
  <2> QED BY <1>1, <1>2, <1>3, <1>4, <2>1, AppliedRows
<1>5. ASSUME x \in payments PROVE x \in payments'
  <2>1. PoolFits(req[r], payments, clock) BY <1>2, <1>3, PoolTyped
  <2>2. ~\E p \in req[r].pool : p.id = x.id BY <1>5, <2>1 DEF PoolFits, Fixed
  <2>3. Moved(req[r].pool, Needy(r), take, rest, x) = {x} BY <2>2 DEF Moved
  <2> QED BY <1>1, <1>5, <2>3 DEF Applies
<1> QED BY <1>4, <1>5

\* Where a fixed row comes from.
Source(x) ==
    \/ \E i \in Invoices : Collect(i) /\ x = Row("IN", i, Price, "GATEWAY", clock + 1, i, 0)
    \/ \E r \in Requests :
          \/ /\ RecordSettle(r)
             /\ x = Row("IN", req[r].inv, req[r].amount, "GATEWAY", clock + 1, req[r].inv, 0)
          \/ Adjust(r) /\ x \in RefundRow(r)
          \/ RecordOffline(r) /\ x.kind = "IN" /\ x.via = "OFFLINE"
          \/ /\ RecordChargeback(r)
             /\ \E p \in req[r].pool :
                   x = Row("CHARGEBACK", p.corr, p.amount, p.via, p.capture, 0, 0)

LEMMA OfflineRows ==
    ASSUME NEW r \in Requests, RecordOffline(r)
    PROVE  /\ payments \subseteq payments'
           /\ \A x \in payments' : x \in payments \/ (x.kind = "IN" /\ x.via \in {"OFFLINE", "ADVANCE"})
<1>1. PICK got, left : payments' = payments \cup Remainder(left) \cup
              {Row("IN", i, got[i], "OFFLINE", 0, i, 0) : i \in {j \in Needy(r) : got[j] > 0}}
  BY DEF RecordOffline
<1>2. \A x \in Remainder(left) : x.kind = "IN" /\ x.via = "ADVANCE" BY DEF Remainder, Row
<1>3. \A i : Row("IN", i, got[i], "OFFLINE", 0, i, 0).kind = "IN"
             /\ Row("IN", i, got[i], "OFFLINE", 0, i, 0).via = "OFFLINE"
  BY DEF Row
<1> QED BY <1>1, <1>2, <1>3

LEMMA NewRows ==
    ASSUME Book, [Next]_vars, NEW x, Fixed(x)
    PROVE  (x \in payments => x \in payments') /\ (x \in payments' => x \in payments \/ Source(x))
<1> DEFINE Goal1 == (x \in payments => x \in payments') /\ (x \in payments' => x \in payments \/ Source(x))
<1>1. ASSUME NEW i \in Invoices, Issue(i) \/ Collect(i) PROVE Goal1
  BY <1>1 DEF Issue, Collect, Source
<1>2. ASSUME NEW r \in Requests, Call(r) \/ Die(r) PROVE Goal1
  BY <1>2 DEF Call, BeginSettle, BeginCancel, BeginOffline, BeginAdvance, BeginChargeback, Die
<1>3. ASSUME NEW r \in Requests, Step(r) PROVE Goal1
  <2>1. CASE RecordSettle(r) BY <2>1 DEF RecordSettle, Source
  <2>2. CASE Refund(r) \/ ReadPool(r) \/ MarkCancelled(r) BY <2>2 DEF Refund, ReadPool, MarkCancelled
  <2>3. CASE Adjust(r)
    <3>1. payments' = payments \cup RefundRow(r) BY <2>3 DEF Adjust
    <3>2. x \in RefundRow(r) => Source(x) BY <2>3 DEF Source
    <3> QED BY <3>1, <3>2
  <2>4. CASE RecordOffline(r)
    <3>1. x \in payments' => x \in payments \/ (x.kind = "IN" /\ x.via = "OFFLINE")
      BY <2>4, OfflineRows DEF Fixed
    <3> QED BY <2>4, <3>1, OfflineRows DEF Source
  <2>5. CASE ApplyAdvance(r) BY <2>5, AppliedFixed
  <2>6. CASE RecordChargeback(r)
    <3>1. PICK p \in Payment : /\ req[r].pool = {p}
                               /\ payments' = payments \cup
                                     {Row("CHARGEBACK", p.corr, p.amount, p.via, p.capture, 0, 0)}
      BY <2>6, ChargebackDoes DEF Disputes
    <3>2. x = Row("CHARGEBACK", p.corr, p.amount, p.via, p.capture, 0, 0) => Source(x)
      BY <2>6, <3>1 DEF Source
    <3> QED BY <3>1, <3>2
  <2> QED BY <1>3, <2>1, <2>2, <2>3, <2>4, <2>5, <2>6 DEF Step
<1>4. CASE UNCHANGED vars BY <1>4 DEF vars
<1> QED BY <1>1, <1>2, <1>3, <1>4 DEF Next

-----------------------------------------------------------------------------
(* A payment is charged back once.                                          *)

\* Of an invoice that was never raced, no payment was charged back twice, and
\* none that is being charged back was before.
Once ==
    \A i \in Invoices \ raced :
        /\ \A p, q \in RowsOf("CHARGEBACK", i) : SameRef(p, q) => p = q
        /\ \A r \in Requests : req[r].pc = "chargeback" =>
             \A p \in req[r].pool, q \in RowsOf("CHARGEBACK", i) : ~SameRef(p, q)

LEMMA OnceInit == Init => Once
BY DEF Init, Once, RowsOf

\* Who charges back a payment of the invoice i has it.
LEMMA DisputesHas ==
    ASSUME Book, NEW r \in Requests, req[r].pc = "chargeback", NEW p \in req[r].pool,
           NEW i \in Invoices, p.corr = i
    PROVE  i \in Has(req[r]) /\ req[r].inv = i /\ req[r].pool = {p} /\ p.via # "ADVANCE" /\ p \in Payment
<1>1. CallFits(req[r], payments, clock) BY Parts
<1>2. PICK c \in Payment : Disputes(req[r], c) BY <1>1 DEF CallFits
<1>3. c = p /\ req[r].pool = {p} BY <1>2 DEF Disputes
<1>4. ~(i > NumInvoices) BY LedgerAssumption DEF Invoices
<1>5. p.via # "ADVANCE" /\ req[r].inv = i /\ Only(req[r]) BY <1>2, <1>3, <1>4 DEF Disputes
<1> QED BY <1>2, <1>3, <1>5, HasIs DEF Only

\* A chargeback in flight was in flight before, or begins.
LEMMA InFlightChargeback ==
    ASSUME Book, [Next]_vars, NEW r \in Requests, req'[r].pc = "chargeback"
    PROVE  \/ /\ req'[r] = req[r]
              /\ ~RecordChargeback(r)
           \/ \E p \in payments : /\ req'[r].pool = {p} /\ Disputable(p) /\ payments' = payments
<1> DEFINE Goal1 == \/ req'[r] = req[r] /\ ~RecordChargeback(r)
                    \/ \E p \in payments : req'[r].pool = {p} /\ Disputable(p) /\ payments' = payments
<1>1. req \in [Requests -> Request] /\ Idle.pc = "idle" BY Kept, IdleHasNone DEF Book
<1>2. req'[r] = req[r] => ~RecordChargeback(r)
  BY <1>1 DEF RecordChargeback, Commit
<1>3. ASSUME NEW i \in Invoices, Issue(i) \/ Collect(i) PROVE req'[r] = req[r]
  BY <1>3 DEF Issue, Collect
<1>4. ASSUME NEW q \in Requests, q # r, Call(q) \/ Step(q) \/ Die(q) PROVE req'[r] = req[r]
  BY <1>1, <1>4 DEF Call, BeginSettle, BeginCancel, BeginOffline, BeginAdvance, BeginChargeback, Begin,
     Step, RecordSettle, Refund, Adjust, MarkCancelled, RecordOffline, ReadPool, ApplyAdvance,
     RecordChargeback, Commit, Die
<1>5. ASSUME Step(r) \/ Die(r) PROVE FALSE
  <2>1. CASE RecordSettle(r) \/ MarkCancelled(r) \/ RecordOffline(r) \/ ApplyAdvance(r)
             \/ RecordChargeback(r) \/ Die(r)
    <3>1. req' = [req EXCEPT ![r] = Idle]
      BY <2>1 DEF RecordSettle, MarkCancelled, RecordOffline, ApplyAdvance, RecordChargeback, Commit, Die
    <3> QED BY <1>1, <3>1
  <2>2. CASE Refund(r) BY <1>1, <2>2 DEF Refund, Request
  <2>3. CASE Adjust(r) BY <1>1, <2>3 DEF Adjust, Request
  <2>4. CASE ReadPool(r) BY <1>1, <2>4 DEF ReadPool, Request
  <2> QED BY <1>5, <2>1, <2>2, <2>3, <2>4 DEF Step
<1>6. ASSUME Call(r) PROVE Goal1
  <2>1. ASSUME NEW p \in payments, BeginChargeback(r, p)
        PROVE  req'[r].pool = {p} /\ Disputable(p) /\ payments' = payments
    BY <1>1, <2>1 DEF BeginChargeback, Begin, NewCall
  <2>2. ASSUME NEW i \in Invoices, NEW x, BeginSettle(r, i, x) PROVE FALSE
    BY <1>1, <2>2 DEF BeginSettle, Begin, NewCall
  <2>3. ASSUME NEW i \in Invoices, NEW x, BeginCancel(r, i, x) PROVE FALSE
    BY <1>1, <2>3 DEF BeginCancel, Begin, NewCall
  <2>4. ASSUME NEW x, BeginOffline(r, x) PROVE FALSE BY <1>1, <2>4 DEF BeginOffline, Begin, NewCall
  <2>5. ASSUME BeginAdvance(r) PROVE FALSE BY <1>1, <2>5 DEF BeginAdvance, Begin, NewCall
  <2> QED BY <1>6, <2>1, <2>2, <2>3, <2>4, <2>5 DEF Call
<1>7. CASE UNCHANGED vars BY <1>2, <1>7 DEF vars
<1> QED BY <1>2, <1>3, <1>4, <1>5, <1>6, <1>7 DEF Next

\* A chargeback that is new, of the payment that a request disputed.
LEMMA NewChargeback ==
    ASSUME Book, [Next]_vars, NEW x \in payments', x.kind = "CHARGEBACK", x \notin payments
    PROVE  \E r \in Requests : \E c \in req[r].pool :
              /\ RecordChargeback(r)
              /\ x = Row("CHARGEBACK", c.corr, c.amount, c.via, c.capture, 0, 0)
              /\ x.corr = c.corr /\ SameRef(c, x)
<1>1. Source(x) BY NewRows DEF Fixed
<1>2. ASSUME NEW r \in Requests, x \in RefundRow(r) PROVE FALSE
  BY <1>2 DEF RefundRow, Row
<1>3. \A i, a, v, c, j, k : Row("IN", i, a, v, c, j, k).kind = "IN" BY DEF Row
<1>4. PICK r \in Requests : /\ RecordChargeback(r)
                            /\ \E c \in req[r].pool :
                                  x = Row("CHARGEBACK", c.corr, c.amount, c.via, c.capture, 0, 0)
  BY <1>1, <1>2, <1>3 DEF Source
<1>5. PICK c \in req[r].pool : x = Row("CHARGEBACK", c.corr, c.amount, c.via, c.capture, 0, 0) BY <1>4
<1>6. x.corr = c.corr /\ x.via = c.via /\ x.capture = c.capture BY <1>5, RowIs
<1> QED BY <1>4, <1>5, <1>6 DEF SameRef

LEMMA OnceStays ==
    ASSUME Book, Once, [Next]_vars
    PROVE  Once'
<1> SUFFICES ASSUME NEW i \in Invoices, i \notin raced'
             PROVE  /\ \A p, q \in RowsOf("CHARGEBACK", i)' : SameRef(p, q) => p = q
                    /\ \A r \in Requests : req'[r].pc = "chargeback" =>
                         \A p \in req'[r].pool, q \in RowsOf("CHARGEBACK", i)' : ~SameRef(p, q)
  BY DEF Once, SameRef
<1>1. i \notin raced BY RacedStays
<1>2. \A x \in RowsOf("CHARGEBACK", i)' : x \in payments' /\ x.kind = "CHARGEBACK" /\ x.corr = i
  BY DEF RowsOf
<1>3. \A x \in payments : x.kind = "CHARGEBACK" /\ x.corr = i => x \in RowsOf("CHARGEBACK", i)
  BY DEF RowsOf
\* Two that charge back payments of i are one.
<1>4. ASSUME NEW r \in Requests, NEW q \in Requests, req[r].pc = "chargeback", req[q].pc = "chargeback",
             NEW c \in req[r].pool, NEW d \in req[q].pool, c.corr = i, d.corr = i
      PROVE  r = q /\ c = d
  <2>1. i \in Has(req[r]) /\ req[r].pool = {c} BY <1>4, DisputesHas
  <2>2. i \in Has(req[q]) /\ req[q].pool = {d} BY <1>4, DisputesHas
  <2>3. r = q BY <1>1, <2>1, <2>2, Parts DEF Exclusive
  <2> QED BY <2>1, <2>2, <2>3
<1>5. \A r \in Requests : RecordChargeback(r) => req[r].pc = "chargeback" BY DEF RecordChargeback
<1>6. \A p, q, c : SameRef(p, q) /\ SameRef(c, p) => SameRef(c, q) BY DEF SameRef
<1>7. \A p, q : SameRef(p, q) => SameRef(q, p) /\ p.corr = q.corr BY DEF SameRef
\* A new one is not of a payment that has one.
<1>8. ASSUME NEW p \in payments', NEW q \in payments, p.kind = "CHARGEBACK", q.kind = "CHARGEBACK",
             p.corr = i, q.corr = i, p \notin payments
      PROVE  ~SameRef(p, q)
  <2>1. PICK r \in Requests : \E c \in req[r].pool : RecordChargeback(r) /\ c.corr = i /\ SameRef(c, p)
    BY <1>8, NewChargeback
  <2>2. PICK c \in req[r].pool : RecordChargeback(r) /\ c.corr = i /\ SameRef(c, p) BY <2>1
  <2>3. ~SameRef(c, q) BY <1>1, <1>3, <1>5, <1>8, <2>2 DEF Once
  <2> QED BY <1>6, <2>2, <2>3
<1>9. ASSUME NEW p \in RowsOf("CHARGEBACK", i)', NEW q \in RowsOf("CHARGEBACK", i)', SameRef(p, q)
      PROVE  p = q
  <2>1. CASE p \in payments /\ q \in payments BY <1>1, <1>2, <1>3, <1>9, <2>1 DEF Once
  <2>2. CASE p \notin payments /\ q \in payments BY <1>2, <1>8, <1>9, <2>2
  <2>3. CASE p \in payments /\ q \notin payments BY <1>2, <1>7, <1>8, <1>9, <2>3
  <2>4. CASE p \notin payments /\ q \notin payments
    <3>1. PICK r \in Requests : \E c \in req[r].pool :
             RecordChargeback(r) /\ c.corr = i
             /\ p = Row("CHARGEBACK", c.corr, c.amount, c.via, c.capture, 0, 0)
      BY <1>2, <2>4, NewChargeback
    <3>2. PICK s \in Requests : \E d \in req[s].pool :
             RecordChargeback(s) /\ d.corr = i
             /\ q = Row("CHARGEBACK", d.corr, d.amount, d.via, d.capture, 0, 0)
      BY <1>2, <2>4, NewChargeback
    <3> QED BY <1>4, <1>5, <3>1, <3>2
  <2> QED BY <2>1, <2>2, <2>3, <2>4
<1>10. ASSUME NEW r \in Requests, req'[r].pc = "chargeback", NEW p \in req'[r].pool,
              NEW q \in RowsOf("CHARGEBACK", i)', SameRef(p, q)
       PROVE  FALSE
  <2>1. CASE req'[r] = req[r] /\ ~RecordChargeback(r)
    <3>1. p.corr = i /\ req[r].pc = "chargeback" /\ p \in req[r].pool BY <1>2, <1>7, <1>10, <2>1
    <3>2. CASE q \in payments BY <1>1, <1>2, <1>3, <1>10, <3>1, <3>2 DEF Once
    <3>3. CASE q \notin payments
      <4>1. PICK s \in Requests : \E d \in req[s].pool : RecordChargeback(s) /\ d.corr = i
        BY <1>2, <3>3, NewChargeback
      <4>2. r = s BY <1>4, <1>5, <3>1, <4>1
      <4> QED BY <2>1, <4>1, <4>2
    <3> QED BY <3>2, <3>3
  <2>2. ASSUME NEW c \in payments, req'[r].pool = {c}, Disputable(c), payments' = payments PROVE FALSE
    BY <1>2, <1>7, <1>10, <2>2 DEF Disputable
  <2> QED BY <1>10, <2>1, <2>2, InFlightChargeback
<1> QED BY <1>9, <1>10

LEMMA OnceHolds == Spec => [](Book /\ Once)
<1>1. Init => Book /\ Once BY BookInit, OnceInit
<1>2. Book /\ Once /\ [Next]_vars => (Book /\ Once)' BY BookStays, OnceStays
<1> QED BY <1>1, <1>2, PTL DEF Spec

\* A captured payment of an invoice that no two requests ever had at once is
\* charged back at most once: recordChargeback refuses what it has charged back,
\* and who reads the payment has the invoice until its transaction.
THEOREM ChargedBackOnceHolds == Spec => []ChargedBackOnce
<1>1. Book /\ Once => ChargedBackOnce
  <2> SUFFICES ASSUME Book, Once, NEW p \in payments, p.kind = "IN", p.via = "GATEWAY", p.corr \notin raced
               PROVE  Cardinality({q \in payments : q.kind = "CHARGEBACK" /\ SameRef(p, q)}) <= 1
    BY DEF ChargedBackOnce
  <2> DEFINE S == {q \in payments : q.kind = "CHARGEBACK" /\ SameRef(p, q)}
  <2>1. p.corr \in Invoices BY Parts DEF Table, RowFits
  <2>2. \A q \in S : q \in RowsOf("CHARGEBACK", p.corr) BY DEF RowsOf, SameRef
  <2>3. \A q, x \in S : SameRef(q, x) BY DEF SameRef
  <2>4. \A q, x \in S : q = x
    <3> HIDE DEF S
    <3> QED BY <2>1, <2>2, <2>3 DEF Once
  <2> HIDE DEF S
  <2>5. S = {} \/ \E x : S = {x} BY <2>4
  <2>6. Cardinality(S) = 0 \/ Cardinality(S) = 1 BY <2>5, FS_EmptySet, FS_Singleton
  <2> QED BY <2>6 DEF S
<1> QED BY <1>1, OnceHolds, PTL

-----------------------------------------------------------------------------
(* A refund has its credit note.                                            *)

Marking(i) == \E r \in Requests : req[r].pc = "markCancelled" /\ req[r].inv = i

\* Nothing is noted or refunded until the cancellation's transaction, which does
\* both at once, and then not again.
NotedIs(i) ==
    IF (invoice[i].live \/ ~Present(i)) /\ ~Marking(i)
    THEN invoice[i].noted = 0 /\ RowsOf("REFUND", i) = {}
    ELSE /\ invoice[i].noted <= Price
         /\ \/ RowsOf("REFUND", i) = {}
            \/ \E p \in payments : RowsOf("REFUND", i) = {p} /\ p.amount = invoice[i].noted

Noted == deaths = 0 => \A i \in Invoices \ raced : NotedIs(i)

LEMMA NotedInit == Init => Noted
BY IdleHasNone DEF Init, Noted, NotedIs, NoInvoice, Present, Marking, RowsOf

\* The request cancels the invoice i.
Cancelling(r, i) == (Adjust(r) \/ MarkCancelled(r)) /\ req[r].inv = i

LEMMA RefundRowsSame ==
    ASSUME Book, [Next]_vars, NEW i \in Invoices, \A r \in Requests : ~(Adjust(r) /\ req[r].inv = i)
    PROVE  RowsOf("REFUND", i)' = RowsOf("REFUND", i)
<1>1. ASSUME NEW x, x.kind = "REFUND", x.corr = i PROVE x \in payments' <=> x \in payments
  <2>1. (x \in payments => x \in payments') /\ (x \in payments' => x \in payments \/ Source(x))
    BY <1>1, NewRows DEF Fixed
  <2>2. \A kind, c, a, v, g, j, k : Row(kind, c, a, v, g, j, k).kind = kind
                                    /\ Row(kind, c, a, v, g, j, k).corr = c
    BY DEF Row
  <2>3. \A r \in Requests : x \in RefundRow(r) => req[r].inv = i BY <1>1, <2>2 DEF RefundRow
  <2>4. ~Source(x) BY <1>1, <2>2, <2>3 DEF Source
  <2> QED BY <2>1, <2>4
<1> QED BY <1>1 DEF RowsOf

LEMMA MarkingSame ==
    ASSUME Book, [Next]_vars, NEW i \in Invoices, \A r \in Requests : ~Cancelling(r, i), deaths' = deaths
    PROVE  Marking(i)' <=> Marking(i)
<1> DEFINE At(c) == c.pc = "markCancelled" /\ c.inv = i
<1>1. req \in [Requests -> Request] /\ ~At(Idle) /\ deaths \in Nat
  BY IdleHasNone, Kept DEF Book, Inv, TypeOK
<1> SUFFICES ASSUME NEW r \in Requests PROVE At(req'[r]) <=> At(req[r]) BY DEF Marking
<1>2. ASSUME NEW j \in Invoices, Issue(j) \/ Collect(j) PROVE req'[r] = req[r]
  BY <1>2 DEF Issue, Collect
<1>3. ASSUME NEW q \in Requests, q # r, Call(q) \/ Step(q) \/ Die(q) PROVE req'[r] = req[r]
  BY <1>1, <1>3 DEF Call, BeginSettle, BeginCancel, BeginOffline, BeginAdvance, BeginChargeback, Begin,
     Step, RecordSettle, Refund, Adjust, MarkCancelled, RecordOffline, ReadPool, ApplyAdvance,
     RecordChargeback, Commit, Die
<1>4. ASSUME Call(r) PROVE ~At(req'[r]) /\ ~At(req[r])
  <2>1. \A loc : Begin(r, loc) => req'[r] = loc /\ req[r].pc = "idle" BY <1>1 DEF Begin
  <2>2. \A pc, inv, read, amount, pool : NewCall(pc, inv, read, amount, pool).pc = pc BY DEF NewCall
  <2>3. \E pc \in PCs \ {"markCancelled"} : \E inv, read, amount, pool :
           Begin(r, NewCall(pc, inv, read, amount, pool))
    <3>1. {"settle", "refund", "offline", "readPool", "chargeback"} \subseteq PCs \ {"markCancelled"}
      BY DEF PCs
    <3> QED BY <1>4, <3>1
       DEF Call, BeginSettle, BeginCancel, BeginOffline, BeginAdvance, BeginChargeback
  <2> QED BY <2>1, <2>2, <2>3
<1>5. ASSUME RecordSettle(r) \/ RecordOffline(r) \/ ApplyAdvance(r) \/ RecordChargeback(r)
      PROVE  ~At(req'[r]) /\ ~At(req[r])
  BY <1>1, <1>5 DEF RecordSettle, RecordOffline, ApplyAdvance, RecordChargeback, Commit
<1>6. ASSUME Refund(r) PROVE ~At(req'[r]) /\ ~At(req[r])
  <2>1. req'[r] = [req[r] EXCEPT !.pc = "adjust", !.refundRef = req'[r].refundRef] /\ req[r].pc = "refund"
    BY <1>1, <1>6 DEF Refund, Request
  <2> QED BY <1>1, <2>1 DEF Request
<1>7. ASSUME ReadPool(r) PROVE ~At(req'[r]) /\ ~At(req[r])
  <2>1. req'[r] = [req[r] EXCEPT !.pc = "apply", !.pool = Advances] /\ req[r].pc = "readPool"
    BY <1>1, <1>7 DEF ReadPool
  <2> QED BY <1>1, <2>1 DEF Request
<1>8. ASSUME Adjust(r) PROVE ~At(req'[r]) /\ ~At(req[r])
  <2>1. req'[r] = [req[r] EXCEPT !.pc = "markCancelled"] /\ req[r].inv # i
    BY <1>1, <1>8 DEF Adjust, Cancelling
  <2> QED BY <1>1, <2>1 DEF Request
<1>9. ASSUME MarkCancelled(r) PROVE ~At(req'[r]) /\ ~At(req[r])
  BY <1>1, <1>9 DEF MarkCancelled, Cancelling
<1>10. ~Die(r) BY <1>1 DEF Die
<1>11. CASE UNCHANGED vars BY <1>11 DEF vars
<1> QED BY <1>2, <1>3, <1>4, <1>5, <1>6, <1>7, <1>8, <1>9, <1>10, <1>11 DEF Next, Step

\* A payment or a chargeback leaves an invoice's booking and notes alone.
LEMMA PaidDownKeeps ==
    ASSUME NEW row \in Invoice, NEW x
    PROVE  /\ PaidDown(row, row, x).live = row.live /\ PaidDown(row, row, x).noted = row.noted
           /\ PaidDown(row, row, x).status # "NONE"
           /\ PaidDown(row, row, x).paid = row.paid + x /\ PaidDown(row, row, x).mode = row.mode
BY DEF PaidDown, Invoice

LEMMA ReopenedKeeps ==
    ASSUME NEW row \in Invoice, NEW x
    PROVE  /\ Reopened(row, row, x).live = row.live /\ Reopened(row, row, x).noted = row.noted
           /\ Reopened(row, row, x).status # "NONE" /\ Reopened(row, row, x).mode = row.mode
           /\ Reopened(row, row, x).paid = IF row.paid <= x THEN 0 ELSE row.paid - x
BY DEF Reopened, Invoice

Keeps(i) ==
    (Present(i)' <=> Present(i)) /\ invoice'[i].live = invoice[i].live /\ invoice'[i].noted = invoice[i].noted

\* Only its cancellation does not, nor its beginning.
LEMMA NoCancelKeeps ==
    ASSUME Book, [Next]_vars, NEW i \in Invoices, i \notin raced, \A r \in Requests : ~Cancelling(r, i)
    PROVE  Keeps(i) \/ Opens(i)
<1>0. invoice[i] \in Invoice BY Kept DEF Book
<1>1. invoice'[i] = invoice[i] => Keeps(i) BY DEF Keeps, Present
<1>2. ASSUME NEW x, Draws(i, x) PROVE Keeps(i)
  <2>1. invoice'[i] = PaidDown(invoice[i], invoice[i], x) /\ Present(i)
    BY <1>2 DEF Draws, Payable, IsOpen, Present
  <2> QED BY <1>0, <2>1, PaidDownKeeps DEF Keeps, Present
<1>3. ASSUME NEW x, Reopens(i, x) PROVE Keeps(i)
  <2>1. invoice'[i] = Reopened(invoice[i], invoice[i], x) /\ Present(i) BY <1>3 DEF Reopens
  <2> QED BY <1>0, <2>1, ReopenedKeeps DEF Keeps, Present
<1>4. ASSUME NEW r \in Requests, NEW take, NEW fund, NEW got, req[r].pc \in {"offline", "apply"},
             take \in FifoTakes(NeedOf(r), fund), got \in Applied(take, Needy(r), DOMAIN fund),
             PayDownAll(r, got)
      PROVE  Keeps(i)
  <2>1. invoice'[i] = invoice[i] \/ \E x : Draws(i, x) BY <1>4, PayDownMoves
  <2> QED BY <1>1, <1>2, <2>1
<1>5. ASSUME NEW j \in Invoices, Issue(j) \/ Collect(j) PROVE Keeps(i) \/ Opens(i)
  BY <1>1, <1>5, IssueMoves
<1>6. ASSUME NEW r \in Requests, Call(r) \/ Die(r) PROVE Keeps(i) BY <1>1, <1>6, CallMoves
<1>7. ASSUME NEW r \in Requests, Step(r) PROVE Keeps(i)
  <2>1. CASE RecordSettle(r) BY <1>1, <1>2, <2>1, SettleMoves
  <2>2. CASE Refund(r) \/ ReadPool(r) BY <1>1, <2>2, CallMoves
  <2>3. CASE Adjust(r)
    <3>1. i # req[r].inv BY <2>3 DEF Cancelling
    <3> QED BY <1>1, <2>3, <3>1, AdjustMoves
  <2>4. CASE MarkCancelled(r)
    <3>1. i # req[r].inv BY <2>4 DEF Cancelling
    <3> QED BY <1>1, <2>4, <3>1, MarkMoves
  <2>5. CASE RecordOffline(r)
    <3> DEFINE fund == [k \in {0} |-> req[r].amount]
    <3>1. PICK take, got :
            /\ take \in FifoTakes(NeedOf(r), fund) /\ got \in Applied(take, Needy(r), {0})
            /\ PayDownAll(r, got)
      BY <2>5 DEF RecordOffline
    <3>2. DOMAIN fund = {0} /\ req[r].pc = "offline" BY <2>5 DEF RecordOffline
    <3> HIDE DEF fund
    <3> QED BY <1>4, <3>1, <3>2
  <2>6. CASE ApplyAdvance(r)
    <3>1. PICK take, got, rest : Applies(r, take, got, rest) BY <2>6, ApplyDoes
    <3>2. req[r].pc = "apply" BY <2>6 DEF ApplyAdvance
    <3> QED BY <1>4, <3>1, <3>2 DEF Applies
  <2>7. CASE RecordChargeback(r)
    <3>1. PICK p \in Payment : req[r].pool = {p} BY <2>7, ChargebackDoes DEF Disputes
    <3> QED BY <1>1, <1>3, <2>7, <3>1, ChargebackMoves
  <2> QED BY <1>7, <2>1, <2>2, <2>3, <2>4, <2>5, <2>6, <2>7 DEF Step
<1>8. CASE UNCHANGED vars BY <1>1, <1>8 DEF vars
<1> QED BY <1>5, <1>6, <1>7, <1>8 DEF Next

\* Who cancels i has it.
LEMMA CancellingHas ==
    ASSUME Book, NEW r \in Requests, req[r].pc \in {"refund", "adjust", "markCancelled"}, NEW i \in Invoices,
           req[r].inv = i
    PROVE  i \in Has(req[r]) /\ Present(i)
<1>1. Only(req[r]) BY Parts DEF CallFits
<1>2. i \in Has(req[r]) BY <1>1, HasIs DEF Only
<1> QED BY <1>2, Parts DEF Fresh

LEMMA NotedStays ==
    ASSUME Book, Noted, [Next]_vars
    PROVE  Noted'
<1> SUFFICES ASSUME deaths' = 0, NEW i \in Invoices, i \notin raced' PROVE NotedIs(i)'
  BY DEF Noted
<1>1. i \notin raced /\ deaths = 0
  <2>1. deaths \in Nat BY Parts DEF Inv, TypeOK
  <2> QED BY <2>1, RacedStays
<1>2. NotedIs(i) BY <1>1 DEF Noted
<1>3. invoice[i] \in Invoice BY Kept DEF Book
<1>4. ASSUME NEW r \in Requests, Adjust(r), req[r].inv = i PROVE NotedIs(i)'
  <2>1. req[r].pc = "adjust" BY <1>4 DEF Adjust
  <2>2. i \in Has(req[r]) BY <1>4, <2>1, CancellingHas
  <2>3. ~Marking(i)
    <3> SUFFICES ASSUME NEW q \in Requests, req[q].pc = "markCancelled", req[q].inv = i PROVE FALSE
      BY DEF Marking
    <3>1. i \in Has(req[q]) BY CancellingHas
    <3>2. q = r BY <1>1, <2>2, <3>1, Parts DEF Exclusive
    <3> QED BY <2>1, <3>2
  <2>4. Cancels(i, req[r].amount) BY <1>1, <1>4, AdjustMoves
  <2>5. invoice[i].noted = 0 /\ RowsOf("REFUND", i) = {} BY <1>2, <2>3, <2>4 DEF NotedIs, Cancels
  <2>6. req[r].amount \in 0 .. Price /\ invoice'[i].noted = Price - req[r].amount
    <3>1. /\ invoice'[i] = Cancelled(invoice[i], invoice[i], req[r].amount) /\ req[r].amount \in 0 .. Price
      BY <2>4 DEF Cancels
    <3>2. invoice'[i].noted = invoice[i].noted + (Price - req[r].amount) BY <1>3, <3>1, CancelledIs
    <3> QED BY <2>5, <3>1, <3>2, LedgerAssumption
  <2>7. Marking(i)'
    <3>1. req'[r] = [req[r] EXCEPT !.pc = "markCancelled"] /\ req[r] \in Request
      BY <1>4, Kept, Parts DEF Adjust, Book
    <3>2. req'[r].pc = "markCancelled" /\ req'[r].inv = i BY <1>4, <3>1 DEF Request
    <3> QED BY <3>2 DEF Marking
  <2>8. payments' = payments \cup RefundRow(r) BY <1>4 DEF Adjust
  <2>9. RowsOf("REFUND", i)' = {} \/ \E p \in payments' : RowsOf("REFUND", i)' = {p} /\ p.amount = invoice'[i].noted
    <3>1. CASE ~req[r].refundRef
      <4>1. RefundRow(r) = {} BY <3>1 DEF RefundRow
      <4> QED BY <2>5, <2>8, <4>1 DEF RowsOf
    <3>2. CASE req[r].refundRef
      <4>1. PICK p : p = Row("REFUND", i, Price - req[r].amount, "GATEWAY", 0, i, 0) OBVIOUS
      <4>2. p.kind = "REFUND" /\ p.corr = i /\ p.amount = Price - req[r].amount BY <4>1, RowIs
      <4>3. RefundRow(r) = {p} BY <1>4, <3>2, <4>1 DEF RefundRow
      <4>4. RowsOf("REFUND", i)' = {p} /\ p \in payments' BY <2>5, <2>8, <4>2, <4>3 DEF RowsOf
      <4> QED BY <2>6, <4>2, <4>4
    <3> QED BY <3>1, <3>2
  <2>10. invoice'[i].noted <= Price BY <2>6, LedgerAssumption
  <2> QED BY <2>7, <2>9, <2>10 DEF NotedIs
<1>5. ASSUME NEW r \in Requests, MarkCancelled(r), req[r].inv = i PROVE NotedIs(i)'
  <2>1. Marking(i) BY <1>5 DEF MarkCancelled, Marking
  <2>2. Ends(i) BY <1>5, MarkMoves
  <2>3. ~invoice'[i].live /\ invoice'[i].noted = invoice[i].noted /\ Present(i)'
    BY <1>3, <2>2 DEF Ends, Present, Invoice
  <2>4. payments' = payments BY <1>5 DEF MarkCancelled
  <2>5. RowsOf("REFUND", i)' = RowsOf("REFUND", i) BY <2>4 DEF RowsOf
  <2> QED BY <1>2, <2>1, <2>3, <2>4, <2>5 DEF NotedIs
<1>6. CASE \A r \in Requests : ~Cancelling(r, i)
  <2>1. Marking(i)' <=> Marking(i) BY <1>1, <1>6, MarkingSame
  <2>2. RowsOf("REFUND", i)' = RowsOf("REFUND", i) BY <1>6, RefundRowsSame DEF Cancelling
  <2>3. \A p \in payments : RowsOf("REFUND", i) = {p} => p \in payments' BY <2>2 DEF RowsOf
  <2>4. CASE Keeps(i)
    <3>1. /\ Present(i)' <=> Present(i)
          /\ invoice'[i].live = invoice[i].live
          /\ invoice'[i].noted = invoice[i].noted
      BY <2>4 DEF Keeps
    <3>2. CASE (invoice[i].live \/ ~Present(i)) /\ ~Marking(i)
      <4>1. (invoice'[i].live \/ ~Present(i)') /\ ~Marking(i)' BY <2>1, <3>1, <3>2
      <4> QED BY <1>2, <2>2, <3>1, <3>2, <4>1 DEF NotedIs
    <3>3. CASE ~((invoice[i].live \/ ~Present(i)) /\ ~Marking(i))
      <4>1. CASE Marking(i) BY <1>2, <2>1, <2>2, <2>3, <3>1, <3>3, <4>1 DEF NotedIs
      <4>2. CASE ~invoice[i].live /\ Present(i)
        <5>1. ~invoice'[i].live /\ Present(i)' BY <3>1, <4>2
        <5> QED BY <1>2, <2>2, <2>3, <3>1, <4>2, <5>1 DEF NotedIs
      <4> QED BY <3>3, <4>1, <4>2
    <3> QED BY <3>2, <3>3
  <2>5. CASE Opens(i)
    <3>1. ~Marking(i) BY <2>5, CancellingHas DEF Marking, Opens
    <3>2. RowsOf("REFUND", i) = {} BY <1>2, <2>5, <3>1 DEF NotedIs, Opens
    <3>3. invoice'[i].live /\ invoice'[i].noted = 0 BY <2>5 DEF Opens
    <3> QED BY <2>1, <2>2, <3>1, <3>2, <3>3 DEF NotedIs
  <2> QED BY <1>1, <1>6, <2>4, <2>5, NoCancelKeeps
<1> QED BY <1>4, <1>5, <1>6 DEF Cancelling

LEMMA NotedHolds == Spec => [](Book /\ Noted)
<1>1. Init => Book /\ Noted BY BookInit, NotedInit
<1>2. Book /\ Noted /\ [Next]_vars => (Book /\ Noted)' BY BookStays, NotedStays
<1> QED BY <1>1, <1>2, PTL DEF Spec

\* The credit notes of an invoice that no two requests ever had at once never
\* exceed the price, and its refund has its credit note (applyCancellation).
THEOREM RefundIsNotedHolds == Spec => []RefundIsNoted
<1>1. Book /\ Noted => RefundIsNoted
  <2> SUFFICES ASSUME Book, Noted, NEW i \in Invoices, i \notin raced, deaths = 0
               PROVE  invoice[i].noted <= Price /\ Total(RowsOf("REFUND", i)) \in {0, invoice[i].noted}
    BY DEF RefundIsNoted
  <2>1. NotedIs(i) BY DEF Noted
  <2>2. payments \subseteq Payment BY Parts
  <2>3. invoice[i].noted <= Price BY <2>1, LedgerAssumption DEF NotedIs
  <2>4. RowsOf("REFUND", i) = {} \/ \E p \in Payment : RowsOf("REFUND", i) = {p} /\ p.amount = invoice[i].noted
    BY <2>1, <2>2 DEF NotedIs
  <2> QED BY <2>3, <2>4, TotalEmpty, TotalOne
<1> QED BY <1>1, NotedHolds, PTL

-----------------------------------------------------------------------------
(* The gateway's money, in the rows or in the hands of a request.            *)

Takings == {p \in payments : p.kind = "IN" /\ p.via = "GATEWAY"}
Refunds == {p \in payments : p.kind = "REFUND"}

\* Of the requests as s has them: what they captured and have not recorded yet,
\* and what they refunded.
Calls(s) ==
    /\ s \in [Requests -> Request] /\ \A r \in Requests : AmountFits(s[r])
    /\ IsFiniteSet({r \in Requests : s[r].pc # "idle"})
Captured(c) == IF c.pc = "settle" THEN c.amount ELSE 0
Owes(c) == c.pc = "adjust" /\ c.refundRef
Refunded(c) == IF Owes(c) THEN Price - c.amount ELSE 0
Captures(s) == [r \in {r \in Requests : s[r].pc = "settle"} |-> s[r].amount]
Dues(s) == [r \in {r \in Requests : Owes(s[r])} |-> Price - s[r].amount]

Booked ==
    /\ IsFiniteSet(InFlight)
    /\ deaths = 0 => /\ captured = Total(Takings) + SumOf(Captures(req))
                     /\ refunded = Total(Refunds) + SumOf(Dues(req))

\* One that is not counted, and one that is.
LEMMA SumWithout ==
    ASSUME NEW f, Summable(f), NEW x
    PROVE  /\ SumOf([y \in DOMAIN f \ {x} |-> f[y]]) \in Nat
           /\ x \notin DOMAIN f => SumOf(f) = SumOf([y \in DOMAIN f \ {x} |-> f[y]])
           /\ x \in DOMAIN f => SumOf(f) = SumOf([y \in DOMAIN f \ {x} |-> f[y]]) + f[x]
<1> DEFINE g == [y \in DOMAIN f \ {x} |-> f[y]]
           h == [y \in {x} |-> f[x]]
<1>1. Summable(g) /\ DOMAIN g = DOMAIN f \ {x}
  <2>1. IsFiniteSet(DOMAIN f \ {x}) BY FS_Subset DEF Summable
  <2> QED BY <2>1 DEF Summable
<1>2. CASE x \notin DOMAIN f
  <2>1. DOMAIN f \ {x} = DOMAIN f BY <1>2
  <2>2. f = [y \in DOMAIN f |-> f[y]] BY DEF Summable
  <2>3. g = f BY <2>1, <2>2
  <2> QED BY <1>1, <1>2, <2>3, SumType
<1>3. CASE x \in DOMAIN f
  <2>1. f[x] \in Nat /\ IsFiniteSet({x}) BY <1>3, FS_Singleton DEF Summable
  <2>2. Summable(h) /\ DOMAIN h = {x} /\ h[x] = f[x] BY <2>1 DEF Summable
  <2>3. DOMAIN f = DOMAIN g \cup DOMAIN h /\ DOMAIN g \cap DOMAIN h = {} BY <1>1, <1>3, <2>2
  <2>4. (\A y \in DOMAIN g : f[y] = g[y]) /\ (\A y \in DOMAIN h : f[y] = h[y]) OBVIOUS
  <2> HIDE DEF g, h
  <2>5. SumOf(f) = SumOf(g) + SumOf(h) BY ONLY Summable(f), <1>1, <2>2, <2>3, <2>4, SumSplit
  <2>6. SumOf(h) = f[x] BY <2>1, <2>2, SumOne
  <2> QED BY <1>1, <1>3, <2>5, <2>6, SumType DEF g
<1> QED BY <1>2, <1>3

LEMMA CallsSummable ==
    ASSUME NEW s, Calls(s)
    PROVE  Summable(Captures(s)) /\ Summable(Dues(s))
<1> DEFINE C == {r \in Requests : s[r].pc = "settle"}
           D == {r \in Requests : Owes(s[r])}
           A == {r \in Requests : s[r].pc # "idle"}
<1>1. C \subseteq A /\ D \subseteq A /\ IsFiniteSet(A) BY DEF Calls, Owes
<1>2. IsFiniteSet(C) /\ IsFiniteSet(D)
  <2> HIDE DEF A, C, D
  <2> QED BY <1>1, FS_Subset
<1>3. \A r \in C : s[r].amount \in Nat BY DEF Calls, Request
<1>4. \A r \in D : Price - s[r].amount \in Nat
  <2> TAKE r \in D
  <2>1. s[r].amount \in Nat /\ s[r].amount <= Price BY DEF Calls, Request, AmountFits, Owes
  <2> QED BY <2>1, LedgerAssumption
<1> QED BY <1>2, <1>3, <1>4 DEF Summable, Captures, Dues

\* A step of the request r changes the sums by what it does to r.
LEMMA CallMovesSums ==
    ASSUME NEW s, NEW t, Calls(s), Calls(t), NEW r \in Requests, \A q \in Requests \ {r} : t[q] = s[q]
    PROVE  /\ SumOf(Captures(t)) + Captured(s[r]) = SumOf(Captures(s)) + Captured(t[r])
           /\ SumOf(Dues(t)) + Refunded(s[r]) = SumOf(Dues(s)) + Refunded(t[r])
<1> DEFINE without(f) == [y \in DOMAIN f \ {r} |-> f[y]]
<1>1. /\ Summable(Captures(s)) /\ Summable(Captures(t)) /\ Summable(Dues(s)) /\ Summable(Dues(t))
  BY CallsSummable
<1>2. without(Captures(t)) = without(Captures(s)) BY DEF Captures
<1>3. without(Dues(t)) = without(Dues(s)) BY DEF Dues
<1>4. ASSUME NEW u, Calls(u)
      PROVE  /\ SumOf(Captures(u)) = SumOf(without(Captures(u))) + Captured(u[r])
             /\ SumOf(Dues(u)) = SumOf(without(Dues(u))) + Refunded(u[r])
             /\ Captured(u[r]) \in Nat /\ Refunded(u[r]) \in Nat
             /\ SumOf(without(Captures(u))) \in Nat /\ SumOf(without(Dues(u))) \in Nat
  <2>1. Summable(Captures(u)) /\ Summable(Dues(u)) BY <1>4, CallsSummable
  <2>2. /\ r \in DOMAIN Captures(u) <=> u[r].pc = "settle"
        /\ r \in DOMAIN Captures(u) => Captures(u)[r] = u[r].amount /\ Captures(u)[r] \in Nat
    BY <2>1 DEF Captures, Summable
  <2>3. /\ r \in DOMAIN Dues(u) <=> Owes(u[r])
        /\ r \in DOMAIN Dues(u) => Dues(u)[r] = Price - u[r].amount /\ Dues(u)[r] \in Nat
    BY <2>1 DEF Dues, Summable
  <2>4. /\ SumOf(without(Captures(u))) \in Nat
        /\ r \notin DOMAIN Captures(u) => SumOf(Captures(u)) = SumOf(without(Captures(u)))
        /\ r \in DOMAIN Captures(u) => SumOf(Captures(u)) = SumOf(without(Captures(u))) + Captures(u)[r]
    BY <2>1, SumWithout
  <2>5. /\ SumOf(without(Dues(u))) \in Nat
        /\ r \notin DOMAIN Dues(u) => SumOf(Dues(u)) = SumOf(without(Dues(u)))
        /\ r \in DOMAIN Dues(u) => SumOf(Dues(u)) = SumOf(without(Dues(u))) + Dues(u)[r]
    BY <2>1, SumWithout
  <2> HIDE DEF without
  <2>6. SumOf(Captures(u)) = SumOf(without(Captures(u))) + Captured(u[r]) /\ Captured(u[r]) \in Nat
    BY <2>2, <2>4 DEF Captured
  <2>7. SumOf(Dues(u)) = SumOf(without(Dues(u))) + Refunded(u[r]) /\ Refunded(u[r]) \in Nat
    BY <2>3, <2>5 DEF Refunded
  <2> QED BY <2>4, <2>5, <2>6, <2>7
<1> HIDE DEF without
<1>5. /\ SumOf(Captures(s)) = SumOf(without(Captures(s))) + Captured(s[r])
      /\ SumOf(Captures(t)) = SumOf(without(Captures(s))) + Captured(t[r])
      /\ Captured(s[r]) \in Nat /\ Captured(t[r]) \in Nat /\ SumOf(without(Captures(s))) \in Nat
  BY <1>2, <1>4
<1>6. /\ SumOf(Dues(s)) = SumOf(without(Dues(s))) + Refunded(s[r])
      /\ SumOf(Dues(t)) = SumOf(without(Dues(s))) + Refunded(t[r])
      /\ Refunded(s[r]) \in Nat /\ Refunded(t[r]) \in Nat /\ SumOf(without(Dues(s))) \in Nat
  BY <1>3, <1>4
<1> QED BY <1>5, <1>6

LEMMA BookedInit == Init => Booked
<1> SUFFICES ASSUME Init PROVE Booked OBVIOUS
<1>1. payments = {} /\ captured = 0 /\ refunded = 0 /\ \A r \in Requests : req[r].pc = "idle"
  BY IdleHasNone DEF Init
<1>2. InFlight = {} BY <1>1 DEF InFlight
<1>3. DOMAIN Captures(req) = {} /\ DOMAIN Dues(req) = {} BY <1>1 DEF Captures, Dues, Owes
<1>4. SumOf(Captures(req)) = 0 /\ SumOf(Dues(req)) = 0 BY <1>3, SumEmpty
<1>5. Takings = {} /\ Refunds = {} BY <1>1 DEF Takings, Refunds
<1>6. Total(Takings) = 0 /\ Total(Refunds) = 0 BY <1>5, TotalEmpty
<1> QED BY <1>1, <1>2, <1>4, <1>6, FS_EmptySet DEF Booked

LEMMA RowIsNew == ASSUME Book, NEW p, p.id[1] = clock + 1 PROVE p \notin payments
<1>1. ASSUME NEW q \in payments PROVE q.id[1] \in Nat /\ q.id[1] <= clock
  BY Parts DEF Table, RowFits, Payment
<1> QED BY <1>1, Parts

LEMMA MoneyTyped ==
    ASSUME Book
    PROVE  /\ captured \in Nat /\ refunded \in Nat /\ received \in Nat
           /\ Total(Takings) \in Nat /\ Total(Refunds) \in Nat
           /\ IsFiniteSet(Takings) /\ IsFiniteSet(Refunds)
           /\ Takings \subseteq payments /\ Refunds \subseteq payments
           /\ IsFiniteSet(InFlight) => Calls(req)
<1>1. Takings \subseteq payments /\ Refunds \subseteq payments BY DEF Takings, Refunds
<1>2. IsFiniteSet(Takings) /\ IsFiniteSet(Refunds) BY <1>1, Parts, FS_Subset
<1>3. Total(Takings) \in Nat /\ Total(Refunds) \in Nat BY <1>1, <1>2, Parts, TotalType
<1>4. IsFiniteSet(InFlight) => Calls(req) BY Kept DEF Book, Inv, Calls, InFlight
<1> QED BY <1>1, <1>2, <1>3, <1>4, Parts DEF Inv, TypeOK

LEMMA MoneyTypedNext ==
    ASSUME Book'
    PROVE  /\ captured' \in Nat /\ refunded' \in Nat /\ payments' \subseteq Payment
           /\ Total(Takings') \in Nat /\ Total(Refunds') \in Nat
           /\ IsFiniteSet(InFlight') => Calls(req')
<1>1. payments' \subseteq Payment /\ IsFiniteSet(payments') /\ captured' \in Nat /\ refunded' \in Nat
  BY DEF Book, Inv, TypeOK, Table
<1>2. Takings' \subseteq payments' /\ Refunds' \subseteq payments' BY DEF Takings, Refunds
<1>3. IsFiniteSet(Takings') /\ IsFiniteSet(Refunds') BY <1>1, <1>2, FS_Subset
<1>4. Total(Takings') \in Nat /\ Total(Refunds') \in Nat BY <1>1, <1>2, <1>3, TotalType
<1>5. IsFiniteSet(InFlight') => Calls(req') BY DEF Book, Inv, TypeOK, Calls, InFlight
<1> QED BY <1>1, <1>4, <1>5

\* A request moves on, and with it the money.
LEMMA BookedMoves ==
    ASSUME Book, Book', Booked, NEW r \in Requests, \A q \in Requests \ {r} : req'[q] = req[q],
           deaths' = deaths,
           captured' + Total(Takings) + Captured(req[r]) = captured + Total(Takings') + Captured(req'[r]),
           refunded' + Total(Refunds) + Refunded(req[r]) = refunded + Total(Refunds') + Refunded(req'[r])
    PROVE  Booked'
<1>1. IsFiniteSet(InFlight')
  <2>1. InFlight' \subseteq InFlight \cup {r} BY DEF InFlight
  <2>2. IsFiniteSet(InFlight \cup {r}) BY FS_AddElement DEF Booked
  <2> QED BY <2>1, <2>2, FS_Subset
<1>2. Calls(req) BY MoneyTyped DEF Booked
<1>3. Calls(req') BY <1>1, MoneyTypedNext
<1>4. /\ captured' \in Nat /\ refunded' \in Nat /\ Total(Takings') \in Nat /\ Total(Refunds') \in Nat
  BY MoneyTypedNext
<1>5. captured \in Nat /\ refunded \in Nat /\ Total(Takings) \in Nat /\ Total(Refunds) \in Nat
  BY MoneyTyped
<1>6. /\ SumOf(Captures(req')) + Captured(req[r]) = SumOf(Captures(req)) + Captured(req'[r])
      /\ SumOf(Dues(req')) + Refunded(req[r]) = SumOf(Dues(req)) + Refunded(req'[r])
  BY <1>2, <1>3, CallMovesSums
<1>7. /\ SumOf(Captures(req)) \in Nat /\ SumOf(Captures(req')) \in Nat
      /\ SumOf(Dues(req)) \in Nat /\ SumOf(Dues(req')) \in Nat
  BY <1>2, <1>3, CallsSummable, SumType
<1>8. Captured(req[r]) \in Int /\ Captured(req'[r]) \in Int
  BY <1>2, <1>3 DEF Captured, Calls, Request
<1>9. Refunded(req[r]) \in Int /\ Refunded(req'[r]) \in Int
  BY <1>2, <1>3, LedgerAssumption DEF Refunded, Calls, Request
<1>a. captured' + Total(Takings) + Captured(req[r]) = captured + Total(Takings') + Captured(req'[r])
  OBVIOUS
<1>b. refunded' + Total(Refunds) + Refunded(req[r]) = refunded + Total(Refunds') + Refunded(req'[r])
  OBVIOUS
<1>10. ASSUME deaths = 0 PROVE captured' = Total(Takings') + SumOf(Captures(req'))
  <2>1. captured = Total(Takings) + SumOf(Captures(req)) BY <1>10 DEF Booked
  <2>2. PICK cn : cn = captured' OBVIOUS
  <2>3. PICK tn : tn = Total(Takings') OBVIOUS
  <2>4. PICK sn : sn = SumOf(Captures(req')) OBVIOUS
  <2>5. PICK dn : dn = Captured(req'[r]) OBVIOUS
  <2>6. PICK d : d = Captured(req[r]) OBVIOUS
  <2>7. cn \in Nat /\ tn \in Nat BY ONLY <1>4, <2>2, <2>3
  <2>8. sn \in Nat /\ SumOf(Captures(req)) \in Nat BY ONLY <1>7, <2>4
  <2>9. d \in Int /\ dn \in Int BY ONLY <1>8, <2>5, <2>6
  <2>10. cn + Total(Takings) + d = captured + tn + dn BY ONLY <1>a, <2>2, <2>3, <2>5, <2>6
  <2>11. sn + d = SumOf(Captures(req)) + dn BY ONLY <1>6, <2>4, <2>5, <2>6
  <2>12. cn = tn + sn BY ONLY <2>1, <1>5, <2>7, <2>8, <2>9, <2>10, <2>11
  <2> QED BY ONLY <2>2, <2>3, <2>4, <2>12
<1>11. ASSUME deaths = 0 PROVE refunded' = Total(Refunds') + SumOf(Dues(req'))
  <2>1. refunded = Total(Refunds) + SumOf(Dues(req)) BY <1>11 DEF Booked
  <2>2. PICK cn : cn = refunded' OBVIOUS
  <2>3. PICK tn : tn = Total(Refunds') OBVIOUS
  <2>4. PICK sn : sn = SumOf(Dues(req')) OBVIOUS
  <2>5. PICK dn : dn = Refunded(req'[r]) OBVIOUS
  <2>6. PICK d : d = Refunded(req[r]) OBVIOUS
  <2>7. cn \in Nat /\ tn \in Nat BY ONLY <1>4, <2>2, <2>3
  <2>8. sn \in Nat /\ SumOf(Dues(req)) \in Nat BY ONLY <1>7, <2>4
  <2>9. d \in Int /\ dn \in Int BY ONLY <1>9, <2>5, <2>6
  <2>10. cn + Total(Refunds) + d = refunded + tn + dn BY ONLY <1>b, <2>2, <2>3, <2>5, <2>6
  <2>11. sn + d = SumOf(Dues(req)) + dn BY ONLY <1>6, <2>4, <2>5, <2>6
  <2>12. cn = tn + sn BY ONLY <2>1, <1>5, <2>7, <2>8, <2>9, <2>10, <2>11
  <2> QED BY ONLY <2>2, <2>3, <2>4, <2>12
<1> QED BY <1>1, <1>10, <1>11 DEF Booked

\* No money does.
LEMMA BookedSame ==
    ASSUME Book, Book', Booked, NEW r \in Requests, \A q \in Requests \ {r} : req'[q] = req[q],
           deaths' = deaths, captured' = captured, refunded' = refunded,
           Takings' = Takings, Refunds' = Refunds,
           Captured(req'[r]) = Captured(req[r]), Refunded(req'[r]) = Refunded(req[r])
    PROVE  Booked'
<1>1. Total(Takings') = Total(Takings) /\ Total(Refunds') = Total(Refunds) BY DEF Total
<1> QED BY <1>1, BookedMoves

LEMMA CallBooked ==
    ASSUME Book, Book', Booked, NEW r \in Requests, Call(r)
    PROVE  Booked'
<1>1. req \in [Requests -> Request] BY Kept DEF Book
<1>2. payments' = payments /\ refunded' = refunded /\ deaths' = deaths
  BY DEF Call, BeginSettle, BeginCancel, BeginOffline, BeginAdvance, BeginChargeback, Begin
<1>3. Takings' = Takings /\ Refunds' = Refunds BY <1>2 DEF Takings, Refunds
<1>4. \A loc : Begin(r, loc) => /\ req'[r] = loc /\ req[r].pc = "idle"
                                /\ \A q \in Requests \ {r} : req'[q] = req[q]
  BY <1>1 DEF Begin
<1>5. \A pc, inv, read, amount, pool :
         /\ NewCall(pc, inv, read, amount, pool).pc = pc
         /\ NewCall(pc, inv, read, amount, pool).amount = amount
         /\ NewCall(pc, inv, read, amount, pool).refundRef = FALSE
  BY DEF NewCall
<1>6. ASSUME NEW pc \in {"refund", "offline", "readPool", "chargeback"}, NEW inv, NEW read, NEW amount,
             NEW pool, Begin(r, NewCall(pc, inv, read, amount, pool)), captured' = captured
      PROVE  Booked'
  <2>1. /\ Captured(req'[r]) = 0 /\ Captured(req[r]) = 0
        /\ Refunded(req'[r]) = 0 /\ Refunded(req[r]) = 0
    BY <1>4, <1>5, <1>6 DEF Captured, Refunded, Owes
  <2> QED BY <1>2, <1>3, <1>4, <1>6, <2>1, BookedSame
<1>7. ASSUME NEW i \in Invoices, NEW x \in 1 .. Price, BeginSettle(r, i, x) PROVE Booked'
  <2>1. Begin(r, NewCall("settle", i, Rows({i}), x, {})) /\ captured' = captured + x
    BY <1>7 DEF BeginSettle
  <2>2. /\ Captured(req'[r]) = x /\ Captured(req[r]) = 0
        /\ Refunded(req'[r]) = 0 /\ Refunded(req[r]) = 0
    BY <1>4, <1>5, <2>1 DEF Captured, Refunded, Owes
  <2>3. Total(Takings') = Total(Takings) /\ Total(Refunds') = Total(Refunds) BY <1>3 DEF Total
  <2>4. x \in Nat /\ captured \in Nat /\ Total(Takings) \in Nat BY MoneyTyped, LedgerAssumption
  <2>5. captured' + Total(Takings) + Captured(req[r]) = captured + Total(Takings') + Captured(req'[r])
    BY <2>1, <2>2, <2>3, <2>4
  <2> QED BY <1>2, <1>4, <2>1, <2>2, <2>3, <2>5, BookedMoves
<1>8. ASSUME NEW i \in Invoices, NEW c, BeginCancel(r, i, c) PROVE Booked'
  BY <1>6, <1>8 DEF BeginCancel
<1>9. ASSUME NEW x, BeginOffline(r, x) PROVE Booked' BY <1>6, <1>9 DEF BeginOffline
<1>10. ASSUME BeginAdvance(r) PROVE Booked' BY <1>6, <1>10 DEF BeginAdvance
<1>11. ASSUME NEW p \in payments, BeginChargeback(r, p) PROVE Booked'
  BY <1>6, <1>11 DEF BeginChargeback
<1> QED BY <1>7, <1>8, <1>9, <1>10, <1>11 DEF Call

LEMMA CollectBooked ==
    ASSUME Book, Book', Booked, NEW i \in Invoices, Collect(i)
    PROVE  Booked'
<1>1. PICK p : p = Row("IN", i, Price, "GATEWAY", clock + 1, i, 0) OBVIOUS
<1>2. /\ captured' = captured + Price /\ refunded' = refunded /\ req' = req /\ deaths' = deaths
      /\ payments' = payments \cup {p}
  BY <1>1 DEF Collect
<1>3. p.kind = "IN" /\ p.via = "GATEWAY" /\ p.amount = Price /\ p.id[1] = clock + 1 BY <1>1, RowIs
<1>4. p \notin Takings BY <1>3, RowIsNew, MoneyTyped
<1>5. Takings' = Takings \cup {p} /\ Refunds' = Refunds BY <1>2, <1>3 DEF Takings, Refunds
<1>6. p \in Payment
  <2>1. payments' \subseteq Payment BY MoneyTypedNext
  <2> QED BY <1>2, <2>1
<1>7. Total(Takings') = Total(Takings) + Price /\ Total(Refunds') = Total(Refunds)
  <2>1. Takings \in SUBSET Payment /\ IsFiniteSet(Takings) BY Parts, MoneyTyped
  <2>2. Total(Takings \cup {p}) = Total(Takings) + p.amount BY <1>4, <1>6, <2>1, TotalAdd
  <2> QED BY <1>3, <1>5, <2>2 DEF Total
<1>8. SumOf(Captures(req')) \in Nat
  <2>1. Calls(req) BY MoneyTyped DEF Booked
  <2> QED BY <1>2, <2>1, CallsSummable, SumType
<1> QED BY <1>2, <1>7, <1>8, MoneyTyped, LedgerAssumption DEF Booked, InFlight

LEMMA StepBooked ==
    ASSUME Book, Book', Booked, NEW r \in Requests, Step(r)
    PROVE  Booked'
<1>1. req \in [Requests -> Request] /\ Idle.pc = "idle" /\ payments' \subseteq Payment
  BY Kept, IdleHasNone, MoneyTypedNext DEF Book
<1>2. Captured(Idle) = 0 /\ Refunded(Idle) = 0 BY <1>1 DEF Captured, Refunded, Owes
<1>3. req[r] \in Request BY <1>1
<1>4. ASSUME RecordOffline(r) \/ ApplyAdvance(r) \/ RecordChargeback(r) \/ MarkCancelled(r) PROVE Booked'
  <2>1. req' = [req EXCEPT ![r] = Idle] /\ deaths' = deaths /\ captured' = captured /\ refunded' = refunded
        /\ req[r].pc \notin {"settle", "adjust"}
    BY <1>4 DEF RecordOffline, ApplyAdvance, RecordChargeback, MarkCancelled, Commit
  <2>2. /\ req'[r] = Idle /\ \A q \in Requests \ {r} : req'[q] = req[q] BY <1>1, <2>1
  <2>3. Captured(req[r]) = 0 /\ Refunded(req[r]) = 0 BY <2>1 DEF Captured, Refunded, Owes
  <2>4. Takings' = Takings /\ Refunds' = Refunds
    <3>1. CASE RecordOffline(r)
      <4>1. payments \subseteq payments' /\ \A x \in payments' :
               x \in payments \/ (x.kind = "IN" /\ x.via \in {"OFFLINE", "ADVANCE"})
        BY <3>1, OfflineRows
      <4> QED BY <4>1 DEF Takings, Refunds
    <3>2. CASE ApplyAdvance(r)
      <4>1. \A x : Fixed(x) => (x \in payments <=> x \in payments') BY <3>2, AppliedFixed
      <4> QED BY <4>1 DEF Takings, Refunds, Fixed
    <3>3. CASE RecordChargeback(r)
      <4>1. PICK p \in Payment : payments' = payments \cup
                {Row("CHARGEBACK", p.corr, p.amount, p.via, p.capture, 0, 0)}
        BY <3>3, ChargebackDoes
      <4>2. Row("CHARGEBACK", p.corr, p.amount, p.via, p.capture, 0, 0).kind = "CHARGEBACK" BY DEF Row
      <4> QED BY <4>1, <4>2 DEF Takings, Refunds
    <3>4. CASE MarkCancelled(r) BY <3>4 DEF MarkCancelled, Takings, Refunds
    <3> QED BY <1>4, <3>1, <3>2, <3>3, <3>4
  <2> QED BY <1>2, <2>1, <2>2, <2>3, <2>4, BookedSame
<1>5. ASSUME ReadPool(r) PROVE Booked'
  <2>1. req'[r] = [req[r] EXCEPT !.pc = "apply", !.pool = Advances] /\ req[r].pc = "readPool"
        /\ deaths' = deaths /\ captured' = captured /\ refunded' = refunded /\ payments' = payments
        /\ \A q \in Requests \ {r} : req'[q] = req[q]
    BY <1>1, <1>5 DEF ReadPool
  <2>2. req'[r].pc = "apply" BY <1>3, <2>1 DEF Request
  <2>3. /\ Captured(req[r]) = 0 /\ Refunded(req[r]) = 0 /\ Captured(req'[r]) = 0 /\ Refunded(req'[r]) = 0
    BY <2>1, <2>2 DEF Captured, Refunded, Owes
  <2>4. Takings' = Takings /\ Refunds' = Refunds BY <2>1 DEF Takings, Refunds
  <2> QED BY <2>1, <2>3, <2>4, BookedSame
<1>6. ASSUME Refund(r) PROVE Booked'
  <2>1. PICK ref \in BOOLEAN :
          /\ refunded' = IF ref THEN refunded + (Price - req[r].amount) ELSE refunded
          /\ req' = [req EXCEPT ![r].pc = "adjust", ![r].refundRef = ref]
    BY <1>6 DEF Refund
  <2>2. req'[r] = [req[r] EXCEPT !.pc = "adjust", !.refundRef = ref]
        /\ \A q \in Requests \ {r} : req'[q] = req[q]
    BY <1>1, <2>1
  <2>3. req'[r].pc = "adjust" /\ req'[r].refundRef = ref /\ req'[r].amount = req[r].amount
    BY <1>3, <2>2 DEF Request
  <2>4. req[r].pc = "refund" /\ deaths' = deaths /\ captured' = captured /\ payments' = payments
    BY <1>6 DEF Refund
  <2>5. /\ Captured(req[r]) = 0 /\ Refunded(req[r]) = 0 /\ Captured(req'[r]) = 0
        /\ Refunded(req'[r]) = IF ref THEN Price - req[r].amount ELSE 0
    BY <2>3, <2>4 DEF Captured, Refunded, Owes
  <2>6. Total(Takings') = Total(Takings) /\ Total(Refunds') = Total(Refunds)
    BY <2>4 DEF Total, Takings, Refunds
  <2>7. req[r].amount \in Nat /\ refunded \in Nat /\ Total(Refunds) \in Nat /\ Price \in Nat
        /\ captured \in Nat /\ Total(Takings) \in Nat
    BY <1>3, MoneyTyped, LedgerAssumption DEF Request
  <2>8. refunded' + Total(Refunds) + Refunded(req[r]) = refunded + Total(Refunds') + Refunded(req'[r])
    BY <2>1, <2>5, <2>6, <2>7
  <2>9. captured' + Total(Takings) + Captured(req[r]) = captured + Total(Takings') + Captured(req'[r])
    BY <2>4, <2>5, <2>6, <2>7
  <2> QED BY <2>2, <2>4, <2>8, <2>9, BookedMoves
<1>7. ASSUME Adjust(r) PROVE Booked'
  <2>1. /\ req'[r] = [req[r] EXCEPT !.pc = "markCancelled"] /\ \A q \in Requests \ {r} : req'[q] = req[q]
        /\ req[r].pc = "adjust" /\ deaths' = deaths /\ captured' = captured /\ refunded' = refunded
        /\ payments' = payments \cup RefundRow(r)
    BY <1>1, <1>7 DEF Adjust
  <2>2. req'[r].pc = "markCancelled" BY <1>3, <2>1 DEF Request
  <2>3. /\ Captured(req[r]) = 0 /\ Captured(req'[r]) = 0 /\ Refunded(req'[r]) = 0
        /\ Refunded(req[r]) = IF req[r].refundRef THEN Price - req[r].amount ELSE 0
    BY <2>1, <2>2 DEF Captured, Refunded, Owes
  <2>4. CASE ~req[r].refundRef
    <3>1. RefundRow(r) = {} BY <2>4 DEF RefundRow
    <3>2. Takings' = Takings /\ Refunds' = Refunds BY <2>1, <3>1 DEF Takings, Refunds
    <3> QED BY <2>1, <2>3, <2>4, <3>2, BookedSame
  <2>5. CASE req[r].refundRef
    <3>1. PICK p : p = Row("REFUND", req[r].inv, Price - req[r].amount, "GATEWAY", 0, req[r].inv, 0) OBVIOUS
    <3>2. p.kind = "REFUND" /\ p.amount = Price - req[r].amount /\ p.id[1] = clock + 1 BY <3>1, RowIs
    <3>3. payments' = payments \cup {p} BY <2>1, <2>5, <3>1 DEF RefundRow
    <3>4. Takings' = Takings /\ Refunds' = Refunds \cup {p} BY <3>2, <3>3 DEF Takings, Refunds
    <3>5. p \notin Refunds /\ p \in Payment BY <1>1, <3>2, <3>3, RowIsNew, MoneyTyped
    <3>6. Total(Refunds \cup {p}) = Total(Refunds) + p.amount
      <4>1. Refunds \in SUBSET Payment /\ IsFiniteSet(Refunds) BY Parts, MoneyTyped
      <4> QED BY <3>5, <4>1, TotalAdd
    <3>7. Total(Takings') = Total(Takings) /\ Total(Refunds') = Total(Refunds) + (Price - req[r].amount)
      BY <3>2, <3>4, <3>6 DEF Total
    <3>8. req[r].amount \in Nat /\ refunded \in Nat /\ Total(Refunds) \in Nat /\ Price \in Nat
          /\ captured \in Nat /\ Total(Takings) \in Nat
      BY <1>3, MoneyTyped, LedgerAssumption DEF Request
    <3>9. refunded' + Total(Refunds) + Refunded(req[r]) = refunded + Total(Refunds') + Refunded(req'[r])
      BY <2>1, <2>3, <2>5, <3>7, <3>8
    <3>10. captured' + Total(Takings) + Captured(req[r]) = captured + Total(Takings') + Captured(req'[r])
      BY <2>1, <2>3, <3>7, <3>8
    <3> QED BY <2>1, <3>9, <3>10, BookedMoves
  <2> QED BY <2>4, <2>5
<1>8. ASSUME RecordSettle(r) PROVE Booked'
  <2>1. PICK p : p = Row("IN", req[r].inv, req[r].amount, "GATEWAY", clock + 1, req[r].inv, 0) OBVIOUS
  <2>2. /\ req' = [req EXCEPT ![r] = Idle] /\ deaths' = deaths /\ captured' = captured
        /\ refunded' = refunded /\ req[r].pc = "settle" /\ payments' = payments \cup {p}
    BY <1>8, <2>1 DEF RecordSettle, Commit
  <2>3. p.kind = "IN" /\ p.via = "GATEWAY" /\ p.amount = req[r].amount /\ p.id[1] = clock + 1
    BY <2>1, RowIs
  <2>4. req'[r] = Idle /\ \A q \in Requests \ {r} : req'[q] = req[q] BY <1>1, <2>2
  <2>5. Captured(req[r]) = req[r].amount /\ Refunded(req[r]) = 0 BY <2>2 DEF Captured, Refunded, Owes
  <2>6. Takings' = Takings \cup {p} /\ Refunds' = Refunds BY <2>2, <2>3 DEF Takings, Refunds
  <2>7. p \notin Takings /\ p \in Payment BY <1>1, <2>2, <2>3, RowIsNew, MoneyTyped
  <2>8. Total(Takings \cup {p}) = Total(Takings) + p.amount
    <3>1. Takings \in SUBSET Payment /\ IsFiniteSet(Takings) BY Parts, MoneyTyped
    <3> QED BY <2>7, <3>1, TotalAdd
  <2>9. Total(Takings') = Total(Takings) + req[r].amount /\ Total(Refunds') = Total(Refunds)
    BY <2>3, <2>6, <2>8 DEF Total
  <2>10. req[r].amount \in Nat /\ refunded \in Nat /\ Total(Refunds) \in Nat
         /\ captured \in Nat /\ Total(Takings) \in Nat
    BY <1>3, MoneyTyped DEF Request
  <2>11. captured' + Total(Takings) + Captured(req[r]) = captured + Total(Takings') + Captured(req'[r])
    BY <1>2, <2>2, <2>4, <2>5, <2>9, <2>10
  <2>12. refunded' + Total(Refunds) + Refunded(req[r]) = refunded + Total(Refunds') + Refunded(req'[r])
    BY <1>2, <2>2, <2>4, <2>5, <2>9, <2>10
  <2> QED BY <2>2, <2>4, <2>11, <2>12, BookedMoves
<1> QED BY <1>4, <1>5, <1>6, <1>7, <1>8 DEF Step

LEMMA BookedStays ==
    ASSUME Book, Book', Booked, [Next]_vars
    PROVE  Booked'
<1>1. ASSUME NEW i \in Invoices, Issue(i) PROVE Booked'
  <2>1. UNCHANGED <<payments, captured, refunded, req, deaths>> BY <1>1 DEF Issue
  <2> QED BY <2>1 DEF Booked, InFlight, Takings, Refunds, Total
<1>2. ASSUME NEW r \in Requests, Die(r) PROVE Booked'
  <2>1. deaths' # 0 BY <1>2, Parts DEF Die, Inv, TypeOK
  <2>2. InFlight' \subseteq InFlight BY <1>2, Kept, IdleHasNone DEF Die, InFlight, Book
  <2>3. IsFiniteSet(InFlight') BY <2>2, FS_Subset DEF Booked
  <2> QED BY <2>1, <2>3 DEF Booked
<1>3. CASE UNCHANGED vars
  <2>1. UNCHANGED <<payments, captured, refunded, req, deaths>> BY <1>3 DEF vars
  <2> QED BY <2>1 DEF Booked, InFlight, Takings, Refunds, Total
<1> QED BY <1>1, <1>2, <1>3, CollectBooked, CallBooked, StepBooked DEF Next

LEMMA BookedHolds == Spec => [](Book /\ Booked)
<1>1. Init => Book /\ Booked BY BookInit, BookedInit
<1>2. Book /\ Booked /\ [Next]_vars => (Book /\ Booked)' BY BookStays, BookedStays
<1> QED BY <1>1, <1>2, PTL DEF Spec

\* Once every call is answered, and none died on the way, what the gateway
\* captured less what it refunded is what the rows say, however the calls raced:
\* until its row is written, the money is in the hands of one request.
THEOREM GatewayBookedHolds == Spec => []GatewayBooked
<1>1. Book /\ Booked => GatewayBooked
  <2> SUFFICES ASSUME Book, Booked, InFlight = {}, deaths = 0
               PROVE  captured - refunded = Total({p \in payments : p.kind = "IN" /\ p.via = "GATEWAY"})
                                            - Total({p \in payments : p.kind = "REFUND"})
    BY DEF GatewayBooked
  <2>1. \A r \in Requests : req[r].pc = "idle" BY DEF InFlight
  <2>2. DOMAIN Captures(req) = {} /\ DOMAIN Dues(req) = {} BY <2>1 DEF Captures, Dues, Owes
  <2>3. SumOf(Captures(req)) = 0 /\ SumOf(Dues(req)) = 0 BY <2>2, SumEmpty
  <2>4. captured = Total(Takings) /\ refunded = Total(Refunds) BY <2>3, MoneyTyped DEF Booked
  <2> QED BY <2>4 DEF Takings, Refunds
<1> QED BY <1>1, BookedHolds, PTL

-----------------------------------------------------------------------------
(* What becomes of an advance, when the pool is still what was read of it.   *)

LEMMA LastExists ==
    ASSUME NEW S \in SUBSET Invoices, S # {}
    PROVE  Last(S) # {}
<1> DEFINE U == {NumInvoices - i : i \in S}
           R == OpToRel(<, Nat)
<1>1. U \subseteq Nat /\ U # {} /\ \A i \in S : i \in Int
  <2>1. \A i \in S : i \in Int /\ NumInvoices - i \in Nat BY LedgerAssumption DEF Invoices
  <2>2. PICK i : i \in S OBVIOUS
  <2>3. NumInvoices - i \in U BY <2>2
  <2> QED BY <2>1, <2>3
<1>2. \A x, y \in Nat : x < y => <<x, y>> \in R BY DEF OpToRel
<1>3. IsWellFoundedOn(R, Nat) BY NatLessThanWellFounded
<1> HIDE DEF R, U
<1>4. PICK x \in U : \A y \in U : <<y, x>> \notin R BY <1>1, <1>3, WFMin
<1>5. PICK i \in S : x = NumInvoices - i BY DEF U
<1>6. ASSUME NEW j \in S PROVE j <= i
  <2>1. NumInvoices - j \in U /\ NumInvoices - j \in Nat /\ x \in Nat BY <1>1 DEF U
  <2>2. ~(NumInvoices - j < x) BY <1>2, <1>4, <2>1
  <2> QED BY <1>1, <1>5, <2>1, <2>2, LedgerAssumption
<1> QED BY <1>6 DEF Last

\* Rows that are to hold the values of f, one each.
LEMMA TotalOfPieces ==
    ASSUME NEW f, Summable(f), NEW row, DOMAIN row = DOMAIN f, NEW S,
           S = {row[x] : x \in {y \in DOMAIN f : f[y] > 0}},
           \A x \in DOMAIN f : f[x] > 0 => row[x] \in Payment /\ row[x].amount = f[x],
           \A x, y \in DOMAIN f : f[x] > 0 /\ f[y] > 0 /\ row[x] = row[y] => x = y
    PROVE  S \subseteq Payment /\ IsFiniteSet(S) /\ Total(S) = SumOf(f)
<1> DEFINE D == {y \in DOMAIN f : f[y] > 0}
           g == [x \in DOMAIN f |-> IF f[x] > 0 THEN {row[x]} ELSE {}]
           w == [p \in S |-> p.amount]
           h == [x \in D |-> row[x]]
<1>1. S \subseteq Payment OBVIOUS
<1>2. IsFiniteSet(S)
  <2>1. IsFiniteSet(D) BY FS_Subset DEF Summable
  <2>2. DOMAIN h = D /\ S = {h[x] : x \in D} OBVIOUS
  <2> HIDE DEF D, h
  <2> QED BY <2>1, <2>2, FiniteImage
<1>3. Summable(w) /\ Total(S) = SumOf(w) BY <1>1, <1>2, TotalType DEF Total
<1>4. DOMAIN g = DOMAIN f /\ DOMAIN w = S OBVIOUS
<1>5. S = UNION {g[x] : x \in DOMAIN f} OBVIOUS
<1>6. \A x, y \in DOMAIN f : x # y => g[x] \cap g[y] = {} OBVIOUS
<1>7. ASSUME NEW x \in DOMAIN f PROVE SumOf([p \in g[x] |-> w[p]]) = f[x]
  <2>1. CASE f[x] > 0
    <3>1. g[x] = {row[x]} /\ row[x] \in S BY <2>1
    <3>2. w[row[x]] = f[x] /\ f[x] \in Nat BY <2>1, <3>1 DEF Summable
    <3> DEFINE u == [p \in g[x] |-> w[p]]
    <3>3. DOMAIN u = {row[x]} /\ u[row[x]] = f[x] BY <3>1, <3>2
    <3> HIDE DEF u, g, w
    <3>4. SumOf(u) = f[x] BY <3>2, <3>3, SumOne
    <3> QED BY <3>4 DEF u
  <2>2. CASE ~(f[x] > 0)
    <3>1. f[x] = 0 /\ g[x] = {} BY <2>2 DEF Summable
    <3> DEFINE u == [p \in g[x] |-> w[p]]
    <3>2. DOMAIN u = {} BY <3>1
    <3> HIDE DEF u, g, w
    <3>3. SumOf(u) = 0 BY <3>2, SumEmpty
    <3> QED BY <3>1, <3>3 DEF u
  <2> QED BY <2>1, <2>2
<1> HIDE DEF g, w
<1>8. SumOf(w) = SumOf(f) BY ONLY Summable(f), <1>3, <1>4, <1>5, <1>6, <1>7, SumGrouped
<1> QED BY <1>1, <1>2, <1>3, <1>8

PoolRow(pool, k) == CHOOSE p \in pool : p.id[1] = k
Left(pool, rest, k) == Shrunk(PoolRow(pool, k), rest[k])
Piece(pool, B, take, rest, k, i) ==
    IF i \in Splits(B, take, rest, k) THEN Slice(take, k, i)
    ELSE Relink(PoolRow(pool, k), PoolRow(pool, k), i, take[i][k])

\* What the fund k becomes: a piece for each taker, and what is left.
Pieces(pool, B, take, rest, k) ==
    {Piece(pool, B, take, rest, k, i) : i \in Takers(B, take, k)}
    \cup (IF rest[k] > 0 THEN {Left(pool, rest, k)} ELSE {})

LEMMA PoolRows ==
    ASSUME Book, NEW r \in Requests, req[r].pc = "apply", NEW K, K = DOMAIN FundOf(req[r].pool),
           NEW pool, pool = req[r].pool
    PROVE  /\ \A k \in K : /\ PoolRow(pool, k) \in pool /\ PoolRow(pool, k) \in Payment
                           /\ PoolRow(pool, k).id[1] = k
                           /\ FundOf(pool)[k] = PoolRow(pool, k).amount
           /\ \A p \in pool : /\ p.id[1] \in K /\ PoolRow(pool, p.id[1]) = p
                              /\ p \in Payment /\ Advance(p) /\ p.amount > 0 /\ p.amount \in Nat
                              /\ p.corr > NumInvoices /\ p.id[1] <= clock /\ p.id[1] \in Nat
           /\ \A p, q \in pool : p.id = q.id => p = q
           /\ IsFiniteSet(pool) /\ IsFiniteSet(K) /\ Summable(FundOf(pool))
<1>1. /\ PoolFits(req[r], payments, clock) /\ pool \subseteq Payment
      /\ \A p \in pool : p.id[1] \in K
      /\ \A k \in K : k \in Nat /\ \E p \in pool : p.id[1] = k
      /\ IsFiniteSet(K)
  BY PoolTyped
<1>2. \A k \in K : PoolRow(pool, k) \in pool /\ PoolRow(pool, k).id[1] = k BY <1>1 DEF PoolRow
<1>3. \A p, q \in pool : p.id = q.id => p = q BY <1>1 DEF PoolFits
<1>4. ASSUME NEW p \in pool, NEW q \in pool, p.id[1] = q.id[1] PROVE p = q
  <2>1. p.id[2] = 0 /\ p.id[3] = 0 /\ q.id[2] = 0 /\ q.id[3] = 0 BY <1>1 DEF PoolFits
  <2>2. p.id \in Nat \X Nat \X Nat /\ q.id \in Nat \X Nat \X Nat BY <1>1 DEF Payment
  <2>3. p.id = q.id BY ONLY <1>4, <2>1, <2>2
  <2> QED BY <1>3, <2>3
<1>5. ASSUME NEW p \in pool
      PROVE  /\ p \in Payment /\ Advance(p) /\ p.amount > 0 /\ p.amount \in Nat
             /\ p.corr > NumInvoices /\ p.id[1] <= clock /\ p.id[1] \in Nat
  <2>1. p \in Payment BY <1>1
  <2>2. p.amount \in Nat /\ p.id[1] \in Nat BY <2>1 DEF Payment
  <2> QED BY <1>1, <2>1, <2>2 DEF PoolFits
<1>6. \A k \in K : FundOf(pool)[k] = PoolRow(pool, k).amount BY DEF FundOf, PoolRow
<1>7. Summable(FundOf(pool))
  <2>1. \A k \in K : FundOf(pool)[k] \in Nat BY <1>2, <1>5, <1>6
  <2>2. FundOf(pool) = [k \in K |-> FundOf(pool)[k]] BY DEF FundOf
  <2> QED BY <1>1, <2>1, <2>2 DEF Summable
<1>8. \A p \in pool : PoolRow(pool, p.id[1]) = p BY <1>1, <1>2, <1>4
<1>9. IsFiniteSet(pool) BY <1>1 DEF PoolFits
<1> QED BY <1>1, <1>2, <1>3, <1>5, <1>6, <1>7, <1>8, <1>9

LEMMA UnspentIs ==
    ASSUME NEW take, NEW B, NEW fund, NEW rest \in Unspent(take, B, fund), NEW k \in DOMAIN fund
    PROVE  rest[k] + SumOf([i \in B |-> take[i][k]]) = fund[k]
BY Zenon DEF Unspent

\* What is left of a fund, and what was taken.
LEMMA FundSpent ==
    ASSUME Book, NEW r \in Requests, req[r].pc = "apply", NEW take, NEW got, NEW rest,
           Applies(r, take, got, rest), NEW k \in DOMAIN FundOf(req[r].pool)
    PROVE  /\ Summable([i \in Needy(r) |-> take[i][k]])
           /\ rest[k] + SumOf([i \in Needy(r) |-> take[i][k]]) = FundOf(req[r].pool)[k]
<1> DEFINE B == Needy(r)
<1>1. PICK K : K = DOMAIN FundOf(req[r].pool) OBVIOUS
<1>2. IsFiniteSet(B) /\ \A i \in B : take[i][k] \in Nat BY <1>1, AppliesTyped
<1>3. Summable([i \in B |-> take[i][k]]) BY <1>2 DEF Summable
<1> HIDE DEF B
<1>4. rest \in Unspent(take, B, FundOf(req[r].pool)) BY DEF Applies, B
<1>5. rest[k] + SumOf([i \in B |-> take[i][k]]) = FundOf(req[r].pool)[k] BY <1>4, UnspentIs
<1> QED BY <1>3, <1>5 DEF B

LEMMA Takes ==
    ASSUME Book, NEW r \in Requests, req[r].pc = "apply", NEW take, NEW got, NEW rest,
           Applies(r, take, got, rest), NEW k \in DOMAIN FundOf(req[r].pool)
    PROVE  /\ rest[k] \in Nat
           /\ Takers(Needy(r), take, k) = {} => rest[k] = FundOf(req[r].pool)[k]
           /\ Takers(Needy(r), take, k) \in SUBSET Invoices
<1> DEFINE B == Needy(r)
           f == [i \in B |-> take[i][k]]
<1>1. PICK K : K = DOMAIN FundOf(req[r].pool) OBVIOUS
<1>2. B \subseteq Invoices /\ rest[k] \in Nat BY <1>1, AppliesTyped
<1>3. Summable(f) /\ rest[k] + SumOf(f) = FundOf(req[r].pool)[k] BY FundSpent
<1>4. DOMAIN f = B /\ \A i \in B : f[i] = take[i][k] OBVIOUS
<1> HIDE DEF f
<1>5. ASSUME Takers(B, take, k) = {} PROVE SumOf(f) = 0
  <2>1. \A i \in B : ~(f[i] > 0) BY <1>4, <1>5 DEF Takers
  <2>2. SumOf(f) \in Nat /\ ~(SumOf(f) > 0) BY <1>3, <1>4, <2>1, SumType, SumPositive
  <2> QED BY <2>2
<1>6. Takers(B, take, k) \in SUBSET Invoices BY <1>2 DEF Takers
<1> QED BY <1>2, <1>3, <1>5, <1>6

LEMMA PoolMoved ==
    ASSUME Book, NEW r \in Requests, req[r].pc = "apply", NEW take, NEW got, NEW rest,
           Applies(r, take, got, rest), NEW k \in DOMAIN FundOf(req[r].pool)
    PROVE  Moved(req[r].pool, Needy(r), take, rest, PoolRow(req[r].pool, k)) \cup Slices(Needy(r), take, rest, k)
           = Pieces(req[r].pool, Needy(r), take, rest, k)
<1>a. PICK pool : pool = req[r].pool OBVIOUS
<1>b. PICK B : B = Needy(r) OBVIOUS
<1>c. PICK K : K = DOMAIN FundOf(req[r].pool) OBVIOUS
<1> SUFFICES Moved(pool, B, take, rest, PoolRow(pool, k)) \cup Slices(B, take, rest, k)
             = Pieces(pool, B, take, rest, k)
  BY <1>a, <1>b
<1>1. PICK p : p = PoolRow(pool, k) OBVIOUS
<1>2. p \in pool /\ p \in Payment /\ p.id[1] = k /\ FundOf(pool)[k] = p.amount BY <1>a, <1>c, <1>1, PoolRows
<1>3. \A q \in pool : q.id = p.id => q = p BY <1>a, <1>c, <1>2, PoolRows
<1>4. PICK T : T = Takers(B, take, k) OBVIOUS
<1>5. /\ rest[k] \in Nat /\ (T = {} => rest[k] = p.amount) /\ T \in SUBSET Invoices
  <2>1. /\ rest[k] \in Nat
        /\ Takers(Needy(r), take, k) = {} => rest[k] = FundOf(req[r].pool)[k]
        /\ Takers(Needy(r), take, k) \in SUBSET Invoices
    BY Takes
  <2> QED BY <1>a, <1>b, <1>2, <1>4, <2>1
<1>6. Moved(pool, B, take, rest, p) = Relinked(p, p, T, Shares(B, take, k), rest[k])
  <2>1. (CHOOSE q \in pool : q.id = p.id) = p BY <1>2, <1>3
  <2> QED BY <1>2, <1>4, <2>1 DEF Moved
<1>7. p.amount > 0 BY <1>a, <1>c, <1>2, PoolRows
<1>8. \A i \in T : i \in B BY <1>4 DEF Takers
<1>9. CASE T = {}
  <2>1. rest[k] = p.amount /\ rest[k] > 0 BY <1>5, <1>7, <1>9
  <2>2. Left(pool, rest, k) = p
    <3>1. [p EXCEPT !.amount = p.amount] = p BY <1>2 DEF Payment
    <3> QED BY <1>1, <2>1, <3>1 DEF Left, Shrunk
  <2>3. Relinked(p, p, T, Shares(B, take, k), rest[k]) = {p} BY <1>9 DEF Relinked
  <2>4. Slices(B, take, rest, k) = {} BY <1>4, <1>9, <2>1 DEF Slices, Splits
  <2>5. Pieces(pool, B, take, rest, k) = {p} BY <1>4, <1>9, <2>1, <2>2 DEF Pieces
  <2> QED BY <1>1, <1>6, <2>3, <2>4, <2>5
<1>10. CASE T # {} /\ rest[k] > 0
  <2>1. Relinked(p, p, T, Shares(B, take, k), rest[k]) = {Left(pool, rest, k)}
    BY <1>1, <1>10 DEF Relinked, Left, Shrunk
  <2>2. Splits(B, take, rest, k) = T BY <1>4, <1>10 DEF Splits
  <2>3. \A i \in T : Piece(pool, B, take, rest, k, i) = Slice(take, k, i) BY <2>2 DEF Piece
  <2>4. Slices(B, take, rest, k) = {Piece(pool, B, take, rest, k, i) : i \in T}
    BY <2>2, <2>3 DEF Slices
  <2> QED BY <1>1, <1>4, <1>6, <1>10, <2>1, <2>4 DEF Pieces
<1>11. CASE T # {} /\ ~(rest[k] > 0)
  <2>1. PICK l : l \in Last(T) BY <1>5, <1>11, LastExists
  <2>2. Last(T) = {l} /\ l \in T BY <1>5, <2>1, LastIs
  <2>3. Splits(B, take, rest, k) = T \ {l} BY <1>4, <1>11, <2>2 DEF Splits
  <2>4. \A i \in T \ {l} : Piece(pool, B, take, rest, k, i) = Slice(take, k, i) BY <2>3 DEF Piece
  <2>5. Piece(pool, B, take, rest, k, l) = Relink(p, p, l, take[l][k]) BY <1>1, <2>3 DEF Piece
  <2>6. Slices(B, take, rest, k) = {Piece(pool, B, take, rest, k, i) : i \in T \ {l}}
    BY <2>3, <2>4 DEF Slices
  <2>7. Shares(B, take, k)[l] = take[l][k] BY <1>8, <2>2 DEF Shares
  <2>8. Relinked(p, p, T, Shares(B, take, k), rest[k]) = {Piece(pool, B, take, rest, k, l)}
    <3>1. Relinked(p, p, T, Shares(B, take, k), rest[k])
            = {Relink(p, p, i, Shares(B, take, k)[i]) : i \in Last(T)}
      BY <1>11 DEF Relinked, Relink
    <3> QED BY <2>2, <2>5, <2>7, <3>1
  <2>9. Pieces(pool, B, take, rest, k) = {Piece(pool, B, take, rest, k, i) : i \in T}
    BY <1>4, <1>11 DEF Pieces
  <2>10. {Piece(pool, B, take, rest, k, i) : i \in T}
           = {Piece(pool, B, take, rest, k, l)} \cup {Piece(pool, B, take, rest, k, i) : i \in T \ {l}}
    BY <2>2
  <2> QED BY <1>1, <1>6, <2>6, <2>8, <2>9, <2>10
<1> QED BY <1>9, <1>10, <1>11

\* The payments after it: those that were no advance of the pool, and the pieces.
LEMMA AppliedTable ==
    ASSUME Book, NEW r \in Requests, req[r].pc = "apply", NEW take, NEW got, NEW rest,
           Applies(r, take, got, rest), NEW K, K = DOMAIN FundOf(req[r].pool),
           NEW pool, pool = req[r].pool, NEW B, B = Needy(r), pool \subseteq payments
    PROVE  payments' = (payments \ pool) \cup UNION {Pieces(pool, B, take, rest, k) : k \in K}
<1> DEFINE m(q) == Moved(pool, B, take, rest, q)
           s(k) == Slices(B, take, rest, k)
           c(k) == Pieces(pool, B, take, rest, k)
<1>1. payments' = (UNION {m(q) : q \in payments}) \cup (UNION {s(k) : k \in K})
  BY DEF Applies
<1>2. \A q \in payments \ pool : m(q) = {q}
  <2> TAKE q \in payments \ pool
  <2>1. ~\E p \in pool : p.id = q.id BY Parts DEF Table
  <2> QED BY <2>1 DEF Moved
<1>3. \A k \in K : m(PoolRow(pool, k)) \cup s(k) = c(k)
  <2> TAKE k \in K
  <2>1. Moved(pool, B, take, rest, PoolRow(pool, k)) \cup Slices(B, take, rest, k)
        = Pieces(pool, B, take, rest, k)
    <3>1. Moved(req[r].pool, Needy(r), take, rest, PoolRow(req[r].pool, k)) \cup Slices(Needy(r), take, rest, k)
          = Pieces(req[r].pool, Needy(r), take, rest, k)
      BY PoolMoved
    <3> QED BY <3>1
  <2> QED BY <2>1
<1>4. \A k \in K : PoolRow(pool, k) \in pool BY PoolRows
<1>5. \A p \in pool : p.id[1] \in K /\ PoolRow(pool, p.id[1]) = p BY PoolRows
<1> HIDE DEF m, s, c
<1>6. ASSUME NEW x \in payments' PROVE x \in payments \ pool \/ \E k \in K : x \in c(k)
  <2>1. CASE \E k \in K : x \in s(k) BY <1>3, <2>1
  <2>2. ASSUME NEW q \in payments, x \in m(q) PROVE x \in payments \ pool \/ \E k \in K : x \in c(k)
    <3>1. CASE q \in pool
      <4>1. q.id[1] \in K /\ x \in m(PoolRow(pool, q.id[1])) BY <1>5, <2>2, <3>1
      <4> QED BY <1>3, <4>1
    <3>2. CASE q \notin pool BY <1>2, <2>2, <3>2
    <3> QED BY <3>1, <3>2
  <2> QED BY <1>1, <1>6, <2>1, <2>2
<1>7. ASSUME NEW x \in payments \ pool PROVE x \in payments'
  <2>1. x \in m(x) BY <1>2
  <2> QED BY <1>1, <2>1
<1>8. ASSUME NEW k \in K, NEW x \in c(k) PROVE x \in payments'
  <2>1. PoolRow(pool, k) \in payments BY <1>4
  <2>2. x \in m(PoolRow(pool, k)) \/ x \in s(k) BY <1>3, <1>8
  <2> QED BY <1>1, <2>1, <2>2
<1>9. payments' = (payments \ pool) \cup UNION {c(k) : k \in K} BY <1>6, <1>7, <1>8
<1> QED BY <1>9 DEF c

\* A piece, and what is left.
\* A row that an invoice i got the amount x with, out of the advance p.
Brings(q, i, x, p) ==
    /\ q.kind = "IN" /\ q.via = "APPLIED" /\ q.corr = i /\ q.amount = x
    /\ (q.id[1] = clock + 1 /\ q.id[3] = p.id[1]) \/ q.id = p.id

LEMMA PieceIs ==
    ASSUME Book, NEW r \in Requests, req[r].pc = "apply", NEW take, NEW rest,
           NEW k \in DOMAIN FundOf(req[r].pool), NEW i
    PROVE  Brings(Piece(req[r].pool, Needy(r), take, rest, k, i), i, take[i][k], PoolRow(req[r].pool, k))
<1>1. PICK p : p = PoolRow(req[r].pool, k) OBVIOUS
<1>2. PICK B : B = Needy(r) OBVIOUS
<1>3. p \in Payment /\ p.id[1] = k /\ p.kind = "IN" BY <1>1, PoolRows DEF Advance
<1>4. PICK x : x = Piece(req[r].pool, B, take, rest, k, i) OBVIOUS
<1>5. CASE i \in Splits(B, take, rest, k)
  <2>1. x = Row("IN", i, take[i][k], "APPLIED", 0, i, k) BY <1>4, <1>5 DEF Piece, Slice
  <2>2. /\ x.kind = "IN" /\ x.corr = i /\ x.amount = take[i][k] /\ x.via = "APPLIED"
        /\ x.id[1] = clock + 1 /\ x.id[3] = k
    BY <2>1, RowIs
  <2> QED BY <1>1, <1>2, <1>3, <1>4, <2>2 DEF Brings
<1>6. CASE i \notin Splits(B, take, rest, k)
  <2>1. x = Relink(p, p, i, take[i][k]) BY <1>1, <1>4, <1>6 DEF Piece
  <2>2. x.id = p.id /\ x.kind = p.kind /\ x.corr = i /\ x.via = "APPLIED" /\ x.amount = take[i][k]
    BY <1>3, <2>1, RelinkFields
  <2> QED BY <1>1, <1>2, <1>3, <1>4, <2>2 DEF Brings
<1> QED BY <1>5, <1>6

LEMMA LeftAmount ==
    ASSUME Book, NEW r \in Requests, req[r].pc = "apply", NEW rest, NEW k \in DOMAIN FundOf(req[r].pool)
    PROVE  Left(req[r].pool, rest, k).amount = rest[k]
<1>1. PICK p : p = PoolRow(req[r].pool, k) OBVIOUS
<1>2. p \in Payment BY <1>1, PoolRows
<1>3. Left(req[r].pool, rest, k) = Shrunk(p, rest[k]) BY <1>1 DEF Left
<1> QED BY <1>2, <1>3, RestFields

LEMMA LeftIs ==
    ASSUME Book, NEW r \in Requests, req[r].pc = "apply", NEW rest, NEW k \in DOMAIN FundOf(req[r].pool),
           NEW x, x = Left(req[r].pool, rest, k)
    PROVE  /\ x.kind = "IN" /\ x.via = "ADVANCE" /\ x.corr > NumInvoices
           /\ x.id = PoolRow(req[r].pool, k).id /\ x.id[1] = k
<1>1. PICK p : p = PoolRow(req[r].pool, k) OBVIOUS
<1>2. p \in req[r].pool /\ p \in Payment /\ p.id[1] = k BY <1>1, PoolRows
<1>3. p.kind = "IN" /\ p.via = "ADVANCE" /\ p.corr > NumInvoices BY <1>2, PoolRows DEF Advance
<1>4. x = Shrunk(p, rest[k]) BY <1>1 DEF Left
<1> QED BY <1>1, <1>2, <1>3, <1>4, RestFields

-----------------------------------------------------------------------------
(* Offline money, in the rows of the invoices and in the advances.           *)

Offline == {p \in payments : p.kind = "IN" /\ p.via # "GATEWAY"}
OfflineKept == 0 \notin raced => Total(Offline) = received

\* An offline settlement, in one formula.
Settles(r, got, left) ==
    /\ got \in [Needy(r) -> 0 .. Price] /\ left \in Nat
    /\ Summable(got) /\ left + SumOf(got) = req[r].amount
    /\ PayDownAll(r, got)
    /\ payments' = payments \cup Remainder(left) \cup
          {Row("IN", i, got[i], "OFFLINE", 0, i, 0) : i \in {j \in Needy(r) : got[j] > 0}}

LEMMA OfflineDoes ==
    ASSUME Book, NEW r \in Requests, RecordOffline(r)
    PROVE  \E got, left : Settles(r, got, left)
<1> DEFINE fund == [k \in {0} |-> req[r].amount]
           B == Needy(r)
<1>1. PICK take, got, rest :
        /\ take \in FifoTakes(NeedOf(r), fund) /\ got \in Applied(take, B, {0})
        /\ rest \in Unspent(take, B, fund) /\ PayDownAll(r, got)
        /\ payments' = payments \cup Remainder(rest[0]) \cup
              {Row("IN", i, got[i], "OFFLINE", 0, i, 0) : i \in {j \in B : got[j] > 0}}
  BY DEF RecordOffline
<1>2. DOMAIN fund = {0} /\ fund[0] = req[r].amount /\ 0 \in DOMAIN fund OBVIOUS
<1> HIDE DEF fund, B
<1>3. got \in [B -> 0 .. Price] BY <1>1, AppliedTyped
<1>4. rest \in [{0} -> 0 .. MaxCash] BY <1>1, <1>2, UnspentTyped
<1>5. take \in [B -> [{0} -> 0 .. Price]]
  <2>1. DOMAIN NeedOf(r) = B BY DEF NeedOf, B
  <2> QED BY <1>1, <1>2, <2>1, TakesTyped
<1>6. rest[0] \in Nat /\ \A i \in B : take[i][0] \in Nat BY <1>4, <1>5, LedgerAssumption
<1>7. ASSUME NEW i \in B PROVE got[i] = take[i][0]
  <2> DEFINE f == [k \in {0} |-> take[i][k]]
  <2>1. got[i] = SumOf(f) BY <1>1 DEF Applied
  <2>2. DOMAIN f = {0} /\ f[0] = take[i][0] OBVIOUS
  <2> HIDE DEF f
  <2> QED BY <1>6, <2>1, <2>2, SumOne
<1>8. [i \in B |-> take[i][0]] = got BY <1>3, <1>7
<1>9. rest[0] + SumOf([i \in B |-> take[i][0]]) = fund[0] BY <1>1, <1>2, UnspentIs
<1>10. Summable(got)
  <2>1. IsFiniteSet(B) BY NeedTyped DEF B
  <2>2. DOMAIN got = B /\ \A i \in B : got[i] \in Nat BY <1>3, <1>6, <1>7
  <2> QED BY <1>3, <2>1, <2>2 DEF Summable
<1>11. rest[0] + SumOf(got) = req[r].amount BY <1>2, <1>8, <1>9
<1> QED BY <1>1, <1>3, <1>6, <1>10, <1>11 DEF Settles, B

\* The rows that an offline settlement brings.
LEMMA OfflineTotal ==
    ASSUME Book, Book', NEW r \in Requests, RecordOffline(r)
    PROVE  Total(Offline') = Total(Offline) + req[r].amount
<1>1. PICK got, left : Settles(r, got, left) BY OfflineDoes
<1> DEFINE B == Needy(r)
           row == [i \in B |-> Row("IN", i, got[i], "OFFLINE", 0, i, 0)]
           S == {row[x] : x \in {y \in B : got[y] > 0}}
<1>2. DOMAIN got = B /\ DOMAIN row = B /\ Summable(got) /\ left \in Nat
      /\ left + SumOf(got) = req[r].amount
  BY <1>1 DEF Settles
<1>3. payments' = payments \cup Remainder(left) \cup S BY <1>1 DEF Settles
<1>4. \A i \in B : /\ row[i].kind = "IN" /\ row[i].via = "OFFLINE" /\ row[i].amount = got[i]
                   /\ row[i].corr = i /\ row[i].id[1] = clock + 1
  <2> TAKE i \in B
  <2>1. row[i] = Row("IN", i, got[i], "OFFLINE", 0, i, 0) OBVIOUS
  <2> HIDE DEF row
  <2> QED BY <2>1, RowIs
<1>5. payments' \subseteq Payment BY MoneyTypedNext
<1> HIDE DEF row
<1>6. S \subseteq Payment /\ IsFiniteSet(S) /\ Total(S) = SumOf(got)
  <2>1. \A x \in B : got[x] > 0 => row[x] \in Payment BY <1>3, <1>5
  <2>2. \A x, y \in B : row[x] = row[y] => x = y BY <1>4
  <2>3. S = {row[x] : x \in {y \in DOMAIN got : got[y] > 0}} BY <1>2
  <2>4. DOMAIN row = DOMAIN got BY <1>2
  <2>5. \A x \in DOMAIN got : got[x] > 0 => row[x] \in Payment /\ row[x].amount = got[x]
    BY <1>2, <1>4, <2>1
  <2>6. \A x, y \in DOMAIN got : got[x] > 0 /\ got[y] > 0 /\ row[x] = row[y] => x = y BY <1>2, <2>2
  <2> HIDE DEF S
  <2> QED BY ONLY <1>2, <2>3, <2>4, <2>5, <2>6, TotalOfPieces
<1>7. Offline' = Offline \cup (Remainder(left) \cup S)
  <2>1. \A x \in Remainder(left) : x.kind = "IN" /\ x.via = "ADVANCE" BY DEF Remainder, Row
  <2> QED BY <1>3, <1>4, <2>1 DEF Offline
<1>8. ASSUME NEW x \in Remainder(left) PROVE x.amount = left /\ x.id[1] = clock + 1 /\ x.via = "ADVANCE"
  <2>1. x = Row("IN", NumInvoices + clock + 1, left, "ADVANCE", 0, 0, 0) BY <1>8 DEF Remainder
  <2> QED BY <2>1, RowIs
<1>9. /\ IsFiniteSet(Remainder(left)) /\ Remainder(left) \subseteq Payment
      /\ Total(Remainder(left)) = left
  <2>1. Remainder(left) \subseteq Payment BY <1>3, <1>5
  <2>2. CASE left > 0
    <3>1. PICK p : Remainder(left) = {p} BY <2>2 DEF Remainder
    <3>2. p \in Payment /\ p.amount = left BY <1>8, <2>1, <3>1
    <3> QED BY <2>1, <3>1, <3>2, TotalOne, FS_Singleton
  <2>3. CASE ~(left > 0)
    <3>1. Remainder(left) = {} /\ left = 0 BY <1>2, <2>3 DEF Remainder
    <3> QED BY <3>1, TotalEmpty, FS_EmptySet
  <2> QED BY <2>2, <2>3
<1>10. Remainder(left) \cap S = {} BY <1>4, <1>8
<1>11. Offline \cap (Remainder(left) \cup S) = {}
  <2>1. \A x \in Remainder(left) \cup S : x \notin payments BY <1>4, <1>8, RowIsNew
  <2> QED BY <2>1 DEF Offline
<1>12. Offline \subseteq Payment /\ IsFiniteSet(Offline)
  <2>1. Offline \subseteq payments BY DEF Offline
  <2> QED BY <2>1, Parts, FS_Subset
<1> HIDE DEF S
<1>13. IsFiniteSet(Remainder(left) \cup S) BY <1>6, <1>9, FS_Union
<1>14. Total(Remainder(left) \cup S) = left + SumOf(got)
  BY <1>6, <1>9, <1>10, TotalSplit
<1>15. Total(Offline') = Total(Offline) + Total(Remainder(left) \cup S)
  BY <1>6, <1>7, <1>9, <1>11, <1>12, <1>13, TotalSplit
<1> QED BY <1>2, <1>14, <1>15

LEMMA PiecesAre ==
    ASSUME Book, NEW r \in Requests, req[r].pc = "apply", NEW take, NEW got, NEW rest,
           Applies(r, take, got, rest), NEW k \in DOMAIN FundOf(req[r].pool),
           NEW x \in Pieces(req[r].pool, Needy(r), take, rest, k)
    PROVE  /\ x.kind = "IN" /\ x.via \in {"APPLIED", "ADVANCE"}
           /\ \/ x.id[1] = clock + 1 /\ x.id[3] = k
              \/ x.id = PoolRow(req[r].pool, k).id /\ x.id[1] = k
           /\ PoolRow(req[r].pool, k) \in req[r].pool /\ k \in Nat /\ k <= clock
<1>1. PICK pool : pool = req[r].pool OBVIOUS
<1>2. PICK B : B = Needy(r) OBVIOUS
<1>3. PICK K : K = DOMAIN FundOf(req[r].pool) OBVIOUS
<1>4. PoolRow(pool, k) \in pool /\ k \in Nat /\ k <= clock
  <2>1. PoolRow(pool, k) \in pool /\ PoolRow(pool, k).id[1] = k BY <1>1, <1>3, PoolRows
  <2>2. PoolRow(pool, k).id[1] \in Nat /\ PoolRow(pool, k).id[1] <= clock BY <1>1, <1>3, <2>1, PoolRows
  <2> QED BY <2>1, <2>2
<1>5. CASE \E i \in Takers(B, take, k) : x = Piece(pool, B, take, rest, k, i)
  <2>1. PICK i \in B : x = Piece(pool, B, take, rest, k, i) BY <1>5 DEF Takers
  <2>2. Brings(x, i, take[i][k], PoolRow(pool, k)) BY <1>1, <1>2, <2>1, PieceIs
  <2>3. PoolRow(pool, k).id[1] = k BY <1>1, <1>3, PoolRows
  <2> QED BY <1>1, <1>4, <2>2, <2>3 DEF Brings
<1>6. CASE x = Left(pool, rest, k)
  <2>1. x.kind = "IN" /\ x.via = "ADVANCE" /\ x.id = PoolRow(req[r].pool, k).id /\ x.id[1] = k
    BY <1>1, <1>6, LeftIs
  <2> QED BY <1>1, <1>4, <1>6, <2>1
<1> QED BY <1>1, <1>2, <1>5, <1>6 DEF Pieces

\* The pieces of a fund add up to it.
LEMMA PiecesTotal ==
    ASSUME Book, NEW r \in Requests, req[r].pc = "apply", NEW take, NEW got, NEW rest,
           Applies(r, take, got, rest), NEW k \in DOMAIN FundOf(req[r].pool),
           Pieces(req[r].pool, Needy(r), take, rest, k) \subseteq Payment
    PROVE  /\ IsFiniteSet(Pieces(req[r].pool, Needy(r), take, rest, k))
           /\ Total(Pieces(req[r].pool, Needy(r), take, rest, k)) = FundOf(req[r].pool)[k]
<1>1. PICK pool : pool = req[r].pool OBVIOUS
<1>2. PICK B : B = Needy(r) OBVIOUS
<1>3. PICK K : K = DOMAIN FundOf(req[r].pool) OBVIOUS
<1> DEFINE f == [i \in B |-> take[i][k]]
           row == [i \in B |-> Piece(pool, B, take, rest, k, i)]
           S == {row[x] : x \in {y \in B : f[y] > 0}}
           L == IF rest[k] > 0 THEN {Left(pool, rest, k)} ELSE {}
<1>4. Summable(f) /\ rest[k] + SumOf(f) = FundOf(pool)[k] /\ rest[k] \in Nat
  <2>1. /\ Summable([i \in Needy(r) |-> take[i][k]])
        /\ rest[k] + SumOf([i \in Needy(r) |-> take[i][k]]) = FundOf(req[r].pool)[k]
    BY FundSpent
  <2>2. rest[k] \in Nat BY Takes
  <2> QED BY <1>1, <1>2, <2>1, <2>2
<1>5. Pieces(pool, B, take, rest, k) = S \cup L BY DEF Pieces, Takers
<1>6. S \cup L \subseteq Payment BY <1>1, <1>2, <1>5
<1>7. \A i \in B : row[i].via = "APPLIED" /\ row[i].corr = i /\ row[i].amount = f[i]
  <2> TAKE i \in B
  <2>1. row[i] = Piece(req[r].pool, Needy(r), take, rest, k, i) BY <1>1, <1>2
  <2> HIDE DEF row
  <2>2. Brings(row[i], i, take[i][k], PoolRow(req[r].pool, k)) BY <2>1, PieceIs
  <2> QED BY <2>2 DEF Brings
<1>8. \A x \in L : x.via = "ADVANCE" /\ x.amount = rest[k]
  <2> TAKE x \in L
  <2>1. x = Left(req[r].pool, rest, k) BY <1>1
  <2> HIDE DEF L
  <2> QED BY <2>1, LeftIs, LeftAmount
<1>9. DOMAIN f = B /\ DOMAIN row = B OBVIOUS
<1> HIDE DEF f, row
<1>10. S \subseteq Payment /\ IsFiniteSet(S) /\ Total(S) = SumOf(f)
  <2>1. \A x \in B : f[x] > 0 => row[x] \in Payment BY <1>6
  <2>2. S = {row[x] : x \in {y \in DOMAIN f : f[y] > 0}} BY <1>9
  <2>3. \A x \in DOMAIN f : f[x] > 0 => row[x] \in Payment /\ row[x].amount = f[x]
    BY <1>7, <1>9, <2>1
  <2>4. \A x, y \in DOMAIN f : f[x] > 0 /\ f[y] > 0 /\ row[x] = row[y] => x = y BY <1>7, <1>9
  <2> HIDE DEF S
  <2> QED BY ONLY <1>4, <1>9, <2>2, <2>3, <2>4, TotalOfPieces
<1>11. S \cap L = {} BY <1>7, <1>8
<1>12. IsFiniteSet(L) /\ L \subseteq Payment /\ Total(L) = rest[k]
  <2>1. L \subseteq Payment BY <1>6
  <2>2. CASE rest[k] > 0
    <3>1. PICK p : L = {p} BY <2>2
    <3>2. p \in Payment /\ p.amount = rest[k] BY <1>8, <2>1, <3>1
    <3> HIDE DEF L
    <3> QED BY <2>1, <3>1, <3>2, TotalOne, FS_Singleton
  <2>3. CASE ~(rest[k] > 0)
    <3>1. L = {} /\ rest[k] = 0 BY <1>4, <2>3
    <3> HIDE DEF L
    <3> QED BY <3>1, TotalEmpty, FS_EmptySet
  <2> QED BY <2>2, <2>3
<1> HIDE DEF S, L
<1>13. IsFiniteSet(S \cup L) BY <1>10, <1>12, FS_Union
<1>14. Total(S \cup L) = SumOf(f) + rest[k] BY <1>10, <1>11, <1>12, TotalSplit
<1>15. SumOf(f) \in Nat BY <1>4, SumType
<1>16. Total(S \cup L) = FundOf(pool)[k] BY <1>4, <1>14, <1>15
<1> QED BY <1>1, <1>2, <1>5, <1>13, <1>16

\* Applying an advance moves money between rows and creates none.
LEMMA ApplyTotal ==
    ASSUME Book, Book', NEW r \in Requests, ApplyAdvance(r), 0 \notin raced
    PROVE  Total(Offline') = Total(Offline)
<1>1. req[r].pc = "apply" BY DEF ApplyAdvance
<1>2. PICK take, got, rest : Applies(r, take, got, rest) BY ApplyDoes
<1>3. PICK pool : pool = req[r].pool OBVIOUS
<1>4. PICK B : B = Needy(r) OBVIOUS
<1>5. PICK K : K = DOMAIN FundOf(req[r].pool) OBVIOUS
<1>6. pool \subseteq payments BY <1>1, <1>3, Parts DEF Fresh
<1> DEFINE c(k) == Pieces(pool, B, take, rest, k)
           g == [k \in K |-> c(k)]
           U == UNION {g[k] : k \in K}
           O == Offline \ pool
           f == FundOf(pool)
           w == [p \in U |-> p.amount]
<1>7. payments' = (payments \ pool) \cup U BY <1>1, <1>2, <1>3, <1>4, <1>5, <1>6, AppliedTable
<1>8. payments' \subseteq Payment BY MoneyTypedNext
<1>9. \A k \in K : \A x \in c(k) :
         /\ x.kind = "IN" /\ x.via \in {"APPLIED", "ADVANCE"}
         /\ \/ x.id[1] = clock + 1 /\ x.id[3] = k
            \/ x.id = PoolRow(pool, k).id /\ x.id[1] = k
         /\ PoolRow(pool, k) \in pool /\ k \in Nat /\ k <= clock
  <2> TAKE k \in K
  <2> TAKE x \in c(k)
  <2>1. k \in DOMAIN FundOf(req[r].pool) BY <1>5
  <2>2. x \in Pieces(req[r].pool, Needy(r), take, rest, k) BY <1>3, <1>4
  <2>3. /\ x.kind = "IN" /\ x.via \in {"APPLIED", "ADVANCE"}
        /\ \/ x.id[1] = clock + 1 /\ x.id[3] = k
           \/ x.id = PoolRow(req[r].pool, k).id /\ x.id[1] = k
        /\ PoolRow(req[r].pool, k) \in req[r].pool /\ k \in Nat /\ k <= clock
    BY <1>1, <1>2, <2>1, <2>2, PiecesAre
  <2> QED BY <1>3, <2>3
<1>10. /\ DOMAIN f = K /\ Summable(f) /\ IsFiniteSet(pool) /\ IsFiniteSet(K)
       /\ \A p \in pool : p.id[1] \in K /\ PoolRow(pool, p.id[1]) = p /\ p \in Payment /\ Advance(p)
                          /\ p.amount > 0
       /\ \A k \in K : PoolRow(pool, k) \in pool /\ PoolRow(pool, k).id[1] = k
                       /\ f[k] = PoolRow(pool, k).amount
  BY <1>1, <1>3, <1>5, PoolRows
<1>11. DOMAIN g = K /\ \A k \in K : g[k] = c(k) OBVIOUS
<1>12. \A k \in K : IsFiniteSet(g[k]) /\ g[k] \subseteq Payment /\ Total(g[k]) = f[k]
  <2> TAKE k \in K
  <2>1. c(k) \subseteq Payment BY <1>7, <1>8
  <2>2. IsFiniteSet(c(k)) /\ Total(c(k)) = f[k]
    BY <1>1, <1>2, <1>3, <1>4, <1>5, <2>1, PiecesTotal
  <2> QED BY <1>11, <2>1, <2>2
<1>13. clock \in Nat BY Parts
<1>14. ASSUME NEW k \in K, NEW l \in K, k # l PROVE g[k] \cap g[l] = {}
  <2>1. ASSUME NEW x \in c(k), x \in c(l) PROVE FALSE
    BY <1>9, <1>13, <1>14, <2>1
  <2> QED BY <1>11, <2>1
<1> HIDE DEF c, g, f
<1>15. IsFiniteSet(U) BY <1>10, <1>11, <1>12, FiniteUnion
<1>16. U \subseteq Payment BY <1>12
<1>17. Total(U) = SumOf(f)
  <2>1. Summable(w) /\ Total(U) = SumOf(w) BY <1>15, <1>16, TotalType DEF Total
  <2>2. DOMAIN w = UNION {g[k] : k \in DOMAIN f} BY <1>10
  <2>3. ASSUME NEW k \in DOMAIN f PROVE SumOf([x \in g[k] |-> w[x]]) = f[k]
    <3>1. k \in K BY <1>10, <2>3
    <3>2. [x \in g[k] |-> w[x]] = [x \in g[k] |-> x.amount] BY <3>1
    <3>3. Total(g[k]) = f[k] BY <1>12, <3>1
    <3> QED BY <3>2, <3>3 DEF Total
  <2>4. DOMAIN g = DOMAIN f /\ \A k, l \in DOMAIN f : k # l => g[k] \cap g[l] = {}
    BY <1>10, <1>11, <1>14
  <2> HIDE DEF U, w
  <2>5. SumOf(w) = SumOf(f) BY ONLY <1>10, <2>1, <2>2, <2>3, <2>4, SumGrouped
  <2> QED BY <2>1, <2>5
<1>18. Total(pool) = SumOf(f)
  <2> DEFINE row == [k \in K |-> PoolRow(pool, k)]
  <2>1. DOMAIN row = DOMAIN f /\ \A k \in K : row[k] = PoolRow(pool, k) BY <1>10
  <2>2. pool = {row[x] : x \in {y \in DOMAIN f : f[y] > 0}}
    <3>1. ASSUME NEW p \in pool PROVE p \in {row[x] : x \in {y \in DOMAIN f : f[y] > 0}}
      <4>1. p.id[1] \in K /\ row[p.id[1]] = p /\ f[p.id[1]] > 0 BY <1>10, <2>1
      <4> HIDE DEF row
      <4> QED BY <1>10, <4>1
    <3>2. ASSUME NEW x \in DOMAIN f PROVE row[x] \in pool BY <1>10, <2>1
    <3> HIDE DEF row
    <3> QED BY <3>1, <3>2
  <2>3. \A x \in DOMAIN f : f[x] > 0 => row[x] \in Payment /\ row[x].amount = f[x]
    BY <1>10, <2>1
  <2>4. \A x, y \in DOMAIN f : f[x] > 0 /\ f[y] > 0 /\ row[x] = row[y] => x = y BY <1>10, <2>1
  <2> HIDE DEF row
  <2> QED BY ONLY <1>10, <2>1, <2>2, <2>3, <2>4, TotalOfPieces
<1>19. Offline' = O \cup U
  <2>1. \A x \in U : x.kind = "IN" /\ x.via # "GATEWAY" BY <1>9, <1>11
  <2> HIDE DEF U
  <2> QED BY <1>7, <2>1 DEF Offline
<1>20. Offline = O \cup pool BY <1>6, <1>10 DEF Offline, Advance
<1>21. O \subseteq Payment /\ IsFiniteSet(O) /\ pool \subseteq Payment
  <2>1. O \subseteq payments BY DEF Offline
  <2> QED BY <1>6, <2>1, Parts, FS_Subset
<1>22. O \cap U = {}
  <2>1. ASSUME NEW k \in K, NEW x \in c(k), x \in O PROVE FALSE
    <3>1. x \in payments /\ x \notin pool BY <2>1 DEF Offline
    <3>2. CASE x.id[1] = clock + 1 BY <3>1, <3>2, RowIsNew
    <3>3. CASE x.id = PoolRow(pool, k).id
      <4>1. PoolRow(pool, k) \in payments BY <1>6, <1>10
      <4>2. x = PoolRow(pool, k) BY <3>1, <3>3, <4>1, Parts DEF Table
      <4> QED BY <1>10, <3>1, <4>2
    <3> QED BY <1>9, <2>1, <3>2, <3>3
  <2> HIDE DEF O
  <2> QED BY <1>11, <2>1
<1>23. O \cap pool = {} OBVIOUS
<1> HIDE DEF O, U
<1>24. Total(Offline') = Total(O) + SumOf(f) BY <1>15, <1>16, <1>17, <1>19, <1>21, <1>22, TotalSplit
<1>25. Total(Offline) = Total(O) + SumOf(f) BY <1>10, <1>18, <1>20, <1>21, <1>23, TotalSplit
<1> QED BY <1>24, <1>25

LEMMA OfflineKeptStays ==
    ASSUME Book, Book', OfflineKept, [Next]_vars
    PROVE  OfflineKept'
<1>1. raced \subseteq raced' BY RacedStays
<1> SUFFICES ASSUME 0 \notin raced, Total(Offline) = received PROVE Total(Offline') = received'
  BY <1>1 DEF OfflineKept
<1>2. ASSUME NEW r \in Requests, RecordOffline(r) PROVE Total(Offline') = received'
  BY <1>2, OfflineTotal DEF RecordOffline
<1>3. ASSUME NEW r \in Requests, ApplyAdvance(r) PROVE Total(Offline') = received'
  BY <1>3, ApplyTotal DEF ApplyAdvance
<1>4. ASSUME Offline' = Offline, received' = received PROVE Total(Offline') = received' BY <1>4
<1>5. ASSUME NEW i \in Invoices, Collect(i) PROVE Total(Offline') = received'
  <2>1. PICK p : p = Row("IN", i, Price, "GATEWAY", clock + 1, i, 0) OBVIOUS
  <2>2. p.via = "GATEWAY" BY <2>1, RowIs
  <2>3. payments' = payments \cup {p} /\ received' = received BY <1>5, <2>1 DEF Collect
  <2>4. Offline' = Offline BY <2>2, <2>3 DEF Offline
  <2> QED BY <1>4, <2>3, <2>4
<1>6. ASSUME NEW r \in Requests, RecordSettle(r) PROVE Total(Offline') = received'
  <2>1. PICK p : p = Row("IN", req[r].inv, req[r].amount, "GATEWAY", clock + 1, req[r].inv, 0) OBVIOUS
  <2>2. p.via = "GATEWAY" BY <2>1, RowIs
  <2>3. payments' = payments \cup {p} /\ received' = received BY <1>6, <2>1 DEF RecordSettle
  <2>4. Offline' = Offline BY <2>2, <2>3 DEF Offline
  <2> QED BY <1>4, <2>3, <2>4
<1>7. ASSUME NEW r \in Requests, Adjust(r) PROVE Total(Offline') = received'
  <2>1. \A x \in RefundRow(r) : x.kind = "REFUND" BY DEF RefundRow, Row
  <2>2. payments' = payments \cup RefundRow(r) /\ received' = received BY <1>7 DEF Adjust
  <2>3. Offline' = Offline BY <2>1, <2>2 DEF Offline
  <2> QED BY <1>4, <2>2, <2>3
<1>8. ASSUME NEW r \in Requests, RecordChargeback(r) PROVE Total(Offline') = received'
  <2>1. PICK p : payments' = payments \cup {Row("CHARGEBACK", p.corr, p.amount, p.via, p.capture, 0, 0)}
    BY <1>8 DEF RecordChargeback
  <2>2. PICK x : x = Row("CHARGEBACK", p.corr, p.amount, p.via, p.capture, 0, 0) OBVIOUS
  <2>3. x.kind = "CHARGEBACK" BY <2>2, RowIs
  <2>4. received' = received BY <1>8 DEF RecordChargeback
  <2>5. Offline' = Offline BY <2>1, <2>2, <2>3 DEF Offline
  <2> QED BY <1>4, <2>4, <2>5
<1>9. ASSUME payments' = payments, received' = received PROVE Total(Offline') = received'
  <2>1. Offline' = Offline BY <1>9 DEF Offline
  <2> QED BY <1>4, <1>9, <2>1
<1>10. ASSUME NEW i \in Invoices, Issue(i) PROVE Total(Offline') = received' BY <1>9, <1>10 DEF Issue
<1>11. ASSUME NEW r \in Requests, Call(r) PROVE Total(Offline') = received'
  BY <1>9, <1>11 DEF Call, BeginSettle, BeginCancel, BeginOffline, BeginAdvance, BeginChargeback
<1>12. ASSUME NEW r \in Requests, Refund(r) \/ MarkCancelled(r) \/ ReadPool(r) \/ Die(r)
       PROVE  Total(Offline') = received'
  BY <1>9, <1>12 DEF Refund, MarkCancelled, ReadPool, Die
<1>13. CASE UNCHANGED vars BY <1>9, <1>13 DEF vars
<1> QED BY <1>2, <1>3, <1>5, <1>6, <1>7, <1>8, <1>10, <1>11, <1>12, <1>13 DEF Next, Step

\* No cash comes from nowhere and none is lost: while no two requests had the
\* advances at once, the rows that are no gateway's add up to what the offline
\* settlements brought, however applyAgencyAdvance cut and moved them.
THEOREM OfflineBookedHolds == Spec => []OfflineBooked
<1>1. Init => OfflineKept
  <2>1. Init => Offline = {} /\ received = 0 BY DEF Init, Offline
  <2> QED BY <2>1, TotalEmpty DEF OfflineKept
<1>2. Book /\ Book' /\ OfflineKept /\ [Next]_vars => OfflineKept' BY OfflineKeptStays
<1>3. OfflineKept => OfflineBooked BY DEF OfflineKept, OfflineBooked, Offline
<1> QED BY <1>1, <1>2, <1>3, BookHolds, PTL DEF Spec

-----------------------------------------------------------------------------
(* The two ledgers.  Every chargeback has the payment it disputes, as long as *)
(* no advance was moved by two requests at once.                              *)

Original(p, q) == p.kind = "IN" /\ SameRef(p, q) /\ p.amount = q.amount
Origins ==
    /\ \A q \in payments : q.kind = "CHARGEBACK" /\ q.via # "ADVANCE" =>
          \E p \in payments : Original(p, q)
    /\ \A r \in Requests : req[r].pc = "chargeback" =>
          \A p \in req[r].pool : p.via # "ADVANCE" => p \in payments
Matched(i) == invoice[i].paid + Total(RowsOf("CHARGEBACK", i)) = Total(RowsOf("IN", i))
Agreed ==
    0 \notin raced =>
        Origins /\ \A i \in Invoices \ raced : invoice[i].mode = "CREDIT" => Matched(i)

LEMMA DisputeIs ==
    ASSUME Book, NEW r \in Requests, req[r].pc = "chargeback", NEW p \in req[r].pool
    PROVE  p \in Payment /\ p.kind = "IN" /\ p.amount > 0 /\ req[r].pool = {p}
<1>1. PICK c \in Payment : Disputes(req[r], c) BY Parts DEF CallFits
<1> QED BY <1>1 DEF Disputes

\* What is no advance stays.
LEMMA RowsStay ==
    ASSUME Book, [Next]_vars, 0 \notin raced, NEW p \in payments, p.via # "ADVANCE"
    PROVE  p \in payments'
<1>1. ASSUME NEW r \in Requests, ApplyAdvance(r) PROVE p \in payments'
  <2>1. req[r].pc = "apply" BY <1>1 DEF ApplyAdvance
  <2>2. PICK take, got, rest : Applies(r, take, got, rest) BY <1>1, ApplyDoes
  <2>3. PICK pool : pool = req[r].pool OBVIOUS
  <2>4. PICK B : B = Needy(r) OBVIOUS
  <2>5. PICK K : K = DOMAIN FundOf(req[r].pool) OBVIOUS
  <2>6. pool \subseteq payments BY <2>1, <2>3, Parts DEF Fresh
  <2>7. payments' = (payments \ pool) \cup UNION {Pieces(pool, B, take, rest, k) : k \in K}
    BY <2>1, <2>2, <2>3, <2>4, <2>5, <2>6, AppliedTable
  <2>8. p \notin pool BY <2>1, <2>3, <2>5, PoolRows DEF Advance
  <2> QED BY <2>7, <2>8
<1>2. ASSUME payments \subseteq payments' PROVE p \in payments' BY <1>2
<1>3. ASSUME NEW i \in Invoices, Issue(i) \/ Collect(i) PROVE p \in payments'
  BY <1>3 DEF Issue, Collect
<1>4. ASSUME NEW r \in Requests, Call(r) PROVE p \in payments'
  BY <1>4 DEF Call, BeginSettle, BeginCancel, BeginOffline, BeginAdvance, BeginChargeback
<1>5. ASSUME NEW r \in Requests, RecordSettle(r) \/ RecordOffline(r) PROVE p \in payments'
  BY <1>5 DEF RecordSettle, RecordOffline
<1>6. ASSUME NEW r \in Requests, Refund(r) \/ Adjust(r) \/ MarkCancelled(r) PROVE p \in payments'
  BY <1>6 DEF Refund, Adjust, MarkCancelled
<1>7. ASSUME NEW r \in Requests, ReadPool(r) \/ RecordChargeback(r) \/ Die(r) PROVE p \in payments'
  BY <1>7 DEF ReadPool, RecordChargeback, Die
<1>8. CASE UNCHANGED vars BY <1>8 DEF vars
<1> QED BY <1>1, <1>3, <1>4, <1>5, <1>6, <1>7, <1>8 DEF Next, Step

LEMMA OriginsStays ==
    ASSUME Book, Origins, [Next]_vars, 0 \notin raced
    PROVE  Origins'
<1>1. ASSUME NEW q \in payments', q.kind = "CHARGEBACK", q.via # "ADVANCE"
      PROVE  \E p \in payments' : Original(p, q)
  <2>1. CASE q \in payments
    <3>1. PICK p \in payments : Original(p, q) BY <1>1, <2>1 DEF Origins
    <3>2. p.via # "ADVANCE" BY <1>1, <3>1 DEF Original, SameRef
    <3> QED BY <3>1, <3>2, RowsStay
  <2>2. CASE q \notin payments
    <3>1. PICK r \in Requests : \E c \in req[r].pool :
            /\ RecordChargeback(r)
            /\ q = Row("CHARGEBACK", c.corr, c.amount, c.via, c.capture, 0, 0)
            /\ q.corr = c.corr /\ SameRef(c, q)
      BY <1>1, <2>2, NewChargeback
    <3>2. PICK c \in req[r].pool :
            /\ RecordChargeback(r)
            /\ q = Row("CHARGEBACK", c.corr, c.amount, c.via, c.capture, 0, 0)
            /\ SameRef(c, q)
      BY <3>1
    <3>3. req[r].pc = "chargeback" BY <3>2 DEF RecordChargeback
    <3>4. c.kind = "IN" BY <3>3, DisputeIs
    <3>5. q.amount = c.amount BY <3>2, RowIs
    <3>6. c.via # "ADVANCE" BY <1>1, <3>2 DEF SameRef
    <3>7. c \in payments BY <3>3, <3>6 DEF Origins
    <3>8. c \in payments' BY <3>6, <3>7, RowsStay
    <3> QED BY <3>2, <3>4, <3>5, <3>8 DEF Original
  <2> QED BY <2>1, <2>2
<1>2. ASSUME NEW r \in Requests, req'[r].pc = "chargeback", NEW p \in req'[r].pool, p.via # "ADVANCE"
      PROVE  p \in payments'
  <2>1. CASE req'[r] = req[r]
    <3>1. p \in payments BY <1>2, <2>1 DEF Origins
    <3> QED BY <1>2, <3>1, RowsStay
  <2>2. CASE \E c \in payments : req'[r].pool = {c} /\ Disputable(c) /\ payments' = payments
    BY <1>2, <2>2
  <2> QED BY <1>2, <2>1, <2>2, InFlightChargeback
<1> QED BY <1>1, <1>2 DEF Origins, Original, SameRef

\* The rows of an invoice, as TotalSplit wants them.
LEMMA RowsOfTyped ==
    ASSUME Book, NEW kind, NEW i
    PROVE  /\ RowsOf(kind, i) \subseteq Payment /\ IsFiniteSet(RowsOf(kind, i))
           /\ Total(RowsOf(kind, i)) \in Nat
<1>1. RowsOf(kind, i) \subseteq payments BY DEF RowsOf
<1>2. RowsOf(kind, i) \subseteq Payment /\ IsFiniteSet(RowsOf(kind, i)) BY <1>1, Parts, FS_Subset
<1> QED BY <1>2, TotalType

LEMMA NoAdvanceRow ==
    ASSUME Book, NEW i \in Invoices, NEW p \in payments, p.corr = i
    PROVE  p.via # "ADVANCE" /\ Present(i)
<1>1. i \in Nat /\ i <= NumInvoices BY LedgerAssumption DEF Invoices
<1>2. RowFits(p) BY Parts DEF Table
<1> QED BY <1>1, <1>2, LedgerAssumption DEF RowFits

\* Charged back rows have their payments; one more does as well.
LEMMA DisputedPaid ==
    ASSUME Book, Once, Origins, NEW r \in Requests, req[r].pc = "chargeback",
           NEW i \in Invoices \ raced, NEW p \in req[r].pool, p.corr = i
    PROVE  Total(RowsOf("CHARGEBACK", i)) + p.amount <= Total(RowsOf("IN", i))
<1> DEFINE A == RowsOf("CHARGEBACK", i)
           I == RowsOf("IN", i)
           f == [q \in A \cup {p} |-> q.amount]
           g == [q \in I |-> q.amount]
           h == [q \in A \cup {p} |-> IF q = p THEN p ELSE CHOOSE x \in I : Original(x, q)]
<1>1. p.via # "ADVANCE" /\ p \in Payment BY DisputesHas
<1>2. p \in payments /\ p.kind = "IN" BY <1>1, DisputeIs DEF Origins
<1>3. p \in I /\ p \notin A BY <1>2 DEF RowsOf
<1>4. ASSUME NEW q \in A PROVE h[q] \in I /\ Original(h[q], q) /\ ~SameRef(p, q)
  <2>1. q \in payments /\ q.kind = "CHARGEBACK" /\ q.corr = i BY DEF RowsOf
  <2>2. q.via # "ADVANCE" BY <2>1, NoAdvanceRow
  <2>3. PICK x \in payments : Original(x, q) BY <2>1, <2>2 DEF Origins
  <2>4. x \in I BY <2>1, <2>3 DEF RowsOf, Original, SameRef
  <2>5. h[q] = CHOOSE y \in I : Original(y, q) BY <1>3
  <2>6. h[q] \in I /\ Original(h[q], q) BY <2>3, <2>4, <2>5
  <2>7. ~SameRef(p, q) BY DEF Once
  <2> QED BY <2>6, <2>7
<1>5. h[p] = p OBVIOUS
<1>6. /\ A \subseteq Payment /\ IsFiniteSet(A) /\ I \subseteq Payment /\ IsFiniteSet(I)
      /\ A \cup {p} \subseteq Payment /\ IsFiniteSet(A \cup {p})
  <2>1. A \subseteq Payment /\ IsFiniteSet(A) /\ I \subseteq Payment /\ IsFiniteSet(I)
    BY RowsOfTyped
  <2> QED BY <1>1, <2>1, FS_AddElement
<1>7. Total(A \cup {p}) = Total(A) + p.amount BY <1>1, <1>3, <1>6, TotalAdd
<1>8. Summable(f) /\ Summable(g) BY <1>6, TotalType
<1>9. DOMAIN f = A \cup {p} /\ DOMAIN g = I OBVIOUS
<1>10. h \in [DOMAIN f -> DOMAIN g]
  <2>1. \A q \in A \cup {p} : h[q] \in I BY <1>3, <1>4, <1>5
  <2>2. h = [q \in A \cup {p} |-> h[q]] OBVIOUS
  <2> HIDE DEF h, f, g
  <2> QED BY <1>9, <2>1, <2>2
<1>11. ASSUME NEW x \in DOMAIN f, NEW y \in DOMAIN f, h[x] = h[y] PROVE x = y
  <2> HIDE DEF h
  <2>1. CASE x \in A /\ y \in A
    <3>1. Original(h[x], x) /\ Original(h[x], y) BY <1>4, <1>11, <2>1
    <3>2. SameRef(x, y) BY <3>1 DEF Original, SameRef
    <3> QED BY <2>1, <3>2 DEF Once
  <2>2. CASE x \in A /\ y = p BY <1>4, <1>5, <1>11, <2>2 DEF Original
  <2>3. CASE x = p /\ y \in A BY <1>4, <1>5, <1>11, <2>3 DEF Original
  <2> QED BY <1>9, <2>1, <2>2, <2>3
<1>12. ASSUME NEW x \in DOMAIN f PROVE f[x] <= g[h[x]]
  <2>1. f[x] = x.amount /\ x \in Payment /\ h[x] \in I BY <1>6, <1>9, <1>10
  <2>2. g[h[x]] = h[x].amount BY <2>1
  <2>3. h[x].amount = x.amount BY <1>4, <1>5, <1>9 DEF Original
  <2>4. x.amount \in Nat BY <2>1 DEF Payment
  <2> HIDE DEF f, g, h
  <2> QED BY <2>1, <2>2, <2>3, <2>4
<1> HIDE DEF f, g, h, A, I
<1>13. SumOf(f) <= SumOf(g) BY <1>8, <1>10, <1>11, <1>12, SumInto
<1>14. SumOf(f) = Total(A \cup {p}) /\ SumOf(g) = Total(I) BY DEF f, g, Total
<1> QED BY <1>7, <1>13, <1>14 DEF A, I

\* What keeps an invoice and its rows in step: nothing, or as much on both.
LEMMA MatchedSame ==
    ASSUME NEW i \in Invoices, Matched(i), invoice'[i].paid = invoice[i].paid,
           RowsOf("IN", i)' = RowsOf("IN", i), RowsOf("CHARGEBACK", i)' = RowsOf("CHARGEBACK", i)
    PROVE  Matched(i)'
BY DEF Matched

LEMMA MatchedAdds ==
    ASSUME Book, NEW i \in Invoices, Matched(i), NEW S \in SUBSET Payment, NEW x \in Nat,
           IsFiniteSet(S), Total(S) = x, S \cap payments = {},
           invoice'[i].paid = invoice[i].paid + x,
           RowsOf("IN", i)' = RowsOf("IN", i) \cup S,
           RowsOf("CHARGEBACK", i)' = RowsOf("CHARGEBACK", i)
    PROVE  Matched(i)'
<1>1. PICK I : I = RowsOf("IN", i) OBVIOUS
<1>2. PICK c : c = Total(RowsOf("CHARGEBACK", i)) OBVIOUS
<1>3. I \subseteq Payment /\ IsFiniteSet(I) /\ Total(I) \in Nat BY <1>1, RowsOfTyped
<1>4. c \in Nat BY <1>2, RowsOfTyped
<1>5. I \cap S = {} BY <1>1 DEF RowsOf
<1>6. Total(I \cup S) = Total(I) + x BY <1>3, <1>5, TotalSplit
<1>7. invoice[i].paid \in Nat BY Parts DEF Inv, TypeOK, Invoice
<1>8. invoice[i].paid + c = Total(I) BY <1>1, <1>2 DEF Matched
<1>9. (invoice[i].paid + x) + c = Total(I \cup S) BY <1>3, <1>4, <1>6, <1>7, <1>8
<1> QED BY <1>1, <1>2, <1>9 DEF Matched

\* An invoice that is to come has no rows.
LEMMA MatchedOpens ==
    ASSUME Book, Book', NEW j \in Invoices, Issue(j) \/ Collect(j), NEW i \in Invoices,
           invoice[i].mode = "CREDIT" => Matched(i), invoice'[i].mode = "CREDIT"
    PROVE  Matched(i)'
<1>1. CASE i = j
  <2>1. ~Present(i) BY <1>1 DEF Issue, Collect, Present
  <2>2. invoice \in [Invoices -> Invoice] BY Parts DEF Inv, TypeOK
  <2>3. CASE Issue(j)
    <3>1. invoice'[i].paid = 0 BY <1>1, <2>2, <2>3 DEF Issue
    <3>2. payments' = payments BY <2>3 DEF Issue
    <3>3. RowsOf("IN", i)' = {} /\ RowsOf("CHARGEBACK", i)' = {} BY <2>1, <3>2, NoAdvanceRow DEF RowsOf
    <3> QED BY <3>1, <3>3, TotalEmpty DEF Matched
  <2>4. CASE Collect(j)
    <3>1. invoice'[i].mode = "PREPAY" BY <1>1, <2>2, <2>4 DEF Collect
    <3> QED BY <3>1
  <2> QED BY <2>3, <2>4
<1>2. CASE i # j
  <2>1. invoice'[i] = invoice[i] BY <1>2, IssueMoves
  <2>2. RowsOf("IN", i)' = RowsOf("IN", i) /\ RowsOf("CHARGEBACK", i)' = RowsOf("CHARGEBACK", i)
    <3>1. CASE Issue(j) BY <3>1 DEF Issue, RowsOf
    <3>2. CASE Collect(j)
      <4>1. PICK p : p = Row("IN", j, Price, "GATEWAY", clock + 1, j, 0) OBVIOUS
      <4>2. payments' = payments \cup {p} BY <3>2, <4>1 DEF Collect
      <4>3. p.corr = j BY <4>1, RowIs
      <4> QED BY <1>2, <4>2, <4>3 DEF RowsOf
    <3> QED BY <3>1, <3>2
  <2> QED BY <2>1, <2>2, MatchedSame
<1> QED BY <1>1, <1>2

\* What a payment does to the invoice, in the terms of Matched.
LEMMA DrawsIs ==
    ASSUME Book, NEW i \in Invoices, NEW x, Draws(i, x)
    PROVE  x \in Nat /\ invoice'[i].paid = invoice[i].paid + x /\ invoice'[i].mode = invoice[i].mode
<1>1. invoice[i] \in Invoice BY Parts DEF Inv, TypeOK
<1>2. x \in Nat /\ invoice'[i] = PaidDown(invoice[i], invoice[i], x) BY DEF Draws
<1> QED BY <1>1, <1>2, PaidDownKeeps

LEMMA SettleMatches ==
    ASSUME Book, Book', NEW r \in Requests, RecordSettle(r), NEW i \in Invoices, i \notin raced,
           invoice[i].mode = "CREDIT" => Matched(i), invoice'[i].mode = "CREDIT"
    PROVE  Matched(i)'
<1>1. PICK p : p = Row("IN", req[r].inv, req[r].amount, "GATEWAY", clock + 1, req[r].inv, 0) OBVIOUS
<1>2. /\ p.kind = "IN" /\ p.corr = req[r].inv /\ p.amount = req[r].amount /\ p.id[1] = clock + 1
  BY <1>1, RowIs
<1>3. payments' = payments \cup {p} BY <1>1 DEF RecordSettle
<1>4. p \in Payment /\ p \notin payments BY <1>2, <1>3, MoneyTypedNext, RowIsNew
<1>5. RowsOf("CHARGEBACK", i)' = RowsOf("CHARGEBACK", i) BY <1>2, <1>3 DEF RowsOf
<1>6. CASE i = req[r].inv
  <2>1. Draws(i, p.amount) BY <1>2, <1>6, SettleMoves
  <2>2. /\ p.amount \in Nat /\ invoice'[i].paid = invoice[i].paid + p.amount
        /\ invoice'[i].mode = invoice[i].mode
    BY <2>1, DrawsIs
  <2>3. RowsOf("IN", i)' = RowsOf("IN", i) \cup {p} BY <1>2, <1>3, <1>6 DEF RowsOf
  <2>4. IsFiniteSet({p}) /\ Total({p}) = p.amount /\ {p} \in SUBSET Payment /\ {p} \cap payments = {}
    BY <1>4, TotalOne, FS_Singleton
  <2> QED BY <1>5, <2>2, <2>3, <2>4, MatchedAdds
<1>7. CASE i # req[r].inv
  <2>1. invoice'[i] = invoice[i] BY <1>7, SettleMoves
  <2>2. RowsOf("IN", i)' = RowsOf("IN", i) BY <1>2, <1>3, <1>7 DEF RowsOf
  <2> QED BY <1>5, <2>1, <2>2, MatchedSame
<1> QED BY <1>6, <1>7

LEMMA ChargebackMatches ==
    ASSUME Book, Book', Once, Origins, NEW r \in Requests, RecordChargeback(r),
           NEW i \in Invoices, i \notin raced,
           invoice[i].mode = "CREDIT" => Matched(i), invoice'[i].mode = "CREDIT"
    PROVE  Matched(i)'
<1>1. req[r].pc = "chargeback" BY DEF RecordChargeback
<1>2. PICK p \in Payment :
        /\ Disputes(req[r], p)
        /\ payments' = payments \cup {Row("CHARGEBACK", p.corr, p.amount, p.via, p.capture, 0, 0)}
  BY ChargebackDoes
<1>3. req[r].pool = {p} /\ p.amount \in Nat BY <1>2 DEF Disputes, Payment
<1>4. PICK x : x = Row("CHARGEBACK", p.corr, p.amount, p.via, p.capture, 0, 0) OBVIOUS
<1>5. /\ x.kind = "CHARGEBACK" /\ x.corr = p.corr /\ x.amount = p.amount /\ x.id[1] = clock + 1
  BY <1>4, RowIs
<1>6. payments' = payments \cup {x} BY <1>2, <1>4
<1>7. x \in Payment /\ x \notin payments BY <1>5, <1>6, MoneyTypedNext, RowIsNew
<1>8. RowsOf("IN", i)' = RowsOf("IN", i) BY <1>5, <1>6 DEF RowsOf
<1>9. CASE i = req[r].inv
  <2>1. i \in Nat /\ i <= NumInvoices BY LedgerAssumption DEF Invoices
  <2>2. p.corr = i BY <1>2, <1>9, <2>1, LedgerAssumption DEF Disputes, Invoices
  <2>3. PICK A : A = RowsOf("CHARGEBACK", i) OBVIOUS
  <2>4. PICK t : t = Total(RowsOf("IN", i)) OBVIOUS
  <2>5. Total(A) + p.amount <= t BY <1>1, <1>3, <2>2, <2>3, <2>4, DisputedPaid
  <2>6. Reopens(i, p.amount) BY <1>3, <1>9, ChargebackMoves
  <2>7. invoice[i] \in Invoice BY Parts DEF Inv, TypeOK
  <2>8. PICK row : row = Reopened(invoice[i], invoice[i], p.amount) OBVIOUS
  <2>9. invoice'[i] = row BY <2>6, <2>8 DEF Reopens
  <2>10. row.mode = invoice[i].mode
         /\ row.paid = IF invoice[i].paid <= p.amount THEN 0 ELSE invoice[i].paid - p.amount
    BY <2>7, <2>8, ReopenedKeeps
  <2>11. PICK d : d = invoice[i].paid OBVIOUS
  <2>12. d \in Nat BY <2>7, <2>11 DEF Invoice
  <2>13. A \subseteq Payment /\ IsFiniteSet(A) /\ Total(A) \in Nat /\ t \in Nat
    BY <2>3, <2>4, RowsOfTyped
  <2>14. d + Total(A) = t BY <2>3, <2>4, <2>9, <2>10, <2>11 DEF Matched
  <2>15. p.amount <= d BY <1>3, <2>5, <2>12, <2>13, <2>14
  <2>16. row.paid = d - p.amount BY <1>3, <2>10, <2>11, <2>12, <2>15
  <2>17. RowsOf("CHARGEBACK", i)' = A \cup {x} BY <1>5, <1>6, <2>2, <2>3 DEF RowsOf
  <2>18. x \notin A BY <1>7, <2>3 DEF RowsOf
  <2>19. Total(A \cup {x}) = Total(A) + p.amount BY <1>5, <1>7, <2>13, <2>18, TotalAdd
  <2>20. (d - p.amount) + (Total(A) + p.amount) = t BY <1>3, <2>12, <2>13, <2>14
  <2> QED BY <1>8, <2>4, <2>9, <2>16, <2>17, <2>19, <2>20 DEF Matched
<1>10. CASE i # req[r].inv
  <2>1. p.corr # i
    <3>1. i \in Nat /\ i <= NumInvoices BY LedgerAssumption DEF Invoices
    <3> QED BY <1>2, <1>10, <3>1, LedgerAssumption DEF Disputes
  <2>2. invoice'[i] = invoice[i] BY <1>3, <1>10, ChargebackMoves
  <2>3. RowsOf("CHARGEBACK", i)' = RowsOf("CHARGEBACK", i) BY <1>5, <1>6, <2>1 DEF RowsOf
  <2> QED BY <1>8, <2>2, <2>3, MatchedSame
<1> QED BY <1>9, <1>10

LEMMA OfflineMatches ==
    ASSUME Book, Book', NEW r \in Requests, RecordOffline(r), NEW i \in Invoices, i \notin raced,
           invoice[i].mode = "CREDIT" => Matched(i), invoice'[i].mode = "CREDIT"
    PROVE  Matched(i)'
<1> DEFINE fund == [k \in {0} |-> req[r].amount]
           B == Needy(r)
<1>1. PICK take, got, rest :
        /\ take \in FifoTakes(NeedOf(r), fund) /\ got \in Applied(take, B, {0}) /\ PayDownAll(r, got)
        /\ payments' = payments \cup Remainder(rest[0]) \cup
              {Row("IN", j, got[j], "OFFLINE", 0, j, 0) : j \in {j \in B : got[j] > 0}}
  BY DEF RecordOffline
<1>2. DOMAIN fund = {0} OBVIOUS
<1> HIDE DEF fund
<1>3. req[r].pc = "offline" BY DEF RecordOffline
<1>4. \/ invoice'[i] = invoice[i] /\ (i \in B => got[i] = 0)
      \/ i \in B /\ got[i] > 0 /\ Draws(i, got[i])
  BY <1>1, <1>2, <1>3, PayDownMoves
<1> HIDE DEF B
<1>5. \A x \in Remainder(rest[0]) : x.kind = "IN" /\ x.corr # i
  <2> TAKE x \in Remainder(rest[0])
  <2>1. PICK left : x = Row("IN", NumInvoices + clock + 1, left, "ADVANCE", 0, 0, 0) BY DEF Remainder
  <2>2. x.kind = "IN" /\ x.corr = NumInvoices + clock + 1 BY <2>1, RowIs
  <2>3. clock \in Nat BY Parts
  <2>4. i \in Nat /\ i <= NumInvoices BY LedgerAssumption DEF Invoices
  <2> QED BY <2>2, <2>3, <2>4, LedgerAssumption
<1> DEFINE new == {Row("IN", j, got[j], "OFFLINE", 0, j, 0) : j \in {j \in B : got[j] > 0}}
<1>6. \A x \in new : /\ x.kind = "IN" /\ x.corr \in B /\ got[x.corr] > 0
                     /\ x = Row("IN", x.corr, got[x.corr], "OFFLINE", 0, x.corr, 0)
  <2> TAKE x \in new
  <2>1. PICK j \in B : got[j] > 0 /\ x = Row("IN", j, got[j], "OFFLINE", 0, j, 0) OBVIOUS
  <2>2. x.kind = "IN" /\ x.corr = j BY <2>1, RowIs
  <2> QED BY <2>1, <2>2
<1>7. payments' = payments \cup (Remainder(rest[0]) \cup new) BY <1>1
<1>8. RowsOf("CHARGEBACK", i)' = RowsOf("CHARGEBACK", i)
  <2> HIDE DEF new
  <2> QED BY <1>5, <1>6, <1>7 DEF RowsOf
<1>9. CASE i \in B /\ got[i] > 0 /\ Draws(i, got[i])
  <2>1. PICK p : p = Row("IN", i, got[i], "OFFLINE", 0, i, 0) OBVIOUS
  <2>2. p.kind = "IN" /\ p.corr = i /\ p.amount = got[i] /\ p.id[1] = clock + 1 BY <2>1, RowIs
  <2>3. p \in new BY <1>9, <2>1
  <2>4. \A x \in new : x.corr = i => x = p BY <1>6, <2>1
  <2> HIDE DEF new
  <2>5. RowsOf("IN", i)' = RowsOf("IN", i) \cup {p} BY <1>5, <1>7, <2>2, <2>3, <2>4 DEF RowsOf
  <2>6. p \in Payment /\ p \notin payments BY <1>7, <2>2, <2>3, MoneyTypedNext, RowIsNew
  <2>7. /\ p.amount \in Nat /\ invoice'[i].paid = invoice[i].paid + p.amount
        /\ invoice'[i].mode = invoice[i].mode
    BY <1>9, <2>2, DrawsIs
  <2>8. IsFiniteSet({p}) /\ Total({p}) = p.amount /\ {p} \in SUBSET Payment /\ {p} \cap payments = {}
    BY <2>6, TotalOne, FS_Singleton
  <2> QED BY <1>8, <2>5, <2>7, <2>8, MatchedAdds
<1>10. CASE invoice'[i] = invoice[i] /\ (i \in B => got[i] = 0)
  <2>1. \A x \in new : x.corr # i BY <1>6, <1>10
  <2> HIDE DEF new
  <2>2. RowsOf("IN", i)' = RowsOf("IN", i) BY <1>5, <1>7, <2>1 DEF RowsOf
  <2> QED BY <1>8, <1>10, <2>2, MatchedSame
<1> QED BY <1>4, <1>9, <1>10

\* A row cut out of an advance is new to the table.
LEMMA BroughtIsNew ==
    ASSUME Book, NEW r \in Requests, req[r].pc = "apply", req[r].pool \subseteq payments,
           NEW k \in DOMAIN FundOf(req[r].pool), NEW i, NEW x, NEW amount,
           Brings(x, i, amount, PoolRow(req[r].pool, k))
    PROVE  x \notin payments
<1>1. PICK p : p = PoolRow(req[r].pool, k) OBVIOUS
<1>2. p \in req[r].pool /\ p.via = "ADVANCE"
  <2>1. PICK pool : pool = req[r].pool OBVIOUS
  <2>2. PICK K : K = DOMAIN FundOf(req[r].pool) OBVIOUS
  <2>3. p \in pool BY <1>1, <2>1, <2>2, PoolRows
  <2>4. Advance(p) BY <2>1, <2>2, <2>3, PoolRows
  <2> QED BY <2>1, <2>3, <2>4 DEF Advance
<1>3. p \in payments BY <1>2
<1>4. x.via = "APPLIED" /\ (x.id[1] = clock + 1 \/ x.id = p.id) BY <1>1 DEF Brings
<1>5. CASE x.id[1] = clock + 1 BY <1>5, RowIsNew
<1>6. CASE x.id = p.id
  <2>1. x \in payments => x = p BY <1>3, <1>6, Parts DEF Table
  <2> QED BY <1>2, <1>4, <2>1
<1> QED BY <1>4, <1>5, <1>6

LEMMA AppliedIs ==
    ASSUME NEW take, NEW B, NEW K, NEW got \in Applied(take, B, K), NEW i \in B
    PROVE  got[i] = SumOf([k \in K |-> take[i][k]])
BY Zenon DEF Applied

\* What an invoice got from the advances, a piece of each.
PiecesFor(r, take, rest, i) ==
    {Piece(req[r].pool, Needy(r), take, rest, k, i) : k \in {k \in DOMAIN FundOf(req[r].pool) : take[i][k] > 0}}

LEMMA PiecesForTotal ==
    ASSUME Book, NEW r \in Requests, req[r].pc = "apply", NEW take, NEW got, NEW rest,
           Applies(r, take, got, rest), req[r].pool \subseteq payments, NEW i \in Needy(r),
           PiecesFor(r, take, rest, i) \subseteq Payment
    PROVE  /\ IsFiniteSet(PiecesFor(r, take, rest, i)) /\ Total(PiecesFor(r, take, rest, i)) = got[i]
           /\ PiecesFor(r, take, rest, i) \cap payments = {}
<1>1. PICK pool : pool = req[r].pool OBVIOUS
<1>2. PICK B : B = Needy(r) OBVIOUS
<1>3. PICK K : K = DOMAIN FundOf(req[r].pool) OBVIOUS
<1> DEFINE f == [k \in K |-> take[i][k]]
           row == [k \in K |-> Piece(pool, B, take, rest, k, i)]
           S == {row[k] : k \in {k \in K : f[k] > 0}}
<1>4. S = PiecesFor(r, take, rest, i) BY <1>1, <1>2, <1>3 DEF PiecesFor
<1>5. DOMAIN f = K /\ DOMAIN row = K OBVIOUS
<1>6. Summable(f)
  <2>1. IsFiniteSet(K) BY <1>3, PoolTyped
  <2>2. \A k \in K : take[i][k] \in Nat BY <1>3, AppliesTyped
  <2> QED BY <2>1, <2>2 DEF Summable
<1>7. got[i] = SumOf(f)
  <2>1. got \in Applied(take, B, K) BY <1>2, <1>3 DEF Applies
  <2> QED BY <1>2, <2>1, AppliedIs
<1>8. \A k \in K : Brings(row[k], i, f[k], PoolRow(pool, k))
  <2> TAKE k \in K
  <2>1. k \in DOMAIN FundOf(req[r].pool) BY <1>3
  <2>2. row[k] = Piece(req[r].pool, Needy(r), take, rest, k, i) BY <1>1, <1>2
  <2>3. f[k] = take[i][k] OBVIOUS
  <2> HIDE DEF row, f
  <2>4. Brings(row[k], i, take[i][k], PoolRow(req[r].pool, k)) BY <2>1, <2>2, PieceIs
  <2> QED BY <1>1, <2>3, <2>4
<1> HIDE DEF f, row
<1>9. \A k \in K : row[k].amount = f[k] /\ row[k] \notin payments
  <2> TAKE k \in K
  <2>1. Brings(row[k], i, f[k], PoolRow(req[r].pool, k)) BY <1>1, <1>8
  <2>2. k \in DOMAIN FundOf(req[r].pool) BY <1>3
  <2>3. row[k] \notin payments BY <2>1, <2>2, BroughtIsNew
  <2> QED BY <2>1, <2>3 DEF Brings
<1>10. ASSUME NEW k \in K, NEW l \in K, row[k] = row[l] PROVE k = l
  <2>1. PICK p : p = PoolRow(pool, k) OBVIOUS
  <2>2. PICK q : q = PoolRow(pool, l) OBVIOUS
  <2>3. p \in pool /\ q \in pool /\ p.id[1] = k /\ q.id[1] = l BY <1>1, <1>3, <2>1, <2>2, PoolRows
  <2>4. p.id[1] <= clock /\ q.id[1] <= clock /\ p.id[1] \in Nat /\ q.id[1] \in Nat
    BY <1>1, <1>3, <2>3, PoolRows
  <2>5. clock \in Nat BY Parts
  <2>6. PICK x : x = row[k] OBVIOUS
  <2>7. (x.id[1] = clock + 1 /\ x.id[3] = k) \/ x.id[1] = k
    BY <1>8, <2>1, <2>3, <2>6 DEF Brings
  <2>8. (x.id[1] = clock + 1 /\ x.id[3] = l) \/ x.id[1] = l
    BY <1>8, <1>10, <2>2, <2>3, <2>6 DEF Brings
  <2> QED BY <2>3, <2>4, <2>5, <2>7, <2>8
<1>11. S \subseteq Payment /\ IsFiniteSet(S) /\ Total(S) = SumOf(f)
  <2>1. S = {row[x] : x \in {y \in DOMAIN f : f[y] > 0}} BY <1>5
  <2>2. \A x \in DOMAIN f : f[x] > 0 => row[x] \in Payment /\ row[x].amount = f[x]
    BY <1>4, <1>5, <1>9
  <2>3. \A x, y \in DOMAIN f : f[x] > 0 /\ f[y] > 0 /\ row[x] = row[y] => x = y BY <1>5, <1>10
  <2> HIDE DEF S
  <2> QED BY ONLY <1>5, <1>6, <2>1, <2>2, <2>3, TotalOfPieces
<1>12. S \cap payments = {} BY <1>9
<1> HIDE DEF S
<1> QED BY <1>4, <1>7, <1>11, <1>12

\* The rows of an invoice after it.
LEMMA ApplyRows ==
    ASSUME Book, Book', NEW r \in Requests, req[r].pc = "apply", NEW take, NEW got, NEW rest,
           Applies(r, take, got, rest), req[r].pool \subseteq payments, NEW i \in Invoices
    PROVE  /\ RowsOf("CHARGEBACK", i)' = RowsOf("CHARGEBACK", i)
           /\ i \in Needy(r) => RowsOf("IN", i)' = RowsOf("IN", i) \cup PiecesFor(r, take, rest, i)
           /\ i \in Needy(r) => PiecesFor(r, take, rest, i) \subseteq Payment
           /\ i \notin Needy(r) => RowsOf("IN", i)' = RowsOf("IN", i)
<1>1. PICK pool : pool = req[r].pool OBVIOUS
<1>2. PICK B : B = Needy(r) OBVIOUS
<1>3. PICK K : K = DOMAIN FundOf(req[r].pool) OBVIOUS
<1> DEFINE c(k) == Pieces(pool, B, take, rest, k)
           U == UNION {c(k) : k \in K}
<1>4. payments' = (payments \ pool) \cup U BY <1>1, <1>2, <1>3, AppliedTable
<1>5. i \in Nat /\ i <= NumInvoices /\ NumInvoices \in Nat BY LedgerAssumption DEF Invoices
<1>6. \A p \in pool : p.corr # i
  <2> TAKE p \in pool
  <2>1. p.corr > NumInvoices /\ p \in Payment BY <1>1, <1>3, PoolRows
  <2> QED BY <1>5, <2>1 DEF Payment
<1>7. \A k \in K, j \in B :
        LET x == Piece(pool, B, take, rest, k, j) IN x.kind = "IN" /\ x.corr = j
  <2> TAKE k \in K, j \in B
  <2>1. k \in DOMAIN FundOf(req[r].pool) BY <1>3
  <2>2. Brings(Piece(req[r].pool, Needy(r), take, rest, k, j), j, take[j][k], PoolRow(req[r].pool, k))
    BY <2>1, PieceIs
  <2> QED BY <1>1, <1>2, <2>2 DEF Brings
<1>8. \A k \in K : Left(pool, rest, k).kind = "IN" /\ Left(pool, rest, k).corr # i
  <2> TAKE k \in K
  <2>1. k \in DOMAIN FundOf(req[r].pool) BY <1>3
  <2>2. PICK p : p = PoolRow(pool, k) OBVIOUS
  <2> HIDE DEF c, U
  <2>3. p \in pool /\ p \in Payment
    <3>1. PoolRow(pool, k) \in pool /\ PoolRow(pool, k) \in Payment BY <1>1, <1>3, PoolRows
    <3> QED BY <2>2, <3>1
  <2>4. Left(pool, rest, k) = Shrunk(p, rest[k]) BY <2>2 DEF Left
  <2>5. p.kind = "IN" BY <1>1, <1>3, <2>3, PoolRows DEF Advance
  <2>6. p.corr # i BY <1>6, <2>3
  <2> QED BY <2>3, <2>4, <2>5, <2>6, RestFields
<1>9. \A x \in U : /\ x.kind = "IN"
                   /\ x.corr = i => \E k \in K : /\ i \in B /\ take[i][k] > 0
                                                 /\ x = Piece(pool, B, take, rest, k, i)
  <2> TAKE x \in U
  <2>1. PICK k \in K : x \in Pieces(pool, B, take, rest, k) OBVIOUS
  <2>2. CASE x = Left(pool, rest, k) BY <1>8, <2>2
  <2>3. CASE \E j \in Takers(B, take, k) : x = Piece(pool, B, take, rest, k, j)
    <3>1. PICK j \in B : take[j][k] > 0 /\ x = Piece(pool, B, take, rest, k, j) BY <2>3 DEF Takers
    <3>2. x.kind = "IN" /\ x.corr = j BY <1>7, <3>1
    <3> QED BY <3>1, <3>2
  <2> QED BY <2>1, <2>2, <2>3 DEF Pieces
<1>10. ASSUME i \in B, NEW x \in PiecesFor(r, take, rest, i)
       PROVE  x \in U /\ x.kind = "IN" /\ x.corr = i
  <2>1. PICK k \in K : take[i][k] > 0 /\ x = Piece(pool, B, take, rest, k, i)
    BY <1>1, <1>2, <1>3 DEF PiecesFor
  <2>2. x.kind = "IN" /\ x.corr = i BY <1>7, <1>10, <2>1
  <2>3. x \in c(k) BY <1>10, <2>1 DEF Pieces, Takers
  <2> QED BY <2>2, <2>3
<1>11. \A x \in U : x.corr = i => i \in B /\ x \in PiecesFor(r, take, rest, i)
  BY <1>1, <1>2, <1>3, <1>9 DEF PiecesFor
<1> HIDE DEF U
<1>12. RowsOf("CHARGEBACK", i)' = RowsOf("CHARGEBACK", i) BY <1>4, <1>6, <1>9 DEF RowsOf
<1>13. ASSUME i \in B PROVE RowsOf("IN", i)' = RowsOf("IN", i) \cup PiecesFor(r, take, rest, i)
  BY <1>4, <1>6, <1>9, <1>10, <1>11, <1>13 DEF RowsOf
<1>14. ASSUME i \notin B PROVE RowsOf("IN", i)' = RowsOf("IN", i)
  BY <1>4, <1>6, <1>11, <1>14 DEF RowsOf
<1>15. i \in B => PiecesFor(r, take, rest, i) \subseteq Payment BY <1>4, <1>10, MoneyTypedNext
<1> QED BY <1>2, <1>12, <1>13, <1>14, <1>15

LEMMA ApplyMatches ==
    ASSUME Book, Book', NEW r \in Requests, ApplyAdvance(r), NEW i \in Invoices, i \notin raced,
           0 \notin raced, invoice[i].mode = "CREDIT" => Matched(i), invoice'[i].mode = "CREDIT"
    PROVE  Matched(i)'
<1>1. req[r].pc = "apply" BY DEF ApplyAdvance
<1>2. PICK take, got, rest : Applies(r, take, got, rest) BY ApplyDoes
<1>3. req[r].pool \subseteq payments BY <1>1, Parts DEF Fresh
<1>4. /\ RowsOf("CHARGEBACK", i)' = RowsOf("CHARGEBACK", i)
      /\ i \in Needy(r) => RowsOf("IN", i)' = RowsOf("IN", i) \cup PiecesFor(r, take, rest, i)
      /\ i \in Needy(r) => PiecesFor(r, take, rest, i) \subseteq Payment
      /\ i \notin Needy(r) => RowsOf("IN", i)' = RowsOf("IN", i)
  BY <1>1, <1>2, <1>3, ApplyRows
<1>5. \/ invoice'[i] = invoice[i] /\ (i \in Needy(r) => got[i] = 0)
      \/ i \in Needy(r) /\ got[i] > 0 /\ Draws(i, got[i])
  <2>1. PICK fund : fund = FundOf(req[r].pool) OBVIOUS
  <2>2. /\ take \in FifoTakes(NeedOf(r), fund) /\ got \in Applied(take, Needy(r), DOMAIN fund)
        /\ PayDownAll(r, got)
    BY <1>2, <2>1 DEF Applies
  <2> QED BY <1>1, <2>2, PayDownMoves
<1>6. CASE i \in Needy(r)
  <2>1. PICK S : S = PiecesFor(r, take, rest, i) OBVIOUS
  <2>2. S \in SUBSET Payment /\ IsFiniteSet(S) /\ Total(S) = got[i] /\ S \cap payments = {}
    BY <1>1, <1>2, <1>3, <1>4, <1>6, <2>1, PiecesForTotal
  <2>3. Total(S) \in Nat BY <2>2, TotalType
  <2>4. invoice'[i].paid = invoice[i].paid + got[i] /\ invoice'[i].mode = invoice[i].mode
    <3>1. CASE Draws(i, got[i]) BY <3>1, DrawsIs
    <3>2. CASE invoice'[i] = invoice[i] /\ got[i] = 0
      <4>1. invoice[i].paid \in Nat BY Parts DEF Inv, TypeOK, Invoice
      <4> QED BY <3>2, <4>1
    <3> QED BY <1>5, <1>6, <3>1, <3>2
  <2>5. RowsOf("IN", i)' = RowsOf("IN", i) \cup S BY <1>4, <1>6, <2>1
  <2> QED BY <1>4, <2>2, <2>3, <2>4, <2>5, MatchedAdds
<1>7. CASE i \notin Needy(r) BY <1>4, <1>5, <1>7, MatchedSame
<1> QED BY <1>6, <1>7

LEMMA AgreedStays ==
    ASSUME Book, Book', Once, Agreed, [Next]_vars
    PROVE  Agreed'
<1>1. raced \subseteq raced' BY RacedStays
<1> SUFFICES ASSUME 0 \notin raced, Origins,
                    \A i \in Invoices \ raced : invoice[i].mode = "CREDIT" => Matched(i)
             PROVE  Origins' /\ \A i \in Invoices \ raced : invoice'[i].mode = "CREDIT" => Matched(i)'
  BY <1>1 DEF Agreed, Matched, RowsOf
<1>2. Origins' BY OriginsStays
<1>3. ASSUME NEW i \in Invoices, i \notin raced, invoice[i].mode = "CREDIT" => Matched(i),
             invoice'[i].mode = "CREDIT"
      PROVE  Matched(i)'
  <2>1. ASSUME NEW j \in Invoices, Issue(j) \/ Collect(j) PROVE Matched(i)'
    BY <1>3, <2>1, MatchedOpens
  <2>2. ASSUME NEW r \in Requests, RecordSettle(r) PROVE Matched(i)' BY <1>3, <2>2, SettleMatches
  <2>3. ASSUME NEW r \in Requests, RecordOffline(r) PROVE Matched(i)' BY <1>3, <2>3, OfflineMatches
  <2>4. ASSUME NEW r \in Requests, ApplyAdvance(r) PROVE Matched(i)' BY <1>3, <2>4, ApplyMatches
  <2>5. ASSUME NEW r \in Requests, RecordChargeback(r) PROVE Matched(i)'
    BY <1>3, <2>5, ChargebackMatches
  <2>6. ASSUME NEW r \in Requests, Adjust(r) PROVE Matched(i)'
    <3>1. \A x \in RefundRow(r) : x.kind = "REFUND" BY DEF RefundRow, Row
    <3>2. payments' = payments \cup RefundRow(r) BY <2>6 DEF Adjust
    <3>3. RowsOf("IN", i)' = RowsOf("IN", i) /\ RowsOf("CHARGEBACK", i)' = RowsOf("CHARGEBACK", i)
      BY <3>1, <3>2 DEF RowsOf
    <3>4. invoice'[i].paid = invoice[i].paid /\ invoice'[i].mode = invoice[i].mode
      <4>1. invoice[i] \in Invoice BY Parts DEF Inv, TypeOK
      <4>2. CASE i = req[r].inv
        <5>1. Cancels(i, req[r].amount) BY <1>3, <2>6, <4>2, AdjustMoves
        <5> QED BY <4>1, <5>1, CancelledIs DEF Cancels
      <4>3. CASE i # req[r].inv BY <1>3, <2>6, <4>3, AdjustMoves
      <4> QED BY <4>2, <4>3
    <3> QED BY <1>3, <3>3, <3>4, MatchedSame
  <2>7. ASSUME NEW r \in Requests, MarkCancelled(r) PROVE Matched(i)'
    <3>1. payments' = payments BY <2>7 DEF MarkCancelled
    <3>2. RowsOf("IN", i)' = RowsOf("IN", i) /\ RowsOf("CHARGEBACK", i)' = RowsOf("CHARGEBACK", i)
      BY <3>1 DEF RowsOf
    <3>3. invoice'[i].paid = invoice[i].paid /\ invoice'[i].mode = invoice[i].mode
      <4>1. invoice[i] \in Invoice BY Parts DEF Inv, TypeOK
      <4> QED BY <2>7, <4>1, MarkMoves DEF Ends, Invoice
    <3> QED BY <1>3, <3>2, <3>3, MatchedSame
  <2>8. ASSUME invoice' = invoice, payments' = payments PROVE Matched(i)'
    BY <1>3, <2>8 DEF Matched, RowsOf
  <2>9. ASSUME NEW r \in Requests, Call(r) \/ Refund(r) \/ ReadPool(r) \/ Die(r) PROVE Matched(i)'
    <3>1. invoice' = invoice BY <2>9, CallMoves
    <3>2. payments' = payments
      BY <2>9 DEF Call, BeginSettle, BeginCancel, BeginOffline, BeginAdvance, BeginChargeback,
                  Refund, ReadPool, Die
    <3> QED BY <2>8, <3>1, <3>2
  <2>10. CASE UNCHANGED vars BY <2>8, <2>10 DEF vars
  <2> QED BY <2>1, <2>2, <2>3, <2>4, <2>5, <2>6, <2>7, <2>9, <2>10 DEF Next, Step
<1> QED BY <1>2, <1>3

\* The two ledgers of runReconciliation agree: whatever settled, applied and
\* charged back, one at a time, a credit invoice says it has been paid what its
\* payments brought less what was disputed.
THEOREM LedgersAgreeHolds == Spec => []LedgersAgree
<1>1. Init => Agreed BY DEF Init, Agreed, Origins, NoInvoice, Idle
<1>2. Book /\ Book' /\ Once /\ Agreed /\ [Next]_vars => Agreed' BY AgreedStays
<1>3. Book /\ Agreed => LedgersAgree
  <2> SUFFICES ASSUME Book, Agreed, NEW i \in Invoices, invoice[i].mode = "CREDIT",
                      {0, i} \cap raced = {}
               PROVE  invoice[i].paid = Total(RowsOf("IN", i)) - Total(RowsOf("CHARGEBACK", i))
    BY DEF LedgersAgree
  <2>1. Matched(i) BY DEF Agreed
  <2>2. Total(RowsOf("IN", i)) \in Nat /\ Total(RowsOf("CHARGEBACK", i)) \in Nat BY RowsOfTyped
  <2>3. invoice[i].paid \in Nat BY Parts DEF Inv, TypeOK, Invoice
  <2> QED BY <2>1, <2>2, <2>3 DEF Matched
<1> QED BY <1>1, <1>2, <1>3, OnceHolds, PTL DEF Spec
=============================================================================
