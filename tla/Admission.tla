------------------------------ MODULE Admission ------------------------------
(***************************************************************************)
(* How a booking is admitted: the cart of an agent's page, the channel     *)
(* policy and the allotments, the credit gate over the whole cart, the     *)
(* creation of its lines, and what later makes a booking hold a room or    *)
(* owe money again.                                                        *)
(*                                                                         *)
(* A request checks every line against what it read, decides on credit     *)
(* once, and then creates the lines one by one, awaiting between any two   *)
(* of these steps; no transaction holds what it checked.  There is one     *)
(* room type, of which AxisRooms has Stock[d] rooms in night d.            *)
(*                                                                         *)
(* CartAfterKept, RequestedCountAlone, OnCreditFirst and CommitBilled are  *)
(* faults that the properties must detect; the specification uses none.    *)
(***************************************************************************)
EXTENDS Charges, SequencesExt

CONSTANTS
    Agents,      \* agents signed in, each with one search page
    Agencies,
    Homes,       \* the agencies the agents may belong to: functions
    Limit,       \* credit limit of an agency, 0 if it pays first
    Slots,       \* requests the server handles at one time
    Lines,       \* the stays agents ask for
    Stock,       \* AxisRooms: rooms of the type in each night
    Policies,    \* the channel policies an administrator may create
    Allotments,  \* the allotments an administrator may create
    Nobody,      \* no agent
    MaxKeys,     \* bound: rooms put in carts
    MaxRows,     \* bound: bookings
    MaxUpsets    \* bound: events that disturb the booking of the carts

ASSUME AdmissionAssumption ==
    /\ Homes \subseteq [Agents -> Agencies] /\ Nobody \notin Agents
    /\ Limit \in [Agencies -> Nat]
    /\ \A d \in DOMAIN Stock : Stock[d] \in Nat
    /\ Policies \subseteq [kind : {"CAP", "STOP_SELL"}, cap : Nat, from : Nat, to : Nat]
    /\ \A b \in Allotments : b.rooms \in Nat
    /\ MaxKeys \in Nat /\ MaxRows \in Nat

\* A stay asked for, with a rate for each of its nights.
ASSUME LinesAssumption ==
    \A l \in Lines :
        /\ l.from \in Nat /\ l.to \in Nat
        /\ l.adults \in Nat /\ l.children \in Nat /\ l.beds \in Nat /\ l.ages \in Seq(Nat)
        /\ ~IsDayUse(l) => l.plan \in DOMAIN Rate /\ l.from .. l.to - 1 \subseteq DOMAIN Rate[l.plan]

VARIABLES
    home,      \* the agency of each agent
    policies,  \* rows of ChannelPolicy; since is the number of bookings then
    blocks,    \* rows of Allotment
    rows,      \* rows of Booking, in the order of their creation
    calls,     \* the createGroupBooking running in each slot
    pages,     \* the search page of each agent: its cart, and whether it waits
    keys,      \* history: rooms put in carts so far; they number cart lines
    torn,      \* history: the cart lines of the requests that were cut short
    upsets     \* history: the events that disturbed the carts, to bound them

vars == <<home, policies, blocks, rows, calls, pages, keys, torn, upsets>>

(* overtaken: since the call's first read, another booking was created on  *)
(* nights it asks for, or the limits became stricter.  On credit, seen is  *)
(* the balance the gate read, with the lines created since; last is the    *)
(* row created last; heard says that the page still waits for the call.    *)
Idle == [at |-> "idle", agent |-> Nobody, lines |-> << >>, n |-> 1, avail |-> 0,
         seen |-> 0, credit |-> FALSE, last |-> 0, overtaken |-> FALSE, heard |-> FALSE]

Since(p, i) == [kind |-> p.kind, cap |-> p.cap, from |-> p.from, to |-> p.to, since |-> i]

Init ==
    /\ home \in Homes
    /\ policies \in {{}} \cup {{Since(p, 0)} : p \in Policies}
    /\ blocks \in {{}} \cup {{b} : b \in Allotments}
    /\ rows = << >>
    /\ calls = [s \in Slots |-> Idle]
    /\ pages = [a \in Agents |-> [cart |-> << >>, busy |-> FALSE]]
    /\ keys = 0 /\ torn = {} /\ upsets = 0

\* bound: lost answers, failures, cancellations, settlements, admin changes...
Upset == upsets < MaxUpsets /\ upsets' = upsets + 1

-----------------------------------------------------------------------------
(* Rooms. *)

\* A stay's nights as AxisRooms holds them; a day-use stay holds its day.
Held(l) == IF IsDayUse(l) THEN {l.from} ELSE l.from .. Until(l) - 1

\* Strictly: a day-use stay overlaps only a stay that begins before its day and
\* ends after it, and never another day-use stay.
DatesOverlap(l, m) == l.from < Until(m) /\ Until(l) > m.from

\* The rows the channel counts as holding a room.
Counted(r) ==
    \/ r.state \in {"PAID", "CONFIRMED_ON_CREDIT", "COMMITTED", "COMMIT_FAILED"}
    \/ r.state = "AWAITING_PAYMENT" /\ ~r.lapsed

AllCounted == {i \in DOMAIN rows : Counted(rows[i])}

Uncommitted == {i \in AllCounted : rows[i].state # "COMMITTED"}

\* The bookings among those given that overlap a stay.
CountOverlapping(l, some) == Cardinality({i \in some : DatesOverlap(rows[i].line, l)})

\* AxisRooms: the rooms free in night d, and whether it can take a stay.
Free(d) == Stock[d] - Cardinality({i \in DOMAIN rows :
                         rows[i].state = "COMMITTED" /\ d \in Held(rows[i].line)})

HasRoom(l) == \A d \in Held(l) : Free(d) >= 1

\* A window includes the day of departure.
Applies(p, l) == p.from =< Until(l) /\ p.to >= l.from

\* An agency's allotments, on top of what the channel leaves; they are not
\* drawn down by its bookings.
Allotted(agency, l) ==
    SumOf([b \in {b \in blocks : b.agency = agency /\ Applies(b, l)} |-> b.rooms])

\* What remains of avail rooms for the agency.
Effective(agency, l, avail) ==
    LET caps == {p.cap : p \in {q \in policies : q.kind = "CAP" /\ Applies(q, l)}}
        unheld == Max({0, avail - CountOverlapping(l, Uncommitted)})
        already == CountOverlapping(l, AllCounted)
    IN  (IF caps = {} THEN unheld ELSE Min({unheld, Max({0, Min(caps) - already})}))
        + Allotted(agency, l)

StopSold(l) == \E p \in policies : p.kind = "STOP_SELL" /\ Applies(p, l)

-----------------------------------------------------------------------------
(* Money. *)

\* getOutstanding: the credit invoices that are not settled.
Outstanding(agency) ==
    SumOf([i \in {i \in DOMAIN rows : rows[i].agency = agency} |-> rows[i].owed])

\* A booking on credit that is not billed yet.
Unbilled(r) ==
    /\ r.credit /\ r.owed = 0
    /\ r.at = "bill" \/ r.state \in {"CONFIRMED_ON_CREDIT", "COMMIT_FAILED"}

Exposure(agency) ==
    Outstanding(agency)
    + SumOf([i \in {i \in DOMAIN rows : rows[i].agency = agency /\ Unbilled(rows[i])} |-> rows[i].price])

CartTotal(lines) == SumOf([i \in DOMAIN lines |-> AgencyPrice(lines[i].line)])

-----------------------------------------------------------------------------
(* The search page. *)

\* What the search offered is as old as it is shown: the count may be any the
\* agency ever saw.
Shown(a) ==
    Max({Stock[d] : d \in DOMAIN Stock}) + SumOf([b \in {b \in Allotments : b.agency = home[a]} |-> b.rooms])

AddRoom(a, l) ==
    /\ ~pages[a].busy
    /\ keys < MaxKeys
    /\ Priced(l)
    /\ Cardinality({i \in DOMAIN pages[a].cart : DatesOverlap(pages[a].cart[i].line, l)})
         < Shown(a)
    /\ keys' = keys + 1
    /\ pages' = [pages EXCEPT ![a].cart = Append(@, [key |-> keys + 1, line |-> l])]
    /\ UNCHANGED <<home, policies, blocks, rows, calls, torn, upsets>>

RemoveLine(a, i) ==
    /\ ~pages[a].busy
    /\ i \in DOMAIN pages[a].cart
    /\ pages' = [pages EXCEPT ![a].cart = RemoveAt(@, i)]
    /\ UNCHANGED <<home, policies, blocks, rows, calls, keys, torn, upsets>>

Confirm(a, s) ==
    /\ ~pages[a].busy
    /\ pages[a].cart # << >>
    /\ calls[s].at = "idle"
    /\ calls' = [calls EXCEPT ![s] = [Idle EXCEPT !.at = "avail", !.agent = a,
                                        !.lines = pages[a].cart, !.heard = TRUE]]
    /\ pages' = [pages EXCEPT ![a].busy = TRUE]
    /\ UNCHANGED <<home, policies, blocks, rows, keys, torn, upsets>>

CartAfterKept(cart, ok) == cart

\* A success empties the cart; an error leaves it, to be confirmed again.
CartAfter(cart, ok) == IF ok THEN << >> ELSE cart

\* The call ends, and the page learns of it if it still waits.
Answer(s, ok) ==
    /\ calls' = [calls EXCEPT ![s] = Idle]
    /\ pages' = IF calls[s].heard
                THEN [pages EXCEPT ![calls[s].agent] =
                        [cart |-> CartAfter(@.cart, ok), busy |-> FALSE]]
                ELSE pages

-----------------------------------------------------------------------------
(* createGroupBooking: every line is checked, then the gate decides, then  *)
(* every line is created.                                                  *)

Line(c) == c.lines[c.n].line

Agency(c) == home[c.agent]

RequestedCountAlone(c) == 1

\* The line and the earlier lines of the cart that overlap it.
RequestedCount(c) ==
    1 + Cardinality({i \in 1 .. c.n - 1 : DatesOverlap(c.lines[i].line, Line(c))})

Bookable(c) ==
    /\ Priced(Line(c))
    /\ ~StopSold(Line(c))
    /\ RequestedCount(c) =< Effective(Agency(c), Line(c), c.avail)

\* The fresh read of the room type.  It is not told the dates of the stay, so
\* AxisRooms may answer with the rooms of any night.
GetRoomType(s, d) ==
    /\ calls[s].at = "avail"
    /\ Free(d) >= 1
    /\ calls' = [calls EXCEPT ![s].at = "check", ![s].avail = Free(d)]
    /\ UNCHANGED <<home, policies, blocks, rows, pages, keys, torn, upsets>>

AssertBookable(s) ==
    LET c == calls[s]
    IN  /\ c.at = "check"
        /\ Bookable(c)
        /\ calls' = [calls EXCEPT ![s] =
                       IF c.n < Len(c.lines) THEN [c EXCEPT !.at = "avail", !.avail = 0, !.n = c.n + 1]
                       ELSE [c EXCEPT !.at = "gate", !.avail = 0, !.n = 1]]
        /\ UNCHANGED <<home, policies, blocks, rows, pages, keys, torn, upsets>>

\* A line that cannot be had refuses the cart, before anything is created.
Refuse(s) ==
    LET c == calls[s]
    IN  /\ \/ c.at = "avail" /\ \E d \in DOMAIN Stock : Free(d) < 1
           \/ c.at = "check" /\ ~Bookable(c)
        /\ Answer(s, FALSE)
        /\ UNCHANGED <<home, policies, blocks, rows, keys, torn, upsets>>

OnCreditFirst(c, outstanding) ==
    outstanding + AgencyPrice(c.lines[1].line) =< Limit[Agency(c)]

\* One decision on the sum of the cart.
OnCredit(c, outstanding) == outstanding + CartTotal(c.lines) =< Limit[Agency(c)]

EvaluateCreditGate(s) ==
    LET c == calls[s]
        outstanding == Outstanding(Agency(c))
        credit == OnCredit(c, outstanding)
    IN  /\ c.at = "gate"
        /\ calls' = [calls EXCEPT ![s] =
                       [c EXCEPT !.at = "create", !.credit = credit,
                                 !.seen = IF credit THEN outstanding ELSE 0]]
        /\ UNCHANGED <<home, policies, blocks, rows, pages, keys, torn, upsets>>

(* A row of Booking.  at is what the handler working on it does next;      *)
(* lapsed, that it awaits payment but its hold has run out; owed is its    *)
(* unsettled credit invoice.  allotted is what its agency's allotments     *)
(* added when it was created; overtaken is its call's; blind says that the *)
(* agency was exposed to more than the gate had seen; revived, that it     *)
(* came to hold a room when it was not counted.                            *)
Booked(c) ==
    [key |-> c.lines[c.n].key, agency |-> Agency(c), line |-> Line(c),
     price |-> AgencyPrice(Line(c)), credit |-> c.credit, lapsed |-> FALSE, owed |-> 0,
     state |-> IF c.credit THEN "CONFIRMED_ON_CREDIT" ELSE "AWAITING_PAYMENT",
     at |-> IF c.credit THEN "push" ELSE "none",
     allotted |-> Allotted(Agency(c), Line(c)), overtaken |-> c.overtaken,
     blind |-> c.credit /\ Exposure(Agency(c)) > c.seen, revived |-> FALSE]

\* The calls, once those that have read something about l are overtaken.
Overtaken(cs, l) ==
    [s \in Slots |->
        [cs[s] EXCEPT !.overtaken =
            @ \/ /\ cs[s].at # "idle" /\ (cs[s].at = "avail" => cs[s].n > 1)
                 /\ \E i \in DOMAIN cs[s].lines : DatesOverlap(cs[s].lines[i].line, l)]]

\* The line before is committed (or has failed) and billed.
CreateLine(s) ==
    LET c == calls[s]
        others == Overtaken(calls, Line(c))
        after == [c EXCEPT !.n = c.n + 1, !.last = Len(rows) + 1,
                           !.seen = IF c.credit THEN c.seen + AgencyPrice(Line(c)) ELSE 0]
    IN  /\ c.at = "create" /\ c.n =< Len(c.lines)
        /\ Len(rows) < MaxRows
        /\ c.last # 0 => rows[c.last].at \notin {"push", "bill"}
        /\ rows' = Append(rows, Booked(c))
        /\ calls' = [others EXCEPT ![s] = after]
        /\ UNCHANGED <<home, policies, blocks, pages, keys, torn, upsets>>

Created(s) ==
    LET c == calls[s]
    IN  /\ c.at = "create" /\ c.n > Len(c.lines)
        /\ rows[c.last].at \notin {"push", "bill"}
        /\ Answer(s, TRUE)
        /\ UNCHANGED <<home, policies, blocks, rows, keys, torn, upsets>>

KeysOf(c) == {c.lines[i].key : i \in DOMAIN c.lines}

\* The handler throws or stops while it creates: what it made stays.
Stop(s) ==
    LET c == calls[s]
    IN  /\ c.at = "create"
        /\ Upset
        /\ torn' = torn \cup KeysOf(c)
        /\ rows' = IF c.last = 0 THEN rows
                   ELSE [rows EXCEPT ![c.last].at = IF @ \in {"push", "bill"} THEN "none" ELSE @]
        /\ Answer(s, FALSE)
        /\ UNCHANGED <<home, policies, blocks, keys>>

\* The page gives up, and the call goes on.
LoseAnswer(s) ==
    LET c == calls[s]
    IN  /\ c.heard
        /\ Upset
        /\ torn' = torn \cup KeysOf(c)
        /\ calls' = [calls EXCEPT ![s].heard = FALSE]
        /\ pages' = [pages EXCEPT ![c.agent].busy = FALSE]
        /\ UNCHANGED <<home, policies, blocks, rows, keys>>

-----------------------------------------------------------------------------
(* What becomes of a booking. *)

\* Row i is written, whatever it has become meanwhile; it may come to hold a
\* room again.
Write(i, row) ==
    /\ rows' = [rows EXCEPT ![i] =
                   [row EXCEPT !.revived = @ \/ (Counted(row) /\ ~Counted(rows[i]))]]
    /\ UNCHANGED <<home, policies, blocks, calls, pages, keys, torn>>

CommitBilled(i) ==
    /\ rows[i].at = "push"
    /\ HasRoom(rows[i].line)
    /\ Write(i, [rows[i] EXCEPT !.state = "COMMITTED", !.at = "bill"])
    /\ UNCHANGED upsets

\* AxisRooms takes the reservation only if it has the rooms; it may fail.
Commit(i) ==
    /\ rows[i].at = "push"
    /\ HasRoom(rows[i].line)
    /\ Write(i, [rows[i] EXCEPT !.state = "COMMITTED",
                                !.at = IF rows[i].credit THEN "bill" ELSE "none"])
    /\ UNCHANGED upsets

CommitFails(i) ==
    /\ rows[i].at = "push"
    /\ Write(i, [rows[i] EXCEPT !.state = "COMMIT_FAILED", !.at = "none"])
    /\ IF HasRoom(rows[i].line) THEN Upset ELSE UNCHANGED upsets

\* On credit: the invoice that getOutstanding sums.
RecordBookingObligation(i) ==
    /\ rows[i].at = "bill"
    /\ Write(i, [rows[i] EXCEPT !.owed = rows[i].price, !.at = "none"])
    /\ UNCHANGED upsets

Rebook(i) ==
    /\ rows[i].state = "COMMIT_FAILED" /\ rows[i].at = "none"
    /\ HasRoom(rows[i].line)
    /\ Write(i, [rows[i] EXCEPT !.state = "COMMITTED",
                                !.at = IF rows[i].credit THEN "bill" ELSE "none"])
    /\ UNCHANGED upsets

\* holdExpiresAt passes: the channel no longer counts the hold.
Lapse(i) ==
    /\ rows[i].state = "AWAITING_PAYMENT" /\ ~rows[i].lapsed
    /\ Write(i, [rows[i] EXCEPT !.lapsed = TRUE])
    /\ Upset

ExpireIfLapsed(i) ==
    /\ rows[i].state = "AWAITING_PAYMENT" /\ rows[i].lapsed
    /\ Write(i, [rows[i] EXCEPT !.state = "EXPIRED", !.lapsed = FALSE])
    /\ UNCHANGED upsets

BeginPayment(i) ==
    /\ rows[i].state = "AWAITING_PAYMENT" /\ ~rows[i].lapsed /\ rows[i].at = "none"
    /\ Write(i, [rows[i] EXCEPT !.at = "capture"])
    /\ UNCHANGED upsets

CaptureFails(i) ==
    /\ rows[i].at = "capture"
    /\ Write(i, [rows[i] EXCEPT !.at = "none"])
    /\ UNCHANGED upsets

\* The state is set to PAID, even if the hold lapsed during the capture.
MarkPaid(i) ==
    /\ rows[i].at = "capture"
    /\ Write(i, [rows[i] EXCEPT !.state = "PAID", !.at = "push", !.lapsed = FALSE])
    /\ UNCHANGED upsets

\* What is still owed for a booking cancelled: the charge, if it is billed.
OwedAfter(row) ==
    IF row.owed = 0 \/ row.state # "COMMITTED" THEN row.owed
    ELSE ComputeCancellation(row.price, row.line.from - Today).charge

\* By the agent, as a no-show, or by the resort (free of charge).
Cancel(i, free) ==
    /\ rows[i].state \notin {"CANCELLED", "EXPIRED"}
    /\ Write(i, [rows[i] EXCEPT !.state = "CANCELLED", !.lapsed = FALSE,
                                 !.owed = IF free THEN 0 ELSE OwedAfter(rows[i])])
    /\ Upset

\* The agency settles the invoice.
Settle(i) ==
    /\ rows[i].owed > 0
    /\ Write(i, [rows[i] EXCEPT !.owed = 0])
    /\ Upset

-----------------------------------------------------------------------------
(* The channel's administrators. *)

\* A stricter rule overtakes the calls on its days.
Stricter(p, agency) ==
    [s \in Slots |->
        [calls[s] EXCEPT !.overtaken =
            @ \/ \E i \in DOMAIN calls[s].lines :
                   Applies(p, calls[s].lines[i].line) /\ Agency(calls[s]) \in agency]]

\* bound: one policy and one allotment at a time.
CreatePolicy(p) ==
    /\ policies = {}
    /\ policies' = {Since(p, Len(rows))}
    /\ calls' = Stricter(p, Agencies)
    /\ UNCHANGED <<home, blocks, rows, pages, keys, torn>>
    /\ Upset

DeletePolicy(p) ==
    /\ policies' = policies \ {p}
    /\ UNCHANGED <<home, blocks, rows, calls, pages, keys, torn>>
    /\ Upset

CreateAllotment(b) ==
    /\ blocks = {}
    /\ blocks' = {b}
    /\ UNCHANGED <<home, policies, rows, calls, pages, keys, torn>>
    /\ Upset

DeleteAllotment(b) ==
    /\ blocks' = blocks \ {b}
    /\ calls' = Stricter(b, {b.agency})
    /\ UNCHANGED <<home, policies, rows, pages, keys, torn>>
    /\ Upset

-----------------------------------------------------------------------------
Shop(a) ==
    \/ \E l \in Lines : AddRoom(a, l)
    \/ \E i \in DOMAIN pages[a].cart : RemoveLine(a, i)
    \/ \E s \in Slots : Confirm(a, s)

Handle(s) ==
    \/ \E d \in DOMAIN Stock : GetRoomType(s, d)
    \/ AssertBookable(s) \/ Refuse(s) \/ EvaluateCreditGate(s)
    \/ CreateLine(s) \/ Created(s) \/ Stop(s) \/ LoseAnswer(s)

Follow(i) ==
    \/ Commit(i) \/ CommitFails(i) \/ RecordBookingObligation(i) \/ Rebook(i)
    \/ Lapse(i) \/ ExpireIfLapsed(i) \/ BeginPayment(i) \/ CaptureFails(i) \/ MarkPaid(i)
    \/ \E free \in BOOLEAN : Cancel(i, free)
    \/ Settle(i)

Administer ==
    \/ \E p \in Policies : CreatePolicy(p)
    \/ \E p \in policies : DeletePolicy(p)
    \/ \E b \in Allotments : CreateAllotment(b)
    \/ \E b \in blocks : DeleteAllotment(b)

Next ==
    \/ \E a \in Agents : Shop(a)
    \/ \E s \in Slots : Handle(s)
    \/ \E i \in DOMAIN rows : Follow(i)
    \/ Administer

Spec == Init /\ [][Next]_vars

-----------------------------------------------------------------------------
(* Properties. *)

Row ==
    [key : 1 .. MaxKeys, agency : Agencies, line : Lines, price : Nat, credit : BOOLEAN,
     lapsed : BOOLEAN, owed : Nat,
     state : {"AWAITING_PAYMENT", "EXPIRED", "PAID", "CONFIRMED_ON_CREDIT",
              "COMMITTED", "COMMIT_FAILED", "CANCELLED"},
     at : {"none", "capture", "push", "bill"}, allotted : Nat,
     overtaken : BOOLEAN, blind : BOOLEAN, revived : BOOLEAN]

\* Rows, calls, pages and policies are what the handlers write; a key is that
\* of one line of one page.
AdmissionTypeOK ==
    /\ home \in Homes
    /\ policies \subseteq [kind : {"CAP", "STOP_SELL"}, cap : Nat, from : Nat, to : Nat,
                           since : 0 .. MaxRows]
    /\ blocks \subseteq Allotments
    /\ rows \in Seq(Row)
    /\ \A i \in DOMAIN rows : rows[i].credit \/ rows[i].owed = 0
    /\ \A s \in Slots : /\ calls[s].at \in {"idle", "avail", "check", "gate", "create"}
                        /\ calls[s].at = "idle" => calls[s] = Idle
                        /\ calls[s].last \in 0 .. Len(rows)
    /\ \A a \in Agents :
         pages[a].busy <=> \E s \in Slots : calls[s].agent = a /\ calls[s].heard
    /\ \A a, b \in Agents : \A i \in DOMAIN pages[a].cart, j \in DOMAIN pages[b].cart :
         pages[a].cart[i].key = pages[b].cart[j].key => a = b /\ i = j

(* A stay of some nights admitted under a cap of the channel's policy, for  *)
(* an agency without an allotment, leaves on each night of the cap no more  *)
(* such bookings than it allows, whoever holds the others: unless, while    *)
(* its cart was handled, another booking was created on its nights, or the  *)
(* limits became stricter.  A booking that lost its room and got it         *)
(* back by a late payment or commit is not counted: nobody checked its room *)
(* again (assertBookable, createGroupBooking).                              *)
CapIsKept ==
    \A p \in {q \in policies : q.kind = "CAP"}, i \in DOMAIN rows :
        (/\ p.since < i
         /\ rows[i].allotted = 0 /\ ~rows[i].overtaken
         /\ ~IsDayUse(rows[i].line)) =>
            \A d \in Held(rows[i].line) \cap (p.from .. p.to) :
                Cardinality({j \in 1 .. i : /\ Counted(rows[j]) /\ ~rows[j].revived
                                            /\ ~IsDayUse(rows[j].line)
                                            /\ d \in Held(rows[j].line)}) =< p.cap

\* An agency owes on credit no more than its limit: unless a line was created
\* when the agency was exposed to more than its gate had seen (two carts that
\* both passed the gate, or a booking on credit that was not billed yet), or
\* a cancelled booking was committed and billed after all.
CreditWithinLimit ==
    \A agency \in Agencies :
        (\A i \in DOMAIN rows : rows[i].agency = agency => ~rows[i].blind /\ ~rows[i].revived) =>
            Outstanding(agency) =< Limit[agency]

\* One line of a cart makes two bookings only if the request that carried it
\* was cut short after it may have created some, or its answer was lost: the
\* page keeps the cart then, and nothing in the request tells it is a repeat.
BookedOnce ==
    \A i, j \in DOMAIN rows : (rows[i].key = rows[j].key /\ i # j) => rows[i].key \in torn
=============================================================================
