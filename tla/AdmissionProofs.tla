--------------------------- MODULE AdmissionProofs ---------------------------
(***************************************************************************)
(* What is proved of Charges, for every amount and whatever the slabs, the *)
(* bands and the markup are, and of Admission, for any number of agents,   *)
(* requests and bookings, any stays, policies and allotments.              *)
(***************************************************************************)
EXTENDS Admission, SumsProofs, SequenceTheorems, WellFoundedInduction

-----------------------------------------------------------------------------
(* Rounding. *)

\* RoundDiv to hundredths is within half a unit, the half rounded up.
LEMMA RoundHundredth ==
    ASSUME NEW a \in Nat
    PROVE  /\ RoundDiv(a, 100) \in Nat
           /\ 200 * RoundDiv(a, 100) =< 2 * a + 100
           /\ 2 * a + 100 < 200 * RoundDiv(a, 100) + 200
BY DEF RoundDiv

\* A half, rounded up.
LEMMA RoundHalf ==
    ASSUME NEW a \in Nat
    PROVE  /\ RoundDiv(a, 2) \in Nat
           /\ RoundDiv(a, 2) =< a
           /\ a =< 2 * RoundDiv(a, 2)
           /\ 2 * RoundDiv(a, 2) =< a + 1
BY DEF RoundDiv

\* A product with a larger factor is no smaller.
LEMMA ProductGrows ==
    ASSUME NEW a \in Nat, NEW b \in Nat, NEW c \in Nat, b =< c
    PROVE  a * b \in Nat /\ a * b =< a * c
<1>1. PICK d \in Nat : c = b + d
  <2>1. c - b \in Nat /\ c = b + (c - b)
    OBVIOUS
  <2> QED
    BY <2>1
<1>2. a * c = a * b + a * d
  BY <1>1
<1>3. a * b \in Nat /\ a * d \in Nat
  BY <1>1
<1> QED
  BY <1>2, <1>3

LEMMA PercentIsNat ==
    ASSUME NEW a \in Nat, NEW pct \in Nat
    PROVE  Percent(a, pct) \in Nat
<1>1. a * pct \in Nat
  OBVIOUS
<1> QED
  BY <1>1, RoundHundredth DEF Percent

\* A larger amount has no smaller share.
LEMMA PercentGrows ==
    ASSUME NEW a \in Nat, NEW b \in Nat, NEW pct \in Nat, a =< b
    PROVE  Percent(a, pct) =< Percent(b, pct)
<1>1. pct * a \in Nat /\ pct * b \in Nat /\ pct * a =< pct * b
  BY ProductGrows
<1>2. a * pct = pct * a /\ b * pct = pct * b
  OBVIOUS
<1>3. ASSUME NEW x \in Nat, NEW y \in Nat, x =< y
      PROVE  RoundDiv(x, 100) =< RoundDiv(y, 100)
  BY <1>3, RoundHundredth
<1> QED
  BY <1>1, <1>2, <1>3 DEF Percent

\* A larger percentage is no smaller a share.
LEMMA PercentGrowsWithRate ==
    ASSUME NEW a \in Nat, NEW p \in Nat, NEW q \in Nat, p =< q
    PROVE  Percent(a, p) =< Percent(a, q)
<1>1. a * p \in Nat /\ a * q \in Nat /\ a * p =< a * q
  BY ProductGrows
<1>3. ASSUME NEW x \in Nat, NEW y \in Nat, x =< y
      PROVE  RoundDiv(x, 100) =< RoundDiv(y, 100)
  BY <1>3, RoundHundredth
<1> QED
  BY <1>1, <1>3 DEF Percent

LEMMA PercentAtMostAll ==
    ASSUME NEW a \in Nat, NEW pct \in 0 .. 100
    PROVE  Percent(a, pct) =< a
<1>1. a * pct \in Nat /\ a * pct =< a * 100
  BY ProductGrows
<1>2. 200 * RoundDiv(a * pct, 100) =< 2 * (a * pct) + 100
  BY <1>1, RoundHundredth
<1>3. RoundDiv(a * pct, 100) \in Nat
  BY <1>1, RoundHundredth
<1>4. 2 * (a * pct) + 100 =< 200 * a + 100
  BY <1>1
<1> QED
  BY <1>2, <1>3, <1>4 DEF Percent

-----------------------------------------------------------------------------
(* The markup. *)

\* Whatever the markup, the agency's price is at least what AxisRooms charges
\* for the room: rounding never eats into the resort's net rate
\* (composeFromNightly, priceDayUseFromAxis).
THEOREM MarkupNeverLoses ==
    ASSUME NEW charge \in Nat
    PROVE  MarkedUp(charge) \in Nat /\ MarkedUp(charge) >= charge
<1> DEFINE x == charge * (10000 + MarkupPct)
<1>1. MarkupPct \in Nat
  BY ChargesAssumption
<1>2. charge * 10000 =< x /\ x \in Nat
  BY <1>1, ProductGrows
<1>3. MarkedUp(charge) = (2 * x + 10000) \div 20000
  BY DEF MarkedUp, RoundDiv
<1> HIDE DEF x
<1> QED
  BY <1>2, <1>3

-----------------------------------------------------------------------------
(* Cancellation. *)

\* Min of the community modules is the least element.
LEMMA LeastOfNats ==
    ASSUME NEW S \in SUBSET Nat, S # {}
    PROVE  Min(S) \in S /\ \A n \in S : Min(S) =< n
<1> DEFINE less == {p \in Nat \X Nat : p[1] < p[2]}
<1>1. IsWellFoundedOn(less, Nat)
  BY NatLessThanWellFounded DEF OpToRel
<1> HIDE DEF less
<1>2. PICK n \in S : \A m \in S : ~ (<<m, n>> \in less)
  BY <1>1, WFMin
<1>3. \A m \in S : n =< m
  <2>1. TAKE m \in S
  <2>2. m \in Nat /\ n \in Nat
    OBVIOUS
  <2>3. (m < n) => <<m, n>> \in less
    BY <2>2 DEF less
  <2>4. ~(m < n)
    BY <1>2, <2>3
  <2> QED
    BY <2>2, <2>4
<1> QED
  BY <1>3 DEF Min

LEMMA BandIsPercentage ==
    ASSUME NEW days \in Int
    PROVE  BandFor(days) \in 0 .. 100
<1> DEFINE reached == {i \in DOMAIN Bands : Max({0, days}) >= Bands[i].minDays}
<1>1. CASE reached = {}
  <2>1. BandFor(days) = 100
    BY <1>1 DEF BandFor
  <2> QED
    BY <2>1
<1>2. CASE reached # {}
  <2>1. reached \subseteq Nat
    BY ChargesAssumption
  <2>2. Min(reached) \in reached
    BY <1>2, <2>1, LeastOfNats
  <2>3. Bands[Min(reached)].chargePct \in 0 .. 100
    BY <2>2, ChargesAssumption
  <2> QED
    BY <1>2, <2>3 DEF BandFor
<1> QED
  BY <1>1, <1>2

\* The charge and the refund of a cancellation make up the price, and neither
\* is negative: no cancellation refunds more than was charged, or charges more
\* than the price (computeCancellation).
THEOREM CancellationSplitsThePrice ==
    ASSUME NEW price \in Nat, NEW days \in Int
    PROVE  LET c == ComputeCancellation(price, days)
           IN  /\ c.charge \in 0 .. price
               /\ c.refund \in 0 .. price
               /\ c.charge + c.refund = price
<1>1. Percent(price, BandFor(days)) \in Nat
  <2>1. BandFor(days) \in Nat
    BY BandIsPercentage
  <2> QED
    BY <2>1, PercentIsNat
<1>2. Percent(price, BandFor(days)) =< price
  BY BandIsPercentage, PercentAtMostAll
<1> QED
  BY <1>1, <1>2 DEF ComputeCancellation

\* With bands as the default ones, the farther from arrival the cheaper, a
\* later cancellation never costs less: the first band that applies is found
\* by scanning from the farthest (computeCancellation, getBands).
THEOREM CancellingLaterCostsNoLess ==
    ASSUME \A i, j \in DOMAIN Bands :
               i < j => /\ Bands[i].minDays >= Bands[j].minDays
                        /\ Bands[i].chargePct =< Bands[j].chargePct,
           NEW price \in Nat, NEW early \in Int, NEW late \in Int, late =< early
    PROVE  ComputeCancellation(price, early).charge =< ComputeCancellation(price, late).charge
<1> DEFINE reached(d) == {i \in DOMAIN Bands : Max({0, d}) >= Bands[i].minDays}
<1>1. Max({0, late}) =< Max({0, early}) /\ Max({0, late}) \in Nat /\ Max({0, early}) \in Nat
  <2>1. ASSUME NEW d \in Int PROVE Max({0, d}) = IF d > 0 THEN d ELSE 0
    BY DEF Max
  <2> QED
    BY <2>1
<1>2. reached(late) \subseteq reached(early)
  BY <1>1, ChargesAssumption
<1>3. BandFor(early) =< BandFor(late)
  <2>1. CASE reached(late) = {}
    <3>1. BandFor(late) = 100
      BY <2>1 DEF BandFor
    <3> QED
      BY <3>1, BandIsPercentage
  <2>2. CASE reached(late) # {}
    <3>1. reached(late) \subseteq Nat /\ reached(early) \subseteq Nat /\ reached(early) # {}
      BY <1>2, <2>2, ChargesAssumption
    <3>2. Min(reached(late)) \in reached(early) /\ Min(reached(early)) \in reached(early)
      BY <1>2, <2>2, <3>1, LeastOfNats
    <3>3. Min(reached(early)) =< Min(reached(late))
      BY <3>1, <3>2, LeastOfNats
    <3>4. Min(reached(early)) \in DOMAIN Bands /\ Min(reached(late)) \in DOMAIN Bands
      BY <3>2
    <3>5. Bands[Min(reached(early))].chargePct =< Bands[Min(reached(late))].chargePct
      <4> DEFINE m == Min(reached(early))
      <4> DEFINE n == Min(reached(late))
      <4>1. m \in Nat /\ n \in Nat /\ m =< n /\ m \in DOMAIN Bands /\ n \in DOMAIN Bands
        BY <3>1, <3>2, <3>3, <3>4
      <4>2. Bands[m].chargePct \in 0 .. 100
        BY <4>1, ChargesAssumption
      <4> HIDE DEF m, n
      <4>3. Bands[m].chargePct =< Bands[n].chargePct
        BY <4>1, <4>2
      <4> QED
        BY <4>3 DEF m, n
    <3> QED
      BY <2>2, <3>1, <3>5 DEF BandFor
  <2> QED
    BY <2>1, <2>2
<1>4. BandFor(early) \in Nat /\ BandFor(late) \in Nat
  BY BandIsPercentage
<1> QED
  BY <1>3, <1>4, PercentGrowsWithRate DEF ComputeCancellation

-----------------------------------------------------------------------------
(* Tax. *)

\* The tax's parts make up the tax on the value to the paisa, and its two
\* halves within a state differ by at most one (computeGst).
THEOREM TaxIsSplitExactly ==
    ASSUME NEW value \in Nat, NEW rate \in Nat, NEW intra \in BOOLEAN
    PROVE  LET t == Taxed(value, rate, intra)
           IN  /\ t.cgst \in Nat /\ t.sgst \in Nat /\ t.igst \in Nat
               /\ t.cgst + t.sgst + t.igst = Percent(value, rate)
               /\ t.total = value + t.cgst + t.sgst + t.igst
               /\ t.cgst - t.sgst \in {0, 1}
               /\ intra => t.igst = 0
<1> DEFINE tax == Percent(value, rate)
<1> DEFINE t == Taxed(value, rate, intra)
<1>1. tax \in Nat
  BY PercentIsNat
<1>2. /\ t.cgst = IF intra THEN RoundDiv(tax, 2) ELSE 0
      /\ t.sgst = IF intra THEN tax - RoundDiv(tax, 2) ELSE 0
      /\ t.igst = IF intra THEN 0 ELSE tax
      /\ t.total = value + tax
  BY DEF Taxed
<1>3. /\ RoundDiv(tax, 2) \in Nat /\ RoundDiv(tax, 2) =< tax
      /\ tax =< 2 * RoundDiv(tax, 2) /\ 2 * RoundDiv(tax, 2) =< tax + 1
  BY <1>1, RoundHalf
<1> HIDE DEF tax, t
<1>4. /\ t.cgst \in Nat /\ t.sgst \in Nat /\ t.igst \in Nat
      /\ t.cgst + t.sgst + t.igst = tax
      /\ t.total = value + t.cgst + t.sgst + t.igst
      /\ t.cgst - t.sgst \in {0, 1}
      /\ intra => t.igst = 0
  BY <1>1, <1>2, <1>3
<1> QED
  BY <1>4 DEF t, tax

\* Percentages of two parts of an amount add up to that of the whole, but for
\* one paisa.
LEMMA PercentOfParts ==
    ASSUME NEW a \in Nat, NEW b \in Nat, NEW pct \in Nat
    PROVE  Percent(a, pct) + Percent(b, pct) - Percent(a + b, pct) \in {-1, 0, 1}
<1>1. (a + b) * pct = a * pct + b * pct /\ a * pct \in Nat /\ b * pct \in Nat
  OBVIOUS
<1>2. ASSUME NEW x \in Nat, NEW y \in Nat
      PROVE  RoundDiv(x, 100) + RoundDiv(y, 100) - RoundDiv(x + y, 100) \in {-1, 0, 1}
  BY DEF RoundDiv
<1> QED
  BY <1>1, <1>2 DEF Percent

\* A credit note for a part of an invoice takes back tax at the invoice's rate,
\* of the same place of supply even where that is read off an IGST that was
\* rounded to nothing; what it takes back and the tax on what is kept add up
\* to the invoice's tax, but for one paisa (creditNoteGst, applyCancellation).
THEOREM CreditNoteReversesTheTax ==
    ASSUME NEW value \in Nat, NEW reduction \in 0 .. value,
           NEW rate \in Nat, NEW intra \in BOOLEAN
    PROVE  LET invoice == Taxed(value, rate, intra)
               note == CreditNoteGst(invoice, reduction)
               kept == Percent(value - reduction, rate)
           IN  /\ note.rate = rate
               /\ intra => note.igst = 0
               /\ ~intra => note.cgst = 0 /\ note.sgst = 0
               /\ note.cgst + note.sgst + note.igst + kept
                    - (invoice.cgst + invoice.sgst + invoice.igst) \in {-1, 0, 1}
<1> DEFINE invoice == Taxed(value, rate, intra)
<1> DEFINE tax == Percent(value, rate)
<1> DEFINE back == Percent(reduction, rate)
<1> DEFINE note == Taxed(reduction, rate, ~(invoice.igst > 0))
<1>1. /\ reduction \in Nat /\ reduction =< value
      /\ value - reduction \in Nat /\ reduction + (value - reduction) = value
  OBVIOUS
<1>2. tax \in Nat /\ back \in Nat /\ back =< tax
  BY <1>1, PercentIsNat, PercentGrows
<1>3. back + Percent(value - reduction, rate) - tax \in {-1, 0, 1}
  BY <1>1, PercentOfParts
<1>4. invoice.rate = rate /\ invoice.igst = (IF intra THEN 0 ELSE tax)
  BY DEF Taxed
<1>5. CreditNoteGst(invoice, reduction) = note
  BY <1>4 DEF CreditNoteGst
<1>6. /\ note.rate = rate
      /\ note.cgst = IF invoice.igst > 0 THEN 0 ELSE RoundDiv(back, 2)
      /\ note.sgst = IF invoice.igst > 0 THEN 0 ELSE back - RoundDiv(back, 2)
      /\ note.igst = IF invoice.igst > 0 THEN back ELSE 0
  BY DEF Taxed
<1>7. invoice.cgst + invoice.sgst + invoice.igst = tax
  BY TaxIsSplitExactly
<1>8. note.cgst + note.sgst + note.igst = back
  <2>1. (~(invoice.igst > 0)) \in BOOLEAN
    OBVIOUS
  <2> QED
    BY <1>1, <2>1, TaxIsSplitExactly
<1>9. RoundDiv(back, 2) \in Nat /\ RoundDiv(back, 2) =< back
  BY <1>2, RoundHalf
<1> HIDE DEF invoice, tax, back, note
<1>10. intra => note.igst = 0
  BY <1>4, <1>6
<1>11. ~intra => note.cgst = 0 /\ note.sgst = 0
  BY <1>2, <1>4, <1>6, <1>9
<1>12. note.cgst + note.sgst + note.igst + Percent(value - reduction, rate)
         - (invoice.cgst + invoice.sgst + invoice.igst) \in {-1, 0, 1}
  BY <1>3, <1>7, <1>8
<1> QED
  BY <1>5, <1>6, <1>10, <1>11, <1>12 DEF invoice, note

-----------------------------------------------------------------------------
(* What Admission keeps. *)

CartLine == [key : 1 .. MaxKeys, line : {l \in Lines : Priced(l)}]

Call ==
    [at : {"idle", "avail", "check", "gate", "create"}, agent : Agents \cup {Nobody},
     lines : Seq(CartLine), n : Nat, avail : Int, seen : Nat, credit : BOOLEAN, last : Nat,
     overtaken : BOOLEAN, heard : BOOLEAN]

\* What a call in progress has come to, when there are so many rows.
CallFits(c, made) ==
    /\ c.at = "idle" => c = Idle
    /\ c.at # "idle" => c.agent \in Agents /\ Len(c.lines) > 0
    /\ c.n \in 1 .. Len(c.lines) + 1
    /\ c.at \in {"avail", "check"} => c.n =< Len(c.lines)
    /\ c.at = "gate" => c.n = 1
    /\ c.last =< made

\* A booking on credit is billed once, after it is committed; until then, and
\* if it is not on credit, nothing is owed for it.
RowFits(r) ==
    /\ r.credit => r.state \notin {"AWAITING_PAYMENT", "EXPIRED", "PAID"} /\ r.at # "capture"
    /\ r.at = "push" /\ r.credit => r.state \in {"CONFIRMED_ON_CREDIT", "CANCELLED"}
    /\ r.at = "bill" => r.credit /\ r.state \in {"COMMITTED", "CANCELLED"}
    /\ r.owed > 0 => r.credit /\ r.at = "none" /\ r.state \in {"COMMITTED", "CANCELLED"}
    /\ r.state = "COMMITTED" => r.owed \in {0, r.price}

Typed ==
    /\ home \in Homes
    /\ policies \subseteq [kind : {"CAP", "STOP_SELL"}, cap : Nat, from : Nat, to : Nat, since : 0 .. MaxRows]
    /\ \A p \in policies : p.since =< Len(rows)
    /\ blocks \subseteq Allotments /\ IsFiniteSet(blocks)
    /\ rows \in Seq(Row) /\ Len(rows) =< MaxRows
    /\ \A i \in DOMAIN rows : RowFits(rows[i])
    /\ calls \in [Slots -> Call]
    /\ \A s \in Slots : CallFits(calls[s], Len(rows))
    /\ pages \in [Agents -> [cart : Seq(CartLine), busy : BOOLEAN]]
    /\ keys \in 0 .. MaxKeys

\* A page waits for at most one call, which has its cart.
Waiting ==
    /\ \A s \in Slots : calls[s].heard =>
          /\ pages[calls[s].agent].busy
          /\ pages[calls[s].agent].cart = calls[s].lines
    /\ \A s, t \in Slots : calls[s].heard /\ calls[t].heard /\ calls[s].agent = calls[t].agent => s = t
    /\ \A a \in Agents : pages[a].busy => \E s \in Slots : calls[s].agent = a /\ calls[s].heard

\* No key was given out twice, or before it was.
KeysFit ==
    /\ \A a, b \in Agents : \A i \in DOMAIN pages[a].cart, j \in DOMAIN pages[b].cart :
         pages[a].cart[i].key = pages[b].cart[j].key => a = b /\ i = j
    /\ \A a \in Agents : \A i \in DOMAIN pages[a].cart : pages[a].cart[i].key =< keys
    /\ \A s \in Slots : \A i \in DOMAIN calls[s].lines : calls[s].lines[i].key =< keys
    /\ \A i \in DOMAIN rows : rows[i].key =< keys

\* A line that is booked is still in a cart only while the call that booked it
\* is creating the rest, unless it is torn, as is all that nobody waits for.
BookedLeave ==
    /\ \A s \in Slots : calls[s].at # "idle" /\ ~calls[s].heard => KeysOf(calls[s]) \subseteq torn
    /\ \A i \in DOMAIN rows, a \in Agents : \A j \in DOMAIN pages[a].cart :
         rows[i].key = pages[a].cart[j].key /\ rows[i].key \notin torn =>
            \E s \in Slots : /\ calls[s].heard /\ calls[s].agent = a
                             /\ calls[s].at = "create" /\ j < calls[s].n
    /\ BookedOnce

\* What is left to create of a cart on credit fits in the limit on top of what
\* the gate saw.
Rest(c) == SumOf([i \in c.n .. Len(c.lines) |-> AgencyPrice(c.lines[i].line)])

GateHolds ==
    \A s \in Slots : LET c == calls[s] IN
        c.at = "create" /\ c.credit => c.seen + Rest(c) =< Limit[Agency(c)]

Clear(agency) == \A i \in DOMAIN rows : rows[i].agency = agency => ~rows[i].blind /\ ~rows[i].revived

ExposureFits == \A agency \in Agencies : Clear(agency) => Exposure(agency) =< Limit[agency]

\* The bookings that hold a room the channel checked, over some of l's nights.
Taken(l) == {j \in DOMAIN rows : Counted(rows[j]) /\ ~rows[j].revived /\ DatesOverlap(rows[j].line, l)}

\* Line k of a cart fits under every cap, with the lines from lo on before it.
Fits(c, k, lo) ==
    LET l == c.lines[k].line
    IN  \A p \in policies :
          p.kind = "CAP" /\ Applies(p, l) /\ Allotted(Agency(c), l) = 0 =>
            Cardinality(Taken(l)) + Cardinality({m \in lo .. k - 1 : DatesOverlap(c.lines[m].line, l)}) < p.cap

\* The lines that are checked and not yet created.
Checked(c) ==
    IF c.at \in {"avail", "check"} THEN 1 .. c.n - 1
    ELSE IF c.at = "gate" THEN DOMAIN c.lines
    ELSE IF c.at = "create" THEN c.n .. Len(c.lines) ELSE {}

RoomHolds ==
    \A s \in Slots : LET c == calls[s] IN
        ~c.overtaken => \A k \in Checked(c) : Fits(c, k, IF c.at = "create" THEN c.n ELSE 1)

-----------------------------------------------------------------------------
(* Lemmas about the operators. *)

LEMMA LargerOfTwo ==
    ASSUME NEW a \in Int, NEW b \in Int
    PROVE  Max({a, b}) \in {a, b} /\ a =< Max({a, b}) /\ b =< Max({a, b})
<1>1. \E x \in {a, b} : \A y \in {a, b} : x >= y OBVIOUS
<1>2. Max({a, b}) \in {a, b} /\ \A y \in {a, b} : Max({a, b}) >= y BY <1>1 DEF Max
<1> QED BY <1>2

LEMMA LesserOfTwo ==
    ASSUME NEW a \in Int, NEW b \in Int
    PROVE  Min({a, b}) \in {a, b} /\ Min({a, b}) =< a /\ Min({a, b}) =< b
<1>1. \E x \in {a, b} : \A y \in {a, b} : x =< y OBVIOUS
<1>2. Min({a, b}) \in {a, b} /\ \A y \in {a, b} : Min({a, b}) =< y BY <1>1 DEF Min
<1> QED BY <1>2

LEMMA ChildChargeIsNat == ASSUME NEW age PROVE ChildCharge(age) \in Nat
<1> DEFINE matching == {i \in DOMAIN Room.bands : age \in Room.bands[i].ages}
<1>1. matching \in SUBSET Nat /\ Room.childCharge \in Nat
      /\ \A i \in DOMAIN Room.bands : Room.bands[i].charge \in Nat
  BY ChargesAssumption
<1>2. ASSUME matching # {} PROVE Min(matching) \in DOMAIN Room.bands
  <2>1. Min(matching) \in matching BY <1>1, <1>2, LeastOfNats
  <2> QED BY <2>1
<1> QED BY <1>1, <1>2 DEF ChildCharge

\* A stay that may be booked has a price.
LEMMA PriceIsNat == ASSUME NEW l \in Lines, Priced(l) PROVE AgencyPrice(l) \in Nat
<1> DEFINE child == [i \in DOMAIN l.ages |-> ChildCharge(l.ages[i])]
           nights == [d \in l.from .. Until(l) - 1 |-> Rate[l.plan][d]]
<1>1. /\ l.from \in Nat /\ l.to \in Nat /\ l.adults \in Nat /\ l.children \in Nat /\ l.beds \in Nat
      /\ l.ages \in Seq(Nat)
      /\ ~IsDayUse(l) => l.plan \in DOMAIN Rate /\ l.from .. l.to - 1 \subseteq DOMAIN Rate[l.plan]
  BY LinesAssumption
<1>2. SumOf(child) \in Nat
  <2>1. DOMAIN l.ages = 1 .. Len(l.ages) /\ Len(l.ages) \in Nat BY <1>1, LenProperties
  <2>2. IsFiniteSet(DOMAIN l.ages) BY <2>1, FS_Interval
  <2>3. Summable(child) BY <2>2, ChildChargeIsNat DEF Summable
  <2> HIDE DEF child
  <2> QED BY <2>3, SumType
<1>3. Extras(l) \in Nat
  <2> DEFINE more == Max({0, l.adults - Room.baseOccupancy})
  <2>1. /\ Room.baseOccupancy \in Nat /\ Room.extraAdultCharge \in Nat
        /\ Room.childCharge \in Nat /\ Room.extraBedCharge \in Nat
    BY ChargesAssumption
  <2>2. more \in Nat
    <3>1. l.adults - Room.baseOccupancy \in Int /\ 0 \in Int BY <1>1, <2>1
    <3>2. more \in Int /\ 0 =< more BY <3>1, LargerOfTwo
    <3> QED BY <3>2
  <2>3. \A a, b \in Nat : a * b \in Nat OBVIOUS
  <2>4. /\ more * Room.extraAdultCharge \in Nat
        /\ l.children * Room.childCharge \in Nat /\ l.beds * Room.extraBedCharge \in Nat
    BY <1>1, <2>1, <2>2, <2>3
  <2>5. Extras(l) = more * Room.extraAdultCharge
                    + (IF l.ages # << >> THEN SumOf(child) ELSE l.children * Room.childCharge)
                    + l.beds * Room.extraBedCharge
    BY DEF Extras
  <2> HIDE DEF more, child
  <2> QED BY <1>2, <2>4, <2>5
<1>4. CASE IsDayUse(l)
  <2>1. RoomCharge(l) \in Nat BY <1>3, <1>4, ChargesAssumption DEF RoomCharge
  <2> QED BY <2>1, MarkupNeverLoses DEF AgencyPrice
<1>5. CASE ~IsDayUse(l)
  <2>1. Until(l) = l.to /\ l.plan \in DOMAIN Rate /\ l.from .. Until(l) - 1 \subseteq DOMAIN Rate[l.plan]
    BY <1>1, <1>5 DEF Until
  <2>2. \A d \in DOMAIN Rate[l.plan] : Rate[l.plan][d] \in Nat BY <2>1, ChargesAssumption
  <2>3. IsFiniteSet(l.from .. Until(l) - 1)
    <3>1. l.from \in Int /\ Until(l) - 1 \in Int BY <1>1, <2>1
    <3> QED BY <3>1, FS_Interval
  <2>4. Summable(nights) BY <2>1, <2>2, <2>3 DEF Summable
  <2>5. Nights(l) \in Nat BY <1>1, <1>5, <2>1 DEF Priced, ValidStayDates, Nights
  <2>6. RoomCharge(l) = SumOf(nights) + Extras(l) * Nights(l) BY <1>5 DEF RoomCharge
  <2>7. SumOf(nights) \in Nat
    <3> HIDE DEF nights
    <3> QED BY <2>4, SumType
  <2>8. Extras(l) * Nights(l) \in Nat BY <1>3, <2>5
  <2>9. RoomCharge(l) \in Nat
    <3> HIDE DEF nights
    <3> QED BY <2>6, <2>7, <2>8
  <2> QED BY <2>9, MarkupNeverLoses DEF AgencyPrice
<1> QED BY <1>4, <1>5

LEMMA RemoveAtProperties ==
    ASSUME NEW S, NEW s \in Seq(S), NEW i \in DOMAIN s
    PROVE  /\ RemoveAt(s, i) \in Seq(S) /\ Len(RemoveAt(s, i)) = Len(s) - 1
           /\ \A j \in 1 .. Len(s) - 1 : RemoveAt(s, i)[j] = s[IF j < i THEN j ELSE j + 1]
<1> DEFINE before == SubSeq(s, 1, i - 1)
           after == SubSeq(s, i + 1, Len(s))
<1>1. i \in 1 .. Len(s) /\ Len(s) \in Nat /\ \A j \in 1 .. Len(s) : s[j] \in S BY LenProperties
<1>2. before \in Seq(S) /\ Len(before) = i - 1 /\ \A j \in 1 .. i - 1 : before[j] = s[j]
  <2>1. 1 \in Int /\ i - 1 \in Int /\ \A j \in 1 .. i - 1 : s[j] \in S BY <1>1
  <2>2. /\ before \in Seq(S) /\ Len(before) = (IF 1 <= i - 1 THEN i - 1 - 1 + 1 ELSE 0)
        /\ \A j \in 1 .. i - 1 - 1 + 1 : before[j] = s[1 + j - 1]
    BY <2>1, SubSeqProperties
  <2> HIDE DEF before
  <2> QED BY <1>1, <2>2
<1>3. after \in Seq(S) /\ Len(after) = Len(s) - i /\ \A j \in 1 .. Len(s) - i : after[j] = s[i + j]
  <2>1. i + 1 \in Int /\ Len(s) \in Int /\ \A j \in i + 1 .. Len(s) : s[j] \in S BY <1>1
  <2>2. /\ after \in Seq(S) /\ Len(after) = (IF i + 1 <= Len(s) THEN Len(s) - (i + 1) + 1 ELSE 0)
        /\ \A j \in 1 .. Len(s) - (i + 1) + 1 : after[j] = s[i + 1 + j - 1]
    BY <2>1, SubSeqProperties
  <2> HIDE DEF after
  <2> QED BY <1>1, <2>2
<1>4. RemoveAt(s, i) = before \o after BY DEF RemoveAt
<1> HIDE DEF before, after
<1>5. /\ before \o after \in Seq(S) /\ Len(before \o after) = Len(before) + Len(after)
      /\ \A j \in 1 .. Len(before) + Len(after) :
            (before \o after)[j] = IF j <= Len(before) THEN before[j] ELSE after[j - Len(before)]
  BY <1>2, <1>3, ConcatProperties
<1>6. Len(before \o after) = Len(s) - 1 /\ Len(before) + Len(after) = Len(s) - 1 BY <1>1, <1>2, <1>3, <1>5
<1>7. ASSUME NEW j \in 1 .. Len(s) - 1
      PROVE  (before \o after)[j] = s[IF j < i THEN j ELSE j + 1]
  <2>1. (before \o after)[j] = IF j <= i - 1 THEN before[j] ELSE after[j - (i - 1)]
    BY <1>2, <1>5, <1>6, <1>7
  <2>2. CASE j < i BY <1>1, <1>2, <1>7, <2>1, <2>2
  <2>3. CASE ~(j < i)
    <3>1. j - (i - 1) \in 1 .. Len(s) - i /\ i + (j - (i - 1)) = j + 1 /\ ~(j <= i - 1)
      BY <1>1, <1>7, <2>3
    <3>2. after[j - (i - 1)] = s[i + (j - (i - 1))] BY <1>3, <3>1
    <3> QED BY <2>1, <2>3, <3>1, <3>2
  <2> QED BY <2>2, <2>3
<1> QED BY <1>4, <1>5, <1>6, <1>7

\* The counts are of finite sets.
LEMMA PartsAreFinite ==
    ASSUME NEW n \in Int, NEW S \in SUBSET (1 .. n)
    PROVE  IsFiniteSet(S) /\ Cardinality(S) \in Nat
<1>1. IsFiniteSet(1 .. n) BY FS_Interval
<1>2. IsFiniteSet(S) BY <1>1, FS_Subset
<1> QED BY <1>2, FS_CardinalityType

LEMMA FewerInPart ==
    ASSUME NEW n \in Int, NEW S \in SUBSET (1 .. n), NEW T \in SUBSET S
    PROVE  Cardinality(T) =< Cardinality(S)
BY PartsAreFinite, FS_Subset

-----------------------------------------------------------------------------
(* Well-typedness. *)

\* What is owed for a booking, or will be.
Owe(r) == IF Unbilled(r) THEN r.price ELSE r.owed

\* What any handler may make of row r once it is created: it comes to hold a
\* room or to owe more only as revived.
Follows(r, q) ==
    /\ q \in Row /\ RowFits(q)
    /\ q.key = r.key /\ q.agency = r.agency /\ q.line = r.line /\ q.price = r.price
    /\ q.credit = r.credit /\ q.allotted = r.allotted
    /\ q.overtaken = r.overtaken /\ q.blind = r.blind
    /\ r.revived => q.revived
    /\ Counted(q) => Counted(r) \/ q.revived
    /\ Owe(q) =< Owe(r) \/ q.revived

LEMMA LastFollows ==
    ASSUME NEW r \in Row, NEW q \in Row, RowFits(q),
           q.key = r.key, q.agency = r.agency, q.line = r.line, q.price = r.price,
           q.credit = r.credit, q.allotted = r.allotted,
           q.overtaken = r.overtaken, q.blind = r.blind, q.revived = r.revived,
           Owe(q) =< Owe(r) \/ (Counted(q) /\ ~Counted(r)),
           NEW w, w = [q EXCEPT !.revived = @ \/ (Counted(q) /\ ~Counted(r))]
    PROVE  Follows(r, w)
<1>1. PICK b \in BOOLEAN : b = (q.revived \/ (Counted(q) /\ ~Counted(r))) BY DEF Row
<1>2. w = [q EXCEPT !.revived = b] BY <1>1
<1>3. w \in Row BY <1>2 DEF Row
<1>4. /\ w.key = q.key /\ w.agency = q.agency /\ w.line = q.line /\ w.price = q.price
      /\ w.credit = q.credit /\ w.allotted = q.allotted /\ w.overtaken = q.overtaken /\ w.blind = q.blind
      /\ w.owed = q.owed /\ w.state = q.state /\ w.at = q.at /\ w.lapsed = q.lapsed /\ w.revived = b
  BY <1>2 DEF Row
<1>5. RowFits(w) BY <1>4 DEF RowFits
<1>6. (Counted(w) <=> Counted(q)) /\ Owe(w) = Owe(q) BY <1>4 DEF Counted, Owe, Unbilled
<1> QED BY <1>1, <1>3, <1>4, <1>5, <1>6 DEF Follows

LEMMA ChargeInPrice ==
    ASSUME NEW price \in Nat, NEW days \in Int
    PROVE  ComputeCancellation(price, days).charge \in 0 .. price
BY CancellationSplitsThePrice

\* Of the rows, only one is written, and it follows.
Written(i) ==
    \E q : /\ Follows(rows[i], q)
           /\ rows' = [rows EXCEPT ![i] = q]

LEMMA WriteFollows ==
    ASSUME rows \in Seq(Row), NEW i \in DOMAIN rows, NEW q \in Row, Write(i, q), RowFits(q),
           q.key = rows[i].key, q.agency = rows[i].agency, q.line = rows[i].line, q.price = rows[i].price,
           q.credit = rows[i].credit, q.allotted = rows[i].allotted,
           q.overtaken = rows[i].overtaken, q.blind = rows[i].blind, q.revived = rows[i].revived,
           Owe(q) =< Owe(rows[i]) \/ (Counted(q) /\ ~Counted(rows[i]))
    PROVE  Written(i) /\ UNCHANGED <<home, policies, blocks, calls, pages, keys, torn>>
<1>1. PICK w : w = [q EXCEPT !.revived = @ \/ (Counted(q) /\ ~Counted(rows[i]))] OBVIOUS
<1>2. rows[i] \in Row OBVIOUS
<1>3. Follows(rows[i], w)
  <2>1. PICK r \in Row : r = rows[i] BY <1>2
  <2>2. Follows(r, w) BY ONLY <1>1, <2>1, LastFollows, q \in Row, RowFits(q),
           q.key = rows[i].key, q.agency = rows[i].agency, q.line = rows[i].line, q.price = rows[i].price,
           q.credit = rows[i].credit, q.allotted = rows[i].allotted,
           q.overtaken = rows[i].overtaken, q.blind = rows[i].blind, q.revived = rows[i].revived,
           Owe(q) =< Owe(rows[i]) \/ (Counted(q) /\ ~Counted(rows[i]))
  <2> QED BY <2>1, <2>2
<1>4. rows' = [rows EXCEPT ![i] = w] BY <1>1 DEF Write
<1>5. UNCHANGED <<home, policies, blocks, calls, pages, keys, torn>> BY DEF Write
<1> QED BY <1>3, <1>4, <1>5 DEF Written

LEMMA FollowWrites ==
    ASSUME Typed, NEW i \in DOMAIN rows, Follow(i)
    PROVE  Written(i) /\ UNCHANGED <<home, policies, blocks, calls, pages, keys, torn>>
<1> DEFINE r == rows[i]
<1>1. rows \in Seq(Row) /\ r \in Row /\ RowFits(r) BY DEF Typed
<1> DEFINE Goal == Written(i) /\ UNCHANGED <<home, policies, blocks, calls, pages, keys, torn>>
           Same(q) == /\ q.key = r.key /\ q.agency = r.agency /\ q.line = r.line /\ q.price = r.price
                      /\ q.credit = r.credit /\ q.allotted = r.allotted
                      /\ q.overtaken = r.overtaken /\ q.blind = r.blind /\ q.revived = r.revived
<1>2. ASSUME NEW q, Write(i, q), q \in Row /\ Same(q), RowFits(q),
             Owe(q) =< Owe(r) \/ (Counted(q) /\ ~Counted(r))
      PROVE  Goal
  BY <1>1, <1>2, WriteFollows
<1>3. CASE Commit(i)
  <2>1. PICK q : q = [r EXCEPT !.state = "COMMITTED", !.at = IF r.credit THEN "bill" ELSE "none"] OBVIOUS
  <2>2. Write(i, q) BY <1>3, <2>1 DEF Commit
  <2>3. q \in Row /\ Same(q) BY <1>1, <2>1 DEF Row
  <2>4. RowFits(q) BY <1>1, <1>3, <2>1 DEF RowFits, Row, Commit
  <2>5. Owe(q) =< Owe(r) \/ (Counted(q) /\ ~Counted(r))
    BY <1>1, <1>3, <2>1 DEF RowFits, Row, Commit, Owe, Unbilled, Counted
  <2> QED BY <1>2, <2>2, <2>3, <2>4, <2>5
<1>4. CASE CommitFails(i)
  <2>1. PICK q : q = [r EXCEPT !.state = "COMMIT_FAILED", !.at = "none"] OBVIOUS
  <2>2. Write(i, q) BY <1>4, <2>1 DEF CommitFails
  <2>3. q \in Row /\ Same(q) BY <1>1, <2>1 DEF Row
  <2>4. RowFits(q) BY <1>1, <1>4, <2>1 DEF RowFits, Row, CommitFails
  <2>5. Owe(q) =< Owe(r) \/ (Counted(q) /\ ~Counted(r))
    BY <1>1, <1>4, <2>1 DEF RowFits, Row, CommitFails, Owe, Unbilled, Counted
  <2> QED BY <1>2, <2>2, <2>3, <2>4, <2>5
<1>5. CASE RecordBookingObligation(i)
  <2>1. PICK q : q = [r EXCEPT !.owed = r.price, !.at = "none"] OBVIOUS
  <2>2. Write(i, q) BY <1>5, <2>1 DEF RecordBookingObligation
  <2>3. q \in Row /\ Same(q) BY <1>1, <2>1 DEF Row
  <2>4. RowFits(q) BY <1>1, <1>5, <2>1 DEF RowFits, Row, RecordBookingObligation
  <2>5. Owe(q) =< Owe(r) \/ (Counted(q) /\ ~Counted(r))
    BY <1>1, <1>5, <2>1 DEF RowFits, Row, RecordBookingObligation, Owe, Unbilled, Counted
  <2> QED BY <1>2, <2>2, <2>3, <2>4, <2>5
<1>6. CASE Rebook(i)
  <2>1. PICK q : q = [r EXCEPT !.state = "COMMITTED", !.at = IF r.credit THEN "bill" ELSE "none"] OBVIOUS
  <2>2. Write(i, q) BY <1>6, <2>1 DEF Rebook
  <2>3. q \in Row /\ Same(q) BY <1>1, <2>1 DEF Row
  <2>4. RowFits(q) BY <1>1, <1>6, <2>1 DEF RowFits, Row, Rebook
  <2>5. Owe(q) =< Owe(r) \/ (Counted(q) /\ ~Counted(r))
    BY <1>1, <1>6, <2>1 DEF RowFits, Row, Rebook, Owe, Unbilled, Counted
  <2> QED BY <1>2, <2>2, <2>3, <2>4, <2>5
<1>7. CASE Lapse(i)
  <2>1. PICK q : q = [r EXCEPT !.lapsed = TRUE] OBVIOUS
  <2>2. Write(i, q) BY <1>7, <2>1 DEF Lapse
  <2>3. q \in Row /\ Same(q) BY <1>1, <2>1 DEF Row
  <2>4. RowFits(q) BY <1>1, <1>7, <2>1 DEF RowFits, Row, Lapse
  <2>5. Owe(q) =< Owe(r) \/ (Counted(q) /\ ~Counted(r))
    BY <1>1, <1>7, <2>1 DEF RowFits, Row, Lapse, Owe, Unbilled, Counted
  <2> QED BY <1>2, <2>2, <2>3, <2>4, <2>5
<1>8. CASE ExpireIfLapsed(i)
  <2>1. PICK q : q = [r EXCEPT !.state = "EXPIRED", !.lapsed = FALSE] OBVIOUS
  <2>2. Write(i, q) BY <1>8, <2>1 DEF ExpireIfLapsed
  <2>3. q \in Row /\ Same(q) BY <1>1, <2>1 DEF Row
  <2>4. RowFits(q) BY <1>1, <1>8, <2>1 DEF RowFits, Row, ExpireIfLapsed
  <2>5. Owe(q) =< Owe(r) \/ (Counted(q) /\ ~Counted(r))
    BY <1>1, <1>8, <2>1 DEF RowFits, Row, ExpireIfLapsed, Owe, Unbilled, Counted
  <2> QED BY <1>2, <2>2, <2>3, <2>4, <2>5
<1>9. CASE BeginPayment(i) \/ CaptureFails(i)
  <2>1. PICK at \in {"capture", "none"} : Write(i, [r EXCEPT !.at = at])
    BY <1>9 DEF BeginPayment, CaptureFails
  <2>2. PICK q : q = [r EXCEPT !.at = at] OBVIOUS
  <2>3. Write(i, q) BY <2>1, <2>2
  <2>4. q \in Row /\ Same(q) BY <1>1, <2>2 DEF Row
  <2>5. ~r.credit BY <1>1, <1>9 DEF RowFits, BeginPayment, CaptureFails
  <2>6. RowFits(q) BY <1>1, <1>9, <2>2, <2>5 DEF RowFits, Row, BeginPayment, CaptureFails
  <2>7. Owe(q) =< Owe(r) \/ (Counted(q) /\ ~Counted(r))
    BY <1>1, <2>2, <2>5 DEF RowFits, Row, Owe, Unbilled, Counted
  <2> QED BY <1>2, <2>3, <2>4, <2>6, <2>7
<1>10. CASE MarkPaid(i)
  <2>1. PICK q : q = [r EXCEPT !.state = "PAID", !.at = "push", !.lapsed = FALSE] OBVIOUS
  <2>2. Write(i, q) BY <1>10, <2>1 DEF MarkPaid
  <2>3. q \in Row /\ Same(q) BY <1>1, <2>1 DEF Row
  <2>4. RowFits(q) BY <1>1, <1>10, <2>1 DEF RowFits, Row, MarkPaid
  <2>5. Owe(q) =< Owe(r) \/ (Counted(q) /\ ~Counted(r))
    BY <1>1, <1>10, <2>1 DEF RowFits, Row, MarkPaid, Owe, Unbilled, Counted
  <2> QED BY <1>2, <2>2, <2>3, <2>4, <2>5
<1>11. CASE \E free \in BOOLEAN : Cancel(i, free)
  <2>1. PICK free \in BOOLEAN : Cancel(i, free) BY <1>11
  <2>2. PICK owed : owed = IF free THEN 0 ELSE OwedAfter(r) OBVIOUS
  <2>3. PICK q : q = [r EXCEPT !.state = "CANCELLED", !.lapsed = FALSE, !.owed = owed] OBVIOUS
  <2>4. Write(i, q) BY <2>1, <2>2, <2>3 DEF Cancel
  <2>5. owed \in Nat /\ (owed = r.owed \/ owed = 0 \/ (r.owed = r.price /\ owed =< r.owed))
        /\ (r.owed = 0 => owed = 0)
    <3>1. CASE free \/ r.owed = 0 \/ r.state # "COMMITTED" BY <1>1, <2>2, <3>1 DEF OwedAfter, Row
    <3>2. CASE ~free /\ r.owed # 0 /\ r.state = "COMMITTED"
      <4>1. r.line.from - Today \in Int
        <5>1. PICK l \in Lines : l = r.line BY <1>1 DEF Row
        <5>2. l.from \in Nat /\ Today \in Nat BY LinesAssumption, ChargesAssumption
        <5>3. l.from - Today \in Int BY <5>2
        <5> QED BY <5>1, <5>3
      <4>2. owed = ComputeCancellation(r.price, r.line.from - Today).charge BY <2>2, <3>2 DEF OwedAfter
      <4>3. r.price \in Nat /\ r.owed \in Nat BY <1>1 DEF Row
      <4>4. owed \in 0 .. r.price BY <4>1, <4>2, <4>3, ChargeInPrice
      <4>5. r.owed = r.price BY <1>1, <3>2 DEF RowFits
      <4> QED BY <3>2, <4>3, <4>4, <4>5
    <3> QED BY <3>1, <3>2
  <2>6. q \in Row /\ Same(q) BY <1>1, <2>3, <2>5 DEF Row
  <2>7. RowFits(q) BY <1>1, <2>3, <2>5 DEF RowFits, Row
  <2>8. Owe(q) =< Owe(r) \/ (Counted(q) /\ ~Counted(r))
    BY <1>1, <2>3, <2>5 DEF RowFits, Row, Owe, Unbilled
  <2> QED BY <1>2, <2>4, <2>6, <2>7, <2>8
<1>12. CASE Settle(i)
  <2>1. PICK q : q = [r EXCEPT !.owed = 0] OBVIOUS
  <2>2. Write(i, q) BY <1>12, <2>1 DEF Settle
  <2>3. q \in Row /\ Same(q) BY <1>1, <2>1 DEF Row
  <2>4. RowFits(q) BY <1>1, <1>12, <2>1 DEF RowFits, Row, Settle
  <2>5. Owe(q) =< Owe(r) \/ (Counted(q) /\ ~Counted(r))
    BY <1>1, <1>12, <2>1 DEF RowFits, Row, Settle, Owe, Unbilled, Counted
  <2> QED BY <1>2, <2>2, <2>3, <2>4, <2>5
<1> QED BY <1>3, <1>4, <1>5, <1>6, <1>7, <1>8, <1>9, <1>10, <1>11, <1>12 DEF Follow

LEMMA IdleTyped == /\ Idle \in Call /\ Idle.at = "idle" /\ ~Idle.heard /\ ~Idle.overtaken /\ Idle.lines = << >>
                   /\ \A made \in Nat : CallFits(Idle, made)
<1>1. << >> \in Seq(CartLine) /\ Len(<< >>) = 0 BY EmptySeq
<1>2. Idle \in Call BY <1>1 DEF Idle, Call
<1>3. \A made \in Nat : CallFits(Idle, made) BY <1>1 DEF Idle, CallFits
<1> QED BY <1>2, <1>3 DEF Idle

LEMMA RowsAre ==
    ASSUME rows \in Seq(Row)
    PROVE  /\ Len(rows) \in Nat /\ DOMAIN rows = 1 .. Len(rows)
           /\ \A i \in DOMAIN rows : rows[i] \in Row
BY LenProperties

LEMMA OutstandingIsNat == ASSUME rows \in Seq(Row), NEW agency PROVE Outstanding(agency) \in Nat
<1> DEFINE S == {i \in DOMAIN rows : rows[i].agency = agency}
           f == [i \in S |-> rows[i].owed]
<1>1. Len(rows) \in Int /\ S \in SUBSET (1 .. Len(rows)) BY RowsAre
<1>2. IsFiniteSet(S)
  <2> HIDE DEF S
  <2> QED BY <1>1, PartsAreFinite
<1>3. \A i \in S : rows[i].owed \in Nat BY RowsAre DEF Row
<1>4. Summable(f) BY <1>2, <1>3 DEF Summable
<1>5. Outstanding(agency) = SumOf(f) BY DEF Outstanding
<1> HIDE DEF f
<1> QED BY <1>4, <1>5, SumType

LEMMA AllottedIsNat ==
    ASSUME blocks \subseteq Allotments, IsFiniteSet(blocks), NEW agency, NEW l
    PROVE  Allotted(agency, l) \in Nat
<1> DEFINE S == {b \in blocks : b.agency = agency /\ Applies(b, l)}
           f == [b \in S |-> b.rooms]
<1>1. IsFiniteSet(S) BY FS_Subset
<1>2. \A b \in S : b.rooms \in Nat BY AdmissionAssumption
<1>3. Summable(f) BY <1>1, <1>2 DEF Summable
<1>4. Allotted(agency, l) = SumOf(f) BY DEF Allotted
<1> HIDE DEF f
<1> QED BY <1>3, <1>4, SumType

LEMMA FreeIsInt == ASSUME rows \in Seq(Row), NEW d \in DOMAIN Stock PROVE Free(d) \in Int
<1> DEFINE S == {i \in DOMAIN rows : rows[i].state = "COMMITTED" /\ d \in Held(rows[i].line)}
<1>1. Len(rows) \in Int /\ S \in SUBSET (1 .. Len(rows)) BY RowsAre
<1>2. Cardinality(S) \in Nat
  <2> HIDE DEF S
  <2> QED BY <1>1, PartsAreFinite
<1>3. Free(d) = Stock[d] - Cardinality(S) /\ Stock[d] \in Nat BY AdmissionAssumption DEF Free
<1> HIDE DEF S
<1> QED BY <1>2, <1>3

LEMMA AgencyOfCall ==
    ASSUME Typed, NEW s \in Slots, calls[s].at # "idle"
    PROVE  calls[s].agent \in Agents /\ Agency(calls[s]) \in Agencies
<1>1. calls[s].agent \in Agents BY DEF Typed, CallFits
<1>2. home \in [Agents -> Agencies] BY AdmissionAssumption DEF Typed
<1> QED BY <1>1, <1>2 DEF Agency

\* The lines of a call are lines of a cart.
LEMMA LinesOfCall ==
    ASSUME Typed, NEW s \in Slots
    PROVE  /\ calls[s].lines \in Seq(CartLine) /\ Len(calls[s].lines) \in Nat
           /\ DOMAIN calls[s].lines = 1 .. Len(calls[s].lines)
           /\ \A k \in DOMAIN calls[s].lines :
                 /\ calls[s].lines[k] \in CartLine
                 /\ calls[s].lines[k].key \in 1 .. MaxKeys
                 /\ calls[s].lines[k].line \in Lines
                 /\ AgencyPrice(calls[s].lines[k].line) \in Nat
<1>1. calls[s].lines \in Seq(CartLine) BY DEF Typed, Call
<1>2. PICK q \in Seq(CartLine) : q = calls[s].lines BY <1>1
<1>3. Len(q) \in Nat /\ DOMAIN q = 1 .. Len(q) /\ \A k \in DOMAIN q : q[k] \in CartLine
  BY LenProperties
<1>4. ASSUME NEW x \in CartLine
      PROVE  x.key \in 1 .. MaxKeys /\ x.line \in Lines /\ AgencyPrice(x.line) \in Nat
  BY PriceIsNat DEF CartLine
<1> QED BY <1>2, <1>3, <1>4

\* One call goes on, or ends; the rest of the calls stays.
LEMMA CallGoesOn ==
    ASSUME Typed, NEW s \in Slots, NEW c \in Call, calls' = [calls EXCEPT ![s] = c],
           rows' = rows \/ (rows' \in Seq(Row) /\ Len(rows) =< Len(rows')), CallFits(c, Len(rows'))
    PROVE  calls' \in [Slots -> Call] /\ \A t \in Slots : CallFits(calls'[t], Len(rows'))
<1>1. calls' \in [Slots -> Call] BY DEF Typed
<1>2. Len(rows) \in Nat /\ Len(rows') \in Nat /\ Len(rows) =< Len(rows') BY LenProperties DEF Typed
<1>3. ASSUME NEW t \in Slots, t # s PROVE CallFits(calls'[t], Len(rows'))
  <2>1. calls'[t] = calls[t] /\ calls[t].last \in Nat BY <1>3 DEF Typed, Call
  <2>2. CallFits(calls[t], Len(rows)) BY DEF Typed
  <2> QED BY <1>2, <2>1, <2>2 DEF CallFits
<1>4. CallFits(calls'[s], Len(rows')) BY DEF Typed
<1> QED BY <1>1, <1>3, <1>4

LEMMA AnswerTyped ==
    ASSUME Typed, NEW s \in Slots, NEW ok \in BOOLEAN, Answer(s, ok), rows' \in Seq(Row),
           Len(rows') = Len(rows)
    PROVE  /\ calls' \in [Slots -> Call] /\ \A t \in Slots : CallFits(calls'[t], Len(rows'))
           /\ pages' \in [Agents -> [cart : Seq(CartLine), busy : BOOLEAN]]
<1>1. Len(rows) \in Nat BY RowsAre DEF Typed
<1>2. calls' = [calls EXCEPT ![s] = Idle] BY DEF Answer
<1>3. calls' \in [Slots -> Call] /\ \A t \in Slots : CallFits(calls'[t], Len(rows'))
  <2>1. Idle \in Call /\ CallFits(Idle, Len(rows')) BY <1>1, IdleTyped
  <2>2. Len(rows) =< Len(rows') BY <1>1
  <2> QED BY <1>2, <2>1, <2>2, CallGoesOn
<1>4. pages \in [Agents -> [cart : Seq(CartLine), busy : BOOLEAN]] BY DEF Typed
<1>5. << >> \in Seq(CartLine) BY EmptySeq
<1>6. \A x \in Seq(CartLine) : CartAfter(x, ok) \in Seq(CartLine) BY <1>5 DEF CartAfter
<1>7. CASE ~calls[s].heard BY <1>3, <1>4, <1>7 DEF Answer
<1>8. CASE calls[s].heard
  <2>1. pages' = [pages EXCEPT ![calls[s].agent] = [cart |-> CartAfter(@.cart, ok), busy |-> FALSE]]
    BY <1>8 DEF Answer
  <2>2. PICK a : a = calls[s].agent OBVIOUS
  <2>3. a \in Agents => [cart |-> CartAfter(pages[a].cart, ok), busy |-> FALSE]
                          \in [cart : Seq(CartLine), busy : BOOLEAN]
    BY <1>4, <1>6
  <2> QED BY <1>3, <1>4, <2>1, <2>2, <2>3
<1> QED BY <1>7, <1>8

-----------------------------------------------------------------------------
(* Every action keeps the types. *)

\* What is not said to change.
LEMMA TypedRest ==
    ASSUME Typed, UNCHANGED <<home, policies, blocks>>,
           rows' = rows \/ (/\ rows' \in Seq(Row) /\ Len(rows) =< Len(rows') /\ Len(rows') =< MaxRows
                            /\ \A i \in DOMAIN rows' : RowFits(rows'[i])),
           calls' = calls \/ (calls' \in [Slots -> Call] /\ \A s \in Slots : CallFits(calls'[s], Len(rows'))),
           pages' = pages \/ pages' \in [Agents -> [cart : Seq(CartLine), busy : BOOLEAN]],
           calls' = calls => Len(rows') = Len(rows),
           keys' = keys \/ keys' \in 0 .. MaxKeys
    PROVE  Typed'
<1>1. rows' \in Seq(Row) /\ Len(rows') =< MaxRows /\ (\A i \in DOMAIN rows' : RowFits(rows'[i]))
  BY DEF Typed
<1>2. \A p \in policies : p.since =< Len(rows')
  <2>1. \A p \in policies : p.since \in 0 .. MaxRows /\ p.since =< Len(rows) BY DEF Typed
  <2>2. Len(rows) \in Nat /\ Len(rows') \in Nat /\ Len(rows) =< Len(rows') BY <1>1, LenProperties DEF Typed
  <2> QED BY <2>1, <2>2, AdmissionAssumption
<1>3. calls' \in [Slots -> Call] /\ \A s \in Slots : CallFits(calls'[s], Len(rows')) BY DEF Typed
<1>4. pages' \in [Agents -> [cart : Seq(CartLine), busy : BOOLEAN]] BY DEF Typed
<1>5. /\ home \in Homes /\ blocks \subseteq Allotments /\ IsFiniteSet(blocks)
      /\ policies \subseteq [kind : {"CAP", "STOP_SELL"}, cap : Nat, from : Nat, to : Nat, since : 0 .. MaxRows]
      /\ keys' \in 0 .. MaxKeys
  BY DEF Typed
<1> QED BY <1>1, <1>2, <1>3, <1>4, <1>5 DEF Typed

LEMMA AddRoomTyped == ASSUME Typed, NEW a \in Agents, NEW l \in Lines, AddRoom(a, l) PROVE Typed'
<1>1. PICK x : x = [key |-> keys + 1, line |-> l] OBVIOUS
<1>2. keys \in 0 .. MaxKeys /\ keys < MaxKeys /\ keys' = keys + 1 BY DEF Typed, AddRoom
<1>3. keys + 1 \in 1 .. MaxKeys /\ keys' \in 0 .. MaxKeys BY <1>2, AdmissionAssumption
<1>4. x \in CartLine BY <1>1, <1>3 DEF CartLine, AddRoom
<1>5. pages \in [Agents -> [cart : Seq(CartLine), busy : BOOLEAN]] BY DEF Typed
<1>6. Append(pages[a].cart, x) \in Seq(CartLine) BY <1>4, <1>5, AppendProperties
<1>7. pages' = [pages EXCEPT ![a].cart = Append(@, x)] BY <1>1 DEF AddRoom
<1>8. pages' \in [Agents -> [cart : Seq(CartLine), busy : BOOLEAN]] BY <1>5, <1>6, <1>7
<1>9. UNCHANGED <<home, policies, blocks, rows, calls>> BY DEF AddRoom
<1> QED BY <1>3, <1>8, <1>9, TypedRest

LEMMA RemoveLineTyped ==
    ASSUME Typed, NEW a \in Agents, NEW i \in DOMAIN pages[a].cart, RemoveLine(a, i) PROVE Typed'
<1>1. pages \in [Agents -> [cart : Seq(CartLine), busy : BOOLEAN]] BY DEF Typed
<1>2. RemoveAt(pages[a].cart, i) \in Seq(CartLine) BY <1>1, RemoveAtProperties
<1>3. pages' \in [Agents -> [cart : Seq(CartLine), busy : BOOLEAN]] BY <1>1, <1>2 DEF RemoveLine
<1>4. UNCHANGED <<home, policies, blocks, rows, calls, keys>> BY DEF RemoveLine
<1> QED BY <1>3, <1>4, TypedRest

\* The call that an agent begins.
Begun(a) == [Idle EXCEPT !.at = "avail", !.agent = a, !.lines = pages[a].cart, !.heard = TRUE]

LEMMA BegunIs ==
    ASSUME Typed, NEW a \in Agents, pages[a].cart # << >>
    PROVE  /\ Begun(a) \in Call /\ CallFits(Begun(a), Len(rows))
           /\ Begun(a).at = "avail" /\ Begun(a).agent = a /\ Begun(a).lines = pages[a].cart
           /\ Begun(a).n = 1 /\ Begun(a).heard /\ ~Begun(a).overtaken
<1>1. pages[a].cart \in Seq(CartLine) BY DEF Typed
<1>2. Len(pages[a].cart) \in Nat \ {0} BY <1>1, EmptySeq
<1>3. Begun(a) \in Call BY <1>1, IdleTyped DEF Begun, Call
<1>4. Len(rows) \in Nat BY RowsAre DEF Typed
<1> QED BY <1>2, <1>3, <1>4 DEF Begun, Idle, CallFits

LEMMA ConfirmTyped == ASSUME Typed, NEW a \in Agents, NEW s \in Slots, Confirm(a, s) PROVE Typed'
<1>1. pages \in [Agents -> [cart : Seq(CartLine), busy : BOOLEAN]] BY DEF Typed
<1>2. calls' = [calls EXCEPT ![s] = Begun(a)] BY DEF Confirm, Begun
<1>3. UNCHANGED <<home, policies, blocks, rows, keys>> BY DEF Confirm
<1>4. calls' \in [Slots -> Call] /\ \A t \in Slots : CallFits(calls'[t], Len(rows'))
  BY <1>2, <1>3, BegunIs, CallGoesOn DEF Confirm
<1>5. pages' \in [Agents -> [cart : Seq(CartLine), busy : BOOLEAN]] BY <1>1 DEF Confirm
<1> QED BY <1>3, <1>4, <1>5, TypedRest

LEMMA GetRoomTypeTyped ==
    ASSUME Typed, NEW s \in Slots, NEW d \in DOMAIN Stock, GetRoomType(s, d) PROVE Typed'
<1>1. PICK c : c = [calls[s] EXCEPT !.at = "check", !.avail = Free(d)] OBVIOUS
<1>2. calls' = [calls EXCEPT ![s] = c] BY <1>1 DEF GetRoomType, Typed
<1>3. UNCHANGED <<home, policies, blocks, rows, pages, keys>> BY DEF GetRoomType
<1>4. calls[s] \in Call /\ CallFits(calls[s], Len(rows)) /\ Free(d) \in Int BY FreeIsInt DEF Typed
<1>5. c \in Call BY <1>1, <1>4 DEF Call
<1>6. CallFits(c, Len(rows)) BY <1>1, <1>4 DEF CallFits, Call, GetRoomType
<1>7. calls' \in [Slots -> Call] /\ \A t \in Slots : CallFits(calls'[t], Len(rows'))
  BY <1>2, <1>3, <1>5, <1>6, CallGoesOn
<1> QED BY <1>3, <1>7, TypedRest

LEMMA AssertBookableTyped == ASSUME Typed, NEW s \in Slots, AssertBookable(s) PROVE Typed'
<1>1. PICK c : c = IF calls[s].n < Len(calls[s].lines)
                   THEN [calls[s] EXCEPT !.at = "avail", !.avail = 0, !.n = calls[s].n + 1]
                   ELSE [calls[s] EXCEPT !.at = "gate", !.avail = 0, !.n = 1] OBVIOUS
<1>2. calls' = [calls EXCEPT ![s] = c] BY <1>1 DEF AssertBookable
<1>3. UNCHANGED <<home, policies, blocks, rows, pages, keys>> BY DEF AssertBookable
<1>4. calls[s] \in Call /\ CallFits(calls[s], Len(rows)) BY DEF Typed
<1>5. Len(calls[s].lines) \in Nat /\ calls[s].n \in Nat BY <1>4, LenProperties DEF Call
<1>6. c \in Call
  <2>1. PICK r \in Call : r = calls[s] BY <1>4
  <2>2. PICK n \in Nat : n = calls[s].n + 1 BY <1>5
  <2>3. ASSUME NEW at \in {"avail", "gate"}, NEW a \in Int, NEW k \in Nat
        PROVE  [r EXCEPT !.at = at, !.avail = a, !.n = k] \in Call
    BY DEF Call
  <2>4. PICK z \in Int, o \in Nat : z = 0 /\ o = 1 OBVIOUS
  <2>5. [r EXCEPT !.at = "avail", !.avail = z, !.n = n] \in Call BY <2>3
  <2>6. [r EXCEPT !.at = "gate", !.avail = z, !.n = o] \in Call BY <2>3
  <2> QED BY <1>1, <2>1, <2>2, <2>4, <2>5, <2>6
<1>7. CallFits(c, Len(rows)) BY <1>1, <1>4, <1>5 DEF CallFits, Call, AssertBookable
<1>8. calls' \in [Slots -> Call] /\ \A t \in Slots : CallFits(calls'[t], Len(rows'))
  BY <1>2, <1>3, <1>6, <1>7, CallGoesOn
<1> QED BY <1>3, <1>8, TypedRest

LEMMA EvaluateCreditGateTyped == ASSUME Typed, NEW s \in Slots, EvaluateCreditGate(s) PROVE Typed'
<1>0. PICK o : o = Outstanding(Agency(calls[s])) OBVIOUS
<1>1. PICK g \in BOOLEAN : g = OnCredit(calls[s], o)
  <2>1. OnCredit(calls[s], o) \in BOOLEAN BY DEF OnCredit
  <2> QED BY <2>1
<1>2. PICK c : c = [calls[s] EXCEPT !.at = "create", !.credit = g, !.seen = IF g THEN o ELSE 0] OBVIOUS
<1>3. calls' = [calls EXCEPT ![s] = c] BY <1>0, <1>1, <1>2 DEF EvaluateCreditGate
<1>4. UNCHANGED <<home, policies, blocks, rows, pages, keys>> BY DEF EvaluateCreditGate
<1>5. calls[s] \in Call /\ CallFits(calls[s], Len(rows)) /\ o \in Nat BY <1>0, OutstandingIsNat DEF Typed
<1>6. c \in Call BY <1>2, <1>5 DEF Call
<1>7. CallFits(c, Len(rows)) BY <1>2, <1>5 DEF CallFits, Call, EvaluateCreditGate
<1>8. calls' \in [Slots -> Call] /\ \A t \in Slots : CallFits(calls'[t], Len(rows'))
  BY <1>3, <1>4, <1>6, <1>7, CallGoesOn
<1> QED BY <1>4, <1>8, TypedRest

LEMMA AnswersTyped == ASSUME Typed, NEW s \in Slots, Refuse(s) \/ Created(s) PROVE Typed'
<1>1. PICK ok \in BOOLEAN : Answer(s, ok) BY DEF Refuse, Created
<1>2. UNCHANGED <<home, policies, blocks, rows, keys>> BY DEF Refuse, Created
<1>3. rows' \in Seq(Row) /\ Len(rows') = Len(rows) BY <1>2 DEF Typed
<1>4. /\ calls' \in [Slots -> Call] /\ \A t \in Slots : CallFits(calls'[t], Len(rows'))
      /\ pages' \in [Agents -> [cart : Seq(CartLine), busy : BOOLEAN]]
  BY <1>1, <1>3, AnswerTyped
<1> QED BY <1>2, <1>3, <1>4, TypedRest

LEMMA LoseAnswerTyped == ASSUME Typed, NEW s \in Slots, LoseAnswer(s) PROVE Typed'
<1>1. PICK c : c = [calls[s] EXCEPT !.heard = FALSE] OBVIOUS
<1>2. calls' = [calls EXCEPT ![s] = c] BY <1>1 DEF LoseAnswer, Typed
<1>3. UNCHANGED <<home, policies, blocks, rows, keys>> BY DEF LoseAnswer
<1>4. calls[s] \in Call /\ CallFits(calls[s], Len(rows)) /\ calls[s].heard BY DEF Typed, LoseAnswer
<1>5. c \in Call BY <1>1, <1>4 DEF Call
<1>6. calls[s].at # "idle" BY <1>4, IdleTyped DEF CallFits
<1>7. CallFits(c, Len(rows)) BY <1>1, <1>4, <1>6 DEF CallFits, Call
<1>8. calls' \in [Slots -> Call] /\ \A t \in Slots : CallFits(calls'[t], Len(rows'))
  BY <1>2, <1>3, <1>5, <1>7, CallGoesOn
<1>9. pages' \in [Agents -> [cart : Seq(CartLine), busy : BOOLEAN]] BY DEF Typed, LoseAnswer
<1> QED BY <1>3, <1>8, <1>9, TypedRest

\* A row that is written, or created.
LEMMA WrittenTyped ==
    ASSUME Typed, NEW i \in DOMAIN rows, Written(i)
    PROVE  /\ rows' \in Seq(Row) /\ Len(rows') = Len(rows) /\ DOMAIN rows' = DOMAIN rows
           /\ \A j \in DOMAIN rows : RowFits(rows'[j])
           /\ Follows(rows[i], rows'[i])
           /\ \A j \in DOMAIN rows \ {i} : rows'[j] = rows[j]
<1>1. PICK q : Follows(rows[i], q) /\ rows' = [rows EXCEPT ![i] = q] BY DEF Written
<1>2. q \in Row /\ RowFits(q) BY <1>1 DEF Follows
<1>3. rows \in Seq(Row) /\ DOMAIN rows = 1 .. Len(rows) BY RowsAre DEF Typed
<1>4. /\ rows' \in Seq(Row) /\ Len(rows') = Len(rows)
      /\ \A j \in 1 .. Len(rows) : rows'[j] = IF j = i THEN q ELSE rows[j]
  BY <1>1, <1>2, <1>3, ExceptSeq
<1>5. DOMAIN rows' = 1 .. Len(rows') BY <1>4, LenProperties
<1> QED BY <1>1, <1>2, <1>3, <1>4, <1>5 DEF Typed

LEMMA FollowTyped == ASSUME Typed, NEW i \in DOMAIN rows, Follow(i) PROVE Typed'
<1>1. Written(i) /\ UNCHANGED <<home, policies, blocks, calls, pages, keys>> BY FollowWrites
<1>2. Len(rows) \in Nat /\ Len(rows) =< MaxRows BY RowsAre DEF Typed
<1> QED BY <1>1, <1>2, WrittenTyped, TypedRest

\* The row that a request stops at, if there is one, follows.
LEMMA StopWrites ==
    ASSUME Typed, NEW s \in Slots, Stop(s)
    PROVE  rows' = rows \/ \E i \in DOMAIN rows : Written(i)
<1> DEFINE i == calls[s].last
<1>1. CASE i = 0 BY <1>1 DEF Stop
<1>2. CASE i # 0
  <2>1. calls[s] \in Call /\ CallFits(calls[s], Len(rows)) BY DEF Typed
  <2>2. i \in Nat /\ i =< Len(rows) BY <2>1 DEF Call, CallFits
  <2>3. i \in DOMAIN rows BY <1>2, <2>2, RowsAre DEF Typed
  <2>4. PICK q : q = [rows[i] EXCEPT !.at = IF @ \in {"push", "bill"} THEN "none" ELSE @] OBVIOUS
  <2>5. rows' = [rows EXCEPT ![i] = q] BY <1>2, <2>3, <2>4 DEF Stop
  <2>6. PICK r \in Row : r = rows[i] /\ RowFits(r) BY <2>3, RowsAre DEF Typed
  <2>7. q \in Row BY <2>4, <2>6 DEF Row
  <2>8. /\ q.key = r.key /\ q.agency = r.agency /\ q.line = r.line /\ q.price = r.price
        /\ q.credit = r.credit /\ q.allotted = r.allotted /\ q.lapsed = r.lapsed
        /\ q.overtaken = r.overtaken /\ q.blind = r.blind /\ q.revived = r.revived
        /\ q.state = r.state /\ q.owed = r.owed /\ q.at \in {r.at, "none"}
    BY <2>4, <2>6 DEF Row
  <2>9. RowFits(q) BY <2>6, <2>8 DEF RowFits
  <2>10. (Counted(q) <=> Counted(r)) /\ Owe(q) =< Owe(r)
    BY <2>6, <2>8 DEF Counted, Owe, Unbilled, Row
  <2>11. Follows(r, q) BY <2>7, <2>8, <2>9, <2>10 DEF Follows
  <2> QED BY <2>3, <2>5, <2>6, <2>11 DEF Written
<1> QED BY <1>1, <1>2

LEMMA StopTyped == ASSUME Typed, NEW s \in Slots, Stop(s) PROVE Typed'
<1>1. UNCHANGED <<home, policies, blocks, keys>> /\ Answer(s, FALSE) BY DEF Stop
<1>2. Len(rows) \in Nat /\ Len(rows) =< MaxRows BY RowsAre DEF Typed
<1>3. rows' \in Seq(Row) /\ Len(rows') = Len(rows) /\ \A i \in DOMAIN rows' : RowFits(rows'[i])
  BY StopWrites, WrittenTyped DEF Typed
<1>4. /\ calls' \in [Slots -> Call] /\ \A t \in Slots : CallFits(calls'[t], Len(rows'))
      /\ pages' \in [Agents -> [cart : Seq(CartLine), busy : BOOLEAN]]
  BY <1>1, <1>3, AnswerTyped
<1> QED BY <1>1, <1>2, <1>3, <1>4, TypedRest

\* Another call may be overtaken, and is else as it was.
Marked(c, q) ==
    /\ q \in Call /\ q.at = c.at /\ q.agent = c.agent /\ q.lines = c.lines /\ q.n = c.n
    /\ q.seen = c.seen /\ q.credit = c.credit /\ q.last = c.last /\ q.heard = c.heard
    /\ c.overtaken => q.overtaken
    /\ c.at = "idle" => q = c

LEMMA MarkIs ==
    ASSUME NEW c \in Call, NEW b \in BOOLEAN, c.overtaken => b, c = Idle => ~b, c.at = "idle" => c = Idle
    PROVE  Marked(c, [c EXCEPT !.overtaken = b]) /\ [c EXCEPT !.overtaken = b].overtaken = b
<1>1. PICK q : q = [c EXCEPT !.overtaken = b] OBVIOUS
<1>2. /\ q \in Call /\ q.at = c.at /\ q.agent = c.agent /\ q.lines = c.lines /\ q.n = c.n
      /\ q.seen = c.seen /\ q.credit = c.credit /\ q.last = c.last /\ q.heard = c.heard
      /\ q.overtaken = b
  BY <1>1 DEF Call
<1>3. ASSUME c = Idle PROVE q = c
  <2>1. b = FALSE /\ c.overtaken = FALSE BY <1>3 DEF Idle
  <2>2. [c EXCEPT !.overtaken = c.overtaken] = c BY DEF Call
  <2> QED BY <1>1, <2>1, <2>2
<1> QED BY <1>1, <1>2, <1>3 DEF Marked

LEMMA OvertakenMarks ==
    ASSUME Typed, NEW l, NEW s \in Slots
    PROVE  /\ Marked(calls[s], Overtaken(calls, l)[s])
           /\ ~Overtaken(calls, l)[s].overtaken =>
                /\ ~calls[s].overtaken
                /\ \/ calls[s].at = "idle" \/ (calls[s].at = "avail" /\ ~(calls[s].n > 1))
                   \/ \A i \in DOMAIN calls[s].lines : ~DatesOverlap(calls[s].lines[i].line, l)
<1> DEFINE c == calls[s]
           over == \/ c.overtaken
                   \/ /\ c.at # "idle" /\ (c.at = "avail" => c.n > 1)
                      /\ \E i \in DOMAIN c.lines : DatesOverlap(c.lines[i].line, l)
<1>1. c \in Call /\ (c.at = "idle" => c = Idle) BY DEF Typed, CallFits
<1>2. PICK b : b = over OBVIOUS
<1>3. b \in BOOLEAN BY <1>1, <1>2 DEF Call
<1>4. Overtaken(calls, l)[s] = [c EXCEPT !.overtaken = b] BY <1>2 DEF Overtaken
<1>5. c = Idle => ~b BY <1>2, IdleTyped
<1>6. c.overtaken => b BY <1>2
<1>7. Marked(c, [c EXCEPT !.overtaken = b]) /\ [c EXCEPT !.overtaken = b].overtaken = b
  BY ONLY <1>1, <1>3, <1>5, <1>6, MarkIs
<1> QED BY <1>2, <1>4, <1>7

LEMMA StricterMarks ==
    ASSUME Typed, NEW p, NEW agencies, NEW s \in Slots
    PROVE  /\ Marked(calls[s], Stricter(p, agencies)[s])
           /\ ~Stricter(p, agencies)[s].overtaken =>
                /\ ~calls[s].overtaken
                /\ \/ Agency(calls[s]) \notin agencies
                   \/ \A i \in DOMAIN calls[s].lines : ~Applies(p, calls[s].lines[i].line)
<1> DEFINE c == calls[s]
           over == \/ c.overtaken
                   \/ \E i \in DOMAIN c.lines : Applies(p, c.lines[i].line) /\ Agency(c) \in agencies
<1>1. c \in Call /\ (c.at = "idle" => c = Idle) BY DEF Typed, CallFits
<1>2. PICK b : b = over OBVIOUS
<1>3. b \in BOOLEAN BY <1>1, <1>2 DEF Call
<1>4. Stricter(p, agencies)[s] = [c EXCEPT !.overtaken = b] BY <1>2 DEF Stricter
<1>5. c = Idle => ~b
  <2>1. DOMAIN << >> = {} OBVIOUS
  <2> QED BY <1>2, <2>1, IdleTyped
<1>6. c.overtaken => b BY <1>2
<1>7. Marked(c, [c EXCEPT !.overtaken = b]) /\ [c EXCEPT !.overtaken = b].overtaken = b
  BY ONLY <1>1, <1>3, <1>5, <1>6, MarkIs
<1> QED BY <1>2, <1>4, <1>7

LEMMA MarkedFits ==
    ASSUME NEW c \in Call, NEW q, Marked(c, q), NEW n \in Nat, NEW m \in Nat, n =< m, CallFits(c, n)
    PROVE  q \in Call /\ CallFits(q, m)
<1>1. c.last \in Nat /\ q.last = c.last BY DEF Call, Marked
<1> QED BY <1>1 DEF CallFits, Marked

LEMMA StricterTyped ==
    ASSUME Typed, NEW p, NEW agencies, calls' = Stricter(p, agencies)
    PROVE  calls' \in [Slots -> Call] /\ \A s \in Slots : CallFits(calls'[s], Len(rows))
<1>1. Len(rows) \in Nat BY RowsAre DEF Typed
<1>2. ASSUME NEW s \in Slots PROVE calls'[s] \in Call /\ CallFits(calls'[s], Len(rows))
  <2>1. calls[s] \in Call /\ CallFits(calls[s], Len(rows)) BY DEF Typed
  <2> QED BY <1>1, <2>1, StricterMarks, MarkedFits
<1>3. calls' = [s \in Slots |-> calls'[s]] BY DEF Stricter
<1> QED BY <1>2, <1>3

LEMMA AdministerTyped == ASSUME Typed, Administer PROVE Typed'
<1>1. UNCHANGED <<home, rows, pages, keys>> BY DEF Administer, CreatePolicy, DeletePolicy, CreateAllotment, DeleteAllotment
<1>2. /\ rows \in Seq(Row) /\ Len(rows) =< MaxRows /\ (\A i \in DOMAIN rows : RowFits(rows[i]))
      /\ home \in Homes /\ pages \in [Agents -> [cart : Seq(CartLine), busy : BOOLEAN]]
      /\ keys \in 0 .. MaxKeys
  BY DEF Typed
<1>3. calls' \in [Slots -> Call] /\ \A s \in Slots : CallFits(calls'[s], Len(rows))
  <2>1. CASE calls' = calls BY <2>1 DEF Typed
  <2>2. CASE \E p, agencies : calls' = Stricter(p, agencies) BY <2>2, StricterTyped
  <2> QED BY <2>1, <2>2 DEF Administer, CreatePolicy, DeletePolicy, CreateAllotment, DeleteAllotment
<1>4. blocks' \subseteq Allotments /\ IsFiniteSet(blocks')
  <2>1. CASE blocks' \subseteq blocks BY <2>1, FS_Subset DEF Typed
  <2>2. CASE \E b \in Allotments : blocks' = {b} BY <2>2, FS_Singleton
  <2> QED BY <2>1, <2>2 DEF Administer, CreatePolicy, DeletePolicy, CreateAllotment, DeleteAllotment
<1>5. /\ policies' \subseteq [kind : {"CAP", "STOP_SELL"}, cap : Nat, from : Nat, to : Nat, since : 0 .. MaxRows]
      /\ \A p \in policies' : p.since =< Len(rows)
  <2>1. CASE policies' \subseteq policies BY <2>1 DEF Typed
  <2>2. CASE \E p \in Policies : policies' = {Since(p, Len(rows))}
    <3>1. PICK p \in Policies : policies' = {Since(p, Len(rows))} BY <2>2
    <3>2. p \in [kind : {"CAP", "STOP_SELL"}, cap : Nat, from : Nat, to : Nat] BY AdmissionAssumption
    <3>3. PICK n \in Nat : n = Len(rows) /\ n \in 0 .. MaxRows BY <1>2, LenProperties, AdmissionAssumption
    <3> QED BY <3>1, <3>2, <3>3 DEF Since
  <2> QED BY <2>1, <2>2 DEF Administer, CreatePolicy, DeletePolicy, CreateAllotment, DeleteAllotment
<1> QED BY <1>1, <1>2, <1>3, <1>4, <1>5 DEF Typed

\* The call that creates a line goes on to the next.
After(c, made) ==
    [c EXCEPT !.n = c.n + 1, !.last = made,
              !.seen = IF c.credit THEN c.seen + AgencyPrice(Line(c)) ELSE 0]

LEMMA CreateIs ==
    ASSUME Typed, NEW s \in Slots, CreateLine(s)
    PROVE  LET c == calls[s]
               made == Len(rows) + 1
           IN  /\ c.n \in DOMAIN c.lines /\ Line(c) = c.lines[c.n].line
               /\ Line(c) \in Lines /\ AgencyPrice(Line(c)) \in Nat
               /\ Booked(c) \in Row /\ RowFits(Booked(c))
               /\ rows' = Append(rows, Booked(c)) /\ rows' \in Seq(Row) /\ Len(rows') = made
               /\ DOMAIN rows' = DOMAIN rows \cup {made} /\ made \notin DOMAIN rows /\ made \in Nat
               /\ \A i \in DOMAIN rows : rows'[i] = rows[i]
               /\ rows'[made] = Booked(c)
               /\ calls'[s] = After(c, made) /\ After(c, made) \in Call /\ CallFits(After(c, made), made)
               /\ \A t \in Slots \ {s} : calls'[t] = Overtaken(calls, Line(c))[t]
               /\ calls' = [t \in Slots |-> calls'[t]]
<1> DEFINE c == calls[s]
           made == Len(rows) + 1
<1>1. /\ c \in Call /\ CallFits(c, Len(rows)) /\ c.at = "create" /\ c.n =< Len(c.lines)
      /\ rows' = Append(rows, Booked(c)) /\ Len(rows) < MaxRows
      /\ calls' = [Overtaken(calls, Line(c)) EXCEPT ![s] = After(c, made)]
  BY DEF CreateLine, Typed, After
<1>2. c.n \in Nat /\ 1 =< c.n BY <1>1 DEF CallFits
<1>3. c.n \in DOMAIN c.lines BY <1>1, <1>2, LinesOfCall
<1>4. /\ c.lines[c.n].key \in 1 .. MaxKeys /\ Line(c) \in Lines /\ AgencyPrice(Line(c)) \in Nat
      /\ Line(c) = c.lines[c.n].line
  BY <1>3, LinesOfCall DEF Line
<1>5. Agency(c) \in Agencies BY <1>1, AgencyOfCall
<1>6. Allotted(Agency(c), Line(c)) \in Nat BY AllottedIsNat DEF Typed
<1>7. PICK b \in BOOLEAN : b = (c.credit /\ Exposure(Agency(c)) > c.seen) BY <1>1 DEF Call
<1>8. c.credit \in BOOLEAN /\ c.overtaken \in BOOLEAN /\ c.seen \in Nat BY <1>1 DEF Call
<1>9. PICK x : x = Booked(c) OBVIOUS
<1>10. /\ x.key = c.lines[c.n].key /\ x.agency = Agency(c) /\ x.line = Line(c)
       /\ x.price = AgencyPrice(Line(c)) /\ x.credit = c.credit /\ x.lapsed = FALSE /\ x.owed = 0
       /\ x.state = IF c.credit THEN "CONFIRMED_ON_CREDIT" ELSE "AWAITING_PAYMENT"
       /\ x.at = IF c.credit THEN "push" ELSE "none"
  BY <1>9 DEF Booked
<1>11. x \in Row
  <2>1. x = [key |-> c.lines[c.n].key, agency |-> Agency(c), line |-> Line(c),
             price |-> AgencyPrice(Line(c)), credit |-> c.credit, lapsed |-> FALSE, owed |-> 0,
             state |-> IF c.credit THEN "CONFIRMED_ON_CREDIT" ELSE "AWAITING_PAYMENT",
             at |-> IF c.credit THEN "push" ELSE "none",
             allotted |-> Allotted(Agency(c), Line(c)), overtaken |-> c.overtaken,
             blind |-> b, revived |-> FALSE]
    BY <1>7, <1>9 DEF Booked
  <2> QED BY <1>4, <1>5, <1>6, <1>8, <2>1 DEF Row
<1>12. RowFits(x) BY <1>8, <1>10 DEF RowFits
<1>13. /\ rows' \in Seq(Row) /\ Len(rows') = made
       /\ \A i \in 1 .. Len(rows) : rows'[i] = rows[i]
       /\ rows'[made] = x
  BY <1>1, <1>9, <1>11, AppendProperties DEF Typed
<1>14. Len(rows) \in Nat /\ DOMAIN rows = 1 .. Len(rows) /\ DOMAIN rows' = 1 .. made
  BY <1>13, LenProperties DEF Typed
<1>15. After(c, made) \in Call
  <2>1. PICK seen \in Nat : seen = IF c.credit THEN c.seen + AgencyPrice(Line(c)) ELSE 0 BY <1>4, <1>8
  <2>2. PICK m \in Nat, n \in Nat : m = made /\ n = c.n + 1 BY <1>2, <1>14
  <2>3. After(c, made) = [c EXCEPT !.n = n, !.last = m, !.seen = seen] BY <2>1, <2>2 DEF After
  <2>4. [c EXCEPT !.n = n, !.last = m, !.seen = seen] \in Call BY <1>1 DEF Call
  <2> QED BY <2>3, <2>4
<1>16. CallFits(After(c, made), made)
  <2>1. /\ After(c, made).at = "create" /\ After(c, made).lines = c.lines /\ After(c, made).n = c.n + 1
        /\ After(c, made).last = made /\ After(c, made).agent = c.agent
    BY <1>1 DEF After, Call
  <2>2. Len(c.lines) \in Nat BY LinesOfCall
  <2> QED BY <1>1, <1>2, <1>14, <2>1, <2>2 DEF CallFits
<1>17. DOMAIN Overtaken(calls, Line(c)) = Slots BY DEF Overtaken
<1>18. /\ calls'[s] = After(c, made)
       /\ \A t \in Slots \ {s} : calls'[t] = Overtaken(calls, Line(c))[t]
       /\ calls' = [t \in Slots |-> calls'[t]]
  BY <1>1, <1>17
<1>19. DOMAIN rows' = DOMAIN rows \cup {made} /\ made \notin DOMAIN rows /\ made \in Nat BY <1>14
<1> QED BY <1>1, <1>3, <1>4, <1>9, <1>11, <1>12, <1>13, <1>14, <1>15, <1>16, <1>18, <1>19

LEMMA CreateLineTyped == ASSUME Typed, NEW s \in Slots, CreateLine(s) PROVE Typed'
<1> DEFINE c == calls[s]
           made == Len(rows) + 1
<1>1. /\ Booked(c) \in Row /\ RowFits(Booked(c))
      /\ rows' \in Seq(Row) /\ Len(rows') = made /\ DOMAIN rows' = DOMAIN rows \cup {made}
      /\ \A i \in DOMAIN rows : rows'[i] = rows[i]
      /\ rows'[made] = Booked(c)
      /\ calls'[s] = After(c, made) /\ After(c, made) \in Call /\ CallFits(After(c, made), made)
      /\ \A t \in Slots \ {s} : calls'[t] = Overtaken(calls, Line(c))[t]
      /\ calls' = [t \in Slots |-> calls'[t]]
  BY CreateIs
<1>2. UNCHANGED <<home, policies, blocks, pages, keys>> /\ Len(rows) < MaxRows BY DEF CreateLine
<1>3. Len(rows) \in Nat /\ MaxRows \in Nat BY RowsAre, AdmissionAssumption DEF Typed
<1>4. \A i \in DOMAIN rows' : RowFits(rows'[i]) BY <1>1 DEF Typed
<1>5. ASSUME NEW t \in Slots PROVE calls'[t] \in Call /\ CallFits(calls'[t], Len(rows'))
  <2>1. CASE t = s BY <1>1, <2>1
  <2>2. CASE t # s
    <3>1. calls[t] \in Call /\ CallFits(calls[t], Len(rows)) BY DEF Typed
    <3>2. Marked(calls[t], calls'[t]) BY <1>1, <2>2, OvertakenMarks
    <3>3. made \in Nat /\ Len(rows) =< made BY <1>3
    <3> QED BY <1>1, <1>3, <3>1, <3>2, <3>3, MarkedFits
  <2> QED BY <2>1, <2>2
<1>6. calls' \in [Slots -> Call] BY <1>1, <1>5
<1>7. Len(rows') =< MaxRows /\ Len(rows) =< Len(rows') BY <1>1, <1>2, <1>3
<1>8. calls' # calls
  <2>1. calls[s].n \in Nat BY DEF Typed, Call
  <2>2. calls'[s].n = calls[s].n + 1
    <3>1. calls[s] \in Call BY DEF Typed
    <3> QED BY <1>1, <3>1 DEF After, Call
  <2> QED BY <2>1, <2>2
<1> QED BY <1>1, <1>2, <1>4, <1>5, <1>6, <1>7, <1>8, TypedRest

LEMMA TypedStep == ASSUME Typed, [Next]_vars PROVE Typed'
<1>1. ASSUME NEW a \in Agents, Shop(a) PROVE Typed'
  BY <1>1, AddRoomTyped, RemoveLineTyped, ConfirmTyped DEF Shop
<1>2. ASSUME NEW s \in Slots, Handle(s) PROVE Typed'
  BY <1>2, GetRoomTypeTyped, AssertBookableTyped, AnswersTyped, EvaluateCreditGateTyped, CreateLineTyped,
     StopTyped, LoseAnswerTyped DEF Handle
<1>3. CASE UNCHANGED vars BY <1>3, TypedRest DEF vars
<1> QED BY <1>1, <1>2, <1>3, FollowTyped, AdministerTyped DEF Next

LEMMA TypedAtFirst == ASSUME Init PROVE Typed
<1>1. Len(rows) = 0 /\ rows \in Seq(Row) /\ DOMAIN rows = {} BY EmptySeq DEF Init
<1>2. << >> \in Seq(CartLine) BY EmptySeq
<1>3. pages \in [Agents -> [cart : Seq(CartLine), busy : BOOLEAN]] BY <1>2 DEF Init
<1>4. calls \in [Slots -> Call] /\ \A s \in Slots : CallFits(calls[s], 0) BY IdleTyped DEF Init
<1>5. MaxRows \in Nat /\ MaxKeys \in Nat BY AdmissionAssumption
<1>6. /\ policies \subseteq [kind : {"CAP", "STOP_SELL"}, cap : Nat, from : Nat, to : Nat, since : 0 .. MaxRows]
      /\ \A p \in policies : p.since =< Len(rows)
  <2>1. CASE policies = {} BY <2>1
  <2>2. CASE \E p \in Policies : policies = {Since(p, 0)}
    <3>1. PICK p \in Policies : policies = {Since(p, 0)} BY <2>2
    <3>2. p \in [kind : {"CAP", "STOP_SELL"}, cap : Nat, from : Nat, to : Nat] BY AdmissionAssumption
    <3>3. 0 \in 0 .. MaxRows BY <1>5
    <3> QED BY <1>1, <3>1, <3>2, <3>3 DEF Since
  <2> QED BY <2>1, <2>2 DEF Init
<1>7. blocks \subseteq Allotments /\ IsFiniteSet(blocks)
  <2>1. CASE blocks = {} BY <2>1, FS_EmptySet
  <2>2. CASE \E b \in Allotments : blocks = {b} BY <2>2, FS_Singleton
  <2> QED BY <2>1, <2>2 DEF Init
<1> QED BY <1>1, <1>3, <1>4, <1>5, <1>6, <1>7 DEF Init, Typed

-----------------------------------------------------------------------------
(* The keys of carts, calls and bookings. *)

Carts == Waiting /\ KeysFit /\ BookedLeave

\* The keys of the rows stay.
SameKeys == DOMAIN rows' = DOMAIN rows /\ \A i \in DOMAIN rows : rows'[i].key = rows[i].key

\* Pages stay, and no call ends, begins or goes back.
Steady ==
    /\ pages' = pages
    /\ \A t \in Slots :
          /\ calls'[t].heard = calls[t].heard /\ calls'[t].agent = calls[t].agent
          /\ calls'[t].lines = calls[t].lines
          /\ calls'[t].at = "idle" <=> calls[t].at = "idle"
          /\ calls[t].at = "create" => /\ calls'[t].at = "create"
                                       /\ \A j \in Nat : j < calls[t].n => j < calls'[t].n

LEMMA CartIs ==
    ASSUME Typed, NEW a \in Agents
    PROVE  /\ pages[a].cart \in Seq(CartLine) /\ Len(pages[a].cart) \in Nat
           /\ DOMAIN pages[a].cart = 1 .. Len(pages[a].cart)
           /\ pages[a].busy \in BOOLEAN
           /\ \A j \in DOMAIN pages[a].cart : j \in Nat /\ pages[a].cart[j].key \in Nat
<1>1. pages[a].cart \in Seq(CartLine) /\ pages[a].busy \in BOOLEAN BY DEF Typed
<1>2. PICK q \in Seq(CartLine) : q = pages[a].cart BY <1>1
<1>3. Len(q) \in Nat /\ DOMAIN q = 1 .. Len(q) /\ \A k \in DOMAIN q : q[k] \in CartLine
  BY LenProperties
<1>4. \A x \in CartLine : x.key \in Nat BY AdmissionAssumption DEF CartLine
<1> QED BY <1>1, <1>2, <1>3, <1>4

\* Who waits is an agent.
LEMMA HeardIs == ASSUME Typed, NEW s \in Slots, calls[s].heard PROVE calls[s].agent \in Agents /\ calls[s].at # "idle"
<1>1. calls[s].at # "idle" BY IdleTyped DEF Typed, CallFits
<1> QED BY <1>1 DEF Typed, CallFits

LEMMA SteadyKeepsCarts ==
    ASSUME Typed, Carts, Steady, SameKeys, torn' = torn, keys' = keys PROVE Carts'
<1>1. Waiting' BY DEF Carts, Waiting, Steady
<1>2. KeysFit' BY DEF Carts, KeysFit, Steady, SameKeys
<1>3. BookedLeave'
  <2>1. ASSUME NEW s \in Slots, calls'[s].at # "idle", ~calls'[s].heard PROVE KeysOf(calls'[s]) \subseteq torn'
    <3>1. KeysOf(calls'[s]) = KeysOf(calls[s]) BY DEF KeysOf, Steady
    <3> QED BY <2>1, <3>1 DEF Carts, BookedLeave, Steady
  <2>2. ASSUME NEW i \in DOMAIN rows', NEW a \in Agents, NEW j \in DOMAIN pages'[a].cart,
               rows'[i].key = pages'[a].cart[j].key, rows'[i].key \notin torn'
        PROVE  \E s \in Slots : /\ calls'[s].heard /\ calls'[s].agent = a
                                /\ calls'[s].at = "create" /\ j < calls'[s].n
    <3>1. /\ i \in DOMAIN rows /\ j \in DOMAIN pages[a].cart
          /\ rows[i].key = pages[a].cart[j].key /\ rows[i].key \notin torn
      BY <2>2 DEF Steady, SameKeys
    <3>2. PICK s \in Slots : /\ calls[s].heard /\ calls[s].agent = a
                             /\ calls[s].at = "create" /\ j < calls[s].n
      BY <3>1 DEF Carts, BookedLeave
    <3>3. j \in Nat BY <3>1, CartIs
    <3> QED BY <3>2, <3>3 DEF Steady
  <2>3. BookedOnce' BY DEF Carts, BookedLeave, BookedOnce, SameKeys
  <2> QED BY <2>1, <2>2, <2>3 DEF BookedLeave
<1> QED BY <1>1, <1>2, <1>3 DEF Carts

\* Keys are numbers that were given out.
LEMMA KeysAre ==
    ASSUME Typed, Carts
    PROVE  /\ keys \in Nat
           /\ \A a \in Agents : \A j \in DOMAIN pages[a].cart :
                 pages[a].cart[j].key \in Nat /\ pages[a].cart[j].key =< keys
           /\ \A s \in Slots : \A k \in DOMAIN calls[s].lines :
                 calls[s].lines[k].key \in Nat /\ calls[s].lines[k].key =< keys
           /\ \A i \in DOMAIN rows : rows[i].key \in Nat /\ rows[i].key =< keys
<1>1. keys \in Nat BY DEF Typed
<1>2. \A i \in 1 .. MaxKeys : i \in Nat BY AdmissionAssumption
<1>3. \A i \in DOMAIN rows : rows[i].key \in 1 .. MaxKeys BY RowsAre DEF Typed, Row
<1>4. \A s \in Slots : \A k \in DOMAIN calls[s].lines : calls[s].lines[k].key \in 1 .. MaxKeys
  BY LinesOfCall
<1>5. \A a \in Agents : \A j \in DOMAIN pages[a].cart : pages[a].cart[j].key \in Nat BY CartIs
<1> QED BY <1>1, <1>2, <1>3, <1>4, <1>5 DEF Carts, KeysFit

\* On a page that does not wait, what is booked and left in the cart is torn.
LEMMA IdlePage ==
    ASSUME Typed, Carts, NEW a \in Agents, ~pages[a].busy
    PROVE  /\ \A s \in Slots : ~(calls[s].heard /\ calls[s].agent = a)
           /\ \A i \in DOMAIN rows : \A j \in DOMAIN pages[a].cart :
                rows[i].key = pages[a].cart[j].key => rows[i].key \in torn
<1>1. \A s \in Slots : ~(calls[s].heard /\ calls[s].agent = a) BY DEF Carts, Waiting
<1> QED BY <1>1 DEF Carts, BookedLeave

LEMMA AddRoomCarts == ASSUME Typed, Carts, NEW a \in Agents, NEW l \in Lines, AddRoom(a, l) PROVE Carts'
<1>1. PICK x : x = [key |-> keys + 1, line |-> l] OBVIOUS
<1>2. PICK old \in Seq(CartLine) : old = pages[a].cart BY CartIs
<1>3. /\ ~pages[a].busy /\ keys' = keys + 1 /\ pages' = [pages EXCEPT ![a].cart = Append(@, x)]
      /\ UNCHANGED <<rows, calls, torn>>
  BY <1>1 DEF AddRoom
<1>4. keys \in Nat /\ keys < MaxKeys /\ x.key = keys + 1 BY <1>1, KeysAre DEF AddRoom
<1>5. x \in CartLine BY <1>1, <1>4, AdmissionAssumption DEF CartLine, AddRoom
<1>6. PICK cart : cart = Append(old, x) OBVIOUS
<1>7. /\ cart \in Seq(CartLine) /\ Len(cart) = Len(old) + 1
      /\ \A j \in 1 .. Len(old) : cart[j] = old[j]
      /\ cart[Len(old) + 1] = x
  BY <1>5, <1>6, AppendProperties
<1>8. Len(old) \in Nat /\ DOMAIN old = 1 .. Len(old) /\ DOMAIN cart = 1 .. Len(old) + 1 BY <1>7, LenProperties
<1>9. /\ pages'[a].cart = cart /\ pages'[a].busy = pages[a].busy
      /\ \A b \in Agents \ {a} : pages'[b] = pages[b]
  BY <1>2, <1>3, <1>6 DEF Typed
<1>10. ASSUME NEW j \in DOMAIN cart
       PROVE  (j \in DOMAIN old /\ cart[j] = old[j]) \/ (j = Len(old) + 1 /\ cart[j].key = keys + 1)
  BY <1>4, <1>7, <1>8
<1>11. Waiting' BY <1>3, <1>9, IdlePage, HeardIs DEF Carts, Waiting
<1>12. KeysFit'
  <2>1. ASSUME NEW b \in Agents, NEW j \in DOMAIN pages'[b].cart
        PROVE  \/ j \in DOMAIN pages[b].cart /\ pages'[b].cart[j].key = pages[b].cart[j].key
                  /\ pages[b].cart[j].key =< keys /\ pages[b].cart[j].key \in Nat
               \/ b = a /\ j = Len(old) + 1 /\ pages'[b].cart[j].key = keys + 1
    BY <1>2, <1>9, <1>10, KeysAre
  <2>2. \A b, c \in Agents : \A i \in DOMAIN pages'[b].cart, j \in DOMAIN pages'[c].cart :
           pages'[b].cart[i].key = pages'[c].cart[j].key => b = c /\ i = j
    BY <1>4, <2>1 DEF Carts, KeysFit
  <2>3. \A b \in Agents : \A j \in DOMAIN pages'[b].cart : pages'[b].cart[j].key =< keys + 1
    BY <1>4, <2>1
  <2>4. \A s \in Slots : \A i \in DOMAIN calls[s].lines : calls[s].lines[i].key =< keys + 1 BY <1>4, KeysAre
  <2>5. \A i \in DOMAIN rows : rows[i].key =< keys + 1 BY <1>4, KeysAre
  <2> QED BY <1>3, <2>2, <2>3, <2>4, <2>5 DEF KeysFit
<1>13. BookedLeave'
  <2>1. ASSUME NEW i \in DOMAIN rows, NEW b \in Agents, NEW j \in DOMAIN pages'[b].cart,
               rows[i].key = pages'[b].cart[j].key, rows[i].key \notin torn
        PROVE  \E s \in Slots : calls[s].heard /\ calls[s].agent = b /\ calls[s].at = "create" /\ j < calls[s].n
    <3>1. CASE b # a BY <1>9, <2>1, <3>1 DEF Carts, BookedLeave
    <3>2. CASE b = a
      <4>1. rows[i].key \in Nat /\ rows[i].key =< keys BY KeysAre
      <4>2. j \in DOMAIN old /\ cart[j] = old[j] BY <1>4, <1>9, <1>10, <2>1, <3>2, <4>1
      <4> QED BY <1>2, <1>3, <1>9, <2>1, <3>2, <4>2, IdlePage
    <3> QED BY <3>1, <3>2
  <2> QED BY <1>3, <2>1 DEF Carts, BookedLeave, BookedOnce
<1> QED BY <1>11, <1>12, <1>13 DEF Carts

LEMMA RemoveLineCarts ==
    ASSUME Typed, Carts, NEW a \in Agents, NEW x \in DOMAIN pages[a].cart, RemoveLine(a, x) PROVE Carts'
<1>1. PICK old \in Seq(CartLine) : old = pages[a].cart BY CartIs
<1>2. PICK cart : cart = RemoveAt(old, x) OBVIOUS
<1>3. /\ ~pages[a].busy /\ pages' = [pages EXCEPT ![a].cart = RemoveAt(@, x)]
      /\ UNCHANGED <<rows, calls, torn, keys>>
  BY DEF RemoveLine
<1>4. /\ cart \in Seq(CartLine) /\ Len(cart) = Len(old) - 1
      /\ \A j \in 1 .. Len(old) - 1 : cart[j] = old[IF j < x THEN j ELSE j + 1]
  BY <1>1, <1>2, RemoveAtProperties
<1>5. Len(old) \in Nat /\ DOMAIN old = 1 .. Len(old) /\ DOMAIN cart = 1 .. Len(old) - 1 BY <1>4, LenProperties
<1>6. /\ pages'[a].cart = cart /\ pages'[a].busy = pages[a].busy
      /\ \A b \in Agents \ {a} : pages'[b] = pages[b]
  BY <1>1, <1>2, <1>3 DEF Typed
<1> DEFINE was(j) == IF j < x THEN j ELSE j + 1
<1>7. /\ \A j \in DOMAIN cart : was(j) \in DOMAIN old /\ cart[j] = old[was(j)]
      /\ \A i, j \in DOMAIN cart : was(i) = was(j) => i = j
  BY <1>1, <1>4, <1>5
<1> HIDE DEF was
<1>8. Waiting' BY <1>3, <1>6, IdlePage, HeardIs DEF Carts, Waiting
<1>9. KeysFit'
  <2>1. ASSUME NEW b \in Agents, NEW j \in DOMAIN pages'[b].cart
        PROVE  \E k \in DOMAIN pages[b].cart :
                  /\ pages'[b].cart[j] = pages[b].cart[k]
                  /\ k = IF b = a THEN was(j) ELSE j
    BY <1>1, <1>6, <1>7
  <2>2. ASSUME NEW b \in Agents, NEW c \in Agents, NEW i \in DOMAIN pages'[b].cart, NEW j \in DOMAIN pages'[c].cart,
               pages'[b].cart[i].key = pages'[c].cart[j].key
        PROVE  b = c /\ i = j
    <3>1. PICK k \in DOMAIN pages[b].cart : pages'[b].cart[i] = pages[b].cart[k] /\ k = IF b = a THEN was(i) ELSE i
      BY <2>1
    <3>2. PICK m \in DOMAIN pages[c].cart : pages'[c].cart[j] = pages[c].cart[m] /\ m = IF c = a THEN was(j) ELSE j
      BY <2>1
    <3>3. b = c /\ k = m BY <2>2, <3>1, <3>2 DEF Carts, KeysFit
    <3>4. CASE b = a BY <1>6, <1>7, <2>2, <3>1, <3>2, <3>3, <3>4
    <3>5. CASE b # a BY <3>1, <3>2, <3>3, <3>5
    <3> QED BY <3>4, <3>5
  <2>3. \A b \in Agents : \A j \in DOMAIN pages'[b].cart : pages'[b].cart[j].key =< keys BY <2>1, KeysAre
  <2> QED BY <1>3, <2>2, <2>3 DEF Carts, KeysFit
<1>10. BookedLeave'
  <2>1. ASSUME NEW i \in DOMAIN rows, NEW b \in Agents, NEW j \in DOMAIN pages'[b].cart,
               rows[i].key = pages'[b].cart[j].key, rows[i].key \notin torn
        PROVE  \E s \in Slots : calls[s].heard /\ calls[s].agent = b /\ calls[s].at = "create" /\ j < calls[s].n
    <3>1. CASE b # a BY <1>6, <2>1, <3>1 DEF Carts, BookedLeave
    <3>2. CASE b = a
      <4>1. pages'[b].cart[j] = old[was(j)] /\ was(j) \in DOMAIN old BY <1>6, <1>7, <3>2
      <4>2. rows[i].key = pages[a].cart[was(j)].key /\ was(j) \in DOMAIN pages[a].cart BY <1>1, <2>1, <4>1
      <4> QED BY <1>3, <2>1, <4>2, IdlePage
    <3> QED BY <3>1, <3>2
  <2> QED BY <1>3, <2>1 DEF Carts, BookedLeave, BookedOnce
<1> QED BY <1>8, <1>9, <1>10 DEF Carts

LEMMA ConfirmCarts == ASSUME Typed, Carts, NEW a \in Agents, NEW s \in Slots, Confirm(a, s) PROVE Carts'
<1>1. /\ ~pages[a].busy /\ pages[a].cart # << >> /\ calls[s].at = "idle"
      /\ calls' = [calls EXCEPT ![s] = Begun(a)] /\ pages' = [pages EXCEPT ![a].busy = TRUE]
      /\ UNCHANGED <<rows, keys, torn>>
  BY DEF Confirm, Begun
<1>2. /\ Begun(a).at = "avail" /\ Begun(a).agent = a /\ Begun(a).lines = pages[a].cart
      /\ Begun(a).n = 1 /\ Begun(a).heard
  BY <1>1, BegunIs
<1>3. calls'[s] = Begun(a) /\ \A t \in Slots \ {s} : calls'[t] = calls[t] BY <1>1 DEF Typed
<1>4. /\ \A b \in Agents : pages'[b].cart = pages[b].cart /\ (pages[b].busy => pages'[b].busy)
      /\ pages'[a].busy
      /\ \A b \in Agents \ {a} : pages'[b] = pages[b]
  BY <1>1 DEF Typed
<1>5. \A t \in Slots : ~(calls[t].heard /\ calls[t].agent = a) BY <1>1, IdlePage
<1>6. ~calls[s].heard BY <1>1, HeardIs
<1>7. Waiting'
  <2>1. ASSUME NEW t \in Slots, calls'[t].heard
        PROVE  pages'[calls'[t].agent].busy /\ pages'[calls'[t].agent].cart = calls'[t].lines
    <3>1. CASE t = s BY <1>2, <1>3, <1>4, <3>1
    <3>2. CASE t # s
      <4>1. calls[t].heard /\ calls'[t] = calls[t] BY <1>3, <2>1, <3>2
      <4>2. calls[t].agent \in Agents BY <4>1, HeardIs
      <4> QED BY <1>4, <4>1, <4>2 DEF Carts, Waiting
    <3> QED BY <3>1, <3>2
  <2>2. \A t, u \in Slots : calls'[t].heard /\ calls'[u].heard /\ calls'[t].agent = calls'[u].agent => t = u
    BY <1>2, <1>3, <1>5 DEF Carts, Waiting
  <2>3. ASSUME NEW b \in Agents, pages'[b].busy
        PROVE  \E t \in Slots : calls'[t].agent = b /\ calls'[t].heard
    BY <1>2, <1>3, <1>4, <1>6, <2>3 DEF Carts, Waiting
  <2> QED BY <2>1, <2>2, <2>3 DEF Waiting
<1>8. KeysFit'
  <2>1. ASSUME NEW t \in Slots, NEW i \in DOMAIN calls'[t].lines PROVE calls'[t].lines[i].key =< keys
    BY <1>2, <1>3, KeysAre
  <2> QED BY <1>1, <1>4, <2>1 DEF Carts, KeysFit
<1>9. BookedLeave'
  <2>1. ASSUME NEW t \in Slots, calls'[t].at # "idle", ~calls'[t].heard PROVE KeysOf(calls'[t]) \subseteq torn
    <3>1. calls'[t] = calls[t] BY <1>2, <1>3, <2>1
    <3> QED BY <2>1, <3>1 DEF Carts, BookedLeave
  <2>2. ASSUME NEW i \in DOMAIN rows, NEW b \in Agents, NEW j \in DOMAIN pages[b].cart,
               rows[i].key = pages[b].cart[j].key, rows[i].key \notin torn
        PROVE  \E t \in Slots : calls'[t].heard /\ calls'[t].agent = b /\ calls'[t].at = "create" /\ j < calls'[t].n
    BY <1>3, <1>6, <2>2 DEF Carts, BookedLeave
  <2> QED BY <1>1, <1>4, <2>1, <2>2 DEF Carts, BookedLeave, BookedOnce
<1> QED BY <1>7, <1>8, <1>9 DEF Carts

\* A call ends, with all lines booked, with none, or torn.
LEMMA AnswerCarts ==
    ASSUME Typed, Carts, NEW s \in Slots, NEW ok \in BOOLEAN, Answer(s, ok), calls[s].at # "idle", SameKeys,
           keys' = keys, torn \subseteq torn',
           ok \/ calls[s].at # "create" \/ KeysOf(calls[s]) \subseteq torn'
    PROVE  Carts'
<1>1. calls'[s] = Idle /\ \A t \in Slots \ {s} : calls'[t] = calls[t] BY DEF Answer, Typed
<1>2. PICK a : a = calls[s].agent OBVIOUS
<1>3. a \in Agents BY <1>2 DEF Typed, CallFits
<1>4. CASE calls[s].heard
  <2>1. /\ pages'[a] = [cart |-> CartAfter(pages[a].cart, ok), busy |-> FALSE]
        /\ \A b \in Agents \ {a} : pages'[b] = pages[b]
    BY <1>2, <1>3, <1>4 DEF Answer, Typed
  <2>2. pages'[a].cart = (IF ok THEN << >> ELSE pages[a].cart) /\ ~pages'[a].busy BY <2>1 DEF CartAfter
  <2>3. pages[a].cart = calls[s].lines BY <1>2, <1>4 DEF Carts, Waiting
  <2>4. \A t \in Slots \ {s} : calls[t].heard => calls[t].agent \in Agents \ {a}
    BY <1>2, <1>4, HeardIs DEF Carts, Waiting
  <2>5. ~Idle.heard /\ Idle.at = "idle" /\ Idle.lines = << >> BY IdleTyped
  <2>6. Waiting'
    <3>1. ASSUME NEW t \in Slots, calls'[t].heard
          PROVE  t # s /\ calls'[t] = calls[t] /\ calls[t].agent \in Agents \ {a}
                 /\ pages'[calls[t].agent] = pages[calls[t].agent]
      BY <1>1, <2>1, <2>4, <2>5, <3>1
    <3>2. \A t \in Slots : calls'[t].heard =>
             pages'[calls'[t].agent].busy /\ pages'[calls'[t].agent].cart = calls'[t].lines
      BY <3>1 DEF Carts, Waiting
    <3>3. \A t, u \in Slots : calls'[t].heard /\ calls'[u].heard /\ calls'[t].agent = calls'[u].agent => t = u
      BY <3>1 DEF Carts, Waiting
    <3>4. ASSUME NEW b \in Agents, pages'[b].busy
          PROVE  \E t \in Slots : calls'[t].agent = b /\ calls'[t].heard
      <4>1. b # a /\ pages[b].busy BY <2>1, <2>2, <3>4
      <4>2. PICK t \in Slots : calls[t].agent = b /\ calls[t].heard BY <4>1 DEF Carts, Waiting
      <4>3. t # s BY <1>2, <4>1, <4>2
      <4> QED BY <1>1, <4>2, <4>3
    <3> QED BY <3>2, <3>3, <3>4 DEF Waiting
  <2>7. \A b \in Agents : \A j \in DOMAIN pages'[b].cart :
           j \in DOMAIN pages[b].cart /\ pages'[b].cart[j] = pages[b].cart[j] /\ (b = a => ~ok)
    <3>1. DOMAIN << >> = {} OBVIOUS
    <3> QED BY <2>1, <2>2, <3>1
  <2>8. KeysFit'
    <3>1. DOMAIN << >> = {} OBVIOUS
    <3>2. \A t \in Slots : \A i \in DOMAIN calls'[t].lines : calls'[t].lines[i].key =< keys
      BY <1>1, <2>5, <3>1, KeysAre
    <3>3. \A i \in DOMAIN rows' : rows'[i].key =< keys BY KeysAre DEF SameKeys
    <3> QED BY <2>7, <3>2, <3>3 DEF Carts, KeysFit
  <2>9. BookedLeave'
    <3>1. ASSUME NEW t \in Slots, calls'[t].at # "idle", ~calls'[t].heard PROVE KeysOf(calls'[t]) \subseteq torn'
      BY <1>1, <2>5, <3>1 DEF Carts, BookedLeave
    <3>2. ASSUME NEW i \in DOMAIN rows, NEW b \in Agents, NEW j \in DOMAIN pages'[b].cart,
                 rows[i].key = pages'[b].cart[j].key, rows[i].key \notin torn'
          PROVE  \E t \in Slots : calls'[t].heard /\ calls'[t].agent = b /\ calls'[t].at = "create" /\ j < calls'[t].n
      <4>1. j \in DOMAIN pages[b].cart /\ pages'[b].cart[j] = pages[b].cart[j] /\ (b = a => ~ok) BY <2>7
      <4>2. PICK t \in Slots : calls[t].heard /\ calls[t].agent = b /\ calls[t].at = "create" /\ j < calls[t].n
        BY <3>2, <4>1 DEF Carts, BookedLeave
      <4>3. CASE t = s
        <5>1. b = a /\ KeysOf(calls[s]) \subseteq torn' BY <1>2, <4>1, <4>2, <4>3
        <5>2. rows[i].key = calls[s].lines[j].key /\ j \in DOMAIN calls[s].lines BY <2>3, <3>2, <4>1, <5>1
        <5> QED BY <3>2, <5>1, <5>2 DEF KeysOf
      <4> QED BY <1>1, <4>2, <4>3
    <3>3. BookedOnce' BY DEF Carts, BookedLeave, BookedOnce, SameKeys
    <3> QED BY <3>1, <3>2, <3>3 DEF BookedLeave, SameKeys
  <2> QED BY <2>6, <2>8, <2>9 DEF Carts
<1>5. CASE ~calls[s].heard
  <2>1. pages' = pages BY <1>5 DEF Answer
  <2>2. ~Idle.heard /\ Idle.at = "idle" /\ Idle.lines = << >> BY IdleTyped
  <2>3. Waiting' BY <1>1, <1>5, <2>1, <2>2 DEF Carts, Waiting
  <2>4. KeysFit'
    <3>1. DOMAIN << >> = {} OBVIOUS
    <3>2. \A t \in Slots : \A i \in DOMAIN calls'[t].lines : calls'[t].lines[i].key =< keys
      BY <1>1, <2>2, <3>1, KeysAre
    <3>3. \A i \in DOMAIN rows' : rows'[i].key =< keys BY KeysAre DEF SameKeys
    <3> QED BY <2>1, <3>2, <3>3 DEF Carts, KeysFit
  <2>5. BookedLeave'
    <3>1. ASSUME NEW t \in Slots, calls'[t].at # "idle", ~calls'[t].heard PROVE KeysOf(calls'[t]) \subseteq torn'
      BY <1>1, <2>2, <3>1 DEF Carts, BookedLeave
    <3>2. ASSUME NEW i \in DOMAIN rows, NEW b \in Agents, NEW j \in DOMAIN pages[b].cart,
                 rows[i].key = pages[b].cart[j].key, rows[i].key \notin torn'
          PROVE  \E t \in Slots : calls'[t].heard /\ calls'[t].agent = b /\ calls'[t].at = "create" /\ j < calls'[t].n
      BY <1>1, <1>5, <3>2 DEF Carts, BookedLeave
    <3>3. BookedOnce' BY DEF Carts, BookedLeave, BookedOnce, SameKeys
    <3> QED BY <2>1, <3>1, <3>2, <3>3 DEF BookedLeave, SameKeys
  <2> QED BY <2>3, <2>4, <2>5 DEF Carts
<1> QED BY <1>4, <1>5

LEMMA LoseAnswerCarts == ASSUME Typed, Carts, NEW s \in Slots, LoseAnswer(s) PROVE Carts'
<1>1. PICK c : c = [calls[s] EXCEPT !.heard = FALSE] OBVIOUS
<1>2. /\ calls[s].heard /\ torn' = torn \cup KeysOf(calls[s]) /\ UNCHANGED <<rows, keys>>
      /\ calls' = [calls EXCEPT ![s] = c]
  BY <1>1 DEF LoseAnswer, Typed
<1>3. calls[s] \in Call BY DEF Typed
<1>4. /\ ~c.heard /\ c.agent = calls[s].agent /\ c.lines = calls[s].lines /\ c.at = calls[s].at
      /\ c.n = calls[s].n
  BY <1>1, <1>3 DEF Call
<1>5. calls'[s] = c /\ \A t \in Slots \ {s} : calls'[t] = calls[t] BY <1>2 DEF Typed
<1>6. PICK a \in Agents : a = calls[s].agent BY <1>2, HeardIs
<1>7. /\ \A b \in Agents : pages'[b].cart = pages[b].cart
      /\ ~pages'[a].busy /\ \A b \in Agents \ {a} : pages'[b] = pages[b]
  BY <1>6 DEF LoseAnswer, Typed
<1>8. ASSUME NEW t \in Slots, calls'[t].heard
      PROVE  t # s /\ calls'[t] = calls[t] /\ calls[t].agent \in Agents \ {a}
  <2>1. t # s /\ calls'[t] = calls[t] BY <1>4, <1>5, <1>8
  <2>2. calls[t].agent \in Agents BY <1>8, <2>1, HeardIs
  <2> QED BY <1>2, <1>6, <1>8, <2>1, <2>2 DEF Carts, Waiting
<1>9. Waiting'
  <2>1. \A t \in Slots : calls'[t].heard =>
           pages'[calls'[t].agent].busy /\ pages'[calls'[t].agent].cart = calls'[t].lines
    BY <1>7, <1>8 DEF Carts, Waiting
  <2>2. \A t, u \in Slots : calls'[t].heard /\ calls'[u].heard /\ calls'[t].agent = calls'[u].agent => t = u
    BY <1>8 DEF Carts, Waiting
  <2>3. ASSUME NEW b \in Agents, pages'[b].busy PROVE \E t \in Slots : calls'[t].agent = b /\ calls'[t].heard
    <3>1. b # a /\ pages[b].busy BY <1>7, <2>3
    <3>2. PICK t \in Slots : calls[t].agent = b /\ calls[t].heard BY <3>1 DEF Carts, Waiting
    <3> QED BY <1>5, <1>6, <3>1, <3>2
  <2> QED BY <2>1, <2>2, <2>3 DEF Waiting
<1>10. KeysFit'
  <2>1. \A t \in Slots : calls'[t].lines = calls[t].lines BY <1>4, <1>5
  <2> QED BY <1>2, <1>7, <2>1 DEF Carts, KeysFit
<1>11. BookedLeave'
  <2>1. ASSUME NEW t \in Slots, calls'[t].at # "idle", ~calls'[t].heard PROVE KeysOf(calls'[t]) \subseteq torn'
    <3>1. CASE t = s BY <1>2, <1>4, <1>5, <3>1 DEF KeysOf
    <3>2. CASE t # s BY <1>2, <1>5, <2>1, <3>2 DEF Carts, BookedLeave
    <3> QED BY <3>1, <3>2
  <2>2. ASSUME NEW i \in DOMAIN rows, NEW b \in Agents, NEW j \in DOMAIN pages[b].cart,
               rows[i].key = pages[b].cart[j].key, rows[i].key \notin torn'
        PROVE  \E t \in Slots : calls'[t].heard /\ calls'[t].agent = b /\ calls'[t].at = "create" /\ j < calls'[t].n
    <3>1. PICK t \in Slots : calls[t].heard /\ calls[t].agent = b /\ calls[t].at = "create" /\ j < calls[t].n
      BY <1>2, <2>2 DEF Carts, BookedLeave
    <3>2. CASE t = s
      <4>1. pages[b].cart = calls[s].lines BY <3>1, <3>2 DEF Carts, Waiting
      <4>2. rows[i].key \in KeysOf(calls[s]) BY <2>2, <4>1 DEF KeysOf
      <4> QED BY <1>2, <2>2, <4>2
    <3> QED BY <1>5, <3>1, <3>2
  <2>3. BookedOnce' BY <1>2 DEF Carts, BookedLeave, BookedOnce
  <2> QED BY <1>2, <1>7, <2>1, <2>2, <2>3 DEF BookedLeave
<1> QED BY <1>9, <1>10, <1>11 DEF Carts

LEMMA CreateLineCarts == ASSUME Typed, Carts, NEW s \in Slots, CreateLine(s) PROVE Carts'
<1> DEFINE c == calls[s]
           made == Len(rows) + 1
<1>1. UNCHANGED <<pages, keys, torn>> /\ c.at = "create" BY DEF CreateLine
<1>2. /\ c.n \in DOMAIN c.lines
      /\ DOMAIN rows' = DOMAIN rows \cup {made} /\ made \notin DOMAIN rows
      /\ \A i \in DOMAIN rows : rows'[i] = rows[i]
      /\ rows'[made] = Booked(c)
      /\ calls'[s] = After(c, made)
      /\ \A t \in Slots \ {s} : calls'[t] = Overtaken(calls, Line(c))[t]
  BY CreateIs
<1>3. c \in Call /\ c.n \in Nat BY DEF Typed, Call
<1>4. /\ After(c, made).heard = c.heard /\ After(c, made).agent = c.agent /\ After(c, made).lines = c.lines
      /\ After(c, made).at = "create" /\ After(c, made).n = c.n + 1
  BY <1>1, <1>3 DEF After, Call
<1>5. ASSUME NEW t \in Slots
      PROVE  /\ calls'[t].heard = calls[t].heard /\ calls'[t].agent = calls[t].agent
             /\ calls'[t].lines = calls[t].lines
             /\ calls'[t].at = calls[t].at
             /\ \A j \in Nat : j < calls[t].n => j < calls'[t].n
             /\ t = s => calls'[t].n = c.n + 1
  <2>1. CASE t = s BY <1>1, <1>2, <1>3, <1>4, <2>1
  <2>2. CASE t # s
    <3>1. Marked(calls[t], calls'[t]) BY <1>2, <2>2, OvertakenMarks
    <3> QED BY <2>2, <3>1 DEF Marked
  <2> QED BY <2>1, <2>2
<1>6. rows'[made].key = c.lines[c.n].key BY <1>2 DEF Booked
<1>7. Waiting' BY <1>1, <1>5 DEF Carts, Waiting
<1>8. KeysFit'
  <2>1. \A i \in DOMAIN rows' : rows'[i].key =< keys BY <1>2, <1>6, KeysAre
  <2> QED BY <1>1, <1>5, <2>1 DEF Carts, KeysFit
<1>9. ASSUME NEW b \in Agents, NEW j \in DOMAIN pages[b].cart, c.lines[c.n].key = pages[b].cart[j].key,
             c.lines[c.n].key \notin torn
      PROVE  c.heard /\ b = c.agent /\ j = c.n
  <2>1. c.heard BY <1>1, <1>2, <1>9 DEF Carts, BookedLeave, KeysOf
  <2>2. pages[c.agent].cart = c.lines /\ c.agent \in Agents BY <2>1, HeardIs DEF Carts, Waiting
  <2> QED BY <1>2, <1>9, <2>1, <2>2 DEF Carts, KeysFit
<1>10. BookedLeave'
  <2>1. ASSUME NEW t \in Slots, calls'[t].at # "idle", ~calls'[t].heard PROVE KeysOf(calls'[t]) \subseteq torn
    <3>1. KeysOf(calls'[t]) = KeysOf(calls[t]) BY <1>5 DEF KeysOf
    <3> QED BY <1>5, <2>1, <3>1 DEF Carts, BookedLeave
  <2>2. ASSUME NEW i \in DOMAIN rows', NEW b \in Agents, NEW j \in DOMAIN pages[b].cart,
               rows'[i].key = pages[b].cart[j].key, rows'[i].key \notin torn
        PROVE  \E t \in Slots : calls'[t].heard /\ calls'[t].agent = b /\ calls'[t].at = "create" /\ j < calls'[t].n
    <3>1. CASE i = made
      <4>1. c.heard /\ b = c.agent /\ j = c.n BY <1>6, <1>9, <2>2, <3>1
      <4> QED BY <1>1, <1>3, <1>5, <4>1
    <3>2. CASE i \in DOMAIN rows
      <4>1. PICK t \in Slots : calls[t].heard /\ calls[t].agent = b /\ calls[t].at = "create" /\ j < calls[t].n
        BY <1>2, <2>2, <3>2 DEF Carts, BookedLeave
      <4>2. j \in Nat BY CartIs
      <4> QED BY <1>5, <4>1, <4>2
    <3> QED BY <1>2, <3>1, <3>2
  <2>3. ASSUME NEW i \in DOMAIN rows, rows[i].key = c.lines[c.n].key PROVE rows[i].key \in torn
    <3> SUFFICES ASSUME rows[i].key \notin torn PROVE FALSE OBVIOUS
    <3>1. c.heard BY <1>1, <1>2, <2>3 DEF Carts, BookedLeave, KeysOf
    <3>2. pages[c.agent].cart = c.lines /\ c.agent \in Agents BY <3>1, HeardIs DEF Carts, Waiting
    <3>3. PICK t \in Slots : calls[t].heard /\ calls[t].agent = c.agent /\ c.n < calls[t].n
      BY <1>2, <2>3, <3>2 DEF Carts, BookedLeave
    <3>4. t = s BY <3>1, <3>3 DEF Carts, Waiting
    <3> QED BY <1>3, <3>3, <3>4
  <2>4. BookedOnce'
    <3>1. ASSUME NEW i \in DOMAIN rows', NEW j \in DOMAIN rows', rows'[i].key = rows'[j].key, i # j
          PROVE  rows'[i].key \in torn
      <4>1. CASE i \in DOMAIN rows /\ j \in DOMAIN rows
        BY <1>2, <3>1, <4>1 DEF Carts, BookedLeave, BookedOnce
      <4>2. CASE i = made /\ j \in DOMAIN rows BY <1>2, <1>6, <2>3, <3>1, <4>2
      <4>3. CASE i \in DOMAIN rows /\ j = made BY <1>2, <1>6, <2>3, <3>1, <4>3
      <4> QED BY <1>2, <3>1, <4>1, <4>2, <4>3
    <3> QED BY <1>1, <3>1 DEF BookedOnce
  <2> QED BY <1>1, <2>1, <2>2, <2>4 DEF BookedLeave
<1> QED BY <1>7, <1>8, <1>10 DEF Carts

\* A row that is written keeps its key.
LEMMA WrittenKeys == ASSUME Typed, NEW i \in DOMAIN rows, Written(i) PROVE SameKeys
<1>1. /\ DOMAIN rows' = DOMAIN rows /\ Follows(rows[i], rows'[i])
      /\ \A j \in DOMAIN rows \ {i} : rows'[j] = rows[j]
  BY WrittenTyped
<1> QED BY <1>1 DEF SameKeys, Follows

LEMMA CheckCarts ==
    ASSUME Typed, Carts, NEW s \in Slots,
           (\E d \in DOMAIN Stock : GetRoomType(s, d)) \/ AssertBookable(s) \/ EvaluateCreditGate(s)
    PROVE  Carts'
<1>1. UNCHANGED <<rows, pages, keys, torn>> /\ calls[s].at \notin {"idle", "create"}
  BY DEF GetRoomType, AssertBookable, EvaluateCreditGate
<1>2. PICK r \in Call : r = calls[s] BY DEF Typed
<1> DEFINE Kept(c) == c.at # "idle" /\ c.heard = r.heard /\ c.agent = r.agent /\ c.lines = r.lines
<1>3. PICK c : calls' = [calls EXCEPT ![s] = c] /\ Kept(c)
  <2>1. CASE \E d \in DOMAIN Stock : GetRoomType(s, d)
    <3>1. PICK d \in DOMAIN Stock : GetRoomType(s, d) BY <2>1
    <3>2. PICK c : c = [r EXCEPT !.at = "check", !.avail = Free(d)] OBVIOUS
    <3>3. calls' = [calls EXCEPT ![s] = c] BY <1>2, <3>1, <3>2 DEF GetRoomType, Typed
    <3>4. Kept(c) BY <3>2 DEF Call
    <3> QED BY <3>3, <3>4
  <2>2. CASE AssertBookable(s)
    <3>1. PICK c, d : /\ c = [r EXCEPT !.at = "avail", !.avail = 0, !.n = r.n + 1]
                      /\ d = [r EXCEPT !.at = "gate", !.avail = 0, !.n = 1]
      OBVIOUS
    <3>2. calls' = [calls EXCEPT ![s] = c] \/ calls' = [calls EXCEPT ![s] = d]
      BY <1>2, <2>2, <3>1 DEF AssertBookable
    <3>3. Kept(c) /\ Kept(d) BY <3>1 DEF Call
    <3> QED BY <3>2, <3>3
  <2>3. CASE EvaluateCreditGate(s)
    <3>1. PICK g, o : calls' = [calls EXCEPT ![s] = [r EXCEPT !.at = "create", !.credit = g, !.seen = o]]
      BY <1>2, <2>3 DEF EvaluateCreditGate
    <3>2. PICK c : c = [r EXCEPT !.at = "create", !.credit = g, !.seen = o] OBVIOUS
    <3>3. Kept(c) BY <3>2 DEF Call
    <3> QED BY <3>1, <3>2, <3>3
  <2> QED BY <2>1, <2>2, <2>3
<1>4. Steady BY <1>1, <1>2, <1>3 DEF Steady, Typed
<1> QED BY <1>1, <1>4, SteadyKeepsCarts DEF SameKeys

LEMMA FollowCarts == ASSUME Typed, Carts, NEW i \in DOMAIN rows, Follow(i) PROVE Carts'
<1>1. Written(i) /\ UNCHANGED <<calls, pages, keys, torn>> BY FollowWrites
<1>2. Steady BY <1>1 DEF Steady
<1> QED BY <1>1, <1>2, WrittenKeys, SteadyKeepsCarts

LEMMA AdministerCarts == ASSUME Typed, Carts, Administer PROVE Carts'
<1>1. UNCHANGED <<rows, pages, keys, torn>>
  BY DEF Administer, CreatePolicy, DeletePolicy, CreateAllotment, DeleteAllotment
<1>2. Steady
  <2>1. CASE calls' = calls BY <1>1, <2>1 DEF Steady
  <2>2. CASE \E p, agencies : calls' = Stricter(p, agencies)
    <3>1. \A t \in Slots : Marked(calls[t], calls'[t]) BY <2>2, StricterMarks
    <3> QED BY <1>1, <3>1 DEF Steady, Marked
  <2> QED BY <2>1, <2>2 DEF Administer, CreatePolicy, DeletePolicy, CreateAllotment, DeleteAllotment
<1> QED BY <1>1, <1>2, SteadyKeepsCarts DEF SameKeys

LEMMA AnswersCarts == ASSUME Typed, Carts, NEW s \in Slots, Refuse(s) \/ Created(s) \/ Stop(s) PROVE Carts'
<1>1. CASE Refuse(s)
  <2>1. /\ Answer(s, FALSE) /\ calls[s].at \notin {"idle", "create"} /\ UNCHANGED <<rows, keys, torn>>
    BY <1>1 DEF Refuse
  <2> QED BY <2>1, AnswerCarts DEF SameKeys
<1>2. CASE Created(s)
  <2>1. /\ Answer(s, TRUE) /\ calls[s].at = "create" /\ UNCHANGED <<rows, keys, torn>>
    BY <1>2 DEF Created
  <2> QED BY <2>1, AnswerCarts DEF SameKeys
<1>3. CASE Stop(s)
  <2>1. /\ Answer(s, FALSE) /\ calls[s].at = "create" /\ keys' = keys /\ torn' = torn \cup KeysOf(calls[s])
    BY <1>3 DEF Stop
  <2>2. SameKeys
    <3>1. CASE rows' = rows BY <3>1 DEF SameKeys
    <3>2. CASE \E i \in DOMAIN rows : Written(i) BY <3>2, WrittenKeys
    <3> QED BY <1>3, <3>1, <3>2, StopWrites
  <2> QED BY <2>1, <2>2, AnswerCarts
<1> QED BY <1>1, <1>2, <1>3

LEMMA CartsStep == ASSUME Typed, Carts, [Next]_vars PROVE Carts'
<1>1. ASSUME NEW a \in Agents, Shop(a) PROVE Carts'
  BY <1>1, AddRoomCarts, RemoveLineCarts, ConfirmCarts DEF Shop
<1>2. ASSUME NEW s \in Slots, Handle(s) PROVE Carts'
  BY <1>2, CheckCarts, AnswersCarts, CreateLineCarts, LoseAnswerCarts DEF Handle
<1>3. CASE UNCHANGED vars
  <2>1. Steady /\ SameKeys /\ UNCHANGED <<torn, keys>> BY <1>3 DEF vars, Steady, SameKeys
  <2> QED BY <2>1, SteadyKeepsCarts
<1> QED BY <1>1, <1>2, <1>3, FollowCarts, AdministerCarts DEF Next

LEMMA CartsAtFirst == ASSUME Init PROVE Carts
<1>1. DOMAIN << >> = {} OBVIOUS
<1>2. ~Idle.heard /\ Idle.at = "idle" /\ Idle.lines = << >> BY IdleTyped
<1>3. \A s \in Slots : calls[s] = Idle BY DEF Init
<1>4. \A a \in Agents : pages[a].cart = << >> /\ ~pages[a].busy BY DEF Init
<1>5. rows = << >> BY DEF Init
<1> QED BY <1>1, <1>2, <1>3, <1>4, <1>5 DEF Carts, Waiting, KeysFit, BookedLeave, BookedOnce

\* One line of a cart makes two bookings only if the request that carried it was
\* cut short or its answer was lost (createGroupBooking, confirmGroup).
THEOREM BookedOnceHolds == Spec => []BookedOnce
<1>1. Init => Typed /\ Carts BY TypedAtFirst, CartsAtFirst
<1>2. Typed /\ Carts /\ [Next]_vars => (Typed /\ Carts)' BY TypedStep, CartsStep
<1>3. Typed /\ Carts => BookedOnce BY DEF Carts, BookedLeave
<1> QED BY <1>1, <1>2, <1>3, PTL DEF Spec

\* Rows, calls, pages and policies are what the handlers write; a page waits just
\* while a call of its agent may still answer it; a key is that of one line of one
\* page (addRoom, confirmGroup, createGroupBooking, commitToAxisRooms).
THEOREM AdmissionTypeCorrect == Spec => []AdmissionTypeOK
<1>1. Init => Typed /\ Carts BY TypedAtFirst, CartsAtFirst
<1>2. Typed /\ Carts /\ [Next]_vars => (Typed /\ Carts)' BY TypedStep, CartsStep
<1>3. ASSUME Typed, Carts PROVE AdmissionTypeOK
  <2>1. \A i \in DOMAIN rows : rows[i].credit \/ rows[i].owed = 0
    <3>1. \A i \in DOMAIN rows : rows[i].owed \in Nat /\ RowFits(rows[i]) BY <1>3, RowsAre DEF Typed, Row
    <3> QED BY <3>1 DEF RowFits
  <2>2. ASSUME NEW s \in Slots
        PROVE  /\ calls[s].at \in {"idle", "avail", "check", "gate", "create"}
               /\ calls[s].at = "idle" => calls[s] = Idle
               /\ calls[s].last \in 0 .. Len(rows)
    <3>1. calls[s] \in Call /\ CallFits(calls[s], Len(rows)) BY <1>3 DEF Typed
    <3>2. Len(rows) \in Nat BY <1>3, RowsAre DEF Typed
    <3> QED BY <3>1, <3>2 DEF Call, CallFits
  <2>3. \A a \in Agents : pages[a].busy <=> \E s \in Slots : calls[s].agent = a /\ calls[s].heard
    BY <1>3 DEF Carts, Waiting
  <2> QED BY <1>3, <2>1, <2>2, <2>3 DEF AdmissionTypeOK, Typed, Carts, KeysFit
<1> QED BY <1>1, <1>2, <1>3, PTL DEF Spec

-----------------------------------------------------------------------------
(* What an agency owes on credit. *)

Money == GateHolds /\ ExposureFits

\* What the bookings among q of an agency owe, or will.
Owing(q, agency) == SumOf([i \in {i \in DOMAIN q : q[i].agency = agency} |-> Owe(q[i])])

LEMMA OweIsNat ==
    ASSUME NEW q \in Seq(Row), NEW agency, NEW S, S = {i \in DOMAIN q : q[i].agency = agency}
    PROVE  /\ IsFiniteSet(S) /\ \A i \in S : q[i] \in Row /\ Owe(q[i]) \in Nat
           /\ Summable([i \in S |-> Owe(q[i])])
<1>1. Len(q) \in Nat /\ DOMAIN q = 1 .. Len(q) /\ \A i \in DOMAIN q : q[i] \in Row BY LenProperties
<1>2. IsFiniteSet(S)
  <2>1. PICK n : n = Len(q) OBVIOUS
  <2>2. n \in Int /\ S \in SUBSET (1 .. n) BY <1>1, <2>1
  <2> QED BY ONLY <2>2, PartsAreFinite
<1>3. \A r \in Row : Owe(r) \in Nat BY DEF Owe, Row
<1> QED BY <1>1, <1>2, <1>3 DEF Summable

\* The bookings that are not billed owe nothing yet.
LEMMA OwingsAddUp ==
    ASSUME NEW q \in Seq(Row), NEW agency
    PROVE  LET billed == SumOf([i \in {i \in DOMAIN q : q[i].agency = agency} |-> q[i].owed])
               unbilled == SumOf([i \in {i \in DOMAIN q : q[i].agency = agency /\ Unbilled(q[i])} |-> q[i].price])
           IN  billed \in Nat /\ unbilled \in Nat /\ billed + unbilled = Owing(q, agency)
<1> DEFINE S == {i \in DOMAIN q : q[i].agency = agency}
           U == {i \in DOMAIN q : q[i].agency = agency /\ Unbilled(q[i])}
           all == [i \in S |-> Owe(q[i])]
           owed == [i \in S |-> q[i].owed]
           price == [i \in U |-> q[i].price]
           none == [i \in U |-> q[i].owed]
           rest == [i \in S \ U |-> q[i].owed]
<1>1. IsFiniteSet(S) /\ (\A i \in S : q[i] \in Row) /\ Summable(all) BY OweIsNat
<1>2. U \subseteq S /\ IsFiniteSet(U) /\ IsFiniteSet(S \ U) BY <1>1, FS_Subset
<1>3. \A r \in Row : r.owed \in Nat /\ r.price \in Nat BY DEF Row
<1>4. \A i \in U : q[i].owed = 0 /\ Owe(q[i]) = q[i].price BY DEF Unbilled, Owe
<1>5. \A i \in S \ U : Owe(q[i]) = q[i].owed BY DEF Owe
<1>6. Owing(q, agency) = SumOf(all) BY DEF Owing
<1> HIDE DEF S, U
<1>7. Summable(owed) /\ Summable(price) /\ Summable(none) /\ Summable(rest)
  BY <1>1, <1>2, <1>3 DEF Summable
<1>8. SumOf(all) = SumOf(price) + SumOf(rest)
  <2>1. /\ DOMAIN all = DOMAIN price \cup DOMAIN rest /\ DOMAIN price \cap DOMAIN rest = {}
        /\ \A i \in DOMAIN price : all[i] = price[i]
        /\ \A i \in DOMAIN rest : all[i] = rest[i]
    BY <1>2, <1>4, <1>5
  <2> HIDE DEF all, price, rest
  <2> QED BY <1>1, <1>7, <2>1, SumSplit
<1>9. SumOf(owed) = SumOf(none) + SumOf(rest)
  <2>1. /\ DOMAIN owed = DOMAIN none \cup DOMAIN rest /\ DOMAIN none \cap DOMAIN rest = {}
        /\ \A i \in DOMAIN none : owed[i] = none[i]
        /\ \A i \in DOMAIN rest : owed[i] = rest[i]
    BY <1>2
  <2> HIDE DEF owed, none, rest
  <2> QED BY <1>7, <2>1, SumSplit
<1>10. SumOf(none) = 0
  <2>1. ~ \E i \in DOMAIN none : none[i] > 0 BY <1>4
  <2> HIDE DEF none
  <2>2. ~(SumOf(none) > 0) /\ SumOf(none) \in Nat BY <1>7, <2>1, SumPositive, SumType
  <2> QED BY <2>2
<1> HIDE DEF all, owed, price, none, rest
<1>11. SumOf(owed) \in Nat /\ SumOf(price) \in Nat /\ SumOf(rest) \in Nat BY <1>7, SumType
<1>12. SumOf(owed) + SumOf(price) = Owing(q, agency) BY <1>6, <1>8, <1>9, <1>10, <1>11
<1> QED BY <1>11, <1>12 DEF S, U, owed, price

LEMMA ExposureIs ==
    ASSUME rows \in Seq(Row), NEW agency
    PROVE  /\ Exposure(agency) = Owing(rows, agency) /\ Exposure(agency) \in Nat
           /\ Outstanding(agency) =< Exposure(agency)
<1>1. PICK q \in Seq(Row) : q = rows OBVIOUS
<1>2. PICK o, u : /\ o = SumOf([i \in {i \in DOMAIN q : q[i].agency = agency} |-> q[i].owed])
                  /\ u = SumOf([i \in {i \in DOMAIN q : q[i].agency = agency /\ Unbilled(q[i])} |-> q[i].price])
  OBVIOUS
<1>3. Outstanding(agency) = o /\ Exposure(agency) = o + u BY <1>1, <1>2 DEF Exposure, Outstanding
<1>4. o \in Nat /\ u \in Nat /\ o + u = Owing(q, agency) BY <1>2, OwingsAddUp
<1> QED BY <1>1, <1>3, <1>4

LEMMA ExposureNext ==
    ASSUME rows' \in Seq(Row), NEW agency
    PROVE  Exposure(agency)' = Owing(rows', agency)
<1>1. PICK q \in Seq(Row) : q = rows' OBVIOUS
<1>2. PICK o, u : /\ o = SumOf([i \in {i \in DOMAIN q : q[i].agency = agency} |-> q[i].owed])
                  /\ u = SumOf([i \in {i \in DOMAIN q : q[i].agency = agency /\ Unbilled(q[i])} |-> q[i].price])
  OBVIOUS
<1>3. Exposure(agency)' = o + u BY <1>1, <1>2 DEF Exposure, Outstanding
<1>4. o \in Nat /\ u \in Nat /\ o + u = Owing(q, agency) BY <1>2, OwingsAddUp
<1> QED BY <1>1, <1>3, <1>4

\* A row that is written owes no more, unless it is revived.
LEMMA WrittenOwes ==
    ASSUME Typed, NEW i \in DOMAIN rows, Written(i), NEW agency, Clear(agency)'
    PROVE  Clear(agency) /\ Exposure(agency)' =< Exposure(agency)
<1>1. /\ rows' \in Seq(Row) /\ DOMAIN rows' = DOMAIN rows
      /\ Follows(rows[i], rows'[i])
      /\ \A j \in DOMAIN rows \ {i} : rows'[j] = rows[j]
  BY WrittenTyped
<1>2. PICK p \in Seq(Row), q \in Seq(Row) : p = rows /\ q = rows' BY <1>1 DEF Typed
<1>3. \A j \in DOMAIN p : /\ q[j].agency = p[j].agency /\ q[j].blind = p[j].blind
                          /\ p[j].revived => q[j].revived
                          /\ q[j] = p[j] \/ Owe(q[j]) =< Owe(p[j]) \/ q[j].revived
  BY <1>1, <1>2 DEF Follows
<1>4. \A j \in DOMAIN q : q[j].agency = agency => ~q[j].blind /\ ~q[j].revived BY <1>2 DEF Clear
<1>5. DOMAIN p = DOMAIN q BY <1>1, <1>2
<1>6. Clear(agency) BY <1>2, <1>3, <1>4, <1>5 DEF Clear
<1> DEFINE S == {j \in DOMAIN p : p[j].agency = agency}
           T == {j \in DOMAIN q : q[j].agency = agency}
           f == [j \in S |-> Owe(p[j])]
           g == [j \in T |-> Owe(q[j])]
<1>7. S = T BY <1>3, <1>5
<1>8. /\ Summable(f) /\ \A j \in S : Owe(p[j]) \in Nat
      /\ Summable(g) /\ \A j \in T : Owe(q[j]) \in Nat
  BY OweIsNat
<1>9. DOMAIN g \subseteq DOMAIN f /\ \A j \in DOMAIN g : g[j] =< f[j]
  <2>1. ASSUME NEW j \in T PROVE j \in S /\ Owe(q[j]) =< Owe(p[j])
    <3>1. j \in DOMAIN p /\ j \in S /\ ~q[j].revived BY <1>4, <1>5, <1>7
    <3>2. CASE q[j] = p[j]
      <4>1. Owe(p[j]) \in Nat BY <1>8, <3>1
      <4> QED BY <3>1, <3>2, <4>1
    <3> QED BY <1>3, <3>1, <3>2
  <2> QED BY <2>1
<1>10. Owing(p, agency) = SumOf(f) /\ Owing(q, agency) = SumOf(g) BY DEF Owing
<1> HIDE DEF f, g
<1>11. SumOf(g) =< SumOf(f) BY <1>8, <1>9, SumAtMost
<1>12. Exposure(agency) = Owing(p, agency) BY <1>2, ExposureIs
<1>13. Exposure(agency)' = Owing(q, agency) BY <1>2, ExposureNext
<1> QED BY <1>6, <1>10, <1>11, <1>12, <1>13

\* The calls that create on credit are as they were.
LEMMA GateStays ==
    ASSUME GateHolds, home' = home,
           \A t \in Slots : calls'[t].at = "create" /\ calls'[t].credit =>
              /\ calls[t].at = "create" /\ calls[t].credit /\ calls'[t].agent = calls[t].agent
              /\ calls'[t].lines = calls[t].lines /\ calls'[t].n = calls[t].n /\ calls'[t].seen = calls[t].seen
    PROVE  GateHolds'
BY DEF GateHolds, Rest, Agency

LEMMA ExposureStays == ASSUME Typed, ExposureFits, rows' = rows \/ \E i \in DOMAIN rows : Written(i) PROVE ExposureFits'
<1>1. ASSUME NEW agency \in Agencies, Clear(agency)' PROVE Exposure(agency)' =< Limit[agency]
  <2>1. CASE rows' = rows
    <3>1. Clear(agency) /\ Exposure(agency)' = Exposure(agency)
      BY <1>1, <2>1 DEF Clear, Exposure, Outstanding
    <3> QED BY <3>1 DEF ExposureFits
  <2>2. CASE \E i \in DOMAIN rows : Written(i)
    <3>1. Clear(agency) /\ Exposure(agency)' =< Exposure(agency) BY <1>1, <2>2, WrittenOwes
    <3>2. Exposure(agency) =< Limit[agency] BY <3>1 DEF ExposureFits
    <3>3. rows' \in Seq(Row) /\ rows \in Seq(Row) BY <2>2, WrittenTyped DEF Typed
    <3>4. Exposure(agency) \in Nat /\ Limit[agency] \in Nat BY <3>3, ExposureIs, AdmissionAssumption
    <3>5. Exposure(agency)' \in Nat
      <4>1. PICK q \in Seq(Row) : q = rows' BY <3>3
      <4>2. PICK o \in Nat, u \in Nat : o + u = Owing(q, agency) BY OwingsAddUp
      <4>3. Owing(q, agency) \in Nat BY <4>2
      <4> QED BY <3>3, <4>1, <4>3, ExposureNext
    <3> QED BY <3>1, <3>2, <3>4, <3>5
  <2> QED BY <2>1, <2>2
<1> QED BY <1>1 DEF ExposureFits

\* What is left of a cart, line n apart.
LEMMA RestIs ==
    ASSUME Typed, NEW s \in Slots, NEW n \in Nat, n >= 1, NEW lines, lines = calls[s].lines
    PROVE  LET left(k) == SumOf([i \in k .. Len(lines) |-> AgencyPrice(lines[i].line)])
           IN  /\ left(n) \in Nat
               /\ n \in DOMAIN lines => left(n) = left(n + 1) + AgencyPrice(lines[n].line)
<1>0. PICK m : m = Len(lines) OBVIOUS
<1>1. /\ m = Len(lines) /\ m \in Nat /\ DOMAIN lines = 1 .. m
      /\ \A i \in 1 .. m : AgencyPrice(lines[i].line) \in Nat
  BY <1>0, LinesOfCall
<1> DEFINE part(k) == [i \in k .. m |-> AgencyPrice(lines[i].line)]
<1>2. ASSUME NEW k \in Nat, k >= 1 PROVE Summable(part(k))
  <2>1. IsFiniteSet(k .. m) BY <1>1, FS_Interval
  <2>2. \A i \in k .. m : i \in 1 .. m BY <1>1, <1>2
  <2>3. \A i \in k .. m : AgencyPrice(lines[i].line) \in Nat BY <1>1, <2>2
  <2> QED BY <2>1, <2>3 DEF Summable
<1>3. n + 1 \in Nat /\ n + 1 >= 1 OBVIOUS
<1>4. Summable(part(n)) /\ Summable(part(n + 1)) BY <1>2, <1>3
<1>5. SumOf(part(n)) \in Nat BY <1>4, SumType
<1>6. ASSUME n \in 1 .. m PROVE SumOf(part(n)) = SumOf(part(n + 1)) + AgencyPrice(lines[n].line)
  <2>1. PICK f, g : f = part(n + 1) /\ g = part(n) OBVIOUS
  <2>2. DOMAIN g = DOMAIN f \cup {n} /\ n \notin DOMAIN f BY <1>1, <1>6, <2>1
  <2>3. \A i \in DOMAIN f : g[i] = f[i] BY <1>1, <2>1
  <2>4. Summable(f) /\ Summable(g) /\ g[n] = AgencyPrice(lines[n].line) BY <1>1, <1>4, <1>6, <2>1
  <2>5. SumOf(g) = SumOf(f) + g[n] BY ONLY <2>2, <2>3, <2>4, SumAdd
  <2> QED BY <2>1, <2>4, <2>5
<1> QED BY <1>1, <1>5, <1>6

LEMMA CheckMoney ==
    ASSUME Typed, Money, NEW s \in Slots,
           (\E d \in DOMAIN Stock : GetRoomType(s, d)) \/ AssertBookable(s)
    PROVE  Money'
<1>1. UNCHANGED <<home, rows>> /\ \A t \in Slots \ {s} : calls'[t] = calls[t]
  BY DEF GetRoomType, AssertBookable, Typed
<1>2. PICK r \in Call : r = calls[s] BY DEF Typed
<1>3. calls'[s].at # "create"
  <2>1. CASE \E d \in DOMAIN Stock : GetRoomType(s, d)
    <3>1. PICK d \in DOMAIN Stock : GetRoomType(s, d) BY <2>1
    <3>2. calls'[s] = [r EXCEPT !.at = "check", !.avail = Free(d)] BY <1>2, <3>1 DEF GetRoomType, Typed
    <3> QED BY <3>2 DEF Call
  <2>2. CASE AssertBookable(s)
    <3>1. \/ calls'[s] = [r EXCEPT !.at = "avail", !.avail = 0, !.n = r.n + 1]
          \/ calls'[s] = [r EXCEPT !.at = "gate", !.avail = 0, !.n = 1]
      BY <1>2, <2>2 DEF AssertBookable, Typed
    <3>2. /\ [r EXCEPT !.at = "avail", !.avail = 0, !.n = r.n + 1].at = "avail"
          /\ [r EXCEPT !.at = "gate", !.avail = 0, !.n = 1].at = "gate"
      BY DEF Call
    <3> QED BY <3>1, <3>2
  <2> QED BY <2>1, <2>2
<1>4. GateHolds' BY <1>1, <1>3, GateStays DEF Money
<1> QED BY <1>1, <1>4, ExposureStays DEF Money

\* The gate lets a cart be on credit only if all of it fits.
LEMMA GateMoney == ASSUME Typed, Money, NEW s \in Slots, EvaluateCreditGate(s) PROVE Money'
<1>1. PICK r \in Call : r = calls[s] BY DEF Typed
<1>2. PICK o : o = Outstanding(Agency(r)) OBVIOUS
<1>3. PICK g \in BOOLEAN : g = OnCredit(r, o)
  <2>1. OnCredit(r, o) \in BOOLEAN BY DEF OnCredit
  <2> QED BY <2>1
<1>4. PICK c : c = [r EXCEPT !.at = "create", !.credit = g, !.seen = IF g THEN o ELSE 0] OBVIOUS
<1>5. calls' = [calls EXCEPT ![s] = c] /\ r.at = "gate" /\ UNCHANGED <<home, rows>>
  BY <1>1, <1>2, <1>3, <1>4 DEF EvaluateCreditGate
<1>6. /\ c.credit = g /\ c.lines = r.lines /\ c.n = r.n /\ c.agent = r.agent
      /\ g => c.seen = o
  BY <1>4 DEF Call
<1>7. calls'[s] = c /\ \A t \in Slots \ {s} : calls'[t] = calls[t] BY <1>5 DEF Typed
<1>8. r.n = 1 BY <1>1, <1>5 DEF Typed, CallFits
<1>9. Rest(c) = CartTotal(r.lines)
  <2>1. DOMAIN r.lines = 1 .. Len(r.lines) BY <1>1, LinesOfCall
  <2> QED BY <1>6, <1>8, <2>1 DEF Rest, CartTotal
<1>10. g => o + Rest(c) =< Limit[Agency(r)] BY <1>3, <1>9 DEF OnCredit
<1>11. Agency(c)' = Agency(r) BY <1>5, <1>6 DEF Agency
<1>12. GateHolds'
  <2>1. ASSUME NEW t \in Slots, calls'[t].at = "create", calls'[t].credit
        PROVE  calls'[t].seen + Rest(calls'[t]) =< Limit[home[calls'[t].agent]]
    <3>1. CASE t = s BY <1>6, <1>7, <1>10, <2>1, <3>1 DEF Agency
    <3>2. CASE t # s BY <1>7, <2>1, <3>2 DEF Money, GateHolds, Agency
    <3> QED BY <3>1, <3>2
  <2> QED BY <1>5, <2>1 DEF GateHolds, Agency
<1> QED BY <1>5, <1>12, ExposureStays DEF Money

LEMMA AnswersMoney == ASSUME Typed, Money, NEW s \in Slots, Refuse(s) \/ Created(s) \/ Stop(s) PROVE Money'
<1>1. calls' = [calls EXCEPT ![s] = Idle] /\ home' = home BY DEF Refuse, Created, Stop, Answer
<1>2. calls'[s].at = "idle" /\ \A t \in Slots \ {s} : calls'[t] = calls[t] BY <1>1, IdleTyped DEF Typed
<1>3. GateHolds' BY <1>1, <1>2, GateStays DEF Money
<1>4. rows' = rows \/ \E i \in DOMAIN rows : Written(i)
  <2>1. CASE Stop(s) BY <2>1, StopWrites
  <2>2. CASE Refuse(s) \/ Created(s) BY <2>2 DEF Refuse, Created
  <2> QED BY <2>1, <2>2
<1> QED BY <1>3, <1>4, ExposureStays DEF Money

LEMMA LoseAnswerMoney == ASSUME Typed, Money, NEW s \in Slots, LoseAnswer(s) PROVE Money'
<1>1. PICK r \in Call : r = calls[s] BY DEF Typed
<1>2. calls'[s] = [r EXCEPT !.heard = FALSE] /\ \A t \in Slots \ {s} : calls'[t] = calls[t]
  BY <1>1 DEF LoseAnswer, Typed
<1>3. UNCHANGED <<home, rows>> BY DEF LoseAnswer
<1>4. /\ calls'[s].at = r.at /\ calls'[s].credit = r.credit /\ calls'[s].agent = r.agent
      /\ calls'[s].lines = r.lines /\ calls'[s].n = r.n /\ calls'[s].seen = r.seen
  BY <1>2 DEF Call
<1>5. GateHolds' BY <1>1, <1>2, <1>3, <1>4, GateStays DEF Money
<1> QED BY <1>3, <1>5, ExposureStays DEF Money

LEMMA ShopMoney == ASSUME Typed, Money, NEW a \in Agents, Shop(a) PROVE Money'
<1>1. UNCHANGED <<home, rows>> BY DEF Shop, AddRoom, RemoveLine, Confirm
<1>2. GateHolds'
  <2>1. CASE calls' = calls BY <1>1, <2>1, GateStays DEF Money
  <2>2. CASE \E s \in Slots : Confirm(a, s)
    <3>1. PICK s \in Slots : Confirm(a, s) BY <2>2
    <3>2. calls'[s] = Begun(a) /\ \A t \in Slots \ {s} : calls'[t] = calls[t]
      BY <3>1 DEF Confirm, Begun, Typed
    <3>3. calls'[s].at = "avail" BY <3>1, <3>2, BegunIs DEF Confirm
    <3> QED BY <1>1, <3>2, <3>3, GateStays DEF Money
  <2> QED BY <2>1, <2>2 DEF Shop, AddRoom, RemoveLine
<1> QED BY <1>1, <1>2, ExposureStays DEF Money

LEMMA AdministerMoney == ASSUME Typed, Money, Administer PROVE Money'
<1>1. UNCHANGED <<home, rows>> BY DEF Administer, CreatePolicy, DeletePolicy, CreateAllotment, DeleteAllotment
<1>2. GateHolds'
  <2>1. CASE calls' = calls BY <1>1, <2>1, GateStays DEF Money
  <2>2. CASE \E p, agencies : calls' = Stricter(p, agencies)
    <3>1. \A t \in Slots : Marked(calls[t], calls'[t]) BY <2>2, StricterMarks
    <3> QED BY <1>1, <3>1, GateStays DEF Money, Marked
  <2> QED BY <2>1, <2>2 DEF Administer, CreatePolicy, DeletePolicy, CreateAllotment, DeleteAllotment
<1> QED BY <1>1, <1>2, ExposureStays DEF Money

LEMMA FollowMoney == ASSUME Typed, Money, NEW i \in DOMAIN rows, Follow(i) PROVE Money'
<1>1. Written(i) /\ UNCHANGED <<home, calls>> BY FollowWrites
<1>2. GateHolds' BY <1>1, GateStays DEF Money
<1> QED BY <1>1, <1>2, ExposureStays DEF Money

\* A line created adds what it costs to its agency's exposure, if on credit.
LEMMA CreateLineOwes ==
    ASSUME Typed, NEW s \in Slots, CreateLine(s), NEW agency
    PROVE  LET c == calls[s]
               more == IF agency = Agency(c) /\ c.credit THEN AgencyPrice(Line(c)) ELSE 0
           IN  Exposure(agency)' = Exposure(agency) + more
<1> DEFINE c == calls[s]
           made == Len(rows) + 1
           more == IF agency = Agency(c) /\ c.credit THEN AgencyPrice(Line(c)) ELSE 0
<1>1. /\ Booked(c) \in Row /\ rows' \in Seq(Row) /\ rows \in Seq(Row)
      /\ DOMAIN rows' = DOMAIN rows \cup {made} /\ made \notin DOMAIN rows
      /\ \A i \in DOMAIN rows : rows'[i] = rows[i]
      /\ rows'[made] = Booked(c)
      /\ AgencyPrice(Line(c)) \in Nat
  BY CreateIs DEF Typed
<1>2. PICK p, q, n, x : /\ p = rows /\ q = rows' /\ n = made /\ x = Booked(c)
                        /\ p \in Seq(Row) /\ q \in Seq(Row)
  BY <1>1
<1>3. /\ DOMAIN q = DOMAIN p \cup {n} /\ n \notin DOMAIN p
      /\ \A i \in DOMAIN p : q[i] = p[i]
      /\ q[n] = x
  BY <1>1, <1>2
<1>4. /\ x.agency = Agency(c)
      /\ Owe(x) = IF c.credit THEN AgencyPrice(Line(c)) ELSE 0
  <2>1. /\ x.agency = Agency(c) /\ x.price = AgencyPrice(Line(c)) /\ x.credit = c.credit /\ x.owed = 0
        /\ x.state = IF c.credit THEN "CONFIRMED_ON_CREDIT" ELSE "AWAITING_PAYMENT"
    BY <1>2 DEF Booked
  <2> QED BY <2>1 DEF Owe, Unbilled
<1> DEFINE S == {i \in DOMAIN p : p[i].agency = agency}
           T == {i \in DOMAIN q : q[i].agency = agency}
           f == [i \in S |-> Owe(p[i])]
           g == [i \in T |-> Owe(q[i])]
<1>5. Summable(f) /\ Summable(g) BY <1>2, OweIsNat
<1>6. Owing(p, agency) = SumOf(f) /\ Owing(q, agency) = SumOf(g) BY DEF Owing
<1>7. SumOf(g) = SumOf(f) + more
  <2>1. CASE agency = Agency(c)
    <3>1. /\ n \notin DOMAIN f /\ DOMAIN g = DOMAIN f \cup {n} /\ \A i \in DOMAIN f : g[i] = f[i]
          /\ g[n] = more
      BY <1>3, <1>4, <2>1
    <3> HIDE DEF f, g, more
    <3>2. SumOf(g) = SumOf(f) + g[n] BY ONLY <1>5, <3>1, SumAdd
    <3> QED BY <3>1, <3>2
  <2>2. CASE agency # Agency(c)
    <3>1. S = T BY <1>3, <1>4, <2>2
    <3>2. f = g BY <1>3, <3>1
    <3>3. SumOf(f) \in Nat
      <4> HIDE DEF f
      <4> QED BY <1>5, SumType
    <3>4. more = 0 BY <2>2
    <3> HIDE DEF f, g, more
    <3> QED BY <3>2, <3>3, <3>4
  <2> QED BY <2>1, <2>2
<1>8. Exposure(agency) = Owing(p, agency) BY <1>2, ExposureIs
<1>9. Exposure(agency)' = Owing(q, agency) BY <1>1, <1>2, ExposureNext
<1> HIDE DEF f, g, more
<1> QED BY <1>6, <1>7, <1>8, <1>9 DEF more

\* A line is created on credit beyond what the gate saw only as blind.
LEMMA CreateLineMoney == ASSUME Typed, Money, NEW s \in Slots, CreateLine(s) PROVE Money'
<1>1. PICK c \in Call : c = calls[s] BY DEF Typed
<1>2. PICK made, after, price :
         made = Len(rows) + 1 /\ after = After(c, made) /\ price = AgencyPrice(Line(c))
  OBVIOUS
<1>3. /\ c.n \in DOMAIN c.lines /\ Line(c) = c.lines[c.n].line /\ price \in Nat
      /\ rows \in Seq(Row)
      /\ DOMAIN rows' = DOMAIN rows \cup {made} /\ made \notin DOMAIN rows
      /\ \A i \in DOMAIN rows : rows'[i] = rows[i]
      /\ rows'[made] = Booked(c)
      /\ calls'[s] = after
      /\ \A t \in Slots \ {s} : calls'[t] = Overtaken(calls, Line(c))[t]
  BY <1>1, <1>2, CreateIs DEF Typed
<1>4. c.at = "create" /\ home' = home BY <1>1 DEF CreateLine
<1>5. c.n \in Nat /\ c.n >= 1 /\ c.seen \in Nat BY <1>1 DEF Typed, CallFits, Call
<1>6. /\ after.agent = c.agent /\ after.lines = c.lines /\ after.n = c.n + 1 /\ after.credit = c.credit
      /\ after.at = "create" /\ (c.credit => after.seen = c.seen + price)
  BY <1>2, <1>4 DEF After, Call
<1>7. /\ Rest(c) \in Nat /\ Rest(after) \in Nat /\ Rest(c) = Rest(after) + price
  <2>1. PICK lines : lines = c.lines OBVIOUS
  <2>2. PICK n \in Nat, m \in Nat : n = c.n /\ n >= 1 /\ m = n + 1 /\ m >= 1 BY <1>5
  <2> DEFINE left(k) == SumOf([i \in k .. Len(lines) |-> AgencyPrice(lines[i].line)])
  <2>3. left(n) \in Nat /\ left(n) = left(n + 1) + AgencyPrice(lines[n].line)
    <3>1. lines = calls[s].lines /\ n \in DOMAIN lines BY <1>1, <1>3, <2>1, <2>2
    <3>2. n \in Nat /\ n >= 1 BY <2>2
    <3> QED BY ONLY <3>1, <3>2, Typed, s \in Slots, RestIs
  <2>4. left(m) \in Nat BY <1>1, <2>1, <2>2, RestIs
  <2>5. Rest(c) = left(n) /\ Rest(after) = left(m) BY <1>6, <2>1, <2>2 DEF Rest
  <2>6. AgencyPrice(lines[n].line) = price /\ m = n + 1 BY <1>2, <1>3, <2>1, <2>2
  <2> HIDE DEF left
  <2> QED BY <2>3, <2>4, <2>5, <2>6
<1>8. Limit[Agency(c)] \in Nat /\ Agency(c) \in Agencies
  <2>1. Agency(c) \in Agencies BY <1>1, <1>4, AgencyOfCall
  <2> QED BY <2>1, AdmissionAssumption
<1>9. c.credit => c.seen + Rest(c) =< Limit[Agency(c)] BY <1>1, <1>4 DEF Money, GateHolds
<1>10. GateHolds'
  <2>1. ASSUME NEW t \in Slots, calls'[t].at = "create", calls'[t].credit
        PROVE  calls'[t].seen + Rest(calls'[t]) =< Limit[home[calls'[t].agent]]
    <3>1. CASE t = s
      <4>1. c.credit BY <1>3, <1>6, <2>1, <3>1
      <4>2. after.seen + Rest(after) =< Limit[Agency(c)] BY <1>3, <1>5, <1>6, <1>7, <1>8, <1>9, <4>1
      <4> QED BY <1>3, <1>6, <3>1, <4>2 DEF Agency
    <3>2. CASE t # s
      <4>1. Marked(calls[t], calls'[t]) BY <1>3, <3>2, OvertakenMarks
      <4>2. /\ calls[t].at = "create" /\ calls[t].credit /\ calls'[t].seen = calls[t].seen
            /\ calls'[t].agent = calls[t].agent /\ calls'[t].n = calls[t].n /\ calls'[t].lines = calls[t].lines
        BY <2>1, <4>1 DEF Marked
      <4> QED BY <4>2 DEF Money, GateHolds, Agency, Rest
    <3> QED BY <3>1, <3>2
  <2> QED BY <1>4, <2>1 DEF GateHolds, Agency
<1>11. ExposureFits'
  <2>1. ASSUME NEW agency \in Agencies, Clear(agency)' PROVE Exposure(agency)' =< Limit[agency]
    <3>1. PICK old \in Nat : old = Exposure(agency) BY <1>3, ExposureIs
    <3>2. Clear(agency)
      <4>1. \A i \in DOMAIN rows : i \in DOMAIN rows' /\ rows'[i] = rows[i] BY <1>3
      <4> QED BY <2>1, <4>1 DEF Clear
    <3>3. old =< Limit[agency] BY <3>1, <3>2 DEF Money, ExposureFits
    <3>4. CASE agency = Agency(c) /\ c.credit
      <4>1. Exposure(agency)' = old + price BY <1>1, <1>2, <3>1, <3>4, CreateLineOwes
      <4>2. Booked(c).agency = agency BY <3>4 DEF Booked
      <4>3. ~Booked(c).blind
        <5>1. made \in DOMAIN rows' /\ rows'[made] = Booked(c) BY <1>3
        <5> QED BY <2>1, <4>2, <5>1 DEF Clear
      <4>4. ~(old > c.seen) BY <3>1, <3>4, <4>3 DEF Booked
      <4> QED BY <1>3, <1>5, <1>7, <1>8, <1>9, <3>4, <4>1, <4>4
    <3>5. CASE ~(agency = Agency(c) /\ c.credit)
      <4>1. Exposure(agency)' = old BY <1>1, <3>1, <3>5, CreateLineOwes
      <4> QED BY <3>3, <4>1
    <3> QED BY <3>4, <3>5
  <2> QED BY <2>1 DEF ExposureFits
<1> QED BY <1>10, <1>11 DEF Money

LEMMA MoneyStep == ASSUME Typed, Money, [Next]_vars PROVE Money'
<1>1. ASSUME NEW s \in Slots, Handle(s) PROVE Money'
  BY <1>1, CheckMoney, GateMoney, AnswersMoney, CreateLineMoney, LoseAnswerMoney DEF Handle
<1>2. CASE UNCHANGED vars
  <2>1. UNCHANGED <<home, rows, calls>> BY <1>2 DEF vars
  <2>2. GateHolds' BY <2>1, GateStays DEF Money
  <2> QED BY <2>1, <2>2, ExposureStays DEF Money
<1> QED BY <1>1, <1>2, ShopMoney, FollowMoney, AdministerMoney DEF Next

LEMMA MoneyAtFirst == ASSUME Init PROVE Money
<1>1. GateHolds BY IdleTyped DEF Init, GateHolds
<1>2. ASSUME NEW agency \in Agencies PROVE Exposure(agency) =< Limit[agency]
  <2>1. rows \in Seq(Row) /\ rows = << >> BY TypedAtFirst DEF Typed, Init
  <2>2. DOMAIN << >> = {} OBVIOUS
  <2>3. Owing(rows, agency) = 0
    <3>1. PICK f : f = [i \in {i \in DOMAIN rows : rows[i].agency = agency} |-> Owe(rows[i])] OBVIOUS
    <3>2. DOMAIN f = {} BY <2>1, <2>2, <3>1
    <3>3. SumOf(f) = 0 BY <3>2, SumEmpty
    <3> QED BY <3>1, <3>3 DEF Owing
  <2>4. Limit[agency] \in Nat BY AdmissionAssumption
  <2> QED BY <2>1, <2>3, <2>4, ExposureIs
<1> QED BY <1>1, <1>2 DEF Money, ExposureFits

\* An agency owes on credit no more than its limit, unless a line was created when
\* it was exposed to more than its gate had seen, or a cancelled booking was
\* committed and billed after all (evaluateCreditGate, createGroupBooking).
THEOREM CreditWithinLimitHolds == Spec => []CreditWithinLimit
<1>1. Init => Typed /\ Money BY TypedAtFirst, MoneyAtFirst
<1>2. Typed /\ Money /\ [Next]_vars => (Typed /\ Money)' BY TypedStep, MoneyStep
<1>3. ASSUME Typed, Money PROVE CreditWithinLimit
  <2>1. ASSUME NEW agency \in Agencies, Clear(agency) PROVE Outstanding(agency) =< Limit[agency]
    <3>1. rows \in Seq(Row) BY <1>3 DEF Typed
    <3>2. Exposure(agency) \in Nat /\ Outstanding(agency) =< Exposure(agency) /\ Outstanding(agency) \in Nat
      BY <3>1, ExposureIs, OutstandingIsNat
    <3>3. Exposure(agency) =< Limit[agency] BY <1>3, <2>1 DEF Money, ExposureFits
    <3>4. Limit[agency] \in Nat BY AdmissionAssumption
    <3> QED BY <3>2, <3>3, <3>4
  <2> QED BY <2>1 DEF CreditWithinLimit, Clear
<1> QED BY <1>1, <1>2, <1>3, PTL DEF Spec

-----------------------------------------------------------------------------
(* The rooms under a cap. *)

Caps == RoomHolds /\ CapIsKept

\* No row comes to hold a room.
Thinner ==
    \A j \in DOMAIN rows' : Counted(rows'[j]) /\ ~rows'[j].revived =>
        j \in DOMAIN rows /\ Counted(rows[j]) /\ ~rows[j].revived /\ rows'[j].line = rows[j].line

\* A row keeps what its admission says of it.
SameAdmission ==
    /\ DOMAIN rows' = DOMAIN rows
    /\ \A i \in DOMAIN rows : /\ rows'[i].allotted = rows[i].allotted /\ rows'[i].line = rows[i].line
                              /\ rows'[i].overtaken = rows[i].overtaken

LEMMA WrittenThins ==
    ASSUME Typed, rows' = rows \/ \E i \in DOMAIN rows : Written(i) PROVE Thinner /\ SameAdmission
<1>1. CASE rows' = rows BY <1>1 DEF Thinner, SameAdmission
<1>2. CASE \E i \in DOMAIN rows : Written(i)
  <2>1. PICK i \in DOMAIN rows : Written(i) BY <1>2
  <2>2. /\ DOMAIN rows' = DOMAIN rows /\ Follows(rows[i], rows'[i])
        /\ \A j \in DOMAIN rows \ {i} : rows'[j] = rows[j]
    BY <2>1, WrittenTyped
  <2>3. \A j \in DOMAIN rows : rows'[j] = rows[j] \/ Follows(rows[j], rows'[j]) BY <2>2
  <2> QED BY <2>2, <2>3 DEF Thinner, SameAdmission, Follows
<1> QED BY <1>1, <1>2

LEMMA TakenIs ==
    ASSUME rows \in Seq(Row), NEW l
    PROVE  Taken(l) \subseteq DOMAIN rows /\ IsFiniteSet(Taken(l)) /\ Cardinality(Taken(l)) \in Nat
<1>1. PICK n : n = Len(rows) OBVIOUS
<1>2. n \in Int /\ Taken(l) \in SUBSET (1 .. n) /\ DOMAIN rows = 1 .. n BY <1>1, RowsAre DEF Taken
<1> QED BY <1>2, PartsAreFinite

LEMMA TakenThins ==
    ASSUME rows \in Seq(Row), Thinner, NEW l
    PROVE  Cardinality(Taken(l)') =< Cardinality(Taken(l)) /\ Cardinality(Taken(l)') \in Nat
<1>1. Taken(l)' \subseteq Taken(l) BY DEF Taken, Thinner
<1>2. IsFiniteSet(Taken(l)) BY TakenIs
<1> QED BY <1>1, <1>2, FS_Subset, FS_CardinalityType

\* Line k of a cart and the lines from lo on before it that overlap it.
Pending(c, k, lo) == {m \in lo .. k - 1 : DatesOverlap(c.lines[m].line, c.lines[k].line)}

LEMMA PendingIs ==
    ASSUME NEW c, NEW k \in Int, NEW lo \in Int
    PROVE  IsFiniteSet(Pending(c, k, lo)) /\ Cardinality(Pending(c, k, lo)) \in Nat
<1>1. IsFiniteSet(lo .. k - 1) BY FS_Interval
<1>2. Pending(c, k, lo) \subseteq lo .. k - 1 BY DEF Pending
<1> QED BY <1>1, <1>2, FS_Subset, FS_CardinalityType

\* What fits goes on fitting, as long as no limit becomes stricter.
LEMMA FitsOn ==
    ASSUME Typed, Thinner, NEW c, NEW q, NEW k \in Int, NEW lo \in Int, Fits(c, k, lo),
           q.lines = c.lines, Agency(q)' = Agency(c),
           \A p \in policies' : Applies(p, c.lines[k].line) => p \in policies,
           NEW agency, agency = Agency(c), NEW l, l = c.lines[k].line,
           Allotted(agency, l)' = 0 => Allotted(agency, l) = 0
    PROVE  Fits(q, k, lo)'
<1>1. PICK before, after, pending :
         /\ before = Cardinality(Taken(l)) /\ after = Cardinality(Taken(l)')
         /\ pending = Cardinality({m \in lo .. k - 1 : DatesOverlap(c.lines[m].line, l)})
  OBVIOUS
<1>2. pending \in Nat BY <1>1, PendingIs DEF Pending
<1>3. before \in Nat /\ after \in Nat /\ after =< before
  <2>1. rows \in Seq(Row) BY DEF Typed
  <2> QED BY <1>1, <2>1, TakenIs, TakenThins
<1>4. ASSUME NEW p \in policies', p.kind = "CAP", Applies(p, l), Allotted(agency, l)' = 0
      PROVE  after + pending < p.cap
  <2>1. p \in policies /\ Allotted(agency, l) = 0 BY <1>4
  <2>2. before + pending < p.cap BY <1>1, <1>4, <2>1 DEF Fits
  <2>3. p.cap \in Nat BY <2>1 DEF Typed
  <2> QED BY <1>2, <1>3, <2>2, <2>3
<1>5. Allotted(Agency(q), q.lines[k].line)' = Allotted(agency, l)' BY DEF Allotted
<1> QED BY <1>1, <1>4, <1>5 DEF Fits

\* Where the line that call c has reached begins to count the lines before it.
From(c) == IF c.at = "create" THEN c.n ELSE 1

LEMMA CheckedIs ==
    ASSUME NEW c \in Call, NEW made, CallFits(c, made)
    PROVE  From(c) \in Nat /\ From(c) >= 1
           /\ \A k \in Checked(c) : k \in Nat /\ k >= 1 /\ k =< Len(c.lines) /\ k \in DOMAIN c.lines
<1>1. PICK q \in Seq(CartLine) : q = c.lines BY DEF Call
<1>2. Len(c.lines) \in Nat /\ DOMAIN c.lines = 1 .. Len(c.lines) BY <1>1, LenProperties
<1>3. c.n \in Nat /\ c.n >= 1 /\ (c.at \in {"avail", "check"} => c.n =< Len(c.lines)) BY DEF Call, CallFits
<1> QED BY <1>2, <1>3 DEF Checked, From

\* Every call that is not overtaken has checked what it had, and it goes on fitting.
LEMMA RoomStays ==
    ASSUME Typed, Thinner, RoomHolds, home' = home,
           \A t \in Slots : ~calls'[t].overtaken =>
              \/ Checked(calls'[t]) = {}
              \/ /\ ~calls[t].overtaken /\ calls'[t].lines = calls[t].lines /\ calls'[t].agent = calls[t].agent
                 /\ Checked(calls'[t]) \subseteq Checked(calls[t]) /\ From(calls'[t]) = From(calls[t])
                 /\ \A k \in DOMAIN calls[t].lines :
                       /\ \A p \in policies' : Applies(p, calls[t].lines[k].line) => p \in policies
                       /\ \A agency, l : agency = Agency(calls[t]) /\ l = calls[t].lines[k].line =>
                             (Allotted(agency, l)' = 0 => Allotted(agency, l) = 0)
    PROVE  RoomHolds'
<1>1. ASSUME NEW t \in Slots, NEW q, q = calls'[t], ~q.overtaken, NEW k \in Checked(q)
      PROVE  Fits(q, k, From(q))'
  <2>1. PICK c, lo, agency, l :
           c = calls[t] /\ lo = From(c) /\ agency = Agency(c) /\ l = c.lines[k].line
    OBVIOUS
  <2>2. /\ ~c.overtaken /\ q.lines = c.lines /\ q.agent = c.agent
        /\ k \in Checked(c) /\ From(q) = lo
    BY <1>1, <2>1
  <2>3. c \in Call /\ CallFits(c, Len(rows)) BY <2>1 DEF Typed
  <2>4. lo \in Int /\ k \in Int /\ k \in DOMAIN c.lines BY <2>1, <2>2, <2>3, CheckedIs
  <2>5. Fits(c, k, lo) BY <2>1, <2>2 DEF RoomHolds, From
  <2>6. Agency(q)' = Agency(c) BY <2>2 DEF Agency
  <2>7. /\ \A p \in policies' : Applies(p, c.lines[k].line) => p \in policies
        /\ Allotted(agency, l)' = 0 => Allotted(agency, l) = 0
    BY <1>1, <2>1, <2>4
  <2>8. Fits(q, k, lo)' BY <2>1, <2>2, <2>4, <2>5, <2>6, <2>7, FitsOn
  <2> QED BY <2>2, <2>8
<1>2. ASSUME NEW t \in Slots, NEW q, q = calls'[t], ~q.overtaken, NEW k \in Checked(q)
      PROVE  Fits(q, k, IF q.at = "create" THEN q.n ELSE 1)'
  BY <1>1, <1>2 DEF From
<1> QED BY <1>2 DEF RoomHolds, Fits, Agency

\* The nights that the bookings up to i hold are those of CapIsKept.
Holding(d, i) ==
    {j \in 1 .. i : /\ Counted(rows[j]) /\ ~rows[j].revived
                    /\ ~IsDayUse(rows[j].line) /\ d \in Held(rows[j].line)}

LEMMA CapStays ==
    ASSUME Typed, Thinner, SameAdmission, CapIsKept,
           \A p \in policies' : p \in policies \/ p.since = Len(rows)
    PROVE  CapIsKept'
<1>1. Len(rows) \in Nat /\ DOMAIN rows = 1 .. Len(rows) BY RowsAre DEF Typed
<1>2. ASSUME NEW p \in policies', p.kind = "CAP", NEW i \in DOMAIN rows',
             p.since < i, rows'[i].allotted = 0, ~rows'[i].overtaken, ~IsDayUse(rows'[i].line),
             NEW d \in Held(rows'[i].line) \cap (p.from .. p.to)
      PROVE  Cardinality(Holding(d, i)') =< p.cap
  <2>1. /\ i \in DOMAIN rows /\ rows[i].allotted = 0 /\ ~rows[i].overtaken
        /\ rows'[i].line = rows[i].line /\ i \in 1 .. Len(rows)
    BY <1>1, <1>2 DEF SameAdmission
  <2>2. p \in policies BY <1>1, <1>2, <2>1
  <2>3. Cardinality(Holding(d, i)) =< p.cap BY <1>2, <2>1, <2>2 DEF CapIsKept, Holding
  <2>4. PICK old, new : old = Holding(d, i) /\ new = Holding(d, i)' OBVIOUS
  <2>5. i \in Int /\ old \in SUBSET (1 .. i) BY <2>1, <2>4 DEF Holding
  <2>6. new \subseteq old
    <3>1. ASSUME NEW j \in new PROVE j \in old
      <4>1. /\ j \in 1 .. i /\ Counted(rows'[j]) /\ ~rows'[j].revived
            /\ ~IsDayUse(rows'[j].line) /\ d \in Held(rows'[j].line)
        BY <2>4, <3>1 DEF Holding
      <4>2. j \in DOMAIN rows' BY <1>1, <2>1, <4>1 DEF SameAdmission
      <4> QED BY <2>4, <4>1, <4>2 DEF Holding, Thinner
    <3> QED BY <3>1
  <2>7. Cardinality(new) =< Cardinality(old) /\ Cardinality(new) \in Nat /\ Cardinality(old) \in Nat
    BY ONLY <2>5, <2>6, FewerInPart, PartsAreFinite
  <2>8. p.cap \in Nat BY <2>2 DEF Typed
  <2> QED BY <2>3, <2>4, <2>7, <2>8
<1> QED BY <1>2 DEF CapIsKept, Holding

\* A line that is bookable fits.
LEMMA BookableFits ==
    ASSUME Typed, NEW s \in Slots, calls[s].at = "check", Bookable(calls[s])
    PROVE  Fits(calls[s], calls[s].n, 1)
<1>1. PICK c, l : c \in Call /\ c = calls[s] /\ l = Line(c) BY DEF Typed
<1>2. CallFits(c, Len(rows)) /\ rows \in Seq(Row) BY <1>1 DEF Typed
<1>3. c.n \in Nat /\ c.n >= 1 BY <1>2 DEF CallFits, Call
<1>4. ASSUME NEW p \in policies, p.kind = "CAP", Applies(p, l), Allotted(Agency(c), l) = 0
      PROVE  Cardinality(Taken(l)) + Cardinality(Pending(c, c.n, 1)) < p.cap
  <2>1. PICK caps, already, unheld, room, pending, taken :
           /\ caps = {q.cap : q \in {q \in policies : q.kind = "CAP" /\ Applies(q, l)}}
           /\ already = CountOverlapping(l, AllCounted)
           /\ unheld = Max({0, c.avail - CountOverlapping(l, Uncommitted)})
           /\ room = Max({0, Min(caps) - already})
           /\ pending = Cardinality(Pending(c, c.n, 1)) /\ taken = Cardinality(Taken(l))
    OBVIOUS
  <2>2. p.cap \in caps /\ caps \in SUBSET Nat BY <1>4, <2>1 DEF Typed
  <2>3. Min(caps) \in Nat /\ Min(caps) =< p.cap BY <2>2, LeastOfNats
  <2>4. /\ {i \in AllCounted : DatesOverlap(rows[i].line, l)} \subseteq DOMAIN rows
        /\ {i \in Uncommitted : DatesOverlap(rows[i].line, l)} \subseteq DOMAIN rows
        /\ Taken(l) \subseteq {i \in AllCounted : DatesOverlap(rows[i].line, l)}
    BY DEF AllCounted, Uncommitted, Taken
  <2>5. PICK n : n = Len(rows) OBVIOUS
  <2>6. n \in Int /\ DOMAIN rows = 1 .. n BY <1>2, <2>5, RowsAre
  <2>7. already \in Nat /\ taken \in Nat /\ taken =< already
    <3>1. PICK A, T : A = {i \in AllCounted : DatesOverlap(rows[i].line, l)} /\ T = Taken(l) OBVIOUS
    <3>2. A \in SUBSET (1 .. n) /\ T \in SUBSET A /\ T \in SUBSET (1 .. n) BY <2>4, <2>6, <3>1
    <3>3. Cardinality(A) \in Nat /\ Cardinality(T) \in Nat /\ Cardinality(T) =< Cardinality(A)
      BY ONLY <2>6, <3>2, PartsAreFinite, FewerInPart
    <3> QED BY <2>1, <3>1, <3>3 DEF CountOverlapping
  <2>8. unheld \in Int
    <3>1. PICK U : U = {i \in Uncommitted : DatesOverlap(rows[i].line, l)} OBVIOUS
    <3>2. U \in SUBSET (1 .. n) BY <2>4, <2>6, <3>1
    <3>3. Cardinality(U) \in Nat BY ONLY <2>6, <3>2, PartsAreFinite
    <3>4. PICK a : a = c.avail - CountOverlapping(l, Uncommitted) OBVIOUS
    <3>5. a \in Int /\ 0 \in Int BY <3>1, <3>3, <3>4 DEF CountOverlapping, Call
    <3>6. Max({0, a}) \in {0, a} BY <3>5, LargerOfTwo
    <3> QED BY <2>1, <3>4, <3>5, <3>6
  <2>9. room \in {0, Min(caps) - already} /\ room \in Int
    <3>1. PICK a : a = Min(caps) - already OBVIOUS
    <3>2. a \in Int /\ 0 \in Int BY <2>3, <2>7, <3>1
    <3>3. Max({0, a}) \in {0, a} BY <3>2, LargerOfTwo
    <3> QED BY <2>1, <3>1, <3>2, <3>3
  <2>10. RequestedCount(c) =< Min({unheld, room}) + 0
    <3>1. RequestedCount(c) =< Effective(Agency(c), l, c.avail) BY <1>1 DEF Bookable
    <3>2. Effective(Agency(c), l, c.avail) = (IF caps = {} THEN unheld ELSE Min({unheld, room})) + 0
      BY <1>4, <2>1 DEF Effective
    <3> QED BY <2>2, <3>1, <3>2
  <2>11. Min({unheld, room}) =< room /\ Min({unheld, room}) \in {unheld, room} BY <2>8, <2>9, LesserOfTwo
  <2>12. RequestedCount(c) = 1 + pending /\ pending \in Nat
    <3>1. pending \in Nat BY <1>3, <2>1, PendingIs
    <3> QED BY <1>1, <2>1, <3>1 DEF RequestedCount, Pending, Line
  <2>13. 1 + pending =< room BY <2>8, <2>9, <2>10, <2>11, <2>12
  <2>14. p.cap \in Nat BY <2>2
  <2> QED BY <2>1, <2>3, <2>7, <2>9, <2>12, <2>13, <2>14
<1> QED BY <1>1, <1>4 DEF Fits, Pending, Line

\* A handler that writes no limit, and only thins the rooms that are held.
LEMMA CapsStay ==
    ASSUME Typed, Caps, UNCHANGED <<home, policies, blocks>>,
           rows' = rows \/ \E i \in DOMAIN rows : Written(i),
           \A t \in Slots :
              \/ Checked(calls'[t]) = {}
              \/ /\ calls'[t].overtaken = calls[t].overtaken /\ calls'[t].lines = calls[t].lines
                 /\ calls'[t].agent = calls[t].agent
                 /\ Checked(calls'[t]) \subseteq Checked(calls[t]) /\ From(calls'[t]) = From(calls[t])
    PROVE  Caps'
<1>1. Thinner /\ SameAdmission BY WrittenThins
<1>2. \A agency, l : Allotted(agency, l)' = Allotted(agency, l) BY DEF Allotted
<1>3. RoomHolds' BY <1>1, <1>2, RoomStays DEF Caps
<1>4. CapIsKept' BY <1>1, CapStays DEF Caps
<1> QED BY <1>3, <1>4 DEF Caps

LEMMA ShopCaps == ASSUME Typed, Caps, NEW a \in Agents, Shop(a) PROVE Caps'
<1>1. UNCHANGED <<home, policies, blocks, rows>> BY DEF Shop, AddRoom, RemoveLine, Confirm
<1>2. CASE calls' = calls BY <1>1, <1>2, CapsStay
<1>3. CASE \E s \in Slots : Confirm(a, s)
  <2>1. PICK s \in Slots : Confirm(a, s) BY <1>3
  <2>2. calls'[s] = Begun(a) /\ \A t \in Slots \ {s} : calls'[t] = calls[t]
    BY <2>1 DEF Confirm, Begun, Typed
  <2>3. calls'[s].at = "avail" /\ calls'[s].n = 1 BY <2>1, <2>2, BegunIs DEF Confirm
  <2>4. Checked(calls'[s]) = {} BY <2>3 DEF Checked
  <2> QED BY <1>1, <2>2, <2>4, CapsStay
<1> QED BY <1>2, <1>3 DEF Shop, AddRoom, RemoveLine

LEMMA GetRoomTypeCaps ==
    ASSUME Typed, Caps, NEW s \in Slots, NEW d \in DOMAIN Stock, GetRoomType(s, d) PROVE Caps'
<1>1. PICK r \in Call : r = calls[s] BY DEF Typed
<1>2. calls'[s] = [r EXCEPT !.at = "check", !.avail = Free(d)] /\ r.at = "avail"
      /\ \A t \in Slots \ {s} : calls'[t] = calls[t]
  BY <1>1 DEF GetRoomType, Typed
<1>3. PICK q : q = [r EXCEPT !.at = "check", !.avail = Free(d)] OBVIOUS
<1>4. q.at = "check" /\ q.lines = r.lines /\ q.agent = r.agent /\ q.n = r.n /\ q.overtaken = r.overtaken
  BY <1>3 DEF Call
<1>5. Checked(q) = Checked(r) /\ From(q) = From(r) BY <1>2, <1>4 DEF Checked, From
<1>6. UNCHANGED <<home, policies, blocks, rows>> BY DEF GetRoomType
<1> QED BY <1>1, <1>2, <1>3, <1>4, <1>5, <1>6, CapsStay

LEMMA GateCaps == ASSUME Typed, Caps, NEW s \in Slots, EvaluateCreditGate(s) PROVE Caps'
<1>1. PICK r \in Call : r = calls[s] BY DEF Typed
<1>2. PICK g, o : calls' = [calls EXCEPT ![s] = [r EXCEPT !.at = "create", !.credit = g, !.seen = o]]
  BY <1>1 DEF EvaluateCreditGate
<1>3. PICK q : q = [r EXCEPT !.at = "create", !.credit = g, !.seen = o] OBVIOUS
<1>4. q.at = "create" /\ q.lines = r.lines /\ q.agent = r.agent /\ q.n = r.n /\ q.overtaken = r.overtaken
  BY <1>3 DEF Call
<1>5. r.at = "gate" /\ r.n = 1 /\ DOMAIN r.lines = 1 .. Len(r.lines)
  <2>1. r.at = "gate" BY <1>1 DEF EvaluateCreditGate
  <2>2. r.n = 1 BY <1>1, <2>1 DEF Typed, CallFits
  <2> QED BY <1>1, <2>1, <2>2, LinesOfCall
<1>6. Checked(q) = Checked(r) /\ From(q) = From(r) BY <1>4, <1>5 DEF Checked, From
<1>7. calls'[s] = q /\ \A t \in Slots \ {s} : calls'[t] = calls[t] BY <1>2, <1>3 DEF Typed
<1>8. UNCHANGED <<home, policies, blocks, rows>> BY DEF EvaluateCreditGate
<1> QED BY <1>1, <1>4, <1>6, <1>7, <1>8, CapsStay

LEMMA AnswersCaps == ASSUME Typed, Caps, NEW s \in Slots, Refuse(s) \/ Created(s) \/ Stop(s) PROVE Caps'
<1>1. calls' = [calls EXCEPT ![s] = Idle] /\ UNCHANGED <<home, policies, blocks>>
  BY DEF Refuse, Created, Stop, Answer
<1>2. calls'[s] = Idle /\ \A t \in Slots \ {s} : calls'[t] = calls[t] BY <1>1 DEF Typed
<1>3. Checked(Idle) = {} BY IdleTyped DEF Checked
<1>4. rows' = rows \/ \E i \in DOMAIN rows : Written(i)
  <2>1. CASE Stop(s) BY <2>1, StopWrites
  <2>2. CASE Refuse(s) \/ Created(s) BY <2>2 DEF Refuse, Created
  <2> QED BY <2>1, <2>2
<1> QED BY <1>1, <1>2, <1>3, <1>4, CapsStay

LEMMA LoseAnswerCaps == ASSUME Typed, Caps, NEW s \in Slots, LoseAnswer(s) PROVE Caps'
<1>1. PICK r \in Call : r = calls[s] BY DEF Typed
<1>2. PICK q : q = [r EXCEPT !.heard = FALSE] OBVIOUS
<1>3. calls'[s] = q /\ \A t \in Slots \ {s} : calls'[t] = calls[t]
  BY <1>1, <1>2 DEF LoseAnswer, Typed
<1>4. q.at = r.at /\ q.lines = r.lines /\ q.agent = r.agent /\ q.n = r.n /\ q.overtaken = r.overtaken
  BY <1>2 DEF Call
<1>5. Checked(q) = Checked(r) /\ From(q) = From(r) BY <1>4 DEF Checked, From
<1>6. UNCHANGED <<home, policies, blocks, rows>> BY DEF LoseAnswer
<1> QED BY <1>1, <1>3, <1>4, <1>5, <1>6, CapsStay

LEMMA FollowCaps == ASSUME Typed, Caps, NEW i \in DOMAIN rows, Follow(i) PROVE Caps'
<1>1. Written(i) /\ UNCHANGED <<home, policies, blocks, calls>> BY FollowWrites
<1> QED BY <1>1, CapsStay

\* A line that was checked is one more that fits.
LEMMA AssertBookableCaps == ASSUME Typed, Caps, NEW s \in Slots, AssertBookable(s) PROVE Caps'
<1>1. PICK c \in Call : c = calls[s] BY DEF Typed
<1>2. c.at = "check" /\ Bookable(c) /\ UNCHANGED <<home, policies, blocks, rows>>
  BY <1>1 DEF AssertBookable
<1>3. Len(c.lines) \in Nat /\ DOMAIN c.lines = 1 .. Len(c.lines) BY <1>1, LinesOfCall
<1>4. c.n \in 1 .. Len(c.lines) /\ c.n \in Nat
  <2>1. CallFits(c, Len(rows)) BY <1>1 DEF Typed
  <2> QED BY <1>2, <1>3, <2>1 DEF CallFits, Call
<1>5. PICK q : /\ calls' = [calls EXCEPT ![s] = q]
               /\ q.lines = c.lines /\ q.agent = c.agent /\ q.overtaken = c.overtaken
               /\ Checked(q) = 1 .. c.n /\ From(q) = 1
  <2>1. PICK p, g : /\ p = [c EXCEPT !.at = "avail", !.avail = 0, !.n = c.n + 1]
                    /\ g = [c EXCEPT !.at = "gate", !.avail = 0, !.n = 1]
    OBVIOUS
  <2>2. /\ p.at = "avail" /\ p.lines = c.lines /\ p.agent = c.agent /\ p.overtaken = c.overtaken /\ p.n = c.n + 1
        /\ g.at = "gate" /\ g.lines = c.lines /\ g.agent = c.agent /\ g.overtaken = c.overtaken
    BY <2>1 DEF Call
  <2>3. CASE c.n < Len(c.lines)
    <3>1. calls' = [calls EXCEPT ![s] = p] BY <1>1, <2>1, <2>3 DEF AssertBookable
    <3>2. Checked(p) = 1 .. c.n /\ From(p) = 1 BY <1>4, <2>2 DEF Checked, From
    <3> QED BY <2>2, <3>1, <3>2
  <2>4. CASE ~(c.n < Len(c.lines))
    <3>1. calls' = [calls EXCEPT ![s] = g] BY <1>1, <2>1, <2>4 DEF AssertBookable
    <3>2. Checked(g) = 1 .. c.n /\ From(g) = 1 BY <1>3, <1>4, <2>2, <2>4 DEF Checked, From
    <3> QED BY <2>2, <3>1, <3>2
  <2> QED BY <2>3, <2>4
<1>6. calls'[s] = q /\ \A t \in Slots \ {s} : calls'[t] = calls[t] BY <1>5 DEF Typed
<1>7. ASSUME ~c.overtaken, NEW k \in 1 .. c.n PROVE Fits(c, k, 1)
  <2>1. CASE k = c.n BY <1>1, <1>2, <2>1, BookableFits
  <2>2. CASE k # c.n
    <3>1. k \in Checked(c) BY <1>2, <1>4, <2>2 DEF Checked
    <3> QED BY <1>1, <1>2, <1>7, <3>1 DEF Caps, RoomHolds
  <2> QED BY <2>1, <2>2
<1>8. RoomHolds'
  <2>1. ASSUME NEW t \in Slots, NEW x, x = calls'[t], ~x.overtaken, NEW k \in Checked(x)
        PROVE  Fits(x, k, From(x))'
    <3>1. CASE t = s
      <4>1. x = q /\ From(x) = 1 /\ k \in 1 .. c.n /\ ~c.overtaken BY <1>5, <1>6, <2>1, <3>1
      <4>2. Fits(c, k, 1) BY <1>7, <4>1
      <4> QED BY <1>2, <1>5, <4>1, <4>2 DEF Fits, Taken, Allotted, Agency
    <3>2. CASE t # s
      <4>1. x = calls[t] BY <1>6, <2>1, <3>2
      <4>2. Fits(x, k, From(x)) BY <2>1, <4>1 DEF Caps, RoomHolds, From
      <4> QED BY <1>2, <4>2 DEF Fits, Taken, Allotted, Agency
    <3> QED BY <3>1, <3>2
  <2>2. ASSUME NEW t \in Slots, NEW x, x = calls'[t], ~x.overtaken, NEW k \in Checked(x)
        PROVE  Fits(x, k, IF x.at = "create" THEN x.n ELSE 1)'
    BY <2>1, <2>2 DEF From
  <2> QED BY <2>2 DEF RoomHolds, Fits, Agency
<1>9. CapIsKept' BY <1>2, WrittenThins, CapStays DEF Caps
<1> QED BY <1>8, <1>9 DEF Caps

\* A stricter rule overtakes the calls that it is about.
LEMMA AdministerCaps == ASSUME Typed, Caps, Administer PROVE Caps'
<1>1. UNCHANGED <<home, rows>> BY DEF Administer, CreatePolicy, DeletePolicy, CreateAllotment, DeleteAllotment
<1>2. Thinner /\ SameAdmission BY <1>1, WrittenThins
<1>3. \A p \in policies' : p \in policies \/ p.since = Len(rows)
  <2>1. \A p \in Policies : Since(p, Len(rows)).since = Len(rows) BY DEF Since
  <2> QED BY <2>1 DEF Administer, CreatePolicy, DeletePolicy, CreateAllotment, DeleteAllotment
<1>4. CapIsKept' BY <1>2, <1>3, CapStays DEF Caps
<1>5. ASSUME NEW c, NEW q, Marked(c, q)
      PROVE  Checked(q) = Checked(c) /\ From(q) = From(c) /\ q.lines = c.lines /\ q.agent = c.agent
  BY <1>5 DEF Marked, Checked, From
<1>6. CASE \E p \in Policies : CreatePolicy(p)
  <2>1. PICK p \in Policies : CreatePolicy(p) BY <1>6
  <2>2. /\ policies = {} /\ policies' = {Since(p, Len(rows))} /\ calls' = Stricter(p, Agencies)
        /\ blocks' = blocks
    BY <2>1 DEF CreatePolicy
  <2>3. \A agency, l : Allotted(agency, l)' = Allotted(agency, l) BY <2>2 DEF Allotted
  <2>4. ASSUME NEW t \in Slots, ~calls'[t].overtaken, Checked(calls'[t]) # {}
        PROVE  /\ ~calls[t].overtaken /\ Marked(calls[t], calls'[t])
               /\ \A k \in DOMAIN calls[t].lines : ~Applies(Since(p, Len(rows)), calls[t].lines[k].line)
    <3>1. Marked(calls[t], calls'[t]) BY <2>2, StricterMarks
    <3>2. calls[t].at # "idle" BY <1>5, <2>4, <3>1 DEF Checked
    <3>3. Agency(calls[t]) \in Agencies BY <3>2, AgencyOfCall
    <3>4. ~calls[t].overtaken /\ \A k \in DOMAIN calls[t].lines : ~Applies(p, calls[t].lines[k].line)
      BY <2>2, <2>4, <3>3, StricterMarks
    <3> QED BY <3>1, <3>4 DEF Applies, Since
  <2>5. RoomHolds' BY <1>1, <1>2, <1>5, <2>2, <2>3, <2>4, RoomStays DEF Caps
  <2> QED BY <1>4, <2>5 DEF Caps
<1>7. CASE \E p \in policies : DeletePolicy(p)
  <2>1. policies' \subseteq policies /\ UNCHANGED <<blocks, calls>> BY <1>7 DEF DeletePolicy
  <2>2. \A agency, l : Allotted(agency, l)' = Allotted(agency, l) BY <2>1 DEF Allotted
  <2>3. RoomHolds' BY <1>1, <1>2, <2>1, <2>2, RoomStays DEF Caps
  <2> QED BY <1>4, <2>3 DEF Caps
<1>8. CASE \E b \in Allotments : CreateAllotment(b)
  <2>1. blocks = {} /\ UNCHANGED <<policies, calls>> BY <1>8 DEF CreateAllotment
  <2>2. ASSUME NEW agency, NEW l PROVE Allotted(agency, l) = 0
    <3>1. PICK f : f = [b \in {b \in blocks : b.agency = agency /\ Applies(b, l)} |-> b.rooms] OBVIOUS
    <3>2. DOMAIN f = {} BY <2>1, <3>1
    <3>3. SumOf(f) = 0 BY <3>2, SumEmpty
    <3> QED BY <3>1, <3>3 DEF Allotted
  <2>3. RoomHolds' BY <1>1, <1>2, <2>1, <2>2, RoomStays DEF Caps
  <2> QED BY <1>4, <2>3 DEF Caps
<1>9. CASE \E b \in blocks : DeleteAllotment(b)
  <2>1. PICK b \in blocks : DeleteAllotment(b) BY <1>9
  <2>2. policies' = policies /\ blocks' = blocks \ {b} /\ calls' = Stricter(b, {b.agency})
    BY <2>1 DEF DeleteAllotment
  <2>3. ASSUME NEW t \in Slots, ~calls'[t].overtaken
        PROVE  /\ ~calls[t].overtaken /\ Marked(calls[t], calls'[t])
               /\ \A k \in DOMAIN calls[t].lines : \A agency, l :
                    agency = Agency(calls[t]) /\ l = calls[t].lines[k].line =>
                       Allotted(agency, l)' = Allotted(agency, l)
    <3>1. Marked(calls[t], calls'[t]) BY <2>2, StricterMarks
    <3>2. /\ ~calls[t].overtaken
          /\ \/ Agency(calls[t]) # b.agency
             \/ \A k \in DOMAIN calls[t].lines : ~Applies(b, calls[t].lines[k].line)
      BY <2>2, <2>3, StricterMarks
    <3>3. ASSUME NEW k \in DOMAIN calls[t].lines, NEW agency, NEW l,
                 agency = Agency(calls[t]), l = calls[t].lines[k].line
          PROVE  Allotted(agency, l)' = Allotted(agency, l)
      <4>1. {x \in blocks' : x.agency = agency /\ Applies(x, l)} = {x \in blocks : x.agency = agency /\ Applies(x, l)}
        BY <2>2, <3>2, <3>3
      <4> QED BY <4>1 DEF Allotted
    <3> QED BY <3>1, <3>2, <3>3
  <2>4. ASSUME NEW t \in Slots, ~calls'[t].overtaken
        PROVE  /\ ~calls[t].overtaken /\ calls'[t].lines = calls[t].lines /\ calls'[t].agent = calls[t].agent
               /\ Checked(calls'[t]) \subseteq Checked(calls[t]) /\ From(calls'[t]) = From(calls[t])
               /\ \A k \in DOMAIN calls[t].lines :
                     /\ \A p \in policies' : Applies(p, calls[t].lines[k].line) => p \in policies
                     /\ \A agency, l : agency = Agency(calls[t]) /\ l = calls[t].lines[k].line =>
                           (Allotted(agency, l)' = 0 => Allotted(agency, l) = 0)
    BY <1>5, <2>2, <2>3, <2>4
  <2>5. RoomHolds' BY <1>1, <1>2, <2>4, RoomStays DEF Caps
  <2> QED BY <1>4, <2>5 DEF Caps
<1> QED BY <1>6, <1>7, <1>8, <1>9 DEF Administer

LEMMA OverlapIsMutual ==
    ASSUME NEW l \in Lines, NEW m \in Lines
    PROVE  DatesOverlap(l, m) <=> DatesOverlap(m, l)
<1>1. l.from \in Nat /\ l.to \in Nat /\ m.from \in Nat /\ m.to \in Nat BY LinesAssumption
<1> QED BY <1>1 DEF DatesOverlap, Until

\* Two stays of some nights that hold one night overlap.
LEMMA SameNight ==
    ASSUME NEW l \in Lines, NEW m \in Lines, ~IsDayUse(l), ~IsDayUse(m), NEW d, d \in Held(l), d \in Held(m)
    PROVE  DatesOverlap(l, m)
<1>1. l.from \in Nat /\ l.to \in Nat /\ m.from \in Nat /\ m.to \in Nat BY LinesAssumption
<1> QED BY <1>1 DEF DatesOverlap, Held, Until

\* The rooms taken, with the one that a line created takes.
LEMMA CreateLineTakes ==
    ASSUME Typed, NEW s \in Slots, CreateLine(s), NEW l
    PROVE  LET made == Len(rows) + 1
           IN  /\ DatesOverlap(Line(calls[s]), l) => Taken(l)' \subseteq Taken(l) \cup {made}
               /\ ~DatesOverlap(Line(calls[s]), l) => Taken(l)' \subseteq Taken(l)
<1> DEFINE c == calls[s]
           made == Len(rows) + 1
<1>1. /\ DOMAIN rows' = DOMAIN rows \cup {made}
      /\ \A i \in DOMAIN rows : rows'[i] = rows[i]
      /\ rows'[made] = Booked(c)
  BY CreateIs
<1>2. Booked(c).line = Line(c) BY DEF Booked
<1>3. ASSUME NEW j \in Taken(l)'
      PROVE  j \in Taken(l) \/ (j = made /\ DatesOverlap(Line(c), l))
  <2>1. j \in DOMAIN rows' /\ Counted(rows'[j]) /\ ~rows'[j].revived /\ DatesOverlap(rows'[j].line, l)
    BY <1>3 DEF Taken
  <2>2. CASE j \in DOMAIN rows BY <1>1, <2>1, <2>2 DEF Taken
  <2>3. CASE j = made BY <1>1, <1>2, <2>1, <2>3
  <2> QED BY <1>1, <2>1, <2>2, <2>3
<1> QED BY <1>3

\* The new room was one of those that the later lines of its cart left for it.
LEMMA CreateLineFits ==
    ASSUME Typed, Caps, NEW s \in Slots, CreateLine(s), ~calls[s].overtaken,
           NEW after, after = After(calls[s], Len(rows) + 1), NEW k \in Checked(after)
    PROVE  Fits(after, k, after.n)'
<1>1. PICK c, made : c \in Call /\ c = calls[s] /\ made = Len(rows) + 1 BY DEF Typed
<1>2. /\ c.at = "create" /\ c.n =< Len(c.lines) /\ UNCHANGED <<home, policies, blocks>>
  BY <1>1 DEF CreateLine
<1>3. /\ c.n \in Nat /\ c.n >= 1 /\ Len(c.lines) \in Nat /\ DOMAIN c.lines = 1 .. Len(c.lines)
      /\ rows \in Seq(Row) /\ Line(c) = c.lines[c.n].line
  <2>1. CallFits(c, Len(rows)) /\ rows \in Seq(Row) BY <1>1 DEF Typed
  <2> QED BY <1>1, <2>1, LinesOfCall DEF CallFits, Call, Line
<1>4. after.at = "create" /\ after.lines = c.lines /\ after.n = c.n + 1 /\ after.agent = c.agent
  BY <1>1, <1>2 DEF After, Call
<1>5. k \in c.n + 1 .. Len(c.lines) BY <1>4 DEF Checked
<1>6. k \in Int /\ c.n \in Int /\ c.n + 1 \in Int /\ c.n < k /\ k \in Checked(c)
  BY <1>2, <1>3, <1>5 DEF Checked
<1>7. Fits(c, k, c.n) BY <1>1, <1>2, <1>6 DEF Caps, RoomHolds
<1>8. PICK l, agency : l = c.lines[k].line /\ agency = Agency(c) OBVIOUS
<1>9. PICK before, next, wait, left :
         /\ before = Taken(l) /\ next = Taken(l)'
         /\ wait = Pending(c, k, c.n) /\ left = Pending(c, k, c.n + 1)
  OBVIOUS
<1>10. /\ IsFiniteSet(before) /\ Cardinality(before) \in Nat
       /\ IsFiniteSet(wait) /\ Cardinality(wait) \in Nat
       /\ IsFiniteSet(left) /\ Cardinality(left) \in Nat
  <2>1. IsFiniteSet(before) /\ Cardinality(before) \in Nat BY <1>3, <1>9, TakenIs
  <2>2. IsFiniteSet(wait) /\ Cardinality(wait) \in Nat BY <1>6, <1>9, PendingIs
  <2>3. IsFiniteSet(left) /\ Cardinality(left) \in Nat BY <1>6, <1>9, PendingIs
  <2> QED BY <2>1, <2>2, <2>3
<1>11. Cardinality(next) \in Nat /\ Cardinality(next) + Cardinality(left) =< Cardinality(before) + Cardinality(wait)
  <2>1. left \subseteq wait BY <1>3, <1>9 DEF Pending
  <2>2. CASE DatesOverlap(Line(c), l)
    <3>1. next \subseteq before \cup {made} BY <1>1, <1>9, <2>2, CreateLineTakes
    <3>2. IsFiniteSet(before \cup {made}) /\ Cardinality(before \cup {made}) \in Nat
          /\ Cardinality(before \cup {made}) =< Cardinality(before) + 1
      <4>1. /\ IsFiniteSet(before \cup {made})
            /\ Cardinality(before \cup {made})
                 = IF made \in before THEN Cardinality(before) ELSE Cardinality(before) + 1
        BY ONLY <1>10, FS_AddElement
      <4> QED BY ONLY <1>10, <4>1
    <3>3. Cardinality(next) \in Nat /\ Cardinality(next) =< Cardinality(before) + 1
      <4>1. IsFiniteSet(next) /\ Cardinality(next) =< Cardinality(before \cup {made})
        BY ONLY <3>1, <3>2, FS_Subset
      <4>2. Cardinality(next) \in Nat BY ONLY <4>1, FS_CardinalityType
      <4> QED BY ONLY <1>10, <3>2, <4>1, <4>2
    <3>4. c.n \in wait /\ c.n \notin left BY <1>3, <1>6, <1>8, <1>9, <2>2 DEF Pending
    <3>5. Cardinality(left) < Cardinality(wait)
      <4>1. left # wait BY <3>4
      <4> QED BY ONLY <1>10, <2>1, <4>1, FS_Subset
    <3> QED BY ONLY <1>10, <3>3, <3>5
  <2>3. CASE ~DatesOverlap(Line(c), l)
    <3>1. next \subseteq before BY <1>1, <1>9, <2>3, CreateLineTakes
    <3>2. IsFiniteSet(next) /\ Cardinality(next) =< Cardinality(before) BY ONLY <1>10, <3>1, FS_Subset
    <3>3. Cardinality(next) \in Nat BY ONLY <3>2, FS_CardinalityType
    <3>4. Cardinality(left) =< Cardinality(wait) BY ONLY <1>10, <2>1, FS_Subset
    <3> QED BY ONLY <1>10, <3>2, <3>3, <3>4
  <2> QED BY <2>2, <2>3
<1>12. ASSUME NEW p \in policies, p.kind = "CAP", Applies(p, l), Allotted(agency, l) = 0
       PROVE  Cardinality(next) + Cardinality(left) < p.cap
  <2>1. Cardinality(before) + Cardinality(wait) < p.cap BY <1>7, <1>8, <1>9, <1>12 DEF Fits, Pending
  <2>2. p.cap \in Nat BY DEF Typed
  <2> QED BY <1>10, <1>11, <2>1, <2>2
<1>13. Allotted(agency, l)' = Allotted(agency, l) /\ Agency(after)' = agency
  BY <1>2, <1>4, <1>8 DEF Allotted, Agency
<1>14. ASSUME NEW p \in policies', p.kind = "CAP", Applies(p, after.lines[k].line),
              Allotted(Agency(after), after.lines[k].line)' = 0
       PROVE  Cardinality(Taken(after.lines[k].line)')
                + Cardinality({m \in after.n .. k - 1 : DatesOverlap(after.lines[m].line, after.lines[k].line)}) < p.cap
  <2>1. after.lines[k].line = l /\ after.lines = c.lines /\ after.n = c.n + 1 BY <1>4, <1>8
  <2>2. p \in policies /\ Applies(p, l) /\ Allotted(agency, l) = 0
    <3>1. Allotted(Agency(after), after.lines[k].line)' = Allotted(agency, l)'
      BY <1>13, <2>1 DEF Allotted
    <3> QED BY <1>2, <1>13, <1>14, <2>1, <3>1
  <2>3. Cardinality(next) + Cardinality(left) < p.cap BY <1>12, <1>14, <2>2
  <2> QED BY <1>9, <2>1, <2>3, <1>8 DEF Pending
<1> QED BY <1>14 DEF Fits

LEMMA CreateLineRoom == ASSUME Typed, Caps, NEW s \in Slots, CreateLine(s) PROVE RoomHolds'
<1>1. PICK c, made, after : c = calls[s] /\ made = Len(rows) + 1 /\ after = After(c, made) OBVIOUS
<1>2. /\ UNCHANGED <<home, policies, blocks>> /\ c.at = "create" /\ c \in Call
      /\ calls'[s] = after /\ Line(c) \in Lines
      /\ \A t \in Slots \ {s} : calls'[t] = Overtaken(calls, Line(c))[t]
  BY <1>1, CreateIs DEF CreateLine, Typed
<1>3. after.at = "create" /\ after.overtaken = c.overtaken BY <1>1, <1>2 DEF After, Call
<1>4. ASSUME NEW t \in Slots, NEW x, x = calls'[t], ~x.overtaken, NEW k \in Checked(x)
      PROVE  Fits(x, k, From(x))'
  <2>1. CASE t = s
    <3>1. x = after /\ From(x) = x.n BY <1>2, <1>3, <1>4, <2>1 DEF From
    <3>2. ~calls[s].overtaken BY <1>1, <1>3, <1>4, <3>1
    <3>3. Fits(after, k, after.n)' BY <1>1, <1>4, <3>1, <3>2, CreateLineFits
    <3> QED BY <3>1, <3>3
  <2>2. CASE t # s
    <3>1. PICK b \in Call : b = calls[t] BY DEF Typed
    <3>2. Marked(b, x) BY <1>2, <1>4, <2>2, <3>1, OvertakenMarks
    <3>3. /\ x.at = b.at /\ x.n = b.n /\ x.lines = b.lines /\ x.agent = b.agent
          /\ Checked(x) = Checked(b) /\ From(x) = From(b) /\ k \in Checked(b)
      BY <1>4, <3>2 DEF Marked, Checked, From
    <3>4. /\ ~b.overtaken
          /\ \/ b.at = "idle" \/ (b.at = "avail" /\ ~(b.n > 1))
             \/ \A i \in DOMAIN b.lines : ~DatesOverlap(b.lines[i].line, Line(c))
      BY <1>2, <1>4, <2>2, <3>1, OvertakenMarks
    <3>5. CallFits(b, Len(rows)) BY <3>1 DEF Typed
    <3>6. PICK lo : lo = From(b) OBVIOUS
    <3>7. lo \in Int /\ k \in Int /\ k \in DOMAIN b.lines BY <3>3, <3>5, <3>6, CheckedIs
    <3>8. ~(b.at = "idle" \/ (b.at = "avail" /\ ~(b.n > 1)))
      BY <3>3, <3>5 DEF Checked, CallFits, Call
    <3>9. ~DatesOverlap(Line(c), b.lines[k].line)
      <4>1. b.lines[k].line \in Lines BY <3>1, <3>7, LinesOfCall
      <4> QED BY <1>2, <3>4, <3>7, <3>8, <4>1, OverlapIsMutual
    <3>10. Fits(b, k, lo) BY <3>1, <3>3, <3>4, <3>6 DEF Caps, RoomHolds, From
    <3>11. PICK l, agency : l = b.lines[k].line /\ agency = Agency(b) OBVIOUS
    <3>12. PICK before, next, wait :
              /\ before = Taken(l) /\ next = Taken(l)'
              /\ wait = Cardinality({m \in lo .. k - 1 : DatesOverlap(b.lines[m].line, l)})
      OBVIOUS
    <3>13. Cardinality(next) =< Cardinality(before) /\ Cardinality(next) \in Nat /\ Cardinality(before) \in Nat
           /\ wait \in Nat
      <4>1. next \subseteq before BY <1>1, <3>9, <3>11, <3>12, CreateLineTakes
      <4>2. rows \in Seq(Row) BY DEF Typed
      <4>3. IsFiniteSet(before) /\ Cardinality(before) \in Nat BY <3>12, <4>2, TakenIs
      <4>4. IsFiniteSet(next) /\ Cardinality(next) =< Cardinality(before) BY ONLY <4>1, <4>3, FS_Subset
      <4>5. Cardinality(next) \in Nat BY ONLY <4>4, FS_CardinalityType
      <4>6. wait \in Nat BY <3>7, <3>11, <3>12, PendingIs DEF Pending
      <4> QED BY <4>3, <4>4, <4>5, <4>6
    <3>14. ASSUME NEW p \in policies', p.kind = "CAP", Applies(p, l), Allotted(agency, l) = 0
           PROVE  Cardinality(next) + wait < p.cap
      <4>1. p \in policies BY <1>2, <3>14
      <4>2. Cardinality(before) + wait < p.cap BY <3>10, <3>11, <3>12, <3>14, <4>1 DEF Fits
      <4>3. p.cap \in Nat BY <4>1 DEF Typed
      <4> QED BY <3>13, <4>2, <4>3
    <3>15. Agency(x)' = agency /\ x.lines = b.lines /\ x.lines[k].line = l /\ blocks' = blocks
      BY <1>2, <3>3, <3>11 DEF Agency
    <3>16. Allotted(Agency(x), x.lines[k].line)' = Allotted(agency, l) BY <3>15 DEF Allotted
    <3>17. Fits(x, k, lo)' BY <3>12, <3>14, <3>15, <3>16 DEF Fits
    <3> QED BY <3>3, <3>6, <3>17
  <2> QED BY <2>1, <2>2
<1>5. ASSUME NEW t \in Slots, NEW x, x = calls'[t], ~x.overtaken, NEW k \in Checked(x)
      PROVE  Fits(x, k, IF x.at = "create" THEN x.n ELSE 1)'
  BY <1>4, <1>5 DEF From
<1> QED BY <1>5 DEF RoomHolds, Fits, Agency

\* The line created takes the room that was kept for it.
LEMMA CreateLineCap == ASSUME Typed, Caps, NEW s \in Slots, CreateLine(s) PROVE CapIsKept'
<1>1. PICK c, made, l : c = calls[s] /\ made = Len(rows) + 1 /\ l = Line(c) OBVIOUS
<1>2. /\ rows \in Seq(Row) /\ DOMAIN rows' = DOMAIN rows \cup {made} /\ made \notin DOMAIN rows
      /\ \A i \in DOMAIN rows : rows'[i] = rows[i]
      /\ rows'[made] = Booked(c)
      /\ l = c.lines[c.n].line /\ l \in Lines /\ made \in Nat
  BY <1>1, CreateIs DEF Typed
<1>3. policies' = policies /\ c.at = "create" /\ c.n =< Len(c.lines) BY <1>1 DEF CreateLine
<1>4. c.n \in Nat /\ c.n >= 1 /\ Len(c.lines) \in Nat
  <2>1. c \in Call /\ CallFits(c, Len(rows)) BY <1>1 DEF Typed
  <2> QED BY <1>1, <2>1, LinesOfCall DEF CallFits, Call
<1>5. /\ Booked(c).line = l /\ Booked(c).overtaken = c.overtaken
      /\ Booked(c).allotted = Allotted(Agency(c), l)
  BY <1>1 DEF Booked
<1>6. Len(rows) \in Nat /\ DOMAIN rows = 1 .. Len(rows) BY <1>2, RowsAre
<1>7. ASSUME NEW p \in policies, p.kind = "CAP", NEW i \in DOMAIN rows',
             p.since < i, rows'[i].allotted = 0, ~rows'[i].overtaken, ~IsDayUse(rows'[i].line),
             NEW d \in Held(rows'[i].line) \cap (p.from .. p.to)
      PROVE  Cardinality(Holding(d, i)') =< p.cap
  <2>1. CASE i \in DOMAIN rows
    <3>1. Cardinality(Holding(d, i)) =< p.cap BY <1>2, <1>7, <2>1 DEF Caps, CapIsKept, Holding
    <3>2. \A j \in 1 .. i : rows'[j] = rows[j] BY <1>2, <1>6, <2>1
    <3>3. Holding(d, i)' = Holding(d, i) BY <3>2 DEF Holding
    <3> QED BY <3>1, <3>3
  <2>2. CASE i = made
    <3>1. ~IsDayUse(l) /\ ~c.overtaken /\ Allotted(Agency(c), l) = 0 /\ d \in Held(l) /\ d \in p.from .. p.to
      BY <1>2, <1>5, <1>7, <2>2
    <3>2. c.n \in Checked(c) BY <1>3, <1>4 DEF Checked
    <3>3. Fits(c, c.n, c.n) BY <1>1, <1>3, <3>1, <3>2 DEF Caps, RoomHolds
    <3>4. p.from \in Nat /\ p.to \in Nat /\ p.cap \in Nat BY DEF Typed
    <3>5. l.from \in Nat /\ l.to \in Nat BY <1>2, LinesAssumption
    <3>6. Applies(p, l) BY <3>1, <3>4, <3>5 DEF Applies, Held, Until
    <3>7. PICK taken, new, wait :
             /\ taken = Taken(l) /\ new = Holding(d, i)'
             /\ wait = Cardinality(Pending(c, c.n, c.n))
      OBVIOUS
    <3>8. Cardinality(taken) + wait < p.cap
      <4>1. /\ p.kind = "CAP" /\ Applies(p, c.lines[c.n].line)
            /\ Allotted(Agency(c), c.lines[c.n].line) = 0 /\ taken = Taken(c.lines[c.n].line)
        BY <1>2, <1>7, <3>1, <3>6, <3>7
      <4> QED BY <3>3, <3>7, <4>1 DEF Fits, Pending
    <3>9. wait \in Nat
      <4>1. c.n \in Int BY <1>4
      <4> QED BY <3>7, <4>1, PendingIs
    <3>10. IsFiniteSet(taken) /\ Cardinality(taken) \in Nat BY <1>2, <3>7, TakenIs
    <3>11. new \subseteq taken \cup {made}
      <4>1. ASSUME NEW j \in new, j # made PROVE j \in taken
        <5>1. /\ j \in 1 .. made /\ Counted(rows'[j]) /\ ~rows'[j].revived
              /\ ~IsDayUse(rows'[j].line) /\ d \in Held(rows'[j].line)
          BY <2>2, <3>7, <4>1 DEF Holding
        <5>2. j \in DOMAIN rows /\ rows'[j] = rows[j] BY <1>1, <1>2, <1>6, <4>1, <5>1
        <5>3. rows[j].line \in Lines
          <6>1. PICK r \in Row : r = rows[j] BY <1>2, <5>2, RowsAre
          <6> QED BY <6>1 DEF Row
        <5>4. DatesOverlap(rows[j].line, l) BY <1>2, <3>1, <5>1, <5>2, <5>3, SameNight
        <5> QED BY <3>7, <5>1, <5>2, <5>4 DEF Taken
      <4> QED BY <4>1
    <3>12. Cardinality(new) =< Cardinality(taken) + 1 /\ Cardinality(new) \in Nat
      <4>1. /\ IsFiniteSet(taken \cup {made})
            /\ Cardinality(taken \cup {made})
                 = IF made \in taken THEN Cardinality(taken) ELSE Cardinality(taken) + 1
        BY ONLY <3>10, FS_AddElement
      <4>2. IsFiniteSet(new) /\ Cardinality(new) =< Cardinality(taken \cup {made})
        BY ONLY <3>11, <4>1, FS_Subset
      <4>3. Cardinality(new) \in Nat BY ONLY <4>2, FS_CardinalityType
      <4> QED BY ONLY <3>10, <4>1, <4>2, <4>3
    <3> QED BY <3>4, <3>7, <3>8, <3>9, <3>10, <3>12
  <2> QED BY <1>2, <1>7, <2>1, <2>2
<1> QED BY <1>3, <1>7 DEF CapIsKept, Holding

LEMMA CapsStep == ASSUME Typed, Caps, [Next]_vars PROVE Caps'
<1>1. ASSUME NEW s \in Slots, Handle(s) PROVE Caps'
  <2>1. CASE CreateLine(s) BY <2>1, CreateLineRoom, CreateLineCap DEF Caps
  <2> QED BY <1>1, <2>1, GetRoomTypeCaps, AssertBookableCaps, AnswersCaps, GateCaps, LoseAnswerCaps DEF Handle
<1>2. CASE UNCHANGED vars
  <2>1. UNCHANGED <<home, policies, blocks, rows, calls>> BY <1>2 DEF vars
  <2> QED BY <2>1, CapsStay
<1> QED BY <1>1, <1>2, ShopCaps, FollowCaps, AdministerCaps DEF Next

LEMMA CapsAtFirst == ASSUME Init PROVE Caps
<1>1. \A s \in Slots : calls[s] = Idle BY DEF Init
<1>2. Checked(Idle) = {} BY IdleTyped DEF Checked
<1>3. RoomHolds BY <1>1, <1>2 DEF RoomHolds
<1>4. DOMAIN rows = {} BY DEF Init
<1>5. CapIsKept BY <1>4 DEF CapIsKept
<1> QED BY <1>3, <1>5 DEF Caps

\* A stay of some nights admitted under a cap, for an agency without an allotment,
\* leaves on each night of the cap no more such bookings than it allows, unless it
\* was overtaken while its cart was handled (assertBookable, createGroupBooking).
THEOREM CapIsKeptHolds == Spec => []CapIsKept
<1>1. Init => Typed /\ Caps BY TypedAtFirst, CapsAtFirst
<1>2. Typed /\ Caps /\ [Next]_vars => (Typed /\ Caps)' BY TypedStep, CapsStep
<1>3. Typed /\ Caps => CapIsKept BY DEF Caps
<1> QED BY <1>1, <1>2, <1>3, PTL DEF Spec
=============================================================================
