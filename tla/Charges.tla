------------------------------- MODULE Charges -------------------------------
(***************************************************************************)
(* What a stay costs, what tax its invoice carries, and what its           *)
(* cancellation charges: the pure functions of pricing.service.ts,         *)
(* dates.ts, gst.ts and cancellation.ts.                                   *)
(*                                                                         *)
(* Amounts are whole paise and days are numbered, so the rounding to two   *)
(* places is exact; the errors of binary fractions are not modelled.       *)
(***************************************************************************)
EXTENDS Integers, Sequences, FiniteSetsExt, Sums

CONSTANTS
    Today,        \* the current day
    MaxAdvance,   \* setting bookingWindowDays
    MaxStay,      \* env.BOOKING_MAX_STAY_NIGHTS
    Room,         \* AxisRooms: the room type's occupancy and its charges
    Rate,         \* AxisRooms: net rate of each plan in each night
    DayUse,       \* AxisRooms: the day-use rate, and whether it is offered
    Restriction,  \* AxisRooms: closed days and minimum stay
    MarkupPct,    \* the agency's markup, in hundredths of a percent
    Slabs,        \* GST rates by value per night, the lowest first
    Bands         \* cancellation charges by days before arrival, the earliest first

ASSUME ChargesAssumption ==
    /\ Today \in Nat /\ MarkupPct \in Nat
    /\ Room.baseOccupancy \in Nat /\ Room.extraAdultCharge \in Nat
    /\ Room.childCharge \in Nat /\ Room.extraBedCharge \in Nat
    /\ DOMAIN Room.bands \subseteq Nat /\ \A i \in DOMAIN Room.bands : Room.bands[i].charge \in Nat
    /\ DayUse.rate \in Nat
    /\ \A plan \in DOMAIN Rate : \A d \in DOMAIN Rate[plan] : Rate[plan][d] \in Nat
    /\ DOMAIN Slabs \subseteq Nat /\ DOMAIN Bands \subseteq Nat
    /\ \A i \in DOMAIN Slabs : Slabs[i].rate \in Nat
    /\ \A i \in DOMAIN Bands : Bands[i].minDays \in Nat /\ Bands[i].chargePct \in 0 .. 100

\* Math.round of a / b, for an amount a that is not negative.
RoundDiv(a, b) == (2 * a + b) \div (2 * b)

Percent(a, pct) == RoundDiv(a * pct, 100)

-----------------------------------------------------------------------------
(* A line of a cart: type, from, to, plan, adults, children, ages, beds.   *)

IsDayUse(l) == l.type = "DAY_USE"

\* A day-use stay ends on the day it begins, whatever its caller says.
Until(l) == IF IsDayUse(l) THEN l.from ELSE l.to

Nights(l) == Until(l) - l.from

ValidStayDates(l) ==
    /\ l.from \in Today .. Today + MaxAdvance
    /\ IsDayUse(l) \/ Nights(l) \in 1 .. MaxStay

\* Ages, when they are given, define the children.
Children(l) == IF l.ages # << >> THEN Len(l.ages) ELSE l.children

\* The first band that has the age; a child outside all bands is free.
ChildCharge(age) ==
    LET matching == {i \in DOMAIN Room.bands : age \in Room.bands[i].ages}
    IN  IF Room.bands = << >> THEN Room.childCharge
        ELSE IF matching = {} THEN 0
        ELSE Room.bands[Min(matching)].charge

ValidOccupancy(l) ==
    /\ l.adults \in 1 .. Room.maxAdults
    /\ Children(l) \in 0 .. Room.maxChildren
    /\ \A i \in DOMAIN l.ages : l.ages[i] \in 0 .. 17
    /\ l.beds >= 0
    /\ l.adults + Children(l) + l.beds =< Room.maxOccupancy

\* Per night, or once for a day-use stay.
Extras(l) ==
    Max({0, l.adults - Room.baseOccupancy}) * Room.extraAdultCharge
    + (IF l.ages # << >> THEN SumOf([i \in DOMAIN l.ages |-> ChildCharge(l.ages[i])])
       ELSE l.children * Room.childCharge)
    + l.beds * Room.extraBedCharge

Allowed(l) ==
    /\ ~Restriction.stopSell
    /\ l.from \notin Restriction.closedToArrival
    /\ IsDayUse(l) \/ /\ Until(l) \notin Restriction.closedToDeparture
                      /\ Nights(l) >= Restriction.minNights

RoomCharge(l) ==
    IF IsDayUse(l) THEN DayUse.rate + Extras(l)
    ELSE SumOf([d \in l.from .. Until(l) - 1 |-> Rate[l.plan][d]]) + Extras(l) * Nights(l)

\* The markup is applied once, to the total.
MarkedUp(charge) == RoundDiv(charge * (10000 + MarkupPct), 10000)

AgencyPrice(l) == MarkedUp(RoomCharge(l))

\* The line passes the checks that do not concern other bookings.
Priced(l) ==
    /\ ValidStayDates(l)
    /\ Allowed(l)
    /\ ValidOccupancy(l)
    /\ IsDayUse(l) => DayUse.available

-----------------------------------------------------------------------------
(* Tax and cancellation. *)

\* The last slab is open: it has no upTo.
SlabFor(perNight) ==
    LET fitting == {i \in DOMAIN Slabs : Slabs[i].open \/ perNight =< Slabs[i].upTo}
    IN  IF fitting = {} THEN 18 ELSE Slabs[Min(fitting)].rate

\* Within a state the tax is halved; the second half is what the first left.
Taxed(value, rate, intra) ==
    LET tax == Percent(value, rate)
        half == RoundDiv(tax, 2)
    IN  [rate |-> rate,
         cgst |-> IF intra THEN half ELSE 0,
         sgst |-> IF intra THEN tax - half ELSE 0,
         igst |-> IF intra THEN 0 ELSE tax,
         total |-> value + tax]

ComputeGst(value, nights, intra) ==
    Taxed(value, SlabFor(IF nights > 0 THEN RoundDiv(value, nights) ELSE value), intra)

\* At the rate of the invoice; its place of supply is read off its IGST.
CreditNoteGst(invoice, reduction) == Taxed(reduction, invoice.rate, ~(invoice.igst > 0))

\* An arrival in the past counts as today.
BandFor(days) ==
    LET reached == {i \in DOMAIN Bands : Max({0, days}) >= Bands[i].minDays}
    IN  IF reached = {} THEN 100 ELSE Bands[Min(reached)].chargePct

ComputeCancellation(price, days) ==
    LET charge == Percent(price, BandFor(days))
    IN  [charge |-> charge, refund |-> price - charge]
=============================================================================
