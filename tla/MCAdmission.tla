----------------------------- MODULE MCAdmission -----------------------------
(***************************************************************************)
(* A small instance of Admission for TLC.  Amounts are small, as a sum is  *)
(* counted unit by unit.                                                   *)
(***************************************************************************)
EXTENDS Admission

\* Nothing tells two slots apart, nor two agents: Homes is symmetric too.
MCSymmetry == Permutations(Slots) \cup Permutations(Agents)

\* The agents of one agency, or one of each.
MCHomes == {h \in [Agents -> Agencies] : \E a \in Agents : h[a] = "A"}

\* A has credit for one of the longer stays, or two of the shorter.
MCLimit == [A |-> 24, B |-> 0]

Stay(type, from, to) ==
    [type |-> type, from |-> from, to |-> to, plan |-> "EP",
     adults |-> 2, children |-> 0, ages |-> << >>, beds |-> 0]

MCStock == [d \in 1 .. 2 |-> d]

MCLines == {Stay("OVERNIGHT", 1, 3), Stay("OVERNIGHT", 2, 3), Stay("DAY_USE", 2, 2)}

MCPolicies == {[kind |-> "CAP", cap |-> 1, from |-> 2, to |-> 2],
               [kind |-> "STOP_SELL", cap |-> 0, from |-> 1, to |-> 1]}
MCAllotments == {[agency |-> "A", rooms |-> 1, from |-> 2, to |-> 2]}

MCRoom == [baseOccupancy |-> 2, maxAdults |-> 3, maxChildren |-> 2, maxOccupancy |-> 4,
           extraAdultCharge |-> 3, childCharge |-> 2, extraBedCharge |-> 2,
           bands |-> << [ages |-> 0 .. 5, charge |-> 0], [ages |-> 6 .. 11, charge |-> 1] >>]
MCRate == [EP |-> [d \in 1 .. 4 |-> 10]]
MCDayUse == [rate |-> 6, available |-> TRUE]
MCRestriction == [stopSell |-> FALSE, closedToArrival |-> {4}, closedToDeparture |-> {4},
                  minNights |-> 1]
MCSlabs == << [open |-> FALSE, upTo |-> 10, rate |-> 0],
              [open |-> FALSE, upTo |-> 75, rate |-> 12],
              [open |-> TRUE, upTo |-> 0, rate |-> 18] >>
MCBands == << [minDays |-> 7, chargePct |-> 0], [minDays |-> 3, chargePct |-> 25],
              [minDays |-> 1, chargePct |-> 50], [minDays |-> 0, chargePct |-> 100] >>
=============================================================================
