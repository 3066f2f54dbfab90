SPECIFICATION Spec
CONSTANTS
    Slots = {s1, s2}
    Agents = {a1, a2}
    Agencies = {"A", "B"}
    Homes <- MCHomes
    Limit <- MCLimit
    Lines <- MCLines
    Stock <- MCStock
    Policies <- MCPolicies
    Allotments <- MCAllotments
    Nobody = Nobody
    MaxKeys = 2
    MaxRows = 2
    MaxUpsets = 1
    Today = 0
    MaxAdvance = 30
    MaxStay = 3
    Room <- MCRoom
    Rate <- MCRate
    DayUse <- MCDayUse
    Restriction <- MCRestriction
    MarkupPct = 1000
    Slabs <- MCSlabs
    Bands <- MCBands
SYMMETRY MCSymmetry
INVARIANTS AdmissionTypeOK CapIsKept CreditWithinLimit BookedOnce
CHECK_DEADLOCK FALSE
