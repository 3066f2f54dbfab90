SPECIFICATION Spec
CONSTANTS
    NumInvoices = 2
    Price = 2
    Requests = {r1, r2}
    MaxCash = 3
    MaxCalls = 3
    MaxDeaths = 1
SYMMETRY Symmetry
INVARIANTS TypeOK StatusReflectsPaid GatewayBooked OfflineBooked LedgersAgree OpenIsOwed ChargedBackOnce RefundIsNoted
PROPERTY OldestFirst
CHECK_DEADLOCK FALSE
