SPECIFICATION Spec
CONSTANTS
    NumInvoices = 2
    Price = 2
    Requests = {r1}
    MaxCash = 3
    MaxCalls = 3
    MaxDeaths = 0
INVARIANT CancelledOwesCharge
CHECK_DEADLOCK FALSE
