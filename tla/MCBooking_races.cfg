\* One booking and two requests at once, agents or admins; one of them may also
\* be a run of the rebook queue.
CONSTANTS
    Bookings = {b1}
    Callers = {c1, c2}
    Runs = {c2}
    None = None
    MaxAttempts = 2
    RetryBound = 3
    MaxCaptures = 2
    MaxDeaths = 1
SPECIFICATION FairSpec
INVARIANTS TypeOK PayFirst BillOnlyLanded NoLostCharge CommittedIsBacked
PROPERTIES TerminalIsFinal RebookSettles
CHECK_DEADLOCK FALSE
