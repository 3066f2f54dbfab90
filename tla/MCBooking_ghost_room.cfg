\* A room stays held at the resort for a cancelled booking.
CONSTANTS
    Bookings = {b1}
    Callers = {c1}
    Runs = {}
    None = None
    MaxAttempts = 2
    RetryBound = 3
    MaxCaptures = 2
    MaxDeaths = 0
SPECIFICATION Spec
INVARIANT CancelledHoldsNoRoom
CHECK_DEADLOCK FALSE
