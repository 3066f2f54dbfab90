\* A charge left without a booking or a resolution by two requests that meet.
CONSTANTS
    Bookings = {b1}
    Callers = {c1, c2}
    Runs = {}
    None = None
    MaxAttempts = 2
    RetryBound = 3
    MaxCaptures = 2
    MaxDeaths = 0
SYMMETRY Symmetry
SPECIFICATION Spec
INVARIANT ChargeSurvivesRace
CHECK_DEADLOCK FALSE
