\* Two payments of one booking are one posting to the CRS.
CONSTANTS
    NumEvents = 2
    Postings = {"payment", "obligation"}
    PostingOf <- SharedPosting
    Flushers = {f1}
    Nothing = Nothing
    MaxAttempts = 2
    Limit = 2
    MaxDeaths = 0
SPECIFICATION Spec
INVARIANT EveryEventReceived
CHECK_DEADLOCK FALSE
