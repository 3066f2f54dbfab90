\* Two payments of one booking, two overlapping flushes, one of which may stop.
CONSTANTS
    NumEvents = 2
    Postings = {"payment", "obligation"}
    PostingOf <- SharedPosting
    Flushers = {f1, f2}
    Nothing = Nothing
    MaxAttempts = 2
    Limit = 2
    MaxDeaths = 1
SPECIFICATION FairSpec
INVARIANTS TypeOK SentIsPosted ParkedIsUndelivered
PROPERTIES SentStays ImplementsDelivery EventsSettle
CHECK_DEADLOCK FALSE
