\* One flush at a time, none of which stops: a parked event is never listed again.
CONSTANTS
    NumEvents = 2
    Postings = {"payment", "obligation"}
    PostingOf <- SharedPosting
    Flushers = {f1}
    Nothing = Nothing
    MaxAttempts = 2
    Limit = 2
    MaxDeaths = 0
SPECIFICATION FairSpec
PROPERTY FailedIsRetried
CHECK_DEADLOCK FALSE
