SPECIFICATION Spec
CONSTANTS
    Calls = {c1}
    Checks <- OneCheck
    Results <- SomeResults
    Vetting = {"VERIFICATION", "REVIEW"}
    MaxRows = 1
    MaxStrays = 1
INVARIANT ActiveIsSigned
CHECK_DEADLOCK FALSE
