SPECIFICATION Spec
CONSTANTS
    Calls = {c1, c2}
    Checks <- TwoChecks
    Results <- SomeResults
    Vetting = {"VERIFICATION", "REVIEW"}
    MaxRows = 3
    MaxStrays = 1
SYMMETRY Symmetry
INVARIANTS TypeOK NoStageSkipped AgencyFollows ResultsActedOn SignedIsActivated
PROPERTY ImplementsLifecycle
CHECK_DEADLOCK FALSE
