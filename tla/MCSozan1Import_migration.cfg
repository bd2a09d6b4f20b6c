SPECIFICATION Spec
CONSTANTS
    Nobody = Nobody
    NoBalance = NoBalance
    Files <- MCFiles
    Amounts = {1}
    MaxRequests = 2
    MaxFailures = 1
    MaxEdits = 2
INVARIANTS
    ResumesAsOnce
    ToThePenny
    PackagesCarryOn
CHECK_DEADLOCK FALSE
