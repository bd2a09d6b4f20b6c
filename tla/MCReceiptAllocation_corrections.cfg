SPECIFICATION Spec
CONSTANTS
    ann = ann
    bob = bob
    smiths = smiths
    NoPayer = NoPayer
    Receipts = {1, 2}
    Targets = {1, 2, 3, 4}
    Students = {ann, bob}
    Families = {smiths}
    Owner <- OwnedByAll
    Cycles = {2, 3, 4}
    OpeningCycles = {3}
    AbsentPayer = {}
    Amounts = {1, 2}
    Dates = {1, 2}
    Prices = {1, 2}
    CyclePrice = 2
    MaxMutations = 4
    CrashOps = {"create", "update", "delete", "restore", "complete", "reopen", "configure"}
    MaxCrashes = 1
INVARIANTS
    NeverOverpaid
    ReallocationDeterministic
    NoCreditWhileOwing
    MoneyFollowsObligations
    StatusTellsTruth
    TutoringNeverRefused
CHECK_DEADLOCK FALSE
