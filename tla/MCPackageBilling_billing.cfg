SPECIFICATION Spec
CONSTANTS
    s1 = s1
    s2 = s2
    w1 = w1
    w2 = w2
    l1 = l1
    l2 = l2
    Nobody = Nobody
    Students = {s1, s2}
    Lessons = {l1, l2}
    Workers = {w1, w2}
    Setups <- MCSetups
SYMMETRY WorkerSymmetry
INVARIANTS
    NeverOverfilled
    PlacesHaveNoGap
    StatusTellsProgress
    AttendanceIsCharged
    FamilyFollowsMembers
PROPERTIES
    LedgerSpec
