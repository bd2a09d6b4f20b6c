SPECIFICATION Spec
CONSTANTS
    Pushers = {u1}
    Importers = {i1}
    Guarded = {}
    Readers = {r1, r2}
    Parts = {p1, p2}
    Overrun = FALSE
    NoWriter = NoWriter
    Attempts = 2
SYMMETRY LeaseSymmetry
INVARIANTS
    RevisionIdentifiesData
    WriterSeesItsBase
PROPERTIES
    WritesHoldLease
CHECK_DEADLOCK FALSE
