SPECIFICATION FairSpec
CONSTANTS
    Pushers = {u1}
    Importers = {}
    Guarded = {g1}
    Readers = {r1}
    Parts = {p1}
    Overrun = TRUE
    NoWriter = NoWriter
    Attempts = 2
INVARIANTS
    OneWriterPerBase
    WriteAdvancesRevision
PROPERTIES
    EveryRequestEnds
CHECK_DEADLOCK FALSE
