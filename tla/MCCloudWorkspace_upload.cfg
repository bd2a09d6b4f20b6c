SPECIFICATION Spec
CONSTANTS
    t1 = t1
    l1 = l1
    i1 = i1
    i2 = i2
    p1 = p1
    file = file
    other = other
    Nothing = Nothing
    Tabs = {t1, l1}
    Window <- OneWindow
    Imports = {i1, i2}
    Posts = {p1}
    File <- OneFile
    Foreign = {other}
    AtomicRows = 2
    MaxEdits = 1
    MaxFaults = 2
SYMMETRY CloudSymmetry
INVARIANTS JournalTellsTruth EditsSurvive
PROPERTIES ReadyMeansUploaded
