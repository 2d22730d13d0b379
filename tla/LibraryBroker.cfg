CONSTANTS
    Library = {l1, l2, l3}
    Handler = {h1}
    Disturb = {"load", "reload", "message"}
    MaxOpens = 3
    Absent = Absent
    Failed = Failed
SPECIFICATION Spec
SYMMETRY Symmetry
INVARIANTS LoadedIsOpen OneDatabaseEach GuiDatabaseIsOpen
PROPERTY PruningSparesRecent
CHECK_DEADLOCK FALSE
