\* A store whose creation may be interrupted.
SPECIFICATION BackupSpec

CONSTANTS
    Procs = {p1, p2}
    NoOwner = NoOwner
    Data = {d1, d2}
    NoData = NoData
    MaxRecords = 1
    MaxBatches = 2
    DirectoryPreexists = TRUE
    ParentNamed = TRUE
    p1 = p1
    p2 = p2
    d1 = d1
    d2 = d2

SYMMETRY Symmetry

CONSTRAINT CopyLeftAlone

INVARIANTS
    RestartRecovers
