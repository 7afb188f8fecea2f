CONSTANTS
    Procs = {p1, p2}
    Files <- MCFiles
    Catalogs <- MCCatalogs
    HostTexts <- MCHostTexts
    Mine = "mine"
    BreakersOverlap = FALSE
    StatusLines = 2
    MaxCrashes = 1
    MaxFailures = 1
    MaxEdits = 1
    Absent = Absent
SPECIFICATION FairSpec
INVARIANTS
    InstallTypeOK
    LockExcludes
    RevertRestoresHost
    HostUnderUnits
    SelectionClosed
PROPERTIES
    ReadyOnlyWhole
    InstallsAtomically
    TransactionEnds
