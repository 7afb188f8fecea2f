CONSTANTS
    Procs = {p1, p2}
    Files <- MCFiles
    Catalogs <- MCCatalogs
    HostTexts <- MCHostTexts
    Mine = "mine"
    BreakersOverlap = TRUE
    StatusLines = 2
    MaxCrashes = 1
    MaxFailures = 0
    MaxEdits = 0
    Absent = Absent
SPECIFICATION Spec
INVARIANT LockExcludes
