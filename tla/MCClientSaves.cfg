CONSTANTS
    Ops = {o1}
    Notes = {n1, n2}
    MaxSaves = 3
    MaxFaults = 2
    NoChat = NoChat
    Free = Free
    Persisting = Persisting
SPECIFICATION FairSaves
INVARIANTS
    SavesTypeOK
    QuietMeansSaved
    ViewKeepsEdits
PROPERTIES
    OnlyOwnEdits
    EditsArrive
