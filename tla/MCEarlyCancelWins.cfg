CONSTANTS
    Ops = {o1}
    Commands = {c1}
    Notes = {n1}
    MaxSaves = 0
    MaxActive = 2
    MaxSnapshots = 2
    MaxRestarts = 0
    NoChat = NoChat
    NoCommit = NoCommit
    NoRec = NoRec
    NoOp = NoOp
    Free = Free
    Persisting = Persisting
SPECIFICATION InputSpec
INVARIANTS
    EarlyCancelWins
