CONSTANTS
    Ops = {o1}
    Commands = {c1}
    Notes = {n1}
    MaxSaves = 1
    MaxActive = 2
    MaxSnapshots = 2
    MaxRestarts = 1
    NoChat = NoChat
    NoCommit = NoCommit
    NoRec = NoRec
    NoOp = NoOp
    Free = Free
    Persisting = Persisting
SPECIFICATION InputSpec
INVARIANTS
    RestartKeepsAnswers
