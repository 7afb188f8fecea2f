CONSTANTS
    Ops = {o1, o2, o3}
    Commands = {c1, c2}
    Notes = {n1}
    MaxSaves = 0
    MaxActive = 2
    MaxSnapshots = 2
    MaxRestarts = 0
    NoChat = NoChat
    NoCommit = NoCommit
    NoRec = NoRec
    NoOp = NoOp
    Free = Free
    Persisting = Persisting
SPECIFICATION InputSpec
INVARIANTS
    RetryNotInOwnCascade
