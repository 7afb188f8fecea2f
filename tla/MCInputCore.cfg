CONSTANTS
    Ops = {o1, o2}
    Commands = {c1, c2}
    Notes = {}
    MaxSaves = 1
    MaxActive = 2
    MaxSnapshots = 2
    MaxRestarts = 1
    NoChat = NoChat
    NoCommit = NoCommit
    NoRec = NoRec
    NoOp = NoOp
    Free = Free
    Persisting = Persisting
SPECIFICATION InputSpec
SYMMETRY Symmetric
ACTION_CONSTRAINT PersistBeforeRestart
INVARIANTS
    InputTypeOK
    DurableBeforeShown
    OneTryPerCommand
    CommandOnce
    PaidOnce
    CancelWins
    UnpublishedFrozen
    SnapshotReleased
PROPERTIES
    TurnsInOrder
    OutcomeFinal
    TransformNotRepeated
