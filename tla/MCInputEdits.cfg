CONSTANTS
    Ops = {o1, o2}
    Commands = {c1, c2}
    Notes = {n1}
    MaxSaves = 2
    MaxActive = 2
    MaxSnapshots = 2
    MaxRestarts = 0
    NoChat = NoChat
    NoCommit = NoCommit
    NoRec = NoRec
    NoOp = NoOp
    Free = Free
    Persisting = Persisting
SPECIFICATION InputSpec
SYMMETRY Symmetric
ACTION_CONSTRAINT PersistBeforeRestart
INVARIANTS
    ConcurrentEditsServed
    AnswersServed
    ConversationOrder

