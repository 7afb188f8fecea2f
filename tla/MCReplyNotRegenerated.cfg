CONSTANTS
    Saves = {s1}
    Files = {f1}
    Runs = {u1}
    Timers = {t1, t2, t3, t4}
    None = None
    Nothing = Nothing
    MaxResets = 2
    MaxFailures = 1
    MaxRestarts = 1
    Inputs = {i1, i2}
    MaxAttempts = 2
    MaxDrops = 1
    MaxOtherResets = 1
    MaxFaults = 1
    MaxPages = 2
    MaxLosses = 1
SPECIFICATION Spec
CHECK_DEADLOCK FALSE
INVARIANT ReplyNotRegenerated
