SPECIFICATION LostRetrySpec
CONSTANTS
    App = {a1, a2}
    Complete = {a1, a2}
    Session = {s1}
    MaxBatch = 1
    MaxTask = 2
    MaxRestart = 0
INVARIANT CompletedReachedAll
CHECK_DEADLOCK FALSE
