SPECIFICATION SteadyRacingSpec
CONSTANTS
    App = {a1}
    Complete = {a1}
    Session = {s1, s2}
    MaxBatch = 2
    MaxTask = 2
    MaxRestart = 0
PROPERTIES
    AnswersHold
    BatchesSettle
CHECK_DEADLOCK FALSE
