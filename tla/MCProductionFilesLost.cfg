\* A commit is reported as a failure: a ready file is deleted.
CONSTANTS
    Versions = {v1, v2}
    Workers = {w1}
    Keys = {k1, k2}
    None = none
    MaxGeneration = 3
    MaxEdits = 0
    MaxFaults = 1
    SlowWorkers = FALSE
    LostAnswers = TRUE
SPECIFICATION Spec
SYMMETRY Symmetry
CHECK_DEADLOCK FALSE
INVARIANTS ReadyIsServed
