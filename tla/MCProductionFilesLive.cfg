\* Two workers that may outlive their leases and lose the answers of their commits, an
\* edit and a fault; then it settles.
CONSTANTS
    Versions = {v1, v2}
    Workers = {w1, w2}
    Keys = {k1, k2}
    None = none
    MaxGeneration = 2
    MaxEdits = 1
    MaxFaults = 1
    SlowWorkers = TRUE
    LostAnswers = TRUE
SPECIFICATION LiveSpec
CHECK_DEADLOCK FALSE
INVARIANTS ReadyIsCurrent
PROPERTIES Settles
