\* Two workers within their leases, two faults.
CONSTANTS
    Versions = {v1, v2}
    Workers = {w1, w2}
    Keys = {k1, k2, k3}
    None = none
    MaxGeneration = 3
    MaxEdits = 1
    MaxFaults = 2
    SlowWorkers = FALSE
    LostAnswers = FALSE
SPECIFICATION Spec
SYMMETRY Symmetry
CHECK_DEADLOCK FALSE
INVARIANTS ReadyIsServed
PROPERTIES KeepsContract
