\* The documented deployment: one backend process.
CONSTANTS
    Orders = {o1, o2}
    Statuses = {s1, s2}
    Processes = {p1}
    None = none
    MaxChanges = 3
    BatchSize = 2
    MaxFaults = 1
    MaxEdits = 1
    LateWrites = FALSE
SPECIFICATION Spec
SYMMETRY Symmetry
CHECK_DEADLOCK FALSE
INVARIANTS LastRequestStands
PROPERTIES WritesInOrder
