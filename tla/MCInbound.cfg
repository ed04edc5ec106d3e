\* Two import loops hold answers about the order while two changes are made; two requests
\* of administrators, two orders and two phases of the schedule.
CONSTANTS
    Statuses = {start, ready, sketch}
    RevisionStart = start
    RevisionReady = ready
    Sketch = sketch
    Readers = {r1, r2}
    None = none
    MaxChanges = 2
    MaxEdits = 0
    MaxFaults = 0
    Orders = {o1, o2}
    BatchSize = 1
    NoOrder = none
    MaxPhases = 2
    MaxSwitches = 2
    MaxAsks = 2
    MaxLosses = 1
SPECIFICATION MCSpec
SYMMETRY Symmetry
CHECK_DEADLOCK FALSE
INVARIANTS CardShowsLastRequest SwitchIsSaved
PROPERTIES  RevisionsTakeTurns
