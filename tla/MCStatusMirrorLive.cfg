\* A change, an edit or a switch, a restart or a failed import; then it settles.
CONSTANTS
    Statuses = {start, ready, sketch}
    RevisionStart = start
    RevisionReady = ready
    Sketch = sketch
    Readers = {r1}
    None = none
    MaxChanges = 1
    MaxEdits = 1
    MaxFaults = 1
SPECIFICATION FairSpec
CHECK_DEADLOCK FALSE
INVARIANTS ReworkHasRevision
PROPERTIES Converges
