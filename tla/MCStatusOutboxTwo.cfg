\* Two backend processes, as during a rolling restart: what the leases protect.
CONSTANTS
    Orders = {o1}
    Statuses = {s1, s2}
    Processes = {p1, p2}
    None = none
    MaxChanges = 2
    BatchSize = 2
    MaxFaults = 1
    MaxEdits = 0
    LateWrites = TRUE
SPECIFICATION FairSpec
CHECK_DEADLOCK FALSE
INVARIANTS HeadOfLine
PROPERTIES RefinesDelivery NoBlindRewrite EveryRequestCloses
