\* One order with a file and two changes and a fault, or three changes; a file of two
\* orders and a change; an order with two files, in batches of one. Two keys, each handed
\* over up to twice while its row exists. Two uploads, two dispatchers, a preview in the
\* background and somebody who cannot wait, for two slots.
CONSTANTS
    NumOrders = 2
    f1 = f1
    Keys = {f1, f2}
    Running = {"cleanup", "completion"}
    PageSize = 1
    Enabled = TRUE
    Delay = 1
    MaxChanges = 3
    MaxFaults = 1
    Objects = {k1, k2}
    MaxGeneration = 3
    Uploads = {u1, u2}
    Backfills = {b1}
    Dispatchers = {d1, d2}
    Urgent = {x1}
    Total = 2
    PreviewLimit = 1
    ProductionLimit = 2
SPECIFICATION MCSpec
CHECK_DEADLOCK FALSE
INVARIANTS NoOrphan ServedStays SharedOriginalsStay SlotsAreCounted
PROPERTIES HandedOverIsGone ManagerDecides CleanupCompletes
