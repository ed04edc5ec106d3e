\* Two requests of users and one read of the synchronisation.
CONSTANTS
    Interactive = {i1, i2}
    Background = {b1}
    SyncReads = {b1}
    None = none
    Window = 3
    Timeout = 1
    Gap = 1
    MaxBusyDelay = 2
    MaxCountdown = 1
    MaxBusy = 2
    MaxSession = 2
    MaxRequeues = 1
    MaxSwitches = 1
SPECIFICATION FairSpec
CHECK_DEADLOCK FALSE
INVARIANTS  RepeatsOnlyAfterLoss PauseHoldsBack
PROPERTIES EveryRequestSettles
