\* An order of BlueSales is created again under its number, with a cron and the refresh
\* loop; two orders in batches of one; one account with two settings.
CONSTANTS
    Crons = {c1}
    Askers = {a}
    Artists = {a1}
    MaxId = 2
    None = none
    MaxEdits = 1
    MaxFaults = 1
    Orders = {o1, o2}
    BatchSize = 1
    MaxPhases = 2
    MaxSwitches = 2
    MaxAsks = 2
    Accounts = {a}
    Nobody = nobody
    MaxChanges = 2
    MaxVisits = 3
    MaxLosses = 1
SPECIFICATION MCSpec
CHECK_DEADLOCK FALSE
PROPERTIES LinkSettles EveryOrderComesRound ManualRefreshIsServed SettingsAgree
