\* Two orders and two artists, two calls at once, a manager; one chat, and one
\* status, to be notified of.
CONSTANTS
    d1 = d1
    d2 = d2
    Orders = {o1, o2}
    Artists = {1, 2}
    Priority <- TwoDirections
    Calls = {c1, c2}
    Managers = {m1}
    None = none
    MaxChanges = 1
    MaxEdits = 1
    Chats = {h1}
    Statuses = {s1}
    People = {p1}
    MaxNotices = 2
    MaxReads = 1
    MaxSettings = 1
    MaxFaults = 1
SPECIFICATION MCSpec
SYMMETRY Symmetry
CHECK_DEADLOCK FALSE
INVARIANTS HolderIsInJournal NoMessageIsHushed
PROPERTIES FairTurns ManualStays
