\* Two orders in two columns, a page of one, one search; an order with three messages
\* in pages of one, or none and two edits; two requests and an import on one card; a chat
\* of two or three messages read page by page.
CONSTANTS
    Orders = {1, 2}
    Columns <- MCColumns
    Selected = {"s1", "s2"}
    NoStatus = "no"
    Filters = {"all", "q"}
    Searches = {"q"}
    Matches <- MCMatches
    PageSize = 1
    Nothing = nothing
    MaxMoves = 1
    MaxFilters = 1
    MaxLoads = 1
    MaxFaults = 1
    JumpSize = 2
    MaxEdits = 2
    MaxMessages = 3
    MaxPosts = 1
    MaxErrors = 1
    MaxOpens = 1
    Editors = {e1, e2}
    Photos = {p1}
    Sketches = {m1}
    Values = {v1, v2}
    MaxCardEdits = 3
    MaxCardFaults = 1
    MaxChatMessages = 1
    MaxChatPosts = 2
    MaxTexts = 1
    MaxChatFaults = 1
    MaxSockets = 2
SPECIFICATION MCSpec
CHECK_DEADLOCK FALSE
INVARIANTS  ColumnsMatchTheFilter AdditionsStay 
 
