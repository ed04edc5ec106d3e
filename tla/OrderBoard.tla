----------------------------- MODULE OrderBoard -----------------------------
(***************************************************************************)
(* The board of orders (frontend, pages/OrdersPage.tsx): one column for a  *)
(* status, loaded page by page; a loop that refreshes the columns in turn; *)
(* search and filters; cards that are dragged to another column before the *)
(* server has agreed; and the server's list of orders behind it            *)
(* (orders.service.ts: findAll, getOrderStatusSync).                       *)
(*                                                                         *)
(* Every page is a request of its own and is answered at a moment of its   *)
(* own.  A column counts its requests and takes the answer to the last.    *)
(* The refs that handlers read follow the state with the next render,      *)
(* which is one step with the change here.                                 *)
(***************************************************************************)
EXTENDS Naturals, Sequences, FiniteSetsExt, SequencesExt, Sorting

CONSTANTS
    Orders,      \* the numbers of the orders; the greatest comes first
    Columns,     \* in the order of the board
    Selected,    \* the columns that are shown without a search
    NoStatus,    \* the column of the orders that have no status
    Filters, Searches,  \* what can be asked for; some of it is a search
    Matches,     \* filter |-> the orders it lets through
    PageSize,    \* PAGE_SIZE
    Nothing,
    MaxMoves, MaxFilters, MaxLoads, MaxFaults  \* bounds

\* What a board is made of.
BoardAssumption ==
    /\ Orders \subseteq Nat /\ IsFiniteSet(Orders) /\ PageSize \in Nat \ {0}
    /\ Searches \subseteq Filters
    /\ Columns \in Seq(ToSet(Columns)) /\ Selected \subseteq ToSet(Columns)
    /\ Matches \in [Filters -> SUBSET Orders]

VARIABLES
    status, sync,   \* the orders on the server: column, last status change
    filter,         \* search and filters of the page
    due,            \* debounceRef: all columns are to be loaded
    columns,        \* columnData
    turn, awaited,  \* the refresh loop: its next column, the column it waits for
    calls,
    dragged,        \* history: orders the person has moved
    moves, filters, loads, faults

server == <<status, sync>>
bounds == <<moves, filters, loads, faults>>
vars == <<server, filter, due, columns, turn, awaited, calls, dragged, bounds>>

ColumnSet == ToSet(Columns)
EmptyColumn == [items |-> <<>>, query |-> Nothing, page |-> 0, more |-> FALSE,
                loading |-> FALSE, loaded |-> FALSE]
View(o) == [id |-> o, status |-> status[o], sync |-> sync[o]]

Init ==
    /\ status \in [Orders -> ColumnSet] /\ sync = [o \in Orders |-> "none"]
    /\ filter \in Filters \ Searches /\ due = TRUE
    /\ columns = [c \in ColumnSet |-> EmptyColumn]
    /\ turn = 1 /\ awaited = Nothing
    /\ calls = {} /\ dragged = {}
    /\ moves \in 0..MaxMoves /\ filters \in 0..MaxFilters /\ loads \in 0..MaxLoads
    /\ faults \in 0..MaxFaults

-----------------------------------------------------------------------------
(* The server. *)

Listed(column, f) == {o \in Matches[f] : status[o] = column}

\* findAll: count and findMany, newest first.
FindAll(column, f, page) ==
    LET all == Reverse(Ascending(Listed(column, f)))
        skip == (page - 1) * PageSize
        rows == SubSeq(all, skip + 1, Min({skip + PageSize, Len(all)}))
    IN [items |-> [i \in DOMAIN rows |-> View(rows[i])],
        more |-> skip + Len(rows) < Len(all)]

\* updateOrderStatus, of which the board only sees the new status and its change.
SetStatus(o, column) ==
    /\ status' = [status EXCEPT ![o] = column]
    /\ sync' = [sync EXCEPT ![o] = "pending"]

MovedElsewhere(o) ==
    /\ moves < MaxMoves /\ moves' = moves + 1
    /\ \E column \in ColumnSet \ {status[o], NoStatus} : SetStatus(o, column)
    /\ UNCHANGED <<filter, due, columns, turn, awaited, calls, dragged,
                   filters, loads, faults>>

\* The outbox has sent the change, or has given up.
Synced(o) ==
    /\ sync[o] = "pending"
    /\ \E s \in {"none", "failed"} : sync' = [sync EXCEPT ![o] = s]
    /\ UNCHANGED <<status, filter, due, columns, turn, awaited, calls, dragged, bounds>>

-----------------------------------------------------------------------------
(* Loading a column. *)

Shown(f) == IF f \in Searches THEN Columns
            ELSE Sublist(Columns, {i \in DOMAIN Columns : Columns[i] \in Selected})
Query(f) == IF f \in Searches THEN f ELSE Nothing

\* fetchColumnPage: the pages it asks for, all at once.  columnRequestVersionRef: a
\* request is the last one of its column until the next one begins.
Fetch(column, pages, replace, preserve) ==
    [kind |-> "fetch", column |-> column, last |-> TRUE, filter |-> filter,
     replace |-> replace, preserve |-> preserve, todo |-> pages, got |-> [p \in {} |-> <<>>]]

Begin(new) ==
    LET began == {r.column : r \in new}
    IN /\ columns' = [c \in ColumnSet |->
                        IF c \in began THEN [columns[c] EXCEPT !.loading = TRUE] ELSE columns[c]]
       /\ calls' = {IF r.kind = "fetch" /\ r.column \in began
                     THEN [r EXCEPT !.last = FALSE] ELSE r : r \in calls} \cup new

\* reloadAll, 300 ms after the last change.
Reload ==
    /\ due /\ due' = FALSE
    /\ Begin({Fetch(Shown(filter)[i], {1}, TRUE, FALSE) : i \in DOMAIN Shown(filter)})
    /\ UNCHANGED <<server, filter, turn, awaited, dragged, bounds>>

\* refreshNext: not while the column is loading; it keeps the depth of the column.
Refresh ==
    /\ awaited = Nothing /\ Shown(filter) # <<>>
    /\ LET column == Shown(filter)[turn]
           depth == Max({1, columns[column].page})
       IN /\ ~columns[column].loading
          /\ Begin({Fetch(column, 1..depth, TRUE, TRUE)})
          /\ awaited' = column
    /\ turn' = (turn % Len(Shown(filter))) + 1
    /\ UNCHANGED <<server, filter, due, dragged, bounds>>

\* handleColumnNearBottom.
LoadMore(column) ==
    /\ loads < MaxLoads /\ loads' = loads + 1
    /\ ~columns[column].loading /\ columns[column].more
    /\ Begin({Fetch(column, {columns[column].page + 1}, FALSE, FALSE)})
    /\ UNCHANGED <<server, filter, due, turn, awaited, dragged, moves, filters, faults>>

\* Search, filters: the loop starts anew, what it was waiting for goes on by itself.
ChangeFilter(f) ==
    /\ filters < MaxFilters /\ filters' = filters + 1
    /\ f # filter /\ filter' = f /\ due' = TRUE /\ turn' = 1 /\ awaited' = Nothing
    /\ UNCHANGED <<server, columns, calls, dragged, moves, loads, faults>>

\* One of the pages is read.
ServePage(c, p) ==
    /\ c \in calls /\ c.kind = "fetch" /\ p \in c.todo
    /\ calls' = (calls \ {c}) \cup
         {[c EXCEPT !.todo = @ \ {p},
                    !.got = [q \in DOMAIN @ \cup {p} |->
                                IF q = p THEN FindAll(c.column, c.filter, p) ELSE @[q]]]}
    /\ UNCHANGED <<server, filter, due, columns, turn, awaited, dragged, bounds>>

\* Mutant: an answer is taken whichever request it answers.
IsLastAny(c) == c.last \in BOOLEAN

IsLast(c) == c.last

Awaited(c) == c.preserve /\ awaited = c.column

Answered(c) ==
    LET pages == DOMAIN c.got
        last == Max(pages)
        items == FlattenSeq([i \in 1..Cardinality(pages) |->
                    c.got[IF c.replace THEN i ELSE last].items])
    IN [items |-> IF c.replace THEN items ELSE columns[c.column].items \o items,
        query |-> Query(c.filter), page |-> last, more |-> c.got[last].more,
        loading |-> FALSE, loaded |-> TRUE]

\* Mutant: a column whose request has failed goes on loading.
FailedLoading(c) ==
    [(IF c.replace /\ ~c.preserve THEN [EmptyColumn EXCEPT !.query = Query(c.filter)]
      ELSE columns[c.column]) EXCEPT !.loading = TRUE, !.loaded = TRUE]

Failed(c) ==
    [(IF c.replace /\ ~c.preserve THEN [EmptyColumn EXCEPT !.query = Query(c.filter)]
      ELSE columns[c.column]) EXCEPT !.loading = FALSE, !.loaded = TRUE]

Answer(c) ==
    /\ c \in calls /\ c.kind = "fetch" /\ c.todo = {}
    /\ calls' = calls \ {c}
    /\ columns' = IF IsLast(c) THEN [columns EXCEPT ![c.column] = Answered(c)] ELSE columns
    /\ awaited' = IF Awaited(c) THEN Nothing ELSE awaited
    /\ UNCHANGED <<server, filter, due, turn, dragged, bounds>>

Fail(c) ==
    /\ c \in calls /\ c.kind = "fetch" /\ faults < MaxFaults /\ faults' = faults + 1
    /\ calls' = calls \ {c}
    /\ columns' = IF IsLast(c) THEN [columns EXCEPT ![c.column] = Failed(c)] ELSE columns
    /\ awaited' = IF Awaited(c) THEN Nothing ELSE awaited
    /\ UNCHANGED <<server, filter, due, turn, dragged, moves, filters, loads>>

-----------------------------------------------------------------------------
(* Cards. *)

Places(items, o) == {i \in DOMAIN items : items[i].id = o}
Has(column, o) == Places(columns[column].items, o) # {}
Without(items, o) == Sublist(items, DOMAIN items \ Places(items, o))
Replaced(items, view) == [i \in DOMAIN items |-> IF items[i].id = view.id THEN view ELSE items[i]]

\* searchResultsReady, visibleBoardColumns.
Visible ==
    LET shown == ToSet(Shown(filter))
    IN IF filter \notin Searches THEN shown
       ELSE IF \A c \in shown : columns[c].query = filter
            THEN {c \in shown : columns[c].items # <<>>} ELSE {}

\* moveOrderToColumn: the card is moved before the server is asked.
MoveOrderToColumn(o, from, to) ==
    /\ moves < MaxMoves /\ moves' = moves + 1
    /\ from \in Visible /\ to \in Visible \ {from, NoStatus} /\ Has(from, o)
    /\ LET items == columns[from].items
           original == items[Min(Places(items, o))]
           card == [original EXCEPT !.status = to]
       IN /\ columns' = [columns EXCEPT
                ![from].items = Without(@, o), ![to].items = <<card>> \o Without(@, o)]
          /\ calls' = calls \cup {[kind |-> "move", view |-> original, from |-> from, to |-> to,
                                   step |-> "sent"]}
    /\ dragged' = dragged \cup {o}
    /\ UNCHANGED <<server, filter, due, turn, awaited, filters, loads, faults>>

ServeMove(c) ==
    /\ c \in calls /\ c.kind = "move" /\ c.step = "sent"
    /\ SetStatus(c.view.id, c.to)
    /\ calls' = (calls \ {c}) \cup
         {[c EXCEPT !.step = "done", !.view.status = c.to, !.view.sync = "pending"]}
    /\ UNCHANGED <<filter, due, columns, turn, awaited, dragged, bounds>>

AnswerMove(c) ==
    /\ c \in calls /\ c.kind = "move" /\ c.step = "done"
    /\ calls' = calls \ {c}
    /\ columns' = [columns EXCEPT ![c.to].items = Replaced(@, c.view)]
    /\ UNCHANGED <<server, filter, due, turn, awaited, dragged, bounds>>

\* Refused, or lost on the way there or back: the card goes back.
FailMove(c) ==
    /\ c \in calls /\ c.kind = "move" /\ faults < MaxFaults /\ faults' = faults + 1
    /\ calls' = calls \ {c}
    /\ columns' = [columns EXCEPT
          ![c.to].items = Without(@, c.view.id),
          ![c.from].items = <<[c.view EXCEPT !.status = c.from]>> \o Without(@, c.view.id)]
    /\ UNCHANGED <<server, filter, due, turn, awaited, dragged, moves, filters, loads>>

\* pendingSyncOrderIds and poll.  A poll whose cards have changed meanwhile is dropped,
\* so one that is answered is answered at once here.
Poll ==
    /\ LET polled(v) == IF v.sync = "pending" THEN [v EXCEPT !.sync = sync[v.id]] ELSE v
       IN columns' = [c \in ColumnSet |-> [columns[c] EXCEPT
                        !.items = [i \in DOMAIN @ |-> polled(@[i])]]]
    /\ columns' # columns
    /\ UNCHANGED <<server, filter, due, turn, awaited, calls, dragged, bounds>>

-----------------------------------------------------------------------------

CallStep(c) == (\E p \in 1..Cardinality(Orders) : ServePage(c, p))
               \/ Answer(c) \/ ServeMove(c) \/ AnswerMove(c)

Next ==
    \/ \E o \in Orders : MovedElsewhere(o) \/ Synced(o)
    \/ Reload \/ Refresh \/ Poll
    \/ \E c \in ColumnSet : LoadMore(c)
    \/ \E f \in Filters : ChangeFilter(f)
    \/ \E c \in calls : CallStep(c) \/ Fail(c) \/ FailMove(c)
    \/ \E o \in Orders, from, to \in ColumnSet : MoveOrderToColumn(o, from, to)

Spec == Init /\ [][Next]_vars

\* Timers and the network.
Fairness ==
    /\ WF_vars(Reload) /\ WF_vars(Refresh)
    /\ WF_vars(\E c \in calls : CallStep(c))

FairSpec == Spec /\ Fairness

-----------------------------------------------------------------------------
(* Properties. *)

TypeOK ==
    /\ status \in [Orders -> ColumnSet] /\ filter \in Filters
    /\ turn \in 1..Len(Columns) /\ awaited \in {Nothing} \cup ColumnSet
    /\ \A c \in ColumnSet : \A i \in DOMAIN columns[c].items :
          columns[c].items[i].id \in Orders

\* A column that is not being loaded shows orders that pass the filters that are set now,
\* and none that an earlier search has found: an answer that was overtaken is not taken,
\* whatever it was the answer to.  A card that was dragged is where it was put.
ColumnsMatchTheFilter ==
    \A c \in Visible : (~due /\ ~columns[c].loading) =>
        \A i \in DOMAIN columns[c].items :
            columns[c].items[i].id \in Matches[filter] \cup dragged

\* Cards are moved here and elsewhere, pages are read one by one, requests fail: when
\* nothing changes any more each column comes to show what is in it, a page at least and
\* down to the depth it was read to.
Right(c) ==
    LET all == Reverse(Ascending(Listed(c, filter)))
        depth == Min({Max({1, columns[c].page}) * PageSize, Len(all)})
    IN columns[c].items = [i \in 1..depth |-> View(all[i])]

BoardSettles == <>[](\A i \in DOMAIN Shown(filter) : Right(Shown(filter)[i]))
=============================================================================
