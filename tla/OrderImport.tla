---------------------------- MODULE OrderImport ----------------------------
(***************************************************************************)
(* Which order of BlueSales a local order stands for: upsertOrder of       *)
(* bluesales-sync.service.ts, the loops that call it, and the artist that  *)
(* is sent back (syncOrderArtistsToBluesales).                             *)
(*                                                                         *)
(* BlueSales may create an order anew under the number it had.  One number *)
(* is followed here: the orders of BlueSales that bear it, with ids that   *)
(* grow, and the one local order of that number with its link, the row of  *)
(* BluesalesOrderInfo.  What an answer says about the status of the order  *)
(* is the matter of StatusMirror, who gets it that of Assignment.          *)
(*                                                                         *)
(* Workers are the callers: crons and the startup import ask for a window  *)
(* of days, the refresh loop and the button of the card ask by id.         *)
(***************************************************************************)
EXTENDS Naturals, FiniteSets

CONSTANTS
    Crons,      \* workers that ask for a window
    Askers,     \* workers that ask by id
    Artists,
    None,       \* no artist, no order
    MaxId, MaxEdits, MaxFaults  \* bounds

Workers == Crons \cup Askers

VARIABLES
    remote,     \* orders of BlueSales with the number: id |-> field "Художник СРМ"
    created,    \* the newest id BlueSales has given
    order,      \* the local order: [id, link, artist], or None; it may have no link yet
    orders,     \* the newest id of a local order
    job,        \* worker |-> its round
    removal,    \* the order an administrator is about to remove, or None
    edits, faults

local == <<order, orders>>
vars == <<remote, created, local, job, removal, edits, faults>>

(* rows: what is left of the answer; row: the one in hand; found: the local order
   as the select for all rows saw it; existing: the local order the row is for;
   updates: artistUpdates, where only the row of the order that is there counts;
   late: the row is for the button, whose artist is sent at once. *)
NoLink == 0
NoRow == [id |-> NoLink, artist |-> None]
Idle == [at |-> "idle", rows |-> {}, row |-> NoRow, found |-> None, existing |-> None,
         updates |-> None]

Init ==
    /\ created \in 1..MaxId /\ remote = [b \in 1..created |-> None]
    /\ order \in {None, [id |-> 1, link |-> NoLink, artist |-> None]}
    /\ orders = IF order = None THEN 0 ELSE 1
    /\ job = [w \in Workers |-> Idle]
    /\ removal = None /\ edits \in 0..MaxEdits /\ faults \in 0..MaxFaults

Now(w, j) == job' = [job EXCEPT ![w] = j]
Goes(w, place) == job' = [job EXCEPT ![w].at = place]
RowDone(w) == Now(w, [job[w] EXCEPT !.at = "rows", !.row = NoRow, !.existing = None])

-----------------------------------------------------------------------------
(* What others do. *)

Edit == edits < MaxEdits /\ edits' = edits + 1

\* BlueSales: the order is created again, with the number it had.
CreatedAgain ==
    /\ Edit /\ created < MaxId
    /\ created' = created + 1
    /\ remote' = [b \in DOMAIN remote \cup {created'} |-> IF b = created' THEN None ELSE remote[b]]
    /\ UNCHANGED <<local, job, removal, faults>>

RemovedInBluesales ==
    /\ Edit
    /\ \E b \in DOMAIN remote : remote' = [x \in DOMAIN remote \ {b} |-> remote[x]]
    /\ UNCHANGED <<created, local, job, removal, faults>>

\* A manager gives the order to another artist, or to nobody.
Reassign ==
    /\ Edit /\ order # None
    /\ \E a \in Artists \cup {None} : order' = [order EXCEPT !.artist = a]
    /\ UNCHANGED <<remote, created, orders, job, removal, faults>>

\* existsInBluesales: by id and by number; no answer counts as no.
MayBeRemoved == DOMAIN remote = {} \/ faults < MaxFaults

AskToRemove ==
    /\ removal = None /\ order # None
    /\ MayBeRemoved
    /\ faults' = IF DOMAIN remote = {} THEN faults ELSE faults + 1
    /\ removal' = order.id
    /\ UNCHANGED <<remote, created, local, job, edits>>

Remove ==
    /\ removal # None
    /\ order' = IF order # None /\ order.id = removal THEN None ELSE order
    /\ removal' = None
    /\ UNCHANGED <<remote, created, orders, job, edits, faults>>

-----------------------------------------------------------------------------
(* A round: rows are asked for, the local orders found for all of them,    *)
(* each row put into the database, the artists sent.                       *)

RowOf(b) == [id |-> b, artist |-> remote[b]]

\* runFastSync, syncOrdersWindow.
AskWindow(w) ==
    /\ w \in Crons /\ job[w].at = "idle"
    /\ Now(w, [Idle EXCEPT !.at = "prefetch", !.rows = {RowOf(b) : b \in DOMAIN remote}])
    /\ UNCHANGED <<remote, created, local, removal, edits, faults>>

\* refreshBatch, refreshSingleOrder: the id comes from the link.
AskById(w) ==
    /\ w \in Askers /\ job[w].at = "idle" /\ order # None /\ order.link # NoLink
    /\ \E place \in {"refresh", "manual"} :
          Now(w, [Idle EXCEPT !.at = place, !.row.id = order.link, !.existing = order.id])
    /\ UNCHANGED <<remote, created, local, removal, edits, faults>>

AnswerRefresh(w) ==
    /\ job[w].at = "refresh"
    /\ Now(w, [Idle EXCEPT !.at = "prefetch",
                           !.rows = {RowOf(b) : b \in DOMAIN remote \cap {job[w].row.id}}])
    /\ UNCHANGED <<remote, created, local, removal, edits, faults>>

\* The button's row keeps the order it was asked for.
AnswerManual(w) ==
    /\ job[w].at = "manual"
    /\ Now(w, IF job[w].row.id \in DOMAIN remote
              THEN [job[w] EXCEPT !.row = RowOf(job[w].row.id), !.at = "update"]
              ELSE Idle)
    /\ UNCHANGED <<remote, created, local, removal, edits, faults>>

Prefetch(w) ==
    /\ job[w].at = "prefetch"
    /\ Now(w, [job[w] EXCEPT !.at = "rows", !.found = order])
    /\ UNCHANGED <<remote, created, local, removal, edits, faults>>

\* The next row of the answer.
NextRow(w) ==
    /\ job[w].at = "rows"
    /\ \E r \in job[w].rows :
          LET known == job[w].found # None /\ job[w].found.link = r.id
          IN Now(w, [job[w] EXCEPT !.rows = @ \ {r}, !.row = r,
                       !.existing = IF known THEN job[w].found.id ELSE None,
                       !.at = IF known THEN "update" ELSE "byNumber"])
    /\ UNCHANGED <<remote, created, local, removal, edits, faults>>

-----------------------------------------------------------------------------
(* upsertOrder. *)

\* The transaction for an order that is known: the row must still be linked to it.
Update(w) ==
    /\ job[w].at = "update"
    /\ IF order # None /\ order.link = job[w].row.id /\ order.id = job[w].existing
       THEN Goes(w, "assign") ELSE RowDone(w)
    /\ UNCHANGED <<remote, created, local, removal, edits, faults>>

\* By number: there is none, or it has a link of its own.
LookUp(w) ==
    /\ job[w].at = "byNumber"
    /\ LET b == job[w].row.id
       IN IF order # None /\ b < order.link THEN RowDone(w)
          ELSE Now(w, [job[w] EXCEPT
                  !.existing = IF order = None THEN None ELSE order.id,
                  !.at = IF order = None THEN "create"
                         ELSE IF order.link = NoLink THEN "createInfo"
                         ELSE IF order.link = b THEN "update" ELSE "relink"])
    /\ UNCHANGED <<remote, created, local, removal, edits, faults>>

\* Mutant: the older order wins the number.
RelinkNever(w) ==
    /\ job[w].at = "relink"
    /\ RowDone(w)
    /\ UNCHANGED <<remote, created, local, removal, edits, faults>>

\* The newer of two orders with one number takes the link; what it was when the
\* decision was made is not asked again.
Relink(w) ==
    /\ job[w].at = "relink"
    /\ IF order # None /\ order.id = job[w].existing
       THEN order' = [order EXCEPT !.link = job[w].row.id] /\ Goes(w, "update")
       ELSE UNCHANGED order /\ RowDone(w)
    /\ UNCHANGED <<remote, created, orders, removal, edits, faults>>

\* The order has no link: it gets one, unless it has got one meanwhile (P2002), which
\* is looked at again.
CreateInfo(w) ==
    /\ job[w].at = "createInfo"
    /\ IF order = None \/ order.id # job[w].existing THEN UNCHANGED order /\ RowDone(w)
       ELSE IF order.link = NoLink
            THEN order' = [order EXCEPT !.link = job[w].row.id] /\ Goes(w, "assign")
            ELSE UNCHANGED order /\ Goes(w, "byNumber")
    /\ UNCHANGED <<remote, created, orders, removal, edits, faults>>

\* A new order; the number is unique.
Create(w) ==
    /\ job[w].at = "create"
    /\ IF order = None
       THEN /\ orders' = orders + 1
            /\ order' = [id |-> orders', link |-> job[w].row.id, artist |-> None]
            /\ Now(w, [job[w] EXCEPT !.existing = orders', !.at = "assign"])
       ELSE UNCHANGED local /\ RowDone(w)
    /\ UNCHANGED <<remote, created, removal, edits, faults>>

\* tryAutoAssign may give the order to an artist; then the row is kept for the end of
\* the round.
Assign(w) ==
    /\ job[w].at = "assign"
    /\ \/ UNCHANGED order
       \/ /\ order # None /\ order.id = job[w].existing /\ order.artist = None
          /\ \E a \in Artists : order' = [order EXCEPT !.artist = a]
    /\ Now(w, [job[w] EXCEPT !.at = "rows", !.row = NoRow, !.existing = None,
                 !.updates = [order |-> job[w].existing, row |-> job[w].row]])
    /\ UNCHANGED <<remote, created, orders, removal, edits, faults>>

-----------------------------------------------------------------------------
(* syncOrderArtistsToBluesales. *)

\* Mutant: the artist is compared with what is stored here, not with the answer.
DiffersNever(row) == FALSE

\* BlueSales is told when its answer had another artist; nobody clears nothing.
Differs(row) == order.artist # None /\ row.artist # order.artist

\* The local artists are read again.
Compare(w) ==
    /\ job[w].at = "rows" /\ job[w].rows = {}
    /\ LET u == job[w].updates
           due == /\ u # None /\ order # None
                  /\ order.id = u.order /\ order.link = u.row.id
                  /\ Differs(u.row)
       IN Now(w, IF due THEN [Idle EXCEPT !.at = "send", !.row = [id |-> u.row.id, artist |-> order.artist]]
                 ELSE Idle)
    /\ UNCHANGED <<remote, created, local, removal, edits, faults>>

Send(w) ==
    /\ job[w].at = "send"
    /\ LET r == job[w].row
       IN remote' = IF r.id \in DOMAIN remote THEN [remote EXCEPT ![r.id] = r.artist] ELSE remote
    /\ Now(w, Idle)
    /\ UNCHANGED <<created, local, removal, edits, faults>>

\* A call to BlueSales or the database fails, the import is switched off or pauses for
\* the night: the row is lost, or all that are left, or the round with the process.
Fails(w) ==
    /\ job[w].at # "idle" /\ faults < MaxFaults /\ faults' = faults + 1
    /\ \/ job[w].at \in {"update", "byNumber", "relink", "create", "createInfo"} /\ RowDone(w)
       \/ job[w].at = "rows" /\ Now(w, [job[w] EXCEPT !.rows = {}])
       \/ Now(w, Idle)
    /\ UNCHANGED <<remote, created, local, removal, edits>>

-----------------------------------------------------------------------------

Step(w) ==
    \/ AskWindow(w) \/ AskById(w) \/ AnswerRefresh(w) \/ AnswerManual(w)
    \/ Prefetch(w) \/ NextRow(w)
    \/ Update(w) \/ LookUp(w) \/ Relink(w) \/ CreateInfo(w) \/ Create(w) \/ Assign(w)
    \/ Compare(w) \/ Send(w)

Next ==
    \/ \E w \in Workers : Step(w) \/ Fails(w)
    \/ CreatedAgain \/ RemovedInBluesales \/ Reassign \/ AskToRemove \/ Remove

Spec == Init /\ [][Next]_vars

\* The crons and loops go on.
FairSpec == Spec /\ \A w \in Workers : WF_vars(Step(w))

-----------------------------------------------------------------------------
(* Properties. *)

TypeOK ==
    /\ remote \in UNION {[ids -> Artists \cup {None}] : ids \in SUBSET (1..MaxId)}
    /\ order = None \/ order \in [id : 1..orders, link : 0..created, artist : Artists \cup {None}]
    /\ removal = None \/ removal \in 1..orders

\* When BlueSales and the managers have come to rest, so has the link: no order of
\* BlueSales with this number is newer than the one the local order stands for, though
\* rounds overwrite each other's links, and BlueSales names the artist the order has.
LinkSettled ==
    /\ DOMAIN remote # {} => order # None
    /\ order # None => \A b \in DOMAIN remote : b <= order.link
    /\ (order # None /\ order.link \in DOMAIN remote /\ order.artist # None)
          => remote[order.link] = order.artist

ImportSettles == <>[]LinkSettled

\* "Priority is given, whatever the order of events, to the record with the greater
\* bsOrderId": the link of an order never goes back to an older one.
LinkNeverGoesBack ==
    [][order # None /\ order' # None /\ order'.id = order.id => order'.link >= order.link]_vars
=============================================================================
