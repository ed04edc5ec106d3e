----------------------------- MODULE OrderEdits -----------------------------
(***************************************************************************)
(* What people change on the card of an order, while others change it too: *)
(* update (photos for print, pinned sketches, dates), updateComment and    *)
(* updateCrmStatus of orders.service.ts, against the import, which stores  *)
(* what BlueSales has (rawPayload and the columns taken from it).          *)
(*                                                                         *)
(* A request reads the order, checks what it was given, and writes; other  *)
(* requests come in between.  Title, note, link and number are written as  *)
(* they were given, and who writes last wins; they are left out.           *)
(***************************************************************************)
EXTENDS Naturals, FiniteSets

CONSTANTS
    Editors,   \* requests at the same time
    Photos,    \* uploaded files that may be attached for print
    Sketches,  \* messages that may be pinned
    Values,    \* of the comment, of the CRM status and of the rest in BlueSales
    MaxEdits, MaxFaults  \* bounds

VARIABLES
    photos, pins,  \* of the order
    dates,         \* [started, ready]: 0 is not set
    local,         \* BluesalesOrderInfo: [comment, crm, rest]
    remote,        \* the order in BlueSales
    asked,         \* what the import has been told, if it has asked
    request,       \* editor |-> [at, op, item, seen]
    wanted,        \* history: what was added and not asked to be removed
    edits, faults

card == <<photos, pins, dates>>
vars == <<card, local, remote, asked, request, wanted, edits, faults>>

Payloads == [comment : Values, crm : Values, rest : Values]
Items == Photos \cup Sketches
Seen == [photos |-> photos, pins |-> pins, dates |-> dates, comment |-> local]

NoRequest == [at |-> "none"]

Init ==
    /\ photos = {} /\ pins = {} /\ dates = [started |-> 0, ready |-> 0]
    /\ remote \in {[comment |-> v, crm |-> v, rest |-> v] : v \in Values}
    /\ local = remote /\ asked = {}
    /\ request = [e \in Editors |-> NoRequest]
    /\ wanted = {}
    /\ edits \in 0..MaxEdits /\ faults \in 0..MaxFaults

Edit == edits < MaxEdits /\ edits' = edits + 1
Fault == faults < MaxFaults /\ faults' = faults + 1

Ends(e) == request' = [request EXCEPT ![e] = NoRequest]
Goes(e, place) == request' = [request EXCEPT ![e].at = place]

-----------------------------------------------------------------------------
(* update. *)

\* The order is read; "seen" is the order as it is now.
Update(e) ==
    /\ request[e].at = "none" /\ Edit
    /\ \E op \in {"add", "remove"}, item \in Items :
          request' = [request EXCEPT ![e] = [at |-> "check", op |-> op, item |-> item, seen |-> Seen]]
    /\ UNCHANGED <<card, local, remote, asked, wanted, faults>>

\* A date is set or cleared.
UpdateDate(e) ==
    /\ request[e].at = "none" /\ Edit
    /\ \E name \in {"started", "ready"}, day \in 0..2 :
          request' = [request EXCEPT ![e] = [at |-> "checkDate", op |-> name, item |-> day, seen |-> Seen]]
    /\ UNCHANGED <<card, local, remote, asked, wanted, faults>>

\* A photo that is not there cannot be removed; a sketch that is pinned is not pinned
\* again; a file or a message that is not found is refused.
Check(e) ==
    /\ request[e].at = "check"
    /\ LET r == request[e]
           there == r.item \in r.seen.photos \cup r.seen.pins
       IN IF (r.op = "add" /\ r.item \in Sketches /\ there) \/ (r.op = "remove" /\ ~there)
          THEN Ends(e) /\ UNCHANGED wanted
          ELSE /\ Goes(e, "write")
               /\ wanted' = IF r.op = "remove" THEN wanted \ {r.item} ELSE wanted
    /\ UNCHANGED <<card, local, remote, asked, edits, faults>>

\* The dates as they will be, as far as the request can tell.
CheckDate(e) ==
    /\ request[e].at = "checkDate"
    /\ LET r == request[e]
           next == [r.seen.dates EXCEPT ![r.op] = r.item]
       IN IF next.started # 0 /\ next.ready # 0 /\ next.ready < next.started
          THEN Ends(e) ELSE Goes(e, "writeDate")
    /\ UNCHANGED <<card, local, remote, asked, wanted, edits, faults>>

\* Mutant: the list is written as it was read.
WrittenWhole(r, items) == IF r.op = "add" THEN (r.seen.photos \cup r.seen.pins \cup {r.item}) \cap Items
                          ELSE (r.seen.photos \cup r.seen.pins) \ {r.item}

\* Only what the request names is created or deleted.
Written(r, items) == IF r.op = "add" THEN items \cup {r.item} ELSE items \ {r.item}

\* Two requests that pin one sketch: the second is refused by the database, all of it.
Write(e) ==
    /\ request[e].at = "write"
    /\ LET r == request[e]
           pinned == r.op = "add" /\ r.item \in Sketches /\ r.item \in pins
           items == IF pinned THEN photos \cup pins ELSE Written(r, photos \cup pins)
       IN /\ photos' = items \cap Photos
          /\ pins' = items \cap Sketches
          /\ wanted' = IF r.op = "add" THEN wanted \cup {r.item} ELSE wanted \ {r.item}
    /\ Ends(e)
    /\ UNCHANGED <<dates, local, remote, asked, edits, faults>>

WriteDate(e) ==
    /\ request[e].at = "writeDate"
    /\ dates' = [dates EXCEPT ![request[e].op] = request[e].item]
    /\ Ends(e)
    /\ UNCHANGED <<photos, pins, local, remote, asked, wanted, edits, faults>>

-----------------------------------------------------------------------------
(* updateComment and updateCrmStatus. *)

\* A comment that the card has already is not sent.
UpdateComment(e) ==
    /\ request[e].at = "none" /\ Edit
    /\ \E v \in Values \ {local.comment} :
          request' = [request EXCEPT ![e] = [at |-> "send", op |-> "comment", item |-> v, seen |-> Seen]]
    /\ UNCHANGED <<card, local, remote, asked, wanted, faults>>

\* setOrderInternalComments. Without an answer nobody knows, and nothing is saved.
SendComment(e) ==
    /\ request[e].at = "send"
    /\ \/ /\ remote' = [remote EXCEPT !.comment = request[e].item]
          /\ Goes(e, "save") /\ UNCHANGED faults
       \/ /\ Fault
          /\ remote' \in {remote, [remote EXCEPT !.comment = request[e].item]}
          /\ Ends(e)
    /\ UNCHANGED <<card, local, asked, wanted, edits>>

\* Everything else is written back as it was read.
SaveComment(e) ==
    /\ request[e].at = "save"
    /\ \/ /\ local' = [local EXCEPT !.comment = request[e].item, !.rest = request[e].seen.comment.rest]
          /\ UNCHANGED faults
       \/ Fault /\ UNCHANGED local
    /\ Ends(e)
    /\ UNCHANGED <<card, remote, asked, wanted, edits>>

\* A column of its own, which BlueSales is not told.
UpdateCrmStatus ==
    /\ Edit
    /\ \E v \in Values \ {local.crm} : local' = [local EXCEPT !.crm = v]
    /\ UNCHANGED <<card, remote, asked, request, wanted, faults>>

-----------------------------------------------------------------------------
(* The import of the order (upsertOrder), and people in BlueSales. *)

EditRemote ==
    /\ Edit
    /\ remote' \in {[remote EXCEPT ![field] = v] : field \in DOMAIN remote, v \in Values} \ {remote}
    /\ UNCHANGED <<card, local, asked, request, wanted, faults>>

AskImport ==
    /\ asked = {} /\ asked' = {remote}
    /\ UNCHANGED <<card, local, remote, request, wanted, edits, faults>>

\* Mutant: the comment of the card is protected from the import.
ImportedKeepingComment(p) == [p EXCEPT !.comment = local.comment]

Imported(p) == p

Import ==
    /\ \E p \in asked : local' = Imported(p)
    /\ asked' = {}
    /\ UNCHANGED <<card, remote, request, wanted, edits, faults>>

ImportFails ==
    /\ asked # {} /\ Fault /\ asked' = {}
    /\ UNCHANGED <<card, local, remote, request, wanted, edits>>

-----------------------------------------------------------------------------

Step(e) == Check(e) \/ CheckDate(e) \/ Write(e) \/ WriteDate(e) \/ SendComment(e) \/ SaveComment(e)

Next ==
    \/ \E e \in Editors : Update(e) \/ UpdateDate(e) \/ UpdateComment(e) \/ Step(e)
    \/ UpdateCrmStatus \/ EditRemote \/ AskImport \/ Import \/ ImportFails

Spec == Init /\ [][Next]_vars

\* Requests come to an end, and the refresh loop comes round (SyncLoops).
FairSpec == Spec /\ WF_vars(AskImport \/ Import) /\ \A e \in Editors : WF_vars(Step(e))

-----------------------------------------------------------------------------
(* Properties. *)

TypeOK ==
    /\ photos \subseteq Photos /\ pins \subseteq Sketches
    /\ dates \in [started : 0..2, ready : 0..2]
    /\ local \in Payloads /\ remote \in Payloads /\ asked \subseteq {remote} \cup Payloads

\* "Concurrent additions stay intact": what a request has added is on the order until
\* a request names it for removal, whatever others write meanwhile.
AdditionsStay == wanted \subseteq photos \cup pins

\* What the card shows of BlueSales does not stay behind: a comment that was saved over
\* an import, or over which an import came, and a CRM status of its own last until the
\* next import only.
CardSettles == <>[](local = remote)
=============================================================================
