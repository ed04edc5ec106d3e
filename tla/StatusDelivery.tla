--------------------------- MODULE StatusDelivery ---------------------------
(***************************************************************************)
(* What the outbox promises: the status changes of an order reach          *)
(* BlueSales one after another in the order they were requested; none is   *)
(* merged with its neighbour or skipped.  How attempts, leases, batches and *)
(* retries get there is the business of StatusOutbox.                      *)
(***************************************************************************)
EXTENDS Naturals

CONSTANTS Orders, Statuses, None, MaxChanges

Ids == 1..MaxChanges

VARIABLES
    nextId,  \* the next request
    order,   \* whose status it changes
    target,  \* the requested status
    phase,   \* "none", "open", "delivered" or "dropped"
    bs,      \* the status BlueSales holds
    shown    \* the statuses it has held since the last request of the order closed

vars == <<nextId, order, target, phase, bs, shown>>

Init ==
    /\ nextId = 1
    /\ order = [i \in Ids |-> None]
    /\ target = [i \in Ids |-> None]
    /\ phase = [i \in Ids |-> "none"]
    /\ bs \in [Orders -> Statuses]
    /\ shown = [o \in Orders |-> {bs[o]}]

Request(o, s) ==
    /\ nextId \in Ids
    /\ nextId' = nextId + 1
    /\ order' = [order EXCEPT ![nextId] = o]
    /\ target' = [target EXCEPT ![nextId] = s]
    /\ phase' = [phase EXCEPT ![nextId] = "open"]
    /\ UNCHANGED <<bs, shown>>

IsHead(i) ==
    /\ phase[i] = "open"
    /\ \A j \in Ids : j < i /\ order[j] = order[i] => phase[j] # "open"

CloseHead(i, result) ==
    /\ IsHead(i)
    /\ phase' = [phase EXCEPT ![i] = result]
    /\ shown' = [shown EXCEPT ![order[i]] = {bs[order[i]]}]
    /\ UNCHANGED <<nextId, order, target, bs>>

\* The status was seen in BlueSales.
Deliver(i) == CloseHead(i, "delivered") /\ target[i] \in shown[order[i]]

\* BlueSales did not have the order.
Drop(i) == CloseHead(i, "dropped") /\ None \in shown[order[i]]

\* The order is removed from the CRM together with its requests.
Remove(o) ==
    /\ phase' = [i \in Ids |-> IF order[i] = o THEN "none" ELSE phase[i]]
    /\ UNCHANGED <<nextId, order, target, bs, shown>>

\* BlueSales changes: by a delivery attempt or by somebody else.
RemoteChange ==
    /\ bs' \in [Orders -> Statuses \cup {None}]
    /\ shown' = [o \in Orders |-> shown[o] \cup {bs'[o]}]
    /\ UNCHANGED <<nextId, order, target, phase>>

Next ==
    \/ \E o \in Orders, s \in Statuses : Request(o, s)
    \/ \E o \in Orders : Remove(o)
    \/ \E i \in Ids : Deliver(i) \/ Drop(i)
    \/ RemoteChange

Spec == Init /\ [][Next]_vars
=============================================================================
