------------------------------- MODULE MCTeam -------------------------------
(* Instances for TLC of what colleagues are told: the orders they are given  *)
(* (Assignment) and the notifications they get (Notifications, about a chat  *)
(* while things fail, and about an order as well). A behaviour is of one of  *)
(* them, and the other keeps still.                                          *)
EXTENDS Assignment, TLC

CONSTANTS
    d1, d2,
    Chats, Statuses, People, MaxNotices, MaxReads, MaxSettings, MaxFaults

VARIABLES
    part,
    rows, jobs, muted, member, follows, people, badge, requests, events, owed,
    notices, reads, choices, faults

assignmentVars == vars
noticeVars == <<rows, jobs, muted, member, follows, people, badge, requests, events, owed,
                notices, reads, choices, faults>>

Notices == INSTANCE Notifications WITH calls <- requests, wire <- events, settings <- choices

ASSUME NobodyIsNoChat == Nobody \notin Chats

Latest == CHOOSE a \in Artists : \A b \in Artists : b <= a
TwoDirections == <<d1, d2>>

\* A day in the middle of the work: everybody draws sketches in the first direction,
\* and the orders wait for them. The manager of an order follows a status.
MCInit ==
    /\ part \in {"assignment", "notices", "chatNotices"}
    /\ changes = 0 /\ edits = 0
    /\ Init
    /\ open /\ assigning = {"sketch"}
    /\ \E a \in IF part = "assignment" THEN {Nobody, Latest} ELSE {Nobody} : last = [k \in Circles |-> a]
    /\ \A o \in Orders : tags[o] = {d1}
    /\ \A a \in Artists : user[a].role = "sketch" /\ user[a].directions = {d1, d2}
    /\ Notices!Init
    /\ \A s \in DOMAIN follows, c \in Notices!Categories :
          follows[s][c] = IF c = "manager" THEN People ELSE {}
    /\ \A c \in Notices!Categories : people[c] \in IF c = "manager" THEN People ELSE {Nobody}

\* Nothing fails, or nothing is said about orders.
MCNext ==
    \/ part = "assignment" /\ Next /\ UNCHANGED <<part, noticeVars>>
    \/ /\ part = "notices" /\ Notices!Next /\ UNCHANGED <<part, assignmentVars>>
       /\ UNCHANGED faults
    \/ /\ part = "chatNotices" /\ Notices!Next /\ UNCHANGED <<part, assignmentVars>>
       /\ UNCHANGED <<follows, people>> /\ \A j \in jobs' : j.kind = "chat"

MCSpec == MCInit /\ [][MCNext]_<<part, assignmentVars, noticeVars>>

Symmetry == Permutations(Orders) \cup Permutations(Calls)

\* A chat with news has an unread notification (Notifications).
NoMessageIsHushed == Notices!NoMessageIsHushed
=============================================================================
