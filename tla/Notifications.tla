--------------------------- MODULE Notifications ---------------------------
(***************************************************************************)
(* The notifications of one person: notifications.service.ts, its callers  *)
(* (a chat message of somebody else, an order that enters a status), and   *)
(* what the person's browser does with them: NotificationsContext.tsx (the *)
(* badge), NotificationBell.tsx, the page of a chat and the list of chats, *)
(* which mark and mute.                                                    *)
(*                                                                         *)
(* An unread notification of a chat carries a key, and while it is there   *)
(* no second one is created.  Creating one, counting and telling the       *)
(* browser are steps of their own, after the message was answered.         *)
(***************************************************************************)
EXTENDS Naturals, Sequences, FiniteSetsExt, SequencesExt

CONSTANTS
    Chats, Statuses, People,
    Nobody,      \* the order has no such person
    MaxNotices, MaxReads, MaxSettings, MaxFaults  \* bounds

Categories == {"manager", "designer"}  \* two of the four lists of a status

VARIABLES
    rows,      \* Notification of this person
    jobs,      \* notifyChatMessage and notifyOrderStatus under way
    muted,     \* chats whose notifications the person has switched off
    member,    \* chats the person may see
    follows,   \* status |-> the filters of the person; absent: not followed
    people,    \* the people of the order, by category
    badge,     \* unreadCount of the browser
    calls,     \* requests of the browser
    wire,      \* events on their way to the browser
    owed,      \* history: chats with a message the person is to learn of and has not marked
    notices, reads, settings, faults

told == <<muted, member, follows, people>>
bounds == <<notices, reads, settings, faults>>
vars == <<rows, jobs, told, badge, calls, wire, owed, bounds>>

Init ==
    /\ rows = {} /\ jobs = {} /\ calls = {} /\ wire = <<>> /\ owed = {}
    /\ muted = {} /\ member = Chats
    /\ follows \in [Statuses -> [Categories -> SUBSET People]]
    /\ people \in [Categories -> {Nobody} \cup People]
    /\ badge = 0
    /\ notices = 0 /\ reads = 0 /\ settings = 0 /\ faults = 0

-----------------------------------------------------------------------------
(* notifications.service *)

Live == {n \in rows : ~n.expired}                       \* createdAt: { gte: since }
Unread == {n \in Live : ~n.read}
Count == Cardinality(Unread)
Key(chat) == chat                                       \* chatDedupeKey
Notice(j, key) ==
    [id |-> j.id, about |-> j.about, key |-> key, read |-> FALSE, expired |-> FALSE]

\* What is told is the number; a new notification goes with it.
Emit(count) == wire' = Append(wire, count)

\* An empty list is no limit, the others all have to name their person.
MatchesPeopleFilters(order, filters) ==
    \A c \in Categories : filters[c] # {} => order[c] \in filters[c]

Job(kind, about) == [id |-> notices', kind |-> kind, about |-> about, step |-> "begin",
                     count |-> 0, filters |-> [c \in Categories |-> {}]]

\* createMessage: somebody else has written and is answered; notifyChatMessage is next.
Message(chat) ==
    /\ notices < MaxNotices /\ notices' = notices + 1
    /\ jobs' = jobs \cup {Job("chat", chat)}
    /\ UNCHANGED <<rows, told, badge, calls, wire, owed, reads, settings, faults>>

\* An order has entered a status: by hand, by an import, or as a new order.
EnterStatus(status) ==
    /\ notices < MaxNotices /\ notices' = notices + 1
    /\ jobs' = jobs \cup {Job("order", status)}
    /\ UNCHANGED <<rows, told, badge, calls, wire, owed, reads, settings, faults>>

Become(j, k) == jobs' = (jobs \ {j}) \cup {k}

\* INSERT ... ON CONFLICT DO NOTHING RETURNING: the one statement of notifyChatMessage.
InsertChat(j) ==
    /\ j \in jobs /\ j.kind = "chat" /\ j.step = "begin"
    /\ LET due == j.about \in member \ muted
           conflict == \E n \in rows : n.key = Key(j.about)
       IN /\ owed' = IF due THEN owed \cup {j.about} ELSE owed
          /\ IF due /\ ~conflict
             THEN /\ rows' = rows \cup {Notice(j, Key(j.about))}
                  /\ Become(j, [j EXCEPT !.step = "count"])
             ELSE UNCHANGED rows /\ jobs' = jobs \ {j}
    /\ UNCHANGED <<told, badge, calls, wire, bounds>>

\* notifyOrderStatus: the recipients, then the people of the order, then the rows.
Recipients(j) ==
    /\ j \in jobs /\ j.kind = "order" /\ j.step = "begin"
    /\ IF j.about \in DOMAIN follows
       THEN Become(j, [j EXCEPT !.step = "people", !.filters = follows[j.about]])
       ELSE jobs' = jobs \ {j}
    /\ UNCHANGED <<rows, told, badge, calls, wire, owed, bounds>>

MatchPeople(j) ==
    /\ j \in jobs /\ j.step = "people"
    /\ IF MatchesPeopleFilters(people, j.filters)
       THEN Become(j, [j EXCEPT !.step = "insert"])
       ELSE jobs' = jobs \ {j}
    /\ UNCHANGED <<rows, told, badge, calls, wire, owed, bounds>>

InsertOrder(j) ==
    /\ j \in jobs /\ j.step = "insert"
    /\ rows' = rows \cup {Notice(j, Nobody)}
    /\ Become(j, [j EXCEPT !.step = "count"])
    /\ UNCHANGED <<told, badge, calls, wire, owed, bounds>>

\* emitCreated.
CountCreated(j) ==
    /\ j \in jobs /\ j.step = "count"
    /\ Become(j, [j EXCEPT !.step = "emit", !.count = Count])
    /\ UNCHANGED <<rows, told, badge, calls, wire, owed, bounds>>

EmitCreated(j) ==
    /\ j \in jobs /\ j.step = "emit"
    /\ jobs' = jobs \ {j}
    /\ Emit(j.count)
    /\ UNCHANGED <<rows, told, badge, calls, owed, bounds>>

\* A query fails, or the process stops: the catch of the caller logs it.
NotifyFails(j) ==
    /\ j \in jobs /\ faults < MaxFaults /\ faults' = faults + 1
    /\ jobs' = jobs \ {j}
    /\ UNCHANGED <<rows, told, badge, calls, wire, owed, notices, reads, settings>>

\* RETENTION_MS, and the cron that removes what is older.
Expire(n) ==
    /\ n \in Live /\ faults < MaxFaults /\ faults' = faults + 1
    /\ rows' = (rows \ {n}) \cup {[n EXCEPT !.expired = TRUE]}
    /\ UNCHANGED <<jobs, told, badge, calls, wire, owed, notices, reads, settings>>

PurgeExpired ==
    /\ rows # Live
    /\ rows' = Live
    /\ owed' = {c \in owed : ~\E n \in rows \ Live : n.about = c}
    /\ UNCHANGED <<jobs, told, badge, calls, wire, bounds>>
-----------------------------------------------------------------------------
(* Requests that mark, list and count. *)

\* Mutant: the key stays on a notification that was read.
MarkKeepingKey(S) == (rows \ S) \cup {[n EXCEPT !.read = TRUE] : n \in S}

\* readAt and dedupeKey go together.
Mark(S) == (rows \ S) \cup {[n EXCEPT !.read = TRUE, !.key = Nobody] : n \in S}

AllUnread == {n \in rows : ~n.read}

Request(kind, about) == [kind |-> kind, about |-> about, id |-> reads', step |-> "write", count |-> 0]

Ask(kind, about) == reads < MaxReads /\ reads' = reads + 1
                    /\ calls' = calls \cup {Request(kind, about)}

Progress(c, d) == calls' = (calls \ {c}) \cup {d}

\* markAllRead, markOneRead, markChatRead: the write.
ServeMark(c) ==
    /\ c \in calls /\ c.step = "write" /\ c.kind \in {"all", "one", "chat"}
    /\ c.kind = "chat" => c.about \in member
    /\ LET S == CASE c.kind = "all" -> AllUnread
                  [] c.kind = "one" -> {n \in AllUnread : n.id = c.about}
                  [] OTHER -> {n \in AllUnread : n.key = Key(c.about)}
       IN /\ rows' = Mark(S)
          /\ owed' = owed \ {n.about : n \in S}
    /\ Progress(c, [c EXCEPT !.step = IF c.kind = "all" THEN "emit" ELSE "count"])
    /\ UNCHANGED <<jobs, told, badge, wire, bounds>>

\* unreadCount; and list, of which only matters here that it was answered.
ServeRead(c) ==
    /\ c \in calls
    /\ \/ /\ c.step = "count" \/ (c.step = "write" /\ c.kind = "count")
          /\ Progress(c, [c EXCEPT !.count = Count,
                                   !.step = IF c.kind = "count" THEN "answer" ELSE "emit"])
       \/ /\ c.step = "write" /\ c.kind = "open"
          /\ Progress(c, [c EXCEPT !.step = "answer"])
    /\ UNCHANGED <<rows, jobs, told, badge, wire, owed, bounds>>

\* emitToUser: to every tab of the person.
ServeEmit(c) ==
    /\ c \in calls /\ c.step = "emit"
    /\ Emit(c.count)
    /\ Progress(c, [c EXCEPT !.step = "answer"])
    /\ UNCHANGED <<rows, jobs, told, badge, owed, bounds>>

-----------------------------------------------------------------------------
(* The browser. *)

\* onCreated, onCount.
Hear ==
    /\ wire # <<>> /\ wire' = Tail(wire)
    /\ badge' = Head(wire)
    /\ UNCHANGED <<rows, jobs, told, calls, owed, bounds>>

\* The connection breaks; nothing asks for what was missed.
Disconnect ==
    /\ wire # <<>> /\ faults < MaxFaults /\ faults' = faults + 1
    /\ wire' = <<>>
    /\ UNCHANGED <<rows, jobs, told, badge, calls, owed, notices, reads, settings>>

\* The provider is mounted: the effect of the token.
SignIn ==
    /\ Ask("count", Nobody)
    /\ badge' = 0
    /\ wire' = <<>>
    /\ UNCHANGED <<rows, jobs, told, owed, notices, settings, faults>>

\* "Read" on a toast.  Toasts go after four seconds, or are dismissed: any notification
\* may still have one in some tab.
HandleToastRead(n) ==
    /\ n \in rows /\ Ask("one", n.id)
    /\ UNCHANGED <<rows, jobs, told, badge, wire, owed, notices, settings, faults>>

\* A second click, or another route, closes it again, and its answer comes all the same.
OpenBell ==
    /\ Ask("open", Nobody)
    /\ UNCHANGED <<rows, jobs, told, badge, wire, owed, notices, settings, faults>>

\* The page of a chat is opened.
OpenChat(chat) ==
    /\ Ask("chat", chat)
    /\ UNCHANGED <<rows, jobs, told, badge, wire, owed, notices, settings, faults>>

\* The list of the bell is there: markAllRead, which clears the badge at once.
BellLoaded(c) ==
    /\ c \in calls /\ c.kind = "open" /\ c.step = "answer"
    /\ calls' = (calls \ {c}) \cup {[c EXCEPT !.kind = "all", !.step = "write"]}
    /\ badge' = 0
    /\ UNCHANGED <<rows, jobs, told, wire, owed, bounds>>

Answer(c) ==
    /\ c \in calls /\ c.kind # "open" /\ c.step = "answer"
    /\ calls' = calls \ {c}
    /\ badge' = IF c.kind = "all" THEN badge ELSE c.count
    /\ UNCHANGED <<rows, jobs, told, wire, owed, bounds>>

\* Lost on the way there or back, or refused.
RequestFails(c) ==
    /\ c \in calls
    /\ \/ faults < MaxFaults /\ faults' = faults + 1
       \/ /\ c.kind = "chat" /\ c.step = "write" /\ c.about \notin member
          /\ UNCHANGED faults
    /\ calls' = calls \ {c}
    /\ UNCHANGED <<rows, jobs, told, badge, wire, owed, notices, reads, settings>>

-----------------------------------------------------------------------------
(* Settings. *)

\* setChatNotificationsEnabled.
SetChatNotificationsEnabled(chat) ==
    /\ chat \in member
    /\ muted' = IF chat \in muted THEN muted \ {chat} ELSE muted \cup {chat}
    /\ UNCHANGED <<member, follows, people>>

\* updateSettings: the statuses of the page replace those that were there.
UpdateSettings ==
    /\ \E S \in SUBSET Statuses : \E f \in [S -> [Categories -> SUBSET People]] : follows' = f
    /\ UNCHANGED <<muted, member, people>>

\* addMember, removeMember of the chat.
SetMember(chat) ==
    /\ member' = IF chat \in member THEN member \ {chat} ELSE member \cup {chat}
    /\ UNCHANGED <<muted, follows, people>>

\* The order gets another manager or designer.
SetPeople ==
    /\ \E c \in Categories, p \in {Nobody} \cup People : people' = [people EXCEPT ![c] = p]
    /\ UNCHANGED <<muted, member, follows>>

Change ==
    /\ settings < MaxSettings /\ settings' = settings + 1
    /\ \/ \E chat \in Chats : SetChatNotificationsEnabled(chat) \/ SetMember(chat)
       \/ UpdateSettings \/ SetPeople
    /\ UNCHANGED <<rows, jobs, badge, calls, wire, owed, notices, reads, faults>>

-----------------------------------------------------------------------------

JobStep(j) == InsertChat(j) \/ Recipients(j) \/ MatchPeople(j) \/ InsertOrder(j)
              \/ CountCreated(j) \/ EmitCreated(j)
CallStep(c) == ServeMark(c) \/ ServeRead(c) \/ ServeEmit(c) \/ BellLoaded(c) \/ Answer(c)

Next ==
    \/ \E chat \in Chats : Message(chat) \/ OpenChat(chat)
    \/ \E status \in Statuses : EnterStatus(status)
    \/ \E j \in jobs : JobStep(j) \/ NotifyFails(j)
    \/ \E n \in rows : Expire(n)
    \/ PurgeExpired
    \/ \E c \in calls : CallStep(c) \/ RequestFails(c)
    \/ Hear \/ Disconnect \/ SignIn \/ OpenBell
    \/ \E n \in rows : HandleToastRead(n)
    \/ Change

Spec == Init /\ [][Next]_vars

Fairness ==
    /\ WF_vars(Hear)
    /\ WF_vars(\E j \in jobs : JobStep(j))
    /\ WF_vars(\E c \in calls : CallStep(c) \/ RequestFails(c))

FairSpec == Spec /\ Fairness

-----------------------------------------------------------------------------
(* Properties. *)

TypeOK ==
    /\ \A n \in rows : n.id \in Nat /\ n.read \in BOOLEAN /\ n.expired \in BOOLEAN
    /\ muted \subseteq Chats /\ member \subseteq Chats /\ DOMAIN follows \subseteq Statuses
    /\ badge \in Nat

\* A chat with a message that the person was to learn of, and has not marked since, has
\* an unread notification: one that was read, by whichever of the three ways, does not
\* stand in the way of the next, and two messages at once do not lose each other's.
NoMessageIsHushed ==
    \A chat \in owed : \E n \in rows : n.about = chat /\ ~n.read

\* NotificationsPage: while there is an unread notification there is a signal, every few
\* seconds; the signal is given while the badge is not 0.
UnreadIsSignalled ==
    (<>[](Unread # {})) => []<>(badge > 0)
=============================================================================
