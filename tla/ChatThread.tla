----------------------------- MODULE ChatThread -----------------------------
(***************************************************************************)
(* The page of a chat (frontend, pages/ChatThreadPage.tsx), its socket     *)
(* (hooks/useChatSocket.ts), and the server behind it: chats.service.ts    *)
(* and the gateway that tells the members of a room what has happened.     *)
(*                                                                         *)
(* A handler writes, prepares what it is going to say, which takes time,   *)
(* and tells the room: events leave in another order than the writes, and  *)
(* reach the page before or after the answers to its own requests.  The    *)
(* page renders with new handlers each time, so its socket is replaced at  *)
(* every change of its state, and what is said meanwhile is not heard.     *)
(***************************************************************************)
EXTENDS Naturals, Sequences, FiniteSetsExt, SequencesExt, Sorting

CONSTANTS
    PageSize,   \* PAGE_SIZE
    Nothing,    \* no answer yet, no chat
    MaxMessages, MaxPosts, MaxEdits, MaxFaults, MaxSockets  \* bounds

VARIABLES
    texts,      \* the messages of the chat: the edit their text comes from
    chat,       \* name, type and members: the edit they come from; Nothing: deleted
    unsaid,     \* events that handlers are about to emit
    joined,     \* the page's socket is in the room
    wire,       \* events on their way to the page
    page, calls,
    posts, edits, faults, sockets

server == <<texts, chat, unsaid>>
socket == <<joined, wire, sockets>>
vars == <<server, socket, page, calls, posts, edits, faults>>

Closed == [open |-> FALSE, loading |-> FALSE, error |-> FALSE, chat |-> Nothing,
           messages |-> <<>>, cursor |-> 0, more |-> FALSE, newest |-> 0,
           older |-> FALSE, sending |-> FALSE]

Request(kind, todo) ==
    [kind |-> kind, todo |-> todo, chat |-> Nothing, list |-> Nothing, id |-> 0, text |-> 0]

Message(id) == [id |-> id, text |-> texts[id]]
Event(name, id) == [name |-> name, id |-> id,
                    text |-> IF name \in {"created", "updated"} THEN texts'[id] ELSE 0,
                    chat |-> chat']

Init ==
    /\ \E n \in 0..MaxMessages : texts = [i \in 1..n |-> 0]
    /\ chat = 0 /\ unsaid = {} /\ joined = FALSE /\ wire = <<>>
    /\ page = Closed /\ calls = {}
    /\ posts = 0 /\ edits = 0 /\ faults = 0 /\ sockets = 0

-----------------------------------------------------------------------------
(* Writes of chats.service, each with what is said of it. *)

Say(e) == unsaid' = unsaid \cup {e}

CreateMessage ==
    /\ chat # Nothing
    /\ texts' = Append(texts, edits) /\ UNCHANGED chat
    /\ Say(Event("created", Len(texts) + 1))

\* updateMessageText, and deleteMessageText, which is an edit too.
UpdateText(id, text) ==
    /\ chat # Nothing
    /\ texts' = [texts EXCEPT ![id] = text] /\ UNCHANGED chat
    /\ Say(Event("updated", id))

\* update, addMember, removeMember: managers only.
UpdateChat(version) ==
    /\ chat # Nothing
    /\ chat' = version /\ UNCHANGED texts
    /\ Say(Event("chat", 0))

RemoveChat ==
    /\ chat # Nothing
    /\ chat' = Nothing /\ UNCHANGED texts
    /\ Say(Event("deleted", 0))

\* What the others do.
WrittenElsewhere ==
    /\ posts < MaxPosts /\ posts' = posts + 1
    /\ CreateMessage
    /\ UNCHANGED <<socket, page, calls, edits, faults>>

EditedElsewhere ==
    /\ edits < MaxEdits /\ edits' = edits + 1
    /\ \/ \E id \in DOMAIN texts : UpdateText(id, edits')
       \/ UpdateChat(edits') \/ RemoveChat
    /\ UNCHANGED <<socket, page, calls, posts, faults>>

-----------------------------------------------------------------------------
(* The gateway and the socket. *)

\* Messages go to the room, news of the chat to every socket that is connected.
Emit(e) ==
    /\ e \in unsaid
    /\ unsaid' = unsaid \ {e}
    /\ wire' = IF joined THEN Append(wire, e) ELSE wire
    /\ UNCHANGED <<texts, chat, joined, sockets, page, calls, posts, edits, faults>>

\* joinChat.
Join ==
    /\ page.open /\ ~joined /\ chat # Nothing
    /\ joined' = TRUE
    /\ UNCHANGED <<server, wire, sockets, page, calls, posts, edits, faults>>

\* The page renders, or the connection breaks: the socket is closed and the next one
\* has not yet joined.
Reconnect ==
    /\ joined /\ sockets < MaxSockets
    /\ joined' = FALSE /\ wire' = <<>> /\ sockets' = sockets + 1
    /\ UNCHANGED <<server, page, calls, posts, edits, faults>>

Ids(messages) == {messages[i].id : i \in DOMAIN messages}

\* Mutant: the handler does not look for the message.
ShowAnyway(messages, m) == Append(messages, m)

\* A message that the page has already is not shown again.
ShowNew(messages, m) == IF m.id \in Ids(messages) THEN messages ELSE Append(messages, m)

ShowText(messages, m) ==
    [i \in DOMAIN messages |-> IF messages[i].id = m.id THEN m ELSE messages[i]]

Closing == /\ page' = Closed /\ joined' = FALSE /\ wire' = <<>> /\ calls' = {}
           /\ UNCHANGED sockets

\* The handlers of the page.
Hear ==
    /\ wire # <<>>
    /\ LET e == Head(wire)  m == [id |-> e.id, text |-> e.text]
       IN IF e.name = "deleted" THEN Closing
          ELSE /\ wire' = Tail(wire)
               /\ page' = CASE e.name = "created" -> [page EXCEPT !.messages = ShowNew(@, m)]
                            [] e.name = "updated" -> [page EXCEPT !.messages = ShowText(@, m)]
                            [] OTHER -> [page EXCEPT !.chat = e.chat]
               /\ UNCHANGED <<joined, sockets, calls>>
    /\ UNCHANGED <<server, posts, edits, faults>>

-----------------------------------------------------------------------------
(* The page. *)

Ask(c) == calls' = calls \cup {c}

Open ==
    /\ ~page.open /\ sockets < MaxSockets
    /\ sockets' = sockets + 1
    /\ page' = [Closed EXCEPT !.open = TRUE, !.loading = TRUE]
    /\ \E todo \in {<<"chat", "list">>, <<"list", "chat">>} : Ask(Request("load", todo))
    /\ UNCHANGED <<server, joined, wire, posts, edits, faults>>

Leave ==
    /\ page.open /\ Closing
    /\ UNCHANGED <<server, posts, edits, faults>>

Shown == page.open /\ ~page.loading /\ ~page.error

LoadOlder ==
    /\ Shown /\ ~page.older /\ page.more
    /\ page' = [page EXCEPT !.older = TRUE]
    /\ Ask([Request("older", <<"list">>) EXCEPT !.id = page.cursor])
    /\ UNCHANGED <<server, socket, posts, edits, faults>>

HandleSend ==
    /\ Shown /\ ~page.sending /\ posts < MaxPosts
    /\ posts' = posts + 1
    /\ page' = [page EXCEPT !.sending = TRUE]
    /\ Ask(Request("send", <<"post">>))
    /\ UNCHANGED <<server, socket, edits, faults>>

\* saveEdit and deleteText.
SaveEdit(id) ==
    /\ Shown /\ id \in Ids(page.messages) /\ edits < MaxEdits
    /\ edits' = edits + 1
    /\ Ask([Request("edit", <<"write">>) EXCEPT !.id = id, !.text = edits'])
    /\ UNCHANGED <<server, socket, page, posts, faults>>

\* addMember, removeMember of the page.
ChangeMembers ==
    /\ Shown /\ edits < MaxEdits
    /\ edits' = edits + 1
    /\ Ask([Request("members", <<"members">>) EXCEPT !.text = edits'])
    /\ UNCHANGED <<server, socket, page, posts, faults>>

\* listMessages.
ListPage(before) ==
    LET rows == {i \in DOMAIN texts : before # 0 => i < before}
        more == Cardinality(rows) > PageSize
        slice == {i \in rows : Cardinality({j \in rows : j >= i}) <= PageSize}
    IN [items |-> [i \in DOMAIN Ascending(slice) |-> Message(Ascending(slice)[i])],
        more |-> more, cursor |-> IF more THEN Min(slice) ELSE 0]

\* The next step of a request; its event is emitted before it is answered or later.
Serve(c) ==
    /\ c \in calls /\ c.todo # <<>> /\ chat # Nothing
    /\ LET done == [c EXCEPT !.todo = Tail(@)]
           Answered(d) == calls' = (calls \ {c}) \cup {d}
       IN CASE Head(c.todo) = "chat" ->
                 Answered([done EXCEPT !.chat = chat]) /\ UNCHANGED server
            [] Head(c.todo) = "list" ->
                 Answered([done EXCEPT !.list = ListPage(c.id)]) /\ UNCHANGED server
            [] Head(c.todo) = "post" ->
                 Answered([done EXCEPT !.id = Len(texts) + 1, !.text = edits]) /\ CreateMessage
            [] Head(c.todo) = "write" -> Answered(done) /\ UpdateText(c.id, c.text)
            [] OTHER -> Answered([done EXCEPT !.chat = c.text]) /\ UpdateChat(c.text)
    /\ UNCHANGED <<socket, page, posts, edits, faults>>

\* Older messages are put in front, without those that are there already.
Prepend(messages, older) ==
    Sublist(older, {i \in DOMAIN older : older[i].id \notin Ids(messages)}) \o messages

Answer(c) ==
    /\ c \in calls /\ c.todo = <<>>
    /\ calls' = calls \ {c}
    /\ LET m == [id |-> c.id, text |-> c.text]
       IN page' =
          CASE c.kind = "load" ->
                 [page EXCEPT !.loading = FALSE, !.chat = c.chat, !.messages = c.list.items,
                              !.cursor = c.list.cursor, !.more = c.list.more,
                              !.newest = IF c.list.items = <<>> THEN 0 ELSE Last(c.list.items).id]
            [] c.kind = "older" ->
                 [page EXCEPT !.older = FALSE, !.messages = Prepend(@, c.list.items),
                              !.cursor = c.list.cursor, !.more = c.list.more]
            [] c.kind = "send" -> [page EXCEPT !.sending = FALSE, !.messages = ShowNew(@, m)]
            [] c.kind = "edit" -> [page EXCEPT !.messages = ShowText(@, m)]
            [] OTHER -> [page EXCEPT !.chat = c.chat]
    /\ UNCHANGED <<server, socket, posts, edits, faults>>

\* Forbidden, gone or unreachable.
Fail(c) ==
    /\ c \in calls
    /\ LET gone == c.todo # <<>> /\ chat = Nothing
       IN /\ gone \/ faults < MaxFaults
          /\ faults' = IF gone THEN faults ELSE faults + 1
    /\ calls' = calls \ {c}
    /\ page' = CASE c.kind = "load" -> [page EXCEPT !.loading = FALSE, !.error = TRUE]
                 [] c.kind = "older" -> [page EXCEPT !.older = FALSE]
                 [] c.kind = "send" -> [page EXCEPT !.sending = FALSE]
                 [] OTHER -> page
    /\ UNCHANGED <<server, socket, posts, edits>>

-----------------------------------------------------------------------------

Next ==
    \/ WrittenElsewhere \/ EditedElsewhere
    \/ \E e \in unsaid : Emit(e)
    \/ Join \/ Reconnect \/ Hear
    \/ Open \/ Leave \/ LoadOlder \/ HandleSend \/ ChangeMembers
    \/ \E id \in DOMAIN texts : SaveEdit(id)
    \/ \E c \in calls : Serve(c) \/ Answer(c) \/ Fail(c)

Spec == Init /\ [][Next]_vars

-----------------------------------------------------------------------------
(* Properties. *)

TypeOK ==
    /\ texts \in Seq(0..MaxEdits) /\ chat \in {Nothing} \cup 0..MaxEdits
    /\ page.chat \in {Nothing} \cup 0..MaxEdits
    /\ joined \in BOOLEAN

\* A message is shown once, though the page hears of it from the answer to its own
\* request, from the room and from the pages of the history, in any order; and from
\* the newest message it has loaded down to the cursor it has them all.
ThreadHasNoHole ==
    /\ \A i, j \in DOMAIN page.messages : i # j => page.messages[i].id # page.messages[j].id
    /\ \A id \in 1..page.newest : (page.more => id >= page.cursor) => id \in Ids(page.messages)
=============================================================================
