---------------------------- MODULE OrderThread ----------------------------
(***************************************************************************)
(* The page of an order (frontend, pages/OrderThreadPage.tsx) and the part *)
(* of the server it talks to: the order as it answers it, and its messages *)
(* (messages/messages.service.ts).                                         *)
(*                                                                         *)
(* The page asks again every three seconds while people edit and write.    *)
(* Every request is a call: steps it takes at the server one after the     *)
(* other, then an answer, in any order with the answers of other calls, or *)
(* an error after any of its steps.  A value of a field is the number of   *)
(* the edit it comes from.                                                 *)
(***************************************************************************)
EXTENDS Naturals, Sequences, FiniteSetsExt, SequencesExt, Sorting

CONSTANTS
    PageSize,    \* MESSAGES_PAGE_SIZE
    JumpSize,    \* limit of the requests of a jump
    Nothing,     \* no order, no answer yet
    MaxEdits, MaxMessages, MaxPosts, MaxFaults, MaxOpens  \* bounds

ASSUME LimitsAreNatural ==
    /\ PageSize \in Nat \ {0} /\ JumpSize \in Nat \ {0} /\ MaxMessages \in Nat

VARIABLES
    order,   \* the order as GET /orders/:id answers it
    count,   \* its messages are 1..count: ids ascend with time
    page,    \* state and refs of the component
    calls,   \* requests under way
    edits, posts, faults, opens

vars == <<order, count, page, calls, edits, posts, faults, opens>>

\* files: pinned sketches and print files; rest: note, dates, artists, link, number, title.
Fields == {"status", "comment", "files", "rest"}

Closed == [open |-> FALSE, loading |-> FALSE, error |-> FALSE, order |-> Nothing,
           draft |-> 0, saved |-> 0, messages |-> <<>>, cursor |-> 0, more |-> FALSE,
           newest |-> 0, older |-> FALSE, poll |-> FALSE, saving |-> {}, form |-> Nothing, sending |-> FALSE]

\* A request: the steps it still takes, and what it has been answered.
Request(kind, todo) ==
    [kind |-> kind, todo |-> todo, order |-> Nothing, list |-> Nothing, field |-> Nothing,
     value |-> 0, prev |-> Nothing, live |-> TRUE]

Init ==
    /\ order = [f \in Fields |-> 0]
    /\ count \in 0..MaxMessages
    /\ page = Closed /\ calls = {}
    /\ edits \in 0..MaxEdits /\ posts \in 0..MaxPosts /\ faults = 0 /\ opens = 0

-----------------------------------------------------------------------------
(* The server. *)

\* Mutant: the cursor is the row that was only looked at.
ListPageBeyond(limit, before) ==
    LET rows == {i \in 1..count : before # 0 => i < before}
        more == Cardinality(rows) > limit
        slice == {i \in rows : Cardinality({j \in rows : j >= i}) <= limit}
    IN [items |-> slice, more |-> more, cursor |-> IF more THEN Min(slice) - 1 ELSE 0]

\* MessagesService.list: one more row than asked for tells whether there are more.
ListPage(limit, before) ==
    LET rows == {i \in 1..count : before # 0 => i < before}
        more == Cardinality(rows) > limit
        slice == {i \in rows : Cardinality({j \in rows : j >= i}) <= limit}
    IN [items |-> slice, more |-> more, cursor |-> IF more THEN Min(slice) ELSE 0]

Limit(kind) == IF kind = "jump" THEN JumpSize ELSE PageSize

\* The next step of a request: read the order, read messages, store an upload, write a
\* field, create the message.
Serve(c) ==
    /\ c.todo # <<>>
    /\ LET done == [c EXCEPT !.todo = Tail(@)]
           answered == CASE Head(c.todo) = "order" -> [done EXCEPT !.order = order]
                         [] Head(c.todo) = "list" ->
                                [done EXCEPT !.list = ListPage(Limit(c.kind), c.value)]
                         [] Head(c.todo) = "post" -> [done EXCEPT !.value = count + 1]
                         [] OTHER -> done
       IN calls' = (calls \ {c}) \cup {answered}
    /\ order' = IF Head(c.todo) = "write" THEN [order EXCEPT ![c.field] = c.value] ELSE order
    /\ count' = IF Head(c.todo) = "post" THEN count + 1 ELSE count
    /\ UNCHANGED <<page, edits, posts, faults, opens>>

\* Other people, the synchronisation, other tabs.
EditedElsewhere(f) ==
    /\ edits < MaxEdits
    /\ edits' = edits + 1
    /\ order' = [order EXCEPT ![f] = edits']
    /\ UNCHANGED <<count, page, calls, posts, faults, opens>>

WrittenElsewhere ==
    /\ posts < MaxPosts /\ posts' = posts + 1
    /\ count' = count + 1
    /\ UNCHANGED <<order, page, calls, edits, faults, opens>>

-----------------------------------------------------------------------------
(* Requests of the page. *)

Send(c) == calls' = calls \cup {c}

\* The component is mounted: loadAll, whose requests run in parallel, and the timer.
Open(todo) ==
    /\ ~page.open /\ opens < MaxOpens
    /\ opens' = opens + 1
    /\ page' = [Closed EXCEPT !.open = TRUE, !.loading = TRUE]
    /\ Send(Request("load", todo))
    /\ UNCHANGED <<order, count, edits, posts, faults>>

\* The component is unmounted; what it has sent goes on without it, reads are of no use.
Leave ==
    /\ page.open
    /\ page' = Closed
    /\ calls' = {[c EXCEPT !.live = FALSE] :
                    c \in {d \in calls : Range(d.todo) \cap {"write", "post"} # {}}}
    /\ UNCHANGED <<order, count, edits, posts, faults, opens>>

\* Three seconds after the last poll.
Poll ==
    /\ page.open /\ ~page.poll
    /\ page' = [page EXCEPT !.poll = TRUE]
    /\ Send(Request("poll", <<"order">>))
    /\ UNCHANGED <<order, count, edits, posts, faults, opens>>

\* The controls are there.
Shown == page.open /\ ~page.loading /\ ~page.error /\ page.order # Nothing

LoadOlder ==
    /\ Shown /\ ~page.older /\ page.more
    /\ page' = [page EXCEPT !.older = TRUE]
    /\ Send([Request("older", <<"list">>) EXCEPT !.value = page.cursor])
    /\ UNCHANGED <<order, count, edits, posts, faults, opens>>

\* A jump to a pinned sketch that is not among the loaded messages.
JumpToPinnedSketch(target) ==
    /\ Shown /\ ~page.older /\ page.more
    /\ target \in 1..count /\ ~Contains(page.messages, target)
    /\ page' = [page EXCEPT !.older = TRUE]
    /\ Send([Request("jump", <<"list">>) EXCEPT !.field = target, !.value = page.cursor,
                                               !.prev = <<>>])
    /\ UNCHANGED <<order, count, edits, posts, faults, opens>>

\* The comment is disabled while it is saved.
TypeComment ==
    /\ Shown /\ "comment" \notin page.saving /\ edits < MaxEdits
    /\ edits' = edits + 1
    /\ page' = [page EXCEPT !.draft = edits']
    /\ UNCHANGED <<order, count, calls, posts, faults, opens>>

SaveComment ==
    /\ Shown /\ "comment" \notin page.saving /\ page.draft # page.order.comment
    /\ page' = [page EXCEPT !.saving = @ \cup {"comment"}]
    /\ Send([Request("save", <<"write", "order">>) EXCEPT !.field = "comment", !.value = page.draft])
    /\ UNCHANGED <<order, count, edits, posts, faults, opens>>

\* handleOrderStatusChange shows the status at once and keeps the order it replaces;
\* the other fields are shown when they are saved.
SaveField(f) ==
    /\ Shown /\ f \notin page.saving /\ edits < MaxEdits
    /\ edits' = edits + 1
    /\ page' = [page EXCEPT !.saving = @ \cup {f},
                            !.order.status = IF f = "status" THEN edits' ELSE @]
    /\ Send([Request("save", <<"write", "order">>) EXCEPT
                 !.field = f, !.value = edits', !.prev = page.order])
    /\ UNCHANGED <<order, count, posts, faults, opens>>

\* The dialog takes over the fields as they are shown and writes all of them.
OpenEdit ==
    /\ Shown /\ page.form = Nothing
    /\ page' = [page EXCEPT !.form = page.order.rest]
    /\ UNCHANGED <<order, count, calls, edits, posts, faults, opens>>

CancelEdit ==
    /\ Shown /\ page.form # Nothing /\ "edit" \notin page.saving
    /\ page' = [page EXCEPT !.form = Nothing]
    /\ UNCHANGED <<order, count, calls, edits, posts, faults, opens>>

SaveEdit(changed) ==
    /\ Shown /\ page.form # Nothing /\ "edit" \notin page.saving
    /\ edits < MaxEdits
    /\ edits' = edits + 1
    /\ LET form == IF changed THEN edits' ELSE page.form
       IN /\ page' = [page EXCEPT !.saving = @ \cup {"edit"}, !.form = form]
          /\ Send([Request("edit", <<"write", "order">>) EXCEPT !.field = "rest", !.value = form])
    /\ UNCHANGED <<order, count, posts, faults, opens>>

\* handleSend uploads the files, one here, and then posts the message.
SendMessage(todo) ==
    /\ Shown /\ ~page.sending /\ posts < MaxPosts
    /\ posts' = posts + 1
    /\ page' = [page EXCEPT !.sending = TRUE]
    /\ Send(Request("send", todo))
    /\ UNCHANGED <<order, count, edits, faults, opens>>

-----------------------------------------------------------------------------
(* Answers. *)

\* Older messages are put in front, without those that are there already.
Prepend(messages, ids) == Ascending(ids \ Range(messages)) \o messages

\* Mutant: the draft always follows the order.
RefreshMetaOver(p, answer) ==
    [p EXCEPT !.order = answer, !.draft = answer.comment, !.saved = answer.comment]

\* refreshOrderMeta: the draft follows the order unless somebody is writing it.
RefreshMeta(p, answer) ==
    LET clean == p.draft = p.saved
    IN [p EXCEPT !.order = answer,
                 !.draft = IF clean THEN answer.comment ELSE @,
                 !.saved = IF clean THEN answer.comment ELSE @]

Loaded(p, c) ==
    [p EXCEPT !.loading = FALSE, !.order = c.order, !.draft = c.order.comment,
              !.saved = c.order.comment, !.messages = Ascending(c.list.items),
              !.cursor = c.list.cursor, !.more = c.list.more,
              !.newest = IF c.list.items = {} THEN 0 ELSE Max(c.list.items)]

OlderLoaded(p, list) ==
    [p EXCEPT !.older = FALSE, !.messages = Prepend(@, list.items),
              !.cursor = list.cursor, !.more = list.more]

\* Pinned sketches and print files are merged into the order that is shown.
Saved(p, c) ==
    LET done == [p EXCEPT !.saving = @ \ {c.field}]
    IN CASE c.field = "files" -> [done EXCEPT !.order.files = c.order.files]
         [] c.field = "comment" -> [done EXCEPT !.order = c.order, !.draft = c.order.comment,
                                                !.saved = c.order.comment]
         [] OTHER -> [done EXCEPT !.order = c.order]

Answered(c) == c \in calls /\ c.live /\ c.todo = <<>>

Answer(c) ==
    /\ Answered(c) /\ c.kind \notin {"jump", "send"}
    /\ page' = CASE c.kind = "load" -> Loaded(page, c)
                 [] c.kind = "poll" -> [RefreshMeta(page, c.order) EXCEPT !.poll = FALSE]
                 [] c.kind = "meta" -> RefreshMeta(page, c.order)
                 [] c.kind = "older" -> OlderLoaded(page, c.list)
                 [] c.kind = "save" -> Saved(page, c)
                 [] c.kind = "edit" -> [page EXCEPT !.order = c.order, !.form = Nothing,
                                                    !.saving = @ \ {"edit"}]
    /\ calls' = calls \ {c}
    /\ UNCHANGED <<order, count, edits, posts, faults, opens>>

\* The message is shown last, the composer is empty, the header is asked for again.
AnswerSend(c) ==
    /\ Answered(c) /\ c.kind = "send"
    /\ page' = [page EXCEPT !.sending = FALSE, !.messages = Append(@, c.value)]
    /\ calls' = (calls \ {c}) \cup {Request("meta", <<"order">>)}
    /\ UNCHANGED <<order, count, edits, posts, faults, opens>>

\* A jump asks page by page until it has found the sketch, and then shows all it has
\* collected; a sketch that is not there leaves the page as it was.
AnswerJump(c) ==
    /\ Answered(c) /\ c.kind = "jump"
    /\ LET all == <<c.list.items>> \o c.prev
           older == UNION Range(all)
           found == c.field \in c.list.items
       IN IF ~found /\ c.list.more
          THEN /\ calls' = (calls \ {c}) \cup
                     {[c EXCEPT !.todo = <<"list">>, !.list = Nothing, !.prev = all,
                                !.value = c.list.cursor]}
               /\ UNCHANGED page
          ELSE /\ calls' = calls \ {c}
               /\ page' = IF found
                          THEN OlderLoaded(page, [c.list EXCEPT !.items = older])
                          ELSE [page EXCEPT !.older = FALSE]
    /\ UNCHANGED <<order, count, edits, posts, faults, opens>>

\* Nobody waits for the answer any more.
AnswerNobody(c) ==
    /\ c \in calls /\ ~c.live /\ c.todo = <<>>
    /\ calls' = calls \ {c}
    /\ UNCHANGED <<order, count, page, edits, posts, faults, opens>>

\* Mutant: an error ends the polling.
FailedForGood(p, c) ==
    CASE c.kind = "load" -> [p EXCEPT !.loading = FALSE, !.error = TRUE]
      [] c.kind \in {"older", "jump"} -> [p EXCEPT !.older = FALSE]
      [] c.kind = "send" -> [p EXCEPT !.sending = FALSE]
      [] c.kind = "edit" -> [p EXCEPT !.saving = @ \ {"edit"}]
      [] c.kind = "save" -> [p EXCEPT !.saving = @ \ {c.field},
                                      !.order = IF c.field = "status" THEN c.prev ELSE @]
      [] OTHER -> p

\* The page after an error: the next poll is due, the status is what it was.
Failed(p, c) ==
    CASE c.kind = "load" -> [p EXCEPT !.loading = FALSE, !.error = TRUE]
      [] c.kind = "poll" -> [p EXCEPT !.poll = FALSE]
      [] c.kind = "meta" -> p
      [] c.kind \in {"older", "jump"} -> [p EXCEPT !.older = FALSE]
      [] c.kind = "send" -> [p EXCEPT !.sending = FALSE]
      [] c.kind = "edit" -> [p EXCEPT !.saving = @ \ {"edit"}]
      [] c.kind = "save" -> [p EXCEPT !.saving = @ \ {c.field},
                                      !.order = IF c.field = "status" THEN c.prev ELSE @]

\* The server or the connection fails, before or after any step.
Fail(c) ==
    /\ c \in calls /\ faults < MaxFaults
    /\ faults' = faults + 1
    /\ page' = IF c.live THEN Failed(page, c) ELSE page
    /\ calls' = calls \ {c}
    /\ UNCHANGED <<order, count, edits, posts, opens>>

-----------------------------------------------------------------------------

User ==
    \/ \E todo \in {<<"order", "list">>, <<"list", "order">>} : Open(todo)
    \/ Leave \/ LoadOlder \/ TypeComment \/ SaveComment \/ OpenEdit \/ CancelEdit
    \/ \E changed \in BOOLEAN : SaveEdit(changed)
    \/ \E f \in Fields \ {"comment"} : SaveField(f)
    \/ \E target \in 1..MaxMessages + MaxPosts : JumpToPinnedSketch(target)
    \/ \E todo \in {<<"post">>, <<"upload", "post">>} : SendMessage(todo)

Arrive == \E c \in calls : Answer(c) \/ AnswerSend(c) \/ AnswerJump(c) \/ AnswerNobody(c)

Next ==
    \/ User \/ Poll \/ Arrive
    \/ \E c \in calls : Serve(c) \/ Fail(c)
    \/ WrittenElsewhere \/ \E f \in Fields : EditedElsewhere(f)

Spec == Init /\ [][Next]_vars

\* The browser fires its timers and every request is answered or given up.
Kinds == {"load", "poll", "meta", "older", "jump", "save", "edit", "send"}
ServeKind(kind) == \E c \in calls : c.kind = kind /\ Serve(c)
AnswerKind(kind) ==
    \E c \in calls : c.kind = kind /\ (Answer(c) \/ AnswerSend(c) \/ AnswerJump(c))

Fairness ==
    /\ WF_vars(Poll)
    /\ \A kind \in Kinds : WF_vars(ServeKind(kind)) /\ WF_vars(AnswerKind(kind))
FairSpec == Spec /\ Fairness

-----------------------------------------------------------------------------
(* Properties. *)

TypeOK ==
    /\ order \in [Fields -> 0..MaxEdits] /\ count \in 0..MaxMessages + MaxPosts
    /\ page.order \in {Nothing} \cup [Fields -> 0..MaxEdits]
    /\ page.draft \in 0..MaxEdits /\ page.saved \in 0..MaxEdits
    /\ page.saving \subseteq Fields \cup {"edit"} /\ page.cursor \in 0..MaxMessages + MaxPosts

\* A comment that somebody is writing is never replaced by what the page hears of the
\* order: it goes when this very text has been saved, or with the page.
DraftIsKept ==
    [][page.draft # page.saved /\ page.draft' # page.draft /\ page'.open =>
          \/ TypeComment
          \/ \E c \in calls : Answered(c) /\ c.field = "comment" /\ c.value = page.draft]_page

\* The history is contiguous: from the newest message of the first page down to the
\* cursor every message is there, once and in its place, and nothing is missing when
\* there is no more to load, however scrolling, jumps and sent messages interleave.
HistoryHasNoHole ==
    /\ \A i, j \in DOMAIN page.messages : i < j => page.messages[i] < page.messages[j]
    /\ \A id \in 1..page.newest :
           (page.more => id >= page.cursor) => Contains(page.messages, id)

\* The header and a comment nobody is writing come to show the order as it is, in spite
\* of late answers, of an optimistic status that was taken back, and of errors.
HeaderCatchesUp ==
    <>[](page.open => /\ page.order = order
                      /\ page.draft = page.saved => page.draft = order.comment)
=============================================================================
