----------------------------- MODULE OrderFiles -----------------------------
(***************************************************************************)
(* The end of an order and of its files: the two lifecycle workers         *)
(* of order-lifecycle, which mark old orders, delete their attachments a   *)
(* week later and complete them; attachments that come and go meanwhile    *)
(* (messages, orders.update, orders.remove); and the previews rendered for *)
(* them in the background (attachment-previews.service.ts).                *)
(*                                                                         *)
(* A key stands for an original in MinIO and, in previews, for the two     *)
(* objects made from it.  An original may be attached more than once.  The *)
(* queue of deletions is that of StorageCleanup: here a row that is due    *)
(* takes its objects away in one step.                                     *)
(***************************************************************************)
EXTENDS Naturals, FiniteSets

CONSTANTS
    NumOrders, Keys,
    Running,    \* the workers that run
    PageSize,   \* orders per pass, attachments per batch: 100
    Enabled,    \* ORDER_ATTACHMENT_CLEANUP_ENABLED, ORDER_AUTO_COMPLETE_ENABLED
    Delay,      \* CLEANUP_DELAY_MS, in ticks
    MaxChanges, MaxFaults  \* bounds

Orders == 1..NumOrders
Kinds == {"cleanup", "completion"}

VARIABLES
    status,     \* of the order: as far as the lifecycle tells it apart; "gone": removed
    tags,       \* kind, order |-> OrderSystemTag: [there, age, done]
    att,        \* order, key |-> the attachment: [preview, tries, age, late]
    original,   \* keys whose original is stored
    preview,    \* keys whose previews are stored
    meta,       \* key |-> the preview status stored with the original
    deletion,   \* key |-> StoredFileDeletion: "none", "later" (in ten minutes), "due"
    worker,     \* kind |-> where its tick is: [at, page, cursor, actions]
    render,     \* key |-> processAttachment: [at, for]
    attaching,  \* requests that have asked for the metadata: [order, key, preview]
    removal,    \* an order being removed: its id and the keys read before
    handed,     \* history: keys deleteBatch or a render has handed over
    spoiled,    \* history: keys attached while being deleted, or of a removed order
    changes, faults

people == <<attaching, removal>>
store == <<original, preview, meta, deletion>>
history == <<handed, spoiled>>
vars == <<status, tags, att, store, worker, render, people, history, changes, faults>>

NoTag == [there |-> FALSE, age |-> 0, done |-> FALSE]
NoAttachment == [preview |-> "none", tries |-> 0, age |-> 0, late |-> FALSE]
NoTick == [at |-> "idle", page |-> {}, cursor |-> 0, actions |-> 0]
NoRender == [at |-> "idle", for |-> 0]
NoRemoval == [order |-> 0, keys |-> {}]

Attached(k) == {o \in Orders : att[o][k].preview # "none"}
KeysOf(o) == {k \in Keys : att[o][k].preview # "none"}

\* Files may have been uploaded and attached before the workers are started.
Init ==
    /\ status \in [Orders -> {"work", "sent", "gone"}]
    /\ tags = [kind \in Kinds |-> [o \in Orders |-> NoTag]]
    /\ meta \in [Keys -> {"none", "pending", "shown"}]
    /\ original = {k \in Keys : meta[k] # "none"}
    /\ preview = {k \in Keys : meta[k] = "shown"}
    /\ att = [o \in Orders |-> [k \in Keys |->
                 IF status[o] = "gone" THEN NoAttachment ELSE [NoAttachment EXCEPT !.preview = meta[k]]]]
    /\ deletion = [k \in Keys |-> "none"]
    /\ worker = [kind \in Kinds |-> NoTick]
    /\ render = [k \in Keys |-> NoRender]
    /\ attaching = {} /\ removal = NoRemoval
    /\ handed = {} /\ spoiled = {}
    /\ changes \in 0..MaxChanges /\ faults \in 0..MaxFaults

Change == changes < MaxChanges /\ changes' = changes + 1
Fault == faults < MaxFaults /\ faults' = faults + 1

\* lifecycleEligible; an order whose deadline is not two months past counts as "work".
Eligible(s, kind) == s \in {"sent", "delivered"} \/ (s = "cancelled" /\ kind = "cleanup")

-----------------------------------------------------------------------------
(* Time. Ages stop growing when they are over the delay. *)

Older(r) == [r EXCEPT !.age = IF @ > Delay THEN @ ELSE @ + 1]

Tick ==
    /\ tags' = [kind \in Kinds |-> [o \in Orders |->
                  IF tags[kind][o].there /\ ~tags[kind][o].done THEN Older(tags[kind][o])
                  ELSE tags[kind][o]]]
    /\ att' = [o \in Orders |-> [k \in Keys |->
                  IF att[o][k].late THEN Older(att[o][k]) ELSE att[o][k]]]
    /\ <<tags, att>>' # <<tags, att>>
    /\ UNCHANGED <<status, store, worker, render, people, history, changes, faults>>

\* Ten minutes are enough for a preview that is being rendered.
BecomesDue(k) ==
    /\ deletion[k] = "later" /\ render[k].at = "idle"
    /\ deletion' = [deletion EXCEPT ![k] = "due"]
    /\ UNCHANGED <<status, tags, att, original, preview, meta, worker, render, people, history, changes, faults>>

\* removeStoredObject for the rows of the key.
Delete(k) ==
    /\ deletion[k] = "due"
    /\ original' = original \ {k} /\ preview' = preview \ {k}
    /\ deletion' = [deletion EXCEPT ![k] = "none"]
    /\ UNCHANGED <<status, tags, att, meta, worker, render, people, history, changes, faults>>

-----------------------------------------------------------------------------
(* People and imports. *)

SetStatus(o) ==
    /\ Change /\ status[o] # "gone"
    /\ \E s \in {"work", "sent", "cancelled"} \ {status[o]} : status' = [status EXCEPT ![o] = s]
    /\ UNCHANGED <<tags, att, store, worker, render, people, history, faults>>

\* upload: the preview is made first; without it the original is stored as pending.
Upload(k) ==
    /\ meta[k] = "none"
    /\ original' = original \cup {k}
    /\ \E p \in {"shown", "pending"} :
          /\ meta' = [meta EXCEPT ![k] = p]
          /\ preview' = IF p = "shown" THEN preview \cup {k} ELSE preview
    /\ UNCHANGED <<status, tags, att, deletion, worker, render, people, history, changes, faults>>

\* buildCreateInput, orders.update: the metadata of a stored original are asked for.
AskToAttach(o, k) ==
    /\ Change /\ status[o] # "gone"
    /\ k \in original /\ k \notin KeysOf(o) /\ attaching = {}
    /\ attaching' = {[order |-> o, key |-> k, preview |-> meta[k]]}
    /\ UNCHANGED <<status, tags, att, store, worker, render, removal, history, faults>>

Attach(a) ==
    /\ attaching' = attaching \ {a}
    /\ IF status[a.order] = "gone" THEN UNCHANGED <<att, handed, spoiled>>
       ELSE LET late == tags["cleanup"][a.order].done IN
            /\ att' = [att EXCEPT ![a.order][a.key] =
                          [preview |-> a.preview, tries |-> 0, age |-> 0, late |-> late]]
            /\ handed' = handed \ {a.key}
            /\ spoiled' = IF a.key \notin original \/ deletion[a.key] # "none"
                          THEN spoiled \cup {a.key} ELSE spoiled
    /\ UNCHANGED <<status, tags, store, worker, render, removal, changes, faults>>

\* orders.update: a photo is taken off the order; its original stays.
RemovePhoto(o, k) ==
    /\ Change
    /\ k \in KeysOf(o)
    /\ att' = [att EXCEPT ![o][k] = NoAttachment]
    /\ UNCHANGED <<status, tags, store, worker, render, people, history, faults>>

\* orders.remove: the keys are read, the order goes, then the objects, shared or not.
AskToRemove(o) ==
    /\ Change /\ status[o] # "gone" /\ removal = NoRemoval
    /\ removal' = [order |-> o, keys |-> KeysOf(o)]
    /\ UNCHANGED <<status, tags, att, store, worker, render, attaching, history, faults>>

RemoveOrder ==
    LET o == removal.order IN
    /\ o # 0 /\ status[o] # "gone"
    /\ status' = [status EXCEPT ![o] = "gone"]
    /\ tags' = [kind \in Kinds |-> [tags[kind] EXCEPT ![o] = NoTag]]
    /\ att' = [att EXCEPT ![o] = [k \in Keys |-> NoAttachment]]
    /\ spoiled' = spoiled \cup removal.keys
    /\ UNCHANGED <<store, worker, render, people, handed, changes, faults>>

\* removeObjects: errors are only logged.
RemoveObjects ==
    /\ removal.order # 0 /\ status[removal.order] = "gone"
    /\ \/ /\ original' = original \ removal.keys /\ preview' = preview \ removal.keys
          /\ UNCHANGED faults
       \/ Fault /\ UNCHANGED <<original, preview>>
    /\ removal' = NoRemoval
    /\ UNCHANGED <<status, tags, att, meta, deletion, worker, render, attaching, history, changes>>

-----------------------------------------------------------------------------
(* A tick of a lifecycle worker: a page of orders is marked, then a page   *)
(* of marks is acted upon.                                                 *)

\* The first few above the cursor.
Page(S, cursor) ==
    LET above == {o \in S : o > cursor}
    IN {o \in above : Cardinality({p \in above : p < o}) < PageSize}

\* A full page is followed by the next one, another by the first.
After(page) ==
    IF Cardinality(page) = PageSize THEN CHOOSE o \in page : \A p \in page : p <= o ELSE 0

First(page) == CHOOSE o \in page : \A p \in page : o <= p

\* Only the fields of the worker that are named change.
At(kind, w) == worker' = [worker EXCEPT ![kind] = w]
Without(kind, o) == [worker[kind] EXCEPT !.page = @ \ {o}]

StartTick(kind) ==
    /\ worker[kind].at = "idle" /\ kind \in Running
    /\ LET page == Page({o \in Orders : status[o] # "gone"}, worker[kind].cursor)
       IN At(kind, [worker[kind] EXCEPT !.at = "mark", !.page = page, !.cursor = After(page)])
    /\ UNCHANGED <<status, tags, att, store, render, people, history, changes, faults>>

\* Mutant: the mark of new attachments keeps its date.
RearmOld(tag) == [tag EXCEPT !.done = FALSE]

Rearm(tag) == [tag EXCEPT !.age = 0, !.done = FALSE]

\* What the transaction makes of the mark.
Marked(kind, o) ==
    LET tag == tags[kind][o]
    IN IF ~Eligible(status[o], kind) THEN IF tag.done THEN tag ELSE NoTag
       ELSE IF ~tag.there THEN [NoTag EXCEPT !.there = TRUE]
       ELSE IF kind = "cleanup" /\ tag.done /\ KeysOf(o) # {} THEN Rearm(tag)
       ELSE tag

Mark(kind) ==
    /\ worker[kind].at = "mark" /\ worker[kind].page # {}
    /\ LET o == First(worker[kind].page) IN
          /\ tags' = IF status[o] = "gone" THEN tags ELSE [tags EXCEPT ![kind][o] = Marked(kind, o)]
          /\ At(kind, Without(kind, o))
    /\ UNCHANGED <<status, att, store, render, people, history, changes, faults>>

\* Marks that are not done; for the cleanup, those that are old enough.
StartActions(kind) ==
    /\ worker[kind].at = "mark" /\ worker[kind].page = {}
    /\ LET due == {o \in Orders : /\ tags[kind][o].there /\ ~tags[kind][o].done
                                  /\ kind = "cleanup" => tags[kind][o].age > Delay}
           page == Page(due, worker[kind].actions)
       IN At(kind, IF Enabled
                   THEN [worker[kind] EXCEPT !.at = "act", !.page = page, !.actions = After(page)]
                   ELSE [worker[kind] EXCEPT !.at = "idle"])
    /\ UNCHANGED <<status, tags, att, store, render, people, history, changes, faults>>

EndTick(kind) ==
    /\ worker[kind].at = "act" /\ worker[kind].page = {}
    /\ At(kind, [worker[kind] EXCEPT !.at = "idle"])
    /\ UNCHANGED <<status, tags, att, store, render, people, history, changes, faults>>

\* A transaction is rolled back: the others of the page go on.
RowFails(kind) ==
    /\ worker[kind].page # {} /\ Fault
    /\ At(kind, [Without(kind, First(worker[kind].page)) EXCEPT
                    !.at = IF @ = "mark" THEN @ ELSE "act"])
    /\ UNCHANGED <<status, tags, att, store, render, people, history, changes>>

-----------------------------------------------------------------------------
(* What the workers do. *)

\* Mutant: the originals of the batch are handed over, whoever uses them.
UnusedAny(o, batch) == batch

\* What no attachment refers to any more.
Unused(o, batch) == {k \in batch : Attached(k) = {o}}

\* A batch of the attachments of the order: the lowest ids, any of them here.
Batch(o) ==
    {batch \in SUBSET KeysOf(o) :
        Cardinality(batch) = IF Cardinality(KeysOf(o)) < PageSize
                             THEN Cardinality(KeysOf(o)) ELSE PageSize}

\* deleteBatch, one transaction under the lock of the order's row; everything is
\* checked again.
DeleteBatch ==
    /\ worker["cleanup"].at = "act" /\ worker["cleanup"].page # {}
    /\ LET o == First(worker["cleanup"].page)
           tag == tags["cleanup"][o]
       IN /\ At("cleanup", Without("cleanup", o))
          /\ IF tag.there /\ ~tag.done /\ tag.age > Delay /\ Eligible(status[o], "cleanup")
             THEN \E batch \in Batch(o) :
                    /\ att' = [att EXCEPT ![o] = [k \in Keys |->
                                 IF k \in batch THEN NoAttachment ELSE att[o][k]]]
                    /\ deletion' = [k \in Keys |->
                          IF k \notin Unused(o, batch) THEN deletion[k]
                          ELSE IF att[o][k].preview = "pending" THEN "later" ELSE "due"]
                    /\ handed' = handed \cup Unused(o, batch)
                    /\ tags' = IF batch = KeysOf(o)
                               THEN [tags EXCEPT !["cleanup"][o] = [tag EXCEPT !.done = TRUE]]
                               ELSE tags
             ELSE UNCHANGED <<att, deletion, handed, tags>>
    /\ UNCHANGED <<status, original, preview, meta, render, people, spoiled, changes, faults>>

\* The completion reads the order first.
CheckOrder ==
    /\ worker["completion"].at = "act" /\ worker["completion"].page # {}
    /\ LET o == First(worker["completion"].page)
       IN At("completion", IF Eligible(status[o], "completion")
                           THEN [worker["completion"] EXCEPT !.at = status[o]]
                           ELSE Without("completion", o))
    /\ UNCHANGED <<status, tags, att, store, render, people, history, changes, faults>>

\* Mutant: the status that was read is not compared.
AsReadAny(o) == TRUE

\* expectedStatusId: the order still has the status that was read.
AsRead(o) == status[o] = worker["completion"].at

\* updateOrderStatus to "delivered".
Complete ==
    /\ worker["completion"].at \in {"sent", "delivered"}
    /\ LET o == First(worker["completion"].page)
       IN status' = IF status[o] # "gone" /\ AsRead(o)
                    THEN [status EXCEPT ![o] = "delivered"] ELSE status
    /\ At("completion", [worker["completion"] EXCEPT !.at = "completed"])
    /\ UNCHANGED <<tags, att, store, render, people, history, changes, faults>>

\* The mark is done if the order is delivered now.
MarkCompleted ==
    /\ worker["completion"].at = "completed"
    /\ LET o == First(worker["completion"].page)
       IN /\ tags' = IF status[o] = "delivered" /\ tags["completion"][o].there
                     THEN [tags EXCEPT !["completion"][o].done = TRUE] ELSE tags
          /\ At("completion", [Without("completion", o) EXCEPT !.at = "act"])
    /\ UNCHANGED <<status, att, store, render, people, history, changes, faults>>

-----------------------------------------------------------------------------
(* Previews in the background. *)

Rendering(k, place) == render' = [render EXCEPT ![k].at = place]

\* processBatch: an attachment that is pending and whose key nobody works on.
StartRender(o, k) ==
    /\ att[o][k].preview = "pending" /\ render[k].at = "idle"
    /\ render' = [render EXCEPT ![k] = [at |-> "render", for |-> o]]
    /\ UNCHANGED <<status, tags, att, store, worker, people, history, changes, faults>>

\* ensureImagePreviews: what is known already, or a rendering that is stored, or none
\* because the image is not one.
Render(k) ==
    /\ render[k].at = "render" /\ k \in original
    /\ preview' \in {preview} \cup (IF meta[k] = "pending" THEN {preview \cup {k}} ELSE {})
    /\ Rendering(k, "record")
    /\ UNCHANGED <<status, tags, att, original, meta, deletion, worker, people, history, changes, faults>>

\* Every attachment of the key.
Record(k) ==
    /\ render[k].at = "record"
    /\ att' = [o \in Orders |->
                 IF att[o][k].preview = "pending" THEN [att[o] EXCEPT ![k].preview = "shown"]
                 ELSE att[o]]
    /\ Rendering(k, "count")
    /\ UNCHANGED <<status, tags, store, worker, people, history, changes, faults>>

\* Mutant: the objects are not handed over again.
LeaveBehind(k) == deletion

\* The attachment went while its preview was rendered.
HandOver(k) == IF Attached(k) = {} THEN [deletion EXCEPT ![k] = "due"] ELSE deletion

EndRender(k) ==
    /\ render[k].at = "count"
    /\ deletion' = HandOver(k)
    /\ handed' = IF Attached(k) = {} THEN handed \cup {k} ELSE handed
    /\ render' = [render EXCEPT ![k] = NoRender]
    /\ UNCHANGED <<status, tags, att, original, preview, meta, worker, people, spoiled, changes, faults>>

\* MinIO or the database fails, or the original is not there: three times for one
\* attachment.
RenderFails(k) ==
    /\ render[k].at # "idle"
    /\ IF render[k].at = "render" /\ k \notin original THEN UNCHANGED faults ELSE Fault
    /\ LET a == att[render[k].for][k]
       IN att' = IF a.preview = "pending"
                 THEN [att EXCEPT ![render[k].for][k] =
                         [a EXCEPT !.tries = IF @ < 2 THEN @ + 1 ELSE @,
                                   !.preview = IF a.tries >= 2 THEN "failed" ELSE @]]
                 ELSE att
    /\ render' = [render EXCEPT ![k] = NoRender]
    /\ UNCHANGED <<status, tags, store, worker, people, history, changes>>

\* The process stops: the cursors are in memory.
Crash ==
    /\ Fault
    /\ worker' = [kind \in Kinds |-> NoTick]
    /\ render' = [k \in Keys |-> NoRender]
    /\ attaching' = {} /\ removal' = NoRemoval
    /\ UNCHANGED <<status, tags, att, store, history, changes>>

-----------------------------------------------------------------------------

Lifecycle(kind) == StartTick(kind) \/ Mark(kind) \/ StartActions(kind) \/ EndTick(kind)
Completion == CheckOrder \/ Complete \/ MarkCompleted
Preview(k) == (\E o \in Orders : StartRender(o, k)) \/ Render(k) \/ Record(k) \/ EndRender(k)

Next ==
    \/ Tick
    \/ \E o \in Orders : SetStatus(o) \/ AskToRemove(o)
    \/ \E o \in Orders, k \in Keys : AskToAttach(o, k) \/ RemovePhoto(o, k)
    \/ \E a \in attaching : Attach(a)
    \/ RemoveOrder \/ RemoveObjects
    \/ \E kind \in Kinds : Lifecycle(kind) \/ RowFails(kind)
    \/ DeleteBatch \/ Completion
    \/ \E k \in Keys : Upload(k) \/ Preview(k) \/ RenderFails(k) \/ BecomesDue(k) \/ Delete(k)
    \/ Crash

Spec == Init /\ [][Next]_vars

\* Time, the intervals and the queue go on; people need not.
FairSpec ==
    /\ Spec /\ WF_vars(Tick)
    /\ WF_vars(Lifecycle("cleanup") \/ DeleteBatch)
    /\ WF_vars(Lifecycle("completion") \/ Completion)
    /\ \A k \in Keys :
          WF_vars(Preview(k)) /\ WF_vars(RenderFails(k) /\ k \notin original)
          /\ WF_vars(BecomesDue(k)) /\ WF_vars(Delete(k))

-----------------------------------------------------------------------------
(* Properties. *)

TypeOK ==
    /\ status \in [Orders -> {"work", "sent", "cancelled", "delivered", "gone"}]
    /\ tags \in [Kinds -> [Orders -> [there : BOOLEAN, age : 0..(Delay + 1), done : BOOLEAN]]]
    /\ att \in [Orders -> [Keys -> [preview : {"none", "pending", "shown", "failed"}, tries : 0..2,
                                    age : 0..(Delay + 1), late : BOOLEAN]]]
    /\ \A k \in Keys : render[k].for # 0 <=> render[k].at # "idle"

\* Originals are kept "while references from other attachments remain": the cleanup
\* takes none that an attachment uses, unless it was attached during the deletion, or
\* belonged to an order that was removed by hand.
SharedOriginalsStay ==
    \A k \in Keys \ spoiled :
        Attached(k) # {} => k \in original /\ deletion[k] = "none"

\* Attachments that come after a completed cleanup get a new term of their own: the
\* cleanup does not take them before it is over.
TermKept ==
    DeleteBatch => \A o \in Orders : \A k \in KeysOf(o) :
        (att[o][k].late /\ k \notin {l \in Keys : att'[o][l].preview # "none"})
            => att[o][k].age > Delay

LateOnesGetTheirTerm == [][TermKept]_vars

\* The completion does not take a decision of a manager back: only an order that is
\* eligible at that moment becomes delivered.
OnlyEligible ==
    \A o \in Orders : status'[o] = "delivered" => Eligible(status[o], "completion")

ManagerDecides == [][OnlyEligible]_vars

\* An order that stays eligible ends without attachments, and what was handed over
\* ends without objects, previews that were being rendered included.
CleanupCompletes ==
    /\ \A o \in Orders : <>[]Eligible(status[o], "cleanup") => <>[](KeysOf(o) = {})
    /\ <>[](handed \cap (original \cup preview) = {})
=============================================================================
