--------------------------- MODULE StorageCleanup ---------------------------
(***************************************************************************)
(* The durable queue of objects to be deleted from MinIO                   *)
(* (storage/storage-cleanup.service.ts) and the contract of its clients.   *)
(*                                                                         *)
(* A client writes an object under a key of its own, records the key in a  *)
(* row before it writes, may serve the object, and in the end hands the    *)
(* key over for deletion.  It may do so while the write is under way; the  *)
(* writer that finds its key handed over hands it over once more.          *)
(*                                                                         *)
(* deletion[k] is the generation of the row of StoredFileDeletion, counted *)
(* from one; zero means that there is no row.  Keys are unique per write;  *)
(* a key that nothing refers to any more stands for a new one.             *)
(***************************************************************************)
EXTENDS Naturals

CONSTANTS
    Keys,          \* object keys
    MaxGeneration  \* bound: requests for one key while its row exists

MaxGenerationIsPositive == MaxGeneration \in Nat \ {0}

VARIABLES
    stored,    \* objects in MinIO
    deletion,  \* generation of the row of a key; 0: no row
    due,       \* keys whose nextAttemptAt has passed
    batch,     \* the generations processBatch read for the keys it has yet to handle
    removed,   \* the key whose object it has removed and whose row it has not
    writers,   \* keys that a live worker may still write
    tracked,   \* keys recorded in a row of the client
    served,    \* tracked keys whose object is promised to readers
    condemned  \* history: keys handed over so far

cleaner == <<batch, removed>>
client  == <<writers, tracked, served>>
vars == <<stored, deletion, due, cleaner, client, condemned>>

Generations == 1..MaxGeneration
Scheduled == {k \in Keys : deletion[k] # 0}
InBatch == {k \in Keys : batch[k] # 0}

TypeOK ==
    /\ stored \in SUBSET Keys
    /\ deletion \in [Keys -> Generations \cup {0}]
    /\ due \in SUBSET Keys
    /\ batch \in [Keys -> Generations \cup {0}]
    /\ removed \in SUBSET Keys
    /\ writers \in SUBSET Keys
    /\ tracked \in SUBSET Keys
    /\ served \in SUBSET Keys
    /\ condemned \in SUBSET Keys

NoBatch == [k \in Keys |-> 0]

Init ==
    /\ stored = {} /\ deletion = [k \in Keys |-> 0] /\ due = {}
    /\ batch = NoBatch /\ removed = {}
    /\ writers = {} /\ tracked = {} /\ served = {}
    /\ condemned = {}

-----------------------------------------------------------------------------
(* What clients do. *)

\* Mutant: keys are not unique per write.
FreshReused(k) == k \notin writers \cup tracked

\* Nothing refers to the key: it stands for one that was never used.
Fresh(k) == k \notin writers \cup tracked \cup stored \cup Scheduled \cup InBatch

\* Mutant: a second request leaves the row as it is.
EnqueueOnce(requested, now, new) ==
    /\ \A k \in requested : deletion[k] < MaxGeneration
    /\ deletion' = [k \in Keys |-> IF k \in requested THEN 1 ELSE deletion[k]]
    /\ due' = (due \ requested) \cup now
    /\ condemned' = (condemned \ new) \cup requested

\* enqueue: a row per key, with a higher generation if there was one; the rows
\* outside now have to wait.  The keys in new are taken into use.
Enqueue(requested, now, new) ==
    /\ \A k \in requested : deletion[k] < MaxGeneration
    /\ deletion' = [k \in Keys |-> IF k \in requested THEN deletion[k] + 1 ELSE deletion[k]]
    /\ due' = (due \ requested) \cup now
    /\ condemned' = (condemned \ new) \cup requested

\* What becomes of the objects and of the client's own rows.
Work(requested, new) ==
    /\ \E put \in SUBSET writers : stored' = stored \cup put
    /\ tracked' \in {tracked \ requested, (tracked \ requested) \cup new}
    /\ writers' \in {(writers \ ended) \cup new : ended \in SUBSET writers}
    /\ served' \in SUBSET tracked'
    /\ served' \ served \subseteq stored /\ served \ served' \subseteq requested
    \* A worker leaves nothing behind that no row knows of.
    /\ \A k \in (writers \ writers') \cap stored' :
           k \in tracked' \cup requested \cup (Scheduled \ InBatch)

\* One step of the clients, any number of which may take part.
ClientStep ==
    /\ \E requested \in SUBSET (writers \cup tracked), new \in SUBSET {k \in Keys : Fresh(k)} :
           /\ \E now \in SUBSET requested : Enqueue(requested, now, new)
           /\ Work(requested, new)
    /\ UNCHANGED cleaner

\* The process stops, and with it its workers and the cleaner.
Crash ==
    /\ writers \cap stored \subseteq tracked \cup Scheduled
    /\ writers' = {}
    /\ batch' = NoBatch /\ removed' = {}
    /\ UNCHANGED <<stored, deletion, due, tracked, served, condemned>>

-----------------------------------------------------------------------------
(* processBatch, of which one runs at a time. *)

\* The select; the rows may change before they are handled.
StartBatch ==
    /\ InBatch = {}
    /\ due \cap Scheduled # {}
    /\ batch' = [k \in Keys |-> IF k \in due THEN deletion[k] ELSE 0]
    /\ UNCHANGED <<stored, deletion, due, removed, client, condemned>>

RemoveObject(k) ==
    /\ k \in InBatch /\ removed = {}
    /\ stored' = stored \ {k}
    /\ removed' = {k}
    /\ UNCHANGED <<deletion, due, batch, client, condemned>>

\* Mutant: the row goes whatever its generation is.
DeleteAnyRow(k) ==
    /\ k \in removed
    /\ deletion' = [deletion EXCEPT ![k] = 0]
    /\ due' = due \ {k}
    /\ batch' = [batch EXCEPT ![k] = 0]
    /\ removed' = {}
    /\ UNCHANGED <<stored, client, condemned>>

\* The row goes unless the key was handed over again since it was read.
DeleteRow(k) ==
    /\ k \in removed
    /\ IF deletion[k] = batch[k]
       THEN deletion' = [deletion EXCEPT ![k] = 0] /\ due' = due \ {k}
       ELSE UNCHANGED <<deletion, due>>
    /\ batch' = [batch EXCEPT ![k] = 0]
    /\ removed' = {}
    /\ UNCHANGED <<stored, client, condemned>>

\* Mutant: a failed removal is not repeated.
GiveUp(k) ==
    /\ k \in InBatch /\ removed \subseteq {k}
    /\ deletion' = [deletion EXCEPT ![k] = 0]
    /\ due' = due \ {k}
    /\ batch' = [batch EXCEPT ![k] = 0]
    /\ removed' = {}
    /\ UNCHANGED <<stored, client, condemned>>

\* MinIO or the delete fails: the same row is postponed.
Postpone(k) ==
    /\ k \in InBatch /\ removed \subseteq {k}
    /\ due' = IF deletion[k] = batch[k] THEN due \ {k} ELSE due
    /\ batch' = [batch EXCEPT ![k] = 0]
    /\ removed' = {}
    /\ UNCHANGED <<stored, deletion, client, condemned>>

\* The database fails in the loop: the rest of the batch is left for later.
AbandonBatch ==
    /\ InBatch # {}
    /\ batch' = NoBatch /\ removed' = {}
    /\ UNCHANGED <<stored, deletion, due, client, condemned>>

BecomesDue(k) ==
    /\ k \in Scheduled \ due
    /\ due' = due \cup {k}
    /\ UNCHANGED <<stored, deletion, cleaner, client, condemned>>

CleanerStep ==
    \/ StartBatch \/ AbandonBatch
    \/ \E k \in Keys : RemoveObject(k) \/ DeleteRow(k) \/ Postpone(k)

Next == ClientStep \/ Crash \/ CleanerStep \/ \E k \in Keys : BecomesDue(k)

Spec == Init /\ [][Next]_vars

\* Time passes, processBatch runs every five seconds, and a removal that is tried
\* again and again succeeds at last, and so does the delete of its row.
Fairness ==
    \A k \in Keys :
        /\ WF_vars(BecomesDue(k)) /\ WF_vars(StartBatch)
        /\ WF_vars(\E l \in Keys : RemoveObject(l) \/ DeleteRow(l))
        /\ SF_vars(RemoveObject(k)) /\ SF_vars(DeleteRow(k))

FairSpec == Spec /\ Fairness

-----------------------------------------------------------------------------
(* Properties. *)

\* No object is lost track of: it is recorded by its client, or its deletion is
\* scheduled, or a live worker is still busy with it.  Uploads that land while
\* the cleaner is between removing the object and deleting the row included.
NoOrphan == stored \subseteq tracked \cup Scheduled \cup writers

\* An upload that landed behind the removal is the worker's business until it has
\* ended, and then the generation of the row has moved on: deleting the row of the
\* generation that was read never forgets an object.
LateUploadIsSeen ==
    \A k \in removed : k \in stored /\ deletion[k] = batch[k] => k \in writers

\* What is promised to readers is there, and nobody is about to delete it.
ServedStays == served \subseteq stored \ (Scheduled \cup InBatch)

\* An object that was handed over and has no worker left disappears.
HandedOverGoes ==
    \A k \in Keys : k \in condemned \ writers ~> k \notin stored \/ k \notin condemned
=============================================================================
