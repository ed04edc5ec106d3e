--------------------------- MODULE ProductionFiles ---------------------------
(***************************************************************************)
(* One print file of an order: a photo with a header, in one text size     *)
(* (orders/production-files.service.ts).  The row of ProductionFile is the *)
(* job and the result; workers of the one backend process render it, with  *)
(* a lease that nobody renews; the finished object lies in MinIO under a   *)
(* key that is new for every claim.  Objects that are no longer needed are *)
(* handed over to StorageCleanup, whose state and steps are part of this   *)
(* module.                                                                 *)
(*                                                                         *)
(* What is printed is the version: the order's data and the source photo.  *)
(* The key of a claim contains its runToken, so the key stands for both.   *)
(* Time is abstracted: due says that nextAttemptAt has passed, expired     *)
(* that leaseUntil has.                                                    *)
(***************************************************************************)
EXTENDS Naturals

CONSTANTS
    Versions,       \* what can be printed
    Workers,        \* concurrent runs of processNext
    Keys,           \* object keys
    None,           \* no key, no version
    MaxGeneration,  \* bound of StorageCleanup
    MaxEdits,       \* bound: changes of the order's data and retries by hand
    MaxFaults,      \* bound: failed calls, crashes, slow workers
    SlowWorkers,    \* may a worker take longer than its lease?
    LostAnswers     \* may a commit be reported as a failure?

ASSUME NoneIsNothing == None \notin Keys \cup Versions
ASSUME BoundsAreNatural == MaxEdits \in Nat /\ MaxFaults \in Nat /\ MaxGeneration \in Nat \ {0}
ASSUME Switches == SlowWorkers \in BOOLEAN /\ LostAnswers \in BOOLEAN

VARIABLES
    photo,    \* the photo is attached for print
    content,  \* what the file has to show now
    row,      \* the row of ProductionFile
    job,      \* per worker: the claim it works on
    made,     \* history: the version uploaded under a key
    stored, deletion, due, batch, removed, condemned,  \* see StorageCleanup
    edits, faults

cleanup == <<stored, deletion, due, batch, removed, condemned>>
vars == <<photo, content, row, job, made, cleanup, edits, faults>>

NoRow == [status |-> "none", version |-> None, key |-> None, attempts |-> 0,
          due |-> FALSE, expired |-> FALSE]
NoJob == [pc |-> "idle", key |-> None, version |-> None, attempts |-> 0, found |-> NoRow,
          late |-> FALSE]

Rows == [status : {"none", "pending", "processing", "ready", "failed"},
         version : Versions \cup {None}, key : Keys \cup {None}, attempts : Nat,
         due : BOOLEAN, expired : BOOLEAN]
Jobs == [pc : {"idle", "found", "claimed", "stale", "rendering", "rendered", "uploading",
               "uploaded", "missed", "failing", "gone"},
         key : Keys \cup {None}, version : Versions \cup {None}, attempts : Nat,
         found : Rows, late : BOOLEAN]

TypeOK ==
    /\ photo \in BOOLEAN
    /\ content \in Versions
    /\ row \in Rows
    /\ job \in [Workers -> Jobs]
    /\ made \in [Keys -> Versions \cup {None}]
    /\ edits \in 0..MaxEdits /\ faults \in 0..MaxFaults

Some(key) == {key} \ {None}
Working(w) == job[w].key # None

\* The service as a client of the cleaner.
Cleaner == INSTANCE StorageCleanup WITH
    writers <- {job[w].key : w \in {v \in Workers : Working(v)}},
    tracked <- Some(row.key),
    served  <- IF row.status = "ready" THEN Some(row.key) ELSE {}

Init ==
    /\ photo = TRUE
    /\ content \in Versions
    /\ row = NoRow
    /\ job = [w \in Workers |-> NoJob]
    /\ made = [k \in Keys |-> None]
    /\ stored = {} /\ deletion = Cleaner!NoBatch /\ due = {}
    /\ batch = Cleaner!NoBatch /\ removed = {} /\ condemned = {}
    /\ edits = 0 /\ faults = 0

Fault == faults < MaxFaults /\ faults' = faults + 1
Edit == edits < MaxEdits /\ edits' = edits + 1

\* enqueue of StorageCleanupService in the transaction of the step; the cleaner
\* and the objects stay as they are.
HandOver(keys, now) ==
    /\ Cleaner!Enqueue(keys, now, {})
    /\ UNCHANGED <<stored, batch, removed>>

-----------------------------------------------------------------------------
(* Requests and the background scan. *)

\* Mutant: the key is deleted at once although a worker may still write it.
ReleaseAtOnce == HandOver(Some(row.key), Some(row.key))

\* The key of the row is handed over; while a worker may still write it, only
\* when its lease is over.
ReleaseKey ==
    HandOver(Some(row.key), IF row.status = "processing" /\ ~row.expired THEN {} ELSE Some(row.key))

Unchanged == row.status # "none" /\ row.version = content

\* ensure, a serializable transaction.
Enqueued(retry) ==
    /\ ~(Unchanged /\ ~(retry /\ row.status = "failed"))
    /\ row' = [NoRow EXCEPT !.status = "pending", !.version = content, !.due = TRUE]
    /\ ReleaseKey

\* The scan, an order page, a download: every request passes through ensure.
Ensure ==
    /\ photo
    /\ Enqueued(FALSE)
    /\ UNCHANGED <<photo, content, job, made, edits, faults>>

\* The button that prepares a failed file again.
Retry ==
    /\ photo
    /\ row.status = "failed" /\ Edit
    /\ Enqueued(TRUE)
    /\ UNCHANGED <<photo, content, job, made, faults>>

\* expedite brings a waiting job forward; the backoff does so in time.
Wake ==
    /\ row.status = "pending" /\ ~row.due
    /\ row' = [row EXCEPT !.due = TRUE]
    /\ UNCHANGED <<photo, content, job, made, cleanup, edits, faults>>

EditOrder(v) ==
    /\ content # v /\ content' = v /\ Edit
    /\ UNCHANGED <<photo, row, job, made, cleanup, faults>>

\* scheduleDeletion, in the transaction that detaches the photo or deletes the order.
RemovePhoto ==
    /\ photo /\ photo' = FALSE
    /\ row' = NoRow
    /\ ReleaseKey
    /\ UNCHANGED <<content, job, made, edits, faults>>

-----------------------------------------------------------------------------
(* processNext and prepare. *)

Step(w, next) == job' = [job EXCEPT ![w].pc = next]
Done(w) == job' = [job EXCEPT ![w] = NoJob]

Claimable == (row.status = "pending" /\ row.due) \/ (row.status = "processing" /\ row.expired)

Find(w) ==
    /\ job[w].pc = "idle"
    /\ Claimable
    /\ job' = [job EXCEPT ![w].pc = "found", ![w].found = row]
    /\ UNCHANGED <<photo, content, row, made, cleanup, edits, faults>>

\* The conditional update: it applies only to the row as it was found.  The key
\* that an abandoned claim recorded is handed over.
Claim(w, key) ==
    /\ job[w].pc = "found"
    /\ row = job[w].found
    /\ Cleaner!Fresh(key)
    /\ row' = [row EXCEPT !.status = "processing", !.key = key, !.expired = FALSE,
                          !.due = FALSE, !.attempts = @ + 1]
    /\ job' = [job EXCEPT ![w] = [NoJob EXCEPT !.pc = "claimed", !.key = key,
                                  !.version = row.version, !.attempts = row.attempts + 1]]
    /\ made' = [made EXCEPT ![key] = None]
    /\ Cleaner!Enqueue(Some(row.key), Some(row.key), {key})
    /\ UNCHANGED <<photo, content, stored, batch, removed, edits, faults>>

\* Another worker or a request was faster.
ClaimLost(w) ==
    /\ job[w].pc = "found"
    /\ row # job[w].found
    /\ Done(w)
    /\ UNCHANGED <<photo, content, row, made, cleanup, edits, faults>>

\* context and sameProductionContent, before and after the rendering.
Check(w, from, next) ==
    /\ job[w].pc = from
    /\ CASE ~photo                             -> Step(w, "gone")
         [] photo /\ content # job[w].version  -> Step(w, "stale")
         [] OTHER                              -> Step(w, next)
    /\ UNCHANGED <<photo, content, row, made, cleanup, edits, faults>>

CheckBefore(w) == Check(w, "claimed", IF job[w].attempts > 3 THEN "failing" ELSE "rendering")
CheckAfter(w) == Check(w, "rendered", "uploading")

\* The worker calls ensure for the new version and drops its own.
Requeue(w) ==
    /\ job[w].pc = "stale" /\ photo
    /\ Done(w)
    /\ IF Unchanged THEN UNCHANGED <<row, cleanup>> ELSE Enqueued(FALSE)
    /\ UNCHANGED <<photo, content, made, edits, faults>>

\* ... and finds the photo gone.
RequeueFails(w) ==
    /\ job[w].pc = "stale" /\ ~photo
    /\ Step(w, "gone")
    /\ UNCHANGED <<photo, content, row, made, cleanup, edits, faults>>

\* A broken photo fails every time.
Render(w) ==
    /\ job[w].pc = "rendering"
    /\ \E next \in {"rendered", "failing"} : Step(w, next)
    /\ UNCHANGED <<photo, content, row, made, cleanup, edits, faults>>

Upload(w) ==
    /\ job[w].pc = "uploading"
    /\ stored' = stored \cup {job[w].key}
    /\ \/ Step(w, "uploaded") /\ UNCHANGED faults
       \/ Step(w, "failing") /\ Fault
    /\ made' = [made EXCEPT ![job[w].key] = job[w].version]
    /\ UNCHANGED <<photo, content, row, deletion, due, batch, removed, condemned, edits>>

\* Mutant: the final update does not check the runToken.
HoldsUnchecked(w) == row.status = "processing" /\ w \in Workers

\* The where clause of the final updates.
Holds(w) == row.status = "processing" /\ row.key = job[w].key /\ row.version = job[w].version

Publish(w) ==
    /\ job[w].pc = "uploaded"
    /\ Holds(w)
    /\ row' = [row EXCEPT !.status = "ready", !.expired = FALSE]
    /\ \/ Done(w) /\ UNCHANGED faults
       \/ LostAnswers /\ Step(w, "failing") /\ Fault
    /\ UNCHANGED <<photo, content, made, cleanup, edits>>

PublishMisses(w) ==
    /\ job[w].pc = "uploaded"
    /\ ~Holds(w)
    /\ Step(w, "missed")
    /\ UNCHANGED <<photo, content, row, made, cleanup, edits, faults>>

\* An unused result is handed over.
Discard(w) ==
    /\ job[w].pc = "missed"
    /\ Done(w)
    /\ HandOver(Some(job[w].key), Some(job[w].key))
    /\ UNCHANGED <<photo, content, row, made, edits, faults>>

\* A call to the database or to MinIO throws.
StepFails(w) ==
    /\ job[w].pc \in {"claimed", "stale", "rendered", "uploading", "uploaded", "missed"}
    /\ Fault
    /\ Step(w, "failing")
    /\ UNCHANGED <<photo, content, row, made, cleanup, edits>>

\* Mutant: the attempts are not counted.
GiveUpNever(w) ==
    /\ job[w].pc \in {"failing", "gone"}
    /\ Done(w)
    /\ HandOver(Some(job[w].key), Some(job[w].key))
    /\ row' = IF ~Holds(w) THEN row ELSE
              IF job[w].pc = "gone" THEN NoRow ELSE
              [row EXCEPT !.status = "pending", !.key = None, !.expired = FALSE, !.attempts = 0]
    /\ UNCHANGED <<photo, content, made, edits, faults>>

\* Mutant: one attempt too many.
GiveUpLate(w) ==
    /\ job[w].pc \in {"failing", "gone"}
    /\ Done(w)
    /\ HandOver(Some(job[w].key), Some(job[w].key))
    /\ row' = IF ~Holds(w) THEN row ELSE
              IF job[w].pc = "gone" THEN NoRow ELSE
              [row EXCEPT !.status = IF job[w].attempts > 3 THEN "failed" ELSE "pending",
                          !.key = None, !.expired = FALSE]
    /\ UNCHANGED <<photo, content, made, edits, faults>>

\* Mutant: the key of a failed claim is forgotten.
GiveUpSilently(w) ==
    /\ job[w].pc \in {"failing", "gone"}
    /\ Done(w)
    /\ row' = IF ~Holds(w) THEN row ELSE
              IF job[w].pc = "gone" THEN NoRow ELSE
              [row EXCEPT !.status = IF job[w].attempts >= 3 THEN "failed" ELSE "pending",
                          !.key = None, !.expired = FALSE]
    /\ UNCHANGED <<photo, content, made, cleanup, edits, faults>>

\* The catch of prepare: one transaction that hands the key over and ends the claim.
GiveUp(w) ==
    /\ job[w].pc \in {"failing", "gone"}
    /\ Done(w)
    /\ HandOver(Some(job[w].key), Some(job[w].key))
    /\ row' = IF ~Holds(w) THEN row ELSE
              IF job[w].pc = "gone" THEN NoRow ELSE
              [row EXCEPT !.status = IF job[w].attempts >= 3 THEN "failed" ELSE "pending",
                          !.key = None, !.expired = FALSE]
    /\ UNCHANGED <<photo, content, made, edits, faults>>

\* The transaction of the catch fails too, or no temporary directory could be made
\* at the start: the claim stays until its lease is over.
GiveUpFails(w) ==
    /\ job[w].pc \in {"claimed", "failing", "gone"}
    /\ Fault
    /\ Done(w)
    /\ UNCHANGED <<photo, content, row, made, cleanup, edits>>

-----------------------------------------------------------------------------
(* Time, crashes, the cleaner. *)

Outlive(w) ==
    /\ SlowWorkers /\ Working(w) /\ ~job[w].late
    /\ Fault
    /\ job' = [job EXCEPT ![w].late = TRUE]
    /\ UNCHANGED <<photo, content, row, made, cleanup, edits>>

\* The worker of a claim is done before the lease is over, unless it is late.
LeaseIsOver(key) == \A w \in Workers : job[w].key = key => job[w].late

LeaseExpires ==
    /\ row.status = "processing" /\ ~row.expired
    /\ LeaseIsOver(row.key)
    /\ row' = [row EXCEPT !.expired = TRUE]
    /\ UNCHANGED <<photo, content, job, made, cleanup, edits, faults>>

DeletionBecomesDue(k) ==
    /\ LeaseIsOver(k)
    /\ UNCHANGED <<photo, content, row, job, made, edits, faults>>
    /\ Cleaner!BecomesDue(k)

CleanerStep ==
    /\ UNCHANGED <<photo, content, row, job, made, edits>>
    /\ \/ Cleaner!StartBatch /\ UNCHANGED faults
       \/ \E k \in Keys : Cleaner!RemoveObject(k) /\ UNCHANGED faults
       \/ \E k \in Keys : Cleaner!DeleteRow(k) /\ UNCHANGED faults
       \/ \E k \in Keys : Cleaner!Postpone(k) /\ Fault
       \/ Cleaner!AbandonBatch /\ Fault

Crash ==
    /\ \E w \in Workers : job[w].pc # "idle"
    /\ Fault
    /\ job' = [w \in Workers |-> NoJob]
    /\ batch' = Cleaner!NoBatch /\ removed' = {}
    /\ UNCHANGED <<photo, content, row, made, stored, deletion, due, condemned, edits>>

WorkerStep(w) ==
    \/ Find(w) \/ ClaimLost(w) \/ \E k \in Keys : Claim(w, k)
    \/ CheckBefore(w) \/ Render(w) \/ CheckAfter(w)
    \/ Requeue(w) \/ RequeueFails(w)
    \/ Upload(w) \/ Publish(w) \/ PublishMisses(w) \/ Discard(w) \/ GiveUp(w)

Next ==
    \/ Ensure \/ Retry \/ Wake \/ RemovePhoto
    \/ \E v \in Versions : EditOrder(v)
    \/ \E w \in Workers : WorkerStep(w) \/ StepFails(w) \/ GiveUpFails(w) \/ Outlive(w)
    \/ LeaseExpires \/ \E k \in Keys : DeletionBecomesDue(k)
    \/ CleanerStep \/ Crash

Spec == Init /\ [][Next]_vars

\* The intervals fire, time passes, calls end, and the scan comes round to the photo.
Fairness ==
    /\ WF_vars(Ensure) /\ WF_vars(Wake) /\ WF_vars(LeaseExpires) /\ WF_vars(CleanerStep)
    /\ \A w \in Workers : WF_vars(WorkerStep(w))
    /\ \A k \in Keys : WF_vars(DeletionBecomesDue(k))

FairSpec == Spec /\ Fairness

-----------------------------------------------------------------------------
(* Properties. *)

\* A ready row names an object that was rendered for its version and uploaded,
\* whatever becomes of the workers that were overtaken.
ReadyIsCurrent == row.status = "ready" => row.key # None /\ made[row.key] = row.version

\* A ready file can be downloaded, and no deletion of it is under way.
ReadyIsServed ==
    row.status = "ready" =>
        /\ row.key \in stored
        /\ deletion[row.key] = 0 /\ batch[row.key] = 0

\* Every object is the row's, or its deletion is scheduled, or a live worker is
\* busy with it: a crash between any two steps leaves a trail.
NoOrphan == Cleaner!NoOrphan

\* The service keeps the contract of the cleaner.
KeepsContract == Cleaner!Spec

\* When the order is left alone its file gets ready or fails, for what it shows
\* now; when the photo is gone, so are its objects.
Settles ==
    <>[]IF photo THEN Unchanged /\ row.status \in {"ready", "failed"} /\ stored \subseteq Some(row.key)
                 ELSE row = NoRow /\ stored = {}
=============================================================================
