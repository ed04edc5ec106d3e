------------------------ MODULE ProductionFilesProofs ------------------------
(***************************************************************************)
(* A ready row names what was rendered for its version, whatever becomes   *)
(* of overtaken workers and lost answers.  With workers that keep within   *)
(* their leases and commits that are answered, the service keeps the       *)
(* contract of the cleaner, and so a ready file can be downloaded and no   *)
(* object is lost track of.  All for any workers, keys and versions.       *)
(***************************************************************************)
EXTENDS ProductionFiles, TLAPS

\* What the service is to its cleaner.
Writers == {job[w].key : w \in {v \in Workers : Working(v)}}
Tracked == Some(row.key)
Served == IF row.status = "ready" THEN Some(row.key) ELSE {}

Files == INSTANCE StorageCleanupProofs WITH
    writers <- Writers, tracked <- Tracked, served <- Served

\* Where a worker is that has a claim.
Live == {"claimed", "stale", "rendering", "rendered", "uploading", "uploaded", "missed",
         "failing", "gone"}

\* Keys are unique per claim; the row of a claim keeps its version; and what was
\* uploaded was rendered for it.
JobInv ==
    \A w \in Workers :
        /\ job[w].pc \in {"idle", "found"} <=> job[w].key = None
        /\ \A v \in Workers : job[v].key = job[w].key /\ Working(w) => v = w
        /\ Working(w) /\ row.key = job[w].key => row.version = job[w].version
        /\ job[w].pc = "uploaded" => made[job[w].key] = job[w].version

BaseInv == TypeOK /\ JobInv /\ ReadyIsCurrent

\* A live worker still has its row, or its key was handed over and waits for the end of
\* the lease; a worker that could not publish has lost its row.
LeaseInv ==
    \A w \in Workers :
        /\ ~job[w].late
        /\ job[w].pc = "found" => job[w].found.status = "pending"
                                 \/ (job[w].found.status = "processing" /\ job[w].found.expired)
        /\ Working(w) /\ row.key = job[w].key => row.status = "processing" /\ ~row.expired
        /\ Working(w) /\ row.key # job[w].key =>
               job[w].key \in Files!Scheduled \ (due \cup Files!InBatch)
        /\ job[w].pc = "uploaded" /\ row.key = job[w].key => row.key \in stored
        /\ job[w].pc = "missed" => row.key # job[w].key

ContractInv == BaseInv /\ LeaseInv /\ Files!IInv

USE NoneIsNothing

-----------------------------------------------------------------------------
(* Rows and jobs. *)

LEMMA EmptyOnes == NoRow \in Rows /\ NoJob \in Jobs
<1>1. NoRow \in Rows
  BY DEF NoRow, Rows
<1> QED
  BY <1>1 DEF NoJob, Jobs

\* One field of the row changes.
LEMMA EnqueuedFacts ==
    ASSUME NEW retry, Enqueued(retry), content \in Versions
    PROVE  row' \in Rows /\ row'.key = None /\ row'.status = "pending"
<1>1. [NoRow EXCEPT !.status = "pending", !.version = content, !.due = TRUE] \in Rows
  BY DEF NoRow, Rows
<1> QED
  BY <1>1 DEF Enqueued, NoRow

\* A worker goes on.
LEMMA MoveFacts ==
    ASSUME job \in [Workers -> Jobs], NEW w \in Workers, NEW next \in Live, Step(w, next)
    PROVE  /\ job' \in [Workers -> Jobs]
           /\ \A v \in Workers :
                 /\ job'[v].key = job[v].key /\ job'[v].version = job[v].version
                 /\ job'[v].late = job[v].late
                 /\ job'[v].pc = IF v = w THEN next ELSE job[v].pc
<1> DEFINE j == [job[w] EXCEPT !.pc = next]
<1>1. job' = [job EXCEPT ![w] = j]
  BY DEF Step
<1>2. /\ j \in Jobs /\ j.pc = next /\ j.key = job[w].key /\ j.version = job[w].version
      /\ j.late = job[w].late
  BY DEF Jobs, Live
<1> HIDE DEF j
<1> QED
  BY <1>1, <1>2

\* A worker ends.
LEMMA DropFacts ==
    ASSUME job \in [Workers -> Jobs], NEW w \in Workers, Done(w)
    PROVE  /\ job' \in [Workers -> Jobs]
           /\ \A v \in Workers : job'[v] = IF v = w THEN NoJob ELSE job[v]
  BY EmptyOnes DEF Done

LEMMA FindFacts ==
    ASSUME job \in [Workers -> Jobs], row \in Rows, NEW w \in Workers, Find(w)
    PROVE  /\ job' \in [Workers -> Jobs]
           /\ \A v \in Workers :
                 /\ job'[v].key = job[v].key /\ job'[v].version = job[v].version
                 /\ job'[v].late = job[v].late
                 /\ job'[v].pc = IF v = w THEN "found" ELSE job[v].pc
                 /\ job'[v].found = IF v = w THEN row ELSE job[v].found
<1> DEFINE j == [job[w] EXCEPT !.pc = "found", !.found = row]
<1>1. job' = [job EXCEPT ![w] = j]
  BY DEF Find
<1>2. /\ j \in Jobs /\ j.pc = "found" /\ j.key = job[w].key /\ j.version = job[w].version
      /\ j.late = job[w].late /\ j.found = row
  BY ZenonT(40) DEF Jobs
<1> HIDE DEF j
<1> QED
  BY <1>1, <1>2

LEMMA ClaimFacts ==
    ASSUME TypeOK, NEW w \in Workers, NEW key \in Keys, Claim(w, key)
    PROVE  /\ job' \in [Workers -> Jobs]
           /\ \A v \in Workers : v # w => job'[v] = job[v]
           /\ job'[w].key = key /\ job'[w].version = row.version /\ job'[w].pc = "claimed"
           /\ ~job'[w].late
           /\ row' \in Rows /\ row'.key = key /\ row'.version = row.version
           /\ row'.status = "processing" /\ ~row'.expired
           /\ made' \in [Keys -> Versions \cup {None}]
           /\ \A k \in Keys : k # key => made'[k] = made[k]
<1> DEFINE j == [NoJob EXCEPT !.pc = "claimed", !.key = key, !.version = row.version,
                              !.attempts = row.attempts + 1]
           r == [row EXCEPT !.status = "processing", !.key = key, !.expired = FALSE,
                            !.due = FALSE, !.attempts = row.attempts + 1]
<1>1. row \in Rows /\ job \in [Workers -> Jobs] /\ made \in [Keys -> Versions \cup {None}]
  BY DEF TypeOK
<1>2. job' = [job EXCEPT ![w] = j] /\ row' = r /\ made' = [made EXCEPT ![key] = None]
  BY DEF Claim
<1>3. row.attempts + 1 \in Nat /\ row.version \in Versions \cup {None}
  BY <1>1 DEF Rows
<1>4. j \in Jobs /\ j.pc = "claimed" /\ j.key = key /\ j.version = row.version /\ ~j.late
  BY <1>3, EmptyOnes DEF Jobs, NoJob
<1>5. /\ r \in Rows /\ r.key = key /\ r.version = row.version /\ r.status = "processing"
      /\ ~r.expired
  BY <1>1, <1>3 DEF Rows
<1> HIDE DEF j, r
<1> QED
  BY <1>1, <1>2, <1>4, <1>5

LEMMA OutliveFacts ==
    ASSUME job \in [Workers -> Jobs], NEW w \in Workers, Outlive(w)
    PROVE  /\ job' \in [Workers -> Jobs]
           /\ \A v \in Workers : /\ job'[v].key = job[v].key /\ job'[v].version = job[v].version
                                 /\ job'[v].pc = job[v].pc
<1> DEFINE j == [job[w] EXCEPT !.late = TRUE]
<1>1. job' = [job EXCEPT ![w] = j]
  BY DEF Outlive
<1>2. j \in Jobs /\ j.pc = job[w].pc /\ j.key = job[w].key /\ j.version = job[w].version
  BY ZenonT(40) DEF Jobs
<1> HIDE DEF j
<1> QED
  BY <1>1, <1>2

\* What GiveUp makes of the row.
LEMMA GiveUpFacts ==
    ASSUME TypeOK, NEW w \in Workers, GiveUp(w)
    PROVE  /\ row'.status # "ready" \/ row' = row
           /\ ~Holds(w) => row' = row
           /\ Holds(w) => row'.key = None
           /\ row' \in Rows
<1> DEFINE r == [row EXCEPT !.status = IF job[w].attempts >= 3 THEN "failed" ELSE "pending",
                            !.key = None, !.expired = FALSE]
<1>1. row' = IF ~Holds(w) THEN row ELSE IF job[w].pc = "gone" THEN NoRow ELSE r
  BY DEF GiveUp
<1>2. row \in Rows
  BY DEF TypeOK
<1>3. r \in Rows /\ r.key = None /\ r.status # "ready"
  BY <1>2 DEF Rows
<1> HIDE DEF r
<1> QED
  BY <1>1, <1>2, <1>3, EmptyOnes DEF NoRow

\* The row of a claim gets ready, its lease ends, or it is woken.
LEMMA RowFacts ==
    ASSUME TypeOK
    PROVE  /\ \A w \in Workers : Publish(w) =>
                 /\ row' \in Rows /\ row'.key = row.key /\ row'.version = row.version
                 /\ row'.status = "ready"
           /\ LeaseExpires =>
                 /\ row' \in Rows /\ row'.key = row.key /\ row'.version = row.version
                 /\ row'.status = row.status /\ row'.status # "ready"
           /\ Wake =>
                 /\ row' \in Rows /\ row'.key = row.key /\ row'.version = row.version
                 /\ row'.status = row.status /\ row'.expired = row.expired
                 /\ row'.status # "ready"
<1>1. row \in Rows
  BY DEF TypeOK
<1>2. ASSUME NEW w \in Workers, Publish(w)
      PROVE  /\ row' \in Rows /\ row'.key = row.key /\ row'.version = row.version
             /\ row'.status = "ready"
  <2>1. row' = [row EXCEPT !.status = "ready", !.expired = FALSE]
    BY <1>2 DEF Publish
  <2> QED
    BY <1>1, <2>1 DEF Rows
<1>3. ASSUME LeaseExpires
      PROVE  /\ row' \in Rows /\ row'.key = row.key /\ row'.version = row.version
             /\ row'.status = row.status /\ row'.status # "ready"
  <2>1. row' = [row EXCEPT !.expired = TRUE] /\ row.status = "processing"
    BY <1>3 DEF LeaseExpires
  <2> QED
    BY <1>1, <2>1 DEF Rows
<1>4. ASSUME Wake
      PROVE  /\ row' \in Rows /\ row'.key = row.key /\ row'.version = row.version
             /\ row'.status = row.status /\ row'.expired = row.expired
             /\ row'.status # "ready"
  <2>1. row' = [row EXCEPT !.due = TRUE] /\ row.status = "pending"
    BY <1>4 DEF Wake
  <2> QED
    BY <1>1, <2>1 DEF Rows
<1> QED
  BY <1>2, <1>3, <1>4

-----------------------------------------------------------------------------
(* Ready rows are current. *)

LEMMA InitBase == Init => BaseInv
<1> SUFFICES ASSUME Init PROVE BaseInv
  OBVIOUS
<1>1. TypeOK
  BY EmptyOnes, BoundsAreNatural DEF Init, TypeOK
<1>2. JobInv /\ ReadyIsCurrent
  BY DEF Init, JobInv, ReadyIsCurrent, Working, NoJob, NoRow
<1> QED
  BY <1>1, <1>2 DEF BaseInv

\* Workers go on or end, and the row stays theirs or becomes nobody's.
LEMMA StillTheirs ==
    ASSUME BaseInv, made' = made,
           \A v \in Workers : \/ job'[v] = NoJob
                              \/ /\ job'[v].key = job[v].key /\ job'[v].version = job[v].version
                                 /\ job'[v].pc \in {"idle", "found"} <=> job[v].pc \in {"idle", "found"}
                                 /\ job'[v].pc = "uploaded" => job[v].pc = "uploaded",
           row'.key = None \/ (row'.key = row.key /\ row'.version = row.version)
    PROVE  JobInv'
<1>1. JobInv
  BY DEF BaseInv
<1>2. NoJob.pc = "idle" /\ NoJob.key = None
  BY DEF NoJob
<1>3. SUFFICES ASSUME NEW w \in Workers
               PROVE  /\ job'[w].pc \in {"idle", "found"} <=> job'[w].key = None
                      /\ \A v \in Workers : job'[v].key = job'[w].key /\ job'[w].key # None => v = w
                      /\ job'[w].key # None /\ row'.key = job'[w].key => row'.version = job'[w].version
                      /\ job'[w].pc = "uploaded" => made'[job'[w].key] = job'[w].version
  BY DEF JobInv, Working
<1>4. CASE job'[w] = NoJob
  BY <1>2, <1>4
<1>5. CASE job'[w] # NoJob
  <2>1. /\ job'[w].key = job[w].key /\ job'[w].version = job[w].version
        /\ job'[w].pc \in {"idle", "found"} <=> job[w].pc \in {"idle", "found"}
        /\ job'[w].pc = "uploaded" => job[w].pc = "uploaded"
    BY <1>5
  <2>2. ASSUME NEW v \in Workers, job'[v].key = job'[w].key, job'[w].key # None PROVE v = w
    <3>1. job'[v] # NoJob
      BY <1>2, <2>2
    <3>2. job'[v].key = job[v].key
      BY <3>1
    <3> QED
      BY <1>1, <2>1, <2>2, <3>2 DEF JobInv, Working
  <2> QED
    BY <1>1, <2>1, <2>2 DEF JobInv, Working
<1> QED
  BY <1>4, <1>5

\* What a step does to the row: it stays, it is nobody's, or it is still that of the key.
LEMMA BaseStep == ASSUME BaseInv, Next PROVE row' \in Rows /\ job' \in [Workers -> Jobs] /\
                          made' \in [Keys -> Versions \cup {None}] /\ JobInv' /\ ReadyIsCurrent'
<1> DEFINE Goal == /\ row' \in Rows /\ job' \in [Workers -> Jobs]
                   /\ made' \in [Keys -> Versions \cup {None}] /\ JobInv' /\ ReadyIsCurrent'
<1> SUFFICES Goal
  OBVIOUS
<1>1. /\ TypeOK /\ JobInv /\ ReadyIsCurrent /\ row \in Rows /\ job \in [Workers -> Jobs]
      /\ made \in [Keys -> Versions \cup {None}] /\ content \in Versions
  BY DEF BaseInv, TypeOK
<1>2. ASSUME made' = made, row' \in Rows, job' \in [Workers -> Jobs],
             \A v \in Workers : \/ job'[v] = NoJob
                                \/ /\ job'[v].key = job[v].key /\ job'[v].version = job[v].version
                                   /\ job'[v].pc \in {"idle", "found"} <=> job[v].pc \in {"idle", "found"}
                                   /\ job'[v].pc = "uploaded" => job[v].pc = "uploaded",
             row'.key = None \/ (row'.key = row.key /\ row'.version = row.version),
             row'.status # "ready" \/ row' = row
      PROVE  Goal
  <2>1. JobInv'
    BY <1>2, StillTheirs
  <2>2. ReadyIsCurrent'
    BY <1>1, <1>2 DEF ReadyIsCurrent
  <2> QED
    BY <1>1, <1>2, <2>1, <2>2
\* The workers stay.
<1>3. ASSUME made' = made, job' = job, row' \in Rows,
             row'.key = None \/ (row'.key = row.key /\ row'.version = row.version),
             row'.status # "ready" \/ row' = row
      PROVE  Goal
  BY <1>1, <1>2, <1>3
\* A worker goes on with the row as it is.
<1>4. ASSUME NEW w \in Workers, NEW next \in Live \ {"uploaded"}, Step(w, next),
             made' = made, row' = row, job[w].pc \in Live
      PROVE  Goal
  <2>1. job[w].pc \notin {"idle", "found"} /\ next \notin {"idle", "found", "uploaded"}
    BY <1>4 DEF Live
  <2>2. /\ job' \in [Workers -> Jobs]
        /\ \A v \in Workers : /\ job'[v].key = job[v].key /\ job'[v].version = job[v].version
                              /\ job'[v].pc = IF v = w THEN next ELSE job[v].pc
    BY <1>1, <1>4, MoveFacts
  <2> HIDE DEF Goal
  <2> QED
    BY <1>1, <1>2, <1>4, <2>1, <2>2
\* A worker ends.
<1>5. ASSUME NEW w \in Workers, Done(w), made' = made, row' \in Rows,
             row'.key = None \/ (row'.key = row.key /\ row'.version = row.version),
             row'.status # "ready" \/ row' = row
      PROVE  Goal
  <2>1. /\ job' \in [Workers -> Jobs]
        /\ \A v \in Workers : job'[v] = NoJob \/ job'[v] = job[v]
    BY <1>1, <1>5, DropFacts
  <2> HIDE DEF Goal
  <2> QED
    BY <1>2, <1>5, <2>1
<1> HIDE DEF Goal
<1>6. CASE Ensure \/ Retry
  <2>1. made' = made /\ job' = job /\ \E retry : Enqueued(retry)
    BY <1>6 DEF Ensure, Retry
  <2>2. row' \in Rows /\ row'.key = None /\ row'.status = "pending"
    BY <1>1, <2>1, EnqueuedFacts
  <2> QED
    BY <1>3, <2>1, <2>2
<1>7. CASE Wake \/ LeaseExpires
  <2>1. made' = made /\ job' = job
    BY <1>7 DEF Wake, LeaseExpires
  <2> QED
    BY <1>1, <1>3, <1>7, <2>1, RowFacts
<1>8. CASE RemovePhoto
  <2>1. made' = made /\ job' = job /\ row' = NoRow
    BY <1>8 DEF RemovePhoto
  <2>2. row' \in Rows /\ row'.key = None /\ row'.status # "ready"
    BY <2>1, EmptyOnes DEF NoRow
  <2> QED
    BY <1>3, <2>1, <2>2
<1>9. CASE (\E v \in Versions : EditOrder(v)) \/ (\E k \in Keys : DeletionBecomesDue(k)) \/ CleanerStep
  <2>1. made' = made /\ job' = job /\ row' = row
    BY <1>9 DEF EditOrder, DeletionBecomesDue, CleanerStep
  <2> QED
    BY <1>1, <1>3, <2>1
<1>10. ASSUME NEW w \in Workers, Find(w) PROVE Goal
  <2>1. made' = made /\ row' = row /\ job[w].pc = "idle"
    BY <1>10 DEF Find
  <2>2. /\ job' \in [Workers -> Jobs]
        /\ \A v \in Workers : /\ job'[v].key = job[v].key /\ job'[v].version = job[v].version
                              /\ job'[v].pc = IF v = w THEN "found" ELSE job[v].pc
    BY <1>1, <1>10, FindFacts
  <2> QED
    BY <1>1, <1>2, <2>1, <2>2
<1>11. ASSUME NEW w \in Workers, NEW key \in Keys, Claim(w, key) PROVE Goal
  <2>1. /\ job' \in [Workers -> Jobs]
        /\ \A v \in Workers : v # w => job'[v] = job[v]
        /\ job'[w].key = key /\ job'[w].version = row.version /\ job'[w].pc = "claimed"
        /\ row' \in Rows /\ row'.key = key /\ row'.version = row.version /\ row'.status = "processing"
        /\ made' \in [Keys -> Versions \cup {None}]
        /\ \A k \in Keys : k # key => made'[k] = made[k]
    BY <1>1, <1>11, ClaimFacts
  <2>2. \A v \in Workers : job[v].key # key
    <3>1. key \notin {job[v].key : v \in {u \in Workers : Working(u)}}
      BY <1>11 DEF Claim, Cleaner!Fresh
    <3> QED
      BY <3>1 DEF Working
  <2>3. \A v \in Workers : job[v].key \in Keys \cup {None}
    BY <1>1 DEF Jobs
  <2>4. ASSUME NEW v \in Workers
        PROVE  /\ job'[v].pc \in {"idle", "found"} <=> job'[v].key = None
               /\ \A u \in Workers : job'[u].key = job'[v].key /\ job'[v].key # None => u = v
               /\ job'[v].key # None /\ row'.key = job'[v].key => row'.version = job'[v].version
               /\ job'[v].pc = "uploaded" => made'[job'[v].key] = job'[v].version
    <3>1. CASE v = w
      BY <2>1, <2>2, <3>1
    <3>2. CASE v # w
      <4>1. job'[v] = job[v] /\ job[v].key # key
        BY <2>1, <2>2, <3>2
      <4>2. job[v].pc = "uploaded" => job[v].key \in Keys /\ made[job[v].key] = job[v].version
        BY <1>1, <2>3 DEF JobInv
      <4>3. job[v].pc \in {"idle", "found"} <=> job[v].key = None
        BY <1>1 DEF JobInv
      <4>4. \A u \in Workers : job'[u].key = job[v].key /\ job[v].key # None => u = v
        BY <1>1, <2>1, <4>1 DEF JobInv, Working
      <4>5. job[v].pc = "uploaded" => made'[job[v].key] = job[v].version
        BY <2>1, <4>1, <4>2
      <4> QED
        BY <2>1, <4>1, <4>3, <4>4, <4>5
    <3> QED
      BY <3>1, <3>2
  <2>5. JobInv'
    BY <2>4 DEF JobInv, Working
  <2>6. ReadyIsCurrent'
    BY <2>1 DEF ReadyIsCurrent
  <2> QED
    BY <2>1, <2>5, <2>6 DEF Goal
<1>12. ASSUME NEW w \in Workers, ClaimLost(w) \/ Discard(w) \/ GiveUpFails(w) PROVE Goal
  <2>1. made' = made /\ row' = row /\ Done(w)
    BY <1>12 DEF ClaimLost, Discard, GiveUpFails
  <2> QED
    BY <1>1, <1>5, <2>1
<1>13. ASSUME NEW w \in Workers, Requeue(w) PROVE Goal
  <2>1. made' = made /\ Done(w) /\ (row' = row \/ Enqueued(FALSE))
    BY <1>13 DEF Requeue
  <2>2. row' = row \/ (row' \in Rows /\ row'.key = None /\ row'.status = "pending")
    BY <1>1, <2>1, EnqueuedFacts
  <2> QED
    BY <1>1, <1>5, <2>1, <2>2
<1>14. ASSUME NEW w \in Workers, GiveUp(w) PROVE Goal
  <2>1. made' = made /\ Done(w)
    BY <1>14 DEF GiveUp
  <2>2. /\ row' \in Rows /\ (row'.status # "ready" \/ row' = row)
        /\ row'.key = None \/ row' = row
    BY <1>1, <1>14, GiveUpFacts
  <2> QED
    BY <1>5, <2>1, <2>2
<1>15. ASSUME NEW w \in Workers,
              CheckBefore(w) \/ CheckAfter(w) \/ Render(w) \/ RequeueFails(w) \/ PublishMisses(w)
              \/ StepFails(w)
       PROVE  Goal
  <2>1. made' = made /\ row' = row
    BY <1>15 DEF CheckBefore, CheckAfter, Check, Render, RequeueFails, PublishMisses, StepFails
  <2>2. job[w].pc \in Live
    BY <1>15 DEF CheckBefore, CheckAfter, Check, Render, RequeueFails, PublishMisses, StepFails, Live
  <2>3. \E next \in Live \ {"uploaded"} : Step(w, next)
    <3>1. CASE CheckBefore(w) \/ CheckAfter(w)
      <4>1. \/ Step(w, "gone") \/ Step(w, "stale") \/ Step(w, "failing")
            \/ Step(w, "rendering") \/ Step(w, "uploading")
        BY <3>1 DEF CheckBefore, CheckAfter, Check
      <4> QED
        BY <4>1 DEF Live
    <3>2. CASE Render(w) \/ RequeueFails(w) \/ PublishMisses(w) \/ StepFails(w)
      BY <3>2 DEF Render, RequeueFails, PublishMisses, StepFails, Live
    <3> QED
      BY <1>15, <3>1, <3>2
  <2> QED
    BY <1>4, <2>1, <2>2, <2>3
<1>16. ASSUME NEW w \in Workers, Upload(w) PROVE Goal
  <2>1. /\ row' = row /\ job[w].pc = "uploading" /\ made' = [made EXCEPT ![job[w].key] = job[w].version]
        /\ Step(w, "uploaded") \/ Step(w, "failing")
    BY <1>16 DEF Upload
  <2>2. PICK next \in {"uploaded", "failing"} : Step(w, next)
    BY <2>1
  <2>3. /\ job' \in [Workers -> Jobs]
        /\ \A v \in Workers : /\ job'[v].key = job[v].key /\ job'[v].version = job[v].version
                              /\ job'[v].pc = IF v = w THEN next ELSE job[v].pc
    BY <1>1, <2>2, MoveFacts DEF Live
  <2>4. job[w].key \in Keys /\ job[w].version \in Versions \cup {None} /\ Working(w)
    BY <1>1, <2>1 DEF JobInv, Jobs, Working
  <2>5. /\ made' \in [Keys -> Versions \cup {None}]
        /\ made'[job[w].key] = job[w].version
        /\ \A k \in Keys : k # job[w].key => made'[k] = made[k]
    BY <1>1, <2>1, <2>4
  <2>6. ASSUME NEW v \in Workers
        PROVE  /\ job'[v].pc \in {"idle", "found"} <=> job'[v].key = None
               /\ \A u \in Workers : job'[u].key = job'[v].key /\ job'[v].key # None => u = v
               /\ job'[v].key # None /\ row'.key = job'[v].key => row'.version = job'[v].version
               /\ job'[v].pc = "uploaded" => made'[job'[v].key] = job'[v].version
    <3>1. job'[v].pc \in {"idle", "found"} <=> job'[v].key = None
      BY <1>1, <2>1, <2>3 DEF JobInv
    <3>2. \A u \in Workers : job'[u].key = job'[v].key /\ job'[v].key # None => u = v
      BY <1>1, <2>3 DEF JobInv, Working
    <3>3. job'[v].key # None /\ row'.key = job'[v].key => row'.version = job'[v].version
      BY <1>1, <2>1, <2>3 DEF JobInv, Working
    <3>4. job'[v].pc = "uploaded" => made'[job'[v].key] = job'[v].version
      <4>1. CASE v = w
        BY <2>3, <2>5, <4>1
      <4>2. CASE v # w
        <5>1. job[v].key # job[w].key
          BY <1>1, <2>4, <4>2 DEF JobInv
        <5>2. job[v].pc = "uploaded" => job[v].key \in Keys /\ made[job[v].key] = job[v].version
          BY <1>1 DEF JobInv, Jobs
        <5> QED
          BY <2>3, <2>5, <4>2, <5>1, <5>2
      <4> QED
        BY <4>1, <4>2
    <3> QED
      BY <3>1, <3>2, <3>3, <3>4
  <2>7. JobInv'
    BY <2>6 DEF JobInv, Working
  <2>8. ReadyIsCurrent'
    <3>1. row.status = "ready" => row.key \in Keys /\ made[row.key] = row.version
      BY <1>1 DEF ReadyIsCurrent, Rows
    <3>2. row.key = job[w].key => row.version = job[w].version
      BY <1>1, <2>4 DEF JobInv
    <3>3. row.status = "ready" => row.key # None /\ made'[row.key] = row.version
      BY <2>5, <3>1, <3>2
    <3> QED
      BY <2>1, <3>3 DEF ReadyIsCurrent
  <2> QED
    BY <1>1, <2>1, <2>3, <2>5, <2>7, <2>8 DEF Goal
<1>17. ASSUME NEW w \in Workers, Publish(w) PROVE Goal
  <2>1. /\ made' = made /\ job[w].pc = "uploaded" /\ Holds(w)
        /\ Done(w) \/ Step(w, "failing")
    BY <1>17 DEF Publish
  <2>2. row' \in Rows /\ row'.key = row.key /\ row'.version = row.version /\ row'.status = "ready"
    BY <1>1, <1>17, RowFacts
  <2>3. /\ job' \in [Workers -> Jobs]
        /\ \A v \in Workers :
              \/ job'[v] = NoJob
              \/ /\ job'[v].key = job[v].key /\ job'[v].version = job[v].version
                 /\ job'[v].pc \in {"idle", "found"} <=> job[v].pc \in {"idle", "found"}
                 /\ job'[v].pc = "uploaded" => job[v].pc = "uploaded"
    <3>1. CASE Done(w)
      BY <1>1, <3>1, DropFacts
    <3>2. CASE Step(w, "failing")
      <4>1. /\ job' \in [Workers -> Jobs]
            /\ \A v \in Workers : /\ job'[v].key = job[v].key /\ job'[v].version = job[v].version
                                  /\ job'[v].pc = IF v = w THEN "failing" ELSE job[v].pc
        BY <1>1, <3>2, MoveFacts DEF Live
      <4> QED
        BY <2>1, <4>1
    <3> QED
      BY <2>1, <3>1, <3>2
  <2>4. JobInv'
    BY <2>1, <2>2, <2>3, StillTheirs
  <2>5. row.key # None /\ made[row.key] = row.version
    BY <1>1, <2>1 DEF Holds, JobInv
  <2>6. ReadyIsCurrent'
    BY <2>1, <2>2, <2>5 DEF ReadyIsCurrent
  <2> QED
    BY <1>1, <2>1, <2>2, <2>3, <2>4, <2>6 DEF Goal
<1>18. ASSUME NEW w \in Workers, Outlive(w) PROVE Goal
  <2>1. made' = made /\ row' = row
    BY <1>18 DEF Outlive
  <2> QED
    BY <1>1, <1>2, <1>18, <2>1, OutliveFacts
<1>19. CASE Crash
  <2>1. made' = made /\ row' = row /\ job' = [w \in Workers |-> NoJob]
    BY <1>19 DEF Crash
  <2>2. job' \in [Workers -> Jobs] /\ \A v \in Workers : job'[v] = NoJob
    BY <2>1, EmptyOnes
  <2> QED
    BY <1>1, <1>2, <2>1, <2>2
<1> QED
  BY <1>6, <1>7, <1>8, <1>9, <1>10, <1>11, <1>12, <1>13, <1>14, <1>15, <1>16, <1>17, <1>18, <1>19
     DEF Next, WorkerStep

\* The bounds, and what is printed.
LEMMA TypeStep == ASSUME BaseInv, Next PROVE TypeOK'
<1>1. TypeOK
  BY DEF BaseInv
<1>2. ASSUME NEW w \in Workers, WorkerStep(w) \/ StepFails(w) \/ GiveUpFails(w) \/ Outlive(w)
      PROVE  UNCHANGED <<photo, content, edits>> /\ (faults' = faults \/ Fault)
  <2>1. CASE Find(w) \/ ClaimLost(w) \/ \E k \in Keys : Claim(w, k)
    BY <2>1 DEF Find, ClaimLost, Claim
  <2>2. CASE CheckBefore(w) \/ Render(w) \/ CheckAfter(w)
    BY <2>2 DEF CheckBefore, CheckAfter, Check, Render
  <2>3. CASE Requeue(w) \/ RequeueFails(w) \/ Upload(w)
    BY <2>3 DEF Requeue, RequeueFails, Upload
  <2>4. CASE Publish(w) \/ PublishMisses(w) \/ Discard(w) \/ GiveUp(w)
    BY <2>4 DEF Publish, PublishMisses, Discard, GiveUp
  <2>5. CASE StepFails(w) \/ GiveUpFails(w) \/ Outlive(w)
    BY <2>5 DEF StepFails, GiveUpFails, Outlive
  <2> QED
    BY <1>2, <2>1, <2>2, <2>3, <2>4, <2>5 DEF WorkerStep
<1>3. ASSUME Ensure \/ Retry \/ Wake \/ RemovePhoto \/ \E v \in Versions : EditOrder(v)
      PROVE  /\ photo' \in BOOLEAN /\ content' \in Versions
             /\ (edits' = edits \/ Edit) /\ (faults' = faults \/ Fault)
  <2>1. photo' \in BOOLEAN /\ content' \in Versions
    BY <1>1, <1>3 DEF Ensure, Retry, Wake, RemovePhoto, EditOrder, TypeOK
  <2>2. (edits' = edits \/ Edit) /\ (faults' = faults \/ Fault)
    BY <1>3 DEF Ensure, Retry, Wake, RemovePhoto, EditOrder
  <2> QED
    BY <2>1, <2>2
<1>4. ASSUME LeaseExpires \/ (\E k \in Keys : DeletionBecomesDue(k)) \/ CleanerStep \/ Crash
      PROVE  UNCHANGED <<photo, content, edits>> /\ (faults' = faults \/ Fault)
  BY <1>4 DEF LeaseExpires, DeletionBecomesDue, CleanerStep, Crash
<1>5. photo' \in BOOLEAN /\ content' \in Versions
  BY <1>1, <1>2, <1>3, <1>4 DEF Next, TypeOK
<1>6. edits' \in 0..MaxEdits /\ faults' \in 0..MaxFaults
  <2>1. (edits' = edits \/ Edit) /\ (faults' = faults \/ Fault)
    BY <1>2, <1>3, <1>4 DEF Next
  <2> QED
    BY <1>1, <2>1, BoundsAreNatural DEF TypeOK, Edit, Fault
<1> QED
  BY <1>5, <1>6, BaseStep DEF TypeOK

LEMMA NextBase == BaseInv /\ [Next]_vars => BaseInv'
<1> SUFFICES ASSUME BaseInv, [Next]_vars PROVE BaseInv'
  OBVIOUS
<1>1. CASE Next
  BY <1>1, TypeStep, BaseStep DEF BaseInv
<1>2. CASE UNCHANGED vars
  BY <1>2 DEF vars, BaseInv, TypeOK, JobInv, ReadyIsCurrent, Working
<1> QED
  BY <1>1, <1>2

\* Every variable of the service keeps its type.
THEOREM TypesKept == Spec => []TypeOK
<1>1. BaseInv => TypeOK
  BY DEF BaseInv
<1> QED
  BY <1>1, InitBase, NextBase, PTL DEF Spec

\* A ready row names an object that was rendered for its version and uploaded, with any
\* number of workers, whether or not they outlive their leases and commits are answered.
THEOREM ReadyFilesAreCurrent == Spec => []ReadyIsCurrent
<1>1. BaseInv => ReadyIsCurrent
  BY DEF BaseInv
<1> QED
  BY <1>1, InitBase, NextBase, PTL DEF Spec

-----------------------------------------------------------------------------
(* The contract of the cleaner. *)

\* The two instances of the cleaner say the same.
LEMMA SameNames ==
    /\ Cleaner!Scheduled = Files!Scheduled /\ Cleaner!InBatch = Files!InBatch
    /\ Cleaner!NoBatch = Files!NoBatch
    /\ \A requested, now, new :
           Cleaner!Enqueue(requested, now, new) <=> Files!Enqueue(requested, now, new)
    /\ \A k : Cleaner!Fresh(k) <=> Files!Fresh(k)
  BY DEF Cleaner!Scheduled, Files!Scheduled, Cleaner!InBatch, Files!InBatch, Cleaner!NoBatch,
         Files!NoBatch, Cleaner!Enqueue, Files!Enqueue, Cleaner!Fresh, Files!Fresh, Writers, Tracked

LEMMA SameClientStep == Cleaner!ClientStep <=> Files!ClientStep
  BY DEF Cleaner!ClientStep, Files!ClientStep, Cleaner!Scheduled, Files!Scheduled,
         Cleaner!InBatch, Files!InBatch, Cleaner!Enqueue, Files!Enqueue, Cleaner!Fresh, Files!Fresh,
         Cleaner!Work, Files!Work, Cleaner!cleaner, Files!cleaner, Writers, Tracked, Served

LEMMA SameCrash == Cleaner!Crash <=> Files!Crash
  BY DEF Cleaner!Crash, Files!Crash, Cleaner!Scheduled, Files!Scheduled, Cleaner!NoBatch,
         Files!NoBatch, Writers, Tracked, Served

LEMMA SameCleanerSteps ==
    /\ Cleaner!StartBatch <=> Files!StartBatch
    /\ Cleaner!AbandonBatch <=> Files!AbandonBatch
    /\ \A k : /\ Cleaner!RemoveObject(k) <=> Files!RemoveObject(k)
              /\ Cleaner!DeleteRow(k) <=> Files!DeleteRow(k)
              /\ Cleaner!Postpone(k) <=> Files!Postpone(k)
              /\ Cleaner!BecomesDue(k) <=> Files!BecomesDue(k)
  BY DEF Cleaner!StartBatch, Files!StartBatch, Cleaner!AbandonBatch, Files!AbandonBatch,
         Cleaner!RemoveObject, Files!RemoveObject, Cleaner!DeleteRow, Files!DeleteRow,
         Cleaner!Postpone, Files!Postpone, Cleaner!BecomesDue, Files!BecomesDue,
         Cleaner!Scheduled, Files!Scheduled, Cleaner!InBatch, Files!InBatch, Cleaner!NoBatch,
         Files!NoBatch, Cleaner!client, Files!client, Cleaner!cleaner, Files!cleaner,
         Writers, Tracked, Served

LEMMA SameSpec ==
    /\ Cleaner!Init <=> Files!Init
    /\ Cleaner!Next <=> Files!Next
    /\ Cleaner!vars = Files!vars
<1>1. Cleaner!Init <=> Files!Init
  BY DEF Cleaner!Init, Files!Init, Cleaner!NoBatch, Files!NoBatch, Writers, Tracked, Served
<1>2. Cleaner!vars = Files!vars
  BY DEF Cleaner!vars, Files!vars, Cleaner!client, Files!client, Cleaner!cleaner, Files!cleaner,
         Writers, Tracked, Served
<1>3. Cleaner!Next <=> Files!Next
  BY SameClientStep, SameCrash, SameCleanerSteps
     DEF Cleaner!Next, Files!Next, Cleaner!CleanerStep, Files!CleanerStep
<1> QED
  BY <1>1, <1>2, <1>3

LEMMA InitContract == Init => ContractInv /\ Files!Init
<1> SUFFICES ASSUME Init PROVE ContractInv /\ Files!Init
  OBVIOUS
<1>1. BaseInv
  BY InitBase
<1>2. LeaseInv
  BY DEF Init, LeaseInv, Working, NoJob
<1>3. Writers = {} /\ Tracked = {} /\ Served = {}
  BY DEF Init, Writers, Working, Tracked, Served, Some, NoJob, NoRow
<1>4. Files!Init
  BY <1>3, SameNames DEF Init, Files!Init, Files!NoBatch
<1>5. Files!IInv
  BY <1>4, Files!InitIInv, BoundsAreNatural DEF Files!MaxGenerationIsPositive
<1> QED
  BY <1>1, <1>2, <1>4, <1>5 DEF ContractInv

\* Who writes, when a worker goes on, or ends.
LEMMA WriterFacts ==
    ASSUME BaseInv, job' \in [Workers -> Jobs]
    PROVE  /\ (\A v \in Workers : job'[v].key = job[v].key) => Writers' = Writers
           /\ \A w \in Workers : Done(w) => Writers' = Writers \ {job[w].key}
<1>1. Writers' = {job'[w].key : w \in {v \in Workers : job'[v].key # None}}
  BY DEF Writers, Working
<1>2. Writers = {job[w].key : w \in {v \in Workers : job[v].key # None}}
  BY DEF Writers, Working
<1>3. ASSUME NEW w \in Workers, Done(w) PROVE Writers' = Writers \ {job[w].key}
  <2>1. \A v \in Workers : job'[v] = IF v = w THEN NoJob ELSE job[v]
    BY <1>3, DropFacts DEF BaseInv, TypeOK
  <2>2. NoJob.key = None
    BY DEF NoJob
  <2>3. \A v \in Workers : v # w /\ job[v].key # None => job[v].key # job[w].key
    BY DEF BaseInv, JobInv, Working
  <2> QED
    BY <1>1, <1>2, <2>1, <2>2, <2>3
<1> QED
  BY <1>1, <1>2, <1>3, ZenonT(60)

\* What the invariant of the cleaner says here.
LEMMA CleanerFacts ==
    ASSUME ContractInv
    PROVE  /\ Files!TypeOK /\ Writers \subseteq Keys /\ Tracked \subseteq Keys
           /\ Served \subseteq Tracked /\ Files!Scheduled \subseteq Keys
           /\ \A k \in Tracked : k \notin Files!Scheduled /\ k \notin Files!InBatch
           /\ \A k : k \in Files!Scheduled <=> k \in Keys /\ deletion[k] # 0
           /\ \A k : k \in Files!InBatch <=> k \in Keys /\ batch[k] # 0
           /\ \A w \in Workers : Working(w) => job[w].key \in Writers /\ job[w].key \in Keys
           /\ \A k \in Writers : \E w \in Workers : Working(w) /\ job[w].key = k
           /\ \A k : k \in Tracked <=> k = row.key /\ k # None
<1>1. Files!IInv /\ BaseInv
  BY DEF ContractInv
<1>2. /\ Files!TypeOK /\ Writers \subseteq Keys /\ Tracked \subseteq Keys /\ Served \subseteq Tracked
      /\ \A k \in Tracked : k \notin Files!Scheduled /\ k \notin Files!InBatch
  BY <1>1 DEF Files!IInv, Files!TypeOK, Files!Apart
<1>3. \A w \in Workers : Working(w) => job[w].key \in Writers
  BY DEF Writers
<1>4. \A k \in Writers : \E w \in Workers : Working(w) /\ job[w].key = k
  BY DEF Writers
<1> QED
  BY <1>2, <1>3, <1>4 DEF Files!Scheduled, Files!InBatch, Tracked, Some

\* What handing over does to the rows of the cleaner.
LEMMA HandOverFacts ==
    ASSUME ContractInv, NEW requested, NEW now, requested \subseteq Writers \cup Tracked,
           now \subseteq requested, HandOver(requested, now)
    PROVE  /\ Files!Enqueue(requested, now, {})
           /\ stored' = stored /\ batch' = batch /\ removed' = removed
           /\ due' = (due \ requested) \cup now
           /\ \A k : k \in Files!Scheduled' <=> k \in Files!Scheduled \cup requested
           /\ Files!InBatch' = Files!InBatch
<1>1. Files!TypeOK /\ requested \subseteq Keys
  BY CleanerFacts
<1>2. /\ Files!Enqueue(requested, now, {})
      /\ stored' = stored /\ batch' = batch /\ removed' = removed
  BY SameNames DEF HandOver
<1>3. /\ \A k \in requested : deletion'[k] # 0
      /\ \A k \in Keys \ requested : deletion'[k] = deletion[k]
  BY <1>1, <1>2, Files!EnqueueRaises, BoundsAreNatural DEF Files!MaxGenerationIsPositive
<1> QED
  BY <1>1, <1>2, <1>3 DEF Files!Enqueue, Files!Scheduled, Files!InBatch

\* Handing over is a lawful step, whoever ends with it.
LEMMA HandOverIsLawful ==
    ASSUME ContractInv, NEW requested, NEW now, requested \subseteq Writers \cup Tracked,
           now \subseteq requested, HandOver(requested, now),
           Tracked' = Tracked \ requested, Served' = Served \ requested,
           \/ Writers' = Writers
           \/ \E w \in Workers : Working(w) /\ Writers' = Writers \ {job[w].key}
    PROVE  Files!ClientStep
<1>1. /\ Files!Enqueue(requested, now, {})
      /\ stored' = stored /\ batch' = batch /\ removed' = removed
  BY HandOverFacts
<1>2. Served \subseteq Tracked
  BY CleanerFacts
<1>3. \A k \in (Writers \ Writers') \cap stored' :
          k \in Tracked' \cup requested \cup (Files!Scheduled \ Files!InBatch)
  <2>1. SUFFICES ASSUME NEW w \in Workers, Working(w), job[w].key \notin requested
                 PROVE  job[w].key \in Tracked \cup (Files!Scheduled \ Files!InBatch)
    OBVIOUS
  <2>2. CASE row.key = job[w].key
    BY <2>1, <2>2 DEF Tracked, Some, Working
  <2>3. CASE row.key # job[w].key
    BY <2>1, <2>3 DEF ContractInv, LeaseInv
  <2> QED
    BY <2>2, <2>3
<1>4. \E ended \in SUBSET Writers : Writers' = (Writers \ ended) \cup {}
  <2>1. CASE Writers' = Writers
    <3>1. {} \in SUBSET Writers /\ Writers' = (Writers \ {}) \cup {}
      BY <2>1
    <3> QED
      BY <3>1
  <2>2. ASSUME NEW w \in Workers, Working(w), Writers' = Writers \ {job[w].key}
        PROVE  \E ended \in SUBSET Writers : Writers' = (Writers \ ended) \cup {}
    <3>1. {job[w].key} \in SUBSET Writers
      BY <2>2 DEF Writers
    <3> QED
      BY <2>2, <3>1
  <2> QED
    BY <2>1, <2>2
<1>5. \E put \in SUBSET Writers : stored' = stored \cup put
  BY <1>1
<1>6. Files!Work(requested, {})
  BY <1>2, <1>3, <1>4, <1>5 DEF Files!Work
<1> QED
  BY <1>1, <1>6 DEF Files!ClientStep, Files!cleaner

\* Whoever is still at work has its row, or its key waits for the end of the lease.
LEMMA HandOverLeaves ==
    ASSUME ContractInv, NEW requested, NEW now, requested \subseteq Writers \cup Tracked,
           now \subseteq requested, HandOver(requested, now),
           \A v \in Workers : job'[v] = NoJob \/ job'[v] = job[v],
           row'.key = None \/ row' = row,
           \A v \in Workers : job'[v] # NoJob /\ Working(v) /\ job[v].key \in requested =>
               job[v].key = row.key /\ now = {} /\ row'.key = None,
           row'.key = None => Tracked \subseteq requested
    PROVE  LeaseInv'
<1>1. /\ stored' = stored /\ due' = (due \ requested) \cup now
      /\ \A k : k \in Files!Scheduled' <=> k \in Files!Scheduled \cup requested
      /\ Files!InBatch' = Files!InBatch
  BY HandOverFacts
<1>2. \A k \in Tracked : k \notin Files!InBatch
  BY CleanerFacts
<1>3. LeaseInv
  BY DEF ContractInv
<1>4. NoJob.key = None /\ NoJob.pc = "idle" /\ ~NoJob.late
  BY DEF NoJob
<1>5. SUFFICES ASSUME NEW w \in Workers, job'[w] # NoJob
               PROVE  /\ ~job[w].late
                      /\ job[w].pc = "found" => job[w].found.status = "pending"
                            \/ (job[w].found.status = "processing" /\ job[w].found.expired)
                      /\ Working(w) /\ row'.key = job[w].key => row'.status = "processing" /\ ~row'.expired
                      /\ Working(w) /\ row'.key # job[w].key =>
                             job[w].key \in Files!Scheduled' /\ job[w].key \notin due'
                             /\ job[w].key \notin Files!InBatch'
                      /\ job[w].pc = "uploaded" /\ Working(w) /\ row'.key = job[w].key =>
                             row'.key \in stored'
                      /\ job[w].pc = "missed" /\ Working(w) => row'.key # job[w].key
  <2>1. \A w \in Workers : job'[w].pc \in {"uploaded", "missed"} => Working(w)'
    <3>1. \A w \in Workers : job[w].pc \in {"uploaded", "missed"} => job[w].key # None
      BY DEF ContractInv, BaseInv, JobInv
    <3> QED
      BY <1>4, <3>1 DEF Working
  <2>2. \A w \in Workers : job'[w] # NoJob => job'[w] = job[w]
    OBVIOUS
  <2> QED
    BY <1>4, <1>5, <2>1, <2>2 DEF LeaseInv, Working
<1>6. CASE Working(w) /\ job[w].key \in requested
  <2>1. job[w].key = row.key /\ now = {} /\ row'.key = None /\ job[w].key # None
    BY <1>5, <1>6 DEF Working
  <2>2. job[w].key \in Tracked
    BY <2>1 DEF Tracked, Some
  <2> QED
    BY <1>1, <1>2, <1>3, <1>5, <1>6, <2>1, <2>2 DEF LeaseInv
<1>7. CASE Working(w) /\ job[w].key \notin requested
  <2>1. row.key = job[w].key => row' = row
    BY <1>7 DEF Tracked, Some, Working
  <2>2. row.key # job[w].key => row'.key # job[w].key
    BY <1>7 DEF Working
  <2> QED
    BY <1>1, <1>3, <1>5, <1>7, <2>1, <2>2 DEF LeaseInv
<1>8. CASE ~Working(w)
  BY <1>3, <1>8 DEF LeaseInv
<1> QED
  BY <1>6, <1>7, <1>8

\* A step without a request, in which somebody may write, serve or end.
LEMMA QuietIsLawful ==
    ASSUME ContractInv, UNCHANGED <<deletion, due, batch, removed, condemned>>,
           \E put \in SUBSET Writers : stored' = stored \cup put,
           Tracked' = Tracked, Served \subseteq Served', Served' \subseteq Tracked,
           Served' \subseteq stored \cup Served,
           \/ Writers' = Writers
           \/ \E w \in Workers : Working(w) /\ Writers' = Writers \ {job[w].key}
    PROVE  Files!ClientStep
<1>1. Files!TypeOK
  BY CleanerFacts
<1>2. Files!Enqueue({}, {}, {})
  BY <1>1 DEF Files!TypeOK, Files!Enqueue
<1>3. \A k \in (Writers \ Writers') \cap stored' :
          k \in Tracked' \cup {} \cup (Files!Scheduled \ Files!InBatch)
  <2>1. SUFFICES ASSUME NEW w \in Workers, Working(w)
                 PROVE  job[w].key \in Tracked \cup (Files!Scheduled \ Files!InBatch)
    OBVIOUS
  <2>2. CASE row.key = job[w].key
    BY <2>1, <2>2 DEF Tracked, Some, Working
  <2>3. CASE row.key # job[w].key
    BY <2>1, <2>3 DEF ContractInv, LeaseInv
  <2> QED
    BY <2>2, <2>3
<1>4. \E ended \in SUBSET Writers : Writers' = (Writers \ ended) \cup {}
  <2>1. CASE Writers' = Writers
    <3>1. {} \in SUBSET Writers /\ Writers' = (Writers \ {}) \cup {}
      BY <2>1
    <3> QED
      BY <3>1
  <2>2. ASSUME NEW w \in Workers, Working(w), Writers' = Writers \ {job[w].key}
        PROVE  \E ended \in SUBSET Writers : Writers' = (Writers \ ended) \cup {}
    <3>1. {job[w].key} \in SUBSET Writers
      BY <2>2 DEF Writers
    <3> QED
      BY <2>2, <3>1
  <2> QED
    BY <2>1, <2>2
<1>5. Files!Work({}, {})
  BY <1>3, <1>4 DEF Files!Work
<1> QED
  BY <1>2, <1>5 DEF Files!ClientStep, Files!cleaner

\* The rows of the cleaner stay, and objects come if anything.
LEMMA QuietLeaves ==
    ASSUME ContractInv, UNCHANGED <<deletion, due, batch>>, stored \subseteq stored',
           \A v \in Workers :
               \/ job'[v] = NoJob
               \/ /\ job'[v].key = job[v].key /\ ~job'[v].late
                  /\ job'[v].pc = "found" => job'[v].found.status = "pending"
                        \/ (job'[v].found.status = "processing" /\ job'[v].found.expired)
                  /\ Working(v) /\ row.key = job[v].key => row'.status = "processing" /\ ~row'.expired
                  /\ job'[v].pc = "uploaded" => job[v].pc = "uploaded" \/ job[v].key \in stored'
                  /\ job'[v].pc = "missed" => job[v].pc = "missed" \/ row.key # job[v].key,
           row'.key = row.key
    PROVE  LeaseInv'
<1>1. Files!Scheduled' = Files!Scheduled /\ Files!InBatch' = Files!InBatch
  BY DEF Files!Scheduled, Files!InBatch
<1>2. LeaseInv
  BY DEF ContractInv
<1>3. NoJob.key = None /\ NoJob.pc = "idle" /\ ~NoJob.late
  BY DEF NoJob
<1>4. SUFFICES ASSUME NEW w \in Workers
               PROVE  /\ ~job'[w].late
                      /\ job'[w].pc = "found" => job'[w].found.status = "pending"
                            \/ (job'[w].found.status = "processing" /\ job'[w].found.expired)
                      /\ job'[w].key # None /\ row.key = job'[w].key =>
                             row'.status = "processing" /\ ~row'.expired
                      /\ job'[w].key # None /\ row.key # job'[w].key =>
                             job'[w].key \in Files!Scheduled \ (due \cup Files!InBatch)
                      /\ job'[w].pc = "uploaded" /\ row.key = job'[w].key => row.key \in stored'
                      /\ job'[w].pc = "missed" => row.key # job'[w].key
  BY <1>1 DEF LeaseInv, Working
<1>5. CASE job'[w] = NoJob
  BY <1>3, <1>5
<1>6. CASE job'[w] # NoJob
  BY <1>2, <1>6 DEF LeaseInv, Working
<1> QED
  BY <1>5, <1>6

\* The cleaner at work: a key that waits goes on waiting, and what the row names stays.
LEMMA CleanerLeaves ==
    ASSUME ContractInv, job' = job, row' = row,
           \/ Files!CleanerStep
           \/ \E k \in Keys : Files!BecomesDue(k) /\ LeaseIsOver(k)
    PROVE  LeaseInv'
<1>1. LeaseInv /\ Files!TypeOK /\ Files!Apart
  BY DEF ContractInv, Files!IInv
<1>2. /\ deletion \in [Keys -> Files!Generations \cup {0}]
      /\ batch \in [Keys -> Files!Generations \cup {0}]
      /\ removed \subseteq Files!InBatch /\ \A k \in Tracked : k \notin Files!InBatch
  BY <1>1, CleanerFacts DEF Files!TypeOK, Files!Apart
<1>3. ASSUME \A k \in Keys : deletion[k] # 0 /\ k \notin due /\ batch[k] = 0 /\ k \in Writers =>
                 deletion'[k] # 0 /\ k \notin due' /\ batch'[k] = 0,
             \A k \in stored : k \notin Files!InBatch => k \in stored'
      PROVE  LeaseInv'
  <2>1. ASSUME NEW w \in Workers, Working(w), row.key # job[w].key
        PROVE  job[w].key \in Files!Scheduled' \ (due' \cup Files!InBatch')
    <3>1. job[w].key \in Files!Scheduled \ (due \cup Files!InBatch)
      BY <1>1, <2>1 DEF LeaseInv
    <3>2. job[w].key \in Keys /\ job[w].key \in Writers
      BY <2>1, CleanerFacts
    <3> QED
      BY <1>3, <3>1, <3>2 DEF Files!Scheduled, Files!InBatch
  <2>2. ASSUME NEW w \in Workers, job[w].pc = "uploaded", row.key = job[w].key
        PROVE  row.key \in stored'
    <3>1. row.key \in stored /\ job[w].key # None
      BY <1>1, <2>2 DEF LeaseInv, ContractInv, BaseInv, JobInv
    <3>2. row.key \in Tracked
      BY <2>2, <3>1 DEF Tracked, Some
    <3> QED
      BY <1>2, <1>3, <3>1, <3>2
  <2> QED
    BY <1>1, <1>3, <2>1, <2>2 DEF LeaseInv, Working
<1>4. CASE Files!StartBatch
  BY <1>2, <1>3, <1>4 DEF Files!StartBatch
<1>5. ASSUME NEW k \in Keys, Files!RemoveObject(k) PROVE LeaseInv'
  BY <1>2, <1>3, <1>5 DEF Files!RemoveObject
<1>6. ASSUME NEW k \in Keys, Files!DeleteRow(k) PROVE LeaseInv'
  <2>1. batch[k] # 0
    BY <1>2, <1>6 DEF Files!DeleteRow, Files!InBatch
  <2>2. /\ batch' = [batch EXCEPT ![k] = 0] /\ stored' = stored
        /\ \/ deletion' = [deletion EXCEPT ![k] = 0] /\ due' = due \ {k}
           \/ deletion' = deletion /\ due' = due
    BY <1>6 DEF Files!DeleteRow
  <2> QED
    BY <1>2, <1>3, <2>1, <2>2
<1>7. ASSUME NEW k \in Keys, Files!Postpone(k) PROVE LeaseInv'
  <2>1. /\ batch' = [batch EXCEPT ![k] = 0] /\ stored' = stored /\ deletion' = deletion
        /\ due' \subseteq due
    BY <1>7 DEF Files!Postpone
  <2> QED
    BY <1>2, <1>3, <2>1
<1>8. CASE Files!AbandonBatch
  BY <1>2, <1>3, <1>8 DEF Files!AbandonBatch, Files!NoBatch
<1>9. ASSUME NEW k \in Keys, Files!BecomesDue(k), LeaseIsOver(k) PROVE LeaseInv'
  <2>1. k \notin Writers
    BY <1>1, <1>9, CleanerFacts DEF LeaseIsOver, LeaseInv
  <2>2. due' = due \cup {k} /\ deletion' = deletion /\ batch' = batch /\ stored' = stored
    BY <1>9 DEF Files!BecomesDue, Files!cleaner
  <2> QED
    BY <1>3, <2>1, <2>2
<1> QED
  BY <1>4, <1>5, <1>6, <1>7, <1>8, <1>9 DEF Files!CleanerStep

\* A new claim: a key that nothing refers to, and the one of the claim before it.
LEMMA ClaimIsLawful ==
    ASSUME ContractInv, NEW w \in Workers, NEW key \in Keys, Claim(w, key)
    PROVE  Files!ClientStep /\ LeaseInv'
<1>1. /\ BaseInv /\ TypeOK /\ LeaseInv /\ Files!TypeOK /\ Served \subseteq Tracked /\ Tracked \subseteq Keys
      /\ \A k \in Tracked : k \notin Files!InBatch
  BY CleanerFacts DEF ContractInv, BaseInv
<1>2. /\ job' \in [Workers -> Jobs]
      /\ \A v \in Workers : v # w => job'[v] = job[v]
      /\ job'[w].key = key /\ job'[w].pc = "claimed" /\ ~job'[w].late
      /\ row'.key = key /\ row'.status = "processing" /\ ~row'.expired
  BY <1>1, ClaimFacts
<1>3. /\ job[w].pc = "found" /\ row = job[w].found /\ Files!Fresh(key)
      /\ Files!Enqueue(Tracked, Tracked, {key})
      /\ stored' = stored /\ batch' = batch /\ removed' = removed
  BY SameNames DEF Claim, Tracked
<1>4. row.status = "pending" \/ (row.status = "processing" /\ row.expired)
  BY <1>1, <1>3 DEF LeaseInv
<1>5. key \notin Writers /\ key \notin Tracked /\ key # None /\ job[w].key = None
  BY <1>1, <1>3 DEF Files!Fresh, BaseInv, JobInv
<1>6. Tracked' = {key} /\ Served = {} /\ Served' = {}
  BY <1>2, <1>4, <1>5 DEF Tracked, Served, Some
<1>7. Writers' = Writers \cup {key}
  <2>1. Writers' = {job'[v].key : v \in {u \in Workers : job'[u].key # None}}
    BY DEF Writers, Working
  <2>2. Writers = {job[v].key : v \in {u \in Workers : job[u].key # None}}
    BY DEF Writers, Working
  <2> QED
    BY <1>2, <1>5, <2>1, <2>2
<1>8. Files!ClientStep
  <2>1. Tracked \in SUBSET (Writers \cup Tracked) /\ {key} \in SUBSET {k \in Keys : Files!Fresh(k)}
    BY <1>3
  <2>2. \E put \in SUBSET Writers : stored' = stored \cup put
    <3>1. {} \in SUBSET Writers /\ stored' = stored \cup {}
      BY <1>3
    <3> QED
      BY <3>1
  <2>3. \E ended \in SUBSET Writers : Writers' = (Writers \ ended) \cup {key}
    <3>1. {} \in SUBSET Writers /\ Writers' = (Writers \ {}) \cup {key}
      BY <1>7
    <3> QED
      BY <3>1
  <2>4. Tracked' = (Tracked \ Tracked) \cup {key}
    BY <1>6
  <2>5. Files!Work(Tracked, {key})
    BY <1>6, <1>7, <2>2, <2>3, <2>4 DEF Files!Work
  <2>6. UNCHANGED Files!cleaner
    BY <1>3 DEF Files!cleaner
  <2>7. \E now \in SUBSET Tracked : Files!Enqueue(Tracked, now, {key})
    BY <1>3
  <2> HIDE DEF Files!Work, Files!Enqueue
  <2> QED
    BY <2>1, <2>5, <2>6, <2>7 DEF Files!ClientStep
<1>9. /\ due' = (due \ Tracked) \cup Tracked
      /\ \A k : k \in Files!Scheduled /\ k \notin Tracked => k \in Files!Scheduled'
      /\ Files!InBatch' = Files!InBatch
  <2>1. deletion' = [k \in Keys |-> IF k \in Tracked THEN deletion[k] + 1 ELSE deletion[k]]
    BY <1>3 DEF Files!Enqueue
  <2>2. due' = (due \ Tracked) \cup Tracked
    BY <1>3 DEF Files!Enqueue
  <2> QED
    BY <1>3, <2>1, <2>2 DEF Files!Scheduled, Files!InBatch
<1>10. ASSUME NEW v \in Workers
       PROVE  /\ ~job'[v].late
              /\ job'[v].pc = "found" => job'[v].found.status = "pending"
                     \/ (job'[v].found.status = "processing" /\ job'[v].found.expired)
              /\ job'[v].key # None /\ row'.key # job'[v].key =>
                     job'[v].key \in Files!Scheduled' /\ job'[v].key \notin due'
                     /\ job'[v].key \notin Files!InBatch'
              /\ job'[v].pc \in {"uploaded", "missed"} => row'.key # job'[v].key
  <2>1. CASE v = w
    BY <1>2, <2>1
  <2>2. CASE v # w
    <3>1. job'[v] = job[v] /\ (job[v].key # None => job[v].key \in Writers)
      BY <1>2, <2>2 DEF Writers, Working
    <3>2. ASSUME job[v].key # None
          PROVE  /\ job[v].key # row.key /\ job[v].key \notin Tracked
                 /\ job[v].key \in Files!Scheduled \ (due \cup Files!InBatch)
      <4>1. job[v].key # row.key
        BY <1>1, <1>4, <3>2 DEF LeaseInv, Working
      <4> QED
        BY <1>1, <3>2, <4>1 DEF LeaseInv, Working, Tracked, Some
    <3>3. job[v].pc \in {"uploaded", "missed"} => job[v].key # None
      BY <1>1 DEF BaseInv, JobInv
    <3>4. job[v].pc = "found" => job[v].found.status = "pending"
                     \/ (job[v].found.status = "processing" /\ job[v].found.expired)
      BY <1>1 DEF LeaseInv
    <3>5. ~job[v].late
      BY <1>1 DEF LeaseInv
    <3> QED
      BY <1>2, <1>5, <1>9, <3>1, <3>2, <3>3, <3>4, <3>5
  <2> QED
    BY <2>1, <2>2
<1>11. LeaseInv'
  BY <1>2, <1>10 DEF LeaseInv, Working
<1> QED
  BY <1>8, <1>11

\* Every step of the service is one of a lawful client, of the cleaner, or none of its
\* business; and it leaves live workers their rows.
LEMMA ContractStep ==
    ASSUME ContractInv, Next, ~SlowWorkers, ~LostAnswers
    PROVE  (Files!Next \/ UNCHANGED Files!vars) /\ LeaseInv'
<1> DEFINE Goal == (Files!Next \/ UNCHANGED Files!vars) /\ LeaseInv'
<1> SUFFICES Goal
  OBVIOUS
<1>1. /\ BaseInv /\ TypeOK /\ JobInv /\ LeaseInv /\ row \in Rows /\ job \in [Workers -> Jobs]
      /\ content \in Versions
  BY DEF ContractInv, BaseInv, TypeOK
<1>2. ASSUME Files!ClientStep, LeaseInv' PROVE Goal
  BY <1>2 DEF Files!Next
<1>3. ASSUME UNCHANGED cleanup, Writers' = Writers, Tracked' = Tracked, Served' = Served, LeaseInv'
      PROVE  Goal
  BY <1>3 DEF cleanup, Files!vars, Files!cleaner, Files!client
<1>4. ASSUME row' = row PROVE Tracked' = Tracked /\ Served' = Served
  BY <1>4 DEF Tracked, Served
<1>5. ASSUME row'.key = None PROVE Tracked' = {} /\ Served' = {}
  BY <1>5 DEF Tracked, Served, Some
<1>6. ASSUME job' = job PROVE Writers' = Writers
  BY <1>6 DEF Writers, Working
<1>7. \A v \in Workers : ~job[v].late
  BY <1>1 DEF LeaseInv
<1>8. \A v \in Workers : Working(v) /\ row.key = job[v].key => row.status = "processing" /\ ~row.expired
  BY <1>1 DEF LeaseInv
<1>9. \A v \in Workers : job[v].pc = "found" => job[v].found.status = "pending"
                          \/ (job[v].found.status = "processing" /\ job[v].found.expired)
  BY <1>1 DEF LeaseInv
<1> HIDE DEF Goal
\* The key of the row is handed over while the workers go on, or one of them ends.
<1>10. ASSUME ReleaseKey, row'.key = None, job' \in [Workers -> Jobs],
              job' = job \/ \E w \in Workers : Done(w) /\ Working(w)
       PROVE  Goal
  <2> DEFINE now == IF row.status = "processing" /\ ~row.expired THEN {} ELSE Tracked
  <2>1. HandOver(Tracked, now) /\ now \subseteq Tracked
    BY <1>10 DEF ReleaseKey, Tracked
  <2>2. \A v \in Workers : Working(v) /\ job[v].key \in Tracked => job[v].key = row.key /\ now = {}
    BY <1>8 DEF Tracked, Some
  <2>3. Tracked' = Tracked \ Tracked /\ Served' = Served \ Tracked
    BY <1>5, <1>10, CleanerFacts
  <2>4. \/ Writers' = Writers
        \/ \E w \in Workers : Working(w) /\ Writers' = Writers \ {job[w].key}
    BY <1>1, <1>6, <1>10, WriterFacts
  <2>5. \A v \in Workers : job'[v] = NoJob \/ job'[v] = job[v]
    BY <1>1, <1>10, DropFacts
  <2> HIDE DEF now
  <2>6. Files!ClientStep
    BY <2>1, <2>3, <2>4, HandOverIsLawful
  <2>7. LeaseInv'
    BY <1>10, <2>1, <2>2, <2>5, HandOverLeaves
  <2> QED
    BY <1>2, <2>6, <2>7
\* A worker hands its own key over and ends.
<1>11. ASSUME NEW w \in Workers, Done(w), Working(w), HandOver({job[w].key}, {job[w].key}),
              (row' = row /\ row.key # job[w].key) \/ (row'.key = None /\ row.key = job[w].key)
       PROVE  Goal
  <2>1. job' \in [Workers -> Jobs] /\ \A v \in Workers : job'[v] = IF v = w THEN NoJob ELSE job[v]
    BY <1>1, <1>11, DropFacts
  <2>2. {job[w].key} \subseteq Writers \cup Tracked
    BY <1>11, CleanerFacts
  <2>3. Tracked' = Tracked \ {job[w].key} /\ Served' = Served \ {job[w].key}
    <3>1. CASE row' = row /\ row.key # job[w].key
      BY <1>4, <3>1 DEF Tracked, Served, Some
    <3>2. CASE row'.key = None /\ row.key = job[w].key
      BY <1>5, <3>2 DEF Tracked, Served, Some
    <3> QED
      BY <1>11, <3>1, <3>2
  <2>4. Writers' = Writers \ {job[w].key}
    BY <1>1, <1>11, <2>1, WriterFacts
  <2>5. Files!ClientStep
    BY <1>11, <2>2, <2>3, <2>4, HandOverIsLawful
  <2>6. \A v \in Workers : v # w /\ Working(v) => job[v].key # job[w].key
    BY <1>1, <1>11 DEF JobInv
  <2>7. row'.key = None /\ row.key # job[w].key => Tracked \subseteq {job[w].key}
    BY <1>11 DEF Tracked, Some
  <2>8. row.key = job[w].key => Tracked \subseteq {job[w].key}
    BY DEF Tracked, Some
  <2>9. \A v \in Workers : job'[v] # NoJob /\ Working(v) => job[v].key \notin {job[w].key}
    BY <2>1, <2>6
  <2>10. LeaseInv'
    BY <1>11, <2>1, <2>2, <2>7, <2>8, <2>9, HandOverLeaves
  <2> QED
    BY <1>2, <2>5, <2>10
\* A worker goes on, with nothing else changed.
<1>12. ASSUME UNCHANGED cleanup, row' = row, job' \in [Workers -> Jobs],
              \A v \in Workers : job'[v].key = job[v].key /\ ~job'[v].late,
              \A v \in Workers : job'[v].pc = "found" => job'[v].found.status = "pending"
                     \/ (job'[v].found.status = "processing" /\ job'[v].found.expired),
              \A v \in Workers :
                  /\ job'[v].pc = "uploaded" => job[v].pc = "uploaded"
                  /\ job'[v].pc = "missed" => job[v].pc = "missed" \/ row.key # job[v].key
       PROVE  Goal
  <2>1. UNCHANGED <<deletion, due, batch>> /\ stored' = stored
    BY <1>12 DEF cleanup
  <2>2. LeaseInv'
    BY <1>8, <1>12, <2>1, QuietLeaves
  <2>3. Writers' = Writers
    BY <1>1, <1>12, WriterFacts
  <2> QED
    BY <1>3, <1>4, <1>12, <2>2, <2>3
<1>13. ASSUME NEW w \in Workers, NEW next \in Live \ {"uploaded"}, Step(w, next),
              UNCHANGED cleanup, row' = row, next = "missed" => row.key # job[w].key
       PROVE  Goal
  <2>1. /\ job' \in [Workers -> Jobs]
        /\ \A v \in Workers : /\ job'[v].key = job[v].key /\ job'[v].late = job[v].late
                              /\ job'[v].pc = IF v = w THEN next ELSE job[v].pc
    BY <1>1, <1>13, MoveFacts
  <2>2. \A v \in Workers : v # w => job'[v] = job[v]
    BY <1>1, <1>13 DEF Step
  <2>3. next # "found" /\ next # "uploaded"
    BY <1>13 DEF Live
  <2> QED
    BY <1>7, <1>9, <1>12, <1>13, <2>1, <2>2, <2>3
\* The row of no live worker changes, with its key.
<1>14. ASSUME UNCHANGED cleanup, job' = job, row'.key = row.key,
              row'.status = "ready" <=> row.status = "ready",
              \A v \in Workers : Working(v) /\ row.key = job[v].key =>
                  row'.status = "processing" /\ ~row'.expired
       PROVE  Goal
  <2>1. UNCHANGED <<deletion, due, batch>> /\ stored' = stored
    BY <1>14 DEF cleanup
  <2>2. LeaseInv'
    BY <1>7, <1>9, <1>14, <2>1, QuietLeaves
  <2>3. Writers' = Writers /\ Tracked' = Tracked /\ Served' = Served
    BY <1>6, <1>14 DEF Tracked, Served
  <2> QED
    BY <1>3, <1>14, <2>2, <2>3
\* A worker ends without a word.
<1>15. ASSUME NEW w \in Workers, Done(w), Working(w), UNCHANGED cleanup, row' = row
       PROVE  Goal
  <2>1. job' \in [Workers -> Jobs] /\ \A v \in Workers : job'[v] = IF v = w THEN NoJob ELSE job[v]
    BY <1>1, <1>15, DropFacts
  <2>2. UNCHANGED <<deletion, due, batch, removed, condemned>> /\ stored' = stored
    BY <1>15 DEF cleanup
  <2>3. Writers' = Writers \ {job[w].key}
    BY <1>1, <1>15, <2>1, WriterFacts
  <2>4. Tracked' = Tracked /\ Served' = Served /\ Served \subseteq Tracked
    BY <1>4, <1>15, CleanerFacts
  <2>5. \E put \in SUBSET Writers : stored' = stored \cup put
    <3>1. {} \in SUBSET Writers /\ stored' = stored \cup {}
      BY <2>2
    <3> QED
      BY <3>1
  <2>6. Files!ClientStep
    BY <1>15, <2>2, <2>3, <2>4, <2>5, QuietIsLawful
  <2>7. LeaseInv'
    BY <1>7, <1>8, <1>9, <1>15, <2>1, <2>2, QuietLeaves
  <2> QED
    BY <1>2, <2>6, <2>7
<1>16. CASE Ensure \/ Retry \/ RemovePhoto
  <2>1. ReleaseKey /\ job' = job
    BY <1>16 DEF Ensure, Retry, RemovePhoto, Enqueued
  <2>2. row'.key = None
    <3>1. RemovePhoto \/ \E retry : Enqueued(retry)
      BY <1>16 DEF Ensure, Retry
    <3> QED
      BY <1>1, <3>1, EnqueuedFacts DEF RemovePhoto, NoRow
  <2> QED
    BY <1>1, <1>10, <2>1, <2>2
<1>17. CASE Wake
  <2>1. UNCHANGED cleanup /\ job' = job /\ row.status = "pending"
    BY <1>17 DEF Wake
  <2>2. row'.key = row.key /\ row'.status = row.status /\ row'.expired = row.expired
    BY <1>1, <1>17, RowFacts
  <2> QED
    BY <1>8, <1>14, <2>1, <2>2
<1>18. CASE LeaseExpires
  <2>1. UNCHANGED cleanup /\ job' = job /\ \A w \in Workers : job[w].key = row.key => job[w].late
    BY <1>18 DEF LeaseExpires, LeaseIsOver
  <2>2. row'.key = row.key /\ row'.status = row.status
    BY <1>1, <1>18, RowFacts
  <2> QED
    BY <1>7, <1>14, <2>1, <2>2
<1>19. CASE \E v \in Versions : EditOrder(v)
  <2>1. UNCHANGED cleanup /\ job' = job /\ row' = row
    BY <1>19 DEF EditOrder
  <2> QED
    BY <1>8, <1>14, <2>1
<1>20. CASE CleanerStep \/ \E k \in Keys : DeletionBecomesDue(k)
  <2>1. job' = job /\ row' = row
    BY <1>20 DEF CleanerStep, DeletionBecomesDue
  <2>2. Files!CleanerStep \/ \E k \in Keys : Files!BecomesDue(k) /\ LeaseIsOver(k)
    BY <1>20, SameCleanerSteps DEF CleanerStep, DeletionBecomesDue, Files!CleanerStep
  <2>3. LeaseInv'
    BY <2>1, <2>2, CleanerLeaves
  <2> QED
    BY <2>2, <2>3 DEF Files!Next, Goal
<1>21. ASSUME NEW w \in Workers, Find(w) PROVE Goal
  <2>1. UNCHANGED cleanup /\ row' = row /\ Claimable
    BY <1>21 DEF Find
  <2>2. /\ job' \in [Workers -> Jobs]
        /\ \A v \in Workers :
              /\ job'[v].key = job[v].key /\ job'[v].late = job[v].late
              /\ job'[v].pc = IF v = w THEN "found" ELSE job[v].pc
              /\ job'[v].found = IF v = w THEN row ELSE job[v].found
    BY <1>1, <1>21, FindFacts
  <2>3. row.status = "pending" \/ (row.status = "processing" /\ row.expired)
    BY <2>1 DEF Claimable
  <2> QED
    BY <1>7, <1>9, <1>12, <2>1, <2>2, <2>3
<1>22. ASSUME NEW w \in Workers, ClaimLost(w) PROVE Goal
  <2>1. UNCHANGED cleanup /\ row' = row /\ job[w].pc = "found" /\ Done(w)
    BY <1>22 DEF ClaimLost
  <2>2. job[w].key = None /\ NoJob.key = None /\ ~NoJob.late /\ NoJob.pc = "idle"
    BY <1>1, <2>1 DEF JobInv, NoJob
  <2>3. job' \in [Workers -> Jobs] /\ \A v \in Workers : job'[v] = IF v = w THEN NoJob ELSE job[v]
    BY <1>1, <2>1, DropFacts
  <2> QED
    BY <1>7, <1>9, <1>12, <2>1, <2>2, <2>3
<1>23. ASSUME NEW w \in Workers, NEW k \in Keys, Claim(w, k) PROVE Goal
  BY <1>2, <1>23, ClaimIsLawful
<1>24. ASSUME NEW w \in Workers,
              CheckBefore(w) \/ CheckAfter(w) \/ Render(w) \/ RequeueFails(w) \/ PublishMisses(w)
              \/ StepFails(w)
       PROVE  Goal
  <2>1. UNCHANGED cleanup /\ row' = row
    BY <1>24 DEF CheckBefore, CheckAfter, Check, Render, RequeueFails, PublishMisses, StepFails
  <2>2. \E next \in Live \ {"uploaded"} : Step(w, next) /\ (next = "missed" => row.key # job[w].key)
    <3>1. CASE CheckBefore(w) \/ CheckAfter(w)
      <4>1. \/ Step(w, "gone") \/ Step(w, "stale") \/ Step(w, "failing")
            \/ Step(w, "rendering") \/ Step(w, "uploading")
        BY <3>1 DEF CheckBefore, CheckAfter, Check
      <4> QED
        BY <4>1 DEF Live
    <3>2. CASE Render(w) \/ RequeueFails(w) \/ StepFails(w)
      BY <3>2 DEF Render, RequeueFails, StepFails, Live
    <3>3. CASE PublishMisses(w)
      <4>1. job[w].pc = "uploaded" /\ ~Holds(w) /\ Step(w, "missed")
        BY <3>3 DEF PublishMisses
      <4>2. Working(w)
        BY <1>1, <4>1 DEF JobInv, Working
      <4>3. row.key # job[w].key
        BY <1>1, <1>8, <4>1, <4>2 DEF Holds, JobInv
      <4> QED
        BY <4>1, <4>3 DEF Live
    <3> QED
      BY <1>24, <3>1, <3>2, <3>3
  <2> QED
    BY <1>13, <2>1, <2>2
<1>25. ASSUME NEW w \in Workers, Requeue(w) PROVE Goal
  <2>1. Done(w) /\ job[w].pc = "stale"
    BY <1>25 DEF Requeue
  <2>2. Working(w) /\ job' \in [Workers -> Jobs]
    BY <1>1, <2>1, DropFacts DEF JobInv, Working
  <2>3. CASE Unchanged
    BY <1>15, <1>25, <2>1, <2>2, <2>3 DEF Requeue
  <2>4. CASE ~Unchanged
    <3>1. Enqueued(FALSE)
      BY <1>25, <2>4 DEF Requeue
    <3>2. ReleaseKey /\ row'.key = None
      BY <1>1, <3>1, EnqueuedFacts DEF Enqueued
    <3> QED
      BY <1>10, <2>1, <2>2, <3>2
  <2> QED
    BY <2>3, <2>4
<1>26. ASSUME NEW w \in Workers, Upload(w) PROVE Goal
  <2>1. /\ row' = row /\ job[w].pc = "uploading" /\ stored' = stored \cup {job[w].key}
        /\ UNCHANGED <<deletion, due, batch, removed, condemned>>
        /\ \E next \in {"uploaded", "failing"} : Step(w, next)
    BY <1>26 DEF Upload
  <2>2. PICK next \in {"uploaded", "failing"} : Step(w, next)
    BY <2>1
  <2>3. /\ job' \in [Workers -> Jobs]
        /\ \A v \in Workers : /\ job'[v].key = job[v].key /\ job'[v].late = job[v].late
                              /\ job'[v].pc = IF v = w THEN next ELSE job[v].pc
    BY <1>1, <2>2, MoveFacts DEF Live
  <2>4. \A v \in Workers : v # w => job'[v] = job[v]
    BY <1>1, <2>2 DEF Step
  <2>5. Working(w) /\ {job[w].key} \in SUBSET Writers
    BY <1>1, <2>1 DEF JobInv, Working, Writers
  <2>6. Writers' = Writers /\ Tracked' = Tracked /\ Served' = Served /\ Served \subseteq Tracked
    BY <1>1, <1>4, <2>1, <2>3, WriterFacts, CleanerFacts
  <2>7. Files!ClientStep
    BY <2>1, <2>5, <2>6, QuietIsLawful
  <2>8. \A v \in Workers :
            /\ job'[v].pc = "found" => job'[v].found.status = "pending"
                  \/ (job'[v].found.status = "processing" /\ job'[v].found.expired)
            /\ job'[v].pc = "uploaded" => job[v].pc = "uploaded" \/ job[v].key \in stored'
    BY <1>9, <2>1, <2>3, <2>4
  <2>9. LeaseInv'
    BY <1>7, <1>8, <2>1, <2>3, <2>8, QuietLeaves
  <2> QED
    BY <1>2, <2>7, <2>9
<1>27. ASSUME NEW w \in Workers, Publish(w) PROVE Goal
  <2>1. UNCHANGED cleanup /\ job[w].pc = "uploaded" /\ Holds(w) /\ Done(w)
    BY <1>27 DEF Publish
  <2>2. row'.key = row.key /\ row'.status = "ready" /\ row.key = job[w].key /\ Working(w)
    BY <1>1, <1>27, <2>1, RowFacts DEF Holds, JobInv, Working
  <2>3. job' \in [Workers -> Jobs] /\ \A v \in Workers : job'[v] = IF v = w THEN NoJob ELSE job[v]
    BY <1>1, <2>1, DropFacts
  <2>4. UNCHANGED <<deletion, due, batch, removed, condemned>> /\ stored' = stored
    BY <2>1 DEF cleanup
  <2>5. row.key \in stored
    BY <1>1, <2>1, <2>2 DEF LeaseInv
  <2>6. Tracked' = Tracked /\ Served' = Tracked /\ Served \subseteq Tracked /\ Tracked \subseteq stored
    BY <2>2, <2>5 DEF Tracked, Served, Some
  <2>7. Writers' = Writers \ {job[w].key}
    BY <1>1, <2>1, <2>3, WriterFacts
  <2>8. \E put \in SUBSET Writers : stored' = stored \cup put
    <3>1. {} \in SUBSET Writers /\ stored' = stored \cup {}
      BY <2>4
    <3> QED
      BY <3>1
  <2>9. Files!ClientStep
    BY <2>2, <2>4, <2>6, <2>7, <2>8, QuietIsLawful
  <2>10. \A v \in Workers : v # w /\ Working(v) => job[v].key # row.key
    BY <1>1, <2>2 DEF JobInv
  <2>11. LeaseInv'
    BY <1>7, <1>9, <2>2, <2>3, <2>4, <2>10, QuietLeaves
  <2> QED
    BY <1>2, <2>9, <2>11
<1>28. ASSUME NEW w \in Workers, Discard(w) PROVE Goal
  <2>1. job[w].pc = "missed" /\ Done(w) /\ HandOver(Some(job[w].key), Some(job[w].key)) /\ row' = row
    BY <1>28 DEF Discard
  <2>2. Working(w) /\ Some(job[w].key) = {job[w].key}
    BY <1>1, <2>1 DEF JobInv, Working, Some
  <2>3. row.key # job[w].key
    BY <1>1, <2>1 DEF LeaseInv
  <2> QED
    BY <1>11, <2>1, <2>2, <2>3
<1>29. ASSUME NEW w \in Workers, GiveUp(w) PROVE Goal
  <2>1. /\ job[w].pc \in {"failing", "gone"} /\ Done(w)
        /\ HandOver(Some(job[w].key), Some(job[w].key))
    BY <1>29 DEF GiveUp
  <2>2. Working(w) /\ Some(job[w].key) = {job[w].key}
    BY <1>1, <2>1 DEF JobInv, Working, Some
  <2>3. row.key = job[w].key => Holds(w)
    BY <1>1, <1>8, <2>2 DEF Holds, JobInv
  <2>4. (row' = row /\ row.key # job[w].key) \/ (row'.key = None /\ row.key = job[w].key)
    BY <1>1, <1>29, <2>3, GiveUpFacts DEF Holds
  <2> QED
    BY <1>11, <2>1, <2>2, <2>4
<1>30. ASSUME NEW w \in Workers, GiveUpFails(w) PROVE Goal
  <2>1. job[w].pc \in {"claimed", "failing", "gone"} /\ Done(w) /\ UNCHANGED cleanup /\ row' = row
    BY <1>30 DEF GiveUpFails
  <2>2. Working(w)
    BY <1>1, <2>1 DEF JobInv, Working
  <2> QED
    BY <1>15, <2>1, <2>2
<1>31. ASSUME NEW w \in Workers, Outlive(w) PROVE Goal
  BY <1>31 DEF Outlive
<1>32. CASE Crash
  <2>1. /\ job' = [w \in Workers |-> NoJob] /\ row' = row
        /\ batch' = Files!NoBatch /\ removed' = {}
        /\ UNCHANGED <<stored, deletion, due, condemned>>
    BY <1>32, SameNames DEF Crash
  <2>2. Writers' = {} /\ LeaseInv'
    BY <2>1 DEF Writers, Working, LeaseInv, NoJob
  <2>3. Tracked' = Tracked /\ Served' = Served
    BY <1>4, <2>1
  <2>4. \A k \in Writers : k \in Tracked \cup Files!Scheduled
    <3>1. \A w \in Workers : Working(w) => job[w].key \in Tracked \cup Files!Scheduled
      BY <1>1 DEF LeaseInv, Tracked, Some, Working
    <3> QED
      BY <3>1, CleanerFacts
  <2>5. Files!Crash
    BY <2>1, <2>2, <2>3, <2>4 DEF Files!Crash
  <2> QED
    BY <2>2, <2>5 DEF Files!Next, Goal
<1> QED
  BY <1>16, <1>17, <1>18, <1>19, <1>20, <1>21, <1>22, <1>23, <1>24, <1>25, <1>26, <1>27, <1>28,
     <1>29, <1>30, <1>31, <1>32 DEF Next, WorkerStep

LEMMA NextContract ==
    ASSUME ~SlowWorkers, ~LostAnswers
    PROVE  ContractInv /\ [Next]_vars => ContractInv' /\ [Cleaner!Next]_(Cleaner!vars)
<1> SUFFICES ASSUME ContractInv, [Next]_vars
             PROVE  ContractInv' /\ [Cleaner!Next]_(Cleaner!vars)
  OBVIOUS
<1>1. ([Files!Next]_(Files!vars)) /\ LeaseInv'
  <2>1. CASE Next
    BY <2>1, ContractStep
  <2>2. CASE UNCHANGED vars
    <3>1. /\ UNCHANGED cleanup /\ row' = row /\ job' = job
          /\ UNCHANGED <<deletion, due, batch>> /\ stored' = stored
      BY <2>2 DEF vars, cleanup
    <3>2. Writers' = Writers /\ Tracked' = Tracked /\ Served' = Served
      BY <3>1 DEF Writers, Working, Tracked, Served
    <3>3. LeaseInv'
      BY <3>1 DEF ContractInv, LeaseInv, Working, Files!Scheduled, Files!InBatch
    <3> QED
      BY <3>1, <3>2, <3>3 DEF cleanup, Files!vars, Files!cleaner, Files!client
  <2> QED
    BY <2>1, <2>2
<1>2. Files!IInv'
  BY <1>1, Files!NextIInv, BoundsAreNatural DEF ContractInv, Files!MaxGenerationIsPositive
<1>3. BaseInv'
  BY NextBase DEF ContractInv
<1>4. UNCHANGED Files!vars => UNCHANGED Cleaner!vars
  BY DEF Cleaner!vars, Files!vars, Cleaner!client, Files!client, Cleaner!cleaner, Files!cleaner,
         Writers, Tracked, Served
<1>5. [Cleaner!Next]_(Cleaner!vars)
  BY <1>1, <1>4, SameSpec
<1> QED
  BY <1>1, <1>2, <1>3, <1>5 DEF ContractInv

\* With workers that end within their leases and commits that are answered, the service
\* is a lawful client of the cleaner: it implements the clients of StorageCleanup.
THEOREM ContractIsKept ==
    ASSUME ~SlowWorkers, ~LostAnswers
    PROVE  Spec => KeepsContract
<1>1. Init => ContractInv /\ Cleaner!Init
  BY InitContract, SameSpec
<1> QED
  BY <1>1, NextContract, PTL DEF Spec, KeepsContract, Cleaner!Spec

\* Under the same proviso a ready file can be downloaded, and nobody is about to delete
\* it: what StorageCleanupProofs says of served objects.
THEOREM ReadyFilesAreServed ==
    ASSUME ~SlowWorkers, ~LostAnswers
    PROVE  Spec => []ReadyIsServed
<1>1. Init => ContractInv
  BY InitContract
<1>2. ContractInv => ReadyIsServed
  <2> SUFFICES ASSUME ContractInv, row.status = "ready" PROVE
               row.key \in stored /\ deletion[row.key] = 0 /\ batch[row.key] = 0
    BY DEF ReadyIsServed
  <2>1. row.key # None /\ row \in Rows
    BY DEF ContractInv, BaseInv, ReadyIsCurrent, TypeOK
  <2>2. row.key \in Served /\ row.key \in Keys
    BY <2>1 DEF Served, Some, Rows
  <2> QED
    BY <2>2 DEF ContractInv, Files!IInv, Files!ServedStays, Files!Scheduled, Files!InBatch
<1> QED
  BY <1>1, <1>2, NextContract, PTL DEF Spec

\* ... and no object is lost track of, whatever fails and whenever the process stops.
THEOREM NothingIsOrphaned ==
    ASSUME ~SlowWorkers, ~LostAnswers
    PROVE  Spec => []NoOrphan
<1>1. Init => ContractInv
  BY InitContract
<1>2. ContractInv => NoOrphan
  BY SameNames DEF ContractInv, Files!IInv, Files!NoOrphan, NoOrphan, Cleaner!NoOrphan, Writers, Tracked
<1> QED
  BY <1>1, <1>2, NextContract, PTL DEF Spec
=============================================================================
