------------------------ MODULE StorageCleanupProofs ------------------------
(***************************************************************************)
(* No object is lost track of, and what is served stays, for every set of  *)
(* keys and every bound of the generations.                                *)
(***************************************************************************)
EXTENDS StorageCleanup, TLAPS

\* A client's own keys are none that were handed over; what the cleaner knows
\* of was; and the generation it read is none that is still to come.
Apart ==
    /\ served \subseteq tracked
    /\ tracked \cap condemned = {}
    /\ Scheduled \subseteq condemned
    /\ InBatch \subseteq condemned
    /\ removed \subseteq InBatch
    /\ \A k \in InBatch : batch[k] <= deletion[k]

\* The inductive invariant.
IInv == TypeOK /\ Apart /\ NoOrphan /\ LateUploadIsSeen /\ ServedStays

\* What enqueue does to the rows: those of the requested keys get a higher
\* generation, the others stay.
LEMMA EnqueueRaises ==
    ASSUME MaxGenerationIsPositive, TypeOK, NEW requested, NEW now, NEW new,
           requested \subseteq Keys, now \subseteq requested, new \subseteq Keys,
           Enqueue(requested, now, new)
    PROVE  /\ deletion' \in [Keys -> Generations \cup {0}]
           /\ due' \in SUBSET Keys
           /\ condemned' \in SUBSET Keys
           /\ \A k \in requested : deletion'[k] = deletion[k] + 1 /\ deletion'[k] # 0
           /\ \A k \in Keys \ requested : deletion'[k] = deletion[k]
  BY DEF MaxGenerationIsPositive, TypeOK, Enqueue, Generations

\* The initial state satisfies the invariant.
LEMMA InitIInv == Init => IInv
  BY DEF Init, IInv, TypeOK, Apart, NoOrphan, LateUploadIsSeen, ServedStays, Scheduled, InBatch,
         NoBatch, Generations

\* Whatever the clients do, the invariant stays.
LEMMA ClientIInv == ASSUME MaxGenerationIsPositive, IInv, ClientStep PROVE IInv'
  <1>1. PICK requested \in SUBSET (writers \cup tracked), new \in SUBSET {k \in Keys : Fresh(k)} :
             /\ \E now \in SUBSET requested : Enqueue(requested, now, new)
             /\ Work(requested, new)
    BY DEF ClientStep
  <1>2. PICK now \in SUBSET requested : Enqueue(requested, now, new)
    BY <1>1
  <1>3. TypeOK /\ requested \subseteq Keys /\ new \subseteq Keys /\ now \subseteq requested
    BY DEF IInv, TypeOK
  <1>4. /\ deletion' \in [Keys -> Generations \cup {0}]
        /\ due' \in SUBSET Keys
        /\ condemned' \in SUBSET Keys
        /\ \A k \in requested : deletion'[k] = deletion[k] + 1 /\ deletion'[k] # 0
        /\ \A k \in Keys \ requested : deletion'[k] = deletion[k]
    BY <1>2, <1>3, EnqueueRaises
  <1>5. UNCHANGED <<batch, removed>>
    BY DEF ClientStep, cleaner
  <1>6. condemned' = (condemned \ new) \cup requested
    BY <1>2 DEF Enqueue
  <1>7. \A k \in new : k \notin writers /\ k \notin tracked /\ k \notin stored
                       /\ k \notin Scheduled /\ k \notin InBatch
    BY DEF Fresh
  <1>8. PICK put \in SUBSET writers : stored' = stored \cup put
    BY <1>1 DEF Work
  <1>9. /\ tracked' \in {tracked \ requested, (tracked \ requested) \cup new}
        /\ \E ended \in SUBSET writers : writers' = (writers \ ended) \cup new
        /\ served' \subseteq tracked'
        /\ served' \ served \subseteq stored /\ served \ served' \subseteq requested
        /\ \A k \in (writers \ writers') \cap stored' :
               k \in tracked' \cup requested \cup (Scheduled \ InBatch)
    BY <1>1 DEF Work
  <1>10. Scheduled' = Scheduled \cup requested
    BY <1>3, <1>4 DEF Scheduled, TypeOK, Generations
  <1>11. InBatch' = InBatch
    BY <1>5 DEF InBatch
  <1>12. TypeOK'
    BY <1>3, <1>4, <1>5, <1>8, <1>9 DEF TypeOK
  <1>13. Apart'
    <2>1. served' \subseteq tracked'
      BY <1>9
    <2>2. tracked' \cap condemned' = {}
      BY <1>6, <1>7, <1>9 DEF IInv, Apart
    <2>3. Scheduled' \subseteq condemned' /\ InBatch' \subseteq condemned'
      BY <1>6, <1>7, <1>10, <1>11 DEF IInv, Apart
    <2>4. removed' \subseteq InBatch'
      BY <1>5, <1>11 DEF IInv, Apart
    <2>5. \A k \in InBatch' : batch'[k] <= deletion'[k]
      <3> SUFFICES ASSUME NEW k \in InBatch PROVE batch[k] <= deletion'[k]
        BY <1>5, <1>11
      <3>1. k \in Keys /\ batch[k] <= deletion[k] /\ batch[k] \in Nat /\ deletion[k] \in Nat
        BY DEF IInv, Apart, InBatch, TypeOK, Generations
      <3> QED BY <1>4, <3>1
    <2> QED BY <2>1, <2>2, <2>3, <2>4, <2>5 DEF Apart
  <1>14. NoOrphan'
    <2> SUFFICES ASSUME NEW k \in stored' PROVE k \in tracked' \cup Scheduled' \cup writers'
      BY DEF NoOrphan
    <2>1. CASE k \in writers
      BY <2>1, <1>9, <1>10
    <2>2. CASE k \notin writers
      <3>1. k \in tracked \cup Scheduled
        BY <2>2, <1>8 DEF IInv, NoOrphan
      <3> QED BY <3>1, <1>9, <1>10
    <2> QED BY <2>1, <2>2
  <1>15. LateUploadIsSeen'
    <2> SUFFICES ASSUME NEW k \in removed, k \in stored', deletion'[k] = batch[k]
                 PROVE  k \in writers'
      BY <1>5 DEF LateUploadIsSeen
    <2>1. k \in InBatch /\ k \in condemned /\ k \notin tracked /\ k \in Keys
      BY DEF IInv, Apart, InBatch
    <2>2. batch[k] <= deletion[k] /\ batch[k] \in Nat /\ deletion[k] \in Nat
      BY <2>1 DEF IInv, Apart, TypeOK, Generations
    <2>3. k \notin requested
      BY <2>2, <1>4
    <2>4. deletion[k] = batch[k]
      BY <2>1, <2>3, <1>4
    <2>5. k \in writers
      <3>1. CASE k \in stored
        BY <3>1, <2>4 DEF IInv, LateUploadIsSeen
      <3>2. CASE k \notin stored
        BY <3>2, <1>8
      <3> QED BY <3>1, <3>2
    <2>6. k \notin tracked'
      BY <2>1, <1>7, <1>9
    <2> QED BY <2>1, <2>3, <2>5, <2>6, <1>9
  <1>16. ServedStays'
    <2>1. served' \cap condemned' = {}
      BY <1>13 DEF Apart
    <2>2. served' \subseteq stored'
      BY <1>8, <1>9 DEF IInv, ServedStays
    <2> QED BY <2>1, <2>2, <1>13 DEF Apart, ServedStays
  <1> QED BY <1>12, <1>13, <1>14, <1>15, <1>16 DEF IInv

\* A crash preserves it: the workers are gone, and with them the batch.
LEMMA CrashIInv == ASSUME IInv, Crash PROVE IInv'
  BY DEF Crash, IInv, TypeOK, Apart, NoOrphan, LateUploadIsSeen, ServedStays, Scheduled, InBatch,
         NoBatch, Generations

\* Reading the rows of a batch.
LEMMA StartBatchIInv == ASSUME IInv, StartBatch PROVE IInv'
  <1>1. /\ batch' = [k \in Keys |-> IF k \in due THEN deletion[k] ELSE 0]
        /\ removed = {} /\ removed' = {}
        /\ UNCHANGED <<stored, deletion, due, writers, tracked, served, condemned>>
    BY DEF StartBatch, IInv, Apart, client
  <1>2. Scheduled' = Scheduled /\ InBatch' \subseteq Scheduled
    BY <1>1 DEF Scheduled, InBatch
  <1>3. TypeOK'
    BY <1>1 DEF IInv, TypeOK
  <1>4. \A k \in InBatch' : batch'[k] <= deletion'[k]
    BY <1>1 DEF InBatch, IInv, TypeOK, Generations
  <1> QED BY <1>1, <1>2, <1>3, <1>4 DEF IInv, Apart, NoOrphan, LateUploadIsSeen, ServedStays

\* The batch gets shorter and nothing is removed any more, whatever becomes of the
\* waiting rows: the steps that only end the work on a key.
LEMMA DroppedIInv ==
    ASSUME IInv,
           UNCHANGED <<stored, deletion, client, condemned>>, removed' = {},
           due' \in SUBSET Keys, batch' \in [Keys -> Generations \cup {0}],
           \A k \in Keys : batch'[k] \in {0, batch[k]}
    PROVE  IInv'
  <1>1. Scheduled' = Scheduled /\ InBatch' \subseteq InBatch
    BY DEF Scheduled, InBatch
  <1>2. \A k \in InBatch' : batch'[k] <= deletion'[k]
    BY <1>1 DEF InBatch, IInv, Apart
  <1> QED BY <1>1, <1>2 DEF IInv, TypeOK, Apart, NoOrphan, LateUploadIsSeen, ServedStays, client

LEMMA AbandonBatchIInv == ASSUME IInv, AbandonBatch PROVE IInv'
  <1>1. \A k \in Keys : batch'[k] = 0
    BY DEF AbandonBatch, NoBatch
  <1> QED BY <1>1, DroppedIInv DEF AbandonBatch, NoBatch, IInv, TypeOK

LEMMA PostponeIInv == ASSUME IInv, NEW k \in Keys, Postpone(k) PROVE IInv'
  BY DroppedIInv DEF Postpone, IInv, TypeOK

LEMMA RemoveObjectIInv == ASSUME IInv, NEW k \in Keys, RemoveObject(k) PROVE IInv'
  BY DEF RemoveObject, IInv, TypeOK, Apart, NoOrphan, LateUploadIsSeen, ServedStays, Scheduled,
         InBatch, client

\* Deleting the row of the generation that was read.
LEMMA DeleteRowIInv == ASSUME IInv, NEW k \in Keys, DeleteRow(k) PROVE IInv'
  <1>1. /\ k \in removed /\ removed' = {}
        /\ batch' = [batch EXCEPT ![k] = 0]
        /\ UNCHANGED <<stored, writers, tracked, served, condemned>>
    BY DEF DeleteRow, client
  <1>2. CASE deletion[k] = batch[k]
    <2>1. deletion' = [deletion EXCEPT ![k] = 0] /\ due' = due \ {k}
      BY <1>2 DEF DeleteRow
    <2>2. k \notin stored \/ k \in writers
      BY <1>1, <1>2 DEF IInv, LateUploadIsSeen
    <2>3. Scheduled' = Scheduled \ {k} /\ InBatch' = InBatch \ {k}
      BY <2>1, <1>1 DEF IInv, TypeOK, Scheduled, InBatch
    <2>4. TypeOK'
      BY <2>1, <1>1 DEF IInv, TypeOK
    <2>5. \A l \in InBatch' : batch'[l] <= deletion'[l]
      BY <2>1, <2>3, <1>1 DEF IInv, TypeOK, Apart, InBatch
    <2> QED BY <1>1, <2>2, <2>3, <2>4, <2>5
            DEF IInv, Apart, NoOrphan, LateUploadIsSeen, ServedStays
  <1>3. CASE deletion[k] # batch[k]
    BY <1>3, DroppedIInv DEF DeleteRow, IInv, TypeOK
  <1> QED BY <1>2, <1>3

LEMMA NextIInv ==
    ASSUME MaxGenerationIsPositive, IInv, [Next]_vars
    PROVE  IInv'
  <1>1. CASE ClientStep
    BY <1>1, ClientIInv
  <1>2. CASE Crash
    BY <1>2, CrashIInv
  <1>3. CASE CleanerStep
    BY <1>3, StartBatchIInv, AbandonBatchIInv, RemoveObjectIInv, DeleteRowIInv, PostponeIInv
       DEF CleanerStep
  <1>4. CASE \E k \in Keys : BecomesDue(k)
    BY <1>4 DEF BecomesDue, cleaner, client, IInv, TypeOK, Apart, NoOrphan, LateUploadIsSeen,
                ServedStays, Scheduled, InBatch
  <1>5. CASE UNCHANGED vars
    BY <1>5 DEF vars, cleaner, client, IInv, TypeOK, Apart, NoOrphan, LateUploadIsSeen,
                ServedStays, Scheduled, InBatch
  <1> QED BY <1>1, <1>2, <1>3, <1>4, <1>5 DEF Next

LEMMA Invariance ==
    ASSUME MaxGenerationIsPositive
    PROVE  Spec => []IInv
  <1>1. IInv /\ [Next]_vars => IInv'
    BY NextIInv
  <1> QED BY InitIInv, <1>1, PTL DEF Spec

\* Every object is the client's, or scheduled for deletion, or in the hands of a
\* live worker (the generations of storage-cleanup.service.ts).
THEOREM ObjectsAreTracked ==
    ASSUME MaxGenerationIsPositive
    PROVE  Spec => []NoOrphan
  <1>1. IInv => NoOrphan
    BY DEF IInv
  <1> QED BY Invariance, <1>1, PTL

\* What is promised to readers is stored and not about to be deleted.
THEOREM ServedObjectsStay ==
    ASSUME MaxGenerationIsPositive
    PROVE  Spec => []ServedStays
  <1>1. IInv => ServedStays
    BY DEF IInv
  <1> QED BY Invariance, <1>1, PTL

\* The row of a generation is never deleted over an object that has no worker left.
THEOREM LateUploadsAreSeen ==
    ASSUME MaxGenerationIsPositive
    PROVE  Spec => []LateUploadIsSeen
  <1>1. IInv => LateUploadIsSeen
    BY DEF IInv
  <1> QED BY Invariance, <1>1, PTL
=============================================================================
