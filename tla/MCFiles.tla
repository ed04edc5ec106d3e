------------------------------ MODULE MCFiles -------------------------------
(* Instances for TLC of what happens to stored files: the lifecycle of       *)
(* orders and their attachments (OrderFiles: one order, or a file that two   *)
(* orders share; two files of an order, in batches; orders that are          *)
(* completed), the queue of deletions (StorageCleanup) and the slots for     *)
(* work on images (ImageSlots). A behaviour is of one of them, and the       *)
(* others keep still.                                                        *)
EXTENDS OrderFiles

CONSTANTS
    f1, Objects, MaxGeneration,
    Uploads, Backfills, Dispatchers, Urgent, Total, PreviewLimit, ProductionLimit

VARIABLES
    part,
    objects, generations, dueRows, reading, taken, writing, recorded, promised, given,
    waiting, running, active, counts, draining

filesVars == vars
cleanupVars == <<objects, generations, dueRows, reading, taken, writing, recorded, promised, given>>
slotsVars == <<waiting, running, active, counts, draining>>

Cleanup == INSTANCE StorageCleanup WITH
    Keys <- Objects, stored <- objects, deletion <- generations, due <- dueRows, batch <- reading,
    removed <- taken, writers <- writing, tracked <- recorded, served <- promised, condemned <- given
Slots == INSTANCE ImageSlots

ASSUME FilesAssumption ==
    /\ NumOrders \in Nat /\ Delay \in Nat /\ PageSize \in Nat \ {0}
    /\ Cleanup!MaxGenerationIsPositive
    /\ Slots!LimitsArePositive

OfFiles == part \in {"files", "paged", "completed"}

\* One file in "files", none in "completed"; one of the two workers.
Confined ==
    /\ part = "files" => \A k \in Keys \ {f1} : meta[k] = "none"
    /\ part = "completed" => \A k \in Keys : meta[k] = "none"
    /\ OfFiles => worker[IF part = "completed" THEN "cleanup" ELSE "completion"] = NoTick

MCInit ==
    /\ part \in {"files", "paged", "completed", "cleanup", "slots"}
    /\ Init /\ Cleanup!Init /\ Slots!Init
    /\ Confined
    /\ CASE part = "paged" ->
               /\ \A o \in Orders : status[o] = IF o = 1 THEN "sent" ELSE "gone"
               /\ changes = MaxChanges /\ faults = MaxFaults
         [] part = "completed" -> changes + faults = 2
         [] part = "files" ->
               /\ status[1] # "gone"
               /\ IF status[2] = "gone" THEN changes + faults = 2
                  ELSE changes = MaxChanges - 1 /\ faults = MaxFaults /\ meta[f1] = "shown"
         [] ~OfFiles ->
               /\ \A o \in Orders : status[o] = "gone"
               /\ \A k \in Keys : meta[k] = "none"
               /\ changes = 0 /\ faults = 0

MCNext ==
    \/ OfFiles /\ Next /\ UNCHANGED <<part, cleanupVars, slotsVars>> /\ Confined'
    \/ part = "cleanup" /\ Cleanup!Next /\ UNCHANGED <<part, filesVars, slotsVars>>
    \/ part = "slots" /\ Slots!Next /\ UNCHANGED <<part, filesVars, cleanupVars>>

FilesStep(A) == part \in {"files", "paged"} /\ A /\ UNCHANGED <<part, cleanupVars, slotsVars>> /\ Confined'
CleanupStep(A) == part = "cleanup" /\ A /\ UNCHANGED <<part, filesVars, slotsVars>>

\* The fairness of OrderFiles and StorageCleanup.
MCFairness ==
    /\ WF_filesVars(FilesStep(Tick))
    /\ WF_filesVars(FilesStep(Lifecycle("cleanup") \/ DeleteBatch))
    /\ \A k \in Keys :
          /\ WF_filesVars(FilesStep(Preview(k)))
          /\ WF_filesVars(FilesStep(RenderFails(k) /\ k \notin original))
          /\ WF_filesVars(FilesStep(BecomesDue(k)))
          /\ WF_filesVars(FilesStep(Delete(k)))
    /\ \A k \in Objects :
          /\ WF_cleanupVars(CleanupStep(Cleanup!BecomesDue(k)))
          /\ WF_cleanupVars(CleanupStep(Cleanup!StartBatch))
          /\ WF_cleanupVars(CleanupStep(\E l \in Objects : Cleanup!RemoveObject(l) \/ Cleanup!DeleteRow(l)))
          /\ SF_cleanupVars(CleanupStep(Cleanup!RemoveObject(k)))
          /\ SF_cleanupVars(CleanupStep(Cleanup!DeleteRow(k)))

MCSpec == MCInit /\ [][MCNext]_<<part, filesVars, cleanupVars, slotsVars>> /\ MCFairness

\* No object is lost track of, and what is served is there (StorageCleanup).
NoOrphan == Cleanup!NoOrphan
ServedStays == Cleanup!ServedStays

\* What is handed over disappears (StorageCleanup).
HandedOverIsGone == part = "cleanup" => Cleanup!HandedOverGoes

\* The counters of the slots are right (ImageSlots).
SlotsAreCounted == Slots!SlotsAreCounted
=============================================================================
