----------------------------- MODULE ImageSlots -----------------------------
(***************************************************************************)
(* Who may work on an image: ImagePreviewQueue (storage/image-preview.ts), *)
(* one per process, with a limit for all jobs and one for each kind        *)
(* (image-job.config.ts), and its callers: uploads, the previews in the    *)
(* background, the dispatchers of production files, and people who cannot  *)
(* wait for one (expedite).                                                *)
(*                                                                         *)
(* JavaScript runs the queue without interruption: while it drains nobody  *)
(* else does anything.                                                     *)
(***************************************************************************)
EXTENDS Naturals, Sequences, FiniteSets, SequencesExt

CONSTANTS
    Uploads,      \* requests that upload an image
    Backfills,    \* attachments whose preview is missing
    Dispatchers,  \* calls of processNext by processAvailable
    Urgent,       \* calls of processNext by expedite, one per job
    Total, PreviewLimit, ProductionLimit  \* imageJobConfiguration

Jobs == Uploads \cup Backfills \cup Dispatchers \cup Urgent
Kinds == {"preview", "production"}
Kind(j) == IF j \in Uploads \cup Backfills THEN "preview" ELSE "production"
Limit(kind) == IF kind = "preview" THEN PreviewLimit ELSE ProductionLimit

LimitsArePositive ==
    /\ Total \in Nat \ {0}
    /\ PreviewLimit \in 1..Total /\ ProductionLimit \in 1..Total

VARIABLES
    waiting,   \* the jobs that wait, in the order they came
    running,   \* the jobs that have a slot
    active,    \* the counter of slots in use
    counts,    \* kind |-> the counters [waiting, running]
    draining   \* the loop of drain is being executed

vars == <<waiting, running, active, counts, draining>>

Init ==
    /\ waiting = <<>> /\ running = {}
    /\ active = 0
    /\ counts = [kind \in Kinds |-> [waiting |-> 0, running |-> 0]]
    /\ draining = FALSE

Known == ToSet(waiting) \cup running

-----------------------------------------------------------------------------
(* Those who call run. *)

\* activeKeys, running, urgentDispatches: what may come in addition to what is there.
\* Those who cannot wait count for the dispatchers, but are not held back by them.
MayCome(j) ==
    /\ j \in Backfills => Cardinality(Known \cap Backfills) < PreviewLimit
    /\ j \in Dispatchers => Cardinality(Known \cap (Dispatchers \cup Urgent)) < ProductionLimit

Run(j) ==
    /\ ~draining /\ j \notin Known /\ MayCome(j)
    /\ waiting' = Append(waiting, j)
    /\ counts' = [counts EXCEPT ![Kind(j)].waiting = @ + 1]
    /\ draining' = TRUE
    /\ UNCHANGED <<running, active>>

\* Mutant: a job that failed keeps its slot.
FinishLeaky(j) ==
    /\ ~draining /\ j \in running
    /\ running' = running \ {j}
    /\ counts' = [counts EXCEPT ![Kind(j)].running = @ - 1]
    /\ active' \in {active - 1, active}
    /\ draining' = TRUE
    /\ UNCHANGED waiting

\* A job has ended, one way or the other: the finally.
Finish(j) ==
    /\ ~draining /\ j \in running
    /\ running' = running \ {j}
    /\ counts' = [counts EXCEPT ![Kind(j)].running = @ - 1]
    /\ active' = active - 1
    /\ draining' = TRUE
    /\ UNCHANGED waiting

-----------------------------------------------------------------------------
(* drain. *)

Eligible(i) == counts[Kind(waiting[i])].running < Limit(Kind(waiting[i]))

\* Mutant: the kind that is at its limit is not skipped.
CandidatesHead == {i \in DOMAIN waiting : i = 1 /\ Eligible(i)}

Candidates == {i \in DOMAIN waiting : Eligible(i)}

Pressing == {i \in Candidates : waiting[i] \in Urgent}

\* Mutant: priority is forgotten.
NextOldest == CHOOSE i \in Candidates : \A k \in Candidates : i <= k

\* findIndex: the first that cannot wait, or else the first.
NextIndex ==
    LET S == IF Pressing # {} THEN Pressing ELSE Candidates
    IN CHOOSE i \in S : \A k \in S : i <= k

\* start.
Start ==
    /\ draining /\ active < Total /\ Candidates # {}
    /\ LET j == waiting[NextIndex] IN
          /\ waiting' = RemoveAt(waiting, NextIndex)
          /\ running' = running \cup {j}
          /\ counts' = [counts EXCEPT ![Kind(j)] = [waiting |-> @.waiting - 1, running |-> @.running + 1]]
    /\ active' = active + 1
    /\ UNCHANGED draining

EndDrain ==
    /\ draining /\ (active >= Total \/ Candidates = {})
    /\ draining' = FALSE
    /\ UNCHANGED <<waiting, running, active, counts>>

Next ==
    \/ \E j \in Jobs : Run(j) \/ Finish(j)
    \/ Start \/ EndDrain

Spec == Init /\ [][Next]_vars

\* Every job has a timeout of its own and ends; the queue itself is synchronous.
FairSpec ==
    /\ Spec /\ WF_vars(Start \/ EndDrain)
    /\ \A j \in Jobs : SF_vars(Finish(j))

-----------------------------------------------------------------------------
(* Properties. *)

TypeOK ==
    /\ waiting \in Seq(Jobs) /\ running \in SUBSET Jobs
    /\ active \in Nat /\ draining \in BOOLEAN
    /\ counts \in [Kinds -> [waiting : Nat, running : Nat]]

\* The counters say what is there, and no limit is exceeded: no job takes two slots, none
\* that ends keeps one, and none that waits is counted twice.
OfKind(S, kind) == {j \in S : Kind(j) = kind}

SlotsAreCounted ==
    /\ active = Cardinality(running) /\ active <= Total
    /\ \A kind \in Kinds :
          /\ counts[kind].waiting = Cardinality(OfKind(ToSet(waiting), kind))
          /\ counts[kind].running = Cardinality(OfKind(running, kind))
          /\ counts[kind].running <= Limit(kind)

\* Between two calls no slot is left unused that a waiting job could take: all of them
\* are in use, or as many as its kind may have.
NoSlotIdles ==
    ~draining => \A i \in DOMAIN waiting :
        \/ Cardinality(running) = Total
        \/ Cardinality(OfKind(running, Kind(waiting[i]))) = Limit(Kind(waiting[i]))

\* A slot goes to one who cannot wait, if there is one that may have it.
UrgentFirst ==
    [][\A j \in running' \ running : Pressing # {} => j \in Urgent]_vars

\* A job that waits gets its slot, unless those who cannot wait come again and again.
EveryJobStarts ==
    (<>[](Urgent \cap Known = {})) => \A j \in Jobs : (j \in ToSet(waiting)) ~> (j \in running)
=============================================================================
