---------------------------- MODULE StatusMirror ----------------------------
(***************************************************************************)
(* The local copy of one order's status and everything that writes it:     *)
(* managers (orders.service.ts, updateOrderStatus), the import loops that  *)
(* read BlueSales (bluesales-sync.service.ts), the confirmations of the    *)
(* outbox, and the reconciliation at startup; with the switch that turns   *)
(* the import off, the revision cycles and the sketch mark that   *)
(* follow the status.                                                      *)
(*                                                                         *)
(* Every write of the status is one transaction under the row lock of      *)
(* BluesalesOrderInfo, so it is one step; what a reader saw before it, and *)
(* when it asked, is carried in its state from one step to the next.  The  *)
(* outbox is taken at the level of StatusDelivery: requests close one at a *)
(* time, oldest first, after a read that shows their status.               *)
(*                                                                         *)
(* The code only compares time stamps, so a stamp is its rank among the    *)
(* live ones; 0 is the null stamp.  Tick lets time pass and renumbers.     *)
(***************************************************************************)
EXTENDS Naturals, Sequences, SequencesExt, FiniteSets

CONSTANTS
    Statuses,      \* statuses of the BlueSales catalogue
    RevisionStart, \* REVISION_START_STATUS_ID
    RevisionReady, \* REVISION_READY_STATUS_ID
    Sketch,        \* SKETCH_START_STATUS
    Readers,       \* import loops that may hold an answer about the order at once
    None,          \* no status: the order is not returned, or not imported yet
    MaxChanges,    \* bound: status changes by managers
    MaxEdits,      \* bound: changes made inside BlueSales and switches of the import
    MaxFaults      \* bound: restarts and failed imports

ASSUME StatusesAreKnown ==
    /\ {RevisionStart, RevisionReady, Sketch} \subseteq Statuses
    /\ Cardinality({RevisionStart, RevisionReady, Sketch}) = 3
    /\ None \notin Statuses \cup Readers
ASSUME ReadersAreFinite == IsFiniteSet(Readers)
ASSUME BoundsAreNatural ==
    MaxChanges \in Nat /\ MaxEdits \in Nat /\ MaxFaults \in Nat

VARIABLES
    local,     \* orderStatusId; None: the order is not in the CRM yet
    observed,  \* orderStatusObservedAt
    active,    \* number of revisions without a closure
    marked,    \* sketchStartedAt is set
    queue,     \* target statuses of the order's open outbox rows
    outbox,    \* the verification read of the head row
    reader,    \* per import loop, the answer it is working on
    backfill,  \* the sketch backfill has found the order unmarked
    inbound,   \* the import switch, in memory and in the database
    up,        \* the startup reconciliation is done and the loops run
    bs,        \* the status in BlueSales
    now,
    changes, edits, faults,
    \* History, read by the properties only.
    landed,    \* the last change was stored or seen in BlueSales, or dropped
    sound      \* per import loop: its answer was given after that

card   == <<local, observed, active, marked>>
budget == <<changes, edits, faults>>
vars == <<card, queue, outbox, reader, backfill, inbound, up, bs, now, budget, landed, sound>>

Answers == Statuses \cup {None}
MaxStamp == Cardinality(Readers) + 3
Stamps == 0..MaxStamp

Idle == [phase |-> "idle", stamp |-> 0, answer |-> None]
NoAnswer == [phase |-> "idle", stamp |-> 0, answer |-> None, known |-> FALSE]

TypeOK ==
    /\ local \in Answers
    /\ observed \in Stamps
    /\ active \in 0..2
    /\ marked \in BOOLEAN
    /\ queue \in UNION {[1..n -> Statuses] : n \in 0..MaxChanges}
    /\ outbox \in [phase : {"idle", "asked", "answered"}, stamp : Stamps, answer : Answers]
    /\ reader \in [Readers -> [phase : {"idle", "asked", "answered", "prepared"},
                               stamp : Stamps, answer : Answers,
                               known : BOOLEAN]]
    /\ backfill \in BOOLEAN /\ inbound \in BOOLEAN /\ up \in BOOLEAN
    /\ bs \in Answers
    /\ now \in Stamps \ {0}
    /\ changes \in 0..MaxChanges /\ edits \in 0..MaxEdits /\ faults \in 0..MaxFaults
    /\ landed \in BOOLEAN
    /\ sound \in [Readers -> BOOLEAN]

\* The database may be older than the revision cycles and the sketch mark, and
\* hold orders that were never observed, or have a cycle from a message.
Init ==
    /\ local \in Answers
    /\ observed = 0
    /\ active \in IF local = None THEN {0} ELSE 0..2
    /\ marked = FALSE
    /\ queue = <<>>
    /\ outbox = Idle
    /\ reader = [r \in Readers |-> NoAnswer]
    /\ backfill = FALSE
    /\ inbound \in BOOLEAN
    /\ up = FALSE
    /\ bs \in Statuses
    /\ now = 1
    /\ changes = 0 /\ edits = 0 /\ faults = 0
    /\ landed = TRUE
    /\ sound = [r \in Readers |-> FALSE]

-----------------------------------------------------------------------------
(* Time. *)

LiveStamps == ({observed, outbox.stamp} \cup {reader[r].stamp : r \in Readers}) \ {0}

Rank(t) == IF t = 0 THEN 0 ELSE 1 + Cardinality({u \in LiveStamps : u < t})

Tick ==
    /\ now \in LiveStamps
    /\ now' = 1 + Cardinality(LiveStamps)
    /\ observed' = Rank(observed)
    /\ outbox' = [outbox EXCEPT !.stamp = Rank(@)]
    /\ reader' = [r \in Readers |-> [reader[r] EXCEPT !.stamp = Rank(@)]]
    /\ UNCHANGED <<local, active, marked, queue, backfill, inbound, up, bs, budget, landed,
                   sound>>

-----------------------------------------------------------------------------
(* What follows the status in the same transaction. *)

\* Mutant: the open cycle is not looked up first.
TrackUnchecked(previous, status) ==
    active' = CASE previous # status /\ status = RevisionStart -> active + 1
                [] previous # status /\ status = RevisionReady -> 0
                [] OTHER                                       -> active

\* trackRevisionStatusTransition: entering the start status opens a cycle if none
\* is open, entering the ready status closes all of them.
Track(previous, status) ==
    active' = CASE previous # status /\ status = RevisionStart /\ active = 0 -> 1
                [] previous # status /\ status = RevisionReady               -> 0
                [] OTHER                                                     -> active

\* Mutant: the mark follows the status that the order leaves.
NeedsMarkOnLeaving(status) == status # local /\ local = Sketch /\ ~marked

\* computeSketchTimestampUpdate
NeedsMark(status) == status = Sketch /\ ~marked

-----------------------------------------------------------------------------
(* Managers. *)

\* updateOrderStatus: the card changes at once and the change is queued.
ChangeStatus(s) ==
    /\ up
    /\ changes < MaxChanges /\ changes' = changes + 1
    /\ local # None /\ local # s
    /\ local' = s
    /\ observed' = now
    /\ Track(local, s)
    /\ marked' = (marked \/ NeedsMark(s))
    /\ queue' = Append(queue, s)
    /\ landed' = FALSE
    /\ sound' = [r \in Readers |-> FALSE]
    /\ UNCHANGED <<outbox, reader, backfill, inbound, up, bs, now, edits, faults>>

-----------------------------------------------------------------------------
(* The outbox: writes of the head row, one read to verify it, its end. *)

WriteLands ==
    /\ up
    /\ queue # <<>> /\ bs # None
    /\ bs' = Head(queue)
    /\ landed' = (landed \/ Len(queue) = 1)
    /\ UNCHANGED <<card, queue, outbox, reader, backfill, inbound, up, now, budget, sound>>

\* The stamp is taken before the request is sent.
Verify ==
    /\ up
    /\ queue # <<>> /\ outbox.phase = "idle"
    /\ outbox' = [Idle EXCEPT !.phase = "asked", !.stamp = now]
    /\ UNCHANGED <<card, queue, reader, backfill, inbound, up, bs, now, budget, landed, sound>>

VerifyAnswered ==
    /\ outbox.phase = "asked"
    /\ outbox' = [outbox EXCEPT !.phase = "answered", !.answer = bs]
    /\ landed' = (landed \/ (bs = Head(queue) /\ Len(queue) = 1))
    /\ UNCHANGED <<card, queue, reader, backfill, inbound, up, bs, now, budget, sound>>

\* completeChange: the row closes; the card takes the answer over only if this
\* was the last open row, the import is on and nothing newer was observed.
CompleteChange ==
    /\ outbox.phase = "answered" /\ outbox.answer = Head(queue)
    /\ queue' = Tail(queue)
    /\ outbox' = Idle
    /\ IF Len(queue) = 1 /\ inbound /\ observed < outbox.stamp
       THEN /\ local' = outbox.answer
            /\ observed' = outbox.stamp
            /\ Track(local, outbox.answer)
       ELSE UNCHANGED <<local, observed, active>>
    /\ UNCHANGED <<marked, reader, backfill, inbound, up, bs, now, budget, landed, sound>>

\* The order is missing: the row is tried again or, from its second attempt,
\* failed for good.  Any other answer is tried again.
AttemptFails(drop) ==
    /\ outbox.phase = "answered" /\ outbox.answer # Head(queue)
    /\ drop => outbox.answer = None
    /\ outbox' = Idle
    /\ queue' = IF drop THEN Tail(queue) ELSE queue
    /\ IF drop /\ Len(queue) = 1
       THEN landed' = TRUE /\ sound' = [r \in Readers |-> TRUE]
       ELSE UNCHANGED <<landed, sound>>
    /\ UNCHANGED <<card, reader, backfill, inbound, up, bs, now, budget>>

-----------------------------------------------------------------------------
(* The import loops. *)

Put(r, answer) == reader' = [reader EXCEPT ![r] = answer]

\* refreshBatch, runFastSync, refreshSingleOrder: the stamp is that of the request.
Ask(r) ==
    /\ up /\ inbound
    /\ reader[r].phase = "idle"
    /\ Put(r, [NoAnswer EXCEPT !.phase = "asked", !.stamp = now])
    /\ UNCHANGED <<card, queue, outbox, backfill, inbound, up, bs, now, budget, landed, sound>>

\* The verification is an interactive request, so no read that was asked after it
\* is sent before it.
IsNextInLine(r) == ~(outbox.phase = "asked" /\ outbox.stamp < reader[r].stamp)

\* Mutant: the stamp is that of the answer.
AnsweredStampedNow(r) ==
    /\ reader[r].phase = "asked" /\ IsNextInLine(r)
    /\ Put(r, [reader[r] EXCEPT !.phase = "answered", !.answer = bs, !.stamp = now])
    /\ sound' = [sound EXCEPT ![r] = landed]
    /\ UNCHANGED <<card, queue, outbox, backfill, inbound, up, bs, now, budget, landed>>

\* BlueSales reads the order; the answer may be handled much later.
Answered(r) ==
    /\ reader[r].phase = "asked" /\ IsNextInLine(r)
    /\ Put(r, [reader[r] EXCEPT !.phase = "answered", !.answer = bs])
    /\ sound' = [sound EXCEPT ![r] = landed]
    /\ UNCHANGED <<card, queue, outbox, backfill, inbound, up, bs, now, budget, landed>>

\* What upsertOrder reads before its transaction: whether the order is known.
\* (It reads the sketch mark here too; a mark that is set stays set, so only the
\* time that is written in the end depends on that.)
Prepare(r) ==
    /\ reader[r].phase = "answered"
    /\ inbound /\ reader[r].answer # None
    /\ Put(r, [reader[r] EXCEPT !.phase = "prepared",
                                !.known = local # None])
    /\ UNCHANGED <<card, queue, outbox, backfill, inbound, up, bs, now, budget, landed, sound>>

\* The import was switched off, or BlueSales did not return the order.
Drop(r) ==
    /\ \/ reader[r].phase = "answered" /\ (~inbound \/ reader[r].answer = None)
       \/ reader[r].phase = "prepared" /\ ~inbound
    /\ Put(r, NoAnswer)
    /\ UNCHANGED <<card, queue, outbox, backfill, inbound, up, bs, now, budget, landed, sound>>

\* Mutant: an answer is taken over even while changes are waiting.
CanApplyWhilePending(r) == observed < reader[r].stamp

\* Mutant: only a status that was never observed is taken over.
CanApplyOnce(r) == queue = <<>> /\ observed = 0 /\ reader[r].stamp > 0

\* canApplyStatus
CanApply(r) == queue = <<>> /\ observed < reader[r].stamp

Take(r, previous) ==
    /\ local' = reader[r].answer
    /\ observed' = reader[r].stamp
    /\ Track(previous, reader[r].answer)
    /\ marked' = (marked \/ NeedsMark(reader[r].answer))

\* upsertOrder, the transaction on a known order.
Update(r) ==
    /\ reader[r].phase = "prepared" /\ reader[r].known
    /\ inbound
    /\ IF CanApply(r) THEN Take(r, local) ELSE UNCHANGED card
    /\ Put(r, NoAnswer)
    /\ UNCHANGED <<queue, outbox, backfill, inbound, up, bs, now, budget, landed, sound>>

\* upsertOrder, the transaction on a new order; if another loop was faster, the
\* unique keys reject it and this answer is lost.
Create(r) ==
    /\ reader[r].phase = "prepared" /\ ~reader[r].known
    /\ inbound
    /\ IF local = None THEN Take(r, None) ELSE UNCHANGED card
    /\ Put(r, NoAnswer)
    /\ UNCHANGED <<queue, outbox, backfill, inbound, up, bs, now, budget, landed, sound>>

\* sketchBackfillBatch: a select, then an update by id.
BackfillFinds ==
    /\ up /\ inbound
    /\ ~backfill /\ NeedsMark(local)
    /\ backfill' = TRUE
    /\ UNCHANGED <<card, queue, outbox, reader, inbound, up, bs, now, budget, landed, sound>>

BackfillMarks ==
    /\ backfill
    /\ backfill' = FALSE
    /\ marked' = TRUE
    /\ UNCHANGED <<local, observed, active, queue, outbox, reader, inbound, up, bs, now,
                   budget, landed, sound>>

-----------------------------------------------------------------------------
(* Starting, stopping, failing, and the world outside. *)

\* Mutant: the backend starts without looking for missing cycles.
ReconcileNothing ==
    /\ ~up /\ up' = TRUE
    /\ UNCHANGED <<card, queue, outbox, reader, backfill, inbound, bs, now, budget, landed, sound>>

\* reconcileActiveRevisions, before the server and the loops start.
Reconcile ==
    /\ ~up /\ up' = TRUE
    /\ IF local = RevisionStart /\ active = 0 THEN Track(None, local) ELSE UNCHANGED active
    /\ UNCHANGED <<local, observed, marked, queue, outbox, reader, backfill, inbound, bs, now,
                   budget, landed, sound>>

Restart ==
    /\ up /\ up' = FALSE
    /\ faults < MaxFaults /\ faults' = faults + 1
    /\ outbox' = Idle
    /\ reader' = [r \in Readers |-> NoAnswer]
    /\ backfill' = FALSE
    /\ UNCHANGED <<card, queue, inbound, bs, now, changes, edits, landed, sound>>

\* A request or a transaction of an import fails, or the night pause begins.
ImportFails(r) ==
    /\ reader[r].phase # "idle"
    /\ faults < MaxFaults /\ faults' = faults + 1
    /\ Put(r, NoAnswer)
    /\ UNCHANGED <<card, queue, outbox, backfill, inbound, up, bs, now, changes, edits,
                   landed, sound>>

\* setEnabled
SetEnabled ==
    /\ up
    /\ edits < MaxEdits /\ edits' = edits + 1
    /\ inbound' = ~inbound
    /\ UNCHANGED <<card, queue, outbox, reader, backfill, up, bs, now, changes, faults,
                   landed, sound>>

BluesalesEdit(s) ==
    /\ edits < MaxEdits /\ edits' = edits + 1
    /\ bs # s /\ bs' = s
    /\ UNCHANGED <<card, queue, outbox, reader, backfill, inbound, up, now, changes,
                   faults, landed, sound>>

OutboxStep == Verify \/ VerifyAnswered \/ CompleteChange \/ \E drop \in BOOLEAN : AttemptFails(drop)
ReaderStep(r) == Ask(r) \/ Answered(r) \/ Prepare(r) \/ Drop(r) \/ Update(r) \/ Create(r)

Next ==
    \/ Tick
    \/ \E s \in Statuses : ChangeStatus(s)
    \/ WriteLands \/ OutboxStep
    \/ \E r \in Readers : ReaderStep(r) \/ ImportFails(r)
    \/ BackfillFinds \/ BackfillMarks
    \/ Reconcile \/ Restart \/ SetEnabled
    \/ \E s \in Answers : BluesalesEdit(s)

Spec == Init /\ [][Next]_vars

\* Time passes, the backend starts, the refresh loop comes round to every order,
\* and the outbox keeps trying: it writes what the last read did not show.
Fairness ==
    /\ WF_vars(Tick) /\ WF_vars(Reconcile)
    /\ WF_vars(WriteLands) /\ WF_vars(OutboxStep)
    /\ \A r \in Readers : WF_vars(ReaderStep(r))
    /\ WF_vars(BackfillFinds) /\ WF_vars(BackfillMarks)

FairSpec == Spec /\ Fairness

-----------------------------------------------------------------------------
(* Properties. *)

\* A manager always sees the last status a manager chose while it is on its way
\* to BlueSales, whatever answers arrive meanwhile.
CardShowsLastRequest == queue # <<>> => local = Last(queue)

\* An answer that replaces the status on the card was given by BlueSales after
\* the managers' last change had reached it: an import never rolls back a change.
ImportsAreFresh ==
    [][\A r \in Readers :
         reader[r].phase = "prepared" /\ reader[r].known /\ reader'[r].phase = "idle"
             /\ local' # local => sound[r]]_vars

\* An order in rework always has an open revision cycle.
ReworkHasRevision == up /\ local = RevisionStart => active # 0

\* A cycle opens only when none is open, and the ready status leaves none open.
RevisionsTakeTurns ==
    [][/\ active' > active => active = 0
       /\ local # RevisionReady /\ local' = RevisionReady => active' = 0]_vars

\* An order that enters the sketch status is marked in the same transaction, by
\* whichever path, although an import decides on the mark before it.
SketchEntryIsMarked == [][local # Sketch /\ local' = Sketch => marked']_vars

\* When people stop changing the order and the import stays on, the card and
\* BlueSales agree for good, and an order in the sketch status is marked.
Converges == <>[](inbound /\ bs # None => local = bs /\ (local = Sketch => marked))
=============================================================================
