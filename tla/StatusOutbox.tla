---------------------------- MODULE StatusOutbox ----------------------------
(***************************************************************************)
(* The durable outbox that carries the order statuses set in the studio's  *)
(* CRM to BlueSales (orders/order-status-outbox.processor.ts), together    *)
(* with the two operations that write its table: a manager's status        *)
(* change (orders.service.ts, updateOrderStatus) and the removal of an     *)
(* order, whose rows go with it.                                           *)
(*                                                                         *)
(* The table OrderStatusChange is a set of columns indexed by row id; ids  *)
(* are handed out in increasing order, so id order is request order.  A    *)
(* process is one running backend.  It is a sequential loop whose program  *)
(* counter is pc; every database statement or transaction, and every call  *)
(* to BlueSales, is one step.  The deployment described in the sources has *)
(* one process; the lease columns exist so that more would be safe, and    *)
(* the module takes any set of them.                                       *)
(*                                                                         *)
(* Time is abstracted: due says that nextAttemptAt has passed, expired     *)
(* that lockedAt is older than the lease.  The batching window only delays *)
(* a claim, which here may come arbitrarily late.  A lease token is drawn  *)
(* afresh by each claim and a process holds one batch at a time, so the    *)
(* name of the process stands for the token.                               *)
(***************************************************************************)
EXTENDS Naturals, FiniteSets

CONSTANTS
    Orders,      \* orders of the CRM that are linked to a BlueSales order
    Statuses,    \* statuses of the BlueSales catalogue
    Processes,   \* backend processes
    None,        \* no order, no status, no lease
    MaxChanges,  \* bound: rows of the outbox
    BatchSize,   \* ORDER_STATUS_OUTBOX_BATCH_SIZE
    MaxFaults,   \* bound: failed calls, crashes and pauses
    MaxEdits,    \* bound: changes made by people inside BlueSales
    LateWrites   \* may a write that was given up on still land later?

ASSUME NoneIsNothing == None \notin Orders \cup Statuses \cup Processes
ASSUME BoundsAreNatural ==
    /\ MaxChanges \in Nat /\ MaxFaults \in Nat /\ MaxEdits \in Nat
    /\ BatchSize \in Nat \ {0}
    /\ LateWrites \in BOOLEAN

Ids == 1..MaxChanges
Active == {"PENDING", "PROCESSING", "RETRY"}
Terminal == {"SUCCEEDED", "FAILED"}

VARIABLES
    nextId,    \* the next row id
    order,     \* column orderId
    target,    \* column toStatusId
    state,     \* column state; "NONE" before insertion, "DELETED" after the cascade
    tried,     \* column attempts, as attempts >= 1
    lease,     \* column leaseToken
    due,       \* nextAttemptAt <= now
    expired,   \* lockedAt < now - leaseMs
    present,   \* orders that still exist in the CRM
    pc, pending, retries, groups, work, seen,  \* deliverBatch, per process
    landed,    \* ids whose write BlueSales has processed in the current call
    bs,        \* the status BlueSales holds for an order; None: not returned
    late,      \* writes given up on that BlueSales may still process
    faults, edits,
    \* History, read by the properties only.
    shown,     \* statuses BlueSales has had since the order's last row closed
    unsure,    \* rows whose write may have been processed and was not re-read since
    newest     \* the newest row whose write BlueSales has processed, per order

table   == <<nextId, order, target, state, tried, lease, due, expired, present>>
memory  == <<pc, pending, retries, groups, work, seen, landed>>
remote  == <<bs, late>>
budget  == <<faults, edits>>
history == <<shown, unsure, newest>>
vars == <<table, memory, remote, budget, history>>

PcStates == {"down", "recovering", "idle", "claimed", "probing", "probed", "probeFailed",
             "writing", "sent", "writeFailed", "checking", "checked", "bailing"}

TypeOK ==
    /\ nextId \in 1..(MaxChanges + 1)
    /\ order \in [Ids -> Orders \cup {None}]
    /\ target \in [Ids -> Statuses \cup {None}]
    /\ state \in [Ids -> Active \cup Terminal \cup {"NONE", "DELETED"}]
    /\ tried \in [Ids -> BOOLEAN]
    /\ lease \in [Ids -> Processes \cup {None}]
    /\ due \in [Ids -> BOOLEAN]
    /\ expired \in [Ids -> BOOLEAN]
    /\ present \in SUBSET Orders
    /\ pc \in [Processes -> PcStates]
    /\ pending \in [Processes -> SUBSET Ids]
    /\ retries \in [Processes -> SUBSET Ids]
    /\ groups \in [Processes -> SUBSET Statuses]
    /\ work \in [Processes -> SUBSET Ids]
    /\ seen \in [Processes -> [Ids -> Statuses \cup {None}]]
    /\ landed \in [Processes -> SUBSET Ids]
    /\ bs \in [Orders -> Statuses \cup {None}]
    /\ late \in SUBSET Ids
    /\ faults \in 0..MaxFaults
    /\ edits \in 0..MaxEdits
    /\ shown \in [Orders -> SUBSET (Statuses \cup {None})]
    /\ unsure \in SUBSET Ids
    /\ newest \in [Orders -> 0..MaxChanges]

NothingSeen == [i \in Ids |-> None]

Init ==
    /\ nextId = 1
    /\ order = [i \in Ids |-> None]
    /\ target = [i \in Ids |-> None]
    /\ state = [i \in Ids |-> "NONE"]
    /\ tried = [i \in Ids |-> FALSE]
    /\ lease = [i \in Ids |-> None]
    /\ due = [i \in Ids |-> FALSE]
    /\ expired = [i \in Ids |-> FALSE]
    /\ present = Orders
    /\ pc = [p \in Processes |-> "down"]
    /\ pending = [p \in Processes |-> {}]
    /\ retries = [p \in Processes |-> {}]
    /\ groups = [p \in Processes |-> {}]
    /\ work = [p \in Processes |-> {}]
    /\ seen = [p \in Processes |-> NothingSeen]
    /\ landed = [p \in Processes |-> {}]
    /\ bs \in [Orders -> Statuses]
    /\ late = {}
    /\ faults = 0
    /\ edits = 0
    /\ shown = [o \in Orders |-> {bs[o]}]
    /\ unsure = {}
    /\ newest = [o \in Orders |-> 0]

-----------------------------------------------------------------------------
(* Writers of the table outside the processor. *)

\* updateOrderStatus: the row is appended and the order's older RETRY rows are
\* woken.  The local status, which decides that a request is a no-op, may have
\* been changed by the import in between, so any status can be requested.
RequestStatus(o, s) ==
    /\ nextId \in Ids
    /\ o \in present
    /\ nextId' = nextId + 1
    /\ order' = [order EXCEPT ![nextId] = o]
    /\ target' = [target EXCEPT ![nextId] = s]
    /\ state' = [state EXCEPT ![nextId] = "PENDING"]
    /\ due' = [i \in Ids |-> \/ i = nextId
                             \/ order[i] = o /\ state[i] = "RETRY"
                             \/ due[i]]
    /\ UNCHANGED <<tried, lease, expired, present, memory, remote, budget, history>>

\* remove: refused while BlueSales returns the order, allowed when the check
\* itself fails (existsInBluesales is fail-open).  The cascade deletes the rows.
RemoveOrder(o) ==
    /\ o \in present
    /\ \/ bs[o] = None /\ UNCHANGED faults
       \/ faults < MaxFaults /\ faults' = faults + 1
    /\ present' = present \ {o}
    /\ state' = [i \in Ids |-> IF order[i] = o THEN "DELETED" ELSE state[i]]
    /\ lease' = [i \in Ids |-> IF order[i] = o THEN None ELSE lease[i]]
    /\ unsure' = {i \in unsure : order[i] # o}
    /\ UNCHANGED <<nextId, order, target, tried, due, expired, memory, remote, edits,
                   shown, newest>>

-----------------------------------------------------------------------------
(* Time. *)

BackoffElapses(i) ==
    /\ state[i] = "RETRY" /\ ~due[i]
    /\ due' = [due EXCEPT ![i] = TRUE]
    /\ UNCHANGED <<nextId, order, target, state, tried, lease, expired, present, memory,
                   remote, budget, history>>

HeldInMemory(i) == \E p \in Processes : i \in pending[p] /\ lease[i] = p

\* The heartbeat of the owner renews a lease long before it runs out, so a held
\* lease expires only if its owner is suspended or cut off from the database.
LeaseExpires(i) ==
    /\ state[i] = "PROCESSING" /\ ~expired[i]
    /\ IF HeldInMemory(i) THEN faults < MaxFaults /\ faults' = faults + 1
                          ELSE UNCHANGED faults
    /\ expired' = [expired EXCEPT ![i] = TRUE]
    /\ UNCHANGED <<nextId, order, target, state, tried, lease, due, present, memory,
                   remote, edits, history>>

-----------------------------------------------------------------------------
(* The run loop: start, recovery, lease sweep, claim. *)

Forget(p) ==
    /\ pending' = [pending EXCEPT ![p] = {}]
    /\ retries' = [retries EXCEPT ![p] = {}]
    /\ groups' = [groups EXCEPT ![p] = {}]
    /\ work' = [work EXCEPT ![p] = {}]
    /\ seen' = [seen EXCEPT ![p] = NothingSeen]
    /\ landed' = [landed EXCEPT ![p] = {}]

Start(p) ==
    /\ pc[p] = "down"
    /\ pc' = [pc EXCEPT ![p] = "recovering"]
    /\ UNCHANGED <<table, pending, retries, groups, work, seen, landed, remote, budget, history>>

\* Mutant: a recovered row looks as if it had never been tried.
ReturnToQueueAsNew(S) ==
    /\ state' = [i \in Ids |-> IF i \in S THEN "PENDING" ELSE state[i]]
    /\ lease' = [i \in Ids |-> IF i \in S THEN None ELSE lease[i]]
    /\ expired' = [i \in Ids |-> IF i \in S THEN FALSE ELSE expired[i]]

\* Both sweeps return rows to the queue in the same way.
ReturnToQueue(S) ==
    /\ state' = [i \in Ids |-> IF i \in S THEN "RETRY" ELSE state[i]]
    /\ lease' = [i \in Ids |-> IF i \in S THEN None ELSE lease[i]]
    /\ expired' = [i \in Ids |-> IF i \in S THEN FALSE ELSE expired[i]]

\* recoverQueueOnStartup: every PROCESSING row is taken to be abandoned, and
\* the delayed retries are woken.
Recover(p) ==
    /\ pc[p] = "recovering"
    /\ ReturnToQueue({i \in Ids : state[i] = "PROCESSING"})
    /\ due' = [i \in Ids |-> due[i] \/ state[i] \in {"PROCESSING", "RETRY"}]
    /\ pc' = [pc EXCEPT ![p] = "idle"]
    /\ UNCHANGED <<nextId, order, target, tried, present, pending, retries, groups, work,
                   seen, landed, remote, budget, history>>

Stale == {i \in Ids : state[i] = "PROCESSING" /\ expired[i]}

\* releaseStaleLeases
ReleaseStaleLeases(p) ==
    /\ pc[p] = "idle"
    /\ Stale # {}
    /\ ReturnToQueue(Stale)
    /\ due' = [i \in Ids |-> due[i] \/ i \in Stale]
    /\ UNCHANGED <<nextId, order, target, tried, present, memory, remote, budget, history>>

EarlierActive(i) == {j \in Ids : j < i /\ order[j] = order[i] /\ state[j] \in Active}

\* Mutant: the NOT EXISTS clause of the claim is dropped.
ClaimableAnywhere == {i \in Ids : state[i] \in {"PENDING", "RETRY"} /\ due[i]}

Claimable == {i \in Ids : state[i] \in {"PENDING", "RETRY"} /\ due[i] /\ EarlierActive(i) = {}}

\* claimBatch: the head row of each order, up to the limit; SKIP LOCKED and the
\* row locks make the select and the update one step.
ClaimBatch(p, S) ==
    /\ pc[p] = "idle"
    /\ S # {}
    /\ IF Cardinality(Claimable) <= BatchSize THEN S = Claimable
                                              ELSE Cardinality(S) = BatchSize
    /\ state' = [i \in Ids |-> IF i \in S THEN "PROCESSING" ELSE state[i]]
    /\ lease' = [i \in Ids |-> IF i \in S THEN p ELSE lease[i]]
    /\ expired' = [i \in Ids |-> IF i \in S THEN FALSE ELSE expired[i]]
    /\ pc' = [pc EXCEPT ![p] = "claimed"]
    /\ pending' = [pending EXCEPT ![p] = S]
    /\ retries' = [retries EXCEPT ![p] = {i \in S : state[i] = "RETRY"}]
    /\ UNCHANGED <<nextId, order, target, tried, due, present, groups, work, seen, landed,
                   remote, budget, history>>

-----------------------------------------------------------------------------
(* deliverBatch. *)

\* Mutant: the updates lose the state and token of their where clause.
OwnsUnchecked(p, i) == p \in Processes /\ i \in Ids

Owns(p, i) == state[i] = "PROCESSING" /\ lease[i] = p

\* The rows of the batch that this process still owns: the result of retainOwned.
Kept(p) == {i \in pending[p] : Owns(p, i)}

\* retainOwned: renew what is owned, forget what is not.
RetainOwned(p) ==
    /\ expired' = [i \in Ids |-> expired[i] /\ i \notin Kept(p)]
    /\ pending' = [pending EXCEPT ![p] = Kept(p)]

\* Mutant: the groups are keyed by change instead of by status.
GroupsOfChanges(S) == S

GroupsOf(S) == {target[i] : i \in S}

\* The rows whose BlueSales id is unknown belong to removed orders and drop out
\* of the batch with the other rows that are no longer owned.
BeginDelivery(p) ==
    /\ pc[p] = "claimed"
    /\ RetainOwned(p)
    /\ LET asked == Kept(p) \cap retries[p] IN
       IF asked # {}
       THEN /\ pc' = [pc EXCEPT ![p] = "probing"]
            /\ work' = [work EXCEPT ![p] = asked]
            /\ UNCHANGED groups
       ELSE /\ pc' = [pc EXCEPT ![p] = "writing"]
            /\ groups' = [groups EXCEPT ![p] = GroupsOf(Kept(p))]
            /\ UNCHANGED work
    /\ UNCHANGED <<nextId, order, target, state, tried, lease, due, present, retries, seen,
                   landed, remote, budget, history>>

\* The one GET of a stage is answered: the statuses are those of this moment,
\* the rows are handled later, one by one.
ReadAnswers(p, from, to) ==
    /\ pc[p] = from
    /\ RetainOwned(p)
    /\ work' = [work EXCEPT ![p] = @ \cap Kept(p)]
    /\ seen' = [seen EXCEPT ![p] = [i \in Ids |-> IF i \in work[p] THEN bs[order[i]] ELSE None]]
    /\ unsure' = unsure \ work[p]
    /\ pc' = [pc EXCEPT ![p] = to]
    /\ UNCHANGED <<nextId, order, target, state, tried, lease, due, present, retries, groups,
                   landed, remote, budget, shown, newest>>

ProbeAnswers(p) == ReadAnswers(p, "probing", "probed")
CheckAnswers(p) == ReadAnswers(p, "checking", "checked")

\* The row leaves PROCESSING only if it is still owned (updateMany with state
\* and leaseToken in its where clause); the batch forgets it in any case.
Close(p, i, result) ==
    /\ IF Owns(p, i)
       THEN /\ state' = [state EXCEPT ![i] = result]
            /\ tried' = [tried EXCEPT ![i] = TRUE]
            /\ lease' = [lease EXCEPT ![i] = None]
            /\ expired' = [expired EXCEPT ![i] = FALSE]
            /\ due' = IF result = "RETRY" THEN [due EXCEPT ![i] = FALSE] ELSE due
            /\ shown' = IF result \in Terminal
                        THEN [shown EXCEPT ![order[i]] = {bs[order[i]]}]
                        ELSE shown
            /\ unsure' = IF result \in Terminal THEN unsure \ {i} ELSE unsure
       ELSE UNCHANGED <<state, tried, lease, expired, due, shown, unsure>>
    /\ pending' = [pending EXCEPT ![p] = @ \ {i}]
    /\ UNCHANGED <<nextId, order, target, present, newest>>

\* completeChange
CompleteChange(p, i) == Close(p, i, "SUCCEEDED")
\* scheduleRetry
ScheduleRetry(p, i) == Close(p, i, "RETRY")
\* fail, for an order that BlueSales does not return
FailMissing(p, i) == IF tried[i] THEN Close(p, i, "FAILED") ELSE ScheduleRetry(p, i)

\* The loop over the answers of the first GET: a match is confirmed without a
\* write, a mismatch stays in the batch.
HandleProbed(p, i) ==
    /\ pc[p] = "probed"
    /\ i \in work[p]
    /\ CASE seen[p][i] = None      -> FailMissing(p, i)
         [] seen[p][i] = target[i] -> CompleteChange(p, i)
         [] OTHER                  -> UNCHANGED <<table, pending, history>>
    /\ work' = [work EXCEPT ![p] = @ \ {i}]
    /\ UNCHANGED <<pc, retries, groups, seen, landed, remote, budget>>

\* Mutant: whatever the final GET returns confirms the delivery.
HandleCheckedBlindly(p, i) ==
    /\ pc[p] = "checked"
    /\ i \in work[p]
    /\ IF seen[p][i] = None THEN FailMissing(p, i) ELSE CompleteChange(p, i)
    /\ work' = [work EXCEPT ![p] = @ \ {i}]
    /\ UNCHANGED <<pc, retries, groups, seen, landed, remote, budget>>

\* The same loop after the final GET: here a mismatch is a failed attempt.
HandleChecked(p, i) ==
    /\ pc[p] = "checked"
    /\ i \in work[p]
    /\ CASE seen[p][i] = None      -> FailMissing(p, i)
         [] seen[p][i] = target[i] -> CompleteChange(p, i)
         [] OTHER                  -> ScheduleRetry(p, i)
    /\ work' = [work EXCEPT ![p] = @ \ {i}]
    /\ UNCHANGED <<pc, retries, groups, seen, landed, remote, budget>>

\* The transaction of completeChange fails: the catch of complete schedules a retry.
CompletionFails(p, i) ==
    /\ pc[p] \in {"probed", "checked"}
    /\ i \in work[p]
    /\ seen[p][i] = target[i]
    /\ faults < MaxFaults /\ faults' = faults + 1
    /\ ScheduleRetry(p, i)
    /\ work' = [work EXCEPT ![p] = @ \ {i}]
    /\ UNCHANGED <<pc, retries, groups, seen, landed, remote, edits>>

\* Mutant: what was tried once is only verified again, never written again.
FormGroupsOfNew(p) ==
    /\ pc[p] \in {"probed", "probeFailed"}
    /\ work[p] = {}
    /\ groups' = [groups EXCEPT ![p] = GroupsOf(pending[p] \ retries[p])]
    /\ pc' = [pc EXCEPT ![p] = "writing"]
    /\ seen' = [seen EXCEPT ![p] = NothingSeen]
    /\ UNCHANGED <<table, pending, retries, work, landed, remote, budget, history>>

\* The rows left in the batch are grouped by target status.
FormGroups(p) ==
    /\ pc[p] \in {"probed", "probeFailed"}
    /\ work[p] = {}
    /\ groups' = [groups EXCEPT ![p] = GroupsOf(pending[p])]
    /\ pc' = [pc EXCEPT ![p] = "writing"]
    /\ seen' = [seen EXCEPT ![p] = NothingSeen]
    /\ UNCHANGED <<table, pending, retries, work, landed, remote, budget, history>>

\* One orders.updateMany for the owned rows of the group; none if there are none.
SendGroup(p, s) ==
    /\ pc[p] = "writing"
    /\ s \in groups[p]
    /\ RetainOwned(p)
    /\ groups' = [groups EXCEPT ![p] = @ \ {s}]
    /\ LET owned == {i \in Kept(p) : target[i] = s} IN
       IF owned = {}
       THEN UNCHANGED <<pc, work, unsure>>
       ELSE /\ pc' = [pc EXCEPT ![p] = "sent"]
            /\ work' = [work EXCEPT ![p] = owned]
            /\ unsure' = unsure \cup owned
    /\ UNCHANGED <<nextId, order, target, state, tried, lease, due, present, retries, seen,
                   landed, remote, budget, shown, newest>>

\* BlueSales holds the status of row i for its order from now on.
Store(S) ==
    LET hit(o) == {i \in S : order[i] = o /\ bs[o] # None} IN
    /\ bs' = [o \in Orders |-> IF hit(o) = {} THEN bs[o]
                               ELSE target[CHOOSE i \in hit(o) : TRUE]]
    /\ shown' = [o \in Orders |-> shown[o] \cup {bs'[o]}]
    /\ newest' = [o \in Orders |-> IF hit(o) = {} THEN newest[o]
                                   ELSE CHOOSE i \in hit(o) : TRUE]

\* BlueSales processes the request, for all of its orders or for some of them.
\* The client re-sends a request that timed out, so this may happen again.
BluesalesStores(p, S) ==
    /\ pc[p] = "sent"
    /\ S # {} /\ S \subseteq work[p]
    /\ Store(S)
    /\ landed' = [landed EXCEPT ![p] = @ \cup S]
    /\ UNCHANGED <<table, pc, pending, retries, groups, work, seen, late, budget, unsure>>

Return(p, next) ==
    /\ pc' = [pc EXCEPT ![p] = next]
    /\ landed' = [landed EXCEPT ![p] = {}]

\* An answer without an error does not prove that the status was stored.
WriteAnswers(p) ==
    /\ pc[p] = "sent"
    /\ IF work[p] \subseteq landed[p] THEN UNCHANGED faults
                                     ELSE faults < MaxFaults /\ faults' = faults + 1
    /\ work' = [work EXCEPT ![p] = {}]
    /\ Return(p, "writing")
    /\ UNCHANGED <<table, pending, retries, groups, seen, remote, edits, history>>

\* Writes that are given up on; with LateWrites BlueSales may process them later.
GiveUp(p, S) ==
    /\ S \subseteq IF LateWrites /\ pc[p] = "sent" THEN work[p] \ landed[p] ELSE {}
    /\ late' = late \cup S

\* The write fails: its outcome is unknown and its rows are to be retried.
WriteFails(p, S) ==
    /\ pc[p] = "sent"
    /\ faults < MaxFaults /\ faults' = faults + 1
    /\ GiveUp(p, S)
    /\ Return(p, "writeFailed")
    /\ UNCHANGED <<table, pending, retries, groups, work, seen, bs, edits, history>>

LateWriteLands(i) ==
    /\ i \in late
    /\ Store({i})
    /\ late' = late \ {i}
    /\ UNCHANGED <<table, memory, budget, unsure>>

\* The first GET fails: every retry of the batch is put back, nothing is written.
ProbeFails(p) ==
    /\ pc[p] = "probing"
    /\ faults < MaxFaults /\ faults' = faults + 1
    /\ pc' = [pc EXCEPT ![p] = "probeFailed"]
    /\ UNCHANGED <<table, pending, retries, groups, work, seen, landed, remote, edits, history>>

\* The loops that put rows back after an error: of a stage, or of the whole batch.
PutBack(p, i) ==
    /\ pc[p] \in {"probeFailed", "writeFailed", "bailing"}
    /\ i \in work[p]
    /\ ScheduleRetry(p, i)
    /\ work' = [work EXCEPT ![p] = @ \ {i}]
    /\ UNCHANGED <<pc, retries, groups, seen, landed, remote, budget>>

NextGroup(p) ==
    /\ pc[p] = "writeFailed"
    /\ work[p] = {}
    /\ pc' = [pc EXCEPT ![p] = "writing"]
    /\ UNCHANGED <<table, pending, retries, groups, work, seen, landed, remote, budget, history>>

\* All groups sent: one GET for everything that is still in the batch.
BeginCheck(p) ==
    /\ pc[p] = "writing"
    /\ groups[p] = {}
    /\ Kept(p) # {}
    /\ RetainOwned(p)
    /\ pc' = [pc EXCEPT ![p] = "checking"]
    /\ work' = [work EXCEPT ![p] = Kept(p)]
    /\ UNCHANGED <<nextId, order, target, state, tried, lease, due, present, retries, groups,
                   seen, landed, remote, budget, history>>

\* deliverBatch returns: after the last answer, after the last row of the outer
\* catch, or because nothing of the batch is left to check.
EndBatch(p) ==
    /\ \/ pc[p] \in {"checked", "bailing"} /\ work[p] = {}
       \/ pc[p] = "writing" /\ groups[p] = {} /\ Kept(p) = {}
    /\ pc' = [pc EXCEPT ![p] = "idle"]
    /\ Forget(p)
    /\ UNCHANGED <<table, remote, budget, history>>

\* A database statement of a stage or the final GET throws: the catch of the
\* first stage, or the outer catch, puts the rows back.  If the outer loop throws
\* too, the batch is abandoned with its rows still PROCESSING, and only the
\* lease sweep frees them.
StepFails(p) ==
    /\ pc[p] \in {"claimed", "probed", "probeFailed", "writing", "writeFailed",
                  "checking", "checked", "bailing"}
    /\ faults < MaxFaults /\ faults' = faults + 1
    /\ CASE pc[p] = "bailing" ->
              /\ pc' = [pc EXCEPT ![p] = "idle"]
              /\ Forget(p)
         [] pc[p] = "probed" ->
              /\ pc' = [pc EXCEPT ![p] = "probeFailed"]
              /\ work' = [work EXCEPT ![p] = retries[p] \cap pending[p]]
              /\ UNCHANGED <<pending, retries, groups, seen, landed>>
         [] OTHER ->
              /\ pc' = [pc EXCEPT ![p] = "bailing"]
              /\ work' = [work EXCEPT ![p] = pending[p]]
              /\ UNCHANGED <<pending, retries, groups, seen, landed>>
    /\ UNCHANGED <<table, remote, edits, history>>

\* The backend stops; a request on the wire is lost, or may still land.
Crash(p, S) ==
    /\ pc[p] # "down"
    /\ faults < MaxFaults /\ faults' = faults + 1
    /\ GiveUp(p, S)
    /\ pc' = [pc EXCEPT ![p] = "down"]
    /\ Forget(p)
    /\ UNCHANGED <<table, bs, edits, history>>

-----------------------------------------------------------------------------
(* People work in BlueSales as well: they set statuses, delete and restore. *)
BluesalesEdit(o, s) ==
    /\ edits < MaxEdits /\ edits' = edits + 1
    /\ bs[o] # s
    /\ bs' = [bs EXCEPT ![o] = s]
    /\ shown' = [shown EXCEPT ![o] = @ \cup {s}]
    /\ UNCHANGED <<table, memory, late, faults, unsure, newest>>

ProcessStep(p) ==
    \/ Start(p) \/ Recover(p) \/ ReleaseStaleLeases(p)
    \/ \E S \in SUBSET Claimable : ClaimBatch(p, S)
    \/ BeginDelivery(p) \/ ProbeAnswers(p) \/ CheckAnswers(p)
    \/ \E i \in Ids : HandleProbed(p, i) \/ HandleChecked(p, i) \/ PutBack(p, i)
    \/ FormGroups(p) \/ NextGroup(p) \/ BeginCheck(p) \/ EndBatch(p)
    \/ \E s \in Statuses : SendGroup(p, s)
    \/ WriteAnswers(p)

Fault(p) ==
    \/ \E i \in Ids : CompletionFails(p, i)
    \/ ProbeFails(p) \/ StepFails(p)
    \/ \E S \in SUBSET Ids : WriteFails(p, S) \/ Crash(p, S)

Next ==
    \/ \E o \in Orders, s \in Statuses : RequestStatus(o, s)
    \/ \E o \in Orders : RemoveOrder(o)
    \/ \E i \in Ids : BackoffElapses(i) \/ LeaseExpires(i) \/ LateWriteLands(i)
    \/ \E p \in Processes : ProcessStep(p) \/ Fault(p)
    \/ \E p \in Processes, S \in SUBSET Ids : BluesalesStores(p, S)
    \/ \E o \in Orders, s \in Statuses \cup {None} : BluesalesEdit(o, s)

Spec == Init /\ [][Next]_vars

\* The loop runs on, BlueSales answers a request it has received, time passes,
\* and the container is restarted after a crash.  Nobody has to request
\* anything, edit anything in BlueSales, or fail.
Fairness ==
    /\ \A p \in Processes : WF_vars(ProcessStep(p))
    /\ \A p \in Processes : WF_vars(BluesalesStores(p, work[p]))
    /\ \A i \in Ids : WF_vars(BackoffElapses(i))
    /\ \A i \in Ids : WF_vars(~HeldInMemory(i) /\ LeaseExpires(i))

FairSpec == Spec /\ Fairness

-----------------------------------------------------------------------------
(* Properties. *)

\* A row that is being delivered is the oldest open row of its order, so at most
\* one change per order is in delivery, with any number of processes, crashes,
\* lease expiries and recoveries.
HeadOfLine ==
    \A i \in Ids : state[i] = "PROCESSING" => EarlierActive(i) = {}

\* The outbox is a FIFO queue per order: requests close one at a time, oldest
\* first; one closes as delivered only if BlueSales has shown its status since
\* the previous one closed, and is dropped only if BlueSales did not have the
\* order.
Delivery == INSTANCE StatusDelivery WITH
    phase <- [i \in Ids |-> CASE state[i] \in Active   -> "open"
                              [] state[i] = "SUCCEEDED" -> "delivered"
                              [] state[i] = "FAILED"    -> "dropped"
                              [] OTHER                  -> "none"]

RefinesDelivery == Delivery!Spec

\* After an attempt whose outcome is unknown (an error, an expired lease, a
\* restart) the processor reads the order before it writes it again.
NoBlindRewrite ==
    [][\A p \in Processes :
         pc[p] = "writing" /\ pc'[p] = "sent" => work'[p] \cap unsure = {}]_vars

\* One process whose requests die with their calls never lets an older change
\* overwrite a newer one in BlueSales.
WritesInOrder == [][\A o \in Orders : newest'[o] >= newest[o]]_vars

RowsOf(o) == {i \in Ids : order[i] = o /\ state[i] \notin {"NONE", "DELETED"}}

\* When nothing of an order is open, its last request was delivered and nobody
\* has touched it in BlueSales, BlueSales holds the status of that request.
LastRequestStands ==
    \A o \in Orders :
        (edits = 0 /\ RowsOf(o) # {} /\ \A i \in RowsOf(o) : state[i] = "SUCCEEDED")
        => \E i \in RowsOf(o) : bs[o] = target[i] /\ \A j \in RowsOf(o) : j <= i

\* Faults are finite: every request is delivered, dropped or removed with its
\* order.  No failure, abandoned batch or crash blocks an order's queue for good.
EveryRequestCloses ==
    \A i \in Ids : state[i] \in Active ~> state[i] \in Terminal \cup {"DELETED"}
=============================================================================
