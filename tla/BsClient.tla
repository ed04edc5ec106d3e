------------------------------ MODULE BsClient ------------------------------
(***************************************************************************)
(* The one connection to BlueSales (bluesales/bluesales-api.service.ts):   *)
(* a queue with two priorities, one request at a time, retries inside a    *)
(* request while BlueSales is busy, and requests of users that go back to  *)
(* the queue after a transient error.                                      *)
(*                                                                         *)
(* A request is one call of send.  The code between two awaits is one step *)
(* of the event loop, so taking the next item of the queue is part of the  *)
(* step that ends the one before, or that schedules into an idle client.   *)
(*                                                                         *)
(* Time is spent only inside the active request and counted in units since *)
(* its first attempt; a pause and the open hours are switches.             *)
(***************************************************************************)
EXTENDS Naturals, Sequences, SequencesExt, FiniteSets

CONSTANTS
    Interactive, Background, \* requests of users, and of the synchronisation
    SyncReads,     \* the reads that respect the schedule and the import switch
    None,
    Window,        \* maxRetryWindowMs
    Timeout,       \* requestTimeoutMs
    Gap,           \* MIN_REQUEST_GAP_MS
    MaxBusyDelay,  \* the longest pause after a busy answer
    MaxCountdown,  \* bound: seconds that BlueSales asks to wait
    MaxBusy,       \* maxBusyRetries
    MaxSession,    \* maxSessionRetries
    MaxRequeues,   \* interactiveMaxRequeues
    MaxSwitches    \* bound: pauses, and changes of the switch and the schedule

Requests == Interactive \cup Background

ASSUME RequestsAreApart ==
    Interactive \cap Background = {} /\ SyncReads \subseteq Background /\ None \notin Requests
ASSUME LimitsAreNatural ==
    /\ Window \in Nat /\ Timeout \in Nat /\ Gap \in Nat
    /\ MaxBusyDelay \in Nat \ {0} /\ MaxCountdown \in Nat
    /\ MaxBusy \in Nat /\ MaxSession \in Nat /\ MaxRequeues \in Nat /\ MaxSwitches \in Nat

VARIABLES
    status,    \* of each call of send
    requeues,  \* how often an interactive call went back to the queue
    queue,     \* the items waiting
    active,    \* the item being processed, if any
    phase,     \* and how far it is
    attempt,
    spent,     \* time since its first attempt
    stored,    \* BlueSales has processed the attempt that is on the wire
    late,      \* attempts that were given up on and may still be processed, per call
    paused,    \* pausedUntilTs lies ahead
    open,      \* the import is on and the schedule allows reads
    switches,
    \* History, read by the properties only.
    processed, \* how often BlueSales has processed a call
    lost,      \* attempts of a call that ended without an answer
    passed     \* calls that sent something since the pause began

calls == <<status, requeues>>
item  == <<active, phase, attempt, spent, stored>>
past  == <<processed, lost, passed>>
vars  == <<calls, queue, item, late, paused, open, switches, past>>

TypeOK ==
    /\ status \in [Requests -> {"new", "pending", "sleeping", "resolved", "rejected"}]
    /\ requeues \in [Requests -> 0..MaxRequeues]
    /\ queue \in Seq(Requests)
    /\ active \in Requests \cup {None}
    /\ phase \in {"idle", "waiting", "ready", "wire", "backoff"}
    /\ attempt \in Nat /\ spent \in Nat /\ stored \in BOOLEAN
    /\ late \in [Requests -> Nat]
    /\ paused \in BOOLEAN /\ open \in BOOLEAN
    /\ switches \in 0..MaxSwitches
    /\ processed \in [Requests -> Nat] /\ lost \in [Requests -> Nat]
    /\ passed \in SUBSET Requests

Init ==
    /\ status = [r \in Requests |-> "new"]
    /\ requeues = [r \in Requests |-> 0]
    /\ queue = <<>>
    /\ active = None /\ phase = "idle" /\ attempt = 0 /\ spent = 0 /\ stored = FALSE
    /\ late = [r \in Requests |-> 0]
    /\ paused = FALSE /\ open \in BOOLEAN
    /\ switches = 0
    /\ processed = [r \in Requests |-> 0] /\ lost = [r \in Requests |-> 0]
    /\ passed = {}

-----------------------------------------------------------------------------
(* The queue. *)

Load(r) ==
    /\ active' = r /\ phase' = IF r = None THEN "idle" ELSE "waiting"
    /\ attempt' = 0 /\ spent' = 0 /\ stored' = FALSE

\* schedule, and the loop of processQueue if it was not running.
Schedule(r) ==
    /\ status' = [status EXCEPT ![r] = "pending"]
    /\ IF active = None THEN Load(r) /\ UNCHANGED queue
                        ELSE queue' = Append(queue, r) /\ UNCHANGED item

Urgent == {i \in DOMAIN queue : queue[i] \in Interactive}

\* Mutant: the queue has no priorities.
InOrder(i) == i = 1

\* takeNext: the first item of a user, or else the first.
Foremost(i) ==
    \/ i \in Urgent /\ \A j \in Urgent : i <= j
    \/ Urgent = {} /\ i = 1

\* processQueue: the active item has ended, the next one is taken.
Advance ==
    \/ queue = <<>> /\ Load(None) /\ UNCHANGED queue
    \/ \E i \in DOMAIN queue : Foremost(i) /\ Load(queue[i]) /\ queue' = RemoveAt(queue, i)

\* send
Send(r) ==
    /\ status[r] = "new"
    /\ Schedule(r)
    /\ UNCHANGED <<requeues, late, paused, open, switches, past>>

\* dispatchWithRequeue, after its sleep.
Requeue(r) ==
    /\ status[r] = "sleeping"
    /\ Schedule(r)
    /\ UNCHANGED <<requeues, late, paused, open, switches, past>>

-----------------------------------------------------------------------------
(* The active request. *)

\* Mutant: the pause is looked at before the queue and not after it.
BeginUnchecked ==
    /\ phase = "waiting"
    /\ phase' = "ready" /\ attempt' = 1 /\ spent' \in 0..Gap
    /\ UNCHANGED <<calls, queue, active, stored, late, paused, open, switches, past>>

\* waitIfPaused; waitForRequestGap belongs to the first attempt, whose deadline runs.
\* (A retry has waited longer than the gap.)
Begin ==
    /\ phase = "waiting"
    /\ ~paused
    /\ phase' = "ready" /\ attempt' = 1 /\ spent' \in 0..Gap
    /\ UNCHANGED <<calls, queue, active, stored, late, paused, open, switches, past>>

Shut == active \in SyncReads /\ ~open

\* fetch
Post ==
    /\ phase = "ready" /\ ~Shut
    /\ phase' = "wire" /\ stored' = FALSE
    /\ passed' = IF paused THEN passed \cup {active} ELSE passed
    /\ UNCHANGED <<calls, queue, active, attempt, spent, late, paused, open, switches,
                   processed, lost>>

Settle(result) ==
    /\ status' = [status EXCEPT ![active] = result]
    /\ Advance
    /\ UNCHANGED requeues

\* BluesalesSyncPausedError
Refuse ==
    /\ phase = "ready" /\ Shut
    /\ Settle("rejected")
    /\ UNCHANGED <<late, paused, open, switches, past>>

\* Mutant: one requeue too many.
TransientErrorAgain ==
    IF active \in Interactive /\ requeues[active] <= MaxRequeues
    THEN /\ status' = [status EXCEPT ![active] = "sleeping"]
         /\ requeues' = [requeues EXCEPT ![active] = @ + 1]
         /\ Advance
    ELSE Settle("rejected")

\* An error that isTransientError recognises: an interactive call sleeps and comes
\* back, as long as it has requeues left.
TransientError ==
    IF active \in Interactive /\ requeues[active] < MaxRequeues
    THEN /\ status' = [status EXCEPT ![active] = "sleeping"]
         /\ requeues' = [requeues EXCEPT ![active] = @ + 1]
         /\ Advance
    ELSE Settle("rejected")

Smaller(a, b) == IF a < b THEN a ELSE b

\* How long the next attempt has to wait: after a busy answer longer each time,
\* after a foreign session as long as BlueSales says.
Delays ==
    (IF attempt <= MaxBusy THEN {Smaller(attempt, MaxBusyDelay)} ELSE {})
        \cup (IF attempt < MaxSession THEN 1..(MaxCountdown + 1) ELSE {})

\* Mutant: every attempt has a window of its own.
DeadlineAnew == spent + Window

\* The deadline is fixed with the first attempt.
Deadline == Window

\* A busy answer, or a foreign session: nothing was processed; wait and try again.
Retry ==
    /\ phase = "wire" /\ ~stored
    /\ \E elapsed \in 0..Timeout, delay \in Delays :
           /\ spent + elapsed + delay <= Deadline
           /\ spent' = spent + elapsed + delay
    /\ attempt' = attempt + 1
    /\ phase' = "backoff"
    /\ UNCHANGED <<calls, queue, active, stored, late, paused, open, switches, past>>

Wake ==
    /\ phase = "backoff"
    /\ phase' = "ready"
    /\ UNCHANGED <<calls, queue, active, attempt, spent, stored, late, paused, open, switches,
                   past>>

\* The same answers when the attempts or the window are used up, or no countdown came.
Exhausted ==
    /\ phase = "wire" /\ ~stored
    /\ TransientError
    /\ UNCHANGED <<late, paused, open, switches, past>>

\* A timeout or a broken connection: what BlueSales does with the request is unknown.
LoseAnswer ==
    /\ phase = "wire"
    /\ lost' = [lost EXCEPT ![active] = @ + 1]
    /\ late' = IF stored THEN late ELSE [late EXCEPT ![active] = @ + 1]
    /\ TransientError
    /\ UNCHANGED <<paused, open, switches, processed, passed>>

\* Mutant: the loop ends with the error of its item.
HardErrorStops ==
    /\ phase = "wire"
    /\ status' = [status EXCEPT ![active] = "rejected"]
    /\ Load(None)
    /\ UNCHANGED <<requeues, queue, late, paused, open, switches, past>>

\* Any other error: wrong password, 404, an API error, an answer that cannot be read.
HardError ==
    /\ phase = "wire"
    /\ Settle("rejected")
    /\ UNCHANGED <<late, paused, open, switches, past>>

\* Mutant: an answer whose time cannot be recorded counts as a connection error.
SucceedUnlessUnrecorded ==
    /\ phase = "wire" /\ stored
    /\ Settle("resolved") \/ TransientError
    /\ UNCHANGED <<late, paused, open, switches, past>>

\* The answer; a failure to record its duration changes nothing.
Succeed ==
    /\ phase = "wire" /\ stored
    /\ Settle("resolved")
    /\ UNCHANGED <<late, paused, open, switches, past>>

-----------------------------------------------------------------------------
(* BlueSales, and what people do. *)

Process ==
    /\ phase = "wire" /\ ~stored
    /\ stored' = TRUE
    /\ processed' = [processed EXCEPT ![active] = @ + 1]
    /\ UNCHANGED <<calls, queue, active, phase, attempt, spent, late, paused, open, switches,
                   lost, passed>>

ProcessLate(r) ==
    /\ late[r] > 0
    /\ late' = [late EXCEPT ![r] = @ - 1]
    /\ processed' = [processed EXCEPT ![r] = @ + 1]
    /\ UNCHANGED <<calls, queue, item, paused, open, switches, lost, passed>>

Switch == switches < MaxSwitches /\ switches' = switches + 1

\* pauseForMinutes
Pause ==
    /\ Switch
    /\ ~paused /\ paused' = TRUE
    /\ passed' = {}
    /\ UNCHANGED <<calls, queue, item, late, open, processed, lost>>

\* unblock, or the pause is over.
Unblock ==
    /\ paused /\ paused' = FALSE
    /\ UNCHANGED <<calls, queue, item, late, open, switches, past>>

\* setEnabled of the import, or the night begins or ends.
OpenOrShut ==
    /\ Switch
    /\ open' = ~open
    /\ UNCHANGED <<calls, queue, item, late, paused, past>>

Answer == Retry \/ Exhausted \/ LoseAnswer \/ HardError \/ Succeed

Next ==
    \/ \E r \in Requests : Send(r) \/ Requeue(r) \/ ProcessLate(r)
    \/ Begin \/ Post \/ Refuse \/ Wake \/ Answer
    \/ Process
    \/ Pause \/ Unblock \/ OpenOrShut

Spec == Init /\ [][Next]_vars

\* Timers fire, a request is answered or aborted by its timer, a pause ends.
Fairness ==
    /\ WF_vars(Begin) /\ WF_vars(Post \/ Refuse) /\ WF_vars(Answer) /\ WF_vars(Wake)
    /\ WF_vars(Unblock)
    /\ \A r \in Requests : WF_vars(Requeue(r))

FairSpec == Spec /\ Fairness

-----------------------------------------------------------------------------
(* Properties. *)

\* However BlueSales answers, no attempt of a dispatched item starts after its
\* window: an item holds the queue for the window and one timeout at most.
AttemptsStartInTime == attempt > 1 => spent <= Window

\* BlueSales processes a call again only if an earlier attempt ended without an
\* answer, and a call that is not a user's at most once; a call that succeeds was
\* processed.
RepeatsOnlyAfterLoss ==
    \A r \in Requests :
        /\ processed[r] <= 1 + lost[r]
        /\ r \in Background => processed[r] <= 1
        /\ status[r] = "resolved" => processed[r] > 0

\* After the administrator's pause at most the request that was under way before
\* reaches BlueSales, whatever is queued.
PauseHoldsBack == Cardinality(passed) <= 1

\* A request of the synchronisation is started only when no user is waiting.
InteractiveFirst ==
    [][\A b \in Background, i \in Interactive :
         active' = b /\ active # b => i \notin ToSet(queue)]_vars

\* Every call comes to an end: no error, no pause and no endless row of busy
\* answers leaves one in the queue or asleep.
EveryRequestSettles ==
    \A r \in Requests :
        status[r] \in {"pending", "sleeping"} ~> status[r] \in {"resolved", "rejected"}
=============================================================================
