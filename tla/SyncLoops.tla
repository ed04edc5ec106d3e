----------------------------- MODULE SyncLoops -----------------------------
(***************************************************************************)
(* What keeps the import going: the refresh loop that takes the orders     *)
(* longest not synchronised, the queue of the refreshes that people ask    *)
(* for (bluesales-sync.service.ts), the nightly pause of the schedule      *)
(* (bluesales-sync.schedule.ts), and the switch of the administrators      *)
(* (bluesales-inbound-sync.ts), kept in memory and in the database.        *)
(*                                                                         *)
(* What a synchronisation does to an order is in OrderImport and           *)
(* StatusMirror; here it succeeds, fails, or BlueSales does not know the   *)
(* order.  The loop of the leads is built like that of the orders.         *)
(***************************************************************************)
EXTENDS Naturals, Sequences, SequencesExt

CONSTANTS
    Orders,
    BatchSize,  \* refreshBatchSize
    None,       \* no order in hand
    MaxPhases, MaxSwitches, MaxAsks, MaxFaults  \* bounds

VARIABLES
    phase,      \* of the schedule: "open" or "paused"
    enabled,    \* the switch in memory
    saved,      \* the switch in the database
    requests,   \* what administrators have asked for, and whether it is written
    lost,       \* a write was reported as failed and has been done
    queue,      \* orders by lastSyncedAt
    loop,       \* the refresh loop: [at, batch, rows, missing]
    pending,    \* pendingManualRefreshIds
    pump,       \* manualRefreshPumpActive and where the pump is: [active, at, order]
    phases, switches, asks, faults

switch == <<enabled, saved, requests, lost, switches>>
manual == <<pending, pump, asks>>
refresh == <<queue, loop>>
vars == <<phase, phases, switch, refresh, manual, faults>>

IdleLoop == [at |-> "idle", batch |-> <<>>, missing |-> {}]
NoPump == [active |-> FALSE, at |-> "off", order |-> None]

Init ==
    /\ phase = "open" /\ phases = 0
    /\ enabled = TRUE /\ saved = TRUE /\ requests = <<>> /\ lost = FALSE
    /\ switches = 0
    /\ queue = SetToSeq(Orders)
    /\ loop = IdleLoop
    /\ pending = <<>> /\ pump = NoPump /\ asks = 0
    /\ faults = 0

\* currentSyncSchedule.
Open == enabled /\ phase # "paused"

Fault == faults < MaxFaults /\ faults' = faults + 1

\* getBluesalesSyncSchedule: the clock goes on.
NextPhase ==
    /\ phases < MaxPhases /\ phases' = phases + 1
    /\ phase' = IF phase = "open" THEN "paused" ELSE "open"
    /\ UNCHANGED <<switch, refresh, manual, faults>>

-----------------------------------------------------------------------------
(* The switch: requests are served one after the other, each in the        *)
(* database first.                                                         *)

SetEnabled ==
    /\ switches < MaxSwitches /\ switches' = switches + 1
    /\ \E on \in BOOLEAN : requests' = Append(requests, [on |-> on, written |-> FALSE])
    /\ UNCHANGED <<phase, phases, enabled, saved, lost, refresh, manual, faults>>

\* Mutant: requests do not wait for each other.
AnyTurn(i) == TRUE

\* pendingUpdate.
InTurn(i) == i = 1

WriteSwitch ==
    /\ \E i \in DOMAIN requests :
          /\ InTurn(i) /\ ~requests[i].written
          /\ saved' = requests[i].on
          /\ requests' = [requests EXCEPT ![i].written = TRUE]
    /\ UNCHANGED <<phase, phases, enabled, lost, switches, refresh, manual, faults>>

AnswerSwitch ==
    /\ \E i \in DOMAIN requests :
          /\ InTurn(i) /\ requests[i].written
          /\ enabled' = requests[i].on
          /\ requests' = RemoveAt(requests, i)
    /\ lost' = FALSE
    /\ UNCHANGED <<phase, phases, saved, switches, refresh, manual, faults>>

\* The database does not answer, before the write or after it.
SwitchFails ==
    /\ requests # <<>> /\ Fault
    /\ requests' = Tail(requests)
    /\ lost' = (Head(requests).written \/ lost)
    /\ UNCHANGED <<phase, phases, enabled, saved, switches, refresh, manual>>

-----------------------------------------------------------------------------
(* The refresh loop: refreshBatch. *)

\* lastSyncedAt is set.
Synced(o) == queue' = Append(SelectSeq(queue, LAMBDA x : x # o), o)

TakeBatch ==
    /\ loop.at = "idle" /\ Open
    /\ loop' = [at |-> "asked", batch |-> SubSeq(queue, 1, IF Len(queue) < BatchSize THEN Len(queue) ELSE BatchSize),
                missing |-> {}]
    /\ UNCHANGED <<phase, phases, switch, queue, manual, faults>>

\* BlueSales knows some of the orders.
BatchAnswered ==
    /\ loop.at = "asked"
    /\ \E known \in SUBSET ToSet(loop.batch) :
          loop' = IF Open THEN [at |-> "rows",
                                batch |-> SelectSeq(loop.batch, LAMBDA o : o \in known),
                                missing |-> ToSet(loop.batch) \ known]
                  ELSE IdleLoop
    /\ UNCHANGED <<phase, phases, switch, queue, manual, faults>>

\* The import of a row. It fails: the order keeps its place.
RefreshRow ==
    /\ loop.at = "rows" /\ loop.batch # <<>>
    /\ IF ~Open THEN loop' = [loop EXCEPT !.batch = <<>>] /\ UNCHANGED <<queue, faults>>
       ELSE /\ loop' = [loop EXCEPT !.batch = Tail(@)]
            /\ \/ Synced(Head(loop.batch)) /\ UNCHANGED faults
               \/ Fault /\ UNCHANGED queue
    /\ UNCHANGED <<phase, phases, switch, manual>>

\* Mutant: what BlueSales does not know keeps its place.
MissingStay == UNCHANGED queue

\* What BlueSales does not know goes to the end too.
MoveMissing ==
    IF Open /\ loop.missing # {}
    THEN queue' = SelectSeq(queue, LAMBDA o : o \notin loop.missing)
                  \o SelectSeq(queue, LAMBDA o : o \in loop.missing)
    ELSE UNCHANGED queue

EndBatch ==
    /\ loop.at = "rows" /\ loop.batch = <<>>
    /\ MoveMissing
    /\ loop' = IdleLoop
    /\ UNCHANGED <<phase, phases, switch, manual, faults>>

\* The request fails, or the select.
BatchFails ==
    /\ loop.at # "idle" /\ Fault
    /\ loop' = IdleLoop
    /\ UNCHANGED <<phase, phases, switch, queue, manual>>

-----------------------------------------------------------------------------
(* The refreshes people ask for: pumpManualRefreshes. *)

Add(o) == IF o \in ToSet(pending) THEN pending ELSE Append(pending, o)

\* enqueueOrderRefresh; a pump at work goes on.
EnqueueOrderRefresh(o) ==
    /\ enabled /\ asks < MaxAsks /\ asks' = asks + 1
    /\ pending' = Add(o)
    /\ pump' = IF pump.active THEN pump ELSE [active |-> TRUE, at |-> "next", order |-> None]
    /\ UNCHANGED <<phase, phases, switch, refresh, faults>>

\* Mutant: the flag is not reset when the import is off.
PumpEndsBusy == [NoPump EXCEPT !.active = ~enabled]

\* The finally: nothing is left in this case.
PumpEnds == NoPump

\* Off: everything is forgotten. At night: later. Otherwise the oldest one.
PumpNext ==
    /\ pump.at = "next"
    /\ IF pending = <<>> \/ ~enabled
       THEN pump' = PumpEnds /\ pending' = <<>>
       ELSE /\ phase # "paused"
            /\ pump' = [pump EXCEPT !.at = "asked", !.order = Head(pending)]
            /\ pending' = Tail(pending)
    /\ UNCHANGED <<phase, phases, switch, refresh, asks, faults>>

\* refreshSingleOrder: at night the order is put back, and so it is when the client
\* does not let the request pass.
PumpAnswered ==
    /\ pump.at = "asked"
    /\ pump' = [pump EXCEPT !.at = "next", !.order = None]
    /\ IF enabled /\ phase = "paused"
       THEN pending' = Add(pump.order) /\ UNCHANGED queue
       ELSE /\ IF enabled THEN Synced(pump.order) ELSE UNCHANGED queue
            /\ UNCHANGED pending
    /\ UNCHANGED <<phase, phases, switch, loop, asks, faults>>

PumpFails ==
    /\ pump.at = "asked" /\ Fault
    /\ pump' = [pump EXCEPT !.at = "next", !.order = None]
    /\ UNCHANGED <<phase, phases, switch, refresh, pending, asks>>

-----------------------------------------------------------------------------

Switching == WriteSwitch \/ AnswerSwitch
Loop == TakeBatch \/ BatchAnswered \/ RefreshRow \/ EndBatch
Pump == PumpNext \/ PumpAnswered

Next ==
    \/ NextPhase \/ SetEnabled \/ Switching \/ SwitchFails
    \/ Loop \/ BatchFails
    \/ \E o \in Orders : EnqueueOrderRefresh(o)
    \/ Pump \/ PumpFails

Spec == Init /\ [][Next]_vars

\* The loops of the process, and answers that come. People, faults and the clock are
\* not fair: whatever phase they stop in is the last one.
FairSpec == Spec /\ WF_vars(Switching) /\ WF_vars(Loop) /\ WF_vars(Pump)

-----------------------------------------------------------------------------
(* Properties. *)

\* Requests of administrators that overlap leave the switch that is used and the one
\* that is read after a restart the same, unless the last answer was lost.
SwitchIsSaved == (requests = <<>> /\ ~lost) => enabled = saved

\* Every order is synchronised again and again while the import is open: no order that
\* fails, or that BlueSales does not know, keeps the others waiting.
EveryOrderComesRound == <>[]Open => \A o \in Orders : []<>(Last(queue) = o)

\* A refresh that was asked for is done, given up with an error, or forgotten when the
\* import is switched off; it does not wait for the next click.
ManualRefreshIsServed ==
    <>[](phase # "paused") =>
        \A o \in Orders : [](o \in ToSet(pending) => <>(o \notin ToSet(pending) /\ pump.order # o))
=============================================================================
