--------------------------- MODULE BsClientProofs ---------------------------
(***************************************************************************)
(* What the queue of the BlueSales client keeps, for every set of calls    *)
(* and every limit: repeats come only after lost answers, attempts start   *)
(* within their window, a pause lets one request through, users come first.*)
(***************************************************************************)
EXTENDS BsClient, SequenceTheorems, FiniteSetTheorems, TLAPS

\* An item is in one place, and the client is idle only if nothing waits.
QueueInv ==
    /\ \A i, j \in DOMAIN queue : queue[i] = queue[j] => i = j
    /\ \A i \in DOMAIN queue : status[queue[i]] = "pending" /\ queue[i] # active
    /\ active # None => status[active] = "pending"
    /\ active = None <=> phase = "idle"
    /\ active = None => queue = <<>>

Finished(r) == status[r] \in {"resolved", "rejected"}

\* One more attempt than those that were lost: the last one of a finished call, or
\* the one on the wire.
Credit(r) == IF Finished(r) \/ (r = active /\ stored) THEN 1 ELSE 0

LossInv ==
    /\ stored => phase = "wire" /\ processed[active] > 0
    /\ \A r \in Requests :
           /\ processed[r] + late[r] <= lost[r] + Credit(r)
           /\ status[r] = "resolved" => processed[r] > 0
    /\ \A r \in Background :
           lost[r] # 0 => status[r] = "rejected" /\ processed[r] + late[r] <= 1

Begun == phase \in {"ready", "wire", "backoff"}

PauseInv ==
    /\ \E r \in Requests \cup {None} : passed \subseteq {r}
    /\ paused /\ Begun => passed \subseteq {active}

IInv == TypeOK /\ QueueInv /\ LossInv /\ AttemptsStartInTime /\ PauseInv

-----------------------------------------------------------------------------
(* The queue. *)

\* Removing an item shifts those behind it.
LEMMA RemoveAtShifts ==
    ASSUME NEW S, NEW q \in Seq(S), NEW p \in 1..Len(q)
    PROVE  /\ RemoveAt(q, p) \in Seq(S)
           /\ Len(RemoveAt(q, p)) = Len(q) - 1
           /\ \A i \in 1..(Len(q) - 1) :
                  RemoveAt(q, p)[i] = IF i < p THEN q[i] ELSE q[i + 1]
  <1> DEFINE front == SubSeq(q, 1, p - 1)
             back  == SubSeq(q, p + 1, Len(q))
  <1>1. /\ Len(q) \in Nat /\ p \in Int /\ p - 1 \in Int /\ p + 1 \in Int
        /\ \A i \in 1..Len(q) : q[i] \in S
    OBVIOUS
  <1>2. /\ front \in Seq(S) /\ Len(front) = p - 1
        /\ \A i \in 1..(p - 1) : front[i] = q[i]
    BY <1>1, SubSeqProperties
  <1>3. /\ back \in Seq(S) /\ Len(back) = Len(q) - p
        /\ \A i \in 1..(Len(q) - p) : back[i] = q[p + i]
    <2>1. \A i \in (p + 1)..Len(q) : q[i] \in S
      BY <1>1
    <2>2. /\ back \in Seq(S)
          /\ Len(back) = IF p + 1 <= Len(q) THEN Len(q) - (p + 1) + 1 ELSE 0
          /\ \A i \in 1..(Len(q) - (p + 1) + 1) : back[i] = q[(p + 1) + i - 1]
      BY <1>1, <2>1, SubSeqProperties
    <2> HIDE DEF back
    <2> QED
      BY <1>1, <2>2
  <1> HIDE DEF front, back
  <1>4. /\ front \o back \in Seq(S)
        /\ Len(front \o back) = Len(front) + Len(back)
        /\ \A i \in 1..(Len(front) + Len(back)) :
               (front \o back)[i] = IF i <= Len(front) THEN front[i] ELSE back[i - Len(front)]
    BY <1>2, <1>3, ConcatProperties
  <1>5. RemoveAt(q, p) = front \o back
    BY DEF RemoveAt, front, back
  <1>6. ASSUME NEW i \in 1..(Len(q) - 1)
        PROVE  (front \o back)[i] = IF i < p THEN q[i] ELSE q[i + 1]
    <2>1. CASE i < p
      BY <1>1, <1>2, <1>3, <1>4, <2>1
    <2>2. CASE ~(i < p)
      <3>1. i - (p - 1) \in 1..(Len(q) - p) /\ p + (i - (p - 1)) = i + 1
        BY <1>1, <2>2
      <3>2. (front \o back)[i] = back[i - (p - 1)]
        BY <1>1, <1>2, <1>3, <1>4, <2>2, SMTT(40)
      <3> QED
        BY <1>3, <2>2, <3>1, <3>2
    <2> QED
      BY <2>1, <2>2
  <1>7. Len(front \o back) = Len(q) - 1
    BY <1>1, <1>2, <1>3, <1>4
  <1> QED
    BY <1>4, <1>5, <1>6, <1>7, Zenon

\* What is known of every sequence.
LEMMA SequenceFacts ==
    ASSUME NEW S, NEW q \in Seq(S)
    PROVE  Len(q) \in Nat /\ DOMAIN q = 1..Len(q) /\ \A i \in DOMAIN q : q[i] \in S
  OBVIOUS

\* The active item ends with a status that is not pending: the next one is taken,
\* and the queue stays in order.
LEMMA AdvanceKeepsQueue ==
    ASSUME TypeOK, QueueInv, active # None, Advance,
           NEW x \in {"sleeping", "resolved", "rejected"},
           status' = [status EXCEPT ![active] = x]
    PROVE  /\ QueueInv'
           /\ queue' \in Seq(Requests) /\ active' \in Requests \cup {None}
           /\ active' # active
           /\ phase' \in {"idle", "waiting"}
           /\ attempt' = 0 /\ spent' = 0 /\ stored' = FALSE
  <1>1. CASE queue = <<>> /\ Load(None) /\ UNCHANGED queue
    <2>1. active' = None /\ phase' = "idle" /\ attempt' = 0 /\ spent' = 0 /\ stored' = FALSE
      BY <1>1 DEF Load
    <2>2. queue' = <<>> /\ DOMAIN queue' = {}
      BY <1>1
    <2> QED
      BY <2>1, <2>2 DEF QueueInv
  <1>2. CASE \E i \in DOMAIN queue : Load(queue[i]) /\ queue' = RemoveAt(queue, i)
    <2>1. PICK p \in DOMAIN queue : Load(queue[p]) /\ queue' = RemoveAt(queue, p)
      BY <1>2
    <2>2. /\ Len(queue) \in Nat /\ p \in 1..Len(queue) /\ DOMAIN queue = 1..Len(queue)
          /\ queue \in Seq(Requests)
          /\ \A i \in DOMAIN queue : queue[i] \in Requests
      <3>1. queue \in Seq(Requests)
        BY DEF TypeOK
      <3>2. /\ Len(queue) \in Nat /\ DOMAIN queue = 1..Len(queue)
            /\ \A i \in DOMAIN queue : queue[i] \in Requests
        BY <3>1, SequenceFacts
      <3> QED
        BY <3>1, <3>2
    <2>3. /\ queue' \in Seq(Requests) /\ Len(queue') = Len(queue) - 1
          /\ \A i \in 1..(Len(queue) - 1) :
                 queue'[i] = IF i < p THEN queue[i] ELSE queue[i + 1]
      BY <2>1, <2>2, RemoveAtShifts
    <2>4. DOMAIN queue' = 1..(Len(queue) - 1)
      BY <2>2, <2>3
    <2>5. /\ active' = queue[p] /\ phase' = "waiting"
          /\ attempt' = 0 /\ spent' = 0 /\ stored' = FALSE
      <3>1. queue[p] # None
        BY <2>2, RequestsAreApart
      <3> QED
        BY <2>1, <3>1 DEF Load
    <2> DEFINE before(i) == IF i < p THEN i ELSE i + 1
    <2>6. \A i \in DOMAIN queue' : /\ before(i) \in DOMAIN queue /\ before(i) # p
                                   /\ queue'[i] = queue[before(i)]
      BY <2>2, <2>3, <2>4
    <2>7. \A i, j \in DOMAIN queue' : before(i) = before(j) => i = j
      BY <2>2, <2>4
    <2> HIDE DEF before
    <2>8. \A i, j \in DOMAIN queue' : queue'[i] = queue'[j] => i = j
      BY <2>6, <2>7 DEF QueueInv
    <2>9. \A i \in DOMAIN queue' : status'[queue'[i]] = "pending" /\ queue'[i] # active'
      <3> SUFFICES ASSUME NEW i \in DOMAIN queue'
                   PROVE  status'[queue'[i]] = "pending" /\ queue'[i] # active'
        OBVIOUS
      <3>1. queue[before(i)] # active /\ status[queue[before(i)]] = "pending"
            /\ queue[before(i)] \in Requests
        BY <2>2, <2>6 DEF QueueInv
      <3>2. queue[before(i)] # queue[p]
        BY <2>6 DEF QueueInv
      <3> QED
        BY <2>5, <2>6, <3>1, <3>2 DEF TypeOK
    <2>10. queue[p] # active /\ status[queue[p]] = "pending" /\ queue[p] \in Requests
      BY <2>2 DEF QueueInv
    <2>11. status'[active'] = "pending"
      BY <2>5, <2>10 DEF TypeOK
    <2> QED
      BY <2>3, <2>5, <2>8, <2>9, <2>10, <2>11, RequestsAreApart DEF QueueInv
  <1> QED
    BY <1>1, <1>2 DEF Advance

\* A call that is nowhere in the queue is scheduled.
LEMMA ScheduleKeepsQueue ==
    ASSUME TypeOK, QueueInv, NEW r \in Requests, status[r] \in {"new", "sleeping"}, Schedule(r)
    PROVE  /\ QueueInv'
           /\ queue' \in Seq(Requests) /\ active' \in Requests \cup {None}
           /\ \/ UNCHANGED item
              \/ active = None /\ active' = r /\ phase' = "waiting" /\ attempt' = 0
                 /\ spent' = 0 /\ stored' = FALSE
  <1>1. status' = [status EXCEPT ![r] = "pending"]
    BY DEF Schedule
  <1>2. r # None /\ r # active
    BY RequestsAreApart DEF QueueInv
  <1>3. CASE active = None
    <2>1. Load(r) /\ queue' = queue
      BY <1>3 DEF Schedule
    <2>2. queue = <<>> /\ DOMAIN queue' = {}
      BY <1>3, <2>1 DEF QueueInv
    <2>3. active' = r /\ phase' = "waiting" /\ attempt' = 0 /\ spent' = 0 /\ stored' = FALSE
      BY <1>2, <2>1 DEF Load
    <2>4. status'[r] = "pending"
      BY <1>1 DEF TypeOK
    <2> QED
      BY <1>2, <1>3, <2>1, <2>2, <2>3, <2>4 DEF QueueInv, TypeOK
  <1>4. CASE active # None
    <2>1. queue' = Append(queue, r) /\ UNCHANGED item
      BY <1>4 DEF Schedule
    <2>2. queue \in Seq(Requests) /\ Len(queue) \in Nat /\ DOMAIN queue = 1..Len(queue)
      <3>1. queue \in Seq(Requests)
        BY DEF TypeOK
      <3> QED
        BY <3>1, SequenceFacts
    <2>3. /\ queue' \in Seq(Requests) /\ queue' # <<>>
          /\ DOMAIN queue' = 1..(Len(queue) + 1)
          /\ \A i \in DOMAIN queue : queue'[i] = queue[i]
          /\ queue'[Len(queue) + 1] = r
      BY <2>1, <2>2, AppendProperties
    <2>4. \A i \in DOMAIN queue' : i \in DOMAIN queue \/ i = Len(queue) + 1
      BY <2>2, <2>3
    <2>5. \A i \in DOMAIN queue : queue[i] # r /\ queue[i] \in Requests
      BY <2>2 DEF QueueInv
    <2>6. \A i, j \in DOMAIN queue' : queue'[i] = queue'[j] => i = j
      BY <2>2, <2>3, <2>4, <2>5 DEF QueueInv
    <2>7. \A i \in DOMAIN queue' : status'[queue'[i]] = "pending" /\ queue'[i] # active
      <3>1. status'[r] = "pending" /\ \A s \in Requests : s # r => status'[s] = status[s]
        BY <1>1 DEF TypeOK
      <3>2. \A i \in DOMAIN queue : status'[queue[i]] = "pending" /\ queue[i] # active
        BY <2>5, <3>1 DEF QueueInv
      <3> QED
        BY <1>2, <2>3, <2>4, <3>1, <3>2
    <2>8. status'[active] = "pending"
      BY <1>1, <1>2, <1>4 DEF QueueInv, TypeOK
    <2> QED
      BY <1>4, <2>1, <2>3, <2>6, <2>7, <2>8 DEF QueueInv, TypeOK, item
  <1> QED
    BY <1>3, <1>4

-----------------------------------------------------------------------------
(* The invariant. *)

\* The initial state satisfies the invariant.
LEMMA InitIInv == Init => IInv
  <1> SUFFICES ASSUME Init PROVE IInv
    OBVIOUS
  <1>1. TypeOK
    <2>1. stored \in BOOLEAN /\ paused \in BOOLEAN /\ open \in BOOLEAN
      BY Zenon DEF Init
    <2>2. queue \in Seq(Requests)
      BY EmptySeq DEF Init
    <2>3. 0 \in 0..MaxRequeues /\ 0 \in 0..MaxSwitches
      BY LimitsAreNatural
    <2> QED
      BY <2>1, <2>2, <2>3 DEF Init, TypeOK
  <1>2. QueueInv
    BY DEF Init, QueueInv
  <1>3. LossInv
    BY DEF Init, LossInv, Credit, Finished, Requests
  <1> QED
    BY <1>1, <1>2, <1>3 DEF Init, IInv, AttemptsStartInTime, PauseInv, Begun

\* Scheduling touches nothing but the place of the call.
LEMMA ScheduleIInv ==
    ASSUME IInv, NEW r \in Requests, Send(r) \/ Requeue(r)
    PROVE  IInv'
  <1>1. /\ TypeOK /\ QueueInv /\ LossInv /\ AttemptsStartInTime /\ PauseInv
        /\ status[r] \in {"new", "sleeping"} /\ Schedule(r)
        /\ status' = [status EXCEPT ![r] = "pending"]
        /\ UNCHANGED <<requeues, late, paused, open, switches, processed, lost, passed>>
    BY DEF IInv, Send, Requeue, Schedule, past
  <1>2. /\ QueueInv'
        /\ queue' \in Seq(Requests) /\ active' \in Requests \cup {None}
        /\ \/ UNCHANGED <<active, phase, attempt, spent, stored>>
           \/ active = None /\ active' = r /\ phase' = "waiting" /\ attempt' = 0
              /\ spent' = 0 /\ stored' = FALSE
    BY <1>1, ScheduleKeepsQueue DEF item
  <1>3. TypeOK'
    <2>1. stored \in BOOLEAN /\ paused' \in BOOLEAN /\ open' \in BOOLEAN
      BY <1>1, Zenon DEF TypeOK
    <2>2. stored' \in BOOLEAN
      BY <1>2, <2>1, Zenon
    <2>3. attempt' \in Nat /\ spent' \in Nat
          /\ phase' \in {"idle", "waiting", "ready", "wire", "backoff"}
      BY <1>1, <1>2 DEF TypeOK
    <2> QED
      BY <1>1, <1>2, <2>1, <2>2, <2>3 DEF TypeOK
  <1>4. ~Finished(r) /\ ~Finished(r)' /\ \A q \in Requests : q # r => status'[q] = status[q]
    BY <1>1 DEF TypeOK, Finished
  <1>5. r # active /\ (active = None => ~stored)
    BY <1>1, RequestsAreApart DEF QueueInv, LossInv
  <1>6. \A q \in Requests : Credit(q)' = Credit(q)
    BY <1>2, <1>4, <1>5, RequestsAreApart DEF Credit, Finished
  <1>7. LossInv'
    <2>1. stored' => phase' = "wire" /\ processed'[active'] > 0
      BY <1>1, <1>2 DEF LossInv
    <2>2. \A q \in Requests :
             /\ processed'[q] + late'[q] <= lost'[q] + Credit(q)'
             /\ status'[q] = "resolved" => processed'[q] > 0
      BY <1>1, <1>4, <1>6 DEF LossInv, Finished
    <2>3. \A q \in Background :
             lost'[q] # 0 => status'[q] = "rejected" /\ processed'[q] + late'[q] <= 1
      BY <1>1, <1>4 DEF LossInv, Requests, Finished
    <2> QED
      BY <2>1, <2>2, <2>3 DEF LossInv
  <1>8. AttemptsStartInTime'
    BY <1>1, <1>2 DEF AttemptsStartInTime
  <1>9. PauseInv'
    BY <1>1, <1>2 DEF PauseInv, Begun
  <1> QED
    BY <1>2, <1>3, <1>7, <1>8, <1>9 DEF IInv

\* The end of an attempt without loss: a call sleeps only if nothing was stored and
\* succeeds only if something was.
KeepsCount(x) ==
    /\ UNCHANGED <<lost, late>>
    /\ x = "sleeping" => ~stored
    /\ x = "resolved" => stored

\* The end of an attempt whose answer was lost.
CountsLoss(x) ==
    /\ lost' = [lost EXCEPT ![active] = @ + 1]
    /\ late' = IF stored THEN late ELSE [late EXCEPT ![active] = @ + 1]
    /\ x # "resolved"
    /\ active \in Background => x = "rejected"

\* The step that ends the active item keeps the invariant.
LEMMA EndIInv ==
    ASSUME IInv, phase \in {"ready", "wire"},
           NEW x \in {"sleeping", "resolved", "rejected"},
           status' = [status EXCEPT ![active] = x], Advance,
           requeues' \in [Requests -> 0..MaxRequeues],
           UNCHANGED <<paused, open, switches, processed, passed>>,
           KeepsCount(x) \/ CountsLoss(x)
    PROVE  IInv'
  <1>1. /\ TypeOK /\ QueueInv /\ LossInv /\ AttemptsStartInTime /\ PauseInv
        /\ active # None /\ active \in Requests /\ status[active] = "pending"
    BY DEF IInv, TypeOK, QueueInv
  <1>2. /\ QueueInv'
        /\ queue' \in Seq(Requests) /\ active' \in Requests \cup {None}
        /\ active' # active
        /\ phase' \in {"idle", "waiting"}
        /\ attempt' = 0 /\ spent' = 0 /\ stored' = FALSE
    BY <1>1, AdvanceKeepsQueue
  <1>3. /\ status'[active] = x /\ ~Finished(active)
        /\ \A q \in Requests : q # active => status'[q] = status[q]
    BY <1>1 DEF TypeOK, Finished
  <1>4. /\ \A q \in Requests : processed[q] \in Nat /\ lost[q] \in Nat /\ late[q] \in Nat
        /\ \A q \in Requests : q # active => lost'[q] = lost[q] /\ late'[q] = late[q]
    BY <1>1 DEF TypeOK, KeepsCount, CountsLoss
  <1>5. TypeOK'
    <2>1. stored' \in BOOLEAN /\ paused' \in BOOLEAN /\ open' \in BOOLEAN
      BY <1>1, <1>2, Zenon DEF TypeOK
    <2>2. late' \in [Requests -> Nat] /\ lost' \in [Requests -> Nat]
      <3>1. CASE KeepsCount(x)
        BY <1>1, <3>1 DEF TypeOK, KeepsCount
      <3>2. CASE CountsLoss(x)
        <4>1. lost' \in [Requests -> Nat]
          BY <1>1, <3>2 DEF TypeOK, CountsLoss
        <4>2. CASE stored
          BY <1>1, <3>2, <4>1, <4>2 DEF TypeOK, CountsLoss
        <4>3. CASE ~stored
          BY <1>1, <3>2, <4>1, <4>3 DEF TypeOK, CountsLoss
        <4> QED
          BY <4>2, <4>3
      <3> QED
        BY <3>1, <3>2
    <2> QED
      BY <1>1, <1>2, <2>1, <2>2 DEF TypeOK
  <1>6. processed[active] + late[active] <= lost[active] + (IF stored THEN 1 ELSE 0)
    BY <1>1, <1>3 DEF LossInv, Credit
  <1>7. processed'[active] + late'[active]
            <= lost'[active] + (IF x \in {"resolved", "rejected"} THEN 1 ELSE 0)
    <2>1. CASE KeepsCount(x)
      BY <1>4, <1>1, <1>6, <2>1 DEF KeepsCount
    <2>2. CASE CountsLoss(x)
      <3>1. lost'[active] = lost[active] + 1
            /\ late'[active] = IF stored THEN late[active] ELSE late[active] + 1
        BY <1>1, <2>2 DEF CountsLoss, TypeOK
      <3> QED
        BY <1>1, <1>4, <1>6, <3>1
    <2> QED
      BY <2>1, <2>2
  <1>8. \A q \in Requests :
            q = active => Credit(q)' = IF x \in {"resolved", "rejected"} THEN 1 ELSE 0
    BY <1>2, <1>3 DEF Credit, Finished
  <1>9. \A q \in Requests : q # active => Credit(q)' = Credit(q)
    BY <1>2, <1>3 DEF Credit, Finished
  <1>10. \A q \in Requests : processed'[q] + late'[q] <= lost'[q] + Credit(q)'
    BY <1>1, <1>4, <1>7, <1>8, <1>9 DEF LossInv
  <1>11. \A q \in Requests : status'[q] = "resolved" => processed'[q] > 0
    BY <1>1, <1>3 DEF LossInv, KeepsCount, CountsLoss
  <1>12. \A q \in Background :
            lost'[q] # 0 => status'[q] = "rejected" /\ processed'[q] + late'[q] <= 1
    <2> SUFFICES ASSUME NEW q \in Background, lost'[q] # 0
                 PROVE  status'[q] = "rejected" /\ processed'[q] + late'[q] <= 1
      OBVIOUS
    <2>1. q \in Requests
      BY DEF Requests
    <2>2. CASE q # active
      BY <1>1, <1>3, <1>4, <2>1, <2>2 DEF LossInv
    <2>3. CASE q = active
      <3>1. lost[active] = 0
        BY <1>1, <2>3 DEF LossInv
      <3>2. CountsLoss(x) /\ x = "rejected"
        BY <2>3, <3>1 DEF KeepsCount, CountsLoss
      <3>3. late'[active] = IF stored THEN late[active] ELSE late[active] + 1
        BY <1>1, <3>2 DEF CountsLoss, TypeOK
      <3> QED
        BY <1>1, <1>3, <1>4, <1>6, <2>3, <3>1, <3>2, <3>3
    <2> QED
      BY <2>2, <2>3
  <1>13. LossInv'
    BY <1>2, <1>10, <1>11, <1>12 DEF LossInv
  <1>14. AttemptsStartInTime' /\ PauseInv'
    BY <1>1, <1>2 DEF AttemptsStartInTime, PauseInv, Begun
  <1> QED
    BY <1>2, <1>5, <1>13, <1>14 DEF IInv

\* A transient error ends the attempt asleep or rejected, a background one rejected.
LEMMA TransientErrorEnds ==
    ASSUME TypeOK, active \in Requests, TransientError
    PROVE  \E x \in {"sleeping", "rejected"} :
               /\ status' = [status EXCEPT ![active] = x]
               /\ Advance
               /\ requeues' \in [Requests -> 0..MaxRequeues]
               /\ active \in Background => x = "rejected"
  <1>1. CASE active \in Interactive /\ requeues[active] < MaxRequeues
    <2>1. /\ status' = [status EXCEPT ![active] = "sleeping"] /\ Advance
          /\ requeues' = [requeues EXCEPT ![active] = @ + 1]
      BY <1>1 DEF TransientError
    <2>2. requeues[active] \in 0..MaxRequeues /\ MaxRequeues \in Nat
      BY LimitsAreNatural DEF TypeOK
    <2>3. requeues' \in [Requests -> 0..MaxRequeues]
      BY <1>1, <2>1, <2>2 DEF TypeOK
    <2>4. active \notin Background
      BY <1>1, RequestsAreApart
    <2> QED
      BY <2>1, <2>3, <2>4
  <1>2. CASE ~(active \in Interactive /\ requeues[active] < MaxRequeues)
    <2>1. Settle("rejected")
      BY <1>2 DEF TransientError
    <2> QED
      BY <2>1 DEF Settle, TypeOK
  <1> QED
    BY <1>1, <1>2

\* Each of the actions that end the active item keeps the invariant.
LEMMA EndingsIInv ==
    ASSUME IInv, Refuse \/ Exhausted \/ LoseAnswer \/ HardError \/ Succeed
    PROVE  IInv'
  <1>1. /\ TypeOK /\ QueueInv /\ LossInv
        /\ phase \in {"ready", "wire"} /\ active \in Requests
    BY DEF IInv, TypeOK, QueueInv, Refuse, Exhausted, LoseAnswer, HardError, Succeed
  <1>2. phase = "ready" => ~stored
    BY <1>1 DEF LossInv
  <1>3. CASE Refuse \/ HardError
    <2>1. /\ status' = [status EXCEPT ![active] = "rejected"] /\ Advance
          /\ UNCHANGED requeues
          /\ UNCHANGED <<late, paused, open, switches, processed, lost, passed>>
      BY <1>3 DEF Refuse, HardError, Settle, past
    <2>2. KeepsCount("rejected")
      BY <2>1 DEF KeepsCount
    <2> QED
      BY <1>1, <2>1, <2>2, EndIInv DEF TypeOK
  <1>4. CASE Succeed
    <2>1. /\ status' = [status EXCEPT ![active] = "resolved"] /\ Advance /\ stored
          /\ UNCHANGED requeues
          /\ UNCHANGED <<late, paused, open, switches, processed, lost, passed>>
      BY <1>4 DEF Succeed, Settle, past
    <2>2. KeepsCount("resolved")
      BY <2>1 DEF KeepsCount
    <2> QED
      BY <1>1, <2>1, <2>2, EndIInv DEF TypeOK
  <1>5. CASE Exhausted
    <2>1. /\ TransientError /\ ~stored
          /\ UNCHANGED <<late, paused, open, switches, processed, lost, passed>>
      BY <1>5 DEF Exhausted, past
    <2>2. PICK x \in {"sleeping", "rejected"} :
               /\ status' = [status EXCEPT ![active] = x]
               /\ Advance
               /\ requeues' \in [Requests -> 0..MaxRequeues]
      BY <1>1, <2>1, TransientErrorEnds
    <2>3. KeepsCount(x)
      BY <2>1 DEF KeepsCount
    <2> QED
      BY <1>1, <2>1, <2>2, <2>3, EndIInv
  <1>6. CASE LoseAnswer
    <2>1. /\ TransientError
          /\ lost' = [lost EXCEPT ![active] = @ + 1]
          /\ late' = IF stored THEN late ELSE [late EXCEPT ![active] = @ + 1]
          /\ UNCHANGED <<paused, open, switches, processed, passed>>
      BY <1>6 DEF LoseAnswer
    <2>2. PICK x \in {"sleeping", "rejected"} :
               /\ status' = [status EXCEPT ![active] = x]
               /\ Advance
               /\ requeues' \in [Requests -> 0..MaxRequeues]
               /\ active \in Background => x = "rejected"
      BY <1>1, <2>1, TransientErrorEnds
    <2>3. CountsLoss(x)
      BY <2>1, <2>2 DEF CountsLoss
    <2> QED
      BY <1>1, <2>1, <2>2, <2>3, EndIInv
  <1> QED
    BY <1>3, <1>4, <1>5, <1>6

\* A step that moves no item and ends none leaves the queue in order.
LEMMA QuietQueue ==
    ASSUME QueueInv, UNCHANGED <<status, queue, active>>, phase' = "idle" <=> phase = "idle"
    PROVE  QueueInv'
  BY DEF QueueInv

\* A step that neither sends nor processes leaves the counts as they are.
LEMMA QuietLoss ==
    ASSUME LossInv, UNCHANGED <<status, active, stored, late, processed, lost>>,
           stored => phase' = phase
    PROVE  LossInv'
  BY DEF LossInv, Credit, Finished

\* Steps of the active item before its end keep the invariant.
LEMMA ItemIInv == ASSUME IInv, Begin \/ Post \/ Retry \/ Wake PROVE IInv'
  <1>1. /\ TypeOK /\ QueueInv /\ LossInv /\ AttemptsStartInTime /\ PauseInv
        /\ ~stored /\ UNCHANGED stored
    <2>1. TypeOK /\ QueueInv /\ LossInv /\ AttemptsStartInTime /\ PauseInv
      BY DEF IInv
    <2>2. ~stored
      BY <2>1 DEF LossInv, Begin, Post, Retry, Wake
    <2>3. stored' = stored \/ stored' = FALSE
      BY Zenon DEF Begin, Post, Retry, Wake
    <2>4. stored = FALSE
      BY <2>1, <2>2, Zenon DEF TypeOK
    <2> QED
      BY <2>1, <2>2, <2>3, <2>4, Zenon
  <1>2. UNCHANGED <<status, requeues, queue, active, late, paused, open, switches,
                    processed, lost>>
    BY DEF Begin, Post, Retry, Wake, calls, past
  <1>3. phase' \in {"ready", "wire", "backoff"} /\ phase # "idle"
    BY DEF Begin, Post, Retry, Wake
  <1>4. QueueInv' /\ LossInv'
    BY <1>1, <1>2, <1>3, QuietQueue, QuietLoss
  <1>5. /\ attempt' \in Nat /\ spent' \in Nat
        /\ AttemptsStartInTime'
    <2>1. CASE Begin
      BY <2>1, LimitsAreNatural DEF Begin, AttemptsStartInTime
    <2>2. CASE Post \/ Wake
      BY <1>1, <2>2 DEF Post, Wake, AttemptsStartInTime, TypeOK
    <2>3. CASE Retry
      <3>1. PICK elapsed \in 0..Timeout, delay \in Delays :
                 spent + elapsed + delay <= Window /\ spent' = spent + elapsed + delay
        BY <2>3 DEF Retry, Deadline
      <3>2. delay \in Nat
        BY <1>1, LimitsAreNatural DEF Delays, Smaller, TypeOK
      <3> QED
        BY <1>1, <2>3, <3>1, <3>2, LimitsAreNatural DEF Retry, AttemptsStartInTime, TypeOK
    <2> QED
      BY <2>1, <2>2, <2>3
  <1>6. active \in Requests
    BY <1>1, <1>3 DEF TypeOK, QueueInv
  <1>7. passed' \in SUBSET Requests /\ PauseInv'
    <2>1. CASE Begin
      BY <1>1, <1>2, <2>1 DEF Begin, past, PauseInv, TypeOK
    <2>2. CASE Retry \/ Wake
      BY <1>1, <1>2, <2>2 DEF Retry, Wake, past, PauseInv, Begun, TypeOK
    <2>3. CASE Post
      <3>1. passed' = (IF paused THEN passed \cup {active} ELSE passed) /\ phase = "ready"
        BY <2>3 DEF Post
      <3>2. CASE paused
        BY <1>1, <1>2, <1>6, <3>1, <3>2 DEF PauseInv, Begun, TypeOK
      <3>3. CASE ~paused
        BY <1>1, <1>2, <3>1, <3>3 DEF PauseInv, TypeOK
      <3> QED
        BY <3>2, <3>3
    <2> QED
      BY <2>1, <2>2, <2>3
  <1>8. TypeOK'
    <2>1. stored' \in BOOLEAN /\ paused' \in BOOLEAN /\ open' \in BOOLEAN
      BY <1>1, <1>2, Zenon DEF TypeOK
    <2> QED
      BY <1>1, <1>2, <1>3, <1>5, <1>7, <2>1 DEF TypeOK
  <1> QED
    BY <1>4, <1>5, <1>7, <1>8 DEF IInv

\* So does BlueSales when it processes an attempt, late or in time.
LEMMA ProcessIInv ==
    ASSUME IInv, Process \/ \E r \in Requests : ProcessLate(r)
    PROVE  IInv'
  <1>1. /\ TypeOK /\ QueueInv /\ LossInv /\ AttemptsStartInTime /\ PauseInv
        /\ UNCHANGED <<status, requeues, queue, active, phase, attempt, spent, paused, open,
                       switches, lost, passed>>
    BY DEF IInv, Process, ProcessLate, calls, item
  <1>2. QueueInv'
    BY <1>1, QuietQueue
  <1>3. \A q \in Requests : processed[q] \in Nat /\ late[q] \in Nat /\ lost[q] \in Nat
    BY <1>1 DEF TypeOK
  <1>4. ASSUME Process
        PROVE  LossInv' /\ stored' = TRUE /\ processed' \in [Requests -> Nat]
               /\ late' \in [Requests -> Nat]
    <2>1. /\ phase = "wire" /\ ~stored /\ stored' = TRUE
          /\ processed' = [processed EXCEPT ![active] = @ + 1] /\ late' = late
      BY <1>4 DEF Process
    <2>2. active \in Requests /\ ~Finished(active)
      BY <1>1, <2>1 DEF TypeOK, QueueInv, Finished
    <2>3. /\ processed' \in [Requests -> Nat] /\ processed'[active] = processed[active] + 1
          /\ \A q \in Requests : q # active => processed'[q] = processed[q]
      BY <1>1, <1>3, <2>1, <2>2 DEF TypeOK
    <2>4. \A q \in Requests :
             /\ q = active => Credit(q) = 0 /\ Credit(q)' = 1
             /\ q # active => Credit(q)' = Credit(q)
      BY <1>1, <2>1, <2>2 DEF Credit, Finished
    <2>5. \A q \in Requests :
             /\ processed'[q] + late'[q] <= lost'[q] + Credit(q)'
             /\ status'[q] = "resolved" => processed'[q] > 0
      <3> SUFFICES ASSUME NEW q \in Requests
                   PROVE  /\ processed'[q] + late'[q] <= lost'[q] + Credit(q)'
                          /\ status'[q] = "resolved" => processed'[q] > 0
        OBVIOUS
      <3>1. CASE q = active
        BY <1>1, <1>3, <2>1, <2>3, <2>4, <3>1 DEF LossInv
      <3>2. CASE q # active
        BY <1>1, <1>3, <2>1, <2>3, <2>4, <3>2 DEF LossInv
      <3> QED
        BY <3>1, <3>2
    <2>6. \A q \in Background :
             lost'[q] # 0 => status'[q] = "rejected" /\ processed'[q] + late'[q] <= 1
      BY <1>1, <2>1, <2>2, <2>3 DEF LossInv, Requests, Finished
    <2>7. late' \in [Requests -> Nat]
      BY <1>1, <2>1 DEF TypeOK
    <2>8. stored' => phase' = "wire" /\ processed'[active'] > 0
      BY <1>1, <1>3, <2>1, <2>2, <2>3
    <2>9. LossInv'
      BY <2>5, <2>6, <2>8 DEF LossInv
    <2> QED
      BY <2>1, <2>3, <2>7, <2>9
  <1>5. ASSUME NEW r \in Requests, ProcessLate(r)
        PROVE  LossInv' /\ stored' = stored /\ processed' \in [Requests -> Nat]
               /\ late' \in [Requests -> Nat]
    <2>1. /\ late[r] > 0 /\ late' = [late EXCEPT ![r] = @ - 1] /\ stored' = stored
          /\ processed' = [processed EXCEPT ![r] = @ + 1]
      BY <1>5 DEF ProcessLate, item
    <2>2. /\ processed' \in [Requests -> Nat] /\ late' \in [Requests -> Nat]
          /\ \A q \in Requests :
                 processed'[q] + late'[q] = processed[q] + late[q] /\ processed'[q] >= processed[q]
      <3>1. late[r] - 1 \in Nat /\ processed[r] + 1 \in Nat
        BY <1>3, <2>1
      <3>2. processed' \in [Requests -> Nat] /\ late' \in [Requests -> Nat]
        BY <1>1, <2>1, <3>1 DEF TypeOK
      <3>3. /\ processed'[r] = processed[r] + 1 /\ late'[r] = late[r] - 1
            /\ \A q \in Requests : q # r => processed'[q] = processed[q] /\ late'[q] = late[q]
        BY <1>1, <2>1 DEF TypeOK
      <3> QED
        BY <1>3, <3>2, <3>3
    <2>3. \A q \in Requests : Credit(q)' = Credit(q)
      BY <1>1, <2>1 DEF Credit, Finished
    <2>4. active' \in Requests \cup {None} /\ (stored' => active' \in Requests)
      BY <1>1, <2>1 DEF TypeOK, LossInv, QueueInv
    <2>5. \A q \in Requests :
             /\ processed'[q] + late'[q] <= lost'[q] + Credit(q)'
             /\ status'[q] = "resolved" => processed'[q] > 0
      BY <1>1, <1>3, <2>2, <2>3 DEF LossInv
    <2>6. \A q \in Background :
             lost'[q] # 0 => status'[q] = "rejected" /\ processed'[q] + late'[q] <= 1
      BY <1>1, <2>2 DEF LossInv, Requests
    <2>7. stored' => phase' = "wire" /\ processed'[active'] > 0
      BY <1>1, <1>3, <2>1, <2>2, <2>4 DEF LossInv
    <2> QED
      BY <2>1, <2>2, <2>5, <2>6, <2>7 DEF LossInv
  <1>6. /\ LossInv' /\ processed' \in [Requests -> Nat] /\ late' \in [Requests -> Nat]
        /\ stored' \in BOOLEAN
    <2>1. CASE Process
      BY <1>4, <2>1, Zenon
    <2>2. CASE \E r \in Requests : ProcessLate(r)
      <3>1. LossInv' /\ stored' = stored /\ processed' \in [Requests -> Nat]
            /\ late' \in [Requests -> Nat]
        BY <1>5, <2>2
      <3>2. stored' \in BOOLEAN
        BY <1>1, <3>1, Zenon DEF TypeOK
      <3> QED
        BY <3>1, <3>2
    <2> QED
      BY <2>1, <2>2
  <1>7. TypeOK'
    <2>1. paused' \in BOOLEAN /\ open' \in BOOLEAN
      BY <1>1, Zenon DEF TypeOK
    <2> QED
      BY <1>1, <1>6, <2>1 DEF TypeOK
  <1>8. AttemptsStartInTime' /\ PauseInv'
    BY <1>1 DEF AttemptsStartInTime, PauseInv, Begun
  <1> QED
    BY <1>2, <1>6, <1>7, <1>8 DEF IInv

\* So do the administrators.
LEMMA SwitchIInv == ASSUME IInv, Pause \/ Unblock \/ OpenOrShut PROVE IInv'
  <1>1. /\ TypeOK /\ QueueInv /\ LossInv /\ AttemptsStartInTime /\ PauseInv
        /\ UNCHANGED <<status, requeues, queue, active, phase, attempt, spent, stored, late,
                       processed, lost>>
    BY DEF IInv, Pause, Unblock, OpenOrShut, calls, item, past
  <1>2. QueueInv' /\ LossInv' /\ AttemptsStartInTime'
    BY <1>1, QuietQueue, QuietLoss DEF AttemptsStartInTime
  <1>3. switches' \in 0..MaxSwitches
    BY <1>1, LimitsAreNatural, SMTT(60) DEF Pause, Unblock, OpenOrShut, Switch, TypeOK
  <1>4. passed' \in SUBSET Requests /\ (passed' = passed \/ passed' = {})
    BY <1>1 DEF Pause, Unblock, OpenOrShut, past, TypeOK
  <1>5. passed' = {} \/ (passed' = passed /\ (paused' => paused))
    <2>1. CASE Pause
      BY <2>1 DEF Pause
    <2>2. CASE Unblock
      BY <2>2, Zenon DEF Unblock, past
    <2>3. CASE OpenOrShut
      BY <2>3, Zenon DEF OpenOrShut, past
    <2> QED
      BY <2>1, <2>2, <2>3
  <1>6. PauseInv'
    <2>1. CASE passed' = {}
      BY <2>1 DEF PauseInv
    <2>2. CASE passed' = passed /\ (paused' => paused)
      BY <1>1, <2>2 DEF PauseInv, Begun
    <2> QED
      BY <1>5, <2>1, <2>2
  <1>7. stored' \in BOOLEAN /\ paused' \in BOOLEAN /\ open' \in BOOLEAN
    BY <1>1, Zenon DEF TypeOK, Pause, Unblock, OpenOrShut
  <1>8. TypeOK'
    BY <1>1, <1>3, <1>4, <1>7 DEF TypeOK
  <1> QED
    BY <1>2, <1>6, <1>8 DEF IInv

\* Every step keeps the invariant.
LEMMA StepIInv == ASSUME IInv, [Next]_vars PROVE IInv'
  <1>1. CASE \E r \in Requests : Send(r) \/ Requeue(r)
    BY <1>1, ScheduleIInv
  <1>2. CASE Process \/ \E r \in Requests : ProcessLate(r)
    BY <1>2, ProcessIInv
  <1>3. CASE Begin \/ Post \/ Retry \/ Wake
    BY <1>3, ItemIInv
  <1>4. CASE Refuse \/ Exhausted \/ LoseAnswer \/ HardError \/ Succeed
    BY <1>4, EndingsIInv
  <1>5. CASE Pause \/ Unblock \/ OpenOrShut
    BY <1>5, SwitchIInv
  <1>6. CASE UNCHANGED vars
    <2>1. UNCHANGED <<status, requeues, queue, active, phase, attempt, spent, stored, late,
                      paused, open, switches, processed, lost, passed>>
      BY <1>6 DEF vars, calls, item, past
    <2>2. QueueInv' /\ LossInv' /\ AttemptsStartInTime' /\ PauseInv'
      BY <2>1, QuietQueue, QuietLoss DEF IInv, AttemptsStartInTime, PauseInv, Begun
    <2>3. TypeOK'
      BY <2>1, Zenon DEF IInv, TypeOK
    <2> QED
      BY <2>2, <2>3 DEF IInv
  <1> QED
    BY <1>1, <1>2, <1>3, <1>4, <1>5, <1>6 DEF Next, Answer

-----------------------------------------------------------------------------
(* The theorems. *)

\* In every reachable state the queue is in order and the counts are right.
THEOREM Invariance == Spec => []IInv
  <1>1. Init => IInv
    BY InitIInv
  <1>2. IInv /\ [Next]_vars => IInv'
    BY StepIInv
  <1> QED
    BY <1>1, <1>2, PTL DEF Spec

\* No attempt starts after the window of its item, whatever BlueSales answers.
THEOREM WindowIsKept == Spec => []AttemptsStartInTime
  <1>1. IInv => AttemptsStartInTime
    BY DEF IInv
  <1> QED
    BY <1>1, Invariance, PTL

\* BlueSales processes a call once more only after a lost answer.
THEOREM RepeatsAreJustified == Spec => []RepeatsOnlyAfterLoss
  <1>1. IInv => RepeatsOnlyAfterLoss
    <2> SUFFICES ASSUME IInv, NEW r \in Requests
                 PROVE  /\ processed[r] <= 1 + lost[r]
                        /\ r \in Background => processed[r] <= 1
                        /\ status[r] = "resolved" => processed[r] > 0
      BY DEF RepeatsOnlyAfterLoss
    <2>1. processed[r] \in Nat /\ late[r] \in Nat /\ lost[r] \in Nat
      BY DEF IInv, TypeOK
    <2>2. Credit(r) \in {0, 1} /\ processed[r] + late[r] <= lost[r] + Credit(r)
      BY DEF IInv, LossInv, Credit
    <2>3. r \in Background => processed[r] <= 1
      BY <2>1, <2>2 DEF IInv, LossInv
    <2> QED
      BY <2>1, <2>2, <2>3 DEF IInv, LossInv
  <1> QED
    BY <1>1, Invariance, PTL

\* A pause lets at most the request through that was under way.
THEOREM PauseIsKept == Spec => []PauseHoldsBack
  <1>1. IInv => PauseHoldsBack
    <2> SUFFICES ASSUME IInv PROVE Cardinality(passed) <= 1
      BY DEF PauseHoldsBack
    <2>1. PICK r \in Requests \cup {None} : passed \subseteq {r}
      BY DEF IInv, PauseInv
    <2>2. passed = {} \/ passed = {r}
      BY <2>1
    <2> QED
      BY <2>2, FS_EmptySet, FS_Singleton
  <1> QED
    BY <1>1, Invariance, PTL

\* A request of the synchronisation starts only when no user waits in the queue.
THEOREM UsersComeFirst == Spec => InteractiveFirst
  <1> DEFINE First == \A b \in Background, i \in Interactive :
                          active' = b /\ active # b => i \notin ToSet(queue)
  <1>1. ASSUME IInv, [Next]_vars PROVE First
    <2> SUFFICES ASSUME NEW b \in Background, NEW i \in Interactive,
                        active' = b, active # b
                 PROVE  i \notin ToSet(queue)
      OBVIOUS
    <2>1. TypeOK /\ QueueInv /\ b # None
      BY <1>1, RequestsAreApart DEF IInv, Requests
    <2>2. CASE \E r \in Requests : Send(r) \/ Requeue(r)
      <3>1. active = None
        BY <2>1, <2>2 DEF Send, Requeue, Schedule, item
      <3> QED
        BY <2>1, <3>1 DEF QueueInv, ToSet
    <2>3. CASE Refuse \/ Exhausted \/ LoseAnswer \/ HardError \/ Succeed
      <3>1. Advance
        BY <2>3 DEF Refuse, Exhausted, LoseAnswer, HardError, Succeed, Settle, TransientError
      <3>2. PICK p \in DOMAIN queue : Foremost(p) /\ Load(queue[p])
        BY <2>1, <3>1 DEF Advance, Load
      <3>3. queue[p] = b /\ b \notin Interactive
        BY <3>2, RequestsAreApart DEF Load
      <3>4. Urgent = {}
        BY <3>2, <3>3 DEF Foremost, Urgent
      <3> QED
        BY <3>4 DEF Urgent, ToSet
    <2>4. CASE UNCHANGED active
      BY <2>4
    <2> QED
      <3>1. Begin \/ Post \/ Retry \/ Wake \/ Process \/ (\E r \in Requests : ProcessLate(r))
            \/ Pause \/ Unblock \/ OpenOrShut \/ UNCHANGED vars => UNCHANGED active
        BY DEF Begin, Post, Retry, Wake, Process, ProcessLate, Pause, Unblock, OpenOrShut,
               vars, item
      <3> QED
        BY <1>1, <2>2, <2>3, <2>4, <3>1 DEF Next, Answer
  <1>2. IInv /\ [Next]_vars => [First]_vars
    BY <1>1
  <1> QED
    BY <1>2, Invariance, PTL DEF Spec, InteractiveFirst
=============================================================================
