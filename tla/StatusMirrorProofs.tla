------------------------- MODULE StatusMirrorProofs -------------------------
(***************************************************************************)
(* The card of an order, for any statuses, any finite number of import     *)
(* loops and any bounds: it shows the last status a manager chose, an      *)
(* import never takes a change back, and the revision cycles and the       *)
(* sketch mark follow the status.                                          *)
(***************************************************************************)
EXTENDS MCInbound, FiniteSetTheorems, TLAPS

\* The import is switched on only while no loop holds an answer from before.
SwitchedOnWhenIdle ==
    [][~inbound /\ inbound' => \A r \in Readers : reader[r].phase = "idle"]_vars

\* Only orders in the CRM have changes in the outbox, and an import that is to be
\* written has a status.
QueueInv ==
    /\ queue \in Seq(Statuses) /\ Len(queue) <= changes
    /\ local = None => queue = <<>>
    /\ outbox.phase # "idle" => queue # <<>>
    /\ \A r \in Readers : reader[r].phase = "prepared" => reader[r].answer # None

\* Nothing is stamped later than now, and an order that is new was never observed.
StampInv ==
    /\ local = None => observed = 0
    /\ observed <= now /\ outbox.stamp <= now
    /\ \A r \in Readers : reader[r].stamp <= now

\* The answer that closes the last row.
Closing == outbox.phase = "answered" /\ Len(queue) = 1 /\ outbox.answer = Head(queue)

\* A change that has not reached BlueSales has an open row, which no answer closes.
LandedInv ==
    /\ ~landed => queue # <<>>
    /\ Closing => landed

\* An answer that knows nothing of the last change meets an open row, and the read
\* that closes it is no older.
Beaten(r) ==
    /\ queue # <<>>
    /\ outbox.phase = "asked" \/ Closing => reader[r].stamp <= outbox.stamp

Stale(r) ==
    /\ reader[r].phase \in {"answered", "prepared"}
    /\ ~sound[r] /\ observed < reader[r].stamp

FreshInv == inbound => \A r \in Readers : Stale(r) => Beaten(r)

IInv == TypeOK /\ QueueInv /\ StampInv /\ LandedInv /\ CardShowsLastRequest /\ ReworkHasRevision

USE StatusesAreKnown, BoundsAreNatural DEF Answers, Stamps

-----------------------------------------------------------------------------
(* Operators. *)

LEMMA StatusesDiffer ==
    RevisionStart # RevisionReady /\ RevisionStart # Sketch /\ RevisionReady # Sketch
<1>1. \A x, y : IsFiniteSet({x, y}) /\ Cardinality({x, y}) <= 2
  <2> TAKE x, y
  <2>1. IsFiniteSet({x}) /\ Cardinality({x}) = 1
    BY FS_Singleton
  <2>2. {x} \cup {y} = {x, y}
    OBVIOUS
  <2>3. IsFiniteSet({x} \cup {y}) /\ Cardinality({x} \cup {y}) <= 2
    BY <2>1, FS_AddElement
  <2> QED
    BY <2>2, <2>3
<1>2. \A x, y : Cardinality({x, y}) # 3
  <2> TAKE x, y
  <2>1. Cardinality({x, y}) \in Nat /\ Cardinality({x, y}) <= 2
    BY <1>1, FS_CardinalityType
  <2> QED
    BY <2>1
<1>3. \A x, y, z : {x, x, z} = {x, z} /\ {x, y, x} = {x, y} /\ {x, y, y} = {x, y}
  OBVIOUS
<1> QED
  BY <1>2, <1>3

\* A sequence of statuses that is not empty, and what is left of it without its head.
LEMMA TailFacts ==
    ASSUME NEW q \in Seq(Statuses), q # <<>>
    PROVE  /\ Len(q) \in Nat \ {0}
           /\ Head(q) \in Statuses /\ Last(q) \in Statuses
           /\ Tail(q) \in Seq(Statuses) /\ Len(Tail(q)) = Len(q) - 1
           /\ Len(q) = 1 => Tail(q) = <<>> /\ Head(q) = Last(q)
           /\ Len(q) # 1 => Tail(q) # <<>> /\ Last(Tail(q)) = Last(q)
<1>1. /\ Len(q) \in Nat \ {0}
      /\ Head(q) \in Statuses /\ Last(q) \in Statuses
      /\ Tail(q) \in Seq(Statuses) /\ Len(Tail(q)) = Len(q) - 1
  BY DEF Last
<1>2. Len(q) = 1 => Tail(q) = <<>> /\ Head(q) = Last(q)
  <2>1. \A t \in Seq(Statuses) : Len(t) = 0 => t = <<>>
    OBVIOUS
  <2>2. Len(q) = 1 => Head(q) = Last(q)
    BY DEF Last
  <2>3. Len(q) = 1 => Len(Tail(q)) = 0
    BY <1>1
  <2>4. Tail(q) \in Seq(Statuses)
    BY <1>1
  <2> QED
    BY <2>1, <2>2, <2>3, <2>4, Zenon
<1>3. ASSUME Len(q) # 1 PROVE Tail(q) # <<>> /\ Last(Tail(q)) = Last(q)
  <2>1. Len(q) - 1 \in 1..Len(Tail(q))
    BY <1>1, <1>3
  <2>2. Tail(q)[Len(q) - 1] = q[Len(q)]
    BY <1>1, <2>1
  <2> QED
    BY <1>1, <1>3, <2>2, SMTT(30) DEF Last
<1> QED
  BY <1>1, <1>2, <1>3

LEMMA AppendFacts ==
    ASSUME NEW q \in Seq(Statuses), NEW s \in Statuses
    PROVE  /\ Append(q, s) \in Seq(Statuses) /\ Append(q, s) # <<>>
           /\ Last(Append(q, s)) = s /\ Len(Append(q, s)) = Len(q) + 1
           /\ Len(q) \in Nat
           /\ q # <<>> => Len(q) # 0
  BY DEF Last

\* What Track does to the number of open revision cycles.
LEMMA TrackFacts ==
    ASSUME active \in 0..2, NEW previous, NEW status, Track(previous, status)
    PROVE  /\ active' \in 0..2
           /\ active' > active => active = 0
           /\ previous # status /\ status = RevisionStart => active' # 0
           /\ previous # status /\ status = RevisionReady => active' = 0
           /\ previous = status => active' = active
<1>1. CASE previous = status
  BY <1>1 DEF Track
<1>2. CASE previous # status /\ status = RevisionStart
  <2>1. status # RevisionReady
    BY <1>2, StatusesDiffer
  <2>2. CASE active = 0
    BY <1>2, <2>1, <2>2 DEF Track
  <2>3. CASE active # 0
    BY <1>2, <2>1, <2>3 DEF Track
  <2> QED
    BY <2>2, <2>3
<1>3. CASE previous # status /\ status = RevisionReady
  BY <1>3, StatusesDiffer DEF Track
<1>4. CASE previous # status /\ status # RevisionStart /\ status # RevisionReady
  BY <1>4 DEF Track
<1> QED
  BY <1>1, <1>2, <1>3, <1>4

ReaderStamps == {reader[r].stamp : r \in Readers}

Below(t) == {u \in LiveStamps : u < t}

\* There are no more live stamps than places that hold one.
LEMMA LiveStampsAreFew ==
    ASSUME TypeOK
    PROVE  /\ IsFiniteSet(LiveStamps)
           /\ Cardinality(LiveStamps) \in Nat
           /\ Cardinality(LiveStamps) <= Cardinality(Readers) + 2
           /\ LiveStamps \subseteq Nat \ {0}
           /\ Cardinality(Readers) \in Nat
<1>1. IsFiniteSet(Readers) /\ Cardinality(Readers) \in Nat
  BY ReadersAreFinite, FS_CardinalityType
<1>2. [r \in Readers |-> reader[r].stamp] \in Surjection(Readers, ReaderStamps)
  BY DEF Surjection, ReaderStamps
<1>3. IsFiniteSet(ReaderStamps) /\ Cardinality(ReaderStamps) <= Cardinality(Readers)
  BY <1>1, <1>2, FS_Surjection
<1>4. Cardinality(ReaderStamps) \in Nat
  BY <1>3, FS_CardinalityType
<1> DEFINE A == ReaderStamps \cup {observed}
           B == A \cup {outbox.stamp}
<1>5. IsFiniteSet(A) /\ Cardinality(A) \in Nat /\ Cardinality(A) <= Cardinality(Readers) + 1
  <2>1. IsFiniteSet(A) /\ Cardinality(A) = IF observed \in ReaderStamps THEN Cardinality(ReaderStamps)
                                           ELSE Cardinality(ReaderStamps) + 1
    BY <1>3, FS_AddElement
  <2> HIDE DEF A
  <2> QED
    BY <1>1, <1>3, <1>4, <2>1
<1>6. IsFiniteSet(B) /\ Cardinality(B) \in Nat /\ Cardinality(B) <= Cardinality(Readers) + 2
  <2> HIDE DEF A
  <2>1. IsFiniteSet(B) /\ Cardinality(B) = IF outbox.stamp \in A THEN Cardinality(A)
                                           ELSE Cardinality(A) + 1
    BY <1>5, FS_AddElement
  <2> HIDE DEF B
  <2> QED
    BY <1>1, <1>5, <2>1
<1>7. LiveStamps \in SUBSET B
  BY DEF LiveStamps, A, ReaderStamps
<1> HIDE DEF B
<1>8. IsFiniteSet(LiveStamps) /\ Cardinality(LiveStamps) <= Cardinality(B)
  BY <1>6, <1>7, FS_Subset
<1>9. Cardinality(LiveStamps) \in Nat
  BY <1>8, FS_CardinalityType
<1>10. LiveStamps \subseteq Nat \ {0}
  <2>1. observed \in Nat /\ outbox.stamp \in Nat /\ \A r \in Readers : reader[r].stamp \in Nat
    BY <1>1 DEF TypeOK, MaxStamp
  <2> QED
    BY <2>1 DEF LiveStamps
<1> QED
  BY <1>1, <1>6, <1>8, <1>9, <1>10

\* Renumbering keeps the order of the stamps, and needs no number above the bound.
LEMMA RankFacts ==
    ASSUME TypeOK
    PROVE  /\ \A t \in LiveStamps \cup {0} :
                 Rank(t) \in Stamps /\ Rank(t) <= Cardinality(LiveStamps)
           /\ \A t, u \in LiveStamps \cup {0} : t <= u => Rank(t) <= Rank(u)
           /\ 1 + Cardinality(LiveStamps) \in Stamps \ {0}
<1>1. /\ IsFiniteSet(LiveStamps) /\ Cardinality(LiveStamps) \in Nat
      /\ Cardinality(LiveStamps) <= Cardinality(Readers) + 2
      /\ LiveStamps \subseteq Nat \ {0} /\ Cardinality(Readers) \in Nat
  BY LiveStampsAreFew
<1>2. \A t : IsFiniteSet(Below(t)) /\ Cardinality(Below(t)) \in Nat
  <2> TAKE t
  <2>1. Below(t) \in SUBSET LiveStamps
    BY DEF Below
  <2> QED
    BY <1>1, <2>1, FS_Subset, FS_CardinalityType
<1>3. \A t : Rank(t) = IF t = 0 THEN 0 ELSE 1 + Cardinality(Below(t))
  BY DEF Rank, Below
<1>4. ASSUME NEW t \in LiveStamps
      PROVE  Cardinality(Below(t)) <= Cardinality(LiveStamps) - 1
  <2>1. Below(t) \in SUBSET (LiveStamps \ {t})
    BY <1>1 DEF Below
  <2>2. IsFiniteSet(LiveStamps \ {t}) /\ Cardinality(LiveStamps \ {t}) = Cardinality(LiveStamps) - 1
    BY <1>1, FS_RemoveElement
  <2> QED
    BY <2>1, <2>2, FS_Subset
<1>5. ASSUME NEW t \in LiveStamps, NEW u \in LiveStamps, t <= u
      PROVE  Cardinality(Below(t)) <= Cardinality(Below(u))
  <2>1. \A v \in LiveStamps : v < t => v < u
    BY <1>1, <1>5
  <2>2. Below(t) \in SUBSET Below(u)
    BY <2>1 DEF Below
  <2> QED
    BY <1>2, <2>2, FS_Subset
<1>6. ASSUME NEW t \in LiveStamps \cup {0}
      PROVE  Rank(t) \in Stamps /\ Rank(t) <= Cardinality(LiveStamps)
  BY <1>1, <1>2, <1>3, <1>4 DEF MaxStamp
<1>7. ASSUME NEW t \in LiveStamps \cup {0}, NEW u \in LiveStamps \cup {0}, t <= u
      PROVE  Rank(t) <= Rank(u)
  <2>1. CASE t = 0
    BY <1>1, <1>2, <1>3, <2>1
  <2>2. CASE t # 0
    <3>1. t \in LiveStamps /\ u \in LiveStamps
      BY <1>1, <1>7, <2>2
    <3> QED
      BY <1>1, <1>2, <1>3, <1>5, <1>7, <3>1
  <2> QED
    BY <2>1, <2>2
<1>8. 1 + Cardinality(LiveStamps) \in Stamps \ {0}
  BY <1>1 DEF MaxStamp
<1> QED
  BY <1>6, <1>7, <1>8

\* The places that hold a stamp hold a live one, or none.
LEMMA StampsAreLive ==
    ASSUME TypeOK
    PROVE  /\ observed \in LiveStamps \cup {0} /\ outbox.stamp \in LiveStamps \cup {0}
           /\ \A r \in Readers : reader[r].stamp \in LiveStamps \cup {0}
  BY DEF LiveStamps

-----------------------------------------------------------------------------
(* The invariant. *)

LEMMA InitIInv == Init => IInv /\ FreshInv
<1> SUFFICES ASSUME Init PROVE IInv /\ FreshInv
  OBVIOUS
<1>1. Cardinality(Readers) \in Nat
  BY ReadersAreFinite, FS_CardinalityType
<1>2. TypeOK
  <2>1. active \in 0..2
    BY DEF Init
  <2>2. queue \in UNION {[1..n -> Statuses] : n \in 0..MaxChanges}
    <3>1. queue \in [1..0 -> Statuses]
      BY DEF Init
    <3> QED
      BY <3>1
  <2>3. outbox \in [phase : {"idle", "asked", "answered"}, stamp : Stamps, answer : Answers]
    BY <1>1 DEF Init, Idle, MaxStamp
  <2>4. reader \in [Readers -> [phase : {"idle", "asked", "answered", "prepared"},
                                stamp : Stamps, answer : Answers, known : BOOLEAN]]
    BY <1>1 DEF Init, NoAnswer, MaxStamp
  <2>5. observed \in Stamps /\ now \in Stamps \ {0}
    BY <1>1 DEF Init, MaxStamp
  <2>6. changes \in 0..MaxChanges /\ edits \in 0..MaxEdits /\ faults \in 0..MaxFaults
    BY DEF Init
  <2>7. /\ local \in Answers /\ bs \in Answers /\ sound \in [Readers -> BOOLEAN]
        /\ marked \in BOOLEAN /\ backfill \in BOOLEAN /\ inbound \in BOOLEAN /\ up \in BOOLEAN
        /\ landed \in BOOLEAN
    BY DEF Init
  <2> QED
    BY <2>1, <2>2, <2>3, <2>4, <2>5, <2>6, <2>7, Zenon DEF TypeOK
<1>3. QueueInv /\ StampInv
  BY DEF Init, QueueInv, StampInv, Idle, NoAnswer
<1>4. LandedInv /\ CardShowsLastRequest /\ ReworkHasRevision /\ FreshInv
  BY DEF Init, LandedInv, Closing, Idle, CardShowsLastRequest, ReworkHasRevision, FreshInv, Stale,
         NoAnswer
<1> QED
  BY <1>2, <1>3, <1>4 DEF IInv

\* An open queue is typed because its rows are changes.
LEMMA QueueIsTyped ==
    ASSUME NEW q \in Seq(Statuses), NEW n \in 0..MaxChanges, Len(q) <= n
    PROVE  q \in UNION {[1..m -> Statuses] : m \in 0..MaxChanges}
<1>1. q \in [1..Len(q) -> Statuses] /\ Len(q) \in 0..MaxChanges
  OBVIOUS
<1> QED
  BY <1>1

ReaderState == [phase : {"idle", "asked", "answered", "prepared"},
                stamp : Stamps, answer : Answers, known : BOOLEAN]

\* A loop that goes on keeps the others typed.
LEMMA PutIsTyped ==
    ASSUME reader \in [Readers -> ReaderState], NEW r \in Readers, NEW a \in ReaderState, Put(r, a)
    PROVE  reader' \in [Readers -> ReaderState]
  BY DEF Put

LEMMA TypeStep == ASSUME IInv, Next PROVE TypeOK'
<1> USE DEF IInv
<1>1. TypeOK /\ QueueInv
  OBVIOUS
<1>2. now \in Stamps \ {0} /\ 0 \in Stamps
  <2>1. Cardinality(Readers) \in Nat
    BY ReadersAreFinite, FS_CardinalityType
  <2> QED
    BY <1>1, <2>1 DEF TypeOK, MaxStamp
<1>0. reader \in [Readers -> ReaderState] /\ NoAnswer \in ReaderState
  BY <1>1, <1>2 DEF TypeOK, ReaderState, NoAnswer
<1> USE DEF TypeOK
<1>3. CASE Tick
  <2>1. observed' \in Stamps /\ now' \in Stamps \ {0}
    BY <1>1, <1>3, RankFacts, StampsAreLive DEF Tick
  <2>2. outbox' \in [phase : {"idle", "asked", "answered"}, stamp : Stamps, answer : Answers]
    BY <1>1, <1>3, RankFacts, StampsAreLive DEF Tick
  <2>3. reader' \in [Readers -> [phase : {"idle", "asked", "answered", "prepared"},
                                 stamp : Stamps, answer : Answers, known : BOOLEAN]]
    <3>1. \A r \in Readers : Rank(reader[r].stamp) \in Stamps
      BY <1>1, RankFacts, StampsAreLive
    <3>2. \A r \in Readers : [reader[r] EXCEPT !.stamp = Rank(@)] \in ReaderState
      BY <1>0, <3>1 DEF ReaderState
    <3> QED
      BY <1>3, <3>2 DEF Tick, ReaderState
  <2> QED
    BY <1>1, <1>3, <2>1, <2>2, <2>3 DEF Tick, budget
<1>4. ASSUME NEW s \in Statuses, ChangeStatus(s) PROVE TypeOK'
  <2>1. active' \in 0..2
    BY <1>1, <1>4, TrackFacts DEF ChangeStatus
  <2>2. queue' \in UNION {[1..n -> Statuses] : n \in 0..MaxChanges}
    <3>1. queue' \in Seq(Statuses) /\ Len(queue') <= changes'
      BY <1>1, <1>4, AppendFacts, SMTT(30) DEF ChangeStatus, QueueInv
    <3>2. changes' \in 0..MaxChanges
      BY <1>1, <1>4 DEF ChangeStatus
    <3> QED
      BY <3>1, <3>2, QueueIsTyped
  <2>3. marked' \in BOOLEAN /\ sound' \in [Readers -> BOOLEAN]
    BY <1>1, <1>4 DEF ChangeStatus, NeedsMark
  <2>4. changes' \in 0..MaxChanges /\ local' \in Answers /\ observed' \in Stamps
        /\ landed' \in BOOLEAN
    <3>1. changes < MaxChanges /\ changes' = changes + 1 /\ local' = s /\ observed' = now
          /\ landed' = FALSE
      BY <1>4 DEF ChangeStatus
    <3>2. changes' \in 0..MaxChanges
      BY <1>1, <3>1
    <3> QED
      BY <1>2, <3>1, <3>2
  <2>5. UNCHANGED <<outbox, reader, backfill, inbound, up, bs, now, edits, faults>>
    BY <1>4 DEF ChangeStatus
  <2> QED
    BY <1>1, <2>1, <2>2, <2>3, <2>4, <2>5, Zenon
<1>5. CASE WriteLands
  BY <1>1, <1>5, TailFacts DEF WriteLands, card, budget, QueueInv
<1>6. CASE Verify
  BY <1>1, <1>2, <1>6 DEF Verify, card, budget, Idle
<1>7. CASE VerifyAnswered
  BY <1>1, <1>7 DEF VerifyAnswered, card, budget
<1> DEFINE QueueTyped == queue' \in UNION {[1..n -> Statuses] : n \in 0..MaxChanges}
<1>8. ASSUME queue' = Tail(queue), queue # <<>>, changes' = changes PROVE QueueTyped
  <2>1. queue' \in Seq(Statuses) /\ Len(queue') = Len(queue) - 1 /\ Len(queue) \in Nat
    BY <1>1, <1>8, TailFacts DEF QueueInv
  <2>2. changes \in 0..MaxChanges /\ Len(queue) <= changes
    BY <1>1 DEF QueueInv
  <2>3. Len(queue') <= changes
    BY <2>1, <2>2
  <2> QED
    BY <2>1, <2>2, <2>3, QueueIsTyped
<1>9. CASE CompleteChange
  <2>1. active' \in 0..2
    BY <1>1, <1>9, TrackFacts DEF CompleteChange
  <2>2. queue # <<>>
    BY <1>1, <1>9 DEF CompleteChange, QueueInv
  <2>3. QueueTyped
    BY <1>8, <1>9, <2>2 DEF CompleteChange, budget
  <2>4. local' \in Answers /\ observed' \in Stamps
    BY <1>1, <1>9 DEF CompleteChange
  <2> QED
    BY <1>1, <1>2, <1>9, <2>1, <2>3, <2>4 DEF CompleteChange, Idle, budget
<1>10. ASSUME NEW drop \in BOOLEAN, AttemptFails(drop) PROVE TypeOK'
  <2>1. queue # <<>>
    BY <1>1, <1>10 DEF AttemptFails, QueueInv
  <2>2. QueueTyped
    BY <1>1, <1>8, <1>10, <2>1 DEF AttemptFails, budget
  <2>3. landed' \in BOOLEAN /\ sound' \in [Readers -> BOOLEAN]
    BY <1>1, <1>10 DEF AttemptFails
  <2> QED
    BY <1>1, <1>2, <1>10, <2>2, <2>3 DEF AttemptFails, Idle, card, budget
<1> HIDE DEF QueueTyped
<1>11. ASSUME NEW r \in Readers, Ask(r) \/ Answered(r) \/ Prepare(r) \/ Drop(r) \/ ImportFails(r)
       PROVE  TypeOK'
  <2>1. reader[r] \in ReaderState
    BY <1>0
  <2>2. \E a \in ReaderState : Put(r, a)
    <3>1. CASE Ask(r)
      <4>1. [NoAnswer EXCEPT !.phase = "asked", !.stamp = now] \in ReaderState
        BY <1>2 DEF NoAnswer, ReaderState
      <4> QED
        BY <3>1, <4>1 DEF Ask
    <3>2. CASE Answered(r)
      <4>1. [reader[r] EXCEPT !.phase = "answered", !.answer = bs] \in ReaderState
        BY <1>1, <2>1 DEF ReaderState
      <4> QED
        BY <3>2, <4>1 DEF Answered
    <3>3. CASE Prepare(r)
      <4>1. [reader[r] EXCEPT !.phase = "prepared", !.known = local # None] \in ReaderState
        BY <1>1, <2>1 DEF ReaderState
      <4> QED
        BY <3>3, <4>1 DEF Prepare
    <3>4. CASE Drop(r) \/ ImportFails(r)
      BY <1>0, <3>4 DEF Drop, ImportFails
    <3> QED
      BY <1>11, <3>1, <3>2, <3>3, <3>4
  <2>3. reader' \in [Readers -> ReaderState]
    BY <1>0, <2>2, PutIsTyped
  <2>4. /\ sound' \in [Readers -> BOOLEAN]
        /\ faults' \in 0..MaxFaults
    BY <1>1, <1>11, SMTT(30) DEF Ask, Answered, Prepare, Drop, ImportFails, budget
  <2>5. UNCHANGED <<card, queue, outbox, backfill, inbound, up, bs, now, changes, edits, landed>>
    BY <1>11 DEF Ask, Answered, Prepare, Drop, ImportFails, budget
  <2> QED
    BY <1>1, <2>3, <2>4, <2>5 DEF ReaderState, card
<1>12. ASSUME NEW r \in Readers, Update(r) \/ Create(r) PROVE TypeOK'
  <2>1. active' \in 0..2
    <3>1. active' = active \/ \E previous, status : Track(previous, status)
      BY <1>12 DEF Update, Create, Take, card
    <3> QED
      BY <1>1, <3>1, TrackFacts
  <2>2. reader' \in [Readers -> ReaderState]
    BY <1>0, <1>12, PutIsTyped DEF Update, Create
  <2>3. local' \in Answers /\ observed' \in Stamps /\ marked' \in BOOLEAN
    BY <1>1, <1>12 DEF Update, Create, Take, card, NeedsMark
  <2> QED
    BY <1>1, <1>12, <2>1, <2>2, <2>3, ZenonT(40) DEF Update, Create, budget, ReaderState
<1>13. CASE BackfillFinds \/ BackfillMarks
  BY <1>1, <1>13, ZenonT(40) DEF BackfillFinds, BackfillMarks, card, budget
<1>14. CASE Reconcile
  <2>1. active' \in 0..2
    <3>1. active' = active \/ \E previous, status : Track(previous, status)
      BY <1>14 DEF Reconcile
    <3> QED
      BY <1>1, <3>1, TrackFacts
  <2> QED
    BY <1>1, <1>14, <2>1 DEF Reconcile, budget
<1>15. CASE Restart
  <2>1. faults < MaxFaults /\ faults' = faults + 1 /\ up' = FALSE /\ backfill' = FALSE
        /\ outbox' = Idle /\ reader' = [r \in Readers |-> NoAnswer]
    BY <1>15 DEF Restart
  <2>2. faults' \in 0..MaxFaults
    BY <1>1, <2>1
  <2>3. reader' \in [Readers -> ReaderState]
    BY <1>0, <2>1
  <2>4. outbox' \in [phase : {"idle", "asked", "answered"}, stamp : Stamps, answer : Answers]
    BY <1>2, <2>1 DEF Idle
  <2> QED
    BY <1>1, <1>15, <2>1, <2>2, <2>3, <2>4 DEF Restart, card, ReaderState
<1>16. CASE SetEnabled
  BY <1>1, <1>16 DEF SetEnabled, card
<1>17. ASSUME NEW s \in Answers, BluesalesEdit(s) PROVE TypeOK'
  BY <1>1, <1>17 DEF BluesalesEdit, card
<1> QED
  BY <1>3, <1>4, <1>5, <1>6, <1>7, <1>9, <1>10, <1>11, <1>12, <1>13, <1>14, <1>15, <1>16, <1>17
     DEF Next, OutboxStep, ReaderStep

\* The facts about types that the other parts need.
LEMMA TypeFacts ==
    ASSUME TypeOK
    PROVE  /\ MaxStamp \in Nat /\ now \in 1..MaxStamp /\ observed \in Stamps
           /\ outbox.stamp \in Stamps /\ outbox.answer \in Answers
           /\ outbox = [phase |-> outbox.phase, stamp |-> outbox.stamp, answer |-> outbox.answer]
           /\ outbox.phase \in {"idle", "asked", "answered"}
           /\ reader \in [Readers -> ReaderState]
           /\ \A r \in Readers : reader[r].stamp \in Stamps /\ reader[r].answer \in Answers
           /\ changes \in 0..MaxChanges /\ local \in Answers /\ active \in 0..2
<1>1. Cardinality(Readers) \in Nat
  BY ReadersAreFinite, FS_CardinalityType
<1>2. reader \in [Readers -> ReaderState]
  BY DEF TypeOK, ReaderState
<1>3. \A r \in Readers : reader[r].stamp \in Stamps /\ reader[r].answer \in Answers
  BY <1>2 DEF ReaderState
<1> QED
  BY <1>1, <1>2, <1>3 DEF TypeOK, MaxStamp

\* What an import loop may put: the others stay.
LEMMA PutFacts ==
    ASSUME reader \in [Readers -> ReaderState], NEW r \in Readers, NEW a, Put(r, a)
    PROVE  reader'[r] = a /\ \A q \in Readers \ {r} : reader'[q] = reader[q]
  BY DEF Put

LEMMA QueueStep == ASSUME IInv, Next PROVE QueueInv' /\ CardShowsLastRequest'
<1> DEFINE Prepared == \A r \in Readers : reader'[r].phase = "prepared" => reader'[r].answer # None
           Card == /\ queue' \in Seq(Statuses) /\ Len(queue') <= changes'
                   /\ local' = None => queue' = <<>>
                   /\ queue' # <<>> => local' = Last(queue')
           Open == outbox'.phase # "idle" => queue' # <<>>
           Goal == QueueInv' /\ CardShowsLastRequest'
<1>1. TypeOK /\ QueueInv /\ CardShowsLastRequest
  BY DEF IInv
<1>2. /\ reader \in [Readers -> ReaderState] /\ local \in Answers /\ changes \in Nat
      /\ queue \in Seq(Statuses) /\ Len(queue) <= changes
  BY <1>1, TypeFacts DEF QueueInv
<1>3. ASSUME queue' = queue, local' = local, changes' = changes PROVE Card
  BY <1>1, <1>3 DEF QueueInv, CardShowsLastRequest
<1>4. ASSUME reader' = reader PROVE Prepared
  BY <1>1, <1>4 DEF QueueInv
<1>5. ASSUME Prepared, Card, Open PROVE Goal
  BY <1>5 DEF QueueInv, CardShowsLastRequest
<1>6. ASSUME outbox' = outbox, queue' = queue PROVE Open
  BY <1>1, <1>6 DEF QueueInv
<1>7. ASSUME NEW r \in Readers, NEW a, Put(r, a), a.phase = "prepared" => a.answer # None
      PROVE  Prepared
  BY <1>1, <1>2, <1>7, PutFacts DEF QueueInv
<1> SUFFICES Goal
  OBVIOUS
<1> HIDE DEF Prepared, Card, Open, Goal
<1>8. CASE Tick
  <2>1. Prepared
    <3>1. \A r \in Readers : reader'[r].phase = reader[r].phase /\ reader'[r].answer = reader[r].answer
      BY <1>2, <1>8 DEF Tick, ReaderState
    <3> QED
      BY <1>1, <3>1 DEF Prepared, QueueInv
  <2>2. outbox'.phase = outbox.phase
    BY <1>1, <1>8, TypeFacts DEF Tick
  <2>3. queue' = queue /\ local' = local /\ changes' = changes
    BY <1>8 DEF Tick, budget
  <2>4. Open
    BY <1>1, <2>2, <2>3 DEF QueueInv, Open
  <2> QED
    BY <1>3, <1>5, <2>1, <2>3, <2>4
<1>9. ASSUME NEW s \in Statuses, ChangeStatus(s) PROVE Goal
  <2>1. queue' = Append(queue, s) /\ local' = s /\ changes' = changes + 1
    BY <1>9 DEF ChangeStatus
  <2>2. queue' \in Seq(Statuses) /\ Len(queue') <= changes' /\ queue' # <<>> /\ local' = Last(queue')
    BY <1>2, <2>1, AppendFacts
  <2>3. Card
    BY <2>1, <2>2 DEF Card
  <2>4. reader' = reader /\ Open
    BY <1>9, <2>2 DEF ChangeStatus, Open
  <2> QED
    BY <1>4, <1>5, <2>3, <2>4
<1>10. CASE WriteLands \/ BackfillFinds \/ BackfillMarks \/ Reconcile \/ SetEnabled
            \/ \E s \in Answers : BluesalesEdit(s)
  <2>1. queue' = queue /\ local' = local /\ changes' = changes /\ reader' = reader /\ outbox' = outbox
    BY <1>10 DEF WriteLands, BackfillFinds, BackfillMarks, Reconcile, SetEnabled, BluesalesEdit,
                 card, budget
  <2> QED
    BY <1>3, <1>4, <1>5, <1>6, <2>1
<1>11. CASE Verify \/ VerifyAnswered
  <2>1. queue' = queue /\ local' = local /\ changes' = changes /\ reader' = reader
    BY <1>11 DEF Verify, VerifyAnswered, card, budget
  <2>2. Open
    BY <1>1, <1>11 DEF Verify, VerifyAnswered, QueueInv, Open
  <2> QED
    BY <1>3, <1>4, <1>5, <2>1, <2>2
<1>12. ASSUME queue # <<>>, queue' = Tail(queue), changes' = changes,
              Len(queue) # 1 => local' = local, local' # None
       PROVE  Card
  BY <1>1, <1>2, <1>12, TailFacts DEF Card, CardShowsLastRequest
<1>13. CASE CompleteChange
  <2>1. queue # <<>> /\ outbox.answer \in Statuses
    BY <1>1, <1>2, <1>13, TailFacts DEF CompleteChange, QueueInv
  <2>2. Len(queue) # 1 => local' = local
    BY <1>13 DEF CompleteChange
  <2>3. local' # None
    BY <1>1, <1>13, <2>1 DEF CompleteChange, QueueInv
  <2>4. Card
    BY <1>12, <1>13, <2>1, <2>2, <2>3 DEF CompleteChange, budget
  <2>5. reader' = reader /\ Open
    BY <1>13 DEF CompleteChange, Idle, Open
  <2> QED
    BY <1>4, <1>5, <2>4, <2>5
<1>14. ASSUME NEW drop \in BOOLEAN, AttemptFails(drop) PROVE Goal
  <2>1. queue # <<>> /\ local # None
    BY <1>1, <1>14 DEF AttemptFails, QueueInv
  <2>2. Card
    BY <1>3, <1>12, <1>14, <2>1 DEF AttemptFails, card, budget
  <2>3. reader' = reader /\ Open
    BY <1>14 DEF AttemptFails, Idle, Open
  <2> QED
    BY <1>4, <1>5, <2>2, <2>3
<1>15. ASSUME NEW r \in Readers, Ask(r) \/ Answered(r) \/ Prepare(r) \/ Drop(r) \/ ImportFails(r)
       PROVE  Goal
  <2>1. queue' = queue /\ local' = local /\ changes' = changes /\ outbox' = outbox
    BY <1>15 DEF Ask, Answered, Prepare, Drop, ImportFails, card, budget
  <2>2. Prepared
    <3>1. CASE Ask(r)
      BY <1>7, <3>1 DEF Ask, NoAnswer
    <3>2. CASE Answered(r)
      <4>1. [reader[r] EXCEPT !.phase = "answered", !.answer = bs].phase = "answered"
        BY <1>2 DEF ReaderState
      <4> QED
        BY <1>7, <3>2, <4>1 DEF Answered
    <3>3. CASE Prepare(r)
      <4>1. [reader[r] EXCEPT !.phase = "prepared", !.known = local # None].answer # None
        BY <1>2, <3>3 DEF ReaderState, Prepare
      <4> QED
        BY <1>7, <3>3, <4>1 DEF Prepare
    <3>4. CASE Drop(r) \/ ImportFails(r)
      BY <1>7, <3>4 DEF Drop, ImportFails, NoAnswer
    <3> QED
      BY <1>15, <3>1, <3>2, <3>3, <3>4
  <2> QED
    BY <1>3, <1>5, <1>6, <2>1, <2>2
<1>16. ASSUME NEW r \in Readers, Update(r) \/ Create(r) PROVE Goal
  <2>1. Prepared
    BY <1>7, <1>16 DEF Update, Create, NoAnswer
  <2>2. queue' = queue /\ changes' = changes /\ outbox' = outbox
    BY <1>16 DEF Update, Create, budget
  <2>3. Card
    <3>1. CASE local' = local
      BY <1>3, <2>2, <3>1
    <3>2. CASE local' # local
      <4>1. queue = <<>>
        BY <1>1, <1>16, <3>2 DEF Update, Create, CanApply, Take, card, QueueInv
      <4> QED
        BY <1>2, <2>2, <4>1 DEF Card
    <3> QED
      BY <3>1, <3>2
  <2> QED
    BY <1>5, <1>6, <2>1, <2>2, <2>3
<1>17. CASE Restart
  <2>1. Prepared
    BY <1>17 DEF Prepared, Restart, NoAnswer
  <2>2. queue' = queue /\ local' = local /\ changes' = changes /\ Open
    BY <1>17 DEF Restart, card, Idle, Open
  <2> QED
    BY <1>3, <1>5, <2>1, <2>2
<1> QED
  BY <1>8, <1>9, <1>10, <1>11, <1>13, <1>14, <1>15, <1>16, <1>17 DEF Next, OutboxStep, ReaderStep

\* Stamps are taken from the clock, and renumbering keeps their order.
LEMMA StampStep == ASSUME IInv, Next PROVE StampInv'
<1> DEFINE Early(t) == t <= now'
<1>1. TypeOK /\ StampInv
  BY DEF IInv
<1>2. /\ reader \in [Readers -> ReaderState] /\ now \in Nat /\ 0 <= now /\ now <= now
      /\ observed <= now /\ outbox.stamp <= now /\ \A r \in Readers : reader[r].stamp <= now
  BY <1>1, TypeFacts DEF StampInv
<1>3. CASE Tick
  <2>1. /\ \A t \in LiveStamps \cup {0} : Rank(t) <= Cardinality(LiveStamps)
        /\ \A t \in LiveStamps \cup {0} : Rank(t) \in Nat
        /\ Cardinality(LiveStamps) \in Nat
    BY <1>1, RankFacts, LiveStampsAreFew
  <2>2. now' = 1 + Cardinality(LiveStamps)
    BY <1>3 DEF Tick
  <2>3. \A t \in LiveStamps \cup {0} : Rank(t) <= now'
    BY <2>1, <2>2
  <2>4. observed' = Rank(observed) /\ outbox'.stamp = Rank(outbox.stamp)
    BY <1>1, <1>3, TypeFacts DEF Tick
  <2>5. \A r \in Readers : reader'[r].stamp = Rank(reader[r].stamp)
    BY <1>2, <1>3 DEF Tick, ReaderState
  <2>6. local' = None => observed' = 0
    <3>1. local' = local /\ Rank(0) = 0
      BY <1>3 DEF Tick, Rank
    <3> QED
      BY <1>1, <2>4, <3>1 DEF StampInv
  <2> QED
    BY <1>1, <2>3, <2>4, <2>5, <2>6, StampsAreLive DEF StampInv
<1>4. ASSUME ~Tick PROVE now' = now
  BY <1>4 DEF Next, ChangeStatus, WriteLands, OutboxStep, Verify, VerifyAnswered, CompleteChange,
              AttemptFails, ReaderStep, Ask, Answered, Prepare, Drop, Update, Create, ImportFails,
              BackfillFinds, BackfillMarks, Reconcile, Restart, SetEnabled, BluesalesEdit
<1>5. ASSUME ~Tick PROVE outbox'.stamp <= now
  <2>1. outbox' = outbox \/ Verify \/ VerifyAnswered \/ outbox' = Idle
    BY <1>5 DEF Next, ChangeStatus, WriteLands, OutboxStep, CompleteChange, AttemptFails,
                ReaderStep, Ask, Answered, Prepare, Drop, Update, Create, ImportFails,
                BackfillFinds, BackfillMarks, Reconcile, Restart, SetEnabled, BluesalesEdit
  <2>2. CASE Verify
    BY <1>2, <2>2 DEF Verify, Idle
  <2>3. CASE VerifyAnswered
    <3>1. outbox'.stamp = outbox.stamp
      BY <1>1, <2>3, TypeFacts DEF VerifyAnswered
    <3> QED
      BY <1>2, <3>1
  <2> QED
    BY <1>2, <2>1, <2>2, <2>3 DEF Idle
<1>6. ASSUME ~Tick PROVE \A r \in Readers : reader'[r].stamp <= now
  <2>1. \/ reader' = reader
        \/ \E r \in Readers : Ask(r) \/ Answered(r) \/ Prepare(r)
        \/ \E r \in Readers : Put(r, NoAnswer)
        \/ Restart
    BY <1>6 DEF Next, ChangeStatus, WriteLands, OutboxStep, Verify, VerifyAnswered, CompleteChange,
                AttemptFails, ReaderStep, Drop, Update, Create, ImportFails,
                BackfillFinds, BackfillMarks, Reconcile, SetEnabled, BluesalesEdit
  <2>2. ASSUME NEW r \in Readers, NEW a, Put(r, a), a.stamp <= now
        PROVE  \A q \in Readers : reader'[q].stamp <= now
    BY <1>2, <2>2, PutFacts
  <2>3. ASSUME NEW r \in Readers, Ask(r) \/ Answered(r) \/ Prepare(r)
        PROVE  \A q \in Readers : reader'[q].stamp <= now
    <3>1. CASE Ask(r)
      <4>1. [NoAnswer EXCEPT !.phase = "asked", !.stamp = now].stamp <= now
        BY <1>2 DEF NoAnswer
      <4> QED
        BY <2>2, <3>1, <4>1 DEF Ask
    <3>2. CASE Answered(r)
      <4>1. [reader[r] EXCEPT !.phase = "answered", !.answer = bs].stamp <= now
        BY <1>2 DEF ReaderState
      <4> QED
        BY <2>2, <3>2, <4>1 DEF Answered
    <3>3. CASE Prepare(r)
      <4>1. [reader[r] EXCEPT !.phase = "prepared", !.known = local # None].stamp <= now
        BY <1>2 DEF ReaderState
      <4> QED
        BY <2>2, <3>3, <4>1 DEF Prepare
    <3> QED
      BY <2>3, <3>1, <3>2, <3>3
  <2>4. NoAnswer.stamp <= now
    BY <1>2 DEF NoAnswer
  <2>5. CASE Restart
    BY <2>4, <2>5 DEF Restart
  <2>6. CASE reader' = reader
    BY <1>2, <2>6
  <2> QED
    BY <2>1, <2>2, <2>3, <2>4, <2>5, <2>6
<1>7. ASSUME ~Tick PROVE observed' <= now
  <2>1. \/ observed' = observed \/ observed' = now \/ observed' = outbox.stamp
        \/ \E r \in Readers : observed' = reader[r].stamp
    BY <1>7 DEF Next, ChangeStatus, WriteLands, OutboxStep, Verify, VerifyAnswered, CompleteChange,
                AttemptFails, ReaderStep, Ask, Answered, Prepare, Drop, Update, Create, Take,
                ImportFails, BackfillFinds, BackfillMarks, Reconcile, Restart, SetEnabled,
                BluesalesEdit, card
  <2> QED
    BY <1>2, <2>1
<1>8. ASSUME ~Tick PROVE local' = None => observed' = 0
  <2>1. QueueInv
    BY DEF IInv
  <2>2. \/ local' = local /\ observed' = observed
        \/ \E s \in Statuses : local' = s
        \/ CompleteChange
        \/ \E r \in Readers : local' = reader[r].answer /\ reader[r].phase = "prepared"
    BY <1>8 DEF Next, ChangeStatus, WriteLands, OutboxStep, Verify, VerifyAnswered,
                AttemptFails, ReaderStep, Ask, Answered, Prepare, Drop, Update, Create, Take,
                ImportFails, BackfillFinds, BackfillMarks, Reconcile, Restart, SetEnabled,
                BluesalesEdit, card
  <2>3. CASE CompleteChange
    <3>1. queue # <<>> /\ queue \in Seq(Statuses)
      BY <2>1, <2>3 DEF CompleteChange, QueueInv
    <3>2. Head(queue) # None /\ local # None
      BY <2>1, <3>1, TailFacts DEF QueueInv
    <3> QED
      BY <2>3, <3>2 DEF CompleteChange
  <2> QED
    BY <1>1, <2>1, <2>2, <2>3 DEF StampInv, QueueInv
<1> QED
  BY <1>3, <1>4, <1>5, <1>6, <1>7, <1>8 DEF StampInv

\* A change counts as landed before the row that carries it can close.
LEMMA LandedStep == ASSUME IInv, Next PROVE LandedInv'
<1>1. TypeOK /\ QueueInv /\ LandedInv
  BY DEF IInv
<1>2. queue \in Seq(Statuses) /\ outbox.phase \in {"idle", "asked", "answered"}
  BY <1>1, TypeFacts DEF QueueInv
<1>3. ASSUME queue' = queue, landed' = landed, outbox'.phase = outbox.phase,
             outbox'.answer = outbox.answer
      PROVE  LandedInv'
  BY <1>1, <1>3 DEF LandedInv, Closing
<1>4. ASSUME outbox'.phase # "answered", ~landed' => queue' # <<>> PROVE LandedInv'
  BY <1>4 DEF LandedInv, Closing
<1>5. CASE Tick
  <2>1. outbox'.phase = outbox.phase /\ outbox'.answer = outbox.answer
    BY <1>1, <1>5, TypeFacts DEF Tick
  <2> QED
    BY <1>3, <1>5, <2>1 DEF Tick
<1>6. ASSUME NEW s \in Statuses, ChangeStatus(s) PROVE LandedInv'
  <2>1. queue' = Append(queue, s) /\ outbox' = outbox
    BY <1>6 DEF ChangeStatus
  <2>2. queue' # <<>> /\ Len(queue') = Len(queue) + 1 /\ (queue # <<>> => Len(queue) # 0)
        /\ Len(queue) \in Nat
    BY <1>2, <2>1, AppendFacts
  <2>3. outbox.phase = "answered" => Len(queue') # 1
    BY <1>1, <2>2 DEF QueueInv
  <2> QED
    BY <2>1, <2>2, <2>3 DEF LandedInv, Closing
<1>7. CASE WriteLands
  <2>1. queue' = queue /\ outbox' = outbox /\ landed' = (landed \/ Len(queue) = 1) /\ queue # <<>>
    BY <1>7 DEF WriteLands
  <2> QED
    BY <1>1, <2>1 DEF LandedInv, Closing
<1>8. CASE Verify
  <2>1. outbox'.phase = "asked" /\ queue' = queue /\ landed' = landed
    BY <1>8 DEF Verify, Idle
  <2> QED
    BY <1>1, <1>4, <2>1 DEF LandedInv
<1>9. CASE VerifyAnswered
  <2>1. outbox'.phase = "answered" /\ outbox'.answer = bs
    BY <1>1, <1>9, TypeFacts DEF VerifyAnswered
  <2>2. queue' = queue /\ landed' = (landed \/ (bs = Head(queue) /\ Len(queue) = 1))
    BY <1>9 DEF VerifyAnswered
  <2> QED
    BY <1>1, <2>1, <2>2 DEF LandedInv, Closing
<1>10. CASE CompleteChange
  <2>1. queue # <<>> /\ queue' = Tail(queue) /\ landed' = landed /\ outbox'.phase = "idle"
    BY <1>1, <1>10 DEF CompleteChange, Idle, QueueInv
  <2>2. Len(queue) = 1 => landed
    BY <1>1, <1>10 DEF CompleteChange, LandedInv, Closing
  <2>3. Len(queue) # 1 => queue' # <<>>
    BY <1>2, <2>1, TailFacts
  <2> QED
    BY <1>4, <2>1, <2>2, <2>3
<1>11. ASSUME NEW drop \in BOOLEAN, AttemptFails(drop) PROVE LandedInv'
  <2>1. queue # <<>> /\ queue' = (IF drop THEN Tail(queue) ELSE queue) /\ outbox'.phase = "idle"
    BY <1>1, <1>11 DEF AttemptFails, Idle, QueueInv
  <2>2. CASE drop /\ Len(queue) = 1
    BY <1>4, <1>11, <2>1, <2>2 DEF AttemptFails
  <2>3. CASE ~drop
    BY <1>1, <1>4, <1>11, <2>1, <2>3 DEF AttemptFails, LandedInv
  <2>4. CASE drop /\ Len(queue) # 1
    BY <1>2, <1>4, <2>1, <2>4, TailFacts
  <2> QED
    BY <2>2, <2>3, <2>4
<1>12. CASE Restart
  BY <1>1, <1>4, <1>12 DEF Restart, Idle, LandedInv
<1>13. CASE \/ \E r \in Readers : ReaderStep(r) \/ ImportFails(r)
            \/ BackfillFinds \/ BackfillMarks \/ Reconcile \/ SetEnabled
            \/ \E s \in Answers : BluesalesEdit(s)
  <2>1. queue' = queue /\ landed' = landed /\ outbox' = outbox
    BY <1>13 DEF ReaderStep, Ask, Answered, Prepare, Drop, Update, Create, ImportFails,
                 BackfillFinds, BackfillMarks, Reconcile, SetEnabled, BluesalesEdit
  <2> QED
    BY <1>3, <2>1
<1> QED
  BY <1>5, <1>6, <1>7, <1>8, <1>9, <1>10, <1>11, <1>12, <1>13 DEF Next, OutboxStep

\* Every way the status or the cycles change. A read that closes the last row of the
\* outbox shows the status the card has.
LEMMA StatusMoves ==
    ASSUME IInv, Next
    PROVE  \/ local' = local /\ active' = active /\ (up' => up)
           \/ /\ Track(local, local') /\ up' = up
              /\ local' # local => marked' = (marked \/ NeedsMark(local'))
           \/ /\ local' = local /\ up'
              /\ IF local = RevisionStart /\ active = 0 THEN Track(None, local)
                 ELSE active' = active
<1>1. QueueInv /\ CardShowsLastRequest
  BY DEF IInv
<1> DEFINE Kept == local' = local /\ active' = active /\ (up' => up)
           Moved == /\ Track(local, local') /\ up' = up
                    /\ local' # local => marked' = (marked \/ NeedsMark(local'))
           Mended == /\ local' = local /\ up'
                     /\ IF local = RevisionStart /\ active = 0 THEN Track(None, local)
                        ELSE active' = active
<1> SUFFICES Kept \/ Moved \/ Mended
  OBVIOUS
<1>2. ASSUME NEW s \in Statuses, ChangeStatus(s) PROVE Moved
  BY <1>2 DEF ChangeStatus
<1>3. CASE CompleteChange
  <2>1. queue # <<>> /\ outbox.answer = Head(queue) /\ up' = up
    BY <1>1, <1>3 DEF CompleteChange, QueueInv
  <2>2. Len(queue) = 1 => outbox.answer = local
    BY <1>1, <2>1, TailFacts DEF QueueInv, CardShowsLastRequest
  <2>3. CASE Len(queue) = 1 /\ inbound /\ observed < outbox.stamp
    <3>1. local' = local /\ Track(local, local')
      BY <1>3, <2>2, <2>3 DEF CompleteChange
    <3> QED
      BY <2>1, <3>1
  <2>4. CASE ~(Len(queue) = 1 /\ inbound /\ observed < outbox.stamp)
    BY <1>3, <2>1, <2>4 DEF CompleteChange
  <2> QED
    BY <2>3, <2>4
<1>4. ASSUME NEW r \in Readers, Update(r) PROVE Kept \/ Moved
  <2>1. up' = up
    BY <1>4 DEF Update
  <2>2. CASE CanApply(r)
    BY <1>4, <2>1, <2>2 DEF Update, Take
  <2>3. CASE ~CanApply(r)
    BY <1>4, <2>1, <2>3 DEF Update, card
  <2> QED
    BY <2>2, <2>3
<1>5. ASSUME NEW r \in Readers, Create(r) PROVE Kept \/ Moved
  <2>1. up' = up
    BY <1>5 DEF Create
  <2>2. CASE local = None
    BY <1>5, <2>1, <2>2 DEF Create, Take
  <2>3. CASE local # None
    BY <1>5, <2>1, <2>3 DEF Create, card
  <2> QED
    BY <2>2, <2>3
<1>6. CASE Reconcile
  BY <1>6 DEF Reconcile
<1>7. CASE \/ Tick \/ WriteLands \/ Verify \/ VerifyAnswered
           \/ \E drop \in BOOLEAN : AttemptFails(drop)
           \/ \E r \in Readers : Ask(r) \/ Answered(r) \/ Prepare(r) \/ Drop(r) \/ ImportFails(r)
           \/ BackfillFinds \/ BackfillMarks \/ Restart \/ SetEnabled
           \/ \E s \in Answers : BluesalesEdit(s)
  BY <1>7 DEF Tick, WriteLands, Verify, VerifyAnswered, AttemptFails, Ask, Answered, Prepare, Drop,
              ImportFails, BackfillFinds, BackfillMarks, Restart, SetEnabled, BluesalesEdit, card
<1> HIDE DEF Kept, Moved, Mended
<1> QED
  BY <1>2, <1>3, <1>4, <1>5, <1>6, <1>7 DEF Next, OutboxStep, ReaderStep, Mended

LEMMA ReworkStep == ASSUME IInv, Next PROVE ReworkHasRevision'
<1>1. active \in 0..2 /\ ReworkHasRevision
  BY TypeFacts DEF IInv
<1>2. CASE local' = local /\ active' = active /\ (up' => up)
  BY <1>1, <1>2 DEF ReworkHasRevision
<1>3. CASE Track(local, local') /\ up' = up
  BY <1>1, <1>3, TrackFacts DEF ReworkHasRevision
<1>4. CASE local' = local /\ (IF local = RevisionStart /\ active = 0 THEN Track(None, local)
                              ELSE active' = active)
  <2>1. None # RevisionStart
    OBVIOUS
  <2> QED
    BY <1>1, <1>4, <2>1, TrackFacts DEF ReworkHasRevision
<1> QED
  BY <1>2, <1>3, <1>4, StatusMoves

LEMMA TurnsStep ==
    ASSUME IInv, Next
    PROVE  /\ active' > active => active = 0
           /\ local # RevisionReady /\ local' = RevisionReady => active' = 0
<1>1. active \in 0..2
  BY TypeFacts DEF IInv
<1>2. CASE local' = local /\ active' = active
  BY <1>1, <1>2
<1>3. CASE Track(local, local')
  BY <1>1, <1>3, TrackFacts
<1>4. CASE local' = local /\ (IF local = RevisionStart /\ active = 0 THEN Track(None, local)
                              ELSE active' = active)
  BY <1>1, <1>4
<1> QED
  BY <1>2, <1>3, <1>4, StatusMoves

-----------------------------------------------------------------------------
(* An import is fresh. *)

LEMMA FreshStep ==
    ASSUME IInv, FreshInv, Next, ~inbound /\ inbound' => \A r \in Readers : reader[r].phase = "idle"
    PROVE  FreshInv'
<1>1. TypeOK /\ QueueInv /\ StampInv /\ LandedInv
  BY DEF IInv
<1>2. /\ reader \in [Readers -> ReaderState] /\ queue \in Seq(Statuses) /\ now \in Nat
      /\ observed \in Nat /\ outbox.stamp \in Nat /\ \A r \in Readers : reader[r].stamp \in Nat
  BY <1>1, TypeFacts DEF QueueInv
<1>3. sound \in [Readers -> BOOLEAN]
  BY <1>1 DEF TypeOK
<1> DEFINE Kept(r) == Stale(r)' => Stale(r) /\ inbound
           Goal(r) == Stale(r)' => Beaten(r)'
<1>4. SUFFICES ASSUME inbound', NEW r \in Readers PROVE Goal(r)
  BY DEF FreshInv
<1>5. ASSUME Kept(r), queue' = queue, outbox' = outbox, reader'[r].stamp = reader[r].stamp
      PROVE  Goal(r)
  BY <1>5 DEF FreshInv, Beaten, Closing
<1>6. ASSUME reader'[r].phase = "idle" PROVE Goal(r)
  BY <1>6 DEF Stale
<1>7. ASSUME Stale(r), inbound PROVE Beaten(r)
  BY <1>7 DEF FreshInv
<1> HIDE DEF Kept, Goal
<1>8. CASE Tick
  <2>1. reader'[r].phase = reader[r].phase /\ reader'[r].stamp = Rank(reader[r].stamp)
    BY <1>2, <1>8 DEF Tick, ReaderState
  <2>2. observed' = Rank(observed) /\ outbox'.stamp = Rank(outbox.stamp)
        /\ outbox'.phase = outbox.phase /\ outbox'.answer = outbox.answer
    BY <1>1, <1>8, TypeFacts DEF Tick
  <2>3. queue' = queue /\ sound' = sound /\ inbound' = inbound
    BY <1>8 DEF Tick
  <2>4. \A t, u \in LiveStamps \cup {0} : Rank(t) \in Nat /\ (t <= u => Rank(t) <= Rank(u))
    BY <1>1, RankFacts
  <2>5. /\ observed \in LiveStamps \cup {0} /\ outbox.stamp \in LiveStamps \cup {0}
        /\ reader[r].stamp \in LiveStamps \cup {0}
    BY <1>1, StampsAreLive
  <2>6. observed' < reader'[r].stamp => observed < reader[r].stamp
    BY <1>2, <2>1, <2>2, <2>4, <2>5
  <2>7. Stale(r)' => Stale(r)
    BY <2>1, <2>3, <2>6 DEF Stale
  <2>8. reader[r].stamp <= outbox.stamp => reader'[r].stamp <= outbox'.stamp
    BY <2>1, <2>2, <2>4, <2>5
  <2>9. Beaten(r) => Beaten(r)'
    BY <2>2, <2>3, <2>8 DEF Beaten, Closing
  <2> QED
    BY <1>4, <1>7, <2>3, <2>7, <2>9 DEF Goal
<1>9. ASSUME NEW s \in Statuses, ChangeStatus(s) PROVE Goal(r)
  <2>1. observed' = now /\ reader' = reader
    BY <1>9 DEF ChangeStatus
  <2>2. ~(observed' < reader'[r].stamp)
    BY <1>1, <1>2, <2>1 DEF StampInv
  <2> QED
    BY <2>2 DEF Goal, Stale
<1>10. CASE Verify
  <2>1. /\ queue' = queue /\ reader' = reader /\ observed' = observed /\ sound' = sound
        /\ inbound' = inbound /\ outbox'.phase = "asked" /\ outbox'.stamp = now /\ queue # <<>>
    BY <1>10 DEF Verify, Idle, card
  <2>2. reader'[r].stamp <= outbox'.stamp
    BY <1>1, <2>1 DEF StampInv
  <2> QED
    BY <2>1, <2>2 DEF Goal, Beaten
<1>11. CASE VerifyAnswered
  <2>1. /\ queue' = queue /\ reader' = reader /\ observed' = observed /\ sound' = sound
        /\ inbound' = inbound /\ outbox.phase = "asked"
    BY <1>11 DEF VerifyAnswered, card
  <2>2. outbox'.stamp = outbox.stamp
    BY <1>1, <1>11, TypeFacts DEF VerifyAnswered
  <2>3. Stale(r)' => Beaten(r)
    BY <1>4, <1>7, <2>1 DEF Stale
  <2> QED
    BY <2>1, <2>2, <2>3 DEF Goal, Beaten
<1>12. CASE CompleteChange
  <2>1. /\ reader' = reader /\ sound' = sound /\ inbound' = inbound /\ outbox'.phase = "idle"
        /\ outbox.phase = "answered" /\ outbox.answer = Head(queue) /\ queue' = Tail(queue)
    BY <1>12 DEF CompleteChange, Idle
  <2>2. queue # <<>>
    BY <1>1, <2>1 DEF QueueInv
  <2>3. CASE Len(queue) = 1
    <3>1. outbox.stamp <= observed' /\ observed <= observed' /\ observed' \in Nat
      BY <1>2, <1>4, <1>12, <2>1, <2>3 DEF CompleteChange
    <3>2. Stale(r)' => Stale(r)
      BY <1>2, <2>1, <3>1 DEF Stale
    <3>3. Stale(r) => reader[r].stamp <= outbox.stamp
      BY <1>4, <1>7, <2>1, <2>3 DEF Beaten, Closing
    <3>4. ~Stale(r)'
      BY <1>2, <2>1, <3>1, <3>2, <3>3 DEF Stale
    <3> QED
      BY <3>4 DEF Goal
  <2>4. CASE Len(queue) # 1
    <3>1. queue' # <<>>
      BY <1>2, <2>1, <2>2, <2>4, TailFacts
    <3> QED
      BY <2>1, <3>1 DEF Goal, Beaten, Closing
  <2> QED
    BY <2>3, <2>4
<1>13. ASSUME NEW drop \in BOOLEAN, AttemptFails(drop) PROVE Goal(r)
  <2>1. /\ reader' = reader /\ observed' = observed /\ inbound' = inbound /\ outbox'.phase = "idle"
        /\ queue' = (IF drop THEN Tail(queue) ELSE queue) /\ queue # <<>>
    BY <1>1, <1>13 DEF AttemptFails, Idle, card, QueueInv
  <2>2. CASE drop /\ Len(queue) = 1
    <3>1. sound'[r]
      BY <1>13, <2>2 DEF AttemptFails
    <3> QED
      BY <3>1 DEF Goal, Stale
  <2>3. CASE ~(drop /\ Len(queue) = 1)
    <3>1. queue' # <<>>
      BY <1>2, <2>1, <2>3, TailFacts
    <3> QED
      BY <2>1, <3>1 DEF Goal, Beaten, Closing
  <2> QED
    BY <2>2, <2>3
<1>14. ASSUME NEW q \in Readers, Ask(q) PROVE Goal(r)
  <2>1. /\ queue' = queue /\ outbox' = outbox /\ observed' = observed /\ sound' = sound
        /\ inbound' = inbound
    BY <1>14 DEF Ask, card
  <2>2. CASE q = r
    <3>1. reader'[r].phase = "asked"
      <4>1. reader'[r] = [NoAnswer EXCEPT !.phase = "asked", !.stamp = now]
        BY <1>2, <1>14, <2>2, PutFacts DEF Ask
      <4> QED
        BY <4>1 DEF NoAnswer
    <3> QED
      BY <3>1 DEF Goal, Stale
  <2>3. CASE q # r
    <3>1. reader'[r] = reader[r]
      BY <1>2, <1>14, <2>3, PutFacts DEF Ask
    <3> QED
      BY <1>4, <1>5, <2>1, <3>1 DEF Kept, Stale
  <2> QED
    BY <2>2, <2>3
<1>15. ASSUME NEW q \in Readers, Answered(q) PROVE Goal(r)
  <2>1. /\ queue' = queue /\ outbox' = outbox /\ observed' = observed
        /\ inbound' = inbound /\ sound' = [sound EXCEPT ![q] = landed]
    BY <1>15 DEF Answered, card
  <2>2. CASE q = r
    <3>1. reader'[r].stamp = reader[r].stamp /\ sound'[r] = landed
      <4>1. reader'[r] = [reader[r] EXCEPT !.phase = "answered", !.answer = bs]
        BY <1>2, <1>15, <2>2, PutFacts DEF Answered
      <4>2. reader[r] \in ReaderState
        BY <1>2
      <4> QED
        BY <1>3, <2>1, <2>2, <4>1, <4>2 DEF ReaderState
    <3>2. ~landed => queue # <<>> /\ ~Closing
      BY <1>1 DEF LandedInv
    <3>3. outbox.phase = "asked" => reader[r].stamp <= outbox.stamp
      BY <1>2, <1>15, <2>2 DEF Answered, IsNextInLine
    <3> QED
      BY <2>1, <3>1, <3>2, <3>3 DEF Goal, Stale, Beaten, Closing
  <2>3. CASE q # r
    <3>1. reader'[r] = reader[r] /\ sound'[r] = sound[r]
      BY <1>2, <1>3, <1>15, <2>1, <2>3, PutFacts DEF Answered
    <3> QED
      BY <1>4, <1>5, <2>1, <3>1 DEF Kept, Stale
  <2> QED
    BY <2>2, <2>3
<1>16. ASSUME NEW q \in Readers, Prepare(q) PROVE Goal(r)
  <2>1. /\ queue' = queue /\ outbox' = outbox /\ observed' = observed /\ sound' = sound
        /\ inbound' = inbound
    BY <1>16 DEF Prepare, card
  <2>2. reader'[r].stamp = reader[r].stamp
        /\ (reader'[r].phase \in {"prepared", "answered"}
               => reader[r].phase \in {"answered", "prepared"})
    <3>1. CASE q = r
      <4>1. reader'[r] = [reader[r] EXCEPT !.phase = "prepared", !.known = local # None]
            /\ reader[r].phase = "answered"
        BY <1>2, <1>16, <3>1, PutFacts DEF Prepare
      <4>2. reader[r] \in ReaderState
        BY <1>2
      <4> QED
        BY <4>1, <4>2 DEF ReaderState
    <3>2. CASE q # r
      <4>1. reader'[r] = reader[r]
        BY <1>2, <1>16, <3>2, PutFacts DEF Prepare
      <4> QED
        BY <4>1
    <3> QED
      BY <3>1, <3>2
  <2> QED
    BY <1>4, <1>5, <2>1, <2>2 DEF Kept, Stale
<1>17. ASSUME NEW q \in Readers, Drop(q) \/ ImportFails(q) PROVE Goal(r)
  <2>1. /\ queue' = queue /\ outbox' = outbox /\ observed' = observed /\ sound' = sound
        /\ inbound' = inbound /\ Put(q, NoAnswer)
    BY <1>17 DEF Drop, ImportFails, card
  <2>2. reader'[r] = reader[r] \/ reader'[r].phase = "idle"
    BY <1>2, <2>1, PutFacts DEF NoAnswer
  <2> QED
    BY <1>4, <1>5, <1>6, <2>1, <2>2 DEF Kept, Stale
<1>18. ASSUME NEW q \in Readers, Update(q) \/ Create(q) PROVE Goal(r)
  <2>1. /\ queue' = queue /\ outbox' = outbox /\ sound' = sound
        /\ inbound' = inbound /\ Put(q, NoAnswer)
    BY <1>18 DEF Update, Create
  <2>2. CASE q = r
    BY <1>2, <1>6, <2>1, <2>2, PutFacts DEF NoAnswer
  <2>3. CASE q # r
    <3>1. reader'[r] = reader[r]
      BY <1>2, <2>1, <2>3, PutFacts
    <3>2. CASE observed' = observed
      BY <1>4, <1>5, <2>1, <3>1, <3>2 DEF Kept, Stale
    <3>3. CASE observed' # observed /\ Update(q)
      <4>1. observed < observed' /\ observed' \in Nat
        BY <1>2, <3>3 DEF Update, CanApply, Take, card
      <4>2. Stale(r)' => Stale(r)
        BY <1>2, <2>1, <3>1, <4>1 DEF Stale
      <4> QED
        BY <1>4, <1>5, <2>1, <3>1, <4>2 DEF Kept
    <3>4. CASE observed' # observed /\ Create(q)
      <4>1. observed = 0
        BY <1>1, <3>4 DEF Create, card, StampInv
      <4>2. observed' = reader[q].stamp
        BY <3>4 DEF Create, Take, card
      <4>3. Stale(r)' => Stale(r)
        BY <1>2, <2>1, <3>1, <4>1, <4>2 DEF Stale
      <4> QED
        BY <1>4, <1>5, <2>1, <3>1, <4>3 DEF Kept
    <3> QED
      BY <1>18, <3>2, <3>3, <3>4
  <2> QED
    BY <2>2, <2>3
<1>19. CASE WriteLands \/ BackfillFinds \/ BackfillMarks \/ Reconcile
            \/ \E s \in Answers : BluesalesEdit(s)
  <2>1. /\ queue' = queue /\ outbox' = outbox /\ observed' = observed /\ sound' = sound
        /\ inbound' = inbound /\ reader' = reader
    BY <1>19 DEF WriteLands, BackfillFinds, BackfillMarks, Reconcile, BluesalesEdit, card
  <2> QED
    BY <1>4, <1>5, <2>1 DEF Kept, Stale
<1>20. CASE Restart
  <2>1. reader'[r].phase = "idle"
    BY <1>20 DEF Restart, NoAnswer
  <2> QED
    BY <1>6, <2>1
<1>21. CASE SetEnabled
  <2>1. ~inbound /\ reader' = reader
    BY <1>4, <1>21 DEF SetEnabled
  <2>2. reader'[r].phase = "idle"
    BY <1>4, <2>1
  <2> QED
    BY <1>6, <2>2
<1> QED
  BY <1>8, <1>9, <1>10, <1>11, <1>12, <1>13, <1>14, <1>15, <1>16, <1>17, <1>18, <1>19, <1>20, <1>21
     DEF Next, OutboxStep, ReaderStep, Goal

-----------------------------------------------------------------------------
(* The theorems. *)

LEMMA StutterKeeps == ASSUME IInv, UNCHANGED vars PROVE IInv' /\ (FreshInv => FreshInv')
  BY DEF vars, card, budget, IInv, TypeOK, QueueInv, StampInv, LandedInv, Closing,
         CardShowsLastRequest, ReworkHasRevision, FreshInv, Stale, Beaten, ReaderState

LEMMA NextKeeps == IInv /\ [Next]_vars => IInv'
  BY TypeStep, QueueStep, StampStep, LandedStep, ReworkStep, StutterKeeps DEF IInv

\* The inductive invariant holds in every state (orders.service.ts, updateOrderStatus;
\* bluesales-sync.service.ts, upsertOrder; bluesales-status-outbox.service.ts, completeChange).
THEOREM MirrorInvariant == Spec => []IInv
<1>1. Init => IInv
  BY InitIInv
<1> QED
  BY <1>1, NextKeeps, PTL DEF Spec

\* The state is typed whatever happens.
THEOREM TypeCorrect == Spec => []TypeOK
<1>1. IInv => TypeOK
  BY DEF IInv
<1> QED
  BY <1>1, MirrorInvariant, PTL

\* A manager always sees the last status a manager chose while it is on its way to
\* BlueSales, whatever answers arrive meanwhile (canApplyStatus, completeChange).
THEOREM CardIsRight == Spec => []CardShowsLastRequest
<1>1. IInv => CardShowsLastRequest
  BY DEF IInv
<1> QED
  BY <1>1, MirrorInvariant, PTL

\* An order in rework always has an open revision cycle, however it came there
\* (trackRevisionStatusTransition, reconcileActiveRevisions).
THEOREM ReworkIsTracked == Spec => []ReworkHasRevision
<1>1. IInv => ReworkHasRevision
  BY DEF IInv
<1> QED
  BY <1>1, MirrorInvariant, PTL

\* A cycle opens only when none is open, and the ready status leaves none open.
THEOREM TurnsAreTaken == Spec => RevisionsTakeTurns
<1>1. IInv /\ [Next]_vars => [/\ active' > active => active = 0
                              /\ local # RevisionReady /\ local' = RevisionReady => active' = 0]_vars
  BY TurnsStep
<1> QED
  BY <1>1, MirrorInvariant, PTL DEF Spec, RevisionsTakeTurns

\* An order that enters the sketch status is marked in the same transaction. The
\* confirmation of the outbox does not mark, and need not: it moves no card.
THEOREM EntryIsMarked == Spec => SketchEntryIsMarked
<1>1. IInv /\ [Next]_vars => [local # Sketch /\ local' = Sketch => marked']_vars
  <2> SUFFICES ASSUME IInv, Next, local # Sketch, local' = Sketch PROVE marked'
    OBVIOUS
  <2>1. marked' = (marked \/ NeedsMark(Sketch))
    BY StatusMoves
  <2> QED
    BY <2>1 DEF NeedsMark, IInv, TypeOK
<1> QED
  BY <1>1, MirrorInvariant, PTL DEF Spec, SketchEntryIsMarked

\* An answer that replaces the status on the card was given by BlueSales after the
\* managers' last change had reached it, as long as the import is switched on only
\* while no loop holds an answer from before it was switched off: setEnabled waits
\* for no loop, so nothing in the code ensures that.
THEOREM ImportsStayFresh == Spec /\ SwitchedOnWhenIdle => ImportsAreFresh
<1>1. Init => IInv /\ FreshInv
  BY InitIInv
<1>2. /\ IInv /\ FreshInv /\ [Next]_vars
      /\ [~inbound /\ inbound' => \A r \in Readers : reader[r].phase = "idle"]_vars
      => IInv' /\ FreshInv'
  BY NextKeeps, FreshStep, StutterKeeps
<1>3. IInv /\ FreshInv /\ [Next]_vars =>
        [\A r \in Readers :
           reader[r].phase = "prepared" /\ reader[r].known /\ reader'[r].phase = "idle"
             /\ local' # local => sound[r]]_vars
  <2> SUFFICES ASSUME IInv, FreshInv, Next, NEW r \in Readers, reader[r].phase = "prepared",
                      reader[r].known, reader'[r].phase = "idle", local' # local
               PROVE  sound[r]
    OBVIOUS
  <2>1. QueueInv /\ CardShowsLastRequest /\ reader \in [Readers -> ReaderState]
    BY TypeFacts DEF IInv
  <2>2. \/ \E s \in Statuses : ChangeStatus(s)
        \/ CompleteChange
        \/ \E q \in Readers : Update(q) \/ Create(q)
    BY DEF Next, Tick, WriteLands, OutboxStep, Verify, VerifyAnswered, AttemptFails, ReaderStep,
           Ask, Answered, Prepare, Drop, ImportFails, BackfillFinds, BackfillMarks, Reconcile,
           Restart, SetEnabled, BluesalesEdit, card
  <2>3. reader' # reader
    OBVIOUS
  <2>4. PICK q \in Readers : Update(q) \/ Create(q)
    BY <2>2, <2>3 DEF ChangeStatus, CompleteChange
  <2>5. q = r
    BY <2>1, <2>4, PutFacts DEF Update, Create
  <2>6. Update(r) /\ CanApply(r) /\ inbound
    BY <2>4, <2>5 DEF Update, Create, card
  <2> QED
    BY <2>6 DEF CanApply, FreshInv, Stale, Beaten
<1> QED
  BY <1>1, <1>2, <1>3, PTL DEF Spec, SwitchedOnWhenIdle, ImportsAreFresh

-----------------------------------------------------------------------------
(* The switch of the import that the loops obey (SyncLoops), for any number  *)
(* of requests of administrators.                                            *)

\* A request of an administrator.
Asked == [on : BOOLEAN, written : BOOLEAN]

\* Only the oldest request can be in the database without being in force, and then the
\* database has what it asks for.
SwitchInv ==
    /\ requests \in Seq(Asked)
    /\ \A i \in DOMAIN requests : requests[i].written => i = 1
    /\ IF requests # <<>> /\ requests[1].written THEN saved = requests[1].on
       ELSE lost \/ enabled = saved

\* A new request goes to the end, unwritten.
LEMMA SetEnabledKeeps == ASSUME SwitchInv, Loops!SetEnabled PROVE SwitchInv'
<1>1. PICK on \in BOOLEAN : requests' = Append(requests, [on |-> on, written |-> FALSE])
  BY DEF Loops!SetEnabled
<1> DEFINE new == [on |-> on, written |-> FALSE]
<1>0. new \in Asked
  BY DEF Asked
<1>2. UNCHANGED <<enabled, saved, lost>>
  BY DEF Loops!SetEnabled
<1>3. /\ requests' \in Seq(Asked)
      /\ Len(requests') = Len(requests) + 1 /\ requests' # <<>>
      /\ \A i \in 1..Len(requests) : requests'[i] = requests[i]
      /\ requests'[Len(requests) + 1] = [on |-> on, written |-> FALSE]
  BY <1>0, <1>1 DEF SwitchInv
<1>4. \A i \in DOMAIN requests' : requests'[i].written => i = 1
  BY <1>3 DEF SwitchInv
<1>5. IF requests # <<>> THEN requests'[1] = requests[1] ELSE ~requests'[1].written
  BY <1>3 DEF SwitchInv
<1> QED
  BY <1>2, <1>3, <1>4, <1>5 DEF SwitchInv

\* The oldest request is written.
LEMMA WriteSwitchKeeps == ASSUME SwitchInv, Loops!WriteSwitch PROVE SwitchInv'
<1>1. /\ 1 \in DOMAIN requests /\ ~requests[1].written
      /\ saved' = requests[1].on
      /\ requests' = [requests EXCEPT ![1].written = TRUE]
  <2>1. PICK i \in DOMAIN requests : /\ Loops!InTurn(i) /\ ~requests[i].written /\ saved' = requests[i].on
                                    /\ requests' = [requests EXCEPT ![i].written = TRUE]
    BY DEF Loops!WriteSwitch
  <2>2. i = 1
    BY <2>1 DEF Loops!InTurn
  <2>3. requests' = [requests EXCEPT ![1].written = TRUE]
    BY <2>1, <2>2, Zenon
  <2> QED
    BY <2>1, <2>2, <2>3, Zenon
<1>2. requests[1] \in Asked
  BY <1>1 DEF SwitchInv
<1>3. /\ DOMAIN requests' = DOMAIN requests /\ requests' # <<>>
      /\ requests'[1] = [requests[1] EXCEPT !.written = TRUE]
      /\ \A i \in DOMAIN requests : i # 1 => requests'[i] = requests[i]
  BY <1>1, <1>2 DEF SwitchInv
<1>4. requests' \in Seq(Asked)
  <2> DEFINE new == [requests[1] EXCEPT !.written = TRUE]
  <2>1. new \in Asked /\ requests' = [requests EXCEPT ![1] = new]
    BY <1>1, <1>2 DEF Asked
  <2> QED
    BY <1>1, <2>1 DEF SwitchInv
<1>5. requests'[1].written /\ requests'[1].on = requests[1].on
  BY <1>2, <1>3 DEF Asked
<1> QED
  BY <1>1, <1>3, <1>4, <1>5 DEF SwitchInv

\* Without the oldest request none is written.
LEMMA TailKeeps ==
    ASSUME SwitchInv, requests # <<>>, requests' = Tail(requests)
    PROVE  /\ requests' \in Seq(Asked)
           /\ \A i \in DOMAIN requests' : ~requests'[i].written
<1>1. /\ requests' \in Seq(Asked)
      /\ \A i \in DOMAIN requests' : i + 1 \in DOMAIN requests /\ requests'[i] = requests[i + 1]
      /\ DOMAIN requests' \subseteq Nat \ {0}
  BY DEF SwitchInv
<1> QED
  BY <1>1 DEF SwitchInv

\* What is written comes into force, and its request is gone.
LEMMA AnswerSwitchKeeps == ASSUME SwitchInv, Loops!AnswerSwitch PROVE SwitchInv'
<1>1. /\ 1 \in DOMAIN requests /\ requests[1].written
      /\ enabled' = requests[1].on /\ requests' = Loops!RemoveAt(requests, 1)
      /\ lost' = FALSE /\ saved' = saved
  BY DEF Loops!AnswerSwitch, Loops!InTurn
<1>2. requests # <<>> /\ Loops!RemoveAt(requests, 1) = Tail(requests)
  BY <1>1 DEF SwitchInv, Loops!RemoveAt
<1>3. requests' \in Seq(Asked) /\ \A i \in DOMAIN requests' : ~requests'[i].written
  BY <1>1, <1>2, TailKeeps
<1>4. requests' # <<>> => 1 \in DOMAIN requests'
  BY <1>3
<1> QED
  BY <1>1, <1>2, <1>3, <1>4 DEF SwitchInv

\* A write that is not answered is lost, if it was done.
LEMMA SwitchFailsKeeps == ASSUME SwitchInv, Loops!SwitchFails PROVE SwitchInv'
<1>1. /\ requests # <<>> /\ requests' = Tail(requests)
      /\ lost' = (requests[1].written \/ lost) /\ UNCHANGED <<saved, enabled>>
  BY DEF Loops!SwitchFails, SwitchInv
<1>2. requests' \in Seq(Asked) /\ \A i \in DOMAIN requests' : ~requests'[i].written
  BY <1>1, TailKeeps
<1>3. requests' # <<>> => 1 \in DOMAIN requests'
  BY <1>2
<1> QED
  BY <1>1, <1>2, <1>3 DEF SwitchInv

\* When all requests of the administrators are answered, the switch in memory is the one
\* in the database, in whatever order they came, unless an answer was lost.
THEOREM SwitchIsKept == Loops!Spec => []Loops!SwitchIsSaved
<1>1. Loops!Init => SwitchInv
  BY DEF Loops!Init, SwitchInv
<1>2. ASSUME SwitchInv, [Loops!Next]_Loops!vars PROVE SwitchInv'
  <2>1. CASE UNCHANGED Loops!switch
    BY <1>2, <2>1 DEF SwitchInv, Loops!switch
  <2>2. CASE Loops!SetEnabled \/ Loops!Switching \/ Loops!SwitchFails
    BY <1>2, <2>2, SetEnabledKeeps, WriteSwitchKeeps, AnswerSwitchKeeps,
          SwitchFailsKeeps DEF Loops!Switching
  <2>3. CASE Loops!NextPhase \/ Loops!Loop \/ Loops!BatchFails \/ Loops!Pump \/
             Loops!PumpFails \/ \E o \in Orders : Loops!EnqueueOrderRefresh(o)
    <3>1. UNCHANGED Loops!switch
      BY <2>3 DEF Loops!NextPhase, Loops!Loop, Loops!BatchFails, Loops!Pump, Loops!PumpFails,
            Loops!EnqueueOrderRefresh, Loops!TakeBatch,
         Loops!BatchAnswered, Loops!RefreshRow, Loops!EndBatch, Loops!PumpNext,
               Loops!PumpAnswered, Loops!refresh
    <3> QED
      BY <2>1, <3>1
  <2> QED
    BY <1>2, <2>1, <2>2, <2>3 DEF Loops!Next, Loops!vars
<1>3. SwitchInv => Loops!SwitchIsSaved
  BY DEF SwitchInv, Loops!SwitchIsSaved
<1> QED
  BY <1>1, <1>2, <1>3, PTL DEF Loops!Spec

\* The same next to the status of an order, as it is model-checked (MCInbound): while
\* the behaviour is of the other, the loops keep still.
THEOREM SwitchIsRemembered == MCSpec => []SwitchIsSaved
<1>1. MCInit => Loops!Init
  BY DEF MCInit
<1>2. [MCNext]_<<part, mirrorVars, loopsVars>> => [Loops!Next]_(Loops!vars)
  <2>1. UNCHANGED loopsVars => UNCHANGED Loops!vars
    BY DEF loopsVars, Loops!vars, Loops!switch, Loops!refresh, Loops!manual
  <2> QED
    BY <2>1 DEF MCNext
<1> QED
  BY <1>1, <1>2, SwitchIsKept, PTL DEF MCSpec, Loops!Spec, SwitchIsSaved
=============================================================================
