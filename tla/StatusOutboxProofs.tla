------------------------- MODULE StatusOutboxProofs -------------------------
(***************************************************************************)
(* Proofs about StatusOutbox for any sets of orders, statuses and          *)
(* processes and any bounds: type correctness, that a row in delivery is   *)
(* the oldest open row of its order, that the outbox implements the queue  *)
(* of StatusDelivery, and that a row whose last write may have landed is   *)
(* read before it is written again.                                        *)
(*                                                                         *)
(* The last part is about the outbox as it is deployed: one process, whose *)
(* requests to BlueSales end with the call that sent them.  No older       *)
(* change then overwrites a newer one, and the last request of an order    *)
(* stands.                                                                 *)
(***************************************************************************)
EXTENDS StatusOutbox, WellFoundedInduction, TLAPS

\* Rows that have been inserted, deleted ones included.
Inserted == {i \in Ids : i < nextId}

\* What keeps the columns typed and the queue in order: an id is used once, an
\* inserted row names an order and a status, and a process only ever handles
\* inserted rows.
RowsInv ==
    /\ \A i \in Ids : i >= nextId => state[i] = "NONE" /\ order[i] = None
    /\ \A i \in Inserted : order[i] \in Orders /\ target[i] \in Statuses
    /\ \A p \in Processes : pending[p] \subseteq Inserted /\ work[p] \subseteq Inserted
    /\ late \subseteq Inserted

IInv == TypeOK /\ RowsInv /\ HeadOfLine

USE NoneIsNothing, BoundsAreNatural DEF Ids, Active, Terminal

LEMMA InitIInv == Init => IInv
<1> SUFFICES ASSUME Init PROVE IInv
    OBVIOUS
<1>1. TypeOK
  <2>1. bs \in [Orders -> Statuses \cup {None}]
    BY DEF Init
  <2>2. shown \in [Orders -> SUBSET (Statuses \cup {None})]
    BY <2>1 DEF Init
  <2>3. nextId \in 1..(MaxChanges + 1)
    BY DEF Init
  <2> QED
    BY <2>1, <2>2, <2>3 DEF Init, TypeOK, NothingSeen, PcStates
<1>2. RowsInv
    BY DEF Init, RowsInv, Inserted
<1>3. HeadOfLine
    BY DEF Init, HeadOfLine
<1> QED
    BY <1>1, <1>2, <1>3 DEF IInv

-----------------------------------------------------------------------------
(* The parts that actions share. *)

\* A step that opens no row and starts no delivery leaves the heads in place.
LEMMA HeadsStay ==
    ASSUME HeadOfLine, order' = order,
           \A j \in Ids : /\ state'[j] = "PROCESSING" => state[j] = "PROCESSING"
                          /\ state'[j] \in Active => state[j] \in Active
    PROVE  HeadOfLine'
<1> SUFFICES ASSUME NEW i \in Ids, state'[i] = "PROCESSING",
                    NEW j \in Ids, j < i, order[j] = order[i], state'[j] \in Active
             PROVE  FALSE
    BY DEF HeadOfLine, EarlierActive
<1>1. state[i] = "PROCESSING" /\ state[j] \in Active
    OBVIOUS
<1> QED
    BY <1>1 DEF HeadOfLine, EarlierActive

ClosesOnly(i, r) ==
    \A j \in Ids : state'[j] = state[j]
                    \/ (j = i /\ state[j] = "PROCESSING" /\ state'[j] = r)

\* Closing a row changes that row alone, and only if it was in delivery.
LEMMA CloseKeeps ==
    ASSUME IInv, NEW p \in Processes, NEW i \in Ids, NEW r \in Terminal \cup {"RETRY"},
           Close(p, i, r)
    PROVE  /\ state' \in [Ids -> Active \cup Terminal \cup {"NONE", "DELETED"}]
           /\ tried' \in [Ids -> BOOLEAN]
           /\ lease' \in [Ids -> Processes \cup {None}]
           /\ due' \in [Ids -> BOOLEAN]
           /\ expired' \in [Ids -> BOOLEAN]
           /\ shown' \in [Orders -> SUBSET (Statuses \cup {None})]
           /\ unsure' \in SUBSET Ids
           /\ pending' \in [Processes -> SUBSET Ids]
           /\ \A q \in Processes : pending'[q] \subseteq pending[q]
           /\ ClosesOnly(i, r)
<1>1. /\ state \in [Ids -> Active \cup Terminal \cup {"NONE", "DELETED"}]
      /\ tried \in [Ids -> BOOLEAN] /\ lease \in [Ids -> Processes \cup {None}]
      /\ due \in [Ids -> BOOLEAN] /\ expired \in [Ids -> BOOLEAN]
      /\ shown \in [Orders -> SUBSET (Statuses \cup {None})] /\ unsure \in SUBSET Ids
      /\ pending \in [Processes -> SUBSET Ids] /\ bs \in [Orders -> Statuses \cup {None}]
    BY DEF IInv, TypeOK
<1>2. /\ pending' \in [Processes -> SUBSET Ids]
      /\ \A q \in Processes : pending'[q] \subseteq pending[q]
    BY <1>1 DEF Close
<1>3. CASE Owns(p, i)
  <2>1. i \in Inserted
    BY <1>3 DEF IInv, TypeOK, RowsInv, Owns, Inserted
  <2>2. order[i] \in Orders
    BY <2>1 DEF IInv, RowsInv
  <2>3. shown' \in [Orders -> SUBSET (Statuses \cup {None})]
    <3>1. {bs[order[i]]} \in SUBSET (Statuses \cup {None})
      BY <1>1, <2>2
    <3>2. shown' = [shown EXCEPT ![order[i]] = {bs[order[i]]}] \/ shown' = shown
      BY <1>3 DEF Close
    <3> QED
      BY <1>1, <3>1, <3>2
  <2>4. state' = [state EXCEPT ![i] = r] /\ state[i] = "PROCESSING"
    BY <1>3 DEF Close, Owns
  <2>5. state' \in [Ids -> Active \cup Terminal \cup {"NONE", "DELETED"}]
    BY <1>1, <2>4
  <2>6. ClosesOnly(i, r)
    BY <1>1, <2>4 DEF ClosesOnly
  <2>7. /\ tried' \in [Ids -> BOOLEAN] /\ lease' \in [Ids -> Processes \cup {None}]
        /\ due' \in [Ids -> BOOLEAN] /\ expired' \in [Ids -> BOOLEAN]
        /\ unsure' \in SUBSET Ids
    BY <1>1, <1>3, ZenonT(60) DEF Close
  <2> QED
    BY <1>2, <2>3, <2>5, <2>6, <2>7
<1>4. CASE ~Owns(p, i)
    BY <1>1, <1>2, <1>4 DEF Close, ClosesOnly
<1> QED
    BY <1>3, <1>4

\* The invariant survives a step that, for each row, leaves it alone or closes it.
LEMMA CloseStep ==
    ASSUME IInv, NEW p \in Processes, NEW i \in Ids, NEW r \in Terminal \cup {"RETRY"},
           Close(p, i, r),
           work' = [work EXCEPT ![p] = @ \ {i}],
           UNCHANGED <<pc, retries, groups, seen, landed, remote, edits>>,
           faults' \in 0..MaxFaults
    PROVE  IInv'
<1> USE CloseKeeps DEF ClosesOnly
<1>1. UNCHANGED <<nextId, order, target, present, newest>>
    BY DEF Close
<1>2. TypeOK'
    BY <1>1, SMTT(40) DEF IInv, TypeOK, remote
<1>3. RowsInv'
  <2>1. \A j \in Ids : j >= nextId => state'[j] = "NONE"
    BY DEF IInv, RowsInv
  <2>2. \A q \in Processes : work'[q] \subseteq work[q]
    BY DEF IInv, TypeOK
  <2> QED
    BY <1>1, <2>1, <2>2 DEF IInv, RowsInv, Inserted, remote
<1>4. HeadOfLine'
  <2>1. \A j \in Ids : /\ state'[j] = "PROCESSING" => state[j] = "PROCESSING"
                       /\ state'[j] \in Active => state[j] \in Active
    BY DEF IInv, TypeOK
  <2> QED
    BY <1>1, <2>1, HeadsStay DEF IInv
<1> QED
    BY <1>2, <1>3, <1>4 DEF IInv

-----------------------------------------------------------------------------
(* The invariant is inductive. *)

\* A step that leaves the columns alone and takes up no new row.
LEMMA QuietStep ==
    ASSUME IInv, TypeOK', UNCHANGED <<nextId, order, target, state>>, late' \subseteq Inserted,
           \A q \in Processes : pending'[q] \subseteq Inserted /\ work'[q] \subseteq Inserted
    PROVE  IInv'
<1>1. RowsInv'
    BY DEF IInv, RowsInv, Inserted
<1>2. HeadOfLine'
    BY HeadsStay DEF IInv
<1> QED
    BY <1>1, <1>2 DEF IInv

\* BlueSales only ever holds statuses that somebody requested.
LEMMA StoreTypes ==
    ASSUME IInv, NEW S \in SUBSET Inserted, Store(S)
    PROVE  /\ bs' \in [Orders -> Statuses \cup {None}]
           /\ shown' \in [Orders -> SUBSET (Statuses \cup {None})]
           /\ newest' \in [Orders -> 0..MaxChanges]
<1> DEFINE hit(o) == {i \in S : order[i] = o /\ bs[o] # None}
<1>1. /\ bs \in [Orders -> Statuses \cup {None}] /\ newest \in [Orders -> 0..MaxChanges]
      /\ shown \in [Orders -> SUBSET (Statuses \cup {None})]
      /\ \A i \in Inserted : i \in Ids /\ target[i] \in Statuses
  BY DEF IInv, TypeOK, RowsInv, Inserted
<1>2. ASSUME NEW o \in Orders, hit(o) # {}
      PROVE  (CHOOSE i \in hit(o) : TRUE) \in Inserted
  BY <1>2
<1>3. ASSUME NEW o \in Orders
      PROVE  /\ bs'[o] \in Statuses \cup {None}
             /\ newest'[o] \in 0..MaxChanges
  <2>1. /\ bs'[o] = IF hit(o) = {} THEN bs[o] ELSE target[CHOOSE i \in hit(o) : TRUE]
        /\ newest'[o] = IF hit(o) = {} THEN newest[o] ELSE CHOOSE i \in hit(o) : TRUE
    BY DEF Store
  <2> HIDE DEF hit
  <2>2. CASE hit(o) = {}
    BY <1>1, <2>1, <2>2
  <2>3. CASE hit(o) # {}
    <3>1. (CHOOSE i \in hit(o) : TRUE) \in Inserted
      BY <1>2, <2>3
    <3> QED
      BY <1>1, <2>1, <2>3, <3>1
  <2> QED
    BY <2>2, <2>3
<1>4. bs' = [o \in Orders |-> bs'[o]] /\ newest' = [o \in Orders |-> newest'[o]]
  BY DEF Store
<1>5. shown' = [o \in Orders |-> shown[o] \cup {bs'[o]}]
  BY DEF Store
<1> QED
  BY <1>1, <1>3, <1>4, <1>5

LEMMA NextIInv == IInv /\ [Next]_vars => IInv'
<1> SUFFICES ASSUME IInv, [Next]_vars PROVE IInv'
    OBVIOUS
<1>0. /\ \A q \in Processes : pending[q] \subseteq Inserted /\ work[q] \subseteq Inserted
      /\ late \subseteq Inserted
    BY DEF IInv, RowsInv
<1>1. ASSUME NEW o \in Orders, NEW s \in Statuses, RequestStatus(o, s) PROVE IInv'
  <2>1. TypeOK'
    BY <1>1 DEF RequestStatus, IInv, TypeOK, memory, remote, budget, history
  <2>2. RowsInv'
    BY <1>1 DEF RequestStatus, IInv, TypeOK, RowsInv, Inserted, memory, remote
  <2>3. HeadOfLine'
    <3> SUFFICES ASSUME NEW i \in Ids, state'[i] = "PROCESSING",
                        NEW j \in Ids, j < i, order'[j] = order'[i], state'[j] \in Active
                 PROVE  FALSE
      BY DEF HeadOfLine, EarlierActive
    <3>1. i # nextId /\ state[i] = "PROCESSING"
      BY <1>1 DEF RequestStatus, IInv, TypeOK
    <3>2. i < nextId
      BY <3>1 DEF IInv, TypeOK, RowsInv
    <3>3. order[j] = order[i] /\ state[j] \in Active
      BY <1>1, <3>2 DEF RequestStatus, IInv, TypeOK
    <3> QED
      BY <3>1, <3>3 DEF IInv, HeadOfLine, EarlierActive
  <2> QED
    BY <2>1, <2>2, <2>3 DEF IInv
<1>2. ASSUME NEW o \in Orders, RemoveOrder(o) PROVE IInv'
  <2>1. TypeOK'
    <3>1. state' \in [Ids -> Active \cup Terminal \cup {"NONE", "DELETED"}]
      BY <1>2 DEF RemoveOrder, IInv, TypeOK
    <3>2. lease' \in [Ids -> Processes \cup {None}]
      BY <1>2 DEF RemoveOrder, IInv, TypeOK
    <3>3. faults' \in 0..MaxFaults
      BY <1>2 DEF RemoveOrder, IInv, TypeOK
    <3>4. unsure' \in SUBSET Ids /\ present' \in SUBSET Orders
      BY <1>2 DEF RemoveOrder, IInv, TypeOK
    <3>5. /\ UNCHANGED <<nextId, order, target, tried, due, expired, pc, pending, retries>>
          /\ UNCHANGED <<groups, work, seen, landed, bs, late, edits, shown, newest>>
      BY <1>2 DEF RemoveOrder, memory, remote
    <3> QED
      BY <3>1, <3>2, <3>3, <3>4, <3>5 DEF IInv, TypeOK
  <2>2. RowsInv'
    BY <1>2 DEF RemoveOrder, IInv, TypeOK, RowsInv, Inserted, memory, remote
  <2>3. HeadOfLine'
    BY <1>2, HeadsStay DEF RemoveOrder, IInv, TypeOK
  <2> QED
    BY <2>1, <2>2, <2>3 DEF IInv
<1>3. ASSUME NEW i \in Ids, BackoffElapses(i) \/ LeaseExpires(i) PROVE IInv'
  <2>1. TypeOK'
    <3>1. due' \in [Ids -> BOOLEAN] /\ expired' \in [Ids -> BOOLEAN] /\ faults' \in 0..MaxFaults
      <4>1. CASE BackoffElapses(i)
        BY <4>1 DEF BackoffElapses, IInv, TypeOK, budget
      <4>2. CASE LeaseExpires(i)
        <5>1. faults' = faults \/ (faults < MaxFaults /\ faults' = faults + 1)
          BY <4>2, Zenon DEF LeaseExpires
        <5> QED
          BY <4>2, <5>1 DEF LeaseExpires, IInv, TypeOK
      <4> QED
        BY <1>3, <4>1, <4>2
    <3>2. UNCHANGED <<nextId, order, target, state, tried, lease, present, memory, remote,
                      edits, history>>
      BY <1>3 DEF BackoffElapses, LeaseExpires, budget
    <3> QED
      BY <3>1, <3>2 DEF IInv, TypeOK, memory, remote, history
  <2> QED
    BY <1>0, <1>3, <2>1, QuietStep DEF BackoffElapses, LeaseExpires, memory, remote
<1>4. ASSUME NEW p \in Processes, Start(p) PROVE IInv'
  <2>1. TypeOK'
    BY <1>0, <1>4 DEF Start, IInv, TypeOK, PcStates, table, memory, remote, budget, history
  <2>2. UNCHANGED <<nextId, order, target, state>> /\ late' \subseteq Inserted
    BY <1>0, <1>4 DEF Start, table, remote
  <2>3. \A q \in Processes : pending'[q] \subseteq Inserted /\ work'[q] \subseteq Inserted
    BY <1>0, <1>4 DEF Start, IInv, TypeOK, memory
  <2> QED
    BY <2>1, <2>2, <2>3, QuietStep
<1>5. ASSUME NEW p \in Processes, BeginDelivery(p) PROVE IInv'
  <2>1. TypeOK'
    <3>1. expired' \in [Ids -> BOOLEAN] /\ pending' \in [Processes -> SUBSET Ids]
      BY <1>5 DEF BeginDelivery, RetainOwned, Kept, IInv, TypeOK
    <3>2. GroupsOf(Kept(p)) \in SUBSET Statuses
      BY <1>0 DEF GroupsOf, Kept, IInv, RowsInv
    <3>3. groups' \in [Processes -> SUBSET Statuses]
      BY <1>5, <3>2, ZenonT(60) DEF BeginDelivery, IInv, TypeOK
    <3>4. Kept(p) \cap retries[p] \in SUBSET Ids
      BY DEF Kept, IInv, TypeOK
    <3>5. work' \in [Processes -> SUBSET Ids]
      BY <1>5, <3>4 DEF BeginDelivery, IInv, TypeOK
    <3>6. pc' \in [Processes -> PcStates]
      <4>1. pc' = [pc EXCEPT ![p] = "probing"] \/ pc' = [pc EXCEPT ![p] = "writing"]
        BY <1>5, Zenon DEF BeginDelivery
      <4> QED
        BY <4>1 DEF IInv, TypeOK, PcStates
    <3>7. UNCHANGED <<nextId, order, target, state, tried, lease, due, present, retries, seen,
                      landed, remote, budget, history>>
      BY <1>5 DEF BeginDelivery
    <3> QED
      BY <3>1, <3>3, <3>5, <3>6, <3>7 DEF IInv, TypeOK, remote, budget, history
  <2>2. UNCHANGED <<nextId, order, target, state>> /\ late' \subseteq Inserted
    BY <1>0, <1>5 DEF BeginDelivery, RetainOwned, Kept, GroupsOf, table, remote
  <2>3. \A q \in Processes : pending'[q] \subseteq Inserted /\ work'[q] \subseteq Inserted
    BY <1>0, <1>5 DEF BeginDelivery, RetainOwned, Kept, GroupsOf, IInv, TypeOK, memory
  <2> QED
    BY <2>1, <2>2, <2>3, QuietStep
<1>6. ASSUME NEW p \in Processes, ProbeAnswers(p) \/ CheckAnswers(p) PROVE IInv'
  <2>0. PICK from \in PcStates, to \in PcStates : ReadAnswers(p, from, to)
    BY <1>6 DEF ProbeAnswers, CheckAnswers, PcStates
  <2>1. TypeOK'
    <3>1. /\ expired' \in [Ids -> BOOLEAN] /\ pending' \in [Processes -> SUBSET Ids]
          /\ work' \in [Processes -> SUBSET Ids]
          /\ unsure' \in SUBSET Ids
      BY <2>0 DEF ReadAnswers, RetainOwned, Kept, IInv, TypeOK
    <3>2. pc' \in [Processes -> PcStates]
      BY <2>0 DEF ReadAnswers, IInv, TypeOK
    <3>3. \A i \in work[p] : bs[order[i]] \in Statuses \cup {None}
      BY <1>0 DEF IInv, TypeOK, RowsInv
    <3>4. [i \in Ids |-> IF i \in work[p] THEN bs[order[i]] ELSE None]
              \in [Ids -> Statuses \cup {None}]
      BY <3>3
    <3>5. seen' \in [Processes -> [Ids -> Statuses \cup {None}]]
      BY <2>0, <3>4 DEF ReadAnswers, IInv, TypeOK
    <3>6. UNCHANGED <<nextId, order, target, state, tried, lease, due, present, retries, groups,
                      landed, remote, budget, shown, newest>>
      BY <2>0 DEF ReadAnswers
    <3> QED
      BY <3>1, <3>2, <3>5, <3>6 DEF IInv, TypeOK, remote, budget
  <2>2. UNCHANGED <<nextId, order, target, state>> /\ late' \subseteq Inserted
    BY <1>0, <2>0 DEF ReadAnswers, remote
  <2>3. \A q \in Processes : pending'[q] \subseteq Inserted /\ work'[q] \subseteq Inserted
    BY <1>0, <2>0 DEF ReadAnswers, RetainOwned, Kept, IInv, TypeOK
  <2> QED
    BY <2>1, <2>2, <2>3, QuietStep
<1>7. ASSUME NEW p \in Processes, FormGroups(p) \/ NextGroup(p) PROVE IInv'
  <2>1. TypeOK'
    <3>1. GroupsOf(pending[p]) \in SUBSET Statuses
      BY <1>0 DEF GroupsOf, IInv, RowsInv
    <3>2. groups' \in [Processes -> SUBSET Statuses]
      BY <1>7, <3>1, ZenonT(60) DEF FormGroups, NextGroup, IInv, TypeOK
    <3>3. pc' \in [Processes -> PcStates]
      <4>1. pc' = [pc EXCEPT ![p] = "writing"]
        BY <1>7, Zenon DEF FormGroups, NextGroup
      <4> QED
        BY <4>1 DEF IInv, TypeOK, PcStates
    <3>4. seen' \in [Processes -> [Ids -> Statuses \cup {None}]]
      <4>1. NothingSeen \in [Ids -> Statuses \cup {None}]
        BY DEF NothingSeen
      <4>2. seen' = seen \/ seen' = [seen EXCEPT ![p] = NothingSeen]
        BY <1>7, Zenon DEF FormGroups, NextGroup
      <4> QED
        BY <4>1, <4>2 DEF IInv, TypeOK
    <3>5. UNCHANGED <<table, pending, retries, work, landed, remote, budget, history>>
      BY <1>7 DEF FormGroups, NextGroup
    <3> QED
      BY <3>2, <3>3, <3>4, <3>5 DEF IInv, TypeOK, table, remote, budget, history
  <2>2. UNCHANGED <<nextId, order, target, state>> /\ late' \subseteq Inserted
    BY <1>0, <1>7 DEF FormGroups, NextGroup, GroupsOf, NothingSeen, table, remote
  <2>3. \A q \in Processes : pending'[q] \subseteq Inserted /\ work'[q] \subseteq Inserted
    BY <1>0, <1>7 DEF FormGroups, NextGroup, GroupsOf, NothingSeen, IInv, TypeOK, memory
  <2> QED
    BY <2>1, <2>2, <2>3, QuietStep
<1>8. ASSUME NEW p \in Processes, BeginCheck(p) PROVE IInv'
  <2>1. TypeOK'
    BY <1>0, <1>8 DEF BeginCheck, RetainOwned, Kept, IInv, TypeOK, PcStates, table, memory, remote, budget, history
  <2>2. UNCHANGED <<nextId, order, target, state>> /\ late' \subseteq Inserted
    BY <1>0, <1>8 DEF BeginCheck, RetainOwned, Kept, table, remote
  <2>3. \A q \in Processes : pending'[q] \subseteq Inserted /\ work'[q] \subseteq Inserted
    BY <1>0, <1>8 DEF BeginCheck, RetainOwned, Kept, IInv, TypeOK, memory
  <2> QED
    BY <2>1, <2>2, <2>3, QuietStep
<1>9. ASSUME NEW p \in Processes, EndBatch(p) PROVE IInv'
  <2>1. TypeOK'
    BY <1>0, <1>9 DEF EndBatch, Forget, NothingSeen, IInv, TypeOK, PcStates, table, memory, remote, budget, history
  <2>2. UNCHANGED <<nextId, order, target, state>> /\ late' \subseteq Inserted
    BY <1>0, <1>9 DEF EndBatch, Forget, NothingSeen, table, remote
  <2>3. \A q \in Processes : pending'[q] \subseteq Inserted /\ work'[q] \subseteq Inserted
    BY <1>0, <1>9 DEF EndBatch, Forget, NothingSeen, IInv, TypeOK, memory
  <2> QED
    BY <2>1, <2>2, <2>3, QuietStep
<1>10. ASSUME NEW p \in Processes, NEW s \in Statuses, SendGroup(p, s) PROVE IInv'
  <2>1. TypeOK'
    <3>1. /\ expired' \in [Ids -> BOOLEAN] /\ pending' \in [Processes -> SUBSET Ids]
          /\ groups' \in [Processes -> SUBSET Statuses]
      BY <1>10 DEF SendGroup, RetainOwned, Kept, IInv, TypeOK
    <3>2. {i \in Kept(p) : target[i] = s} \in SUBSET Ids
      BY DEF Kept, IInv, TypeOK
    <3>3. work' \in [Processes -> SUBSET Ids] /\ unsure' \in SUBSET Ids
      <4> DEFINE owned == {i \in Kept(p) : target[i] = s}
      <4>1. \/ work' = work /\ unsure' = unsure
            \/ work' = [work EXCEPT ![p] = owned] /\ unsure' = unsure \cup owned
        BY <1>10, Zenon DEF SendGroup
      <4> HIDE DEF owned
      <4>2. owned \in SUBSET Ids
        BY <3>2 DEF owned
      <4> QED
        BY <4>1, <4>2 DEF IInv, TypeOK
    <3>4. pc' \in [Processes -> PcStates]
      BY <1>10, SMTT(40) DEF SendGroup, IInv, TypeOK, PcStates
    <3>5. UNCHANGED <<nextId, order, target, state, tried, lease, due, present, retries, seen,
                      landed, remote, budget, shown, newest>>
      BY <1>10 DEF SendGroup
    <3> QED
      BY <3>1, <3>3, <3>4, <3>5 DEF IInv, TypeOK, remote, budget
  <2>2. UNCHANGED <<nextId, order, target, state>> /\ late' \subseteq Inserted
    BY <1>0, <1>10 DEF SendGroup, RetainOwned, Kept, table, remote
  <2>3. \A q \in Processes : pending'[q] \subseteq Inserted /\ work'[q] \subseteq Inserted
    BY <1>0, <1>10 DEF SendGroup, RetainOwned, Kept, IInv, TypeOK, memory
  <2> QED
    BY <2>1, <2>2, <2>3, QuietStep
<1>11. ASSUME NEW p \in Processes, WriteAnswers(p) PROVE IInv'
  <2>1. TypeOK'
    BY <1>0, <1>11 DEF WriteAnswers, Return, IInv, TypeOK, PcStates, table, memory, remote, budget, history
  <2>2. UNCHANGED <<nextId, order, target, state>> /\ late' \subseteq Inserted
    BY <1>0, <1>11 DEF WriteAnswers, Return, table, remote
  <2>3. \A q \in Processes : pending'[q] \subseteq Inserted /\ work'[q] \subseteq Inserted
    BY <1>0, <1>11 DEF WriteAnswers, Return, IInv, TypeOK, memory
  <2> QED
    BY <2>1, <2>2, <2>3, QuietStep
<1>12. ASSUME NEW p \in Processes, NEW S \in SUBSET Ids, WriteFails(p, S) PROVE IInv'
  <2>1. TypeOK'
    BY <1>0, <1>12 DEF WriteFails, GiveUp, Return, IInv, TypeOK, PcStates, table, memory, remote, budget, history
  <2>2. UNCHANGED <<nextId, order, target, state>> /\ late' \subseteq Inserted
    BY <1>0, <1>12 DEF WriteFails, GiveUp, Return, table, remote
  <2>3. \A q \in Processes : pending'[q] \subseteq Inserted /\ work'[q] \subseteq Inserted
    BY <1>0, <1>12 DEF WriteFails, GiveUp, Return, IInv, TypeOK, memory
  <2> QED
    BY <2>1, <2>2, <2>3, QuietStep
<1>13. ASSUME NEW p \in Processes, ProbeFails(p) PROVE IInv'
  <2>1. TypeOK'
    BY <1>0, <1>13 DEF ProbeFails, IInv, TypeOK, PcStates, table, memory, remote, budget, history
  <2>2. UNCHANGED <<nextId, order, target, state>> /\ late' \subseteq Inserted
    BY <1>0, <1>13 DEF ProbeFails, table, remote
  <2>3. \A q \in Processes : pending'[q] \subseteq Inserted /\ work'[q] \subseteq Inserted
    BY <1>0, <1>13 DEF ProbeFails, IInv, TypeOK, memory
  <2> QED
    BY <2>1, <2>2, <2>3, QuietStep
<1>14. ASSUME NEW p \in Processes, StepFails(p) PROVE IInv'
  <2>0. faults' \in 0..MaxFaults /\ UNCHANGED <<table, remote, edits, history>>
    BY <1>14 DEF StepFails, IInv, TypeOK
  <2>1. CASE pc[p] = "bailing"
    <3>1. pc' = [pc EXCEPT ![p] = "idle"] /\ Forget(p)
      BY <1>14, <2>1 DEF StepFails
    <3>2. TypeOK'
      BY <2>0, <3>1 DEF Forget, NothingSeen, IInv, TypeOK, PcStates, table, remote, history
    <3>3. \A q \in Processes : pending'[q] \subseteq Inserted /\ work'[q] \subseteq Inserted
      BY <1>0, <3>1 DEF Forget, IInv, TypeOK
    <3> QED
      BY <1>0, <2>0, <3>2, <3>3, QuietStep DEF table, remote
  <2>2. CASE pc[p] # "bailing"
    <3>1. PICK next \in PcStates, S \in SUBSET pending[p] :
             pc' = [pc EXCEPT ![p] = next] /\ work' = [work EXCEPT ![p] = S]
      <4>1. CASE pc[p] = "probed"
        BY <1>14, <4>1 DEF StepFails, PcStates
      <4>2. CASE pc[p] # "probed"
        BY <1>14, <2>2, <4>2 DEF StepFails, PcStates
      <4> QED
        BY <4>1, <4>2
    <3>2. UNCHANGED <<pending, retries, groups, seen, landed>>
      <4>1. CASE pc[p] = "probed"
        BY <1>14, <4>1 DEF StepFails
      <4>2. CASE pc[p] # "probed"
        BY <1>14, <2>2, <4>2 DEF StepFails
      <4> QED
        BY <4>1, <4>2
    <3>3. TypeOK'
      BY <2>0, <3>1, <3>2 DEF IInv, TypeOK, table, remote, history
    <3>4. \A q \in Processes : pending'[q] \subseteq Inserted /\ work'[q] \subseteq Inserted
      BY <1>0, <3>1, <3>2 DEF IInv, TypeOK
    <3> QED
      BY <1>0, <2>0, <3>3, <3>4, QuietStep DEF table, remote
  <2> QED
    BY <2>1, <2>2
<1>15. ASSUME NEW p \in Processes, NEW S \in SUBSET Ids, Crash(p, S) PROVE IInv'
  <2>1. TypeOK'
    BY <1>0, <1>15 DEF Crash, GiveUp, Forget, NothingSeen, IInv, TypeOK, PcStates, table, memory, remote, budget, history
  <2>2. UNCHANGED <<nextId, order, target, state>> /\ late' \subseteq Inserted
    BY <1>0, <1>15 DEF Crash, GiveUp, Forget, NothingSeen, table, remote
  <2>3. \A q \in Processes : pending'[q] \subseteq Inserted /\ work'[q] \subseteq Inserted
    BY <1>0, <1>15 DEF Crash, GiveUp, Forget, NothingSeen, IInv, TypeOK, memory
  <2> QED
    BY <2>1, <2>2, <2>3, QuietStep
<1>16. ASSUME NEW p \in Processes, NEW S \in SUBSET Ids, BluesalesStores(p, S) PROVE IInv'
  <2>1. TypeOK'
    <3>1. S \in SUBSET Inserted /\ Store(S)
      BY <1>0, <1>16 DEF BluesalesStores
    <3>2. landed' \in [Processes -> SUBSET Ids]
      BY <1>16 DEF BluesalesStores, IInv, TypeOK
    <3>3. UNCHANGED <<table, pc, pending, retries, groups, work, seen, late, budget, unsure>>
      BY <1>16 DEF BluesalesStores
    <3> QED
      BY <3>1, <3>2, <3>3, StoreTypes DEF IInv, TypeOK, table, budget
  <2>2. UNCHANGED <<nextId, order, target, state>> /\ late' \subseteq Inserted
    BY <1>0, <1>16 DEF BluesalesStores, table, remote
  <2>3. \A q \in Processes : pending'[q] \subseteq Inserted /\ work'[q] \subseteq Inserted
    BY <1>0, <1>16 DEF BluesalesStores, IInv, TypeOK, memory
  <2> QED
    BY <2>1, <2>2, <2>3, QuietStep
<1>17. ASSUME NEW i \in Ids, LateWriteLands(i) PROVE IInv'
  <2>1. TypeOK'
    <3>1. {i} \in SUBSET Inserted /\ Store({i})
      BY <1>0, <1>17 DEF LateWriteLands
    <3>2. late' \in SUBSET Ids /\ UNCHANGED <<table, memory, budget, unsure>>
      BY <1>17 DEF LateWriteLands, IInv, TypeOK
    <3> QED
      BY <3>1, <3>2, StoreTypes DEF IInv, TypeOK, table, memory, budget
  <2>2. UNCHANGED <<nextId, order, target, state>> /\ late' \subseteq Inserted
    BY <1>0, <1>17 DEF LateWriteLands, table, remote
  <2>3. \A q \in Processes : pending'[q] \subseteq Inserted /\ work'[q] \subseteq Inserted
    BY <1>0, <1>17 DEF LateWriteLands, IInv, TypeOK, memory
  <2> QED
    BY <2>1, <2>2, <2>3, QuietStep
<1>18. ASSUME NEW o \in Orders, NEW s \in Statuses \cup {None}, BluesalesEdit(o, s) PROVE IInv'
  <2>1. TypeOK'
    BY <1>0, <1>18 DEF BluesalesEdit, IInv, TypeOK, PcStates, table, memory, remote, budget, history
  <2>2. UNCHANGED <<nextId, order, target, state>> /\ late' \subseteq Inserted
    BY <1>0, <1>18 DEF BluesalesEdit, table, remote
  <2>3. \A q \in Processes : pending'[q] \subseteq Inserted /\ work'[q] \subseteq Inserted
    BY <1>0, <1>18 DEF BluesalesEdit, IInv, TypeOK, memory
  <2> QED
    BY <2>1, <2>2, <2>3, QuietStep
<1>19. ASSUME NEW p \in Processes, Recover(p) PROVE IInv'
  <2>1. TypeOK'
    BY <1>19 DEF Recover, ReturnToQueue, IInv, TypeOK, PcStates, memory, remote, budget, history
  <2>2. RowsInv'
    BY <1>19 DEF Recover, ReturnToQueue, IInv, TypeOK, RowsInv, Inserted, memory, remote
  <2>3. HeadOfLine'
    BY <1>19, HeadsStay DEF Recover, ReturnToQueue, IInv, TypeOK
  <2> QED
    BY <2>1, <2>2, <2>3 DEF IInv
<1>20. ASSUME NEW p \in Processes, ReleaseStaleLeases(p) PROVE IInv'
  <2>1. TypeOK'
    BY <1>20 DEF ReleaseStaleLeases, Stale, ReturnToQueue, IInv, TypeOK, PcStates, memory, remote, budget, history
  <2>2. RowsInv'
    BY <1>20 DEF ReleaseStaleLeases, Stale, ReturnToQueue, IInv, TypeOK, RowsInv, Inserted, memory, remote
  <2>3. HeadOfLine'
    BY <1>20, HeadsStay DEF ReleaseStaleLeases, Stale, ReturnToQueue, IInv, TypeOK
  <2> QED
    BY <2>1, <2>2, <2>3 DEF IInv
<1>21. ASSUME NEW p \in Processes, NEW S \in SUBSET Claimable, ClaimBatch(p, S) PROVE IInv'
  <2>0. S \subseteq Inserted /\ S \subseteq Ids
    <3>1. \A i \in Ids : state[i] \in {"PENDING", "RETRY"} => i < nextId
      BY DEF IInv, TypeOK, RowsInv
    <3> QED
      BY <3>1 DEF Claimable, Inserted
  <2>1. TypeOK'
    BY <1>21, <2>0 DEF ClaimBatch, IInv, TypeOK, PcStates, remote, budget, history
  <2>2. RowsInv'
    BY <1>21, <2>0, ZenonT(60) DEF ClaimBatch, IInv, TypeOK, RowsInv, Inserted, remote
  <2>3. HeadOfLine'
    <3> SUFFICES ASSUME NEW i \in Ids, state'[i] = "PROCESSING",
                        NEW j \in Ids, j < i, order'[j] = order'[i], state'[j] \in Active
                 PROVE  FALSE
      BY DEF HeadOfLine, EarlierActive
    <3>1. EarlierActive(i) = {}
      BY <1>21 DEF ClaimBatch, Claimable, IInv, TypeOK, HeadOfLine
    <3>2. order[j] = order[i] /\ state[j] \in Active
      BY <1>21 DEF ClaimBatch, Claimable, IInv, TypeOK
    <3> QED
      BY <3>1, <3>2 DEF EarlierActive
  <2> QED
    BY <2>1, <2>2, <2>3 DEF IInv
<1>22. ASSUME NEW p \in Processes, NEW i \in Ids,
              HandleProbed(p, i) \/ HandleChecked(p, i) \/ PutBack(p, i) \/ CompletionFails(p, i)
       PROVE  IInv'
  <2>1. CASE \E r \in Terminal \cup {"RETRY"} : Close(p, i, r)
    <3>1. /\ work' = [work EXCEPT ![p] = @ \ {i}]
          /\ UNCHANGED <<pc, retries, groups, seen, landed, remote, edits>>
          /\ faults' \in 0..MaxFaults
      BY <1>22, SMTT(40) DEF HandleProbed, HandleChecked, PutBack, CompletionFails, budget, IInv, TypeOK
    <3> QED
      BY <2>1, <3>1, CloseStep
  <2>2. CASE ~(\E r \in Terminal \cup {"RETRY"} : Close(p, i, r))
    <3>1. HandleProbed(p, i) /\ UNCHANGED <<table, pending, history>>
      BY <1>22, <2>2, Zenon DEF HandleProbed, HandleChecked, PutBack, CompletionFails, FailMissing,
                         CompleteChange, ScheduleRetry
    <3>2. TypeOK'
      BY <3>1 DEF HandleProbed, IInv, TypeOK, table, remote, budget, history
    <3> QED
      BY <1>0, <3>1, <3>2, QuietStep DEF HandleProbed, table, remote, IInv, TypeOK
  <2> QED
    BY <2>1, <2>2
<1>23. CASE UNCHANGED vars
  <2>1. TypeOK'
    BY <1>23 DEF vars, table, memory, remote, budget, history, IInv, TypeOK
  <2> QED
    BY <1>0, <1>23, <2>1, QuietStep DEF vars, table, memory, remote
<1> QED
  BY <1>1, <1>2, <1>3, <1>4, <1>5, <1>6, <1>7, <1>8, <1>9, <1>10, <1>11, <1>12, <1>13,
     <1>14, <1>15, <1>16, <1>17, <1>18, <1>19, <1>20, <1>21, <1>22, <1>23
  DEF Next, ProcessStep, Fault

-----------------------------------------------------------------------------
(* What a process has read is among the statuses BlueSales has shown.        *)

\* Row i is owned by process p, which has its answer and has yet to act on it.
Judged(p, i) == pc[p] \in {"probed", "checked"} /\ i \in work[p] /\ Owns(p, i)

ShownInv ==
    /\ \A o \in Orders : bs[o] \in shown[o]
    /\ \A p \in Processes, i \in Ids : Judged(p, i) => seen[p][i] \in shown[order[i]]

LEMMA InitShownInv == Init => ShownInv
  BY DEF Init, ShownInv, Judged

\* Two rows of one order are never in delivery together.
LEMMA OneInDelivery ==
    ASSUME IInv, NEW i \in Ids, NEW j \in Ids,
           state[i] = "PROCESSING", state[j] = "PROCESSING", order[i] = order[j]
    PROVE  i = j
  BY DEF IInv, HeadOfLine, EarlierActive

\* A step that gives nobody an answer and forgets nothing BlueSales has shown.
LEMMA ShownQuiet ==
    ASSUME IInv, ShownInv,
           \A i \in Inserted : order'[i] = order[i],
           \A p \in Processes, i \in Ids :
              Judged(p, i)' => Judged(p, i) /\ seen'[p][i] = seen[p][i],
           \A o \in Orders : shown[o] \subseteq shown'[o] /\ bs'[o] \in shown'[o]
    PROVE  ShownInv'
<1> SUFFICES ASSUME NEW p \in Processes, NEW i \in Ids, Judged(p, i)'
             PROVE  seen'[p][i] \in shown'[order'[i]]
  BY DEF ShownInv
<1>1. Judged(p, i) /\ seen'[p][i] = seen[p][i]
  OBVIOUS
<1>2. i \in Inserted /\ order[i] \in Orders
  BY <1>1 DEF Judged, IInv, RowsInv
<1>3. seen[p][i] \in shown[order[i]]
  BY <1>1 DEF ShownInv
<1> QED
  BY <1>1, <1>2, <1>3

\* A step of one process to a stage without an answer, or to the same stage.
LEMMA ShownSame ==
    ASSUME IInv, ShownInv, NEW p \in Processes, UNCHANGED <<order, shown, bs>>,
           \A i \in Ids, q \in Processes : Owns(q, i)' => Owns(q, i) \/ q = p,
           \A q \in Processes \ {p} : /\ pc'[q] = pc[q] /\ work'[q] = work[q]
                                      /\ seen'[q] = seen[q],
           pc'[p] \notin {"probed", "checked"}
    PROVE  ShownInv'
<1>1. \A q \in Processes, i \in Ids :
         Judged(q, i)' => Judged(q, i) /\ seen'[q][i] = seen[q][i]
  BY DEF Judged
<1> QED
  BY <1>1, ShownQuiet DEF ShownInv

LEMMA ShownClose ==
    ASSUME IInv, ShownInv, NEW p \in Processes, NEW i \in Ids,
           NEW r \in Terminal \cup {"RETRY"}, Close(p, i, r),
           work' = [work EXCEPT ![p] = @ \ {i}], UNCHANGED <<pc, seen, bs>>
    PROVE  ShownInv'
<1>1. UNCHANGED order
  BY DEF Close
<1>2. \A q \in Processes, j \in Ids : Judged(q, j)' => Judged(q, j)
  <2>1. \A q \in Processes : work'[q] \subseteq work[q]
    BY DEF IInv, TypeOK
  <2>2. \A q \in Processes, j \in Ids : Owns(q, j)' => Owns(q, j)
    BY DEF Close, Owns, IInv, TypeOK
  <2> QED
    BY <2>1, <2>2 DEF Judged
<1>3. CASE shown' = shown
  BY <1>1, <1>2, <1>3, ShownQuiet DEF ShownInv
<1>4. CASE shown' # shown
  <2>1. Owns(p, i) /\ shown' = [shown EXCEPT ![order[i]] = {bs[order[i]]}]
    BY <1>4 DEF Close
  <2>2. order[i] \in Orders /\ r \in Terminal /\ state' = [state EXCEPT ![i] = r]
    BY <1>4, <2>1 DEF Close, Owns, IInv, TypeOK, RowsInv, Inserted
  <2>3. \A o \in Orders : shown'[o] = IF o = order[i] THEN {bs[o]} ELSE shown[o]
    BY <2>1, <2>2 DEF IInv, TypeOK
  <2>4. \A o \in Orders : bs'[o] \in shown'[o]
    BY <2>3 DEF ShownInv
  <2>5. ASSUME NEW q \in Processes, NEW j \in Ids, Judged(q, j)'
        PROVE  seen'[q][j] \in shown'[order'[j]]
    <3>1. Judged(q, j) /\ order[j] \in Orders
      BY <1>2, <2>5 DEF Judged, IInv, RowsInv
    <3>2. state'[j] = "PROCESSING" /\ state[j] = "PROCESSING"
      BY <2>5, <3>1 DEF Judged, Owns
    <3>3. j # i
      BY <2>2, <3>2 DEF IInv, TypeOK
    <3>4. order[j] # order[i]
      BY <2>1, <3>2, <3>3, OneInDelivery DEF Owns
    <3> QED
      BY <1>1, <2>3, <3>1, <3>4 DEF ShownInv
  <2> QED
    BY <2>4, <2>5 DEF ShownInv
<1> QED
  BY <1>3, <1>4

\* The rows a batch forgets, and the leases it renews, change nothing here.
LEMMA NextShownInv == IInv /\ ShownInv /\ [Next]_vars => ShownInv'
<1> SUFFICES ASSUME IInv, ShownInv, [Next]_vars PROVE ShownInv'
  OBVIOUS
<1>0. /\ pc \in [Processes -> PcStates] /\ work \in [Processes -> SUBSET Ids]
      /\ seen \in [Processes -> [Ids -> Statuses \cup {None}]]
      /\ bs \in [Orders -> Statuses \cup {None}]
      /\ shown \in [Orders -> SUBSET (Statuses \cup {None})]
      /\ state \in [Ids -> Active \cup Terminal \cup {"NONE", "DELETED"}]
      /\ lease \in [Ids -> Processes \cup {None}]
  BY DEF IInv, TypeOK
<1>1. ASSUME NEW o \in Orders, NEW s \in Statuses, RequestStatus(o, s) PROVE ShownInv'
  <2>1. \A i \in Inserted : order'[i] = order[i]
    BY <1>1 DEF RequestStatus, IInv, TypeOK, Inserted
  <2>2. UNCHANGED <<pc, work, seen, lease, bs, shown>>
    BY <1>1 DEF RequestStatus, memory, remote, history
  <2>3. \A i \in Ids : state'[i] = "PROCESSING" => state[i] = "PROCESSING"
    BY <1>1 DEF RequestStatus, IInv, TypeOK
  <2> QED
    BY <2>1, <2>2, <2>3, ShownQuiet DEF Judged, Owns, ShownInv
<1>2. ASSUME NEW o \in Orders, RemoveOrder(o) PROVE ShownInv'
  <2>1. UNCHANGED <<pc, work, seen, bs, shown, order>>
    BY <1>2 DEF RemoveOrder, memory, remote
  <2>2. \A i \in Ids, q \in Processes : Owns(q, i)' => Owns(q, i)
    BY <1>0, <1>2 DEF RemoveOrder, Owns
  <2> QED
    BY <2>1, <2>2, ShownQuiet DEF Judged, ShownInv
<1>3. ASSUME NEW i \in Ids, BackoffElapses(i) \/ LeaseExpires(i) PROVE ShownInv'
  <2>1. UNCHANGED <<pc, work, seen, bs, shown, order, state, lease>>
    BY <1>3 DEF BackoffElapses, LeaseExpires, memory, remote, history
  <2> QED
    BY <2>1, ShownQuiet DEF Judged, Owns, ShownInv
<1>4. ASSUME NEW p \in Processes,
             Start(p) \/ BeginDelivery(p) \/ FormGroups(p) \/ NextGroup(p) \/ BeginCheck(p)
                \/ EndBatch(p) \/ WriteAnswers(p) \/ ProbeFails(p)
      PROVE  ShownInv'
  <2>1. UNCHANGED <<order, shown, bs, state, lease>>
    BY <1>4 DEF Start, BeginDelivery, FormGroups, NextGroup, BeginCheck, EndBatch, WriteAnswers,
                ProbeFails, table, remote, history
  <2>2. PICK next \in PcStates \ {"probed", "checked"} : pc' = [pc EXCEPT ![p] = next]
    <3>1. CASE Start(p) BY <3>1 DEF Start, PcStates
    <3>2. CASE BeginDelivery(p) BY <3>2 DEF BeginDelivery, PcStates
    <3>3. CASE FormGroups(p) \/ NextGroup(p) \/ BeginCheck(p)
      BY <3>3 DEF FormGroups, NextGroup, BeginCheck, PcStates
    <3>4. CASE EndBatch(p) BY <3>4 DEF EndBatch, PcStates
    <3>5. CASE WriteAnswers(p) \/ ProbeFails(p) BY <3>5 DEF WriteAnswers, ProbeFails, Return, PcStates
    <3> QED
      BY <1>4, <3>1, <3>2, <3>3, <3>4, <3>5
  <2>3. \A q \in Processes \ {p} : work'[q] = work[q] /\ seen'[q] = seen[q]
    BY <1>0, <1>4 DEF Start, BeginDelivery, FormGroups, NextGroup, BeginCheck, EndBatch, WriteAnswers,
                ProbeFails, Forget, Return, memory
  <2> QED
    BY <1>0, <2>1, <2>2, <2>3, ShownSame DEF Owns
<1>5. ASSUME NEW p \in Processes, NEW s \in Statuses, SendGroup(p, s) PROVE ShownInv'
  <2>1. UNCHANGED <<order, shown, bs, state, lease, seen>>
    BY <1>5 DEF SendGroup, remote
  <2>2. pc'[p] \notin {"probed", "checked"} /\ \A q \in Processes \ {p} : pc'[q] = pc[q]
    BY <1>0, <1>5 DEF SendGroup
  <2>3. \A q \in Processes \ {p} : work'[q] = work[q]
    BY <1>0, <1>5 DEF SendGroup
  <2> QED
    BY <2>1, <2>2, <2>3, ShownSame DEF Owns
<1>6. ASSUME NEW p \in Processes, NEW from, NEW to, ReadAnswers(p, from, to) PROVE ShownInv'
  <2>1. UNCHANGED <<order, shown, bs, state, lease>>
    BY <1>6 DEF ReadAnswers, remote
  <2>2. /\ pc' = [pc EXCEPT ![p] = to] /\ work' = [work EXCEPT ![p] = @ \cap Kept(p)]
        /\ seen' = [seen EXCEPT ![p] = [i \in Ids |-> IF i \in work[p] THEN bs[order[i]] ELSE None]]
    BY <1>6 DEF ReadAnswers
  <2>3. ASSUME NEW q \in Processes, NEW i \in Ids, Judged(q, i)'
        PROVE  seen'[q][i] \in shown'[order'[i]]
    <3>1. CASE q = p
      <4>1. i \in work[p] /\ seen'[p][i] = bs[order[i]]
        BY <1>0, <2>2, <2>3, <3>1 DEF Judged
      <4> QED
        BY <2>1, <3>1, <4>1 DEF ShownInv, IInv, RowsInv
    <3>2. CASE q # p
      BY <1>0, <2>1, <2>2, <2>3, <3>2 DEF Judged, Owns, ShownInv
    <3> QED
      BY <3>1, <3>2
  <2> QED
    BY <2>1, <2>3 DEF ShownInv
<1>7. ASSUME NEW p \in Processes, NEW S \in SUBSET Ids, WriteFails(p, S) \/ Crash(p, S)
      PROVE  ShownInv'
  <2>1. UNCHANGED <<order, shown, bs, state, lease>>
    BY <1>7 DEF WriteFails, Crash, table, history
  <2>2. \A q \in Processes \ {p} : work'[q] = work[q] /\ seen'[q] = seen[q] /\ pc'[q] = pc[q]
    BY <1>0, <1>7 DEF WriteFails, Crash, Forget, Return
  <2>3. pc'[p] \notin {"probed", "checked"}
    BY <1>0, <1>7 DEF WriteFails, Crash, Return
  <2> QED
    BY <2>1, <2>2, <2>3, ShownSame DEF Owns
<1>8. ASSUME NEW p \in Processes, StepFails(p) PROVE ShownInv'
  <2>1. UNCHANGED <<order, shown, bs, state, lease>>
    BY <1>8 DEF StepFails, table, remote, history
  <2>2. /\ pc'[p] \notin {"probed", "checked"}
        /\ \A q \in Processes \ {p} : work'[q] = work[q] /\ seen'[q] = seen[q] /\ pc'[q] = pc[q]
    <3>1. CASE pc[p] = "bailing"
      BY <1>0, <1>8, <3>1 DEF StepFails, Forget
    <3>2. CASE pc[p] = "probed"
      BY <1>0, <1>8, <3>2 DEF StepFails
    <3>3. CASE pc[p] \notin {"bailing", "probed"}
      BY <1>0, <1>8, <3>3 DEF StepFails
    <3> QED
      BY <3>1, <3>2, <3>3
  <2> QED
    BY <2>1, <2>2, ShownSame DEF Owns
<1>9. ASSUME NEW S, Store(S), UNCHANGED <<table, pc, work, seen>> PROVE ShownInv'
  <2>1. \A o \in Orders : shown'[o] = shown[o] \cup {bs'[o]}
    BY <1>9 DEF Store
  <2> QED
    BY <1>9, <2>1, ShownQuiet DEF Judged, Owns, table
<1>10. ASSUME NEW o \in Orders, NEW s \in Statuses \cup {None}, BluesalesEdit(o, s) PROVE ShownInv'
  <2>1. UNCHANGED <<table, pc, work, seen>>
    BY <1>10 DEF BluesalesEdit, memory
  <2>2. \A q \in Orders : /\ bs'[q] = IF q = o THEN s ELSE bs[q]
                          /\ shown'[q] = IF q = o THEN shown[q] \cup {s} ELSE shown[q]
    BY <1>0, <1>10 DEF BluesalesEdit
  <2> QED
    BY <2>1, <2>2, ShownQuiet, ZenonT(60) DEF Judged, Owns, table, ShownInv
<1>11. ASSUME NEW p \in Processes, Recover(p) PROVE ShownInv'
  <2>1. UNCHANGED <<order, shown, bs, work, seen>> /\ pc' = [pc EXCEPT ![p] = "idle"]
    BY <1>11 DEF Recover, remote, history
  <2>2. \A i \in Ids, q \in Processes : Owns(q, i)' => Owns(q, i)
    BY <1>0, <1>11 DEF Recover, ReturnToQueue, Owns
  <2> QED
    BY <1>0, <2>1, <2>2, ShownSame
<1>12. ASSUME NEW p \in Processes, ReleaseStaleLeases(p) PROVE ShownInv'
  <2>1. UNCHANGED <<order, shown, bs, pc, work, seen>>
    BY <1>12 DEF ReleaseStaleLeases, memory, remote, history
  <2>2. \A i \in Ids, q \in Processes : Owns(q, i)' => Owns(q, i)
    BY <1>0, <1>12 DEF ReleaseStaleLeases, ReturnToQueue, Owns
  <2> QED
    BY <2>1, <2>2, ShownQuiet DEF Judged, ShownInv
<1>13. ASSUME NEW p \in Processes, NEW S \in SUBSET Claimable, ClaimBatch(p, S) PROVE ShownInv'
  <2>1. UNCHANGED <<order, shown, bs, work, seen>> /\ pc' = [pc EXCEPT ![p] = "claimed"]
    BY <1>13 DEF ClaimBatch, remote, history
  <2>2. \A i \in Ids, q \in Processes : Owns(q, i)' => Owns(q, i) \/ q = p
    BY <1>0, <1>13 DEF ClaimBatch, Claimable, Owns
  <2> QED
    BY <1>0, <2>1, <2>2, ShownSame
<1>14. ASSUME NEW p \in Processes, NEW i \in Ids,
              HandleProbed(p, i) \/ HandleChecked(p, i) \/ PutBack(p, i) \/ CompletionFails(p, i)
       PROVE  ShownInv'
  <2>1. UNCHANGED <<pc, seen, bs>> /\ work' = [work EXCEPT ![p] = @ \ {i}]
    BY <1>14 DEF HandleProbed, HandleChecked, PutBack, CompletionFails, remote
  <2>2. CASE \E r \in Terminal \cup {"RETRY"} : Close(p, i, r)
    BY <2>1, <2>2, ShownClose
  <2>3. CASE ~(\E r \in Terminal \cup {"RETRY"} : Close(p, i, r))
    <3>1. UNCHANGED <<table, pending, history>>
      BY <1>14, <2>3, Zenon DEF HandleProbed, HandleChecked, PutBack, CompletionFails, FailMissing,
                         CompleteChange, ScheduleRetry
    <3> QED
      BY <1>0, <2>1, <3>1, ShownQuiet DEF Judged, Owns, ShownInv, table, history
  <2> QED
    BY <2>2, <2>3
<1>15. CASE UNCHANGED vars
  BY <1>15, ShownQuiet DEF vars, table, memory, remote, history, Judged, Owns, ShownInv
<1>16. ASSUME NEW p \in Processes, NEW S \in SUBSET Ids, BluesalesStores(p, S) PROVE ShownInv'
  BY <1>9, <1>16 DEF BluesalesStores
<1>17. ASSUME NEW i \in Ids, LateWriteLands(i) PROVE ShownInv'
  BY <1>9, <1>17 DEF LateWriteLands, memory
<1> QED
  BY <1>1, <1>2, <1>3, <1>4, <1>5, <1>6, <1>7, <1>8, <1>10, <1>11, <1>12, <1>13, <1>14, <1>15,
     <1>16, <1>17
  DEF Next, ProcessStep, Fault, ProbeAnswers, CheckAnswers

-----------------------------------------------------------------------------
(* Every step is a step of StatusDelivery, or none of its business.          *)

PhaseOf == [i \in Ids |-> CASE state[i] \in Active   -> "open"
                            [] state[i] = "SUCCEEDED" -> "delivered"
                            [] state[i] = "FAILED"    -> "dropped"
                            [] OTHER                  -> "none"]

LEMMA InitRefines == Init => Delivery!Init
<1> SUFFICES ASSUME Init PROVE Delivery!Init
  OBVIOUS
<1>1. PhaseOf = [i \in Ids |-> "none"]
  BY DEF Init, PhaseOf
<1> QED
  BY <1>1 DEF Init, PhaseOf, Delivery!Init, Delivery!Ids

\* A row that stays open, or keeps its state, keeps its phase.
LEMMA Stutters ==
    ASSUME UNCHANGED <<nextId, order, target, bs, shown>>,
           \A i \in Ids : state'[i] = state[i] \/ (state[i] \in Active /\ state'[i] \in Active)
    PROVE  UNCHANGED Delivery!vars
<1>1. \A i \in Ids : PhaseOf'[i] = PhaseOf[i]
  BY DEF PhaseOf
<1>2. PhaseOf' = PhaseOf
  BY <1>1 DEF PhaseOf
<1> QED
  BY <1>2 DEF Delivery!vars, PhaseOf

LEMMA ChangesBluesales ==
    ASSUME UNCHANGED <<nextId, order, target, state>>,
           bs' \in [Orders -> Statuses \cup {None}],
           shown' = [o \in Orders |-> shown[o] \cup {bs'[o]}]
    PROVE  Delivery!Next
<1>1. PhaseOf' = PhaseOf
  BY DEF PhaseOf
<1>2. Delivery!RemoteChange
  BY <1>1 DEF PhaseOf, Delivery!RemoteChange
<1> QED
  BY <1>2 DEF Delivery!Next

\* A row closes as delivered or dropped because of what its process has read.
LEMMA CloseRefines ==
    ASSUME IInv, ShownInv, NEW p \in Processes, NEW i \in Ids,
           NEW r \in Terminal \cup {"RETRY"}, Close(p, i, r), bs' = bs,
           r \in Terminal => pc[p] \in {"probed", "checked"} /\ i \in work[p],
           r = "SUCCEEDED" => seen[p][i] = target[i],
           r = "FAILED" => seen[p][i] = None
    PROVE  [Delivery!Next]_(Delivery!vars)
<1>1. UNCHANGED <<nextId, order, target>>
  BY DEF Close
<1>2. state \in [Ids -> Active \cup Terminal \cup {"NONE", "DELETED"}]
  BY DEF IInv, TypeOK
<1>3. CASE ~Owns(p, i) \/ r = "RETRY"
  <2>1. \A j \in Ids : state'[j] = state[j] \/ (state[j] \in Active /\ state'[j] \in Active)
    BY <1>2, <1>3 DEF Close, Owns
  <2>2. shown' = shown
    BY <1>3 DEF Close
  <2> QED
    BY <1>1, <2>1, <2>2, Stutters
<1>4. CASE Owns(p, i) /\ r \in Terminal
  <2> DEFINE result == IF r = "SUCCEEDED" THEN "delivered" ELSE "dropped"
  <2>1. /\ state' = [state EXCEPT ![i] = r] /\ state[i] = "PROCESSING"
        /\ shown' = [shown EXCEPT ![order[i]] = {bs[order[i]]}]
    BY <1>4 DEF Close, Owns
  <2>2. seen[p][i] \in shown[order[i]]
    BY <1>4 DEF ShownInv, Judged
  <2>3. \A j \in Ids : PhaseOf'[j] = IF j = i THEN result ELSE PhaseOf[j]
    BY <1>2, <1>4, <2>1 DEF PhaseOf
  <2>4. PhaseOf' = [PhaseOf EXCEPT ![i] = result]
    BY <2>3 DEF PhaseOf
  <2>5. PhaseOf[i] = "open"
    BY <2>1 DEF PhaseOf
  <2>6. ASSUME NEW j \in Ids, j < i, order[j] = order[i] PROVE PhaseOf[j] # "open"
    <3>1. state[j] \notin Active
      BY <2>1, <2>6 DEF IInv, HeadOfLine, EarlierActive
    <3> QED
      BY <3>1 DEF PhaseOf
  <2>7. Delivery!IsHead(i)
    BY <2>5, <2>6 DEF Delivery!IsHead, Delivery!Ids, PhaseOf
  <2>8. Delivery!CloseHead(i, result)
    BY <1>1, <2>1, <2>4, <2>7 DEF Delivery!CloseHead, PhaseOf
  <2>9. CASE r = "SUCCEEDED"
    BY <2>2, <2>8, <2>9 DEF Delivery!Deliver, Delivery!Next, Delivery!Ids
  <2>10. CASE r = "FAILED"
    BY <2>2, <2>8, <2>10 DEF Delivery!Drop, Delivery!Next, Delivery!Ids
  <2> QED
    BY <1>4, <2>9, <2>10
<1> QED
  BY <1>3, <1>4

LEMMA NextRefines == IInv /\ IInv' /\ ShownInv /\ [Next]_vars => [Delivery!Next]_(Delivery!vars)
<1> SUFFICES ASSUME IInv, IInv', ShownInv, [Next]_vars PROVE [Delivery!Next]_(Delivery!vars)
  OBVIOUS
<1>0. /\ state \in [Ids -> Active \cup Terminal \cup {"NONE", "DELETED"}]
      /\ nextId \in 1..(MaxChanges + 1)
      /\ bs \in [Orders -> Statuses \cup {None}] /\ bs' \in [Orders -> Statuses \cup {None}]
      /\ shown \in [Orders -> SUBSET (Statuses \cup {None})]
  BY DEF IInv, TypeOK
<1>1. ASSUME NEW o \in Orders, NEW s \in Statuses, RequestStatus(o, s)
      PROVE  Delivery!Next
  <2>1. /\ nextId \in Ids /\ nextId' = nextId + 1 /\ order' = [order EXCEPT ![nextId] = o]
        /\ target' = [target EXCEPT ![nextId] = s] /\ state' = [state EXCEPT ![nextId] = "PENDING"]
        /\ UNCHANGED <<bs, shown>>
    BY <1>1 DEF RequestStatus, remote, history
  <2>2. \A j \in Ids : PhaseOf'[j] = IF j = nextId THEN "open" ELSE PhaseOf[j]
    BY <1>0, <2>1 DEF PhaseOf
  <2>3. PhaseOf' = [PhaseOf EXCEPT ![nextId] = "open"]
    BY <2>2 DEF PhaseOf
  <2>4. Delivery!Request(o, s)
    BY <2>1, <2>3 DEF Delivery!Request, Delivery!Ids, PhaseOf
  <2> QED
    BY <2>4 DEF Delivery!Next
<1>2. ASSUME NEW o \in Orders, RemoveOrder(o) PROVE Delivery!Next
  <2>1. /\ state' = [i \in Ids |-> IF order[i] = o THEN "DELETED" ELSE state[i]]
        /\ UNCHANGED <<nextId, order, target, bs, shown>>
    BY <1>2 DEF RemoveOrder, remote
  <2>2. \A j \in Ids : PhaseOf'[j] = IF order[j] = o THEN "none" ELSE PhaseOf[j]
    BY <1>0, <2>1 DEF PhaseOf
  <2>3. PhaseOf' = [j \in Ids |-> IF order[j] = o THEN "none" ELSE PhaseOf[j]]
    BY <2>2 DEF PhaseOf
  <2>4. Delivery!Remove(o)
    BY <2>1, <2>3 DEF Delivery!Remove, Delivery!Ids, PhaseOf
  <2> QED
    BY <2>4 DEF Delivery!Next
<1>3. ASSUME NEW i \in Ids, BackoffElapses(i) \/ LeaseExpires(i) PROVE UNCHANGED Delivery!vars
  <2>1. UNCHANGED <<nextId, order, target, state, bs, shown>>
    BY <1>3 DEF BackoffElapses, LeaseExpires, remote, history
  <2> QED
    BY <2>1, Stutters
<1>4. ASSUME NEW p \in Processes,
             \/ Start(p) \/ BeginDelivery(p) \/ FormGroups(p) \/ NextGroup(p) \/ BeginCheck(p)
             \/ EndBatch(p) \/ WriteAnswers(p) \/ ProbeFails(p) \/ StepFails(p)
             \/ ProbeAnswers(p) \/ CheckAnswers(p)
             \/ \E s \in Statuses : SendGroup(p, s)
             \/ \E S \in SUBSET Ids : WriteFails(p, S) \/ Crash(p, S)
      PROVE  UNCHANGED Delivery!vars
  <2>1. UNCHANGED <<nextId, order, target, state, bs, shown>>
    BY <1>4 DEF Start, BeginDelivery, FormGroups, NextGroup, BeginCheck, EndBatch, WriteAnswers,
                ProbeFails, StepFails, ProbeAnswers, CheckAnswers, ReadAnswers, SendGroup,
                WriteFails, Crash, table, remote, history
  <2> QED
    BY <2>1, Stutters
<1>5. ASSUME NEW p \in Processes, Recover(p) \/ ReleaseStaleLeases(p) PROVE UNCHANGED Delivery!vars
  <2>1. UNCHANGED <<nextId, order, target, bs, shown>>
    BY <1>5 DEF Recover, ReleaseStaleLeases, remote, history
  <2>2. \A i \in Ids : state'[i] = state[i] \/ (state[i] \in Active /\ state'[i] \in Active)
    BY <1>5, ZenonT(60) DEF Recover, ReleaseStaleLeases, ReturnToQueue, Stale
  <2> QED
    BY <2>1, <2>2, Stutters
<1>6. ASSUME NEW p \in Processes, NEW S \in SUBSET Claimable, ClaimBatch(p, S)
      PROVE  UNCHANGED Delivery!vars
  <2>1. UNCHANGED <<nextId, order, target, bs, shown>>
    BY <1>6 DEF ClaimBatch, remote, history
  <2>2. \A i \in Ids : state'[i] = state[i] \/ (state[i] \in Active /\ state'[i] \in Active)
    BY <1>6 DEF ClaimBatch, Claimable
  <2> QED
    BY <2>1, <2>2, Stutters
<1>7. ASSUME NEW p \in Processes, NEW i \in Ids,
             HandleProbed(p, i) \/ HandleChecked(p, i) \/ PutBack(p, i) \/ CompletionFails(p, i)
      PROVE  [Delivery!Next]_(Delivery!vars)
  <2>1. bs' = bs /\ i \in work[p]
    BY <1>7 DEF HandleProbed, HandleChecked, PutBack, CompletionFails, remote
  <2>2. CASE Close(p, i, "RETRY")
    BY <2>1, <2>2, CloseRefines
  <2>3. CASE UNCHANGED <<table, pending, history>>
    BY <2>1, <2>3, Stutters DEF table, history
  <2>4. CASE ~Close(p, i, "RETRY") /\ ~UNCHANGED <<table, pending, history>>
    <3>1. pc[p] \in {"probed", "checked"}
      BY <1>7, <2>4, Zenon DEF HandleProbed, HandleChecked, PutBack, CompletionFails, ScheduleRetry
    <3>2. target[i] # None
      BY <2>1 DEF IInv, RowsInv
    <3>3. \/ seen[p][i] = target[i] /\ Close(p, i, "SUCCEEDED")
          \/ seen[p][i] = None /\ Close(p, i, "FAILED")
      <4>1. CASE HandleProbed(p, i)
        BY <2>4, <3>2, <4>1 DEF HandleProbed, FailMissing, CompleteChange, ScheduleRetry
      <4>2. CASE HandleChecked(p, i)
        BY <2>4, <3>2, <4>2 DEF HandleChecked, FailMissing, CompleteChange, ScheduleRetry
      <4> QED
        BY <1>7, <2>4, <4>1, <4>2, Zenon DEF PutBack, CompletionFails, ScheduleRetry
    <3> QED
      BY <2>1, <3>1, <3>3, CloseRefines
  <2> QED
    BY <2>2, <2>3, <2>4
<1>8. ASSUME NEW p \in Processes, NEW S \in SUBSET Ids, BluesalesStores(p, S) PROVE Delivery!Next
  <2>1. UNCHANGED <<nextId, order, target, state>> /\ Store(S)
    BY <1>8 DEF BluesalesStores, table
  <2> QED
    BY <1>0, <2>1, ChangesBluesales DEF Store
<1>9. ASSUME NEW i \in Ids, LateWriteLands(i) PROVE Delivery!Next
  <2>1. UNCHANGED <<nextId, order, target, state>> /\ Store({i})
    BY <1>9 DEF LateWriteLands, table
  <2> QED
    BY <1>0, <2>1, ChangesBluesales DEF Store
<1>10. ASSUME NEW o \in Orders, NEW s \in Statuses \cup {None}, BluesalesEdit(o, s)
       PROVE  Delivery!Next
  <2>1. UNCHANGED <<nextId, order, target, state>>
    BY <1>10 DEF BluesalesEdit, table
  <2>2. /\ bs' = [bs EXCEPT ![o] = s] /\ shown' = [shown EXCEPT ![o] = @ \cup {s}]
    BY <1>10 DEF BluesalesEdit
  <2>3. \A q \in Orders : shown'[q] = shown[q] \cup {bs'[q]}
    BY <1>0, <2>2 DEF ShownInv
  <2>4. shown' = [q \in Orders |-> shown[q] \cup {bs'[q]}]
    BY <1>0, <2>2, <2>3
  <2> QED
    BY <1>0, <2>1, <2>4, ChangesBluesales
<1>11. CASE UNCHANGED vars
  <2>1. UNCHANGED <<nextId, order, target, state, bs, shown>>
    BY <1>11 DEF vars, table, remote, history
  <2> QED
    BY <2>1, Stutters
<1> QED
  BY <1>1, <1>2, <1>3, <1>4, <1>5, <1>6, <1>7, <1>8, <1>9, <1>10, <1>11 DEF Next, ProcessStep, Fault

-----------------------------------------------------------------------------
(* After an attempt whose outcome is unknown a row is read, or left alone.   *)

Held(p, i) == i \in pending[p] /\ Owns(p, i)

\* Where process p keeps a row of its batch whose last write may have landed.
Cautious(p, i) ==
    /\ pc[p] = "claimed" => i \in retries[p]
    /\ pc[p] \in {"probing", "probeFailed"} => i \in work[p]
    /\ pc[p] # "probed"
    /\ pc[p] \in {"writing", "sent", "writeFailed"} => target[i] \notin groups[p]

UnsureInv ==
    /\ \A i \in unsure : state[i] \in {"PROCESSING", "RETRY"}
    /\ \A p \in Processes, i \in unsure : Held(p, i) => Cautious(p, i)

LEMMA InitUnsureInv == Init => UnsureInv
  BY DEF Init, UnsureInv

LEMMA UnsureStep ==
    ASSUME UnsureInv, unsure' \subseteq unsure,
           \A i \in unsure' : state'[i] \in {"PROCESSING", "RETRY"},
           \A p \in Processes, i \in unsure' :
              Held(p, i)' => Held(p, i) /\ (Cautious(p, i) => Cautious(p, i)')
    PROVE  UnsureInv'
  BY DEF UnsureInv

\* A step of process p that moves no row and makes none unsure.
LEMMA UnsureLocal ==
    ASSUME UnsureInv, NEW p \in Processes, unsure' \subseteq unsure,
           UNCHANGED <<state, lease, target>>,
           \A q \in Processes \ {p} : /\ pc'[q] = pc[q] /\ pending'[q] = pending[q]
                                      /\ retries'[q] = retries[q] /\ groups'[q] = groups[q]
                                      /\ work'[q] = work[q],
           pending'[p] \subseteq pending[p],
           \A i \in unsure' : Held(p, i) /\ Held(p, i)' /\ Cautious(p, i) => Cautious(p, i)'
    PROVE  UnsureInv'
<1>1. ASSUME NEW q \in Processes, NEW i \in unsure', Held(q, i)'
      PROVE  Held(q, i) /\ (Cautious(q, i) => Cautious(q, i)')
  <2>1. CASE q = p
    BY <1>1, <2>1 DEF Held, Owns
  <2>2. CASE q # p
    BY <1>1, <2>2 DEF Held, Owns, Cautious
  <2> QED
    BY <2>1, <2>2
<1>2. \A i \in unsure' : state'[i] \in {"PROCESSING", "RETRY"}
  BY DEF UnsureInv
<1> QED
  BY <1>1, <1>2, UnsureStep

LEMMA UnsureClose ==
    ASSUME IInv, UnsureInv, NEW p \in Processes, NEW i \in Ids,
           NEW r \in Terminal \cup {"RETRY"}, Close(p, i, r),
           work' = [work EXCEPT ![p] = @ \ {i}],
           UNCHANGED <<pc, retries, groups>>
    PROVE  UnsureInv'
<1>0. /\ state \in [Ids -> Active \cup Terminal \cup {"NONE", "DELETED"}]
      /\ lease \in [Ids -> Processes \cup {None}] /\ unsure \in SUBSET Ids
      /\ pending \in [Processes -> SUBSET Ids] /\ work \in [Processes -> SUBSET Ids]
  BY DEF IInv, TypeOK
<1>1. /\ UNCHANGED target /\ pending' = [pending EXCEPT ![p] = @ \ {i}] /\ unsure' \subseteq unsure
  BY DEF Close
<1>2. \A j \in unsure' : state'[j] \in {"PROCESSING", "RETRY"}
  <2>1. CASE Owns(p, i)
    BY <1>0, <1>1, <2>1 DEF Close, UnsureInv
  <2>2. CASE ~Owns(p, i)
    BY <1>1, <2>2 DEF Close, UnsureInv
  <2> QED
    BY <2>1, <2>2
<1>3. ASSUME NEW q \in Processes, NEW j \in unsure', Held(q, j)'
      PROVE  Held(q, j) /\ (Cautious(q, j) => Cautious(q, j)')
  <2>1. j \in Ids
    BY <1>0, <1>1
  <2>2. q # p \/ j # i
    BY <1>0, <1>1, <1>3 DEF Held
  <2>3. Owns(q, j)' => Owns(q, j)
    BY <1>0, <2>1 DEF Close, Owns
  <2>4. pending'[q] \subseteq pending[q]
    BY <1>0, <1>1
  <2>5. j \in work'[q] <=> j \in work[q]
    BY <1>0, <2>2
  <2> QED
    BY <1>1, <1>3, <2>3, <2>4, <2>5 DEF Held, Cautious
<1> QED
  BY <1>1, <1>2, <1>3, UnsureStep

LEMMA NextUnsureInv == IInv /\ UnsureInv /\ [Next]_vars => UnsureInv'
<1> SUFFICES ASSUME IInv, UnsureInv, [Next]_vars PROVE UnsureInv'
  OBVIOUS
<1>0. /\ pc \in [Processes -> PcStates] /\ work \in [Processes -> SUBSET Ids]
      /\ pending \in [Processes -> SUBSET Ids] /\ retries \in [Processes -> SUBSET Ids]
      /\ groups \in [Processes -> SUBSET Statuses]
      /\ state \in [Ids -> Active \cup Terminal \cup {"NONE", "DELETED"}]
      /\ lease \in [Ids -> Processes \cup {None}] /\ unsure \in SUBSET Ids
      /\ target \in [Ids -> Statuses \cup {None}]
  BY DEF IInv, TypeOK
<1>1. ASSUME NEW o \in Orders, NEW s \in Statuses, RequestStatus(o, s) PROVE UnsureInv'
  <2>1. nextId \in Ids /\ nextId \notin unsure
    BY <1>1 DEF RequestStatus, UnsureInv, IInv, RowsInv
  <2>2. UNCHANGED <<pc, pending, retries, work, groups, lease, unsure>>
    BY <1>1 DEF RequestStatus, memory, history
  <2>3. \A i \in unsure : state'[i] = state[i] /\ target'[i] = target[i]
    BY <1>0, <1>1, <2>1 DEF RequestStatus
  <2> QED
    BY <2>2, <2>3, UnsureStep DEF Held, Owns, Cautious, UnsureInv
<1>2. ASSUME NEW o \in Orders, RemoveOrder(o) PROVE UnsureInv'
  <2>1. UNCHANGED <<pc, pending, retries, work, groups, target>>
    BY <1>2 DEF RemoveOrder, memory
  <2>2. unsure' \subseteq unsure /\ \A i \in unsure' : state'[i] = state[i] /\ lease'[i] = lease[i]
    BY <1>0, <1>2 DEF RemoveOrder
  <2> QED
    BY <2>1, <2>2, UnsureStep DEF Held, Owns, Cautious, UnsureInv
<1>3. ASSUME UNCHANGED <<pc, pending, retries, work, groups, target, state, lease, unsure>>
      PROVE  UnsureInv'
  BY <1>3 DEF UnsureInv, Held, Owns, Cautious
<1>4. ASSUME NEW p \in Processes, Start(p) PROVE UnsureInv'
  <2>1. UNCHANGED <<state, lease, target, unsure, pending, retries, work, groups>>
    BY <1>4 DEF Start, table, history
  <2>2. pc' = [pc EXCEPT ![p] = "recovering"]
    BY <1>4 DEF Start
  <2> QED
    BY <1>0, <2>1, <2>2, UnsureLocal DEF Cautious
<1>5. ASSUME NEW p \in Processes, Recover(p) PROVE UnsureInv'
  <2>1. UNCHANGED <<target, unsure, pending, retries, work, groups>>
    BY <1>5 DEF Recover, history
  <2>2. pc' = [pc EXCEPT ![p] = "idle"]
    BY <1>5 DEF Recover
  <2>3. \A i \in Ids : /\ state'[i] = IF state[i] = "PROCESSING" THEN "RETRY" ELSE state[i]
                       /\ \A q \in Processes : ~Owns(q, i)'
    BY <1>0, <1>5 DEF Recover, ReturnToQueue, Owns
  <2> QED
    BY <1>0, <2>1, <2>3, UnsureStep DEF Held, UnsureInv
<1>6. ASSUME NEW p \in Processes, ReleaseStaleLeases(p) PROVE UnsureInv'
  <2>1. UNCHANGED <<target, unsure, pending, retries, work, groups, pc>>
    BY <1>6 DEF ReleaseStaleLeases, memory, history
  <2>2. \A i \in Ids : /\ state'[i] = state[i] \/ state'[i] = "RETRY"
                       /\ \A q \in Processes : Owns(q, i)' => Owns(q, i)
    BY <1>0, <1>6 DEF ReleaseStaleLeases, ReturnToQueue, Owns
  <2> QED
    BY <1>0, <2>1, <2>2, UnsureStep DEF Held, UnsureInv, Cautious
<1>7. ASSUME NEW p \in Processes, NEW S \in SUBSET Claimable, ClaimBatch(p, S) PROVE UnsureInv'
  <2>1. /\ UNCHANGED <<target, unsure, work, groups>>
        /\ pc' = [pc EXCEPT ![p] = "claimed"] /\ pending' = [pending EXCEPT ![p] = S]
        /\ retries' = [retries EXCEPT ![p] = {i \in S : state[i] = "RETRY"}]
        /\ S \subseteq Ids
    BY <1>7 DEF ClaimBatch, history, Claimable
  <2>2. \A i \in Ids : /\ state'[i] = IF i \in S THEN "PROCESSING" ELSE state[i]
                       /\ lease'[i] = IF i \in S THEN p ELSE lease[i]
    BY <1>7 DEF ClaimBatch
  <2>3. \A i \in unsure' : state'[i] \in {"PROCESSING", "RETRY"}
    BY <1>0, <2>1, <2>2 DEF UnsureInv
  <2>4. ASSUME NEW q \in Processes, NEW i \in unsure', Held(q, i)' PROVE Cautious(q, i)'
    <3>1. CASE q = p
      <4>1. i \in S /\ state[i] = "RETRY"
        BY <1>0, <2>1, <2>4, <3>1 DEF Held, UnsureInv, Claimable
      <4> QED
        BY <1>0, <2>1, <3>1, <4>1 DEF Cautious
    <3>2. CASE q # p
      <4>1. Held(q, i)
        BY <1>0, <2>1, <2>2, <2>4, <3>2 DEF Held, Owns
      <4>2. Cautious(q, i)
        BY <2>1, <4>1 DEF UnsureInv
      <4> QED
        BY <1>0, <2>1, <3>2, <4>2 DEF Cautious
    <3> QED
      BY <3>1, <3>2
  <2> QED
    BY <2>3, <2>4 DEF UnsureInv
<1>8. ASSUME NEW p \in Processes, BeginDelivery(p) PROVE UnsureInv'
  <2>1. UNCHANGED <<state, lease, target, unsure, retries>>
    BY <1>8 DEF BeginDelivery, history
  <2>2. pending' = [pending EXCEPT ![p] = Kept(p)] /\ pc[p] = "claimed"
    BY <1>8 DEF BeginDelivery, RetainOwned
  <2>3. \/ /\ Kept(p) \cap retries[p] # {}
           /\ pc' = [pc EXCEPT ![p] = "probing"]
           /\ work' = [work EXCEPT ![p] = Kept(p) \cap retries[p]] /\ groups' = groups
        \/ /\ Kept(p) \cap retries[p] = {}
           /\ pc' = [pc EXCEPT ![p] = "writing"] /\ work' = work
           /\ groups' = [groups EXCEPT ![p] = GroupsOf(Kept(p))]
    BY <1>8 DEF BeginDelivery
  <2>4. Kept(p) \subseteq pending[p]
    BY DEF Kept
  <2>5. \A i \in unsure : Held(p, i)' => i \in Kept(p)
    BY <1>0, <2>2 DEF Held
  <2>6. \A i \in unsure' : Held(p, i) /\ Held(p, i)' /\ Cautious(p, i) => Cautious(p, i)'
    <3> SUFFICES ASSUME NEW i \in unsure', Held(p, i), Held(p, i)', Cautious(p, i)
                 PROVE  Cautious(p, i)'
      OBVIOUS
    <3>1. i \in Kept(p) \cap retries[p]
      BY <2>1, <2>2, <2>5 DEF Cautious
    <3> QED
      BY <1>0, <2>3, <3>1 DEF Cautious
  <2>7. \A q \in Processes \ {p} : /\ pc'[q] = pc[q] /\ pending'[q] = pending[q]
                                   /\ groups'[q] = groups[q] /\ work'[q] = work[q]
    BY <1>0, <2>2, <2>3
  <2>8. pending'[p] \subseteq pending[p]
    BY <1>0, <2>2, <2>4
  <2> QED
    BY <2>1, <2>6, <2>7, <2>8, UnsureLocal
<1>9. ASSUME NEW p \in Processes, ProbeAnswers(p) \/ CheckAnswers(p) PROVE UnsureInv'
  <2>1. UNCHANGED <<state, lease, target, retries, groups>>
    BY <1>9 DEF ProbeAnswers, CheckAnswers, ReadAnswers
  <2>2. /\ unsure' = unsure \ work[p] /\ pending' = [pending EXCEPT ![p] = Kept(p)]
        /\ work' = [work EXCEPT ![p] = @ \cap Kept(p)]
    BY <1>9 DEF ProbeAnswers, CheckAnswers, ReadAnswers, RetainOwned
  <2>3. \/ pc[p] = "probing" /\ pc' = [pc EXCEPT ![p] = "probed"]
        \/ pc[p] = "checking" /\ pc' = [pc EXCEPT ![p] = "checked"]
    BY <1>9 DEF ProbeAnswers, CheckAnswers, ReadAnswers
  <2>4. pending'[p] \subseteq pending[p]
    BY <1>0, <2>2 DEF Kept
  <2>5. \A i \in unsure' : Held(p, i) /\ Held(p, i)' /\ Cautious(p, i) => Cautious(p, i)'
    BY <1>0, <2>2, <2>3 DEF Cautious
  <2>6. \A q \in Processes \ {p} : /\ pc'[q] = pc[q] /\ pending'[q] = pending[q]
                                   /\ work'[q] = work[q]
    BY <1>0, <2>2, <2>3
  <2> QED
    BY <2>1, <2>2, <2>4, <2>5, <2>6, UnsureLocal
<1>10. ASSUME NEW p \in Processes, FormGroups(p) \/ NextGroup(p) PROVE UnsureInv'
  <2>1. UNCHANGED <<state, lease, target, unsure, pending, retries, work>>
    BY <1>10 DEF FormGroups, NextGroup, table, history
  <2>2. pc' = [pc EXCEPT ![p] = "writing"]
    BY <1>10 DEF FormGroups, NextGroup
  <2>3. \/ /\ pc[p] \in {"probed", "probeFailed"} /\ work[p] = {}
           /\ groups' = [groups EXCEPT ![p] = GroupsOf(pending[p])]
        \/ pc[p] = "writeFailed" /\ groups' = groups
    BY <1>10 DEF FormGroups, NextGroup
  <2>4. \A i \in unsure' : Held(p, i) /\ Held(p, i)' /\ Cautious(p, i) => Cautious(p, i)'
    BY <1>0, <2>1, <2>2, <2>3 DEF Cautious
  <2>5. \A q \in Processes \ {p} : pc'[q] = pc[q] /\ groups'[q] = groups[q]
    BY <1>0, <2>2, <2>3
  <2> QED
    BY <2>1, <2>4, <2>5, UnsureLocal
<1>11. ASSUME NEW p \in Processes, NEW s \in Statuses, SendGroup(p, s) PROVE UnsureInv'
  <2> DEFINE owned == {i \in Kept(p) : target[i] = s}
  <2>1. /\ UNCHANGED <<state, lease, target, retries>> /\ pc[p] = "writing" /\ s \in groups[p]
        /\ pending' = [pending EXCEPT ![p] = Kept(p)]
        /\ groups' = [groups EXCEPT ![p] = @ \ {s}]
    BY <1>11 DEF SendGroup, RetainOwned
  <2>2. unsure' = unsure \cup owned /\ (pc'[p] \in {"writing", "sent"})
    <3>1. CASE owned = {}
      BY <1>0, <1>11, <2>1, <3>1 DEF SendGroup
    <3>2. CASE owned # {}
      BY <1>0, <1>11, <3>2 DEF SendGroup
    <3> QED
      BY <3>1, <3>2
  <2>3. \A q \in Processes \ {p} : pc'[q] = pc[q] /\ work'[q] = work[q]
    BY <1>0, <1>11 DEF SendGroup
  <2>4. \A i \in owned : Owns(p, i) /\ target[i] = s /\ i \in pending[p]
    BY DEF Kept
  <2> HIDE DEF owned
  <2>5. \A i \in unsure' : state'[i] \in {"PROCESSING", "RETRY"}
    BY <2>1, <2>2, <2>4 DEF UnsureInv, Owns
  <2>6. ASSUME NEW q \in Processes, NEW i \in unsure', Held(q, i)' PROVE Cautious(q, i)'
    <3>1. CASE q = p
      <4>1. Held(p, i)
        BY <1>0, <2>1, <2>6, <3>1 DEF Held, Owns, Kept
      <4>2. target[i] \notin groups'[p]
        BY <1>0, <2>1, <2>2, <2>4, <4>1 DEF UnsureInv, Cautious
      <4> QED
        BY <2>1, <2>2, <3>1, <4>2 DEF Cautious
    <3>2. CASE q # p
      <4>1. Held(q, i)
        BY <1>0, <2>1, <2>6, <3>2 DEF Held, Owns
      <4>2. i \in unsure
        BY <2>2, <2>4, <3>2, <4>1 DEF Held, Owns
      <4>3. Cautious(q, i)
        BY <4>1, <4>2 DEF UnsureInv
      <4> QED
        BY <1>0, <2>1, <2>3, <3>2, <4>3 DEF Cautious
    <3> QED
      BY <3>1, <3>2
  <2> QED
    BY <2>5, <2>6 DEF UnsureInv
<1>12. ASSUME NEW p \in Processes, WriteAnswers(p) \/ (\E S \in SUBSET Ids : WriteFails(p, S))
       PROVE  UnsureInv'
  <2>1. UNCHANGED <<state, lease, target, unsure, pending, retries, groups>>
    BY <1>12 DEF WriteAnswers, WriteFails, table, history
  <2>2. /\ pc[p] = "sent"
        /\ \/ pc' = [pc EXCEPT ![p] = "writing"]
           \/ pc' = [pc EXCEPT ![p] = "writeFailed"]
    BY <1>12 DEF WriteAnswers, WriteFails, Return
  <2>3. \A q \in Processes \ {p} : pc'[q] = pc[q] /\ work'[q] = work[q]
    BY <1>0, <1>12 DEF WriteAnswers, WriteFails, Return
  <2>4. \A i \in unsure' : Held(p, i) /\ Held(p, i)' /\ Cautious(p, i) => Cautious(p, i)'
    BY <1>0, <2>1, <2>2 DEF Cautious
  <2> QED
    BY <2>1, <2>3, <2>4, UnsureLocal
<1>13. ASSUME NEW p \in Processes, ProbeFails(p) PROVE UnsureInv'
  <2>1. UNCHANGED <<state, lease, target, unsure, pending, retries, groups, work>>
    BY <1>13 DEF ProbeFails, table, history
  <2>2. pc[p] = "probing" /\ pc' = [pc EXCEPT ![p] = "probeFailed"]
    BY <1>13 DEF ProbeFails
  <2> QED
    BY <1>0, <2>1, <2>2, UnsureLocal DEF Cautious
<1>14. ASSUME NEW p \in Processes, BeginCheck(p) PROVE UnsureInv'
  <2>1. UNCHANGED <<state, lease, target, unsure, retries, groups>>
    BY <1>14 DEF BeginCheck, history
  <2>2. /\ pc' = [pc EXCEPT ![p] = "checking"] /\ work' = [work EXCEPT ![p] = Kept(p)]
        /\ pending' = [pending EXCEPT ![p] = Kept(p)]
    BY <1>14 DEF BeginCheck, RetainOwned
  <2>3. pending'[p] \subseteq pending[p]
    BY <1>0, <2>2 DEF Kept
  <2>4. \A q \in Processes \ {p} : pc'[q] = pc[q] /\ work'[q] = work[q] /\ pending'[q] = pending[q]
    BY <1>0, <2>2
  <2>5. \A i \in unsure' : Cautious(p, i)'
    BY <1>0, <2>2 DEF Cautious
  <2> QED
    BY <2>1, <2>3, <2>4, <2>5, UnsureLocal
<1>15. ASSUME NEW p \in Processes, UNCHANGED <<table, history>>, Forget(p),
              \A q \in Processes \ {p} : pc'[q] = pc[q]
       PROVE  UnsureInv'
  <2>1. pending'[p] = {}
    BY <1>0, <1>15 DEF Forget
  <2>2. \A q \in Processes \ {p} : /\ pending'[q] = pending[q] /\ retries'[q] = retries[q]
                                   /\ groups'[q] = groups[q] /\ work'[q] = work[q]
    BY <1>0, <1>15 DEF Forget
  <2> QED
    BY <1>15, <2>1, <2>2, UnsureLocal DEF Held, table, history
<1>16. ASSUME NEW p \in Processes, EndBatch(p) \/ (\E S \in SUBSET Ids : Crash(p, S))
       PROVE  UnsureInv'
  <2>1. UNCHANGED <<table, history>> /\ Forget(p) /\ \A q \in Processes \ {p} : pc'[q] = pc[q]
    BY <1>0, <1>16 DEF EndBatch, Crash
  <2> QED
    BY <1>15, <2>1
<1>17. ASSUME NEW p \in Processes, StepFails(p) PROVE UnsureInv'
  <2>1. CASE pc[p] = "bailing"
    <3>1. /\ UNCHANGED <<table, history>> /\ Forget(p)
          /\ \A q \in Processes \ {p} : pc'[q] = pc[q]
      BY <1>0, <1>17, <2>1 DEF StepFails
    <3> QED
      BY <1>15, <3>1
  <2>2. CASE pc[p] # "bailing"
    <3>1. UNCHANGED <<state, lease, target, unsure, pending, retries, groups>>
      <4>1. UNCHANGED <<table, history>>
        BY <1>17 DEF StepFails
      <4>2. CASE pc[p] = "probed"
        BY <1>17, <4>1, <4>2 DEF StepFails, table, history
      <4>3. CASE pc[p] # "probed"
        BY <1>17, <2>2, <4>1, <4>3 DEF StepFails, table, history
      <4> QED
        BY <4>2, <4>3
    <3>2. \/ /\ pc[p] = "probed" /\ pc' = [pc EXCEPT ![p] = "probeFailed"]
             /\ work' = [work EXCEPT ![p] = retries[p] \cap pending[p]]
          \/ pc' = [pc EXCEPT ![p] = "bailing"] /\ work' = [work EXCEPT ![p] = pending[p]]
      <4>1. CASE pc[p] = "probed"
        BY <1>17, <4>1 DEF StepFails
      <4>2. CASE pc[p] # "probed"
        BY <1>17, <2>2, <4>2 DEF StepFails
      <4> QED
        BY <4>1, <4>2
    <3>3. \A q \in Processes \ {p} : pc'[q] = pc[q] /\ work'[q] = work[q]
      BY <1>0, <3>2
    <3>4. \A i \in unsure' : Held(p, i) /\ Held(p, i)' /\ Cautious(p, i) => Cautious(p, i)'
      BY <1>0, <3>1, <3>2 DEF Cautious
    <3> QED
      BY <3>1, <3>3, <3>4, UnsureLocal
  <2> QED
    BY <2>1, <2>2
<1>18. ASSUME NEW p \in Processes, NEW i \in Ids,
              HandleProbed(p, i) \/ HandleChecked(p, i) \/ PutBack(p, i) \/ CompletionFails(p, i)
       PROVE  UnsureInv'
  <2>1. UNCHANGED <<pc, retries, groups>> /\ work' = [work EXCEPT ![p] = @ \ {i}]
    BY <1>18 DEF HandleProbed, HandleChecked, PutBack, CompletionFails
  <2>2. CASE \E r \in Terminal \cup {"RETRY"} : Close(p, i, r)
    BY <2>1, <2>2, UnsureClose
  <2>3. CASE ~(\E r \in Terminal \cup {"RETRY"} : Close(p, i, r))
    <3>1. HandleProbed(p, i) /\ UNCHANGED <<table, pending, history>>
      BY <1>18, <2>3, Zenon DEF HandleProbed, HandleChecked, PutBack, CompletionFails, FailMissing,
                         CompleteChange, ScheduleRetry
    <3>2. pc[p] = "probed"
      BY <3>1 DEF HandleProbed
    <3>3. \A q \in Processes \ {p} : work'[q] = work[q]
      BY <1>0, <2>1
    <3> QED
      BY <2>1, <3>1, <3>2, <3>3, UnsureLocal DEF Cautious, table, history
  <2> QED
    BY <2>2, <2>3
<1>19. ASSUME NEW i \in Ids, BackoffElapses(i) \/ LeaseExpires(i) PROVE UnsureInv'
  BY <1>3, <1>19 DEF BackoffElapses, LeaseExpires, memory, history
<1>20. ASSUME NEW p \in Processes, NEW S \in SUBSET Ids, BluesalesStores(p, S) PROVE UnsureInv'
  BY <1>3, <1>20 DEF BluesalesStores, table
<1>21. ASSUME NEW i \in Ids, LateWriteLands(i) PROVE UnsureInv'
  BY <1>3, <1>21 DEF LateWriteLands, table, memory
<1>22. ASSUME NEW o \in Orders, NEW s \in Statuses \cup {None}, BluesalesEdit(o, s)
       PROVE  UnsureInv'
  BY <1>3, <1>22 DEF BluesalesEdit, table, memory
<1>23. CASE UNCHANGED vars
  BY <1>3, <1>23 DEF vars, table, memory, history
<1> QED
  BY <1>1, <1>2, <1>4, <1>5, <1>6, <1>7, <1>8, <1>9, <1>10, <1>11, <1>12, <1>13, <1>14, <1>16,
     <1>17, <1>18, <1>19, <1>20, <1>21, <1>22, <1>23
  DEF Next, ProcessStep, Fault

\* Only a group that is sent takes a process from "writing" to "sent".
LEMMA SendsKnownRows ==
    IInv /\ UnsureInv /\ [Next]_vars =>
      \A p \in Processes :
         pc[p] = "writing" /\ pc'[p] = "sent" => work'[p] \cap unsure = {}
<1> SUFFICES ASSUME IInv, UnsureInv, [Next]_vars, NEW p \in Processes,
                    pc[p] = "writing", pc'[p] = "sent"
             PROVE  work'[p] \cap unsure = {}
  OBVIOUS
<1>0. /\ pc \in [Processes -> PcStates] /\ work \in [Processes -> SUBSET Ids]
  BY DEF IInv, TypeOK
<1>1. PICK q \in Processes : ProcessStep(q) \/ Fault(q)
  BY DEF Next, RequestStatus, RemoveOrder, BackoffElapses, LeaseExpires, LateWriteLands,
         BluesalesStores, BluesalesEdit, vars, memory
<1>2. PICK s \in Statuses : SendGroup(q, s)
  <2>1. CASE Fault(q)
    <3>1. pc'[p] # "sent"
      <4>1. CASE StepFails(q)
        <5>1. CASE pc[q] = "bailing" BY <1>0, <4>1, <5>1 DEF StepFails
        <5>2. CASE pc[q] = "probed" BY <1>0, <4>1, <5>2 DEF StepFails
        <5>3. CASE pc[q] \notin {"bailing", "probed"} BY <1>0, <4>1, <5>3 DEF StepFails
        <5> QED
          BY <5>1, <5>2, <5>3
      <4> QED
        BY <1>0, <2>1, <4>1 DEF Fault, CompletionFails, ProbeFails, WriteFails, Crash, Return
    <3> QED
      BY <3>1
  <2>2. CASE ProcessStep(q)
    BY <1>0, <2>2 DEF ProcessStep, Start, Recover, ReleaseStaleLeases, ClaimBatch, BeginDelivery,
         ProbeAnswers, CheckAnswers, ReadAnswers, HandleProbed, HandleChecked, PutBack,
         FormGroups, NextGroup, BeginCheck, EndBatch, WriteAnswers, Return, memory
  <2> QED
    BY <1>1, <2>1, <2>2
<1>3. q = p
  BY <1>0, <1>2 DEF SendGroup
<1>4. work' = [work EXCEPT ![p] = {i \in Kept(p) : target[i] = s}] /\ s \in groups[p]
  <2>1. pc' # pc
    OBVIOUS
  <2> QED
    BY <1>2, <1>3, <2>1 DEF SendGroup
<1>5. \A i \in work'[p] : Held(p, i) /\ target[i] \in groups[p]
  BY <1>0, <1>4 DEF Kept, Held
<1> QED
  BY <1>5 DEF UnsureInv, Cautious

-----------------------------------------------------------------------------
(* Results. *)

THEOREM Invariance == Spec => []IInv
<1>1. Init => IInv
  BY InitIInv
<1>2. IInv /\ [Next]_vars => IInv'
  BY NextIInv
<1> QED
  BY <1>1, <1>2, PTL DEF Spec

\* The columns of the table and the memory of every process keep their types.
THEOREM TypeCorrect == Spec => []TypeOK
<1>1. IInv => TypeOK
  BY DEF IInv
<1> QED
  BY <1>1, Invariance, PTL

\* With any number of processes, crashes, expired leases and recoveries, a row
\* in delivery is the oldest open row of its order.
THEOREM DeliversHeads == Spec => []HeadOfLine
<1>1. IInv => HeadOfLine
  BY DEF IInv
<1> QED
  BY <1>1, Invariance, PTL

\* For any number of processes, with crashes, expired leases and late writes,
\* the outbox is the queue that StatusDelivery describes: the requests of an
\* order close oldest first, as delivered only after BlueSales has shown their
\* status, as dropped only after BlueSales did not have the order.
THEOREM QueueIsKept == Spec => RefinesDelivery
<1>1. Init => IInv /\ ShownInv /\ Delivery!Init
  BY InitIInv, InitShownInv, InitRefines
<1>2. IInv /\ ShownInv /\ [Next]_vars => (IInv /\ ShownInv)'
  BY NextIInv, NextShownInv
<1>3. IInv /\ IInv' /\ ShownInv /\ [Next]_vars => [Delivery!Next]_(Delivery!vars)
  BY NextRefines
<1> QED
  BY <1>1, <1>2, <1>3, PTL DEF Spec, RefinesDelivery, Delivery!Spec

\* After an error, an expired lease or a restart that left the outcome of a
\* write unknown, the row is read before any process writes it again.
THEOREM ReadsBeforeRewriting == Spec => NoBlindRewrite
<1>1. Init => IInv /\ UnsureInv
  BY InitIInv, InitUnsureInv
<1>2. IInv /\ UnsureInv /\ [Next]_vars => (IInv /\ UnsureInv)'
  BY NextIInv, NextUnsureInv
<1>3. IInv /\ UnsureInv /\ [Next]_vars =>
        [\A p \in Processes :
            pc[p] = "writing" /\ pc'[p] = "sent" => work'[p] \cap unsure = {}]_vars
  BY SendsKnownRows
<1> QED
  BY <1>1, <1>2, <1>3, PTL DEF Spec, NoBlindRewrite

-----------------------------------------------------------------------------
(* One process whose requests end with their calls. With a second process,   *)
(* or with a write that lands after it was given up on, TLC shows that       *)
(* neither theorem of this part holds.                                       *)

OneProcess == \A p, q \in Processes : p = q

\* The queue of an order is closed oldest first, and goes with its order.
FifoInv ==
    /\ \A i \in Inserted : state[i] # "NONE"
    /\ \A i \in Inserted : order[i] \notin present => state[i] = "DELETED"
    /\ \A i \in Ids : state[i] = "DELETED" => order[i] \notin present
    /\ \A i, j \in Ids :
          state[i] \in Terminal /\ order[j] = order[i] /\ j < i => state[j] \notin Active
    /\ \A o \in Orders : /\ newest[o] < nextId
                         /\ newest[o] = 0 \/ order[newest[o]] = o

\* A request on the wire carries one row of each of its orders, none of them
\* older than what BlueSales has processed.
WireInv ==
    /\ late = {}
    /\ \A p \in Processes : pc[p] = "sent" =>
          \A i \in work[p] : /\ state[i] \in {"PROCESSING", "DELETED"}
                             /\ newest[order[i]] <= i
                             /\ \A j \in work[p] : order[j] = order[i] => j = i
    /\ \A i \in Ids : state[i] \in Active => newest[order[i]] <= i

\* As long as nobody edits in BlueSales: what a process has read is still so,
\* and a delivered row holds until a newer one is written.
StandsInv ==
    edits = 0 =>
      /\ \A p \in Processes : pc[p] \in {"probed", "checked"} =>
            \A i \in work[p] : seen[p][i] = bs[order[i]]
      /\ \A i \in Ids : state[i] = "SUCCEEDED" /\ newest[order[i]] <= i
                           => bs[order[i]] = target[i]

OrderInv == IInv /\ FifoInv /\ WireInv /\ StandsInv

LEMMA InitOrderInv == Init => OrderInv
<1> SUFFICES ASSUME Init PROVE OrderInv
  OBVIOUS
<1>1. FifoInv
  BY DEF Init, FifoInv, Inserted
<1>2. WireInv
  BY DEF Init, WireInv
<1>3. StandsInv
  BY DEF Init, StandsInv
<1> QED
  BY <1>1, <1>2, <1>3, InitIInv DEF OrderInv

-----------------------------------------------------------------------------
(* How a step may change the table, and how it may change BlueSales.         *)

\* Rows are opened only by a request, and close only from delivery.
LEMMA TableSteps ==
    ASSUME IInv, [Next]_vars
    PROVE  \/ \E o \in Orders, s \in Statuses : RequestStatus(o, s)
           \/ \E o \in Orders : RemoveOrder(o)
           \/ /\ UNCHANGED <<nextId, order, target, present>>
              /\ \A i \in Ids :
                    \/ state'[i] = state[i]
                    \/ state[i] \in Active /\ state'[i] \in Active
                    \/ state[i] = "PROCESSING" /\ state'[i] \in Terminal
<1>0. state \in [Ids -> Active \cup Terminal \cup {"NONE", "DELETED"}]
  BY DEF IInv, TypeOK
<1> DEFINE Same == UNCHANGED <<nextId, order, target, present>>
           Rows == \A i \in Ids : \/ state'[i] = state[i]
                                  \/ state[i] \in Active /\ state'[i] \in Active
                                  \/ state[i] = "PROCESSING" /\ state'[i] \in Terminal
<1>1. ASSUME UNCHANGED table PROVE Same /\ Rows
  BY <1>1 DEF table
<1>2. ASSUME NEW i \in Ids, BackoffElapses(i) \/ LeaseExpires(i) PROVE Same /\ Rows
  BY <1>2 DEF BackoffElapses, LeaseExpires
<1>3. ASSUME NEW p \in Processes, Recover(p) \/ ReleaseStaleLeases(p) PROVE Same /\ Rows
  BY <1>3, ZenonT(60) DEF Recover, ReleaseStaleLeases, ReturnToQueue, Stale
<1>4. ASSUME NEW p \in Processes, NEW S \in SUBSET Claimable, ClaimBatch(p, S) PROVE Same /\ Rows
  BY <1>4 DEF ClaimBatch, Claimable
<1>5. ASSUME NEW p \in Processes,
             \/ BeginDelivery(p) \/ ProbeAnswers(p) \/ CheckAnswers(p) \/ BeginCheck(p)
             \/ \E s \in Statuses : SendGroup(p, s)
      PROVE  Same /\ Rows
  BY <1>5 DEF BeginDelivery, ProbeAnswers, CheckAnswers, ReadAnswers, BeginCheck, SendGroup
<1>6. ASSUME NEW p \in Processes, NEW i \in Ids,
             HandleProbed(p, i) \/ HandleChecked(p, i) \/ PutBack(p, i) \/ CompletionFails(p, i)
      PROVE  Same /\ Rows
  <2>1. ASSUME NEW r \in Terminal \cup {"RETRY"}, Close(p, i, r) PROVE Same /\ Rows
    <3>1. CASE Owns(p, i)
      BY <1>0, <2>1, <3>1 DEF Close, Owns
    <3>2. CASE ~Owns(p, i)
      BY <2>1, <3>2 DEF Close
    <3> QED
      BY <3>1, <3>2
  <2>2. CASE ~(\E r \in Terminal \cup {"RETRY"} : Close(p, i, r))
    <3>1. UNCHANGED table
      BY <1>6, <2>2, Zenon DEF HandleProbed, HandleChecked, PutBack, CompletionFails, FailMissing,
                         CompleteChange, ScheduleRetry
    <3> QED
      BY <1>1, <3>1
  <2> QED
    BY <2>1, <2>2
<1>7. ASSUME NEW p \in Processes,
             \/ Start(p) \/ FormGroups(p) \/ NextGroup(p) \/ EndBatch(p) \/ WriteAnswers(p)
             \/ ProbeFails(p) \/ StepFails(p)
             \/ \E S \in SUBSET Ids : WriteFails(p, S) \/ Crash(p, S) \/ BluesalesStores(p, S)
      PROVE  Same /\ Rows
  <2>1. UNCHANGED table
    BY <1>7 DEF Start, FormGroups, NextGroup, EndBatch, WriteAnswers, ProbeFails, StepFails,
                WriteFails, Crash, BluesalesStores
  <2> QED
    BY <1>1, <2>1
<1>8. ASSUME \/ \E i \in Ids : LateWriteLands(i)
             \/ \E o \in Orders, s \in Statuses \cup {None} : BluesalesEdit(o, s)
             \/ UNCHANGED vars
      PROVE  Same /\ Rows
  <2>1. UNCHANGED table
    BY <1>8 DEF LateWriteLands, BluesalesEdit, vars
  <2> QED
    BY <1>1, <2>1
<1> HIDE DEF Same, Rows
<1>9. \/ \E o \in Orders, s \in Statuses : RequestStatus(o, s)
      \/ \E o \in Orders : RemoveOrder(o)
      \/ Same /\ Rows
  BY <1>2, <1>3, <1>4, <1>5, <1>6, <1>7, <1>8 DEF Next, ProcessStep, Fault
<1> QED
  BY <1>9 DEF Same, Rows

RemoteStays == UNCHANGED <<bs, newest, edits>>

\* Only a request on the wire, a late write or an edit changes BlueSales.
LEMMA RemoteSteps ==
    ASSUME [Next]_vars
    PROVE  \/ \E p \in Processes, S \in SUBSET Ids : BluesalesStores(p, S)
           \/ \E i \in Ids : LateWriteLands(i)
           \/ \E o \in Orders, s \in Statuses \cup {None} : BluesalesEdit(o, s)
           \/ RemoteStays
<1>1. ASSUME UNCHANGED <<remote, edits, newest>> PROVE RemoteStays
  BY <1>1 DEF remote, RemoteStays
<1>2. ASSUME NEW o \in Orders, NEW s \in Statuses, RequestStatus(o, s) PROVE RemoteStays
  BY <1>2 DEF RemoteStays, RequestStatus, remote, budget, history
<1>3. ASSUME NEW o \in Orders, RemoveOrder(o) PROVE RemoteStays
  BY <1>3 DEF RemoteStays, RemoveOrder, remote
<1>4. ASSUME NEW i \in Ids, BackoffElapses(i) \/ LeaseExpires(i) PROVE RemoteStays
  BY <1>4 DEF RemoteStays, BackoffElapses, LeaseExpires, remote, budget, history
<1>5. ASSUME NEW p \in Processes,
             \/ Start(p) \/ Recover(p) \/ ReleaseStaleLeases(p) \/ BeginDelivery(p)
             \/ ProbeAnswers(p) \/ CheckAnswers(p) \/ FormGroups(p) \/ NextGroup(p)
             \/ BeginCheck(p) \/ EndBatch(p) \/ WriteAnswers(p) \/ ProbeFails(p) \/ StepFails(p)
             \/ \E S \in SUBSET Claimable : ClaimBatch(p, S)
             \/ \E s \in Statuses : SendGroup(p, s)
             \/ \E S \in SUBSET Ids : WriteFails(p, S) \/ Crash(p, S)
      PROVE  RemoteStays
  BY <1>5 DEF RemoteStays, Start, Recover, ReleaseStaleLeases, BeginDelivery, ProbeAnswers, CheckAnswers,
              ReadAnswers, FormGroups, NextGroup, BeginCheck, EndBatch, WriteAnswers, ProbeFails,
              StepFails, ClaimBatch, SendGroup, WriteFails, Crash, remote, budget, history
<1>6. ASSUME NEW p \in Processes, NEW i \in Ids,
             HandleProbed(p, i) \/ HandleChecked(p, i) \/ PutBack(p, i) \/ CompletionFails(p, i)
      PROVE  RemoteStays
  <2>1. UNCHANGED <<remote, edits>>
    BY <1>6 DEF HandleProbed, HandleChecked, PutBack, CompletionFails, budget
  <2>2. UNCHANGED newest
    BY <1>6, Zenon DEF HandleProbed, HandleChecked, PutBack, CompletionFails, FailMissing,
                CompleteChange, ScheduleRetry, Close, history
  <2> QED
    BY <2>1, <2>2 DEF remote, RemoteStays
<1>7. CASE UNCHANGED vars
  BY <1>7 DEF RemoteStays, vars, remote, budget, history
<1>8. \/ \E p \in Processes, S \in SUBSET Ids : BluesalesStores(p, S)
      \/ \E i \in Ids : LateWriteLands(i)
      \/ \E o \in Orders, s \in Statuses \cup {None} : BluesalesEdit(o, s)
      \/ RemoteStays
  <2>1. ASSUME NEW p \in Processes, ProcessStep(p) \/ Fault(p) PROVE RemoteStays
    BY <1>5, <1>6, <2>1 DEF ProcessStep, Fault
  <2> QED
    BY <1>2, <1>3, <1>4, <1>7, <2>1 DEF Next
<1> QED
  BY <1>8

\* What BlueSales holds for an order after it has processed the rows of S.
LEMMA StoreIs ==
    ASSUME NEW S \in SUBSET Ids, Store(S), NEW o \in Orders
    PROVE  \/ bs'[o] = bs[o] /\ newest'[o] = newest[o]
           \/ \E i \in S : order[i] = o /\ bs'[o] = target[i] /\ newest'[o] = i
<1> DEFINE hit == {i \in S : order[i] = o /\ bs[o] # None}
           one == CHOOSE i \in hit : TRUE
<1>1. /\ bs'[o] = IF hit = {} THEN bs[o] ELSE target[one]
      /\ newest'[o] = IF hit = {} THEN newest[o] ELSE one
  BY DEF Store
<1>2. hit # {} => one \in hit
  OBVIOUS
<1>3. one \in hit => one \in S /\ order[one] = o
  OBVIOUS
<1> HIDE DEF hit, one
<1> QED
  BY <1>1, <1>2, <1>3

\* A process enters "sent" with rows it owns, and stays there without handling any.
LEMMA WireSteps ==
    ASSUME IInv, [Next]_vars, OneProcess, NEW p \in Processes, pc'[p] = "sent"
    PROVE  \/ /\ pc[p] = "sent" /\ work'[p] = work[p]
              /\ \A i \in Inserted : state'[i] \in {state[i], "DELETED"}
           \/ /\ \A i \in work'[p] : Owns(p, i)
              /\ UNCHANGED <<order, state, newest>>
<1>0. /\ pc \in [Processes -> PcStates] /\ work \in [Processes -> SUBSET Ids]
      /\ state \in [Ids -> Active \cup Terminal \cup {"NONE", "DELETED"}]
  BY DEF IInv, TypeOK
<1> DEFINE Goal == \/ /\ pc[p] = "sent" /\ work'[p] = work[p]
                      /\ \A i \in Inserted : state'[i] \in {state[i], "DELETED"}
                   \/ /\ \A i \in work'[p] : Owns(p, i)
                      /\ UNCHANGED <<order, state, newest>>
<1> SUFFICES Goal
  OBVIOUS
<1>1. ASSUME UNCHANGED <<pc, work, state>> PROVE Goal
  BY <1>1
<1>2. ASSUME NEW o \in Orders, NEW s \in Statuses, RequestStatus(o, s) PROVE Goal
  <2>1. UNCHANGED <<pc, work>>
    BY <1>2 DEF RequestStatus, memory
  <2>2. \A i \in Inserted : state'[i] = state[i]
    BY <1>2 DEF RequestStatus, Inserted, IInv, TypeOK
  <2> QED
    BY <2>1, <2>2
<1>3. ASSUME NEW o \in Orders, RemoveOrder(o) PROVE Goal
  <2>1. UNCHANGED <<pc, work>>
    BY <1>3 DEF RemoveOrder, memory
  <2>2. \A i \in Inserted : state'[i] \in {state[i], "DELETED"}
    BY <1>3 DEF RemoveOrder, Inserted
  <2> QED
    BY <2>1, <2>2
<1>4. ASSUME NEW i \in Ids, BackoffElapses(i) \/ LeaseExpires(i) \/ LateWriteLands(i) PROVE Goal
  BY <1>1, <1>4 DEF BackoffElapses, LeaseExpires, LateWriteLands, memory, table
<1>5. ASSUME NEW q \in Processes, NEW S \in SUBSET Ids, BluesalesStores(q, S) PROVE Goal
  BY <1>1, <1>5 DEF BluesalesStores, table
<1>6. ASSUME NEW o \in Orders, NEW s \in Statuses \cup {None}, BluesalesEdit(o, s) PROVE Goal
  BY <1>1, <1>6 DEF BluesalesEdit, memory, table
<1>7. CASE UNCHANGED vars
  BY <1>1, <1>7 DEF vars, memory, table
<1>8. ASSUME NEW q \in Processes, ProcessStep(q) \/ Fault(q) PROVE Goal
  <2>0. q = p
    BY DEF OneProcess
  <2>1. CASE \E s \in Statuses : SendGroup(p, s)
    <3>1. PICK s \in Statuses : SendGroup(p, s)
      BY <2>1
    <3>2. pc[p] = "writing"
      BY <3>1 DEF SendGroup
    <3>3. work' = [work EXCEPT ![p] = {i \in Kept(p) : target[i] = s}]
      <4>1. pc' # pc
        BY <3>2
      <4> QED
        BY <3>1, <4>1 DEF SendGroup
    <3>4. UNCHANGED <<order, state, newest>>
      BY <3>1 DEF SendGroup
    <3> QED
      BY <1>0, <3>3, <3>4 DEF Kept
  <2>2. CASE ProcessStep(p) /\ ~(\E s \in Statuses : SendGroup(p, s))
    <3>1. pc'[p] # "sent"
      <4>1. CASE ReleaseStaleLeases(p)
        BY <4>1 DEF ReleaseStaleLeases, memory
      <4>2. CASE ~ReleaseStaleLeases(p)
        BY <1>0, <2>2, <4>2 DEF ProcessStep, Start, Recover, ClaimBatch, BeginDelivery,
             ProbeAnswers, CheckAnswers, ReadAnswers, HandleProbed, HandleChecked, PutBack,
             FormGroups, NextGroup, BeginCheck, EndBatch, WriteAnswers, Return
      <4> QED
        BY <4>1, <4>2
    <3> QED
      BY <3>1
  <2>3. CASE Fault(p)
    <3>1. pc'[p] # "sent"
      <4>1. CASE StepFails(p)
        <5>1. CASE pc[p] = "bailing" BY <1>0, <4>1, <5>1 DEF StepFails
        <5>2. CASE pc[p] = "probed" BY <1>0, <4>1, <5>2 DEF StepFails
        <5>3. CASE pc[p] \notin {"bailing", "probed"} BY <1>0, <4>1, <5>3 DEF StepFails
        <5> QED
          BY <5>1, <5>2, <5>3
      <4> QED
        BY <1>0, <2>3, <4>1 DEF Fault, CompletionFails, ProbeFails, WriteFails, Crash, Return
    <3> QED
      BY <3>1
  <2> QED
    BY <1>8, <2>0, <2>1, <2>2, <2>3
<1> HIDE DEF Goal
<1>9. (\E q \in Processes : ProcessStep(q) \/ Fault(q)) => Goal
  BY <1>8
<1> QED
  BY <1>2, <1>3, <1>4, <1>5, <1>6, <1>7, <1>9 DEF Next

\* What a process knows of a row is what it knew, or what BlueSales holds now.
LEMMA ReadSteps ==
    ASSUME IInv, [Next]_vars, NEW p \in Processes, pc'[p] \in {"probed", "checked"},
           NEW i \in work'[p]
    PROVE  \/ pc[p] \in {"probed", "checked"} /\ i \in work[p] /\ seen'[p][i] = seen[p][i]
           \/ i \in Inserted /\ seen'[p][i] = bs[order[i]] /\ UNCHANGED <<order, bs>>
<1>0. /\ pc \in [Processes -> PcStates] /\ work \in [Processes -> SUBSET Ids]
      /\ seen \in [Processes -> [Ids -> Statuses \cup {None}]]
  BY DEF IInv, TypeOK
<1> DEFINE Goal == \/ pc[p] \in {"probed", "checked"} /\ i \in work[p] /\ seen'[p][i] = seen[p][i]
                   \/ i \in Inserted /\ seen'[p][i] = bs[order[i]] /\ UNCHANGED <<order, bs>>
<1> SUFFICES Goal
  OBVIOUS
<1>1. ASSUME UNCHANGED memory PROVE Goal
  BY <1>1 DEF memory
<1>2. CASE UNCHANGED memory
  BY <1>1, <1>2
<1>3. ASSUME NEW q \in Processes, NEW from, NEW to, ReadAnswers(q, from, to) PROVE Goal
  <2>1. /\ seen' = [seen EXCEPT ![q] = [j \in Ids |-> IF j \in work[q] THEN bs[order[j]] ELSE None]]
        /\ work' = [work EXCEPT ![q] = @ \cap Kept(q)] /\ pc' = [pc EXCEPT ![q] = to]
        /\ UNCHANGED <<order, bs>>
    BY <1>3 DEF ReadAnswers, remote
  <2>2. CASE q = p
    <3>1. i \in work[p] /\ i \in Ids
      BY <1>0, <2>1, <2>2
    <3>2. i \in Inserted
      BY <3>1 DEF IInv, RowsInv
    <3> QED
      BY <1>0, <2>1, <2>2, <3>1, <3>2
  <2>3. CASE q # p
    BY <1>0, <2>1, <2>3
  <2> QED
    BY <2>2, <2>3
<1>4. ASSUME NEW q \in Processes, NEW j \in Ids,
             HandleProbed(q, j) \/ HandleChecked(q, j) \/ PutBack(q, j) \/ CompletionFails(q, j)
      PROVE  Goal
  <2>1. UNCHANGED <<pc, seen>> /\ work' = [work EXCEPT ![q] = @ \ {j}]
    BY <1>4 DEF HandleProbed, HandleChecked, PutBack, CompletionFails
  <2> QED
    BY <1>0, <2>1
<1>5. ASSUME NEW q \in Processes,
             \/ Start(q) \/ Recover(q) \/ BeginDelivery(q) \/ FormGroups(q) \/ NextGroup(q)
             \/ BeginCheck(q) \/ EndBatch(q) \/ WriteAnswers(q) \/ ProbeFails(q) \/ StepFails(q)
             \/ \E S \in SUBSET Claimable : ClaimBatch(q, S)
             \/ \E s \in Statuses : SendGroup(q, s)
             \/ \E S \in SUBSET Ids : WriteFails(q, S) \/ Crash(q, S)
      PROVE  Goal
  <2>1. q # p
    <3>1. ASSUME StepFails(q) PROVE pc'[q] \notin {"probed", "checked"}
      <4>1. CASE pc[q] = "bailing" BY <1>0, <3>1, <4>1 DEF StepFails
      <4>2. CASE pc[q] = "probed" BY <1>0, <3>1, <4>2 DEF StepFails
      <4>3. CASE pc[q] \notin {"bailing", "probed"} BY <1>0, <3>1, <4>3 DEF StepFails
      <4> QED
        BY <4>1, <4>2, <4>3
    <3>2. ASSUME NEW s \in Statuses, SendGroup(q, s) PROVE pc'[q] \notin {"probed", "checked"}
      BY <1>0, <3>2 DEF SendGroup
    <3> QED
      BY <1>0, <1>5, <3>1, <3>2, ZenonT(60) DEF Start, Recover, BeginDelivery, FormGroups, NextGroup,
          BeginCheck, EndBatch, WriteAnswers, ProbeFails, ClaimBatch, WriteFails, Crash, Return
  <2>2. pc'[p] = pc[p] /\ work'[p] = work[p] /\ seen'[p] = seen[p]
    <3>1. ASSUME StepFails(q) PROVE pc'[p] = pc[p] /\ work'[p] = work[p] /\ seen'[p] = seen[p]
      <4>1. CASE pc[q] = "bailing" BY <1>0, <2>1, <3>1, <4>1 DEF StepFails, Forget
      <4>2. CASE pc[q] = "probed" BY <1>0, <2>1, <3>1, <4>2 DEF StepFails
      <4>3. CASE pc[q] \notin {"bailing", "probed"} BY <1>0, <2>1, <3>1, <4>3 DEF StepFails
      <4> QED
        BY <4>1, <4>2, <4>3
    <3>2. ASSUME NEW s \in Statuses, SendGroup(q, s)
          PROVE  pc'[p] = pc[p] /\ work'[p] = work[p] /\ seen'[p] = seen[p]
      BY <1>0, <2>1, <3>2 DEF SendGroup
    <3> QED
      BY <1>0, <1>5, <2>1, <3>1, <3>2 DEF Start, Recover, BeginDelivery, FormGroups, NextGroup,
          BeginCheck, EndBatch, WriteAnswers, ProbeFails, ClaimBatch, WriteFails, Crash, Return,
          Forget, memory
  <2> QED
    BY <2>2
<1>6. ASSUME NEW q \in Processes, NEW S \in SUBSET Ids, BluesalesStores(q, S) PROVE Goal
  BY <1>6 DEF BluesalesStores
<1>7. ~UNCHANGED memory =>
        \/ \E q \in Processes : ProcessStep(q) \/ Fault(q)
        \/ \E q \in Processes, S \in SUBSET Ids : BluesalesStores(q, S)
  BY DEF Next, vars, RequestStatus, RemoveOrder, BackoffElapses, LeaseExpires, LateWriteLands,
         BluesalesEdit
<1> HIDE DEF Goal
<1>8. ASSUME NEW q \in Processes, ProcessStep(q) \/ Fault(q), ~UNCHANGED memory PROVE Goal
  <2>1. ~ReleaseStaleLeases(q)
    BY <1>8 DEF ReleaseStaleLeases
  <2> QED
    BY <1>3, <1>4, <1>5, <1>8, <2>1 DEF ProcessStep, Fault, ProbeAnswers, CheckAnswers
<1> QED
  BY <1>2, <1>6, <1>7, <1>8

\* A row closes as delivered because its process has read its status.
LEMMA CloseSteps ==
    ASSUME IInv, [Next]_vars, NEW i \in Ids, state'[i] = "SUCCEEDED", state[i] # "SUCCEEDED"
    PROVE  \E p \in Processes : /\ pc[p] \in {"probed", "checked"} /\ i \in work[p]
                                /\ seen[p][i] = target[i]
<1>0. state \in [Ids -> Active \cup Terminal \cup {"NONE", "DELETED"}]
  BY DEF IInv, TypeOK
<1>1. \E q \in Processes : ProcessStep(q) \/ Fault(q)
  <2>1. ASSUME NEW o \in Orders, NEW s \in Statuses, RequestStatus(o, s) PROVE FALSE
    BY <1>0, <2>1 DEF RequestStatus
  <2>2. ASSUME NEW o \in Orders, RemoveOrder(o) PROVE FALSE
    BY <2>2 DEF RemoveOrder
  <2>3. state' # state
    OBVIOUS
  <2> QED
    BY <2>1, <2>2, <2>3 DEF Next, vars, BackoffElapses, LeaseExpires, LateWriteLands,
         BluesalesStores, BluesalesEdit, table
<1>2. PICK q \in Processes : ProcessStep(q) \/ Fault(q)
  BY <1>1
<1>3. PICK j \in Ids : HandleProbed(q, j) \/ HandleChecked(q, j)
  <2>1. ASSUME NEW j \in Ids, PutBack(q, j) \/ CompletionFails(q, j) PROVE FALSE
    <3>1. Close(q, j, "RETRY")
      BY <2>1 DEF PutBack, CompletionFails, ScheduleRetry
    <3> QED
      BY <1>0, <3>1 DEF Close
  <2>2. ASSUME Recover(q) \/ ReleaseStaleLeases(q) PROVE FALSE
    BY <2>2, ZenonT(60) DEF Recover, ReleaseStaleLeases, ReturnToQueue
  <2>3. ASSUME NEW S \in SUBSET Claimable, ClaimBatch(q, S) PROVE FALSE
    BY <2>3 DEF ClaimBatch
  <2>4. state' # state
    OBVIOUS
  <2> QED
    BY <1>2, <2>1, <2>2, <2>3, <2>4 DEF ProcessStep, Fault, Start, BeginDelivery, ProbeAnswers,
         CheckAnswers, ReadAnswers, FormGroups, NextGroup, BeginCheck, EndBatch, SendGroup,
         WriteAnswers, ProbeFails, StepFails, WriteFails, Crash, table
<1>4. pc[q] \in {"probed", "checked"} /\ j \in work[q]
  BY <1>3 DEF HandleProbed, HandleChecked
<1>5. seen[q][j] = target[j] /\ Close(q, j, "SUCCEEDED")
  <2>1. ASSUME Close(q, j, "RETRY") \/ Close(q, j, "FAILED") PROVE FALSE
    BY <1>0, <2>1 DEF Close
  <2>2. ~UNCHANGED table
    BY DEF table
  <2>3. target[j] # None
    BY <1>4 DEF IInv, RowsInv
  <2>4. CASE HandleProbed(q, j)
    BY <2>1, <2>2, <2>3, <2>4 DEF HandleProbed, FailMissing, CompleteChange, ScheduleRetry
  <2>5. CASE HandleChecked(q, j)
    BY <2>1, <2>2, <2>3, <2>5 DEF HandleChecked, FailMissing, CompleteChange, ScheduleRetry
  <2> QED
    BY <1>3, <2>4, <2>5
<1>6. j = i
  BY <1>0, <1>5 DEF Close
<1> QED
  BY <1>4, <1>5, <1>6

-----------------------------------------------------------------------------
(* The invariant is inductive. *)

\* A write on the wire, or a late one, belongs to rows that exist.
LEMMA StoredRows ==
    ASSUME IInv, [Next]_vars, NEW o \in Orders, newest'[o] # newest[o] \/ bs'[o] # bs[o]
    PROVE  \/ /\ UNCHANGED <<table, memory, newest>> /\ edits' = edits + 1
           \/ \E i \in late : /\ order[i] = o /\ bs'[o] = target[i] /\ newest'[o] = i
                              /\ UNCHANGED <<table, memory, edits>>
           \/ \E p \in Processes : \E i \in work[p] :
                 /\ pc[p] = "sent" /\ order[i] = o /\ bs'[o] = target[i] /\ newest'[o] = i
                 /\ UNCHANGED <<table, pc, work, seen, edits>>
<1>1. ASSUME NEW p \in Processes, NEW S \in SUBSET Ids, BluesalesStores(p, S)
      PROVE  \E i \in work[p] :
                 /\ pc[p] = "sent" /\ order[i] = o /\ bs'[o] = target[i] /\ newest'[o] = i
                 /\ UNCHANGED <<table, pc, work, seen, edits>>
  <2>1. /\ Store(S) /\ S \subseteq work[p] /\ pc[p] = "sent"
        /\ UNCHANGED <<table, pc, work, seen, edits>>
    BY <1>1 DEF BluesalesStores, budget
  <2>2. PICK i \in S : order[i] = o /\ bs'[o] = target[i] /\ newest'[o] = i
    BY <2>1, StoreIs
  <2> QED
    BY <2>1, <2>2
<1>2. ASSUME NEW i \in Ids, LateWriteLands(i)
      PROVE  /\ i \in late /\ order[i] = o /\ bs'[o] = target[i] /\ newest'[o] = i
             /\ UNCHANGED <<table, memory, edits>>
  <2>1. i \in late /\ Store({i}) /\ UNCHANGED <<table, memory, edits>>
    BY <1>2 DEF LateWriteLands, budget
  <2> QED
    BY <2>1, StoreIs
<1>3. ASSUME NEW q \in Orders, NEW s \in Statuses \cup {None}, BluesalesEdit(q, s)
      PROVE  UNCHANGED <<table, memory, newest>> /\ edits' = edits + 1
  BY <1>3 DEF BluesalesEdit
<1>4. CASE RemoteStays
  BY <1>4 DEF RemoteStays
<1> QED
  BY <1>1, <1>2, <1>3, <1>4, RemoteSteps

LEMMA NextFifoInv == IInv /\ IInv' /\ FifoInv /\ [Next]_vars => FifoInv'
<1> SUFFICES ASSUME IInv, IInv', FifoInv, [Next]_vars PROVE FifoInv'
  OBVIOUS
<1>0. /\ state \in [Ids -> Active \cup Terminal \cup {"NONE", "DELETED"}]
      /\ state' \in [Ids -> Active \cup Terminal \cup {"NONE", "DELETED"}]
      /\ order \in [Ids -> Orders \cup {None}] /\ present \in SUBSET Orders
      /\ target \in [Ids -> Statuses \cup {None}]
      /\ nextId \in 1..(MaxChanges + 1) /\ newest \in [Orders -> 0..MaxChanges]
      /\ newest' \in [Orders -> 0..MaxChanges]
      /\ \A i \in Inserted : order[i] \in Orders
      /\ \A i \in Ids : i >= nextId => state[i] = "NONE"
  BY DEF IInv, TypeOK, RowsInv
<1> DEFINE Newest == \A o \in Orders : /\ newest[o] < nextId
                                       /\ newest[o] = 0 \/ order[newest[o]] = o
           Closed == \A i, j \in Ids : state[i] \in Terminal /\ order[j] = order[i] /\ j < i
                                          => state[j] \notin Active
           Rest == /\ \A i \in Inserted : state[i] # "NONE"
                   /\ \A i \in Inserted : order[i] \notin present => state[i] = "DELETED"
                   /\ \A i \in Ids : state[i] = "DELETED" => order[i] \notin present
<1>1. FifoInv <=> Rest /\ Closed /\ Newest
  BY DEF FifoInv
<1>2. Newest'
  <2>1. /\ nextId' >= nextId /\ nextId' \in Nat
        /\ \A i \in Inserted : order'[i] = order[i]
    <3>1. CASE UNCHANGED <<nextId, order>>
      BY <1>0, <3>1
    <3>2. ASSUME NEW o \in Orders, NEW s \in Statuses, RequestStatus(o, s)
          PROVE  /\ nextId' >= nextId /\ nextId' \in Nat
                 /\ \A i \in Inserted : order'[i] = order[i]
      BY <1>0, <3>2 DEF RequestStatus, Inserted
    <3>3. ASSUME NEW o \in Orders, RemoveOrder(o) PROVE UNCHANGED <<nextId, order>>
      BY <3>3 DEF RemoveOrder
    <3> QED
      BY <3>1, <3>2, <3>3, TableSteps
  <2>2. \A o \in Orders : newest'[o] < nextId /\ (newest'[o] = 0 \/ order[newest'[o]] = o)
    <3> SUFFICES ASSUME NEW o \in Orders
                 PROVE  newest'[o] < nextId /\ (newest'[o] = 0 \/ order[newest'[o]] = o)
      OBVIOUS
    <3>1. CASE newest'[o] = newest[o]
      BY <3>1 DEF FifoInv
    <3>2. CASE newest'[o] # newest[o]
      <4>1. \E i \in Inserted : order[i] = o /\ newest'[o] = i
        BY <3>2, StoredRows DEF IInv, RowsInv
      <4> QED
        BY <4>1 DEF Inserted
    <3> QED
      BY <3>1, <3>2
  <2> SUFFICES ASSUME NEW o \in Orders
               PROVE  newest'[o] < nextId' /\ (newest'[o] = 0 \/ order'[newest'[o]] = o)
    BY DEF Newest
  <2>3. newest'[o] # 0 => newest'[o] \in Inserted
    BY <1>0, <2>2 DEF Inserted
  <2> QED
    BY <1>0, <2>1, <2>2, <2>3
<1>3. CASE \E o \in Orders, s \in Statuses : RequestStatus(o, s)
  <2>1. PICK o \in Orders, s \in Statuses : RequestStatus(o, s)
    BY <1>3
  <2>2. /\ nextId \in Ids /\ o \in present /\ nextId' = nextId + 1 /\ present' = present
        /\ order' = [order EXCEPT ![nextId] = o]
        /\ state' = [state EXCEPT ![nextId] = "PENDING"]
    BY <2>1 DEF RequestStatus
  <2>3. Rest'
    BY <1>0, <2>2 DEF FifoInv, Inserted
  <2>4. Closed'
    <3> SUFFICES ASSUME NEW i \in Ids, NEW j \in Ids, state'[i] \in Terminal,
                        order'[j] = order'[i], j < i
                 PROVE  state'[j] \notin Active
      BY DEF Closed
    <3>1. state[i] \in Terminal /\ i # nextId /\ i < nextId
      BY <1>0, <2>2
    <3>2. j # nextId /\ order[j] = order[i]
      BY <1>0, <2>2, <3>1
    <3> QED
      BY <1>0, <2>2, <3>1, <3>2 DEF FifoInv
  <2> HIDE DEF Rest, Closed, Newest
  <2> QED
    BY <1>1, <1>2, <2>3, <2>4 DEF FifoInv, Rest, Closed, Newest
<1>4. CASE \E o \in Orders : RemoveOrder(o)
  <2>1. PICK o \in Orders : RemoveOrder(o)
    BY <1>4
  <2>2. /\ present' = present \ {o} /\ UNCHANGED <<nextId, order>>
        /\ state' = [i \in Ids |-> IF order[i] = o THEN "DELETED" ELSE state[i]]
    BY <2>1 DEF RemoveOrder
  <2>3. Rest' /\ Closed'
    BY <1>0, <2>2 DEF FifoInv, Inserted
  <2> HIDE DEF Rest, Closed, Newest
  <2> QED
    BY <1>2, <2>3 DEF FifoInv, Rest, Closed, Newest
<1>5. CASE /\ UNCHANGED <<nextId, order, target, present>>
           /\ \A i \in Ids :
                    \/ state'[i] = state[i]
                    \/ state[i] \in Active /\ state'[i] \in Active
                    \/ state[i] = "PROCESSING" /\ state'[i] \in Terminal
  <2>1. Rest'
    BY <1>5 DEF FifoInv, Inserted
  <2>2. Closed'
    <3> SUFFICES ASSUME NEW i \in Ids, NEW j \in Ids, state'[i] \in Terminal,
                        order'[j] = order'[i], j < i, state'[j] \in Active
                 PROVE  FALSE
      BY DEF Closed
    <3>1. state[j] \in Active /\ order[j] = order[i]
      BY <1>5
    <3>2. state[i] \in Terminal \/ state[i] = "PROCESSING"
      BY <1>5
    <3> QED
      BY <3>1, <3>2 DEF FifoInv, IInv, HeadOfLine, EarlierActive
  <2> HIDE DEF Rest, Closed, Newest
  <2> QED
    BY <1>2, <2>1, <2>2 DEF FifoInv, Rest, Closed, Newest
<1> QED
  BY <1>3, <1>4, <1>5, TableSteps

LEMMA NextWireInv ==
    ASSUME OneProcess, LateWrites = FALSE
    PROVE  IInv /\ IInv' /\ FifoInv /\ FifoInv' /\ WireInv /\ [Next]_vars => WireInv'
<1> SUFFICES ASSUME IInv, IInv', FifoInv, FifoInv', WireInv, [Next]_vars PROVE WireInv'
  OBVIOUS
<1>0. /\ state \in [Ids -> Active \cup Terminal \cup {"NONE", "DELETED"}]
      /\ newest \in [Orders -> 0..MaxChanges] /\ newest' \in [Orders -> 0..MaxChanges]
      /\ work \in [Processes -> SUBSET Ids] /\ nextId \in 1..(MaxChanges + 1)
      /\ \A i \in Inserted : order[i] \in Orders /\ i \in Ids
      /\ \A p \in Processes : work[p] \subseteq Inserted
      /\ \A p \in Processes : work'[p] \subseteq Inserted'
  BY DEF IInv, TypeOK, RowsInv, Inserted
<1>1. late' = {}
  <2>1. ASSUME NEW p \in Processes, NEW S, GiveUp(p, S) PROVE late' = {}
    BY <2>1 DEF GiveUp, WireInv
  <2>2. ASSUME UNCHANGED late PROVE late' = {}
    BY <2>2 DEF WireInv
  <2>3. ASSUME NEW p \in Processes, ProcessStep(p) \/ Fault(p) PROVE late' = {}
    <3>1. CASE \E S \in SUBSET Ids : WriteFails(p, S) \/ Crash(p, S)
      BY <2>1, <3>1 DEF WriteFails, Crash
    <3>2. CASE ~(\E S \in SUBSET Ids : WriteFails(p, S) \/ Crash(p, S))
      <4>1. UNCHANGED late
        BY <2>3, <3>2 DEF ProcessStep, Fault, Start, Recover, ReleaseStaleLeases, ClaimBatch,
           BeginDelivery, ProbeAnswers, CheckAnswers, ReadAnswers, HandleProbed, HandleChecked,
           PutBack, FormGroups, NextGroup, BeginCheck, EndBatch, SendGroup, WriteAnswers,
           CompletionFails, ProbeFails, StepFails, remote
      <4> QED
        BY <2>2, <4>1
    <3> QED
      BY <3>1, <3>2
  <2>4. ~(\E i \in Ids : LateWriteLands(i))
    BY DEF LateWriteLands, WireInv
  <2>5. ASSUME ~(\E p \in Processes : ProcessStep(p) \/ Fault(p)) PROVE UNCHANGED late
    BY <2>4, <2>5 DEF Next, vars, RequestStatus, RemoveOrder, BackoffElapses, LeaseExpires,
       BluesalesStores, BluesalesEdit, remote
  <2> QED
    BY <2>2, <2>3, <2>5
\* A write lands for rows on the wire, each the only one of its order there.
<1>2. ASSUME NEW o \in Orders, newest'[o] # newest[o]
      PROVE  \E p \in Processes : \E i \in work[p] :
                 /\ pc[p] = "sent" /\ order[i] = o /\ newest'[o] = i
                 /\ UNCHANGED <<table, pc, work>>
  <2>1. late = {}
    BY DEF WireInv
  <2> QED
    BY <1>2, <2>1, StoredRows
<1>3. ASSUME NEW i \in Ids, state[i] \in Active, state'[i] \in Active PROVE newest'[order[i]] <= i
  <2>1. i \in Inserted /\ order[i] \in Orders /\ newest[order[i]] <= i
    BY <1>0, <1>3 DEF IInv, RowsInv, Inserted, WireInv
  <2>2. CASE newest'[order[i]] = newest[order[i]]
    BY <2>1, <2>2
  <2>3. CASE newest'[order[i]] # newest[order[i]]
    <3>1. PICK o \in Orders : o = order[i]
      BY <2>1
    <3>20. PICK p \in Processes : \E j \in work[p] :
             pc[p] = "sent" /\ order[j] = o /\ newest'[o] = j
      BY <1>2, <2>3, <3>1
    <3>2. PICK j \in work[p] : pc[p] = "sent" /\ order[j] = o /\ newest'[o] = j
      BY <3>20
    <3>3. j \in Inserted /\ j \in Ids /\ state[j] \in {"PROCESSING", "DELETED"}
      BY <1>0, <3>2 DEF WireInv
    <3>4. state[j] = "PROCESSING"
      BY <1>3, <2>1, <3>1, <3>2, <3>3 DEF FifoInv
    <3>5. ~(i < j)
      BY <1>3, <3>1, <3>2, <3>3, <3>4 DEF IInv, HeadOfLine, EarlierActive
    <3> QED
      BY <3>1, <3>2, <3>3, <3>5
  <2> QED
    BY <2>2, <2>3
<1>4. ASSUME NEW i \in Ids, state'[i] \in Active PROVE newest'[order'[i]] <= i
  <2>1. CASE \E o \in Orders, s \in Statuses : RequestStatus(o, s)
    <3>1. PICK o \in Orders, s \in Statuses : RequestStatus(o, s)
      BY <2>1
    <3>2. /\ order' = [order EXCEPT ![nextId] = o] /\ newest' = newest /\ nextId \in Ids
          /\ state' = [state EXCEPT ![nextId] = "PENDING"]
      BY <3>1 DEF RequestStatus, history
    <3>3. CASE i = nextId
      <4>1. order'[i] = o /\ newest'[o] < i
        BY <3>2, <3>3 DEF FifoInv, IInv, TypeOK
      <4> QED
        BY <1>0, <4>1
    <3>4. CASE i # nextId
      BY <1>0, <1>4, <3>2, <3>4, SMTT(40) DEF WireInv
    <3> QED
      BY <3>3, <3>4
  <2>2. CASE order' = order /\ state[i] \in Active
    BY <1>3, <1>4, <2>2
  <2>3. ASSUME NEW o \in Orders, RemoveOrder(o) PROVE order' = order /\ state[i] \in Active
    BY <1>4, <2>3 DEF RemoveOrder
  <2> QED
    BY <1>4, <2>1, <2>2, <2>3, TableSteps
<1>5. ASSUME NEW p \in Processes, pc'[p] = "sent", NEW i \in work'[p]
      PROVE  /\ state'[i] \in {"PROCESSING", "DELETED"}
             /\ newest'[order'[i]] <= i
             /\ \A j \in work'[p] : order'[j] = order'[i] => j = i
  <2>1. CASE /\ \A j \in work'[p] : Owns(p, j)
             /\ UNCHANGED <<order, state, newest>>
    <3>1. \A j \in work'[p] : state[j] = "PROCESSING" /\ j \in Ids
      BY <2>1 DEF Owns, IInv, TypeOK
    <3> QED
      BY <2>1, <3>1, OneInDelivery DEF WireInv
  <2>2. CASE /\ pc[p] = "sent" /\ work'[p] = work[p]
             /\ \A j \in Inserted : state'[j] \in {state[j], "DELETED"}
    <3>1. i \in Inserted /\ i \in Ids /\ i \in work[p] /\ order[i] \in Orders
      BY <1>0, <2>2
    <3>2. \A j \in work[p] : order'[j] = order[j]
      <4>1. CASE order' = order
        BY <4>1
      <4>2. ASSUME NEW o \in Orders, NEW s \in Statuses, RequestStatus(o, s)
            PROVE  \A j \in Inserted : order'[j] = order[j]
        BY <1>0, <4>2 DEF RequestStatus, Inserted, IInv, TypeOK
      <4>3. ASSUME NEW o \in Orders, RemoveOrder(o) PROVE order' = order
        BY <4>3 DEF RemoveOrder
      <4> QED
        BY <1>0, <4>1, <4>2, <4>3, TableSteps
    <3>3. newest'[order[i]] <= i
      <4>1. CASE newest'[order[i]] = newest[order[i]]
        BY <2>2, <3>1, <4>1 DEF WireInv
      <4>2. CASE newest'[order[i]] # newest[order[i]]
        <5>1. PICK o \in Orders : o = order[i]
          BY <3>1
        <5>20. PICK q \in Processes : \E j \in work[q] :
                 order[j] = o /\ newest'[o] = j
          BY <1>2, <4>2, <5>1
        <5>2. PICK j \in work[q] : order[j] = o /\ newest'[o] = j
          BY <5>20
        <5>3. q = p /\ j = i
          BY <2>2, <3>1, <5>1, <5>2 DEF OneProcess, WireInv
        <5> QED
          BY <1>0, <5>1, <5>2, <5>3
      <4> QED
        BY <4>1, <4>2
    <3> QED
      BY <2>2, <3>1, <3>2, <3>3 DEF WireInv
  <2> QED
    BY <1>5, <2>1, <2>2, WireSteps
<1> QED
  BY <1>1, <1>4, <1>5 DEF WireInv

LEMMA NextStandsInv ==
    ASSUME OneProcess, LateWrites = FALSE
    PROVE  OrderInv /\ [Next]_vars => StandsInv'
<1> SUFFICES ASSUME OrderInv, [Next]_vars, edits' = 0 PROVE StandsInv'
  BY DEF StandsInv
<1>0. /\ IInv /\ FifoInv /\ WireInv /\ StandsInv
      /\ state \in [Ids -> Active \cup Terminal \cup {"NONE", "DELETED"}]
      /\ newest \in [Orders -> 0..MaxChanges] /\ edits \in 0..MaxEdits
      /\ \A i \in Inserted : order[i] \in Orders /\ i \in Ids
      /\ \A p \in Processes : work[p] \subseteq Inserted
      /\ \A i \in Ids : state[i] \in Active \cup Terminal => i \in Inserted
  BY DEF OrderInv, IInv, TypeOK, RowsInv, Inserted
<1>1. edits = 0
  <2>1. CASE edits' = edits
    BY <2>1
  <2>2. CASE \E o \in Orders, s \in Statuses \cup {None} : BluesalesEdit(o, s)
    BY <1>0, <2>2 DEF BluesalesEdit
  <2>3. ASSUME ~(\E o \in Orders, s \in Statuses \cup {None} : BluesalesEdit(o, s))
        PROVE  edits' = edits
    BY <2>3, RemoteSteps DEF RemoteStays, BluesalesStores, LateWriteLands, budget
  <2> QED
    BY <2>1, <2>2, <2>3
\* Nobody edits, nothing is late: BlueSales changes by rows on the wire alone.
<1>2. ASSUME NEW o \in Orders, newest'[o] # newest[o] \/ bs'[o] # bs[o]
      PROVE  \E p \in Processes : \E i \in work[p] :
                 /\ pc[p] = "sent" /\ order[i] = o /\ newest'[o] = i
                 /\ UNCHANGED <<table, pc, work, seen>>
  <2>1. late = {} /\ edits' # edits + 1
    BY <1>0, <1>1 DEF WireInv
  <2> QED
    BY <1>0, <1>2, <2>1, StoredRows
<1>3. \A i \in Inserted : order'[i] = order[i] /\ target'[i] = target[i]
  <2>1. CASE UNCHANGED <<order, target>>
    BY <2>1
  <2>2. ASSUME NEW o \in Orders, NEW s \in Statuses, RequestStatus(o, s)
        PROVE  \A i \in Inserted : order'[i] = order[i] /\ target'[i] = target[i]
    BY <1>0, <2>2 DEF RequestStatus, Inserted, IInv, TypeOK
  <2>3. ASSUME NEW o \in Orders, RemoveOrder(o) PROVE UNCHANGED <<order, target>>
    BY <2>3 DEF RemoveOrder
  <2> QED
    BY <1>0, <2>1, <2>2, <2>3, TableSteps
<1>4. ASSUME NEW p \in Processes, pc'[p] \in {"probed", "checked"}, NEW i \in work'[p]
      PROVE  seen'[p][i] = bs'[order'[i]]
  <2>1. CASE i \in Inserted /\ seen'[p][i] = bs[order[i]] /\ UNCHANGED <<order, bs>>
    BY <2>1
  <2>2. CASE pc[p] \in {"probed", "checked"} /\ i \in work[p] /\ seen'[p][i] = seen[p][i]
    <3>1. i \in Inserted /\ order[i] \in Orders /\ seen[p][i] = bs[order[i]]
      BY <1>0, <1>1, <2>2 DEF StandsInv
    <3>2. PICK o \in Orders : o = order[i]
      BY <3>1
    <3>3. bs'[o] = bs[o]
      <4> SUFFICES ASSUME bs'[o] # bs[o] PROVE FALSE
        OBVIOUS
      <4>1. \E q \in Processes : pc[q] = "sent"
        BY <1>2
      <4> QED
        BY <2>2, <4>1 DEF OneProcess
    <3> QED
      BY <1>3, <2>2, <3>1, <3>2, <3>3
  <2> QED
    BY <1>0, <1>4, <2>1, <2>2, ReadSteps
<1>5. ASSUME NEW i \in Ids, state'[i] = "SUCCEEDED", newest'[order'[i]] <= i
      PROVE  bs'[order'[i]] = target'[i]
  <2>1. CASE state[i] # "SUCCEEDED"
    <3>1. PICK p \in Processes : /\ pc[p] \in {"probed", "checked"} /\ i \in work[p]
                                 /\ seen[p][i] = target[i]
      BY <1>0, <1>5, <2>1, CloseSteps
    <3>2. i \in Inserted /\ order[i] \in Orders /\ bs[order[i]] = target[i]
      BY <1>0, <1>1, <3>1 DEF StandsInv
    <3>3. PICK o \in Orders : o = order[i]
      BY <3>2
    <3>4. bs'[o] = bs[o]
      <4> SUFFICES ASSUME bs'[o] # bs[o] PROVE FALSE
        OBVIOUS
      <4>1. \E q \in Processes : pc[q] = "sent"
        BY <1>2
      <4> QED
        BY <3>1, <4>1 DEF OneProcess
    <3> QED
      BY <1>3, <3>2, <3>3, <3>4
  <2>2. CASE state[i] = "SUCCEEDED"
    <3>1. i \in Inserted /\ order[i] \in Orders
      BY <1>0, <2>2
    <3>2. PICK o \in Orders : o = order[i]
      BY <3>1
    <3>3. CASE newest'[o] = newest[o] /\ bs'[o] = bs[o]
      BY <1>0, <1>1, <1>3, <1>5, <2>2, <3>1, <3>2, <3>3 DEF StandsInv
    <3>4. CASE newest'[o] # newest[o] \/ bs'[o] # bs[o]
      <4>10. PICK p \in Processes : \E j \in work[p] :
               pc[p] = "sent" /\ order[j] = o /\ newest'[o] = j
        BY <1>2, <3>4
      <4>1. PICK j \in work[p] : pc[p] = "sent" /\ order[j] = o /\ newest'[o] = j
        BY <4>10
      <4>2. j \in Inserted /\ j \in Ids /\ state[j] \in {"PROCESSING", "DELETED"}
        BY <1>0, <4>1 DEF WireInv
      <4>3. state[j] = "PROCESSING"
        BY <1>0, <2>2, <3>1, <3>2, <4>1, <4>2 DEF FifoInv
      <4>4. j <= i
        BY <1>3, <1>5, <3>1, <3>2, <4>1
      <4>5. j # i
        BY <2>2, <4>3
      <4>6. j < i
        BY <4>2, <4>4, <4>5
      <4> QED
        BY <1>0, <2>2, <3>2, <4>1, <4>2, <4>3, <4>6 DEF FifoInv
    <3> QED
      BY <3>3, <3>4
  <2> QED
    BY <2>1, <2>2
<1> QED
  BY <1>4, <1>5 DEF StandsInv

LEMMA NextOrderInv ==
    ASSUME OneProcess, LateWrites = FALSE
    PROVE  OrderInv /\ [Next]_vars => OrderInv'
<1> SUFFICES ASSUME OrderInv, [Next]_vars PROVE OrderInv'
  OBVIOUS
<1>1. IInv /\ FifoInv /\ WireInv
  BY DEF OrderInv
<1>2. IInv'
  BY <1>1, NextIInv
<1>3. FifoInv'
  BY <1>1, <1>2, NextFifoInv
<1>4. WireInv'
  BY <1>1, <1>2, <1>3, NextWireInv
<1>5. StandsInv'
  BY NextStandsInv
<1> QED
  BY <1>2, <1>3, <1>4, <1>5 DEF OrderInv

-----------------------------------------------------------------------------
(* Results. *)

\* A set of ids that is not empty has a newest member.
LEMMA NewestOf ==
    ASSUME NEW S \in SUBSET Ids, S # {}
    PROVE  \E i \in S : \A j \in S : j <= i
<1> DEFINE T == {MaxChanges - i : i \in S}
<1>1. T \subseteq Nat /\ T # {}
  <2>1. \A i \in S : MaxChanges - i \in Nat
    OBVIOUS
  <2>2. \E x : x \in T
    OBVIOUS
  <2>3. T \subseteq Nat
    BY <2>1
  <2> QED
    BY <2>2, <2>3
<1>2. \E x \in T : \A y \in T : ~(<<y, x>> \in OpToRel(<, Nat))
  <2> HIDE DEF T
  <2> QED
    BY <1>1, NatLessThanWellFounded, WFMin
<1>3. PICK x \in T : \A y \in T : ~(<<y, x>> \in OpToRel(<, Nat))
  BY <1>2
<1>4. PICK i \in S : x = MaxChanges - i
  OBVIOUS
<1>5. ASSUME NEW j \in S PROVE j <= i
  <2>1. MaxChanges - j \in T /\ MaxChanges - j \in Nat /\ MaxChanges - i \in Nat
    OBVIOUS
  <2>2. ~(MaxChanges - j < MaxChanges - i)
    <3> HIDE DEF T
    <3> QED
      BY <1>3, <1>4, <2>1 DEF OpToRel
  <2> QED
    BY <2>2
<1> QED
  BY <1>5

LEMMA StandsWhenDelivered == OrderInv => LastRequestStands
<1> SUFFICES ASSUME OrderInv, NEW o \in Orders, edits = 0, RowsOf(o) # {},
                    \A i \in RowsOf(o) : state[i] = "SUCCEEDED"
             PROVE  \E i \in RowsOf(o) : bs[o] = target[i] /\ \A j \in RowsOf(o) : j <= i
  BY DEF LastRequestStands
<1>1. PICK i \in RowsOf(o) : \A j \in RowsOf(o) : j <= i
  BY NewestOf DEF RowsOf
<1>2. i \in Ids /\ order[i] = o /\ state[i] = "SUCCEEDED"
  BY <1>1 DEF RowsOf
<1>3. newest[o] <= i
  <2>1. CASE newest[o] = 0
    BY <1>2, <2>1
  <2>2. CASE newest[o] # 0
    <3>1. newest[o] \in Inserted /\ newest[o] \in Ids /\ order[newest[o]] = o
      BY <2>2 DEF OrderInv, FifoInv, IInv, TypeOK, Inserted
    <3>2. state[newest[o]] \notin {"NONE", "DELETED"}
      <4>1. i \in Inserted
        BY <1>2 DEF OrderInv, IInv, TypeOK, RowsInv, Inserted
      <4>2. order[newest[o]] = order[i]
        BY <1>2, <3>1
      <4>3. FifoInv
        BY DEF OrderInv
      <4>4. o \in present
        BY <1>2, <4>1, <4>3 DEF FifoInv
      <4> QED
        BY <3>1, <4>3, <4>4 DEF FifoInv
    <3> QED
      BY <1>1, <3>1, <3>2 DEF RowsOf
  <2> QED
    BY <2>1, <2>2
<1>4. bs[o] = target[i]
  BY <1>2, <1>3 DEF OrderInv, StandsInv
<1> QED
  BY <1>1, <1>4

\* One process whose requests end with their calls: once every request of an
\* order has been delivered and nobody has edited it in BlueSales, BlueSales
\* holds the status requested last.
THEOREM LastOneStands ==
    ASSUME OneProcess, LateWrites = FALSE
    PROVE  Spec => []LastRequestStands
<1>1. Init => OrderInv
  BY InitOrderInv
<1>2. OrderInv /\ [Next]_vars => OrderInv'
  BY NextOrderInv
<1>3. OrderInv => LastRequestStands
  BY StandsWhenDelivered
<1> QED
  BY <1>1, <1>2, <1>3, PTL DEF Spec

\* Under the same conditions no older change overwrites a newer one in BlueSales.
THEOREM OlderNeverOverwrites ==
    ASSUME OneProcess, LateWrites = FALSE
    PROVE  Spec => WritesInOrder
<1>1. Init => OrderInv
  BY InitOrderInv
<1>2. OrderInv /\ [Next]_vars => OrderInv'
  BY NextOrderInv
<1>3. OrderInv /\ [Next]_vars => [\A o \in Orders : newest'[o] >= newest[o]]_vars
  <2> SUFFICES ASSUME OrderInv, [Next]_vars, NEW o \in Orders PROVE newest'[o] >= newest[o]
    OBVIOUS
  <2>1. newest \in [Orders -> 0..MaxChanges] /\ late = {}
    BY DEF OrderInv, IInv, TypeOK, WireInv
  <2>2. CASE newest'[o] = newest[o]
    BY <2>1, <2>2
  <2>3. CASE newest'[o] # newest[o]
    <3>10. PICK p \in Processes : \E i \in work[p] :
             pc[p] = "sent" /\ order[i] = o /\ newest'[o] = i
      BY <2>1, <2>3, StoredRows DEF OrderInv
    <3>1. PICK i \in work[p] : pc[p] = "sent" /\ order[i] = o /\ newest'[o] = i
      BY <3>10
    <3>2. newest[o] <= i /\ i \in Ids
      BY <3>1 DEF OrderInv, WireInv, IInv, TypeOK
    <3> QED
      BY <2>1, <3>1, <3>2
  <2> QED
    BY <2>2, <2>3
<1> QED
  BY <1>1, <1>2, <1>3, PTL DEF Spec, WritesInOrder
=============================================================================
