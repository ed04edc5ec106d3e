-------------------------- MODULE AssignmentProofs --------------------------
(***************************************************************************)
(* The assignment of artists, for any orders, artists, directions, calls   *)
(* and managers: turns are fair, an artist who was assigned stays, and the *)
(* journal names whoever has an order.  What the colleagues are told       *)
(* (Notifications) and the settings of their accounts (FrontendSettings).  *)
(***************************************************************************)
EXTENDS MCTeam, WellFoundedInduction, TLAPS

States == [pc : {"idle", "settings", "read", "lock", "commit"},
           order : Orders \cup {None}, roles : SUBSET Roles,
           direction : Directions \cup {None}, next : Artists \cup {Nobody}]
Edits == [pc : {"idle", "write", "record"}, order : Orders \cup {None},
          role : Roles \cup {None}, seen : Artists \cup {Nobody}, new : Artists \cup {Nobody}]
Forms == [artist : Artists, role : Roles \cup {None}, directions : SUBSET Directions,
          shift : BOOLEAN] \cup {NoForm}
Users == [role : Roles \cup {None}, shift : BOOLEAN, directions : SUBSET Directions]

\* A call knows its order, its circle and its artist by the time it needs them.
Ready(s) ==
    /\ s.pc # "idle" => s.order \in Orders
    /\ s.pc \in {"read", "lock", "commit"} => s.roles # {}
    /\ s.pc \in {"lock", "commit"} => s.direction \in Directions
    /\ s.pc = "commit" => s.next \in Artists

ReadyStates == {s \in States : Ready(s)}
ReadyEdits == {e \in Edits : e.pc # "idle" => e.order \in Orders /\ e.role \in Roles}

ReadyInv ==
    /\ call \in [Calls -> ReadyStates]
    /\ edit \in [Managers -> ReadyEdits]
    /\ form \in [Managers -> Forms]

\* Whoever has chosen an artist holds the lock of the circle.
LockInv == \A c \in Calls : call[c].pc = "commit" => holder[Circle(c)] = c

\* Those whom the journal names or will name: an event is only written for a change.
Known(o) ==
    named[o] \cup unrecorded \cup {Nobody} \cup
        {edit[m].new : m \in {n \in Managers : /\ edit[n].pc = "record" /\ edit[n].order = o
                                               /\ edit[n].new # edit[n].seen}}

JournalInv ==
    /\ \A o \in Orders, r \in Roles : artist[o][r] \in Known(o)
    /\ \A m \in Managers, o \in Orders :
           edit[m].pc # "idle" /\ edit[m].order = o => edit[m].seen \in Known(o)

\* Going round from a, n comes before the last turn l has come, or is it.
After(a, n, l) == IF a < l THEN a < n /\ n <= l ELSE l < a /\ (a < n \/ n <= l)

\* Going round from the last turn l, n comes before a, or is it.
Reaches(l, n, a) == IF l < a THEN l < n /\ n <= a ELSE l < n \/ n <= a

\* Turns go round: those who had one while a was waiting lie behind a, and the one who
\* was chosen does not lie beyond it.
TurnInv ==
    \A k \in Circles, a \in Artists :
        /\ passed[k][a] # {} => a \in Candidates(k) /\ last[k] # Nobody
        /\ \A n \in passed[k][a] : After(a, n, last[k])
        /\ \A c \in Calls : call[c].pc = "commit" /\ Circle(c) = k /\ passed[k][a] # {}
               => Reaches(last[k], call[c].next, a)

IInv == TypeOK /\ ReadyInv /\ LockInv /\ JournalInv /\ TurnInv

USE ArtistsAreIds, NoneIsNoCall DEF Nobody

-----------------------------------------------------------------------------
(* Operators. *)

LEMMA IdsAreNumbers == \A a \in Artists \cup {Nobody} : a \in Nat
  OBVIOUS

\* A set of natural numbers has a least one.
LEMMA MinFacts ==
    ASSUME NEW P \in SUBSET Nat, P # {}
    PROVE  Min(P) \in P /\ \A n \in P : Min(P) <= n
<1>1. PICK m \in P : \A n \in P : ~(<<n, m>> \in OpToRel(<, Nat))
  BY NatLessThanWellFounded, WFMin
<1>2. \A n \in P : <<n, m>> \in Nat \X Nat
  OBVIOUS
<1>3. \A n \in P : ~(n < m)
  BY <1>1, <1>2 DEF OpToRel
<1>4. \A n \in P : m <= n
  BY <1>3
<1> QED
  BY <1>4 DEF Min

LEMMA DirectionIsKnown ==
    ASSUME NEW o \in Orders, tags \in [Orders -> SUBSET Directions]
    PROVE  Direction(o) \in Directions \cup {None}
<1> DEFINE P == {i \in DOMAIN Priority : Priority[i] \in tags[o]}
<1>1. CASE tags[o] = {}
  BY <1>1 DEF Direction
<1>2. CASE tags[o] # {}
  <2>1. PICK d \in tags[o] : TRUE
    BY <1>2
  <2>2. d \in Directions
    BY <2>1
  <2>3. PICK i \in DOMAIN Priority : d = Priority[i]
    BY <2>2 DEF Directions
  <2>4. P # {}
    BY <2>1, <2>3
  <2>5. P \in SUBSET Nat
    BY PriorityIsAList
  <2>6. Min(P) \in P
    BY <2>4, <2>5, MinFacts
  <2>7. Priority[Min(P)] \in Directions
    BY <2>6 DEF Directions
  <2> QED
    BY <1>2, <2>7 DEF Direction
<1> QED
  BY <1>1, <1>2

\* The one whose turn it is comes before every other candidate.
LEMMA NextFacts ==
    ASSUME NEW k, Candidates(k) # {}, last[k] \in Nat
    PROVE  /\ NextInTurn(k) \in Candidates(k)
           /\ \A a \in Candidates(k) : a # last[k] => Reaches(last[k], NextInTurn(k), a)
<1> DEFINE C == Candidates(k)
           later == {a \in C : a > last[k]}
           n == NextInTurn(k)
<1>1. C \in SUBSET Nat /\ later \in SUBSET Nat
  BY DEF Candidates
<1>2. n = IF later # {} THEN Min(later) ELSE Min(C)
  BY DEF NextInTurn
<1>3. CASE later # {}
  <2>1. n \in later /\ \A a \in later : n <= a
    BY <1>1, <1>2, <1>3, MinFacts
  <2> QED
    BY <1>1, <2>1 DEF Reaches
<1>4. CASE later = {}
  <2>1. n \in C /\ \A a \in C : n <= a
    BY <1>1, <1>2, <1>4, MinFacts
  <2>2. \A a \in C : ~(last[k] < a)
    BY <1>1, <1>4
  <2> QED
    BY <1>1, <2>1, <2>2 DEF Reaches
<1> QED
  BY <1>3, <1>4

\* Who goes round: nobody who has had a turn comes again before the one who waits, and
\* turns keep lying behind the one who waits.
LEMMA RoundFacts ==
    ASSUME NEW l \in Nat, NEW a \in Nat, NEW n \in Nat, n # a,
           NEW m \in Nat, After(a, m, l), Reaches(l, n, a)
    PROVE  m # n /\ After(a, m, n)
  BY DEF After, Reaches

LEMMA FirstRoleIsKnown ==
    ASSUME NEW roles \in SUBSET Roles, roles # {}
    PROVE  FirstRole(roles) \in roles
  BY DEF FirstRole, Roles

LEMMA IdleIsReady == Idle \in ReadyStates /\ NoEdit \in ReadyEdits /\ NoForm \in Forms
  BY DEF Idle, ReadyStates, States, Ready, NoEdit, ReadyEdits, Edits, Forms

\* A call in a circle.
LEMMA CircleFacts ==
    ASSUME call \in [Calls -> ReadyStates], NEW c \in Calls, call[c].pc \in {"lock", "commit"}
    PROVE  /\ Circle(c) \in Circles
           /\ Circle(c)[2] \in Roles /\ Circle(c)[2] \in call[c].roles
           /\ call[c].order \in Orders
           /\ call[c].pc = "commit" => call[c].next \in Artists
<1>1. /\ call[c].direction \in Directions /\ call[c].roles \in SUBSET Roles
      /\ call[c].roles # {} /\ call[c].order \in Orders
      /\ call[c].pc = "commit" => call[c].next \in Artists
  BY DEF ReadyStates, Ready, States
<1>2. FirstRole(call[c].roles) \in call[c].roles
  BY <1>1, FirstRoleIsKnown
<1> QED
  BY <1>1, <1>2 DEF Circle, Circles

\* What is left of a call after a turn.
LEMMA AfterTurnIsReady ==
    ASSUME call \in [Calls -> ReadyStates], NEW c \in Calls, call[c].pc \in {"lock", "commit"}
    PROVE  AfterTurn(c) \in ReadyStates /\ AfterTurn(c).pc # "commit"
<1> DEFINE rest == call[c].roles \ {FirstRole(call[c].roles)}
           s == [call[c] EXCEPT !.pc = "lock", !.roles = rest, !.next = Nobody]
<1>1. call[c] \in States /\ Ready(call[c])
  BY DEF ReadyStates
<1>2. rest \in SUBSET Roles
  BY <1>1 DEF States
<1>3. ASSUME rest # {} PROVE s \in ReadyStates /\ s.pc # "commit"
  <2>1. s \in States
    BY <1>1, <1>2 DEF States
  <2>2. s.pc = "lock" /\ s.order = call[c].order /\ s.roles = rest /\ s.direction = call[c].direction
    BY <1>1 DEF States
  <2> QED
    BY <1>1, <1>3, <2>1, <2>2 DEF ReadyStates, Ready
<1>4. AfterTurn(c) = IF rest = {} THEN Idle ELSE s
  BY DEF AfterTurn
<1> QED
  BY <1>3, <1>4, IdleIsReady DEF Idle

\* Going on with known settings.
LEMMA ContinueIsReady ==
    ASSUME NEW o \in Orders, NEW wanted \in SUBSET Roles
    PROVE  Continue(o, wanted) \in ReadyStates /\ Continue(o, wanted).pc \in {"idle", "read"}
<1> DEFINE s == [Idle EXCEPT !.pc = "read", !.order = o, !.roles = wanted]
<1>1. s \in States /\ s.pc = "read" /\ s.order = o /\ s.roles = wanted
  BY DEF Idle, States
<1>2. CASE wanted = {} \/ ~open
  BY <1>2, IdleIsReady DEF Continue, Idle
<1>3. CASE ~(wanted = {} \/ ~open)
  BY <1>1, <1>3 DEF Continue, ReadyStates, Ready
<1> QED
  BY <1>2, <1>3

-----------------------------------------------------------------------------
(* Types, and what calls and managers know. *)

LEMMA InitIInv == Init => IInv
<1> SUFFICES ASSUME Init PROVE IInv
  OBVIOUS
<1>1. ReadyInv
  BY IdleIsReady DEF Init, ReadyInv
<1>2. TypeOK
  <2>1. user \in [Artists -> Users]
    BY DEF Init, Users
  <2>2. call \in [Calls -> States] /\ edit \in [Managers -> Edits]
    BY <1>1 DEF ReadyInv, ReadyStates, ReadyEdits, Init, NoEdit, Edits
  <2> QED
    BY <2>1, <2>2 DEF Init, TypeOK, States, Edits, Users
<1>3. LockInv /\ JournalInv /\ TurnInv
  BY DEF Init, LockInv, JournalInv, TurnInv, Known, Idle, NoEdit
<1> QED
  BY <1>1, <1>2, <1>3 DEF IInv

\* What each kind of step leaves alone, and which of its steps do not.
LEMMA AssignFrame ==
    ASSUME NEW c \in Calls, MaybeAssign(c)
    PROVE  /\ UNCHANGED <<tags, user, assigning, cache, open, edit, form, unrecorded>>
           /\ (\E o \in Orders : Enter(c, o)) \/ load' = load
           /\ LockCircle(c) \/ Commit(c) \/ TurnFails(c) \/ holder' = holder
           /\ Commit(c) \/ UNCHANGED <<artist, last, named, passed>>
<1>1. CASE \E o \in Orders : Enter(c, o)
  BY <1>1 DEF Enter, users, journal
<1>2. CASE ReadOrder(c)
  BY <1>2 DEF ReadOrder, users, settings, journal
<1>3. CASE LockCircle(c)
  BY <1>3 DEF LockCircle, users, settings, journal
<1>4. CASE Commit(c)
  BY <1>4 DEF Commit, settings
<1>5. CASE TurnFails(c)
  BY <1>5 DEF TurnFails, users, settings, journal
<1> QED
  BY <1>1, <1>2, <1>3, <1>4, <1>5 DEF MaybeAssign

LEMMA LoadFrame ==
    ASSUME Loaded \/ LoadFails
    PROVE  UNCHANGED <<artist, tags, user, passed, assigning, open, last, holder, edit, form,
                       named, unrecorded>>
BY DEF Loaded, LoadFails, users, journal

LEMMA EditFrame ==
    ASSUME NEW m \in Managers, EditOrder(m)
    PROVE  /\ UNCHANGED <<tags, user, passed, assigning, cache, load, open, last, holder, call, form>>
           /\ WriteEdit(m) \/ artist' = artist
           /\ RecordEdit(m) \/ RecordFails(m) \/ UNCHANGED <<named, unrecorded>>
<1>1. CASE \E o \in Orders, r \in Roles, a \in Artists \cup {Nobody} : BeginEdit(m, o, r, a)
  BY <1>1 DEF BeginEdit, users, settings, journal
<1>2. CASE WriteEdit(m)
  BY <1>2 DEF WriteEdit, users, settings, journal
<1>3. CASE RecordEdit(m) \/ RecordFails(m)
  BY <1>3 DEF RecordEdit, RecordFails, users, settings
<1> QED
  BY <1>1, <1>2, <1>3 DEF EditOrder

LEMMA UserFrame ==
    ASSUME NEW m \in Managers, UpdateUser(m)
    PROVE  /\ UNCHANGED <<artist, tags, assigning, cache, load, open, last, holder, call, edit,
                          named, unrecorded>>
           /\ WriteUser(m) \/ UNCHANGED <<user, passed>>
<1>1. CASE WriteUser(m)
  BY <1>1 DEF WriteUser, Unchanging, settings, journal
<1>2. CASE ~WriteUser(m)
  BY <1>2 DEF UpdateUser, BeginUserUpdate, Unchanging, users, settings, journal
<1> QED
  BY <1>1, <1>2

LEMMA EnvironmentFrame ==
    ASSUME Environment
    PROVE  /\ UNCHANGED <<artist, last, named>>
           /\ Restart \/ UNCHANGED <<load, holder, call, edit, form, unrecorded>>
           /\ Restart \/ CacheExpires \/ cache' = cache
           /\ TurnOfTheHour \/ open' = open
           /\ (\E roles \in SUBSET Roles : SetAssigning(roles)) \/ assigning' = assigning
           /\ ResetShifts \/ (\E a \in Artists : SetShift(a)) \/ UNCHANGED <<user, passed>>
           /\ (\E o \in Orders, new \in SUBSET Directions : SetTags(o, new)) \/ tags' = tags
<1>1. CASE CacheExpires \/ TurnOfTheHour
  BY <1>1 DEF CacheExpires, TurnOfTheHour, Unchanging, users, journal
<1>2. CASE Restart
  BY <1>2 DEF Restart, users
<1>3. CASE ResetShifts \/ \E a \in Artists : SetShift(a)
  BY <1>3 DEF ResetShifts, SetShift, Unchanging, settings, journal
<1>4. CASE \E roles \in SUBSET Roles : SetAssigning(roles)
  BY <1>4 DEF SetAssigning, Unchanging, users, journal
<1>5. CASE \E o \in Orders, new \in SUBSET Directions : SetTags(o, new)
  BY <1>5 DEF SetTags, Unchanging, users, settings, journal
<1> QED
  BY <1>1, <1>2, <1>3, <1>4, <1>5 DEF Environment

\* Every step of a call keeps it ready, and touches no other call but to load.
LEMMA CallStep ==
    ASSUME IInv, Next
    PROVE  call' \in [Calls -> ReadyStates]
<1>1. call \in [Calls -> ReadyStates] /\ TypeOK
  BY DEF IInv, ReadyInv
<1>2. ASSUME NEW c \in Calls, NEW s \in ReadyStates, call' = [call EXCEPT ![c] = s]
      PROVE  call' \in [Calls -> ReadyStates]
  BY <1>1, <1>2
<1>3. ASSUME NEW c \in Calls, NEW o \in Orders, Enter(c, o) PROVE call' \in [Calls -> ReadyStates]
  <2>1. CASE cache # None
    <3>1. cache \in SUBSET Roles
      BY <1>1, <2>1 DEF TypeOK
    <3> QED
      BY <1>2, <1>3, <2>1, <3>1, ContinueIsReady DEF Enter
  <2>2. CASE cache = None
    <3>1. [Idle EXCEPT !.pc = "settings", !.order = o] \in ReadyStates
      BY DEF Idle, ReadyStates, States, Ready
    <3> QED
      BY <1>2, <1>3, <2>2, <3>1 DEF Enter
  <2> QED
    BY <2>1, <2>2
<1>4. CASE Loaded
  <2>1. load \in SUBSET Roles
    BY <1>1, <1>4 DEF Loaded, TypeOK
  <2>2. \A c \in Calls : call[c].pc = "settings" => call[c].order \in Orders
    BY <1>1 DEF ReadyStates, Ready
  <2>3. \A c \in Calls : (IF call[c].pc = "settings" THEN Continue(call[c].order, load)
                          ELSE call[c]) \in ReadyStates
    BY <1>1, <2>1, <2>2, ContinueIsReady
  <2> QED
    BY <1>4, <2>3 DEF Loaded
<1>5. CASE LoadFails
  BY <1>1, <1>5, IdleIsReady DEF LoadFails
<1>6. ASSUME NEW c \in Calls, ReadOrder(c) PROVE call' \in [Calls -> ReadyStates]
  <2> DEFINE o == call[c].order
             roles == {r \in call[c].roles : artist[o][r] = Nobody}
             direction == Direction(o)
             s == [call[c] EXCEPT !.pc = "lock", !.roles = roles, !.direction = direction]
  <2>1. call[c] \in States /\ Ready(call[c]) /\ call[c].pc = "read"
    BY <1>1, <1>6 DEF ReadyStates, ReadOrder
  <2>2. o \in Orders /\ roles \in SUBSET Roles
    BY <2>1 DEF Ready, States
  <2>3. direction \in Directions \cup {None}
    BY <1>1, <2>2, DirectionIsKnown DEF TypeOK
  <2>4. ASSUME roles # {}, direction # None PROVE s \in ReadyStates
    <3> HIDE DEF roles, direction
    <3>1. s \in States /\ s.pc = "lock" /\ s.order = o /\ s.roles = roles /\ s.direction = direction
      BY <2>1, <2>2, <2>3 DEF States
    <3> QED
      BY <2>2, <2>3, <2>4, <3>1 DEF ReadyStates, Ready
  <2>5. call' = [call EXCEPT ![c] = IF roles = {} \/ direction = None THEN Idle ELSE s]
    BY <1>1, <1>6 DEF ReadOrder
  <2> HIDE DEF s, roles, direction
  <2> QED
    BY <1>2, <2>4, <2>5, IdleIsReady
<1>7. ASSUME NEW c \in Calls, LockCircle(c) PROVE call' \in [Calls -> ReadyStates]
  <2> DEFINE k == Circle(c)
  <2>1. call[c].pc = "lock"
    BY <1>7 DEF LockCircle
  <2>2. CASE Candidates(k) = {}
    <3>1. call' = [call EXCEPT ![c] = AfterTurn(c)]
      BY <1>7, <2>2 DEF LockCircle
    <3>2. AfterTurn(c) \in ReadyStates
      BY <1>1, <2>1, AfterTurnIsReady
    <3> QED
      BY <1>2, <3>1, <3>2
  <2>3. CASE Candidates(k) # {}
    <3> DEFINE s == [call[c] EXCEPT !.pc = "commit", !.next = NextInTurn(k)]
    <3>1. call' = [call EXCEPT ![c] = s]
      BY <1>1, <1>7, <2>3 DEF LockCircle
    <3>2. k \in Circles
      BY <1>1, <2>1, CircleFacts
    <3>3. last[k] \in Nat
      <4>1. last \in [Circles -> Artists \cup {Nobody}]
        BY <1>1 DEF TypeOK
      <4>2. last[k] \in Artists \cup {Nobody}
        BY <3>2, <4>1
      <4> QED
        BY <4>2, IdsAreNumbers
    <3>4. NextInTurn(k) \in Artists
      BY <2>3, <3>3, NextFacts DEF Candidates
    <3>5. call[c] \in States /\ Ready(call[c])
      BY <1>1 DEF ReadyStates
    <3> HIDE DEF k
    <3>6. /\ s \in States /\ s.pc = "commit" /\ s.order = call[c].order /\ s.roles = call[c].roles
          /\ s.direction = call[c].direction /\ s.next = NextInTurn(k)
      BY <3>4, <3>5 DEF States
    <3>7. s \in ReadyStates
      BY <2>1, <3>4, <3>5, <3>6 DEF ReadyStates, Ready
    <3> QED
      BY <1>2, <3>1, <3>7
  <2> QED
    BY <2>2, <2>3
<1>8. ASSUME NEW c \in Calls, Commit(c) \/ TurnFails(c) PROVE call' \in [Calls -> ReadyStates]
  <2>1. call[c].pc \in {"lock", "commit"} /\ call' = [call EXCEPT ![c] = AfterTurn(c)]
    BY <1>8 DEF Commit, TurnFails
  <2> QED
    BY <1>1, <1>2, <2>1, AfterTurnIsReady
<1>9. CASE Restart
  BY <1>9, IdleIsReady DEF Restart
<1>10. ASSUME call' = call PROVE call' \in [Calls -> ReadyStates]
  BY <1>1, <1>10
<1>11. CASE (\E m \in Managers : EditOrder(m) \/ UpdateUser(m)) \/ (Environment /\ ~Restart)
  <2>1. call' = call
    BY <1>11, EditFrame, UserFrame, EnvironmentFrame
  <2> QED
    BY <1>10, <2>1
<1> QED
  BY <1>3, <1>4, <1>5, <1>6, <1>7, <1>8, <1>9, <1>11 DEF Next, MaybeAssign, Environment

\* An edit goes on, and knows what it writes.
LEMMA EditStep ==
    ASSUME IInv, Next
    PROVE  edit' \in [Managers -> ReadyEdits] /\ form' \in [Managers -> Forms]
<1>1. edit \in [Managers -> ReadyEdits] /\ form \in [Managers -> Forms] /\ TypeOK
  BY DEF IInv, ReadyInv
<1>2. ASSUME NEW m \in Managers, NEW e \in ReadyEdits, edit' = [edit EXCEPT ![m] = e]
      PROVE  edit' \in [Managers -> ReadyEdits]
  BY <1>1, <1>2
<1>3. ASSUME NEW m \in Managers, NEW o \in Orders, NEW r \in Roles,
             NEW a \in Artists \cup {Nobody}, BeginEdit(m, o, r, a)
      PROVE  edit' \in [Managers -> ReadyEdits] /\ form' = form
  <2>1. artist[o][r] \in Artists \cup {Nobody}
    BY <1>1 DEF TypeOK
  <2>2. [pc |-> "write", order |-> o, role |-> r, seen |-> artist[o][r], new |-> a] \in ReadyEdits
    BY <2>1 DEF ReadyEdits, Edits
  <2> QED
    BY <1>2, <1>3, <2>2 DEF BeginEdit
<1>4. ASSUME NEW m \in Managers, WriteEdit(m)
      PROVE  edit' \in [Managers -> ReadyEdits] /\ form' = form
  <2>1. edit[m] \in ReadyEdits /\ edit[m].pc = "write"
    BY <1>1, <1>4 DEF WriteEdit
  <2>2. [edit[m] EXCEPT !.pc = "record"] \in ReadyEdits
    BY <2>1 DEF ReadyEdits, Edits
  <2>3. edit' = [edit EXCEPT ![m] = [edit[m] EXCEPT !.pc = "record"]] /\ form' = form
    BY <1>1, <1>4 DEF WriteEdit
  <2> QED
    BY <1>2, <2>2, <2>3
<1>5. ASSUME NEW m \in Managers, RecordEdit(m) \/ RecordFails(m)
      PROVE  edit' \in [Managers -> ReadyEdits] /\ form' = form
  BY <1>2, <1>5, IdleIsReady DEF RecordEdit, RecordFails
<1>6. ASSUME NEW m \in Managers, UpdateUser(m)
      PROVE  edit' = edit /\ form' \in [Managers -> Forms]
  <2>1. ASSUME NEW a \in Artists, NEW role \in Roles \cup {None}, NEW directions \in SUBSET Directions,
               BeginUserUpdate(m, a, role, directions)
        PROVE  edit' = edit /\ form' \in [Managers -> Forms]
    <3>1. user[a].shift \in BOOLEAN
      BY <1>1 DEF TypeOK
    <3>2. [artist |-> a, role |-> role, directions |-> directions, shift |-> user[a].shift] \in Forms
      BY <3>1 DEF Forms
    <3> QED
      BY <1>1, <2>1, <3>2 DEF BeginUserUpdate, Unchanging
  <2>2. ASSUME WriteUser(m) PROVE edit' = edit /\ form' \in [Managers -> Forms]
    BY <1>1, <2>2, IdleIsReady DEF WriteUser, Unchanging
  <2> QED
    BY <1>6, <2>1, <2>2 DEF UpdateUser
<1>7. CASE Restart
  BY <1>7, IdleIsReady DEF Restart
<1>8. CASE (\E c \in Calls : MaybeAssign(c)) \/ Loaded \/ LoadFails \/ (Environment /\ ~Restart)
  <2>1. edit' = edit /\ form' = form
    BY <1>8, AssignFrame, LoadFrame, EnvironmentFrame
  <2> QED
    BY <1>1, <2>1
<1> QED
  BY <1>1, <1>3, <1>4, <1>5, <1>6, <1>7, <1>8 DEF Next, EditOrder, Environment

\* Who is on shift may change, and the history of those who leave a circle is over.
LEMMA UserStep ==
    ASSUME IInv, Next
    PROVE  \/ user' = user /\ passed' = passed /\ last' = last
           \/ user' = user /\ \E c \in Calls : Commit(c)
           \/ /\ user' \in [Artists -> Users]
              /\ StillWaiting
              /\ UNCHANGED <<artist, last, holder, call, edit, journal>>
<1>1. TypeOK /\ form \in [Managers -> Forms] /\ user \in [Artists -> Users]
  BY DEF IInv, ReadyInv, TypeOK, Users
<1>2. ASSUME NEW a \in Artists, SetShift(a) PROVE user' \in [Artists -> Users]
  <2>1. user[a] \in Users
    BY <1>1
  <2>2. [user[a] EXCEPT !.shift = ~@] \in Users
    BY <2>1 DEF Users
  <2>3. user' = [user EXCEPT ![a] = [user[a] EXCEPT !.shift = ~@]]
    BY <1>1, <1>2 DEF SetShift
  <2> QED
    BY <1>1, <2>2, <2>3
<1>3. CASE ResetShifts
  <2>1. \A a \in Artists : [user[a] EXCEPT !.shift = FALSE] \in Users
    BY <1>1 DEF Users
  <2>2. user' \in [Artists -> Users]
    BY <1>3, <2>1 DEF ResetShifts
  <2> QED
    BY <1>3, <2>2 DEF ResetShifts, Unchanging
<1>4. ASSUME NEW m \in Managers, WriteUser(m) PROVE user' \in [Artists -> Users]
  <2> DEFINE f == form[m]
             designer == f.role \in Roles
             u == [role |-> f.role, shift |-> user[f.artist].shift /\ (designer \/ ~f.shift),
                   directions |-> IF designer THEN f.directions ELSE {}]
  <2>1. f \in Forms /\ f # NoForm
    BY <1>1, <1>4 DEF WriteUser
  <2>2. f.artist \in Artists /\ f.role \in Roles \cup {None} /\ f.directions \in SUBSET Directions
        /\ f.shift \in BOOLEAN
    BY <2>1 DEF Forms
  <2>3. user[f.artist].shift \in BOOLEAN
    BY <1>1, <2>2 DEF Users
  <2>4. user' = [user EXCEPT ![f.artist] = u]
    BY <1>1, <1>4, <2>2 DEF WriteUser
  <2>5. u \in Users
    BY <2>2, <2>3 DEF Users
  <2> HIDE DEF u, f
  <2> QED
    BY <1>1, <2>4, <2>5
<1>5. CASE \E a \in Artists : SetShift(a)
  BY <1>2, <1>5 DEF SetShift, Unchanging
<1>6. CASE \E m \in Managers : WriteUser(m)
  BY <1>4, <1>6 DEF WriteUser, Unchanging
<1>7. CASE \/ \E c \in Calls : MaybeAssign(c) /\ ~Commit(c)
           \/ Loaded \/ LoadFails
           \/ \E m \in Managers : EditOrder(m)
           \/ \E m \in Managers, a \in Artists, role \in Roles \cup {None},
                 directions \in SUBSET Directions : BeginUserUpdate(m, a, role, directions)
           \/ CacheExpires \/ TurnOfTheHour \/ Restart
           \/ \E roles \in SUBSET Roles : SetAssigning(roles)
           \/ \E o \in Orders, new \in SUBSET Directions : SetTags(o, new)
  <2>1. CASE \/ \E m \in Managers, a \in Artists, role \in Roles \cup {None},
                  directions \in SUBSET Directions : BeginUserUpdate(m, a, role, directions)
             \/ CacheExpires \/ TurnOfTheHour \/ Restart
             \/ \E roles \in SUBSET Roles : SetAssigning(roles)
             \/ \E o \in Orders, new \in SUBSET Directions : SetTags(o, new)
    <3>1. UNCHANGED <<user, passed, last>>
      BY <2>1 DEF BeginUserUpdate, CacheExpires, TurnOfTheHour, Restart, SetAssigning, SetTags,
                  Unchanging, users
    <3> QED
      BY <3>1
  <2> QED
    BY <1>7, <2>1, AssignFrame, LoadFrame, EditFrame
<1>8. CASE \E c \in Calls : Commit(c)
  BY <1>8 DEF Commit
<1> QED
  BY <1>3, <1>5, <1>6, <1>7, <1>8 DEF Next, UpdateUser, Environment, MaybeAssign

\* What a turn changes.
LEMMA CommitFacts ==
    ASSUME IInv, NEW c \in Calls, Commit(c)
    PROVE  /\ call[c].pc = "commit" /\ Circle(c) \in Circles /\ Circle(c)[2] \in Roles
           /\ call[c].order \in Orders /\ call[c].next \in Artists /\ holder[Circle(c)] = c
           /\ artist' \in [Orders -> [Roles -> Artists \cup {Nobody}]]
           /\ named' \in [Orders -> SUBSET Artists]
           /\ last' \in [Circles -> Artists \cup {Nobody}]
           /\ passed' \in [Circles -> [Artists -> SUBSET Artists]]
           /\ holder' = [holder EXCEPT ![Circle(c)] = None]
           /\ \/ /\ artist' = artist /\ last' = last
                 /\ named' = named /\ passed' = passed
              \/ /\ artist[call[c].order][Circle(c)[2]] = Nobody
                 /\ artist' = [artist EXCEPT ![call[c].order][Circle(c)[2]] = call[c].next]
                 /\ last' = [last EXCEPT ![Circle(c)] = call[c].next]
                 /\ named' = [named EXCEPT ![call[c].order] = @ \cup {call[c].next}]
                 /\ TakesTurn(Circle(c), call[c].next)
<1> DEFINE k == Circle(c)
           o == call[c].order
           n == call[c].next
<1>1. call \in [Calls -> ReadyStates] /\ TypeOK /\ LockInv /\ call[c].pc = "commit"
  BY DEF IInv, ReadyInv, Commit
<1>2. k \in Circles /\ k[2] \in Roles /\ o \in Orders /\ n \in Artists /\ holder[k] = c
  BY <1>1, CircleFacts DEF LockInv
<1>3. holder' = [holder EXCEPT ![k] = None]
  BY DEF Commit
<1>4. CASE artist[o][k[2]] = Nobody
  <2>1. /\ artist' = [artist EXCEPT ![o][k[2]] = n]
        /\ last' = [last EXCEPT ![k] = n]
        /\ named' = [named EXCEPT ![o] = @ \cup {n}]
        /\ TakesTurn(k, n)
    BY <1>4 DEF Commit
  <2>2. /\ artist \in [Orders -> [Roles -> Artists \cup {Nobody}]]
        /\ last \in [Circles -> Artists \cup {Nobody}] /\ named \in [Orders -> SUBSET Artists]
        /\ passed \in [Circles -> [Artists -> SUBSET Artists]]
    BY <1>1 DEF TypeOK
  <2> HIDE DEF k, o, n
  <2>3. last' \in [Circles -> Artists \cup {Nobody}] /\ named' \in [Orders -> SUBSET Artists]
    BY <1>2, <2>1, <2>2
  <2>4. artist' \in [Orders -> [Roles -> Artists \cup {Nobody}]]
    BY <1>2, <2>1, <2>2
  <2>5. passed' \in [Circles -> [Artists -> SUBSET Artists]]
    <3> DEFINE f == [a \in Artists |-> IF a = n \/ a \notin Candidates(k) THEN {}
                                       ELSE passed[k][a] \cup {n}]
    <3>1. f \in [Artists -> SUBSET Artists]
      BY <1>2, <2>2
    <3>2. passed' = [passed EXCEPT ![k] = f]
      BY <2>1 DEF TakesTurn
    <3> HIDE DEF f
    <3> QED
      BY <2>2, <3>1, <3>2
  <2> USE DEF k, o, n
  <2> QED
    BY <1>1, <1>2, <1>3, <1>4, <2>1, <2>3, <2>4, <2>5
<1>5. CASE artist[o][k[2]] # Nobody
  <2>1. UNCHANGED <<artist, last, named, passed>>
    BY <1>5 DEF Commit
  <2> QED
    BY <1>1, <1>2, <1>3, <2>1 DEF TypeOK
<1> QED
  BY <1>4, <1>5

\* Who leaves a circle loses the history, the others keep it.
LEMMA WaitingFacts ==
    ASSUME TypeOK, StillWaiting, user' \in [Artists -> Users]
    PROVE  /\ passed' \in [Circles -> [Artists -> SUBSET Artists]]
           /\ \A k \in Circles, a \in Artists :
                 /\ passed'[k][a] \subseteq passed[k][a]
                 /\ passed'[k][a] # {} => a \in Candidates(k)'
<1>1. passed \in [Circles -> [Artists -> SUBSET Artists]]
  BY DEF TypeOK
<1>2. \A k \in Circles, a \in Artists :
        passed'[k][a] = IF user'[a].role = k[2] /\ user'[a].shift /\ k[1] \in user'[a].directions
                        THEN passed[k][a] ELSE {}
  BY DEF StillWaiting
<1>3. passed' \in [Circles -> [Artists -> SUBSET Artists]]
  <2> DEFINE f(k) == [a \in Artists |->
                        IF user'[a].role = k[2] /\ user'[a].shift /\ k[1] \in user'[a].directions
                        THEN passed[k][a] ELSE {}]
  <2>1. \A k \in Circles : f(k) \in [Artists -> SUBSET Artists]
    BY <1>1
  <2>2. passed' = [k \in Circles |-> f(k)]
    BY DEF StillWaiting
  <2> HIDE DEF f
  <2> QED
    BY <2>1, <2>2
<1> QED
  BY <1>2, <1>3 DEF Candidates

LEMMA TypeStep == ASSUME IInv, Next PROVE TypeOK'
<1>1. TypeOK /\ ReadyInv
  BY DEF IInv
<1>2. call' \in [Calls -> States] /\ edit' \in [Managers -> Edits]
  BY CallStep, EditStep DEF ReadyStates, ReadyEdits
<1>3. user' \in [Artists -> Users]
  BY <1>1, UserStep DEF TypeOK, Users
<1>4. tags' \in [Orders -> SUBSET Directions]
  <2>1. tags' = tags \/ \E o \in Orders, new \in SUBSET Directions : SetTags(o, new)
    BY AssignFrame, LoadFrame, EditFrame, UserFrame, EnvironmentFrame DEF Next
  <2> QED
    BY <1>1, <2>1 DEF TypeOK, SetTags
<1>5. assigning' \in SUBSET Roles /\ open' \in BOOLEAN
      /\ cache' \in {None} \cup SUBSET Roles /\ load' \in {None} \cup SUBSET Roles
  <2>1. /\ assigning \in SUBSET Roles /\ open \in BOOLEAN
        /\ cache \in {None} \cup SUBSET Roles /\ load \in {None} \cup SUBSET Roles
    BY <1>1 DEF TypeOK
  <2>2. \/ UNCHANGED <<assigning, open, cache, load>>
        \/ \E c \in Calls, o \in Orders : Enter(c, o)
        \/ Loaded \/ LoadFails \/ CacheExpires \/ TurnOfTheHour \/ Restart
        \/ \E roles \in SUBSET Roles : SetAssigning(roles)
    BY AssignFrame, EditFrame, UserFrame, EnvironmentFrame DEF Next
  <2>3. ASSUME NEW c \in Calls, NEW o \in Orders, Enter(c, o)
        PROVE  UNCHANGED <<assigning, open, cache>> /\ (load' = load \/ load' = assigning)
    BY <2>3 DEF Enter
  <2>4. CASE Loaded \/ LoadFails \/ CacheExpires \/ TurnOfTheHour \/ Restart
    BY <2>1, <2>4 DEF Loaded, LoadFails, CacheExpires, TurnOfTheHour, Restart
  <2>5. CASE \E roles \in SUBSET Roles : SetAssigning(roles)
    BY <2>1, <2>5 DEF SetAssigning
  <2> QED
    BY <2>1, <2>2, <2>3, <2>4, <2>5
<1>6. holder' \in [Circles -> Calls \cup {None}]
  <2>1. holder \in [Circles -> Calls \cup {None}]
    BY <1>1 DEF TypeOK
  <2>2. \/ holder' = holder \/ Restart
        \/ \E c \in Calls : LockCircle(c) \/ Commit(c) \/ TurnFails(c)
    BY AssignFrame, LoadFrame, EditFrame, UserFrame, EnvironmentFrame DEF Next
  <2>3. ASSUME NEW c \in Calls, LockCircle(c) PROVE holder' \in [Circles -> Calls \cup {None}]
    <3>1. holder' = holder \/ holder' = [holder EXCEPT ![Circle(c)] = c]
      BY <2>3 DEF LockCircle
    <3> QED
      BY <2>1, <3>1
  <2>4. ASSUME NEW c \in Calls, Commit(c) PROVE holder' \in [Circles -> Calls \cup {None}]
    BY <2>1, <2>4, CommitFacts
  <2>5. ASSUME NEW c \in Calls, TurnFails(c) PROVE holder' \in [Circles -> Calls \cup {None}]
    BY <2>1, <2>5 DEF TurnFails
  <2>6. CASE Restart
    BY <2>6 DEF Restart
  <2> QED
    BY <2>1, <2>2, <2>3, <2>4, <2>5, <2>6
<1>7. last' \in [Circles -> Artists \cup {Nobody}] /\ passed' \in [Circles -> [Artists -> SUBSET Artists]]
    BY <1>1, UserStep, WaitingFacts, CommitFacts DEF TypeOK
<1>8. artist' \in [Orders -> [Roles -> Artists \cup {Nobody}]]
  <2>1. artist \in [Orders -> [Roles -> Artists \cup {Nobody}]]
    BY <1>1 DEF TypeOK
  <2>2. artist' = artist \/ (\E c \in Calls : Commit(c)) \/ \E m \in Managers : WriteEdit(m)
    BY AssignFrame, LoadFrame, EditFrame, UserFrame, EnvironmentFrame DEF Next
  <2>3. ASSUME NEW m \in Managers, WriteEdit(m)
        PROVE  artist' \in [Orders -> [Roles -> Artists \cup {Nobody}]]
    <3>1. edit[m].order \in Orders /\ edit[m].role \in Roles /\ edit[m].new \in Artists \cup {Nobody}
      BY <1>1, <2>3 DEF ReadyInv, ReadyEdits, Edits, WriteEdit
    <3>2. artist' = [artist EXCEPT ![edit[m].order][edit[m].role] = edit[m].new]
      BY <2>3 DEF WriteEdit
    <3> QED
      BY <2>1, <3>1, <3>2
  <2> QED
    BY <2>1, <2>2, <2>3, CommitFacts
<1>9. named' \in [Orders -> SUBSET Artists] /\ unrecorded' \in SUBSET (Artists \cup {Nobody})
  <2>1. named \in [Orders -> SUBSET Artists] /\ unrecorded \in SUBSET (Artists \cup {Nobody})
    BY <1>1 DEF TypeOK
  <2>2. \/ UNCHANGED journal \/ Restart
        \/ \E c \in Calls : Commit(c)
        \/ \E m \in Managers : RecordEdit(m) \/ RecordFails(m)
    BY AssignFrame, LoadFrame, EditFrame, UserFrame, EnvironmentFrame DEF Next, journal
  <2>3. \A m \in Managers : edit[m].new \in Artists \cup {Nobody}
    BY <1>1 DEF ReadyInv, ReadyEdits, Edits
  <2>4. ASSUME NEW m \in Managers, RecordEdit(m)
        PROVE  named' \in [Orders -> SUBSET Artists] /\ unrecorded' = unrecorded
    <3>1. edit[m].new # Nobody => edit[m].new \in Artists
      BY <2>3
    <3> QED
      BY <2>1, <2>4, <3>1 DEF RecordEdit
  <2>5. ASSUME NEW m \in Managers, RecordFails(m)
        PROVE  named' = named /\ unrecorded' \in SUBSET (Artists \cup {Nobody})
    BY <2>1, <2>3, <2>5 DEF RecordFails
  <2>6. CASE Restart
    BY <2>1, <2>3, <2>6 DEF Restart
  <2>7. ASSUME NEW c \in Calls, Commit(c)
        PROVE  named' \in [Orders -> SUBSET Artists] /\ unrecorded' = unrecorded
    BY <2>7, CommitFacts DEF Commit
  <2> QED
    BY <2>1, <2>2, <2>4, <2>5, <2>6, <2>7 DEF journal
<1> QED
  BY <1>2, <1>3, <1>4, <1>5, <1>6, <1>7, <1>8, <1>9 DEF TypeOK, States, Edits, Users

-----------------------------------------------------------------------------
(* The lock. *)

\* A step that gives nobody a turn leaves those who have one alone.
LEMMA TurnMoves ==
    ASSUME IInv, Next
    PROVE  \/ /\ holder' = holder
              /\ \A d \in Calls : call'[d].pc = "commit" => call'[d] = call[d]
           \/ \E c \in Calls : LockCircle(c) \/ Commit(c) \/ TurnFails(c)
           \/ Restart
<1>1. call \in [Calls -> ReadyStates] /\ TypeOK
  BY DEF IInv, ReadyInv
<1>2. ASSUME NEW c \in Calls, NEW s, s.pc # "commit", call' = [call EXCEPT ![c] = s]
      PROVE  \A d \in Calls : call'[d].pc = "commit" => call'[d] = call[d]
  BY <1>1, <1>2
<1>3. ASSUME NEW c \in Calls, NEW o \in Orders, Enter(c, o)
      PROVE  /\ holder' = holder
             /\ \A d \in Calls : call'[d].pc = "commit" => call'[d] = call[d]
  <2>1. cache # None => Continue(o, cache).pc # "commit"
    BY <1>1, ContinueIsReady DEF TypeOK
  <2>2. [Idle EXCEPT !.pc = "settings", !.order = o].pc # "commit"
    BY DEF Idle
  <2> QED
    BY <1>2, <1>3, <2>1, <2>2 DEF Enter
<1>4. CASE Loaded
  <2>1. load \in SUBSET Roles
    BY <1>1, <1>4 DEF Loaded, TypeOK
  <2>2. \A c \in Calls : call[c].pc = "settings" => Continue(call[c].order, load).pc # "commit"
    BY <1>1, <2>1, ContinueIsReady DEF ReadyStates, Ready
  <2> QED
    BY <1>4, <2>2 DEF Loaded
<1>5. CASE LoadFails
  BY <1>5 DEF LoadFails, Idle
<1>6. ASSUME NEW c \in Calls, ReadOrder(c)
      PROVE  /\ holder' = holder
             /\ \A d \in Calls : call'[d].pc = "commit" => call'[d] = call[d]
  <2>1. PICK s : call' = [call EXCEPT ![c] = s] /\ s.pc # "commit"
    <3> DEFINE roles == {r \in call[c].roles : artist[call[c].order][r] = Nobody}
               direction == Direction(call[c].order)
               s == [call[c] EXCEPT !.pc = "lock", !.roles = roles, !.direction = direction]
               t == IF roles = {} \/ direction = None THEN Idle ELSE s
    <3>1. call[c] \in States
      BY <1>1 DEF ReadyStates
    <3>2. s.pc # "commit"
      BY <3>1 DEF States
    <3>3. call' = [call EXCEPT ![c] = t]
      BY <1>1, <1>6 DEF ReadOrder
    <3> HIDE DEF s, roles, direction
    <3>4. t.pc # "commit"
      BY <3>2 DEF Idle
    <3> HIDE DEF t
    <3> QED
      BY <3>3, <3>4
  <2> QED
    BY <1>2, <1>6, <2>1 DEF ReadOrder
<1>7. CASE (\E m \in Managers : EditOrder(m) \/ UpdateUser(m)) \/ (Environment /\ ~Restart)
  BY <1>7, EditFrame, UserFrame, EnvironmentFrame
<1> QED
  BY <1>3, <1>4, <1>5, <1>6, <1>7 DEF Next, MaybeAssign, Environment

\* What locking a circle changes.
LEMMA LockFacts ==
    ASSUME IInv, NEW c \in Calls, LockCircle(c)
    PROVE  /\ call[c].pc = "lock" /\ Circle(c) \in Circles /\ holder[Circle(c)] = None
           /\ \/ holder' = holder /\ call' = [call EXCEPT ![c] = AfterTurn(c)]
                 /\ AfterTurn(c).pc # "commit"
              \/ /\ holder' = [holder EXCEPT ![Circle(c)] = c]
                 /\ Candidates(Circle(c)) # {}
                 /\ \E s : /\ call' = [call EXCEPT ![c] = s]
                           /\ s.direction = call[c].direction /\ s.roles = call[c].roles
                           /\ s.next = NextInTurn(Circle(c))
<1>1. call \in [Calls -> ReadyStates] /\ call[c].pc = "lock"
  BY DEF IInv, ReadyInv, LockCircle
<1>2. Circle(c) \in Circles /\ AfterTurn(c).pc # "commit"
  BY <1>1, CircleFacts, AfterTurnIsReady
<1>3. holder[Circle(c)] = None
  BY DEF LockCircle
<1>4. CASE Candidates(Circle(c)) = {}
  BY <1>1, <1>2, <1>3, <1>4 DEF LockCircle
<1>5. CASE Candidates(Circle(c)) # {}
  <2> DEFINE s == [call[c] EXCEPT !.pc = "commit", !.next = NextInTurn(Circle(c))]
  <2>1. holder' = [holder EXCEPT ![Circle(c)] = c] /\ call' = [call EXCEPT ![c] = s]
    BY <1>1, <1>5 DEF LockCircle
  <2>2. call[c] \in States
    BY <1>1 DEF ReadyStates
  <2>3. s.direction = call[c].direction /\ s.roles = call[c].roles /\ s.next = NextInTurn(Circle(c))
    BY <2>2 DEF States
  <2> HIDE DEF s
  <2> QED
    BY <1>1, <1>2, <1>3, <1>5, <2>1, <2>3
<1> QED
  BY <1>4, <1>5

LEMMA LockStep == ASSUME IInv, Next PROVE LockInv'
<1>1. call \in [Calls -> ReadyStates] /\ TypeOK /\ LockInv
  BY DEF IInv, ReadyInv
<1>2. holder \in [Circles -> Calls \cup {None}]
  BY <1>1 DEF TypeOK
<1>3. \A d \in Calls : call[d].pc = "commit" => Circle(d) \in Circles
  BY <1>1, CircleFacts
<1>4. SUFFICES ASSUME NEW d \in Calls, call'[d].pc = "commit" PROVE holder'[Circle(d)'] = d
  BY DEF LockInv
<1>5. ASSUME call'[d] = call[d], holder'[Circle(d)] = holder[Circle(d)] PROVE holder'[Circle(d)'] = d
  BY <1>1, <1>4, <1>5 DEF LockInv, Circle
<1>6. ASSUME NEW c \in Calls, LockCircle(c) PROVE holder'[Circle(d)'] = d
  <2>1. CASE c = d
    <3>1. \E s : /\ call' = [call EXCEPT ![c] = s]
                 /\ s.direction = call[c].direction /\ s.roles = call[c].roles
      BY <1>1, <1>4, <1>6, <2>1, LockFacts
    <3>2. Circle(d)' = Circle(d)
      BY <1>1, <2>1, <3>1 DEF Circle
    <3>3. holder' = [holder EXCEPT ![Circle(c)] = c] /\ Circle(c) \in Circles
      BY <1>1, <1>4, <1>6, <2>1, LockFacts
    <3> QED
      BY <1>2, <2>1, <3>2, <3>3
  <2>2. CASE c # d
    <3>1. call'[d] = call[d]
      BY <1>1, <1>6, <2>2, LockFacts
    <3>2. Circle(d) # Circle(c)
      BY <1>1, <1>4, <1>6, <3>1, LockFacts DEF LockInv
    <3>3. holder'[Circle(d)] = holder[Circle(d)]
      BY <1>2, <1>3, <1>4, <1>6, <3>1, <3>2, LockFacts
    <3> QED
      BY <1>5, <3>1, <3>3
  <2> QED
    BY <2>1, <2>2
<1>7. ASSUME NEW c \in Calls, Commit(c) \/ TurnFails(c) PROVE holder'[Circle(d)'] = d
  <2>1. call[c].pc \in {"lock", "commit"} /\ call' = [call EXCEPT ![c] = AfterTurn(c)]
    BY <1>7 DEF Commit, TurnFails
  <2>2. c # d
    BY <1>1, <1>4, <2>1, AfterTurnIsReady
  <2>3. call'[d] = call[d]
    BY <1>1, <2>1, <2>2
  <2>4. holder[Circle(d)] = d /\ Circle(d) \in Circles
    BY <1>1, <1>3, <1>4, <2>3 DEF LockInv
  <2>5. CASE Commit(c)
    <3>1. holder' = [holder EXCEPT ![Circle(c)] = None] /\ holder[Circle(c)] = c
      BY <2>5, CommitFacts
    <3> QED
      BY <1>2, <1>5, <2>2, <2>3, <2>4, <3>1
  <2>6. CASE TurnFails(c)
    <3>1. holder'[Circle(d)] = holder[Circle(d)]
      BY <2>2, <2>4, <2>6 DEF TurnFails
    <3> QED
      BY <1>5, <2>3, <3>1
  <2> QED
    BY <1>7, <2>5, <2>6
<1>8. CASE Restart
  BY <1>4, <1>8 DEF Restart, Idle
<1>9. CASE /\ holder' = holder
           /\ \A e \in Calls : call'[e].pc = "commit" => call'[e] = call[e]
  BY <1>4, <1>5, <1>9
<1> QED
  BY <1>6, <1>7, <1>8, <1>9, TurnMoves

-----------------------------------------------------------------------------
(* The journal. *)

\* A name that is known stays known while only more is recorded or under way.
LEMMA JournalStep == ASSUME IInv, Next PROVE JournalInv'
<1>1. TypeOK /\ JournalInv /\ edit \in [Managers -> ReadyEdits]
  BY DEF IInv, ReadyInv
<1>2. /\ artist \in [Orders -> [Roles -> Artists \cup {Nobody}]]
      /\ named \in [Orders -> SUBSET Artists] /\ unrecorded \in SUBSET (Artists \cup {Nobody})
  BY <1>1 DEF TypeOK
<1>3. \A m \in Managers : /\ edit[m].new \in Artists \cup {Nobody}
                          /\ edit[m].pc # "idle" => edit[m].order \in Orders /\ edit[m].role \in Roles
  BY <1>1 DEF ReadyEdits, Edits
<1> DEFINE More == \A o \in Orders : Known(o) \subseteq Known(o)'
           Seen == \A m \in Managers, o \in Orders :
                      edit'[m].pc # "idle" /\ edit'[m].order = o => edit'[m].seen \in Known(o)'
           Held == \A o \in Orders, r \in Roles : artist'[o][r] \in Known(o)'
<1>4. ASSUME More,
             \A m \in Managers : edit'[m].pc # "idle" =>
                 edit[m].pc # "idle" /\ edit'[m].seen = edit[m].seen /\ edit'[m].order = edit[m].order
      PROVE  Seen
  BY <1>1, <1>3, <1>4 DEF JournalInv
<1>5. ASSUME More, artist' = artist PROVE Held
  BY <1>1, <1>5 DEF JournalInv
<1>6. ASSUME Held, Seen PROVE JournalInv'
  BY <1>6 DEF JournalInv
<1>7. ASSUME edit' = edit, named' = named, unrecorded' = unrecorded PROVE More
  BY <1>7 DEF Known
<1> SUFFICES Held /\ Seen
  BY <1>6
<1>8. ASSUME NEW c \in Calls, Commit(c) PROVE Held /\ Seen
  <2>1. edit' = edit /\ unrecorded' = unrecorded
    BY <1>8 DEF Commit
  <2>2. /\ call[c].order \in Orders /\ Circle(c)[2] \in Roles
        /\ \/ artist' = artist /\ named' = named
           \/ /\ artist' = [artist EXCEPT ![call[c].order][Circle(c)[2]] = call[c].next]
              /\ named' = [named EXCEPT ![call[c].order] = @ \cup {call[c].next}]
    BY <1>8, CommitFacts
  <2>0. PICK o \in Orders, q \in Roles :
           \E n : \/ artist' = artist /\ named' = named
                  \/ /\ artist' = [artist EXCEPT ![o][q] = n]
                     /\ named' = [named EXCEPT ![o] = @ \cup {n}]
    BY <2>2
  <2>3. PICK n : \/ artist' = artist /\ named' = named
                 \/ /\ artist' = [artist EXCEPT ![o][q] = n]
                    /\ named' = [named EXCEPT ![o] = @ \cup {n}]
    BY <2>0
  <2>4. \A p \in Orders : named[p] \subseteq named'[p]
    BY <1>2, <2>3
  <2>5. More
    BY <2>1, <2>4 DEF Known
  <2>6. Seen
    BY <1>4, <2>1, <2>5
  <2>7. CASE artist' = artist
    BY <1>5, <2>5, <2>6, <2>7
  <2>8. CASE artist' # artist
    <3>1. /\ artist' = [artist EXCEPT ![o][q] = n] /\ o \in Orders /\ q \in Roles
          /\ named' = [named EXCEPT ![o] = @ \cup {n}]
      BY <2>3, <2>8
    <3>2. n \in Known(o)'
      BY <1>2, <3>1 DEF Known
    <3> HIDE DEF More
    <3>3. \A p \in Orders, r \in Roles : artist'[p][r] = artist[p][r] \/ (p = o /\ artist'[p][r] = n)
      BY <1>2, <3>1
    <3>4. \A p \in Orders, r \in Roles : artist[p][r] \in Known(p)'
      BY <1>1, <2>5 DEF JournalInv, More
    <3>5. Held
      BY <3>2, <3>3, <3>4
    <3> QED
      BY <2>6, <3>5
  <2> QED
    BY <2>7, <2>8
<1>9. ASSUME NEW m \in Managers, NEW o \in Orders, NEW r \in Roles,
             NEW a \in Artists \cup {Nobody}, BeginEdit(m, o, r, a)
      PROVE  Held /\ Seen
  <2> DEFINE e == [pc |-> "write", order |-> o, role |-> r, seen |-> artist[o][r], new |-> a]
  <2>1. edit' = [edit EXCEPT ![m] = e] /\ artist' = artist /\ UNCHANGED journal /\ edit[m].pc = "idle"
    BY <1>9 DEF BeginEdit
  <2>2. \A n \in Managers : edit'[n] = IF n = m THEN e ELSE edit[n]
    BY <1>1, <2>1
  <2>3. More
    BY <2>1, <2>2 DEF Known, journal
  <2>4. Held
    BY <1>5, <2>1, <2>3
  <2>5. \A p \in Orders : p = o => artist[o][r] \in Known(p)'
    BY <2>1, <2>4
  <2>6. ASSUME NEW n \in Managers, NEW p \in Orders, edit'[n].pc # "idle", edit'[n].order = p
        PROVE  edit'[n].seen \in Known(p)'
    <3>1. CASE n = m
      <4>1. p = o /\ edit'[n].seen = artist[o][r]
        BY <2>2, <2>6, <3>1
      <4> QED
        BY <2>5, <4>1
    <3>2. CASE n # m
      <4>1. edit'[n] = edit[n]
        BY <2>2, <3>2
      <4> HIDE DEF e
      <4> QED
        BY <1>1, <1>3, <2>3, <2>6, <4>1 DEF JournalInv
    <3> QED
      BY <3>1, <3>2
  <2> QED
    BY <2>4, <2>6
<1>10. ASSUME NEW m \in Managers, WriteEdit(m) PROVE Held /\ Seen
  <2>1. /\ edit[m].pc = "write" /\ UNCHANGED journal
        /\ artist' = [artist EXCEPT ![edit[m].order][edit[m].role] = edit[m].new]
        /\ edit' = [edit EXCEPT ![m].pc = "record"]
    BY <1>10 DEF WriteEdit
  <2>2. \A n \in Managers : /\ edit'[n].seen = edit[n].seen /\ edit'[n].order = edit[n].order
                            /\ edit'[n].new = edit[n].new
                            /\ edit'[n].pc = IF n = m THEN "record" ELSE edit[n].pc
    BY <1>1, <2>1 DEF ReadyEdits, Edits
  <2>3. More
    BY <2>1, <2>2 DEF Known, journal
  <2>4. Seen
    BY <1>4, <2>1, <2>2, <2>3
  <2>5. ASSUME NEW o \in Orders, o = edit[m].order PROVE edit[m].new \in Known(o)'
    <3>1. CASE edit[m].new = edit[m].seen
      BY <2>1, <2>2, <2>4, <2>5, <3>1
    <3>2. CASE edit[m].new # edit[m].seen
      BY <2>2, <2>5, <3>2 DEF Known
    <3> QED
      BY <3>1, <3>2
  <2>6. \A p \in Orders, r \in Roles : artist[p][r] \in Known(p)'
    BY <1>1, <2>3 DEF JournalInv
  <2> HIDE DEF More, Seen
  <2>7. \A p \in Orders, r \in Roles :
            artist'[p][r] = artist[p][r] \/ (p = edit[m].order /\ artist'[p][r] = edit[m].new)
    BY <1>2, <1>3, <2>1
  <2> QED
    BY <2>4, <2>5, <2>6, <2>7
<1>11. ASSUME NEW m \in Managers, RecordEdit(m) \/ RecordFails(m) PROVE Held /\ Seen
  <2>1. edit[m].pc = "record" /\ edit' = [edit EXCEPT ![m] = NoEdit] /\ artist' = artist
    BY <1>11 DEF RecordEdit, RecordFails
  <2>2. \A n \in Managers : edit'[n] = IF n = m THEN NoEdit ELSE edit[n]
    BY <1>1, <2>1
  <2>3. ASSUME NEW o \in Orders, NEW x \in Known(o) PROVE x \in Known(o)'
    <3>1. x \in named[o] \cup unrecorded \cup {Nobody} => x \in Known(o)'
      BY <1>2, <1>11 DEF RecordEdit, RecordFails, Known
    <3>2. ASSUME NEW n \in Managers, edit[n].pc = "record", edit[n].order = o,
                 edit[n].new # edit[n].seen, x = edit[n].new
          PROVE  x \in Known(o)'
      <4>1. CASE n # m
        BY <2>2, <3>2, <4>1 DEF Known
      <4>2. CASE n = m /\ RecordEdit(m)
        BY <1>2, <3>2, <4>2 DEF RecordEdit, Known
      <4>3. CASE n = m /\ RecordFails(m)
        BY <3>2, <4>3 DEF RecordFails, Known
      <4> QED
        BY <1>11, <4>1, <4>2, <4>3
    <3> QED
      BY <3>1, <3>2 DEF Known
  <2>4. More
    BY <2>3
  <2> QED
    BY <1>4, <1>5, <2>1, <2>2, <2>4 DEF NoEdit
<1>12. CASE Restart
  <2>1. edit' = [m \in Managers |-> NoEdit] /\ artist' = artist /\ named' = named
        /\ unrecorded' = unrecorded \cup {edit[m].new : m \in {n \in Managers : edit[n].pc = "record"}}
    BY <1>12 DEF Restart
  <2>2. More
    BY <2>1 DEF Known
  <2>3. Held
    BY <1>5, <2>1, <2>2
  <2> QED
    BY <2>1, <2>3 DEF NoEdit
<1>13. CASE \/ \E c \in Calls : MaybeAssign(c) /\ ~Commit(c)
            \/ Loaded \/ LoadFails
            \/ \E m \in Managers : UpdateUser(m)
            \/ Environment /\ ~Restart
  <2>1. edit' = edit /\ named' = named /\ unrecorded' = unrecorded /\ artist' = artist
    BY <1>13, AssignFrame, LoadFrame, UserFrame, EnvironmentFrame
  <2> QED
    BY <1>4, <1>5, <1>7, <2>1
<1> QED
  BY <1>8, <1>9, <1>10, <1>11, <1>12, <1>13 DEF Next, EditOrder, MaybeAssign, Environment

-----------------------------------------------------------------------------
(* Turns. *)

\* Without a turn given, turns stay as they are: some stop to wait, and none chooses.
LEMMA TurnsStay ==
    ASSUME IInv, last' = last,
           \A k \in Circles, a \in Artists :
               /\ passed'[k][a] \subseteq passed[k][a]
               /\ passed'[k][a] # {} => a \in Candidates(k)',
           \A d \in Calls : call'[d].pc = "commit" => call'[d] = call[d]
    PROVE  TurnInv'
<1>1. TurnInv
  BY DEF IInv
<1>2. ASSUME NEW k \in Circles, NEW a \in Artists, NEW d \in Calls,
             call'[d].pc = "commit", Circle(d)' = k, passed'[k][a] # {}
      PROVE  Reaches(last'[k], call'[d].next, a)
  <2>1. call'[d] = call[d] /\ Circle(d) = k /\ passed[k][a] # {}
    BY <1>2 DEF Circle
  <2> QED
    BY <1>1, <1>2, <2>1 DEF TurnInv
<1>3. \A k \in Circles, a \in Artists :
          /\ passed'[k][a] # {} => last'[k] # Nobody
          /\ \A n \in passed'[k][a] : After(a, n, last'[k])
  BY <1>1 DEF TurnInv
<1> QED
  BY <1>2, <1>3 DEF TurnInv, Reaches, After

\* The artist who is chosen does not lie beyond anybody who waits.
LEMMA LockTurn ==
    ASSUME IInv, NEW c \in Calls, LockCircle(c)
    PROVE  TurnInv'
<1>1. TurnInv /\ TypeOK /\ call \in [Calls -> ReadyStates]
  BY DEF IInv, ReadyInv
<1>2. user' = user /\ passed' = passed /\ last' = last
  BY DEF LockCircle, users
<1>3. \A k : Candidates(k)' = Candidates(k)
  BY <1>2 DEF Candidates
<1>4. \A k \in Circles, a \in Artists : passed[k][a] # {} => a \in Candidates(k)
  BY <1>1 DEF TurnInv
<1>5. CASE call' = [call EXCEPT ![c] = AfterTurn(c)] /\ AfterTurn(c).pc # "commit"
  <2>1. \A d \in Calls : call'[d].pc = "commit" => call'[d] = call[d]
    BY <1>1, <1>5
  <2> QED
    BY <1>2, <1>3, <1>4, <2>1, TurnsStay
<1>6. CASE /\ Candidates(Circle(c)) # {}
           /\ \E s : /\ call' = [call EXCEPT ![c] = s]
                     /\ s.direction = call[c].direction /\ s.roles = call[c].roles
                     /\ s.next = NextInTurn(Circle(c))
  <2>1. PICK s : /\ call' = [call EXCEPT ![c] = s]
                 /\ s.direction = call[c].direction /\ s.roles = call[c].roles
                 /\ s.next = NextInTurn(Circle(c))
    BY <1>6
  <2>2. call'[c] = s /\ Circle(c)' = Circle(c)
    BY <1>1, <2>1 DEF Circle
  <2>3. ASSUME NEW k \in Circles, NEW a \in Artists, NEW d \in Calls,
               call'[d].pc = "commit", Circle(d)' = k, passed[k][a] # {}
        PROVE  Reaches(last[k], call'[d].next, a)
    <3>1. CASE d # c
      <4>1. call'[d] = call[d] /\ Circle(d) = k
        BY <1>1, <2>1, <2>3, <3>1 DEF Circle
      <4> QED
        BY <1>1, <2>3, <4>1 DEF TurnInv
    <3>2. CASE d = c
      <4>1. k = Circle(c) /\ call'[d].next = NextInTurn(k)
        BY <2>1, <2>2, <2>3, <3>2
      <4>2. a \in Candidates(k) /\ Candidates(k) # {}
        BY <1>4, <2>3
      <4>3. last[k] \in Artists \cup {Nobody}
        BY <1>1 DEF TypeOK
      <4>4. last[k] \in Nat /\ a \in Nat
        BY <4>3, IdsAreNumbers
      <4>5. a # last[k]
        <5>1. PICK n \in passed[k][a] : After(a, n, last[k])
          BY <1>1, <2>3 DEF TurnInv
        <5> QED
          BY <4>4, <5>1 DEF After
      <4> QED
        BY <4>1, <4>2, <4>4, <4>5, NextFacts
    <3> QED
      BY <3>1, <3>2
  <2> QED
    BY <1>1, <1>2, <1>3, <2>3 DEF TurnInv, Reaches, After
<1> QED
  BY <1>5, <1>6, LockFacts

\* The artist who has had the turn lies behind all who wait, and nobody else of the
\* circle has chosen.
LEMMA CommitTurn ==
    ASSUME IInv, NEW c \in Calls, Commit(c)
    PROVE  TurnInv'
<1>1. TurnInv /\ TypeOK /\ LockInv /\ call \in [Calls -> ReadyStates]
  BY DEF IInv, ReadyInv
<1>2. /\ call[c].pc = "commit" /\ Circle(c) \in Circles /\ call[c].next \in Artists
      /\ holder[Circle(c)] = c
  BY CommitFacts
<1>3. user' = user /\ call' = [call EXCEPT ![c] = AfterTurn(c)] /\ AfterTurn(c).pc # "commit"
  BY <1>1, <1>2, AfterTurnIsReady DEF Commit
<1>4. \A k : Candidates(k)' = Candidates(k)
  BY <1>3 DEF Candidates
<1>5. \A d \in Calls : call'[d].pc = "commit" => d # c /\ call'[d] = call[d]
  BY <1>1, <1>3
<1>6. CASE last' = last /\ passed' = passed
  <2>1. \A k \in Circles, a \in Artists : passed[k][a] # {} => a \in Candidates(k)
    BY <1>1 DEF TurnInv
  <2> QED
    BY <1>4, <1>5, <1>6, <2>1, TurnsStay
<1>7. CASE last' = [last EXCEPT ![Circle(c)] = call[c].next] /\ TakesTurn(Circle(c), call[c].next)
  <2>1. PICK j \in Circles, n \in Artists : j = Circle(c) /\ n = call[c].next
    BY <1>2
  <2>2. \A k \in Circles : last'[k] = IF k = j THEN n ELSE last[k]
    BY <1>1, <1>7, <2>1 DEF TypeOK
  <2>3. \A k \in Circles, a \in Artists :
          passed'[k][a] = IF k # j THEN passed[k][a]
                          ELSE IF a = n \/ a \notin Candidates(j) THEN {} ELSE passed[j][a] \cup {n}
    BY <1>1, <1>7, <2>1 DEF TypeOK, TakesTurn
  <2>4. ASSUME NEW d \in Calls, call'[d].pc = "commit"
        PROVE  Circle(d)' # j /\ Circle(d)' = Circle(d) /\ call[d].pc = "commit" /\ call'[d] = call[d]
    <3>1. call'[d] = call[d] /\ d # c /\ Circle(d)' = Circle(d)
      BY <1>5, <2>4 DEF Circle
    <3> QED
      BY <1>1, <1>2, <2>1, <2>4, <3>1 DEF LockInv
  <2>5. ASSUME NEW k \in Circles, NEW a \in Artists, k # j
        PROVE  /\ passed'[k][a] # {} => a \in Candidates(k) /\ last'[k] # Nobody
               /\ \A m \in passed'[k][a] : After(a, m, last'[k])
               /\ \A d \in Calls : call'[d].pc = "commit" /\ Circle(d)' = k /\ passed'[k][a] # {}
                      => Reaches(last'[k], call'[d].next, a)
    <3>1. passed'[k][a] = passed[k][a] /\ last'[k] = last[k]
      BY <2>2, <2>3, <2>5
    <3>2. \A d \in Calls : call'[d].pc = "commit" /\ Circle(d)' = k /\ passed[k][a] # {}
                      => Reaches(last[k], call'[d].next, a)
      BY <1>1, <2>4 DEF TurnInv
    <3> QED
      BY <1>1, <3>1, <3>2 DEF TurnInv
  <2>6. ASSUME NEW a \in Artists
        PROVE  /\ passed'[j][a] # {} => a \in Candidates(j) /\ last'[j] # Nobody
               /\ \A m \in passed'[j][a] : After(a, m, last'[j])
               /\ \A d \in Calls : call'[d].pc = "commit" => Circle(d)' # j
    <3>1. last'[j] = n /\ n \in Nat /\ n # Nobody /\ a \in Nat
      BY <2>2
    <3>2. passed'[j][a] # {} => a \in Candidates(j) /\ a # n /\ passed'[j][a] = passed[j][a] \cup {n}
      BY <2>3
    <3>3. ASSUME NEW m \in passed[j][a], a # n PROVE After(a, m, n)
      <4>1. After(a, m, last[j]) /\ Reaches(last[j], n, a)
        BY <1>1, <1>2, <2>1, <3>3 DEF TurnInv
      <4>2. last[j] \in Artists \cup {Nobody} /\ m \in Artists
        BY <1>1, <3>3 DEF TypeOK
      <4>3. last[j] \in Nat /\ m \in Nat
        BY <4>2, IdsAreNumbers
      <4> QED
        BY <3>1, <3>3, <4>1, <4>3, RoundFacts
    <3>4. a # n => After(a, n, n)
      BY <3>1 DEF After
    <3>5. \A m \in passed'[j][a] : After(a, m, n)
      BY <3>2, <3>3, <3>4
    <3> QED
      BY <2>4, <3>1, <3>2, <3>5
  <2> QED
    BY <1>4, <2>5, <2>6 DEF TurnInv, Reaches, After
<1> QED
  BY <1>6, <1>7, CommitFacts

LEMMA TurnStep == ASSUME IInv, Next PROVE TurnInv'
<1>1. TurnInv /\ TypeOK /\ call \in [Calls -> ReadyStates]
  BY DEF IInv, ReadyInv
<1>2. \A k \in Circles, a \in Artists : passed[k][a] # {} => a \in Candidates(k)
  BY <1>1 DEF TurnInv
<1>3. ASSUME user' = user, passed' = passed, last' = last,
             \A d \in Calls : call'[d].pc = "commit" => call'[d] = call[d]
      PROVE  TurnInv'
  <2>1. \A k : Candidates(k)' = Candidates(k)
    BY <1>3 DEF Candidates
  <2> QED
    BY <1>2, <1>3, <2>1, TurnsStay
<1>4. CASE user' = user /\ passed' = passed /\ last' = last
  <2>1. ASSUME NEW c \in Calls, TurnFails(c)
        PROVE  \A d \in Calls : call'[d].pc = "commit" => call'[d] = call[d]
    <3>1. call[c].pc \in {"lock", "commit"} /\ call' = [call EXCEPT ![c] = AfterTurn(c)]
      BY <2>1 DEF TurnFails
    <3> QED
      BY <1>1, <3>1, AfterTurnIsReady
  <2>2. CASE Restart
    BY <1>3, <1>4, <2>2 DEF Restart, Idle
  <2> QED
    BY <1>3, <1>4, <2>1, <2>2, TurnMoves, LockTurn, CommitTurn
<1>5. CASE /\ user' \in [Artists -> Users] /\ StillWaiting
           /\ UNCHANGED <<artist, last, holder, call, edit, journal>>
  BY <1>1, <1>5, WaitingFacts, TurnsStay
<1> QED
  BY <1>4, <1>5, UserStep, CommitTurn

-----------------------------------------------------------------------------
(* Theorems. *)

LEMMA StepIInv == IInv /\ [Next]_vars => IInv'
<1> SUFFICES ASSUME IInv, [Next]_vars PROVE IInv'
  OBVIOUS
<1>1. CASE Next
  BY <1>1, TypeStep, CallStep, EditStep, LockStep, JournalStep, TurnStep DEF IInv, ReadyInv
<1>2. CASE UNCHANGED vars
  BY <1>2 DEF vars, users, settings, journal, IInv, TypeOK, ReadyInv, LockInv, JournalInv, TurnInv,
              Known, Circle, Candidates, After, Reaches
<1> QED
  BY <1>1, <1>2

\* Orders, artists, shifts, the circles and what every call and every manager knows keep
\* their types; whoever has chosen an artist holds the lock of the circle, and turns go
\* round.
THEOREM AssignmentInvariant == Spec => []IInv
  BY InitIInv, StepIInv, PTL DEF Spec

\* Every variable of the assignment keeps its type.
THEOREM TypesKept == Spec => []TypeOK
<1>1. IInv => TypeOK
  BY DEF IInv
<1> QED
  BY <1>1, AssignmentInvariant, PTL

\* Nobody is given an order in turn for the second time while a colleague has been
\* waiting in the same circle, whatever calls, managers and users do in between.
THEOREM TurnsAreFair == Spec => FairTurns
<1>1. ASSUME IInv, [Next]_vars
      PROVE  [\A c \in Calls : Commit(c) /\ artist' # artist =>
                 \A a \in Candidates(Circle(c)) : call[c].next \notin passed[Circle(c)][a]]_vars
  <2> SUFFICES ASSUME NEW c \in Calls, Commit(c), NEW a \in Candidates(Circle(c)),
                      call[c].next \in passed[Circle(c)][a]
               PROVE  FALSE
    OBVIOUS
  <2>1. TurnInv /\ TypeOK
    BY <1>1 DEF IInv
  <2>2. call[c].pc = "commit" /\ Circle(c) \in Circles /\ a \in Artists
    BY <1>1, CommitFacts DEF Candidates
  <2>3. After(a, call[c].next, last[Circle(c)]) /\ Reaches(last[Circle(c)], call[c].next, a)
    BY <2>1, <2>2 DEF TurnInv
  <2>4. last[Circle(c)] \in Artists \cup {Nobody} /\ call[c].next \in Artists
    BY <1>1, <2>1, <2>2, CommitFacts DEF TypeOK
  <2>5. last[Circle(c)] \in Nat /\ call[c].next \in Nat /\ a \in Nat
    BY <2>2, <2>4, IdsAreNumbers
  <2> QED
    BY <2>3, <2>5 DEF After, Reaches
<1> QED
  BY <1>1, AssignmentInvariant, PTL DEF Spec, FairTurns

\* The automatic assignment replaces nobody.
THEOREM ManualHolds == Spec => ManualStays
<1>1. ASSUME IInv, [Next]_vars
      PROVE  [\A c \in Calls : Commit(c) =>
                 \A o \in Orders, r \in Roles :
                     artist[o][r] # Nobody => artist'[o][r] = artist[o][r]]_vars
  <2> SUFFICES ASSUME NEW c \in Calls, Commit(c), NEW o \in Orders, NEW r \in Roles,
                      artist[o][r] # Nobody
               PROVE  artist'[o][r] = artist[o][r]
    OBVIOUS
  <2>1. artist \in [Orders -> [Roles -> Artists \cup {Nobody}]]
    BY <1>1 DEF IInv, TypeOK
  <2>2. \/ artist' = artist
        \/ /\ artist[call[c].order][Circle(c)[2]] = Nobody
           /\ artist' = [artist EXCEPT ![call[c].order][Circle(c)[2]] = call[c].next]
    BY <1>1, CommitFacts
  <2> QED
    BY <2>1, <2>2
<1> QED
  BY <1>1, AssignmentInvariant, PTL DEF Spec, ManualStays

\* Whoever has an order is named by its journal.
THEOREM HolderIsNamed == Spec => []HolderIsInJournal
<1>1. IInv => HolderIsInJournal
  BY DEF IInv, JournalInv, HolderIsInJournal, Known
<1> QED
  BY <1>1, AssignmentInvariant, PTL

-----------------------------------------------------------------------------
(* The notifications of a colleague (Notifications), for any chats, statuses *)
(* and people.                                                               *)

\* A key is a chat, and whoever has one is unread and about that chat.
IsNotice(n) ==
    /\ n = [id |-> n.id, about |-> n.about, key |-> n.key, read |-> n.read,
          expired |-> n.expired]
    /\ n.key # Nobody => ~n.read /\ n.about = n.key

\* Whoever is owed a notification has one.
NoticesInv ==
    /\ Nobody \notin Chats /\ member \subseteq Chats
    /\ \A n \in rows : IsNotice(n)
    /\ Notices!NoMessageIsHushed

\* A notification that is too old says what it said.
LEMMA LateNotice ==
    ASSUME NEW n, IsNotice(n), NEW old, old = [n EXCEPT !.expired = TRUE]
    PROVE  IsNotice(old) /\ old.about = n.about /\ old.read = n.read
BY DEF IsNotice

\* It gives up its key with that.
LEMMA MarkedNotice ==
    ASSUME NEW n, IsNotice(n), NEW marked, marked = [n EXCEPT !.read = TRUE, !.key = Nobody]
    PROVE  IsNotice(marked)
BY DEF IsNotice

\* The two inserts.
LEMMA InsertsKeep ==
    ASSUME NoticesInv, NEW j \in jobs, Notices!InsertChat(j) \/ Notices!InsertOrder(j)
    PROVE  NoticesInv'
<1>1. member' = member
  BY DEF Notices!InsertChat, Notices!InsertOrder, Notices!told
<1>2. rows \subseteq rows'
  BY DEF Notices!InsertChat, Notices!InsertOrder
<1>3. CASE Notices!InsertOrder(j)
  <2>1. rows' = rows \cup {Notices!Notice(j, Nobody)} /\ owed' = owed
    BY <1>3 DEF Notices!InsertOrder
  <2>2. IsNotice(Notices!Notice(j, Nobody))
    BY DEF IsNotice, Notices!Notice
  <2> QED
    BY <1>1, <2>1, <2>2 DEF NoticesInv, Notices!NoMessageIsHushed
<1>4. CASE Notices!InsertChat(j)
  <2> DEFINE due == j.about \in member \ muted
             conflict == \E n \in rows : n.key = j.about
             new == Notices!Notice(j, j.about)
  <2>1. /\ owed' = IF due THEN owed \cup {j.about} ELSE owed
        /\ rows' = IF due /\ ~conflict THEN rows \cup {new} ELSE rows
    BY <1>4 DEF Notices!InsertChat, Notices!Key
  <2>2. new = [id |-> j.id, about |-> j.about, key |-> j.about, read |-> FALSE,
        expired |-> FALSE]
    BY DEF Notices!Notice
  <2>3. IsNotice(new) /\ new.about = j.about /\ ~new.read
    BY <2>2 DEF IsNotice
  <2>4. due => \E n \in rows' : n.about = j.about /\ ~n.read
    <3>1. ASSUME due, conflict PROVE \E n \in rows' : n.about = j.about /\ ~n.read
      <4>1. PICK n \in rows : n.key = j.about
        BY <3>1
      <4>2. IsNotice(n) /\ n.key # Nobody
        BY <3>1, <4>1 DEF NoticesInv
      <4> QED
        BY <1>2, <4>1, <4>2 DEF IsNotice
    <3>2. ASSUME due, ~conflict PROVE \E n \in rows' : n.about = j.about /\ ~n.read
      BY <2>1, <2>3, <3>2
    <3> QED
      BY <3>1, <3>2
  <2>5. \A n \in rows' : IsNotice(n)
    BY <2>1, <2>3 DEF NoticesInv
  <2>6. Notices!NoMessageIsHushed'
    BY <1>2, <2>1, <2>4 DEF NoticesInv, Notices!NoMessageIsHushed
  <2> QED
    BY <1>1, <2>5, <2>6 DEF NoticesInv
<1> QED
  BY <1>3, <1>4

\* A notification that is too old, and the cron that removes it.
LEMMA ExpiryKeeps ==
    ASSUME NoticesInv, (\E n \in rows : Notices!Expire(n)) \/ Notices!PurgeExpired
    PROVE  NoticesInv'
<1>1. member' = member
  BY DEF Notices!Expire, Notices!PurgeExpired, Notices!told
<1>2. CASE Notices!PurgeExpired
  <2>1. rows' = Notices!Live /\ owed' = {c \in owed : ~\E n \in rows \ Notices!Live : n.about = c}
    BY <1>2 DEF Notices!PurgeExpired
  <2>2. Notices!Live \subseteq rows
    BY DEF Notices!Live
  <2>3. Notices!NoMessageIsHushed'
    BY <2>1, <2>2 DEF NoticesInv, Notices!NoMessageIsHushed
  <2> QED
    BY <1>1, <2>1, <2>2, <2>3 DEF NoticesInv
<1>3. CASE \E n \in rows : Notices!Expire(n)
  <2>1. PICK n \in rows : Notices!Expire(n)
    BY <1>3
  <2> DEFINE old == [n EXCEPT !.expired = TRUE]
  <2>2. rows' = (rows \ {n}) \cup {old} /\ owed' = owed
    BY <2>1 DEF Notices!Expire
  <2>3. IsNotice(n)
    BY DEF NoticesInv
  <2>4. IsNotice(old) /\ old.about = n.about /\ old.read = n.read
    BY <2>3, LateNotice, Zenon
  <2>5. Notices!NoMessageIsHushed'
    BY <2>2, <2>4 DEF NoticesInv, Notices!NoMessageIsHushed
  <2> QED
    BY <1>1, <2>2, <2>4, <2>5 DEF NoticesInv
<1> QED
  BY <1>2, <1>3

\* Whatever is marked gives up its key.
LEMMA MarkKeeps ==
    ASSUME NoticesInv, NEW c \in requests, Notices!ServeMark(c)
    PROVE  NoticesInv'
<1>1. PICK S \in SUBSET rows : rows' = Notices!Mark(S) /\ owed' = owed \ {n.about : n \in S}
  BY DEF Notices!ServeMark, Notices!AllUnread
<1> DEFINE marked(n) == [n EXCEPT !.read = TRUE, !.key = Nobody]
<1>2. ASSUME NEW n \in S PROVE IsNotice(marked(n))
  <2>1. IsNotice(n)
    BY DEF NoticesInv
  <2> QED
    BY <2>1, MarkedNotice, Zenon
<1>3. \A n \in rows' : IsNotice(n)
  BY <1>1, <1>2 DEF Notices!Mark, NoticesInv
<1>4. Notices!NoMessageIsHushed'
  BY <1>1 DEF Notices!Mark, NoticesInv, Notices!NoMessageIsHushed
<1>5. member' = member
  BY DEF Notices!ServeMark, Notices!told
<1> QED
  BY <1>3, <1>4, <1>5 DEF NoticesInv

\* A chat with a message that the person was to learn of, and has not marked since, has
\* an unread notification, whichever way earlier ones were read or expired.
THEOREM NoChatFallsSilent == Notices!Spec => []Notices!NoMessageIsHushed
<1>1. Notices!Init => NoticesInv
  BY NobodyIsNoChat DEF Notices!Init, NoticesInv, Notices!NoMessageIsHushed
<1>2. ASSUME NoticesInv, [Notices!Next]_Notices!vars PROVE NoticesInv'
  <2>1. CASE UNCHANGED <<rows, owed>> /\ member' \subseteq Chats
    BY <1>2, <2>1 DEF NoticesInv, Notices!NoMessageIsHushed
  <2>2. CASE Notices!Change
    <3>1. UNCHANGED <<rows, owed>> /\ member' \subseteq Chats
      BY <1>2, <2>2 DEF Notices!Change, Notices!SetChatNotificationsEnabled, Notices!SetMember,
            Notices!UpdateSettings, Notices!SetPeople, NoticesInv
    <3> QED
      BY <2>1, <3>1
  <2>3. ASSUME NEW j \in jobs, Notices!JobStep(j) \/ Notices!NotifyFails(j) PROVE NoticesInv'
    <3>1. CASE Notices!InsertChat(j) \/ Notices!InsertOrder(j)
      BY <1>2, <3>1, InsertsKeep
    <3>2. CASE Notices!Recipients(j) \/ Notices!MatchPeople(j) \/
               Notices!CountCreated(j) \/ Notices!EmitCreated(j) \/ Notices!NotifyFails(j)
      <4>1. UNCHANGED <<rows, owed, member>>
        BY <3>2 DEF Notices!Recipients, Notices!MatchPeople, Notices!CountCreated,
              Notices!EmitCreated, Notices!NotifyFails, Notices!told
      <4> QED
        BY <1>2, <2>1, <4>1 DEF NoticesInv
    <3> QED
      BY <2>3, <3>1, <3>2 DEF Notices!JobStep
  <2>4. ASSUME NEW c \in requests, Notices!CallStep(c) \/ Notices!RequestFails(c) PROVE NoticesInv'
    <3>1. CASE Notices!ServeMark(c)
      BY <1>2, <3>1, MarkKeeps
    <3>2. CASE Notices!ServeRead(c) \/ Notices!ServeEmit(c) \/ Notices!BellLoaded(c) \/
               Notices!Answer(c) \/ Notices!RequestFails(c)
      <4>1. UNCHANGED <<rows, owed, member>>
        BY <3>2 DEF Notices!ServeRead, Notices!ServeEmit, Notices!BellLoaded, Notices!Answer,
              Notices!RequestFails, Notices!told
      <4> QED
        BY <1>2, <2>1, <4>1 DEF NoticesInv
    <3> QED
      BY <2>4, <3>1, <3>2 DEF Notices!CallStep
  <2>5. CASE (\E n \in rows : Notices!Expire(n)) \/ Notices!PurgeExpired
    BY <1>2, <2>5, ExpiryKeeps
  <2>6. CASE \/ \E chat \in Chats : Notices!Message(chat) \/ Notices!OpenChat(chat)
             \/ \E status \in Statuses : Notices!EnterStatus(status)
             \/ Notices!Hear \/ Notices!Disconnect \/ Notices!SignIn \/ Notices!OpenBell \/
                \E n \in rows : Notices!HandleToastRead(n)
             \/ UNCHANGED Notices!vars
    <3>1. UNCHANGED <<rows, owed, member>>
      BY <2>6 DEF Notices!Message, Notices!OpenChat, Notices!EnterStatus, Notices!Hear,
            Notices!Disconnect, Notices!SignIn, Notices!OpenBell, Notices!HandleToastRead,
            Notices!vars, Notices!told
    <3> QED
      BY <1>2, <2>1, <3>1 DEF NoticesInv
  <2> QED
    BY <1>2, <2>2, <2>3, <2>4, <2>5, <2>6 DEF Notices!Next
<1>3. NoticesInv => Notices!NoMessageIsHushed
  BY DEF NoticesInv
<1> QED
  BY <1>1, <1>2, <1>3, PTL DEF Notices!Spec

\* The same next to the assignment of orders, as it is model-checked (MCTeam).
THEOREM NobodyIsLeftOut == MCSpec => []NoMessageIsHushed
<1>1. MCInit => Notices!Init
  BY DEF MCInit
<1>2. [MCNext]_<<part, assignmentVars, noticeVars>> => [Notices!Next]_(Notices!vars)
  <2>1. UNCHANGED noticeVars => UNCHANGED Notices!vars
    BY DEF noticeVars, Notices!vars, Notices!told, Notices!bounds
  <2> QED
    BY <2>1 DEF MCNext
<1> QED
  BY <1>1, <1>2, NoChatFallsSilent, PTL DEF MCSpec, Notices!Spec, NoMessageIsHushed

-----------------------------------------------------------------------------
(* The settings of a colleague in the browser and on the server              *)
(* (FrontendSettings), for any accounts and bounds.                          *)

CONSTANTS Accounts, SlowAnswers, MaxPatches, MaxVisits, MaxLosses

VARIABLES profiles, token, stored, shown, ref, timer, board, sent, latest, patches, visits, losses

Settings == INSTANCE FrontendSettings WITH
    server <- profiles, user <- shown, calls <- sent, edits <- patches, MaxEdits <- MaxPatches,
    faults <- losses, MaxFaults <- MaxLosses

IsProfile(p) ==
    /\ p = [account |-> p.account, settings |-> p.settings, onShift |-> p.onShift]
    /\ p.account \in Accounts \cup {Nobody}

\* As long as nothing fails no request is left behind by a page.
IsSent(c) ==
    /\ c = [kind |-> c.kind, data |-> c.data, step |-> c.step, id |-> c.id]
    /\ c.kind \in {"login", "patch", "me", "shift"} /\ c.step \in {"sent", "answered"}
    /\ IsProfile(c.data) /\ c.data.account \in Accounts

AccountsInv ==
    /\ \A a \in Accounts : IsProfile(profiles[a]) /\ profiles[a].account = a
    /\ DOMAIN profiles = Accounts /\ profiles = [a \in Accounts |-> profiles[a]]
    /\ token \in Accounts \cup {Nobody}
    /\ IsProfile(shown) /\ IsProfile(stored)
    /\ \A c \in sent : IsSent(c)

\* Requests whose answer replaces the settings.
Refreshing == {c \in sent : c.kind \in {"patch", "me"}}

\* There is one such request at a time, of the account that is signed in, and none while
\* somebody signs in; its answer is what the server has until it is heard.
AgreeInv ==
    /\ \A c, d \in Refreshing : c = d
    /\ token = Nobody => ~timer
    /\ token # Nobody => shown.account = token /\ stored = shown /\ shown.settings = ref
    /\ \A c \in sent : c.kind = "login" => token = Nobody /\ Refreshing = {}
    /\ \A c, d \in sent : c.kind = "login" /\ d.kind = "login" => c = d
    /\ \A c \in Refreshing : token # Nobody => c.data.account = token
    /\ \A c \in sent : c.step = "answered" /\ c.kind # "shift" =>
           c.data.settings = profiles[c.data.account].settings
    /\ token # Nobody /\ ~timer /\ Refreshing = {} => ref = profiles[token].settings

SettingsInv == AccountsInv /\ AgreeInv

LEMMA AskIsSent ==
    ASSUME NEW kind \in {"login", "patch", "me", "shift"}, NEW data, IsProfile(data),
           data.account \in Accounts
    PROVE  /\ IsSent(Settings!Request(kind, data))
           /\ Settings!Request(kind, data).kind = kind /\ Settings!Request(kind, data).data = data
           /\ Settings!Request(kind, data).step = "sent"
BY DEF IsSent, Settings!Request

LEMMA NewUserIsProfile ==
    \A a \in Accounts \cup {Nobody} :
        IsProfile(Settings!NewUser(a)) /\ Settings!NewUser(a).account = a
BY DEF IsProfile, Settings!NewUser

\* Nothing that waits for an answer is under way.
LEMMA PromptMeans ==
    ASSUME ~SlowAnswers, SettingsInv, Settings!Prompt
    PROVE  Refreshing = {}
BY DEF Settings!Prompt, Refreshing

\* What the browser has keeps its form.
LEMMA AccountsStay ==
    ASSUME AccountsInv, UNCHANGED profiles, token' \in Accounts \cup {Nobody},
           IsProfile(shown'), IsProfile(stored'), \A c \in sent' : IsSent(c)
    PROVE  AccountsInv'
<1>1. \A a \in Accounts : IsProfile(profiles'[a]) /\ profiles'[a].account = a
  BY DEF AccountsInv
<1>2. DOMAIN profiles' = Accounts /\ profiles' = [a \in Accounts |-> profiles'[a]]
  BY DEF AccountsInv
<1> QED
  BY <1>1, <1>2, Zenon DEF AccountsInv, IsSent, IsProfile

\* A new request: refreshing only if none is, and of the one who is signed in.
LEMMA AskKeeps ==
    ASSUME SettingsInv, NEW c, IsSent(c), sent' = sent \cup {c}, c.step = "sent",
           UNCHANGED <<profiles, token, stored, shown, ref>>, timer' => timer,
           ~timer' => ~timer \/ c.kind \in {"patch", "me"},
           c.kind \in {"patch", "me"} => Refreshing = {} /\ token # Nobody /\ c.data.account = token,
           c.kind = "login" => token = Nobody /\ Refreshing = {} /\ ~\E d \in sent : d.kind = "login"
    PROVE  SettingsInv'
<1>1. AccountsInv'
  BY AccountsStay DEF SettingsInv, AccountsInv
<1>2. Refreshing' = Refreshing \cup (IF c.kind \in {"patch", "me"} THEN {c} ELSE {})
  BY DEF Refreshing
<1>3. AgreeInv'
  BY <1>2 DEF SettingsInv, AgreeInv, Refreshing
<1> QED
  BY <1>1, <1>3 DEF SettingsInv

LEMMA ServeKeeps ==
    ASSUME SettingsInv, NEW c \in sent, Settings!Serve(c)
    PROVE  SettingsInv'
<1> DEFINE a == c.data.account
           next == CASE c.kind \in {"patch", "unheard"} ->
                          [profiles[a] EXCEPT !.settings = c.data.settings]
                     [] c.kind = "shift" -> [profiles[a] EXCEPT !.onShift = c.data.onShift]
                     [] OTHER -> profiles[a]
<1>1. IsSent(c) /\ a \in Accounts /\ IsProfile(profiles[a]) /\ profiles[a].account = a
  BY DEF SettingsInv, AccountsInv, IsSent
<1>2. PICK d : d = [c EXCEPT !.step = "answered", !.data = next]
  OBVIOUS
<1>3. /\ c.step = "sent"
      /\ profiles' = [profiles EXCEPT ![a] = next]
      /\ sent' = (sent \ {c}) \cup {d}
      /\ UNCHANGED <<token, stored, shown, ref, timer>>
  BY <1>1, <1>2 DEF Settings!Serve, Settings!page, IsSent
<1>4. /\ IsProfile(next) /\ next.account = a
      /\ next.settings = IF c.kind = "patch" THEN c.data.settings ELSE profiles[a].settings
  <2>1. CASE c.kind = "patch"
    BY <1>1, <2>1 DEF IsProfile
  <2>2. CASE c.kind = "shift"
    BY <1>1, <2>2 DEF IsProfile
  <2>3. CASE c.kind \in {"login", "me"}
    BY <1>1, <2>3
  <2> QED
    BY <1>1, <2>1, <2>2, <2>3 DEF IsSent
<1> HIDE DEF next
<1>5. /\ IsSent(d) /\ d.kind = c.kind /\ d.data = next /\ d.step = "answered"
  BY <1>1, <1>2, <1>4 DEF IsSent
<1>6. /\ profiles'[a] = next /\ DOMAIN profiles' = Accounts
      /\ \A b \in Accounts : b # a => profiles'[b] = profiles[b]
      /\ profiles' = [b \in Accounts |-> profiles'[b]]
  BY <1>1, <1>3 DEF SettingsInv, AccountsInv
<1>7. AccountsInv'
  BY <1>1, <1>3, <1>4, <1>5, <1>6 DEF SettingsInv, AccountsInv, IsProfile, IsSent
<1>8. Refreshing' = IF c.kind \in {"patch", "me"} THEN (Refreshing \ {c}) \cup {d} ELSE Refreshing
  BY <1>3, <1>5 DEF Refreshing
<1>9. AgreeInv'
  <2>1. \A e \in sent : IsSent(e)
    BY DEF SettingsInv, AccountsInv
  <2>2. \A b \in Accounts : c.kind # "patch" => profiles'[b].settings = profiles[b].settings
    BY <1>4, <1>6
  <2>3. \A e \in sent' : e.step = "answered" /\ e.kind # "shift" =>
           e.data.settings = profiles'[e.data.account].settings
    <3> SUFFICES ASSUME NEW e \in sent', e.step = "answered", e.kind # "shift"
                 PROVE  e.data.settings = profiles'[e.data.account].settings
      OBVIOUS
    <3>1. CASE e = d
      BY <1>4, <1>5, <1>6, <3>1
    <3>2. CASE e # d
      <4>1. e \in sent /\ e # c /\ e.data.account \in Accounts
        BY <1>3, <2>1, <3>2 DEF IsSent
      <4>2. e.data.settings = profiles[e.data.account].settings
        BY <4>1 DEF SettingsInv, AgreeInv
      <4>3. c.kind # "patch"
        BY <1>1, <2>1, <4>1 DEF SettingsInv, AgreeInv, Refreshing, IsSent
      <4> QED
        BY <2>2, <4>1, <4>2, <4>3
    <3> QED
      BY <3>1, <3>2
  <2>4. \A e \in Refreshing' : token' # Nobody => e.data.account = token'
    BY <1>1, <1>3, <1>4, <1>5, <1>8 DEF SettingsInv, AgreeInv, Refreshing
  <2>5. \A e, f \in Refreshing' : e = f
    BY <1>8 DEF SettingsInv, AgreeInv, Refreshing
  <2>6. /\ \A e \in sent' : e.kind = "login" => token' = Nobody /\ Refreshing' = {}
        /\ \A e, f \in sent' : e.kind = "login" /\ f.kind = "login" => e = f
    BY <1>3, <1>5, <1>8 DEF SettingsInv, AgreeInv, Refreshing
  <2>7. token' # Nobody /\ ~timer' /\ Refreshing' = {} => ref' = profiles'[token'].settings
    BY <1>3, <1>8, <2>2 DEF SettingsInv, AccountsInv, AgreeInv, Refreshing
  <2> QED
    BY <1>3, <2>3, <2>4, <2>5, <2>6, <2>7 DEF SettingsInv, AgreeInv
<1> QED
  BY <1>7, <1>9 DEF SettingsInv

\* What is kept of a profile that is changed.
LEMMA ProfileChanges ==
    ASSUME NEW p, IsProfile(p), NEW v
    PROVE  /\ IsProfile([p EXCEPT !.settings = v]) /\ [p EXCEPT !.settings = v].settings = v
           /\ [p EXCEPT !.settings = v].account = p.account
           /\ IsProfile([p EXCEPT !.onShift = v]) /\ [p EXCEPT !.onShift = v].settings = p.settings
           /\ [p EXCEPT !.onShift = v].account = p.account
BY DEF IsProfile

LEMMA AnswerKeeps ==
    ASSUME Nobody \notin Accounts, SettingsInv, NEW c \in sent, Settings!Answer(c)
    PROVE  SettingsInv'
<1>1. IsSent(c) /\ IsProfile(c.data) /\ c.data.account \in Accounts /\ IsProfile(shown)
  BY DEF SettingsInv, AccountsInv, IsSent
<1>2. /\ c.step = "answered" /\ sent' = sent \ {c} /\ UNCHANGED <<profiles, timer>>
  BY DEF Settings!Answer, Settings!AnswerLogin, Settings!AnswerMe, Settings!AnswerPatch,
         Settings!AnswerShift, Settings!bounds
<1>3. Refreshing' = Refreshing \ {c}
  BY <1>2 DEF Refreshing
<1>4. ASSUME token' \in Accounts \cup {Nobody}, IsProfile(shown'), IsProfile(stored'),
             token' = Nobody => ~timer,
             token' # Nobody => shown'.account = token' /\ stored' = shown' /\ shown'.settings = ref',
             \A d \in sent' : d.kind = "login" => token' = Nobody,
             \A d \in Refreshing' : token' # Nobody => d.data.account = token',
             token' # Nobody /\ ~timer /\ Refreshing' = {} => ref' = profiles[token'].settings
      PROVE  SettingsInv'
  <2>1. AccountsInv'
    BY <1>2, <1>4, AccountsStay DEF SettingsInv, AccountsInv
  <2>2. AgreeInv'
    BY <1>2, <1>3, <1>4 DEF SettingsInv, AgreeInv
  <2> QED
    BY <2>1, <2>2 DEF SettingsInv
<1>5. CASE Settings!AnswerLogin(c)
  <2>1. c.kind = "login" /\ Refreshing = {} /\ Refreshing' = {} /\ token = Nobody /\ ~timer
    BY <1>3, <1>5 DEF Settings!AnswerLogin, SettingsInv, AgreeInv
  <2>2. /\ token' = c.data.account /\ shown' = c.data /\ stored' = c.data /\ ref' = c.data.settings
    BY <1>5 DEF Settings!AnswerLogin, Settings!CacheUser
  <2>3. c.data.settings = profiles[c.data.account].settings
    BY <1>2, <2>1 DEF SettingsInv, AgreeInv
  <2>4. \A d \in sent' : d.kind # "login"
    BY <1>2, <2>1 DEF SettingsInv, AgreeInv
  <2> QED
    BY <1>1, <1>4, <2>1, <2>2, <2>3, <2>4
<1>6. ASSUME c.kind \in {"me", "patch"}, UNCHANGED token, IsProfile(shown'), IsProfile(stored'),
             ref' = c.data.settings,
             token # Nobody => shown'.account = token /\ stored' = shown' /\ shown'.settings = ref'
      PROVE  SettingsInv'
  <2>1. c \in Refreshing /\ Refreshing' = {}
    BY <1>3, <1>6 DEF Refreshing, SettingsInv, AgreeInv
  <2>2. token # Nobody => c.data.account = token
    BY <2>1 DEF SettingsInv, AgreeInv
  <2>3. c.data.settings = profiles[c.data.account].settings
    BY <1>2, <1>6 DEF SettingsInv, AgreeInv
  <2>4. \A d \in sent' : d.kind # "login"
    BY <1>2, <2>1 DEF SettingsInv, AgreeInv
  <2> QED
    BY <1>4, <1>6, <2>1, <2>2, <2>3, <2>4 DEF SettingsInv, AccountsInv, AgreeInv
<1>7. CASE Settings!AnswerMe(c)
  <2>1. c.kind = "me" /\ c \in Refreshing
    BY <1>7 DEF Settings!AnswerMe, Refreshing
  <2>2. token # Nobody => c.data.account = token
    BY <2>1 DEF SettingsInv, AgreeInv
  <2>3. shown' = c.data /\ stored' = c.data /\ ref' = c.data.settings /\ token' = token
    BY <1>7 DEF Settings!AnswerMe, Settings!CacheUser
  <2> QED
    BY <1>1, <1>6, <2>1, <2>2, <2>3
<1>8. CASE Settings!AnswerPatch(c)
  <2>1. PICK u : u = [shown EXCEPT !.settings = c.data.settings]
    OBVIOUS
  <2>2. c.kind = "patch" /\ token' = token /\ ref' = c.data.settings
    BY <1>8 DEF Settings!AnswerPatch
  <2>3. IsProfile(u) /\ u.settings = c.data.settings /\ u.account = shown.account
    BY <1>1, <2>1 DEF IsProfile
  <2>4. IF shown.account = Nobody THEN UNCHANGED <<shown, stored>> ELSE shown' = u /\ stored' = u
    BY <1>8, <2>1 DEF Settings!AnswerPatch, Settings!MergeUser
  <2>5. token # Nobody => shown.account = token
    BY DEF SettingsInv, AgreeInv
  <2>6. IsProfile(shown') /\ IsProfile(stored')
    BY <2>3, <2>4 DEF SettingsInv, AccountsInv
  <2> QED
    BY <1>6, <2>2, <2>3, <2>4, <2>5, <2>6
<1>9. CASE Settings!AnswerShift(c)
  <2> DEFINE u == [shown EXCEPT !.onShift = c.data.onShift]
  <2>1. c.kind = "shift" /\ token' = token /\ ref' = ref
    BY <1>9 DEF Settings!AnswerShift
  <2>2. IsProfile(u) /\ u.settings = shown.settings /\ u.account = shown.account
    BY <1>1, ProfileChanges
  <2>3. IF shown.account = Nobody THEN UNCHANGED <<shown, stored>> ELSE shown' = u /\ stored' = u
    BY <1>9 DEF Settings!AnswerShift, Settings!MergeUser
  <2> HIDE DEF u
  <2>4. Refreshing' = Refreshing
    BY <1>3, <2>1 DEF Refreshing
  <2>5. IsProfile(shown') /\ IsProfile(stored')
    BY <2>2, <2>3 DEF SettingsInv, AccountsInv
  <2>6. token # Nobody => shown'.account = token /\ stored' = shown' /\ shown'.settings = ref
    BY <2>2, <2>3 DEF SettingsInv, AgreeInv
  <2>7. /\ token \in Accounts \cup {Nobody} /\ (token = Nobody => ~timer)
        /\ \A d \in sent' : d.kind = "login" => token = Nobody
        /\ \A d \in Refreshing : token # Nobody => d.data.account = token
        /\ token # Nobody /\ ~timer /\ Refreshing = {} => ref = profiles[token].settings
    BY <1>2 DEF SettingsInv, AccountsInv, AgreeInv
  <2> QED
    BY <1>4, <2>1, <2>4, <2>5, <2>6, <2>7
<1> QED
  BY <1>5, <1>7, <1>8, <1>9 DEF Settings!Answer

LEMMA LoadKeeps ==
    ASSUME ~SlowAnswers, Nobody \notin Accounts, SettingsInv, Settings!Load
    PROVE  SettingsInv'
<1>1. Refreshing = {} /\ \A c \in sent : IsSent(c)
  BY PromptMeans DEF Settings!Load, SettingsInv, AccountsInv
<1>2. {c \in sent : c.kind \in {"patch", "unheard"} /\ c.step = "sent"} = {}
  BY <1>1 DEF Refreshing, IsSent
<1>3. /\ shown' = stored /\ ref' = stored.settings /\ ~timer' /\ UNCHANGED <<profiles, token, stored>>
      /\ sent' = IF token # Nobody THEN {Settings!Request("me", Settings!NewUser(token))} ELSE {}
  BY <1>2 DEF Settings!Load
<1>4. CASE token = Nobody
  <2>1. sent' = {} /\ Refreshing' = {}
    BY <1>3, <1>4 DEF Refreshing
  <2> QED
    BY <1>3, <1>4, <2>1 DEF SettingsInv, AccountsInv, AgreeInv, IsProfile
<1>5. CASE token # Nobody
  <2>1. PICK c : c = Settings!Request("me", Settings!NewUser(token))
    OBVIOUS
  <2>2. token \in Accounts
    BY <1>5 DEF SettingsInv, AccountsInv
  <2>3. IsSent(c) /\ c.kind = "me" /\ c.data.account = token /\ c.step = "sent"
    BY <2>1, <2>2, AskIsSent, NewUserIsProfile
  <2>4. sent' = {c}
    BY <1>3, <1>5, <2>1
  <2>5. Refreshing' = {c}
    BY <2>3, <2>4 DEF Refreshing
  <2>6. AccountsInv'
    <3>1. \A d \in sent' : IsSent(d)
      BY <2>3, <2>4
    <3> QED
      BY <1>3, <3>1, AccountsStay DEF SettingsInv, AccountsInv
  <2>7. AgreeInv'
    BY <1>3, <1>5, <2>3, <2>4, <2>5 DEF SettingsInv, AgreeInv
  <2> QED
    BY <2>6, <2>7 DEF SettingsInv
<1> QED
  BY <1>4, <1>5

LEMMA LogoutKeeps ==
    ASSUME SettingsInv, Settings!Logout
    PROVE  SettingsInv'
<1>1. /\ token # Nobody /\ token' = Nobody /\ ~timer' /\ UNCHANGED <<profiles, sent>>
      /\ shown' = Settings!NoUser /\ stored' = Settings!NoUser
  BY DEF Settings!Logout, Settings!CacheUser
<1>2. IsProfile(shown') /\ IsProfile(stored')
  BY <1>1, NewUserIsProfile DEF Settings!NoUser
<1>3. Refreshing' = Refreshing
  BY <1>1 DEF Refreshing
<1>4. AccountsInv'
  <2>1. \A c \in sent' : IsSent(c)
    BY <1>1 DEF SettingsInv, AccountsInv
  <2> QED
    BY <1>1, <1>2, <2>1, AccountsStay DEF SettingsInv
<1>5. AgreeInv'
  BY <1>1, <1>3 DEF SettingsInv, AgreeInv
<1> QED
  BY <1>4, <1>5 DEF SettingsInv

\* A setting that is changed is written later.
LEMMA UpdateKeeps ==
    ASSUME Nobody \notin Accounts, SettingsInv, NEW k, NEW value, Settings!SignedIn,
           Settings!UpdateFrontendSettings(k, value), UNCHANGED <<profiles, token, sent>>
    PROVE  SettingsInv'
<1>1. PICK merged : merged = [ref EXCEPT ![k] = value]
  OBVIOUS
<1>2. PICK u : u = [shown EXCEPT !.settings = merged]
  OBVIOUS
<1>3. IsProfile(u) /\ u.settings = merged /\ u.account = shown.account
  BY <1>2 DEF SettingsInv, AccountsInv, IsProfile
<1>4. /\ token # Nobody /\ timer' /\ ref' = merged /\ shown' = u /\ stored' = u
  BY <1>1, <1>2 DEF Settings!SignedIn, Settings!UpdateFrontendSettings, Settings!MergeUser
<1>5. Refreshing' = Refreshing
  BY DEF Refreshing
<1>6. AccountsInv'
  BY <1>3, <1>4, AccountsStay DEF SettingsInv, AccountsInv
<1>7. AgreeInv'
  BY <1>3, <1>4, <1>5 DEF SettingsInv, AgreeInv
<1> QED
  BY <1>6, <1>7 DEF SettingsInv

\* What a new request asks for.
LEMMA RequestsKeep ==
    ASSUME ~SlowAnswers, Nobody \notin Accounts, SettingsInv,
           (\E a \in Accounts : Settings!Login(a)) \/ Settings!TimerFires \/ Settings!SetOnShift
    PROVE  SettingsInv'
<1>1. ASSUME NEW a \in Accounts, Settings!Login(a) PROVE SettingsInv'
  <2> DEFINE c == Settings!Request("login", Settings!NewUser(a))
  <2>1. Refreshing = {}
    BY <1>1, PromptMeans DEF Settings!Login
  <2>2. IsSent(c) /\ c.kind = "login" /\ c.step = "sent"
    BY AskIsSent, NewUserIsProfile
  <2>3. /\ sent' = sent \cup {c} /\ token = Nobody /\ ~\E d \in sent : d.kind = "login"
        /\ UNCHANGED <<profiles, token, stored, shown, ref, timer>>
    BY <1>1 DEF Settings!Login, Settings!Ask, Settings!page
  <2> QED
    BY <2>1, <2>2, <2>3, AskKeeps
<1>2. CASE Settings!TimerFires
  <2>1. PICK u : u = [shown EXCEPT !.account = token, !.settings = ref]
    OBVIOUS
  <2> DEFINE c == Settings!Request("patch", u)
  <2>2. Refreshing = {} /\ token # Nobody /\ token \in Accounts
    BY <1>2, PromptMeans DEF Settings!TimerFires, SettingsInv, AccountsInv, AgreeInv
  <2>3. IsProfile(u) /\ u.account = token
    BY <2>1, <2>2 DEF SettingsInv, AccountsInv, IsProfile
  <2>4. IsSent(c) /\ c.kind = "patch" /\ c.step = "sent" /\ c.data.account = token
    BY <2>2, <2>3, AskIsSent
  <2>5. /\ sent' = sent \cup {c} /\ ~timer'
        /\ UNCHANGED <<profiles, token, stored, shown, ref>>
    BY <1>2, <2>1 DEF Settings!TimerFires, Settings!Ask
  <2> QED
    BY <2>2, <2>4, <2>5, AskKeeps
<1>3. CASE Settings!SetOnShift
  <2> DEFINE u == [shown EXCEPT !.onShift = ~@]
             c == Settings!Request("shift", u)
  <2>1. shown.account \in Accounts
    BY <1>3 DEF Settings!SetOnShift, Settings!SignedIn, SettingsInv, AccountsInv, IsProfile
  <2>2. IsProfile(u) /\ u.account = shown.account
    BY ProfileChanges DEF SettingsInv, AccountsInv
  <2>3. IsSent(c) /\ c.kind = "shift" /\ c.step = "sent"
    BY <2>1, <2>2, AskIsSent
  <2>4. /\ sent' = sent \cup {c}
        /\ UNCHANGED <<profiles, token, stored, shown, ref, timer>>
    BY <1>3 DEF Settings!SetOnShift, Settings!Ask, Settings!page
  <2> QED
    BY <2>3, <2>4, AskKeeps
<1> QED
  BY <1>1, <1>2, <1>3

\* Every answer replaces what the browser has, and what is still to be written survives
\* the pages. When nothing has failed and answers come before the next write, then at
\* every moment at which nothing is left to write and no answer is to come, the browser
\* has the settings of the account that is signed in, whoever was signed in before.
THEOREM SettingsAgreeAtRest ==
    ASSUME ~SlowAnswers, Nobody \notin Accounts
    PROVE  Settings!Spec => []Settings!AgreesAtRest
<1> DEFINE Inv == losses \in Nat /\ (losses = 0 => SettingsInv)
<1>1. Settings!Init => Inv
  <2> SUFFICES ASSUME Settings!Init PROVE SettingsInv /\ losses = 0
    OBVIOUS
  <2>1. AccountsInv
    BY NewUserIsProfile DEF Settings!Init, Settings!NoUser, AccountsInv
  <2>2. AgreeInv
    BY DEF Settings!Init, AgreeInv, Refreshing
  <2> QED
    BY <2>1, <2>2 DEF Settings!Init, SettingsInv
<1>2. ASSUME Inv, [Settings!Next]_Settings!vars PROVE Inv'
  <2>1. \/ losses' = losses + 1
        \/ losses' = losses
    BY <1>2 DEF Settings!Next, Settings!vars, Settings!bounds, Settings!Login, Settings!ChangedElsewhere,
         Settings!Logout, Settings!Load, Settings!TimerFires, Settings!SetOnShift, Settings!Serve,
         Settings!Answer, Settings!Fails, Settings!Unauthorized, Settings!OpenBoard, Settings!LeaveBoard,
         Settings!ApplySettings, Settings!ChangeBoard, Settings!SwitchSound
  <2> SUFFICES ASSUME losses' = 0, losses = 0, SettingsInv PROVE SettingsInv'
    BY <1>2, <2>1
  <2>2. CASE UNCHANGED <<profiles, token, stored, shown, ref, timer, sent>>
    BY <2>2 DEF SettingsInv, AccountsInv, AgreeInv, Refreshing, IsProfile, IsSent
  <2>3. CASE (\E a \in Accounts : Settings!Login(a)) \/ Settings!TimerFires \/ Settings!SetOnShift
    BY <2>3, RequestsKeep
  <2>4. CASE Settings!Logout \/ Settings!Load
    BY <2>4, LogoutKeeps, LoadKeeps
  <2>5. CASE \E c \in sent : Settings!Serve(c) \/ Settings!Answer(c)
    BY <2>5, ServeKeeps, AnswerKeeps
  <2>6. CASE Settings!ChangeBoard \/ Settings!SwitchSound
    <3>1. /\ Settings!SignedIn /\ UNCHANGED <<profiles, token, sent>>
          /\ \E k, value : Settings!UpdateFrontendSettings(k, value)
      BY <2>6, Zenon DEF Settings!ChangeBoard, Settings!SwitchSound
    <3> QED
      BY <3>1, UpdateKeeps
  <2>7. CASE Settings!OpenBoard \/ Settings!LeaveBoard \/ Settings!ApplySettings
    <3>1. UNCHANGED <<profiles, token, stored, shown, ref, timer, sent>>
      BY <2>7 DEF Settings!OpenBoard, Settings!LeaveBoard, Settings!ApplySettings, Settings!page
    <3> QED
      BY <2>2, <3>1
  <2>8. ~\E a \in Accounts, k \in Settings!Keys : Settings!ChangedElsewhere(a, k)
    BY DEF Settings!ChangedElsewhere
  <2>9. ~\E c \in sent : Settings!Fails(c) \/ Settings!Unauthorized(c)
    BY DEF Settings!Fails, Settings!Unauthorized
  <2>10. CASE UNCHANGED Settings!vars
    BY <2>2, <2>10 DEF Settings!vars, Settings!page
  <2> QED
    BY <1>2, <2>3, <2>4, <2>5, <2>6, <2>7, <2>8, <2>9, <2>10 DEF Settings!Next
<1>3. Inv => Settings!AgreesAtRest
  BY DEF Settings!AgreesAtRest, SettingsInv, AgreeInv, Refreshing
<1> QED
  BY <1>1, <1>2, <1>3, PTL DEF Settings!Spec
=============================================================================
