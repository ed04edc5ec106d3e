----------------------------- MODULE Assignment -----------------------------
(***************************************************************************)
(* Who draws an order: the automatic assignment in turn                    *)
(* (assignment/assignment.service.ts), the artists' shifts                 *)
(* (users/users.service.ts, assignment/shift-reset.job.ts), the managers'  *)
(* assignments by hand (orders/orders.service.ts, update) and the journal. *)
(*                                                                         *)
(* A circle is a direction and a role: its row of AssignmentCursor names   *)
(* the artist who had the last turn, and is locked while a turn is given.  *)
(* maybeAssign is called by imports, tag changes and status changes at     *)
(* once; a call is one run of it, one step per await.  One order status is *)
(* modelled: assigning holds its two settings.                             *)
(***************************************************************************)
EXTENDS Naturals, Sequences, FiniteSetsExt

CONSTANTS
    Orders,
    Artists,     \* user ids of designers; the circle goes by id
    Priority,    \* DIRECTION_PRIORITY: the directions, most important first
    Calls,       \* concurrent runs of maybeAssign
    Managers,    \* concurrent edits of an order, and administrators
    None,        \* no call, no load, no direction
    MaxChanges,  \* bound: changes of users, tags, settings and the window; faults
    MaxEdits     \* bound: assignments by hand

ASSUME ArtistsAreIds == Artists \subseteq Nat \ {0}
ASSUME PriorityIsAList == Len(Priority) \in Nat /\ DOMAIN Priority = 1..Len(Priority)
ASSUME NoneIsNoCall == None \notin Calls

VARIABLES
    artist,      \* sketchDesignerId and revisionDesignerId of an order; 0: nobody
    tags,        \* directions that the tags of the order's lead stand for
    user,        \* role, shift and directions of an artist
    assigning,   \* settings of the status: the roles it assigns
    cache, load, \* settingsCache (while it has not expired) and settingsLoad
    open,        \* isWindowOpen
    last,        \* AssignmentCursor.lastUserId of a circle; 0: nobody yet
    holder,      \* the call whose transaction has locked the cursor
    call,        \* per call: where it is and what it has read
    edit,        \* per manager: the assignment by hand that is under way
    form,        \* per manager: the change of a user that is under way
    named,       \* artists the journal names for an order
    unrecorded,  \* history: artists whose event was lost with the process or a failure
    passed,      \* history: who had a turn while the artist was waiting in the circle
    changes, edits

users == <<user, passed>>
settings == <<assigning, cache, load, open>>
journal == <<named, unrecorded>>
vars == <<artist, tags, users, settings, last, holder, call, edit, form, journal, changes, edits>>

Nobody == 0
Roles == {"sketch", "revision"}
Directions == {Priority[i] : i \in DOMAIN Priority}
Circles == Directions \X Roles

Idle == [pc |-> "idle", order |-> None, roles |-> {}, direction |-> None, next |-> Nobody]
NoEdit == [pc |-> "idle", order |-> None, role |-> None, seen |-> Nobody, new |-> Nobody]
NoForm == [artist |-> Nobody, role |-> None, directions |-> {}, shift |-> FALSE]

\* resolveOrderDirection: the first direction of the priority list that a tag stands for.
Direction(o) ==
    IF tags[o] = {} THEN None
    ELSE Priority[Min({i \in DOMAIN Priority : Priority[i] \in tags[o]})]

\* The users that a turn of the circle is chosen from.
Candidates(k) ==
    {a \in Artists : user[a].role = k[2] /\ user[a].shift /\ k[1] \in user[a].directions}

\* The first candidate after the one who had the last turn, or else the first of all.
NextInTurn(k) ==
    LET later == {a \in Candidates(k) : a > last[k]}
    IN IF later # {} THEN Min(later) ELSE Min(Candidates(k))

\* DESIGNER_FIELDS in the order in which maybeAssign takes them.
FirstRole(roles) == IF "sketch" \in roles THEN "sketch" ELSE "revision"
Circle(c) == <<call[c].direction, FirstRole(call[c].roles)>>

\* What is left of a call when the turn in its circle has been given, or has failed.
AfterTurn(c) ==
    LET rest == call[c].roles \ {FirstRole(call[c].roles)}
    IN IF rest = {} THEN Idle ELSE [call[c] EXCEPT !.pc = "lock", !.roles = rest, !.next = Nobody]

\* The history of a user who leaves a circle is over.
StillWaiting == passed' = [k \in Circles |-> [a \in Artists |->
    IF user'[a].role = k[2] /\ user'[a].shift /\ k[1] \in user'[a].directions
    THEN passed[k][a] ELSE {}]]

Init ==
    /\ artist = [o \in Orders |-> [r \in Roles |-> Nobody]]
    /\ tags \in [Orders -> SUBSET Directions]
    /\ user \in [Artists -> [role : Roles, shift : {TRUE}, directions : SUBSET Directions]]
    /\ assigning \in SUBSET Roles
    /\ cache = None /\ load = None /\ open \in BOOLEAN
    /\ last \in [Circles -> Artists \cup {Nobody}] /\ holder = [k \in Circles |-> None]
    /\ call = [c \in Calls |-> Idle]
    /\ edit = [m \in Managers |-> NoEdit] /\ form = [m \in Managers |-> NoForm]
    /\ named = [o \in Orders |-> {}] /\ unrecorded = {}
    /\ passed = [k \in Circles |-> [a \in Artists |-> {}]]
    /\ changes \in 0..MaxChanges /\ edits \in 0..MaxEdits

-----------------------------------------------------------------------------
(* maybeAssign *)

\* A call that knows the settings goes on if they ask for an artist in working hours.
Continue(o, wanted) ==
    IF wanted = {} \/ ~open THEN Idle
    ELSE [Idle EXCEPT !.pc = "read", !.order = o, !.roles = wanted]

\* The order has entered the status, or the tags of its lead have changed in it.
\* The settings come from the cache, or from a load that is shared by all calls.
Enter(c, o) ==
    /\ call[c].pc = "idle"
    /\ IF cache # None
       THEN call' = [call EXCEPT ![c] = Continue(o, cache)] /\ UNCHANGED load
       ELSE /\ call' = [call EXCEPT ![c] = [Idle EXCEPT !.pc = "settings", !.order = o]]
            /\ load' = IF load = None THEN assigning ELSE load
    /\ UNCHANGED <<artist, tags, users, assigning, cache, open, last, holder, edit, form, journal,
                   changes, edits>>

Loaded ==
    /\ load # None
    /\ cache' = load /\ load' = None
    /\ call' = [c \in Calls |-> IF call[c].pc = "settings" THEN Continue(call[c].order, load)
                                ELSE call[c]]
    /\ UNCHANGED <<artist, tags, users, assigning, open, last, holder, edit, form, journal,
                   changes, edits>>

LoadFails ==
    /\ load # None /\ changes < MaxChanges
    /\ load' = None
    /\ call' = [c \in Calls |-> IF call[c].pc = "settings" THEN Idle ELSE call[c]]
    /\ changes' = changes + 1
    /\ UNCHANGED <<artist, tags, users, assigning, cache, open, last, holder, edit, form, journal,
                   edits>>

\* Five seconds have passed.
CacheExpires ==
    /\ cache # None
    /\ cache' = None
    /\ UNCHANGED <<artist, tags, users, assigning, load, open, last, holder, call, edit, form,
                   journal, changes, edits>>

\* The roles that nobody has yet, and the circle; what comes of it may change again
\* before the cursor is locked.
ReadOrder(c) ==
    /\ call[c].pc = "read"
    /\ LET roles == {r \in call[c].roles : artist[call[c].order][r] = Nobody}
           direction == Direction(call[c].order)
       IN call' = [call EXCEPT ![c] =
              IF roles = {} \/ direction = None THEN Idle
              ELSE [@ EXCEPT !.pc = "lock", !.roles = roles, !.direction = direction]]
    /\ UNCHANGED <<artist, tags, users, settings, last, holder, edit, form, journal, changes, edits>>

\* Mutant: the cursor is read without FOR UPDATE.
LockNothing(c) ==
    /\ call[c].pc = "lock"
    /\ LET k == Circle(c)
       IN IF Candidates(k) = {}
          THEN call' = [call EXCEPT ![c] = AfterTurn(c)] /\ UNCHANGED holder
          ELSE /\ call' = [call EXCEPT ![c].pc = "commit", ![c].next = NextInTurn(k)]
               /\ UNCHANGED holder
    /\ UNCHANGED <<artist, tags, users, settings, last, edit, form, journal, changes, edits>>

\* assignNext up to the choice of the artist: the cursor is created and locked, and
\* the candidates are read under the lock.
LockCircle(c) ==
    /\ call[c].pc = "lock"
    /\ LET k == Circle(c)
       IN /\ holder[k] = None
          /\ IF Candidates(k) = {}
             THEN call' = [call EXCEPT ![c] = AfterTurn(c)] /\ UNCHANGED holder
             ELSE /\ call' = [call EXCEPT ![c].pc = "commit", ![c].next = NextInTurn(k)]
                  /\ holder' = [holder EXCEPT ![k] = c]
    /\ UNCHANGED <<artist, tags, users, settings, last, edit, form, journal, changes, edits>>

\* The artist has had the turn; the others of the circle have waited.
TakesTurn(k, n) ==
    passed' = [passed EXCEPT ![k] = [a \in Artists |->
        IF a = n \/ a \notin Candidates(k) THEN {} ELSE passed[k][a] \cup {n}]]

\* Mutant: an artist who was assigned in the meantime is replaced.
CommitOver(c) ==
    /\ call[c].pc = "commit"
    /\ LET k == Circle(c)  o == call[c].order  n == call[c].next
       IN /\ artist' = [artist EXCEPT ![o][k[2]] = n]
          /\ last' = [last EXCEPT ![k] = n]
          /\ named' = [named EXCEPT ![o] = @ \cup {n}]
          /\ TakesTurn(k, n)
          /\ holder' = [holder EXCEPT ![k] = None]
    /\ call' = [call EXCEPT ![c] = AfterTurn(c)]
    /\ UNCHANGED <<tags, user, settings, edit, form, unrecorded, changes, edits>>

\* The order, the cursor and the journal in one transaction, unless somebody has been
\* assigned in the meantime; then the circle stays where it is.
Commit(c) ==
    /\ call[c].pc = "commit"
    /\ LET k == Circle(c)  o == call[c].order  n == call[c].next
       IN /\ IF artist[o][k[2]] = Nobody
             THEN /\ artist' = [artist EXCEPT ![o][k[2]] = n]
                  /\ last' = [last EXCEPT ![k] = n]
                  /\ named' = [named EXCEPT ![o] = @ \cup {n}]
                  /\ TakesTurn(k, n)
             ELSE UNCHANGED <<artist, last, named, passed>>
          /\ holder' = [holder EXCEPT ![k] = None]
    /\ call' = [call EXCEPT ![c] = AfterTurn(c)]
    /\ UNCHANGED <<tags, user, settings, edit, form, unrecorded, changes, edits>>

\* The transaction fails or times out: the turn is not given, the other role is tried.
TurnFails(c) ==
    /\ call[c].pc \in {"lock", "commit"} /\ changes < MaxChanges
    /\ holder' = [k \in Circles |-> IF holder[k] = c THEN None ELSE holder[k]]
    /\ call' = [call EXCEPT ![c] = AfterTurn(c)]
    /\ changes' = changes + 1
    /\ UNCHANGED <<artist, tags, users, settings, last, edit, form, journal, edits>>

-----------------------------------------------------------------------------
(* Assignments by hand: orders.update and its journal. *)

\* The order and the user are read; the user must have the role.
BeginEdit(m, o, r, a) ==
    /\ edit[m].pc = "idle" /\ edits < MaxEdits
    /\ a # Nobody => user[a].role = r
    /\ edit' = [edit EXCEPT ![m] = [pc |-> "write", order |-> o, role |-> r,
                                    seen |-> artist[o][r], new |-> a]]
    /\ edits' = edits + 1
    /\ UNCHANGED <<artist, tags, users, settings, last, holder, call, form, journal, changes>>

WriteEdit(m) ==
    /\ edit[m].pc = "write"
    /\ artist' = [artist EXCEPT ![edit[m].order][edit[m].role] = edit[m].new]
    /\ edit' = [edit EXCEPT ![m].pc = "record"]
    /\ UNCHANGED <<tags, users, settings, last, holder, call, form, journal, changes, edits>>

\* Mutant: the event is written for a removal only.
RecordRemoval(m) ==
    /\ edit[m].pc = "record"
    /\ edit' = [edit EXCEPT ![m] = NoEdit]
    /\ UNCHANGED <<artist, tags, users, settings, last, holder, call, form, journal, changes, edits>>

\* An event, if the artist is another than the one that was read.
RecordEdit(m) ==
    /\ edit[m].pc = "record"
    /\ named' = [named EXCEPT ![edit[m].order] =
           IF edit[m].new \in {edit[m].seen, Nobody} THEN @ ELSE @ \cup {edit[m].new}]
    /\ edit' = [edit EXCEPT ![m] = NoEdit]
    /\ UNCHANGED <<artist, tags, users, settings, last, holder, call, form, unrecorded,
                   changes, edits>>

\* The order is written and the event is not.
RecordFails(m) ==
    /\ edit[m].pc = "record" /\ changes < MaxChanges
    /\ unrecorded' = unrecorded \cup {edit[m].new}
    /\ edit' = [edit EXCEPT ![m] = NoEdit]
    /\ changes' = changes + 1
    /\ UNCHANGED <<artist, tags, users, settings, last, holder, call, form, named, edits>>

-----------------------------------------------------------------------------
(* Users, settings, tags, time. *)

Unchanging == UNCHANGED <<artist, last, holder, call, edit, journal, edits>>
Change == changes < MaxChanges /\ changes' = changes + 1

SetShift(a) ==
    /\ Change /\ Unchanging
    /\ user[a].role \in Roles
    /\ user' = [user EXCEPT ![a].shift = ~@]
    /\ StillWaiting
    /\ UNCHANGED <<tags, settings, form>>

\* The evening: everybody's shift is over.
ResetShifts ==
    /\ Change /\ Unchanging
    /\ user' = [a \in Artists |-> [user[a] EXCEPT !.shift = FALSE]]
    /\ StillWaiting
    /\ UNCHANGED <<tags, settings, form>>

\* users.update reads the user first ...
BeginUserUpdate(m, a, role, directions) ==
    /\ form[m] = NoForm /\ Change /\ Unchanging
    /\ form' = [form EXCEPT ![m] = [artist |-> a, role |-> role, directions |-> directions,
                                    shift |-> user[a].shift]]
    /\ UNCHANGED <<tags, users, settings>>

\* ... and writes role and directions; who is no designer any more leaves the circles,
\* and the shift as well if the user was on shift when it was read.
WriteUser(m) ==
    /\ form[m] # NoForm /\ Unchanging
    /\ LET f == form[m]  designer == f.role \in Roles
       IN user' = [user EXCEPT ![f.artist] =
              [role |-> f.role,
               shift |-> @.shift /\ (designer \/ ~f.shift),
               directions |-> IF designer THEN f.directions ELSE {}]]
    /\ StillWaiting
    /\ form' = [form EXCEPT ![m] = NoForm]
    /\ UNCHANGED <<tags, settings, changes>>

\* updateOrderStatusSettings; the cache does not notice.
SetAssigning(roles) ==
    /\ Change /\ Unchanging
    /\ roles # assigning
    /\ assigning' = roles
    /\ UNCHANGED <<tags, users, cache, load, open, form>>

SetTags(o, new) ==
    /\ Change /\ Unchanging
    /\ new # tags[o]
    /\ tags' = [tags EXCEPT ![o] = new]
    /\ UNCHANGED <<users, settings, form>>

TurnOfTheHour ==
    /\ Change /\ Unchanging
    /\ open' = ~open
    /\ UNCHANGED <<tags, users, assigning, cache, load, form>>

\* The process stops: transactions are rolled back, and what was not yet written is lost.
Restart ==
    /\ Change
    /\ call' = [c \in Calls |-> Idle] /\ holder' = [k \in Circles |-> None]
    /\ cache' = None /\ load' = None
    /\ unrecorded' = unrecorded \cup {edit[m].new : m \in {n \in Managers : edit[n].pc = "record"}}
    /\ edit' = [m \in Managers |-> NoEdit] /\ form' = [m \in Managers |-> NoForm]
    /\ UNCHANGED <<artist, tags, users, assigning, open, last, named, edits>>

-----------------------------------------------------------------------------

MaybeAssign(c) ==
    \/ \E o \in Orders : Enter(c, o)
    \/ ReadOrder(c) \/ LockCircle(c) \/ Commit(c) \/ TurnFails(c)

EditOrder(m) ==
    \/ \E o \in Orders, r \in Roles, a \in Artists \cup {Nobody} : BeginEdit(m, o, r, a)
    \/ WriteEdit(m) \/ RecordEdit(m) \/ RecordFails(m)

UpdateUser(m) ==
    \/ \E a \in Artists, role \in Roles \cup {None}, directions \in SUBSET Directions :
           BeginUserUpdate(m, a, role, directions)
    \/ WriteUser(m)

Environment ==
    \/ CacheExpires \/ TurnOfTheHour \/ ResetShifts \/ Restart
    \/ \E a \in Artists : SetShift(a)
    \/ \E roles \in SUBSET Roles : SetAssigning(roles)
    \/ \E o \in Orders, new \in SUBSET Directions : SetTags(o, new)

Next ==
    \/ \E c \in Calls : MaybeAssign(c)
    \/ Loaded \/ LoadFails
    \/ \E m \in Managers : EditOrder(m) \/ UpdateUser(m)
    \/ Environment

Spec == Init /\ [][Next]_vars

-----------------------------------------------------------------------------
(* Properties. *)

TypeOK ==
    /\ artist \in [Orders -> [Roles -> Artists \cup {Nobody}]]
    /\ tags \in [Orders -> SUBSET Directions]
    /\ user \in [Artists -> [role : Roles \cup {None}, shift : BOOLEAN,
                             directions : SUBSET Directions]]
    /\ assigning \in SUBSET Roles /\ open \in BOOLEAN
    /\ cache \in {None} \cup SUBSET Roles /\ load \in {None} \cup SUBSET Roles
    /\ last \in [Circles -> Artists \cup {Nobody}]
    /\ holder \in [Circles -> Calls \cup {None}]
    /\ call \in [Calls -> [pc : {"idle", "settings", "read", "lock", "commit"},
                           order : Orders \cup {None}, roles : SUBSET Roles,
                           direction : Directions \cup {None}, next : Artists \cup {Nobody}]]
    /\ edit \in [Managers -> [pc : {"idle", "write", "record"}, order : Orders \cup {None},
                              role : Roles \cup {None}, seen : Artists \cup {Nobody},
                              new : Artists \cup {Nobody}]]
    /\ named \in [Orders -> SUBSET Artists] /\ unrecorded \in SUBSET (Artists \cup {Nobody})
    /\ passed \in [Circles -> [Artists -> SUBSET Artists]]

\* Turns are fair: whoever is given an order in turn has not had a turn before while
\* somebody has been waiting in the same circle ever since.  In particular nobody gets
\* two orders in a row next to a colleague on shift, however imports, status changes
\* and assignments by hand interleave.
FairTurns ==
    [][\A c \in Calls : Commit(c) /\ artist' # artist =>
           \A a \in Candidates(Circle(c)) : call[c].next \notin passed[Circle(c)][a]]_vars

\* The automatic assignment gives an order to nobody else once it has an artist, though
\* it has looked whether there was one long before.
ManualStays ==
    [][\A c \in Calls : Commit(c) =>
           \A o \in Orders, r \in Roles : artist[o][r] # Nobody => artist'[o][r] = artist[o][r]]_vars

\* Whoever has an order is named by its journal, however managers who saw different
\* artists and the automatic assignment interleave, unless the event is still to be
\* written or was lost.
HolderIsInJournal ==
    \A o \in Orders, r \in Roles :
        artist[o][r] \in named[o] \cup unrecorded \cup {Nobody}
                         \cup {edit[m].new : m \in {n \in Managers :
                                  edit[n].pc = "record" /\ edit[n].order = o}}
=============================================================================
