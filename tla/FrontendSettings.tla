-------------------------- MODULE FrontendSettings --------------------------
(***************************************************************************)
(* Who is signed in, and the settings that follow the account: the         *)
(* provider auth/AuthContext.tsx with its cache in localStorage, the       *)
(* server behind it (auth.service.ts, users.service.ts for the shift), and *)
(* the two pages that change settings: the board of orders, which has a    *)
(* copy of its own, and the page of notifications.                         *)
(*                                                                         *)
(* A change is applied at once and written half a second after the last    *)
(* one, as the whole object; the answer to a write, or to the request that *)
(* refreshes the account, replaces what the browser has.                   *)
(***************************************************************************)
EXTENDS Naturals, Functions

CONSTANTS
    Accounts,
    Nobody,      \* no token
    SlowAnswers, \* an answer may take longer than the half second before the next write
    MaxEdits, MaxVisits, MaxFaults  \* bounds

Keys == {"ordersBoard", "notificationsSoundWhileUnread"}

VARIABLES
    server,   \* User: frontendSettings and onShift, by account
    token,    \* localStorage: TOKEN_KEY
    stored,   \* localStorage: USER_KEY
    user,     \* what the provider shows
    ref,      \* settingsRef
    timer,    \* patchTimerRef is set
    board,    \* the board of orders, when it is open: its own copy
    calls,    \* requests under way
    latest,   \* history: the last change of each key since the sign-in
    edits, visits, faults

bounds == <<edits, visits, faults>>
page == <<user, ref, timer>>
vars == <<server, token, stored, page, board, calls, latest, bounds>>

\* A setting is the number of the change that made it.
NoSettings == [k \in Keys |-> 0]
NewUser(account) == [account |-> account, settings |-> NoSettings, onShift |-> FALSE]
NoUser == NewUser(Nobody)
Closed == [open |-> FALSE, ready |-> FALSE, dirty |-> FALSE, value |-> 0]
Request(kind, data) == [kind |-> kind, data |-> data, step |-> "sent", id |-> edits + visits]

Init ==
    /\ server = [a \in Accounts |-> NewUser(a)]
    /\ token = Nobody /\ stored = NoUser /\ user = NoUser /\ ref = NoSettings
    /\ timer = FALSE /\ board = Closed /\ calls = {}
    /\ latest = NoSettings
    /\ edits = 0 /\ visits = 0 /\ faults = 0

\* ProtectedRoute: no page without a token, none before the account is known.
SignedIn == token # Nobody /\ user.account # Nobody

Ask(kind, data) == calls' = calls \cup {Request(kind, data)}

Prompt == SlowAnswers \/ ~\E c \in calls : c.kind \in {"patch", "me", "unheard"}

-----------------------------------------------------------------------------
(* The provider. *)

\* cacheUser.
CacheUser(u) == /\ user' = u /\ stored' = u /\ ref' = u.settings

\* An answer that only concerns the user that is there, if one is there.
MergeUser(u) ==
    IF user.account = Nobody THEN UNCHANGED <<user, stored>>
    ELSE user' = u /\ stored' = u

Login(account) ==
    /\ token = Nobody /\ Prompt /\ ~\E c \in calls : c.kind = "login"
    /\ visits < MaxVisits /\ visits' = visits + 1
    /\ Ask("login", NewUser(account))
    /\ UNCHANGED <<server, token, stored, page, board, latest, edits, faults>>

Logout ==
    /\ token # Nobody /\ visits < MaxVisits /\ visits' = visits + 1
    /\ timer' = FALSE /\ token' = Nobody /\ CacheUser(NoUser)
    /\ board' = Closed /\ latest' = NoSettings
    /\ UNCHANGED <<server, calls, edits, faults>>

\* The page is loaded: the cached user first, the account from the server after it.
\* The answers of the page that was there before are not heard any more.
Load ==
    /\ Prompt /\ visits < MaxVisits /\ visits' = visits + 1
    /\ user' = stored /\ ref' = stored.settings /\ timer' = FALSE /\ board' = Closed
    /\ LET unheard == {c \in calls : c.kind \in {"patch", "unheard"} /\ c.step = "sent"}
       IN calls' = {[c EXCEPT !.kind = "unheard"] : c \in unheard}
                   \cup (IF token # Nobody THEN {Request("me", NewUser(token))} ELSE {})
    /\ latest' = ref'
    /\ UNCHANGED <<server, token, stored, edits, faults>>

\* updateFrontendSettings.
UpdateFrontendSettings(k, value) ==
    LET merged == [ref EXCEPT ![k] = value]
    IN /\ ref' = merged /\ timer' = TRUE
       /\ MergeUser([user EXCEPT !.settings = merged])
       /\ latest' = [latest EXCEPT ![k] = value]

TimerFires ==
    /\ timer /\ Prompt /\ timer' = FALSE
    /\ Ask("patch", [user EXCEPT !.account = token, !.settings = ref])
    /\ UNCHANGED <<server, token, stored, user, ref, board, latest, bounds>>

SetOnShift ==
    /\ SignedIn /\ edits < MaxEdits /\ edits' = edits + 1
    /\ Ask("shift", [user EXCEPT !.onShift = ~@])
    /\ UNCHANGED <<server, token, stored, page, board, latest, visits, faults>>

-----------------------------------------------------------------------------
(* The server: login, validate and /auth/me, updateFrontendSettings, setShift. *)

Serve(c) ==
    /\ c \in calls /\ c.step = "sent"
    /\ LET a == c.data.account
           next == CASE c.kind \in {"patch", "unheard"} ->
                          [server[a] EXCEPT !.settings = c.data.settings]
                     [] c.kind = "shift" -> [server[a] EXCEPT !.onShift = c.data.onShift]
                     [] OTHER -> server[a]
       IN /\ server' = [server EXCEPT ![a] = next]
          /\ calls' = (calls \ {c}) \cup
                      (IF c.kind = "unheard" THEN {}
                       ELSE {[c EXCEPT !.step = "answered", !.data = next]})
    /\ UNCHANGED <<token, stored, page, board, latest, bounds>>

\* Another browser of the same account.
ChangedElsewhere(a, k) ==
    /\ faults < MaxFaults /\ faults' = faults + 1
    /\ edits < MaxEdits /\ edits' = edits + 1
    /\ server' = [server EXCEPT ![a].settings[k] = edits']
    /\ UNCHANGED <<token, stored, page, board, calls, latest, visits>>

AnswerLogin(c) ==
    /\ c.kind = "login"
    /\ token' = c.data.account /\ CacheUser(c.data) /\ latest' = c.data.settings
    /\ UNCHANGED timer

AnswerMe(c) ==
    /\ c.kind = "me" /\ CacheUser(c.data)
    /\ UNCHANGED <<token, timer, latest>>

AnswerPatch(c) ==
    /\ c.kind = "patch"
    /\ ref' = c.data.settings
    /\ MergeUser([user EXCEPT !.settings = c.data.settings])
    /\ UNCHANGED <<token, timer, latest>>

AnswerShift(c) ==
    /\ c.kind = "shift"
    /\ MergeUser([user EXCEPT !.onShift = c.data.onShift])
    /\ UNCHANGED <<token, ref, timer, latest>>

Answer(c) ==
    /\ c \in calls /\ c.step = "answered"
    /\ calls' = calls \ {c}
    /\ AnswerLogin(c) \/ AnswerMe(c) \/ AnswerPatch(c) \/ AnswerShift(c)
    /\ UNCHANGED <<server, board, bounds>>

\* Lost on the way there or back.  Without a cached user a failed refresh signs out; a
\* failed write is left to the next one.
Fails(c) ==
    /\ c \in calls /\ faults < MaxFaults /\ faults' = faults + 1
    /\ calls' = calls \ {c}
    /\ IF c.kind = "me" /\ stored.account = Nobody
       THEN token' = Nobody /\ CacheUser(NoUser) /\ latest' = NoSettings
       ELSE UNCHANGED <<token, user, stored, ref, latest>>
    /\ UNCHANGED <<server, timer, board, edits, visits>>

\* 401, because the account is gone or the token has expired: the storage is cleared and
\* the page is loaded again.
Unauthorized(c) ==
    /\ c \in calls /\ c.kind # "login" /\ faults < MaxFaults /\ faults' = faults + 1
    /\ token' = Nobody /\ CacheUser(NoUser) /\ latest' = NoSettings
    /\ timer' = FALSE /\ board' = Closed
    /\ calls' = {[d EXCEPT !.kind = "unheard"] : d \in {e \in calls \ {c} :
                     e.kind \in {"patch", "unheard"} /\ e.step = "sent"}}
    /\ UNCHANGED <<server, edits, visits>>

-----------------------------------------------------------------------------
(* The pages that change settings.  They come and go below the provider. *)

\* Mutant: what is still to be written goes with the page.
OpenBoardCancelling ==
    /\ SignedIn /\ ~board.open
    /\ board' = [Closed EXCEPT !.open = TRUE]
    /\ timer' = FALSE
    /\ UNCHANGED <<server, token, stored, user, ref, calls, latest, bounds>>

OpenBoard ==
    /\ SignedIn /\ ~board.open
    /\ board' = [Closed EXCEPT !.open = TRUE]
    /\ UNCHANGED <<server, token, stored, page, calls, latest, bounds>>

LeaveBoard ==
    /\ board.open /\ board' = Closed
    /\ UNCHANGED <<server, token, stored, page, calls, latest, bounds>>

\* The effect that takes over the settings, until the person has changed the board.
ApplySettings ==
    /\ board.open /\ ~board.dirty
    /\ ~board.ready \/ board.value # user.settings["ordersBoard"]
    /\ board' = [board EXCEPT !.ready = TRUE, !.value = user.settings["ordersBoard"]]
    /\ UNCHANGED <<server, token, stored, page, calls, latest, bounds>>

\* A change of filters or columns, and the effect that saves it.
ChangeBoard ==
    /\ SignedIn /\ board.ready /\ edits < MaxEdits /\ edits' = edits + 1
    /\ board' = [board EXCEPT !.dirty = TRUE, !.value = edits']
    /\ UpdateFrontendSettings("ordersBoard", edits')
    /\ UNCHANGED <<server, token, calls, visits, faults>>

\* The switch of the page of notifications.
SwitchSound ==
    /\ SignedIn /\ edits < MaxEdits /\ edits' = edits + 1
    /\ UpdateFrontendSettings("notificationsSoundWhileUnread", edits')
    /\ UNCHANGED <<server, token, board, calls, visits, faults>>

-----------------------------------------------------------------------------

Next ==
    \/ \E a \in Accounts : Login(a) \/ \E k \in Keys : ChangedElsewhere(a, k)
    \/ Logout \/ Load \/ TimerFires \/ SetOnShift
    \/ \E c \in calls : Serve(c) \/ Answer(c) \/ Fails(c) \/ Unauthorized(c)
    \/ OpenBoard \/ LeaveBoard \/ ApplySettings \/ ChangeBoard \/ SwitchSound

Spec == Init /\ [][Next]_vars

\* The timer, the server and the network; nobody has to do anything.
Fairness ==
    /\ WF_vars(TimerFires) /\ WF_vars(ApplySettings)
    /\ WF_vars(\E c \in calls : Serve(c) \/ Answer(c))

FairSpec == Spec /\ Fairness

-----------------------------------------------------------------------------
(* Properties. *)

TypeOK ==
    /\ token \in {Nobody} \cup Accounts /\ timer \in BOOLEAN
    /\ ref \in [Keys -> 0..MaxEdits] /\ latest \in [Keys -> 0..MaxEdits]
    /\ user.account \in {Nobody} \cup Accounts
    /\ board.value \in 0..MaxEdits

\* Every answer replaces what the browser has, and what is still to be written survives
\* the pages: while nothing fails and answers are prompt, the browser ends up with the
\* settings the account has on the server.
SettingsAgree ==
    (<>[](faults = 0 /\ token # Nobody /\ user.account = token)) =>
        <>[](token # Nobody => ref = server[token].settings /\ user.settings = ref)

\* The same at every moment: when nothing is left to write and no answer is to come, the
\* browser has what the server has, of the account that is signed in and of no other.
AgreesAtRest ==
    (faults = 0 /\ token # Nobody /\ ~timer /\ ~\E c \in calls : c.kind \in {"patch", "me", "unheard"})
        => /\ user.account = token /\ stored = user
           /\ ref = server[token].settings /\ user.settings = ref

\* AuthContext: "debounced writes always send the freshest merged value". It does not
\* hold: the answer to a request that was under way when a setting was changed replaces it.
FreshestIsSent == [][TimerFires => ref = latest]_vars
=============================================================================
