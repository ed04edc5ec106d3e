----------------------------- MODULE MCSettling -----------------------------
(* Instances for TLC of what comes to rest when nothing more happens to it:  *)
(* an order and its link (OrderImport), the loops of the import (SyncLoops)  *)
(* and the settings of a person (FrontendSettings). A behaviour is of one of *)
(* them, and the others keep still.                                          *)
EXTENDS OrderImport

CONSTANTS
    Orders, BatchSize, MaxPhases, MaxSwitches, MaxAsks,
    Accounts, Nobody, MaxChanges, MaxVisits, MaxLosses

VARIABLES
    part,
    phase, enabled, saved, requests, lost, queue, loop, pending, pump,
    phases, switches, asks, failures,
    users, token, stored, user, ref, timer, board, sent, latest, changes, visits, losses

importVars == vars
loopsVars == <<phase, enabled, saved, requests, lost, queue, loop, pending, pump,
               phases, switches, asks, failures>>
settingsVars == <<users, token, stored, user, ref, timer, board, sent, latest,
                  changes, visits, losses>>

Loops == INSTANCE SyncLoops WITH faults <- failures
Settings == INSTANCE FrontendSettings WITH
    server <- users, calls <- sent, edits <- changes, MaxEdits <- MaxChanges, faults <- losses,
    MaxFaults <- MaxLosses, SlowAnswers <- FALSE

MCInit ==
    /\ part \in {"import", "loops", "settings"}
    /\ Init /\ Loops!Init /\ Settings!Init
    /\ IF part = "import" THEN edits + faults = 1
       ELSE created = 1 /\ order = None /\ edits = 0 /\ faults = 0

MCNext ==
    \/ part = "import" /\ Next /\ UNCHANGED <<part, loopsVars, settingsVars>>
    \/ part = "loops" /\ Loops!Next /\ UNCHANGED <<part, importVars, settingsVars>>
    \/ part = "settings" /\ Settings!Next /\ UNCHANGED <<part, importVars, loopsVars>>

ImportStep(w) == part = "import" /\ Step(w) /\ UNCHANGED <<part, loopsVars, settingsVars>>
LoopsStep(A) == part = "loops" /\ A /\ UNCHANGED <<part, importVars, settingsVars>>
SettingsStep(A) == part = "settings" /\ A /\ UNCHANGED <<part, importVars, loopsVars>>

\* The fairness of the three modules.
MCFairness ==
    /\ \A w \in Crons \cup Askers : WF_importVars(ImportStep(w))
    /\ WF_loopsVars(LoopsStep(Loops!Switching))
    /\ WF_loopsVars(LoopsStep(Loops!Loop)) /\ WF_loopsVars(LoopsStep(Loops!Pump))
    /\ WF_settingsVars(SettingsStep(Settings!TimerFires))
    /\ WF_settingsVars(SettingsStep(Settings!ApplySettings))
    /\ WF_settingsVars(SettingsStep(\E c \in sent : Settings!Serve(c) \/ Settings!Answer(c)))

MCSpec == MCInit /\ [][MCNext]_<<part, importVars, loopsVars, settingsVars>> /\ MCFairness

\* The link and the artist settle (OrderImport).
LinkSettles == part = "import" => ImportSettles

\* No order keeps the others waiting (SyncLoops).
EveryOrderComesRound == part = "loops" => Loops!EveryOrderComesRound

\* A refresh somebody asked for is served (SyncLoops).
ManualRefreshIsServed == part = "loops" => Loops!ManualRefreshIsServed

\* The browser and the server agree on the settings (FrontendSettings).
SettingsAgree == part = "settings" => Settings!SettingsAgree
=============================================================================
