----------------------------- MODULE MCInbound ------------------------------
(* Instances for TLC of what the import meets: the status of an order        *)
(* (StatusMirror), and the switch of the administrators that the loops of    *)
(* the import obey (SyncLoops). A behaviour is of one of them, and the other *)
(* keeps still.                                                              *)
EXTENDS StatusMirror, TLC

CONSTANTS Orders, BatchSize, NoOrder, MaxPhases, MaxSwitches, MaxAsks, MaxLosses

VARIABLES
    part,
    phase, enabled, saved, requests, lost, line, loop, pending, pump,
    phases, switches, asks, losses

mirrorVars == vars
loopsVars == <<phase, enabled, saved, requests, lost, line, loop, pending, pump,
               phases, switches, asks, losses>>

Loops == INSTANCE SyncLoops WITH
    None <- NoOrder, MaxFaults <- MaxLosses, queue <- line, faults <- losses

MCInit ==
    /\ part \in {"mirror", "loops"}
    /\ Init /\ Loops!Init
    /\ part = "loops" => local = None /\ bs = RevisionStart /\ inbound

MCNext ==
    \/ part = "mirror" /\ Next /\ UNCHANGED <<part, loopsVars>>
    \/ part = "loops" /\ Loops!Next /\ UNCHANGED <<part, mirrorVars>>

MCSpec == MCInit /\ [][MCNext]_<<part, mirrorVars, loopsVars>>

Symmetry == Permutations(Readers)

\* The switch that is used and the one that is saved agree (SyncLoops).
SwitchIsSaved == Loops!SwitchIsSaved
=============================================================================
