--------------------------- MODULE MCStatusOutbox ---------------------------
(* Instances of StatusOutbox for TLC. *)
EXTENDS StatusOutbox, TLC

Symmetry == Permutations(Orders) \cup Permutations(Statuses) \cup Permutations(Processes)
=============================================================================
