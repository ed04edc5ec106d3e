-------------------------- MODULE MCProductionFiles --------------------------
(* Instances of ProductionFiles for TLC. *)
EXTENDS ProductionFiles, TLC

\* Versions are alike, so the first one stands for all.
LiveInit == Init /\ content = (CHOOSE v \in Versions : TRUE)

LiveSpec == LiveInit /\ [][Next]_vars /\ Fairness

Symmetry == Permutations(Workers) \cup Permutations(Keys) \cup Permutations(Versions)
=============================================================================
