------------------------------ MODULE MCWorker ------------------------------
(* QBWorker for TLC: symmetric model values.                               *)
EXTENDS QBWorker, TLC

Symmetry == Permutations(Runs) \cup Permutations(Procs)

=============================================================================
