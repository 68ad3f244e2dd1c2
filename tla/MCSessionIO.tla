------------------------------ MODULE MCSessionIO ------------------------------
(* Model values and symmetry for the runs of SessionIO. *)
EXTENDS SessionIO, TLC

Symmetry == Permutations(IOThreads) \cup Permutations(Workers) \cup Permutations(SessionIds)
=============================================================================
