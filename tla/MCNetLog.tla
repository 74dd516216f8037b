------------------------------ MODULE MCNetLog ------------------------------
(* Symmetry for checking NetLog: recorders, and readers, are interchangeable. *)
EXTENDS NetLog, TLC

Symmetry == Permutations(Recorders) \cup Permutations(Readers)
=============================================================================
