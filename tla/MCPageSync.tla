------------------------------ MODULE MCPageSync -------------------------------
(* Small instances of PageSync for TLC. *)
EXTENDS PageSync, TLC

AllFaults == {"db", "net", "rest"}

Symmetry == Permutations(Conns)
================================================================================
