------------------------------ MODULE MCLockViews ------------------------------
(* Small instances of LockViews for TLC: every connection is its own user. *)
EXTENDS LockViews, TLC

MCUserOf == [c \in Conns |-> c]

NoFaults == {}

RedisFaults == {"redis"}

Symmetry == Permutations(Tokens) \union Permutations(Conns)
================================================================================
