----------------------------- MODULE MCLockService -----------------------------
(* Small instances of LockService for TLC. *)
EXTENDS LockService, TLC

\* Every connection is a user of its own.
MCUserOf == [c \in Conns |-> c]

AllFaults == {"redis", "restart"}
NoFaults == {}
RedisFaults == {"redis"}

\* Tokens and connections are interchangeable; so are blocks.
Symmetry == Permutations(Tokens) \union Permutations(Conns)
================================================================================
