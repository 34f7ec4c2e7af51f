---------------------------------- MODULE MCPortal ------------------------------
(* Portal on two users, two wikis and two codes. *)
EXTENDS Portal, TLC

CONSTANTS u1, u2

Symmetry ==
  Permutations(WikiIds) \union Permutations(Codes) \union Permutations(Calls)
================================================================================
