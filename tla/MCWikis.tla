----------------------------------- MODULE MCWikis -----------------------------
(* A small instance of Wikis for TLC: everything is interchangeable. *)
EXTENDS Wikis, TLC

Symmetry ==
  UNION {Permutations(s) : s \in {Users, WikiIds, Codes, Calls}}
================================================================================
