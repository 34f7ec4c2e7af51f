------------------------------ MODULE MCPageStore ------------------------------
(* A small instance of PageStore for TLC; no symmetry, for liveness. *)
EXTENDS PageStore, TLC

AllFaults == {"db", "restart"}
================================================================================
