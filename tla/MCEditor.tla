-------------------------------- MODULE MCEditor --------------------------------
(* Small instances of Editor for TLC. *)
EXTENDS Editor, TLC

Symmetry == Permutations(Tabs)

\* Users move on before a timer of their row fires, 10 s and more after.
Busy == \A d \in Tabs, r \in Rows : ~ReleaseTimer(d, r)

SwitchSpec ==
  /\ EditorInit /\ [][EditorNext /\ Busy]_vars
  /\ \A d \in Tabs :
       WF_vars(Serve(d)) /\ WF_vars(Broadcast(d)) /\ WF_vars(Receive(d))
================================================================================
