---------------------------- MODULE MCAssignTasks ----------------------------
(* Small instances of AssignTasks for TLC.                                 *)
EXTENDS AssignTasks, TLC

Symmetry == Permutations(Tasks) \cup Permutations(Devices)
=============================================================================
