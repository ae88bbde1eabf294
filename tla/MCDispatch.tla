----------------------------- MODULE MCDispatch -----------------------------
(* Small instances of Dispatch for TLC.                                    *)
EXTENDS Dispatch, TLC

Symmetry == Permutations(Tasks) \cup Permutations(Devices)

(* All that decides what can happen: resent is history, and no property of *)
(* the run that uses this view speaks of it.                               *)
NoHistory ==
  <<store, told, online, work, queue, threads, up, budget>>
=============================================================================
