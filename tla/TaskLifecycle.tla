---------------------------- MODULE TaskLifecycle ----------------------------
(***************************************************************************)
(* What the dispatcher promises for every compress task, seen without its  *)
(* threads, devices and messages: the task is accepted, handed out,        *)
(* reported and archived, in this order and each once.  Only the outcome   *)
(* of an archived task may still change: a duplicate that finishes later   *)
(* overwrites it.                                                          *)
(***************************************************************************)
CONSTANT Tasks

VARIABLES
  stage,     (* iTaskStatus, and whether the task is known and archived    *)
  outcome    (* iTaskResult of the total table, 0: none yet                *)

vars == <<stage, outcome>>

Stages == {"absent", "waiting", "assigned", "finished", "archived"}

TypeOK ==
  /\ stage \in [Tasks -> Stages]
  /\ outcome \in [Tasks -> {0, 1, 2}]

Init ==
  /\ stage = [t \in Tasks |-> "absent"]
  /\ outcome = [t \in Tasks |-> 0]

Advance(t, from, to) ==
  /\ stage[t] = from
  /\ stage' = [stage EXCEPT ![t] = to]
  /\ UNCHANGED outcome

Accept(t) == Advance(t, "absent", "waiting")
Assign(t) == Advance(t, "waiting", "assigned")
Finish(t) == Advance(t, "assigned", "finished")

Archive(t) ==
  /\ stage[t] = "finished"
  /\ stage' = [stage EXCEPT ![t] = "archived"]
  /\ \E o \in {1, 2} : outcome' = [outcome EXCEPT ![t] = o]

Revise(t) ==
  /\ stage[t] = "archived"
  /\ \E o \in {1, 2} : outcome' = [outcome EXCEPT ![t] = o]
  /\ UNCHANGED stage

Next == \E t \in Tasks :
          Accept(t) \/ Assign(t) \/ Finish(t) \/ Archive(t) \/ Revise(t)

Spec == Init /\ [][Next]_vars
=============================================================================
