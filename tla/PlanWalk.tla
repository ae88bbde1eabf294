------------------------------ MODULE PlanWalk ------------------------------
(***************************************************************************)
(* What a platform thread promises for a manual plan, seen from the row of *)
(* the platform and from the web service, without its passes, its memory   *)
(* and its restarts: rounds of asking and assigning that walk through the  *)
(* plan.  Only the first try of a round moves the progress on.  Every      *)
(* question starts at or before the progress, by at most one window        *)
(* (Longest), so nothing is left out and little is asked for twice.        *)
(***************************************************************************)
EXTENDS Integers

CONSTANTS
  Longest,      (* TaskGetInterval                                         *)
  Start         (* when the first CMS starts                               *)

VARIABLES
  begin, end,   (* the plan; an end of 0 is none                           *)
  state,        (* iCompressTaskStatus of the row; "off": no manual plan,  *)
                (* or one that has been changed                            *)
  upTo,         (* iLastGetTaskTime of the row                             *)
  asked,        (* moments the web service was asked for                   *)
  now

plan == <<begin, end>>
vars == <<plan, state, upTo, asked, now>>

Init ==
  /\ now = Start /\ upTo = 0 /\ asked = {}
  /\ \/ state = "idle" /\ begin \in Nat /\ end \in Nat
     \/ state = "off" /\ begin = 0 /\ end = 0

(* From one of the states in from to one of those in to.                   *)
Turn(from, to) == state \in from /\ state' \in to /\ UNCHANGED <<plan, now>>

(* Where the thread may have its progress in memory: at that of the row,   *)
(* or one window before it; a plan that has not begun has it anywhere      *)
(* before its begin.                                                       *)
Behind(x) == upTo <= x + Longest \/ upTo = begin

(* The end of a window: in the plan, or not in the future.                 *)
Limit == IF end > 0 THEN end ELSE now
Ask(x, to) ==
  /\ Behind(x)
  /\ to <= x + Longest /\ to <= Limit
  /\ asked' = asked \cup x .. to - 1

(* The walk starts at the begin of the plan, and does so again only when   *)
(* it has not passed it.                                                   *)
BeginPlan ==
  /\ Turn({"idle", "due", "asking", "failed", "answered", "assigning", "unsent", "sent", "over"},
          {"due"})
  /\ upTo <= begin
  /\ upTo' = begin
  /\ UNCHANGED asked

(* The next round, while the plan is not at its end.                       *)
BeginRound ==
  /\ Turn({"idle", "failed", "over"}, {"due"})
  /\ begin <= upTo /\ (end > 0 => upTo < end)
  /\ UNCHANGED <<upTo, asked>>

(* The first try moves the progress on to the end of its window; the       *)
(* progress goes back only to the end of a plan that ends before it        *)
(* begins.                                                                 *)
FirstTry ==
  /\ Turn({"due"}, {"asking"})
  /\ upTo <= upTo' \/ upTo = begin
  /\ \E x \in 0 .. upTo : Ask(x, upTo')

(* Another try starts at the progress in memory, which is that of the row  *)
(* from then on.                                                           *)
Retry ==
  /\ Turn({"failed"}, {"asking"})
  /\ upTo' \in 0 .. upTo
  /\ \E to \in 0 .. upTo' + Longest : Ask(upTo', to)

Answered ==
  /\ Turn({"asking"}, {"failed", "answered"})
  /\ UNCHANGED <<upTo, asked>>

Assign ==
  /\ Turn({"answered", "unsent"}, {"assigning"})
  /\ UNCHANGED <<upTo, asked>>

Assigned ==
  /\ Turn({"assigning"}, {"unsent", "sent"})
  /\ UNCHANGED <<upTo, asked>>

(* A round ends when its tasks are sent, or its time is over before an     *)
(* answer has come.                                                        *)
EndRound ==
  /\ \/ Turn({"idle", "sent"}, {"over"}) /\ UNCHANGED upTo
     \/ Turn({"failed"}, {"over"}) /\ upTo' \in 0 .. upTo /\ Behind(upTo')
  /\ UNCHANGED asked

(* Somebody changes the plan: nothing is promised from then on.            *)
Leave ==
  /\ state # "off" /\ state' = "off"
  /\ begin' = 0 /\ end' = 0 /\ upTo' = 0 /\ asked' = {}
  /\ UNCHANGED now

Tick == now' = now + 1 /\ UNCHANGED <<plan, state, upTo, asked>>

Next ==
  \/ BeginPlan \/ BeginRound \/ FirstTry \/ Retry
  \/ Answered \/ Assign \/ Assigned \/ EndRound
  \/ Leave \/ Tick

Spec == Init /\ [][Next]_vars
=============================================================================
