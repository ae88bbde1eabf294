--------------------------- MODULE PlatformThread ---------------------------
(***************************************************************************)
(* The thread of one platform: platform_srv_proc_thread_execute and        *)
(* get_compress_task_from_webservice_thread_execute.  It goes through      *)
(* rounds of fetching the tasks of a window of time and handing them to    *)
(* the devices.  Manual mode (TaskMode 1) walks from TaskBeginTime to      *)
(* TaskEndTime, automatic mode takes what is before the present.  Where it *)
(* is, iCompressTaskStatus and iLastGetTaskTime, is kept in the table      *)
(* VideoManagePlatformInfo, from which a restart continues.                *)
(*                                                                         *)
(* Time is counted in any unit.  The thread was assigned while the CMS     *)
(* started (set_db_data_to_platform_info_list), so it has its row before   *)
(* its first pass.  What the fetched tasks go through is Dispatch.         *)
(***************************************************************************)
EXTENDS Integers

CONSTANTS
  Plans,         (* configurations [mode, begin, end] of the platform       *)
  GetInterval,   (* TaskGetInterval                                         *)
  RunInterval,   (* TaskRunInterval                                         *)
  Start,         (* the time the CMS is started for the first time          *)
  MaxTime,       (* bound: the clock stands still then                      *)
  MaxChanges,    (* bound: changes of the configuration                     *)
  MaxCrashes     (* bound: crashes of the CMS                               *)

ASSUME PlansAreConfigurations ==
  Plans \subseteq [mode : {0, 1}, begin : Nat, end : Nat]
ASSUME IntervalsArePositive ==
  GetInterval \in Nat \ {0} /\ RunInterval \in Nat \ {0}
ASSUME TimesAreNaturals == Start \in Nat \ {0} /\ MaxTime \in Nat /\ Start <= MaxTime
ASSUME MoreBoundsAreNaturals == MaxChanges \in Nat /\ MaxCrashes \in Nat

VARIABLES
  config,     (* the configuration in the table                            *)
  saved,      (* status and last in the table                              *)
  plan,       (* iTaskMode, iTaskBeginTime, iTaskEndTime                   *)
  status,     (* iCompressTaskStatus                                       *)
  last,       (* iLastGetTaskTime                                          *)
  lastRun,    (* iLastTaskRunTime                                          *)
  runTime,    (* run_time                                                  *)
  pc,         (* where the pass of the loop is, or "down"                  *)
  window,     (* the window being fetched                                  *)
  clock,
  tried,      (* moments in a window whose fetch was begun (history)       *)
  covered,    (* past moments in a window that was fetched (history)       *)
  changes, crashes

row    == <<config, saved>>
thread == <<plan, status, last, lastRun, runTime, pc, window>>
rest   == <<clock, tried, covered, changes, crashes>>
vars   == <<row, thread, rest>>

Window(from, to) == [from |-> from, to |-> to]
Moments(w) == w.from .. w.to - 1

Manual(c) == c.mode = 1

(* Where the progress is in a manual plan: before its end, at its end, or  *)
(* off the plan ("the period has changed").                                *)
InPlan(c)  == last >= c.begin /\ (c.end > 0 => last < c.end)
AtEnd(c)   == c.end > 0 /\ last = c.end
OffPlan(c) == ~InPlan(c) /\ ~AtEnd(c)

TypeOK ==
  /\ config \in Plans /\ plan \in Plans
  /\ saved \in [status : 0 .. 8, last : Nat]
  /\ status \in 0 .. 8
  /\ last \in Nat /\ lastRun \in Nat /\ runTime \in Nat
  /\ pc \in {"down", "top", "work", "fetch", "assign", "check"}
  /\ window \in [from : Int, to : Nat]
  /\ clock \in Nat
  /\ tried \subseteq Int /\ covered \subseteq tried
  /\ pc = "fetch" => Moments(window) \subseteq tried
  /\ changes \in Nat /\ crashes \in Nat

(* A platform that has just been entered.                                  *)
Init ==
  /\ config \in Plans /\ plan = config
  /\ saved = [status |-> 0, last |-> 0]
  /\ status = 0 /\ last = 0 /\ lastRun = 0 /\ runTime = 0
  /\ pc = "down" /\ window = Window(0, 0)
  /\ clock = Start
  /\ tried = {} /\ covered = {}
  /\ changes = 0 /\ crashes = 0

-----------------------------------------------------------------------------
(* UpdatePlatFormCompressTaskStatusToDB.  A crash before it is a crash     *)
(* before the change in memory, so both are one step.  Forgotten changes   *)
(* the memory only.                                                        *)
Forgotten(s, l) == status' = s /\ last' = l /\ UNCHANGED saved
SetStatus(s, l) ==
  /\ status' = s /\ last' = l
  /\ saved' = [status |-> s, last |-> l]

Unchanged == UNCHANGED <<status, last, saved>>

(* platform_srv_proc_thread_init, get_platform_thread_info_from_db.        *)
StartThread ==
  /\ pc = "down"
  /\ plan' = config /\ status' = saved.status /\ last' = saved.last
  /\ lastRun' = 0 /\ runTime' = 0 /\ window' = Window(0, 0)
  /\ pc' = "top"
  /\ UNCHANGED <<row, rest>>

(* The first pass after a start.  busy: HasCompressTaskNotComplete.  The   *)
(* first form begins every plan anew.                                      *)
FirstPassAnew(c, busy) ==
  IF Manual(c) THEN SetStatus(1, c.begin)
  ELSE IF ~busy \/ status \in {0, 3, 8} THEN SetStatus(1, last) ELSE Unchanged

FirstPass(c, busy) ==
  IF Manual(c)
    THEN \/ /\ last = 0 \/ (OffPlan(c) /\ ~busy)
            /\ SetStatus(1, c.begin)
         \/ /\ last > 0 /\ InPlan(c)
            /\ IF status \in {0, 3, 8} THEN SetStatus(1, last) ELSE Unchanged
         \/ /\ last > 0 /\ (AtEnd(c) \/ (OffPlan(c) /\ busy))
            /\ Unchanged
    ELSE IF ~busy \/ status \in {0, 3, 8} THEN SetStatus(1, last) ELSE Unchanged

(* Every other pass (the first form goes on in automatic mode only).       *)
LaterPassAuto(c) ==
  IF Manual(c) /\ last = 0
    THEN SetStatus(1, c.begin)
    ELSE IF status = 8 /\ ~Manual(c) THEN SetStatus(1, last) ELSE Unchanged

LaterPass(c) ==
  IF Manual(c) /\ last = 0
    THEN SetStatus(1, c.begin)
    ELSE IF status = 8 /\ (Manual(c) => InPlan(c)) THEN SetStatus(1, last) ELSE Unchanged

(* In status 8 a pass reads the row again before anything else.            *)
Pass ==
  /\ pc = "top"
  /\ clock > runTime \/ clock = MaxTime
  /\ runTime' = clock
  /\ plan' = IF status = 8 THEN config ELSE plan
  /\ IF lastRun = 0
       THEN (\E busy \in BOOLEAN : FirstPass(plan', busy)) /\ lastRun' = clock
       ELSE LaterPass(plan') /\ UNCHANGED lastRun
  /\ pc' = "work"
  /\ UNCHANGED <<config, window, rest>>

-----------------------------------------------------------------------------
(* The window a fetch asks for in manual mode.  It may reach into the      *)
(* future when the plan has an end.  The first form forgets the end, the   *)
(* second begins a moment late.                                            *)
Least(a, b) == IF a <= b THEN a ELSE b

ManualWindowUncut == Window(last, last + GetInterval)
ManualWindowLate ==
  Window(last + 1, Least(last + GetInterval, IF plan.end > 0 THEN plan.end ELSE runTime))
ManualWindow ==
  Window(last, Least(last + GetInterval, IF plan.end > 0 THEN plan.end ELSE runTime))

(* In automatic mode: up to l, as long as a round lasts.                   *)
AutoWindow(l) == Window(l - RunInterval, l)

Fetch(w, l) ==
  /\ SetStatus(2, l)
  /\ window' = w
  /\ tried' = tried \cup Moments(w)
  /\ pc' = "fetch"
  /\ UNCHANGED <<config, plan, lastRun, runTime, clock, covered, changes, crashes>>

(* The progress has overtaken the clock, and comes back to it.             *)
Overtaken ==
  /\ pc = "work" /\ status \in {1, 3} /\ Manual(plan) /\ last >= runTime
  /\ last' = runTime
  /\ pc' = "check"
  /\ UNCHANGED <<row, plan, status, lastRun, runTime, window, rest>>

(* Status 1: the progress advances when the fetch begins.                  *)
BeginFetch ==
  \/ /\ pc = "work" /\ status = 1 /\ Manual(plan) /\ last < runTime
     /\ Fetch(ManualWindow, ManualWindow.to)
  \/ /\ pc = "work" /\ status = 1 /\ ~Manual(plan)
     /\ Fetch(AutoWindow(runTime), runTime)

(* Status 3: every 30th pass fetches again, from where the progress is     *)
(* now, which in manual mode is the window after the one that failed.      *)
FetchAgain ==
  \/ /\ pc = "work" /\ status = 3 /\ Manual(plan) /\ last < runTime
     /\ Fetch(ManualWindow, last)
  \/ /\ pc = "work" /\ status = 3 /\ ~Manual(plan)
     /\ Fetch(AutoWindow(last), last)

(* get_compress_task_from_webservice_proc returns.  Tasks that are         *)
(* uploaded after the question are not in the answer.  The first form      *)
(* stores the error code where the status belongs.                         *)
FetchFailsSwapped ==
  /\ pc = "fetch"
  /\ SetStatus(8194, last)
  /\ pc' = "check"
  /\ UNCHANGED <<config, plan, lastRun, runTime, window, rest>>

FetchFails ==
  /\ pc = "fetch"
  /\ SetStatus(3, last)
  /\ pc' = "check"
  /\ UNCHANGED <<config, plan, lastRun, runTime, window, rest>>

FetchSucceeds ==
  /\ pc = "fetch"
  /\ SetStatus(4, last)
  /\ lastRun' = runTime
  /\ covered' = covered \cup {x \in Moments(window) : x < runTime}
  /\ pc' = "check"
  /\ UNCHANGED <<config, plan, runTime, window, clock, tried, changes, crashes>>

(* Status 4, or every 30th pass in status 6.  The first form does not wait *)
(* for a fetch that succeeds.                                              *)
BeginAssignUnanswered ==
  /\ pc = "work" /\ status \in {3, 4, 6}
  /\ SetStatus(5, last)
  /\ pc' = "assign"
  /\ UNCHANGED <<config, plan, lastRun, runTime, window, rest>>

BeginAssign ==
  /\ pc = "work" /\ status \in {4, 6}
  /\ SetStatus(5, last)
  /\ pc' = "assign"
  /\ UNCHANGED <<config, plan, lastRun, runTime, window, rest>>

(* assign_compress_task_to_zrv_device_proc returns: all was sent or there  *)
(* was nothing to send (7), or there is no device or a send failed (6).    *)
(* Sending keeps run_time up to date.                                      *)
AssignReturns ==
  /\ pc = "assign"
  /\ \E s \in {6, 7} : SetStatus(s, last)
  /\ runTime' \in {runTime, clock}
  /\ lastRun' = runTime'
  /\ pc' = "check"
  /\ UNCHANGED <<config, plan, window, rest>>

(* No work in this pass: the other statuses, and 3 and 6 between retries.  *)
NoWork ==
  /\ pc = "work" /\ status \notin {1, 4}
  /\ pc' = "check"
  /\ UNCHANGED <<row, plan, status, last, lastRun, runTime, window, rest>>

(* The end of a pass.  A round ends (status 8) when its time is over, in   *)
(* manual mode also when no task waits for its result (looked at every     *)
(* fifth pass).                                                            *)
TimeIsOver == runTime - lastRun >= RunInterval

EndPass ==
  /\ pc = "check"
  /\ \/ /\ \/ status \in {0, 3, 7} /\ TimeIsOver
           \/ status = 7 /\ Manual(plan)
        /\ SetStatus(8, last)
     \/ /\ ~(status \in {0, 3, 7} /\ TimeIsOver)
        /\ Unchanged
  /\ pc' = "top"
  /\ UNCHANGED <<config, plan, lastRun, runTime, window, rest>>

-----------------------------------------------------------------------------
Tick ==
  /\ clock < MaxTime
  /\ clock' = clock + 1
  /\ UNCHANGED <<row, thread, tried, covered, changes, crashes>>

(* The configuration is changed in the table.                              *)
Reconfigure(c) ==
  /\ changes < MaxChanges /\ changes' = changes + 1
  /\ c # config /\ config' = c
  /\ UNCHANGED <<saved, thread, clock, tried, covered, crashes>>

Crash ==
  /\ crashes < MaxCrashes /\ crashes' = crashes + 1
  /\ pc # "down" /\ pc' = "down"
  /\ UNCHANGED <<row, plan, status, last, lastRun, runTime, window, clock, tried, covered, changes>>

Loop ==
  \/ StartThread \/ Pass \/ Overtaken \/ BeginFetch \/ FetchFails
  \/ FetchSucceeds \/ BeginAssign \/ AssignReturns \/ NoWork \/ EndPass
  \/ FetchAgain

Next == Loop \/ Tick \/ Crash \/ \E c \in Plans : Reconfigure(c)

Spec == Init /\ [][Next]_vars

(* The thread runs and time passes; every call of the web service and      *)
(* every round of assigning returns.                                       *)
FairSpec == Spec /\ WF_vars(Loop) /\ WF_vars(Tick)

(* Furthermore: again and again the web service answers, a round of        *)
(* assigning sends all it has, and a round ends; the counter of the        *)
(* retries reaches 30.                                                     *)
Helpful ==
  /\ SF_vars(FetchSucceeds)
  /\ SF_vars(AssignReturns /\ status' = 7)
  /\ SF_vars(EndPass /\ status' = 8)
  /\ SF_vars(BeginAssign)
  /\ SF_vars(FetchAgain)

HelpfulSpec == FairSpec /\ Helpful

-----------------------------------------------------------------------------
(* Properties.                                                             *)

(* The table always has the status of the thread, so that a restart finds  *)
(* the round where it was; and its progress, but for the moment when the   *)
(* progress has been taken back to the clock.                              *)
StatusIsSaved ==
  pc # "down" => /\ saved.status = status
                 /\ saved.last # last => status \in {1, 3} /\ saved.last > last

(* In manual mode no moment between the begin of the plan and the progress *)
(* is passed over: it was in a window whose fetch was begun at least once, *)
(* also across crashes and takings back of the progress.                   *)
NothingPassedOver ==
  changes = 0 /\ config.mode = 1 => \A x \in config.begin .. saved.last - 1 : x \in tried

HasEnd == config.mode = 1 /\ config.end > 0

(* No window reaches beyond the end of a manual plan, first try or retry.  *)
StopsAtEnd ==
  changes = 0 /\ HasEnd => \A x \in tried : x < config.end

(* The progress in the table goes back only when a fetch that failed is    *)
(* tried again after the clock was overtaken, or from the begin of a plan  *)
(* that has not begun yet: no restart and no later round begins a plan     *)
(* anew.                                                                   *)
ProgressIsKept ==
  [][changes = 0 /\ saved'.last < saved.last => status = 3 \/ saved.last = config.begin]_vars

(* The rounds of a manual plan as PlanWalk promises them.                  *)
Walking == changes = 0 /\ config.mode = 1
StateOf(s) == <<"idle", "due", "asking", "failed", "answered",
                "assigning", "unsent", "sent", "over">>[s + 1]

Walk == INSTANCE PlanWalk WITH
  Longest <- GetInterval,
  begin   <- IF Walking THEN config.begin ELSE 0,
  end     <- IF Walking THEN config.end ELSE 0,
  state   <- IF Walking THEN StateOf(saved.status) ELSE "off",
  upTo    <- IF Walking THEN saved.last ELSE 0,
  asked   <- IF Walking THEN tried ELSE {},
  now     <- clock

(* The passes of the thread, its memory, its crashes and its restarts      *)
(* implement PlanWalk: no round is skipped, begun twice or left without    *)
(* its answer, and the progress moves on by first tries only.              *)
FollowsPlan == Walk!Spec

(* The thread does not stay in "fetching" or "assigning" for ever, also    *)
(* when the CMS was restarted in the middle (comment "after a restart in   *)
(* the middle it has to go on").                                           *)
GoesOn == status \in {2, 5} ~> status \notin {2, 5}

(* A manual plan that has begun is finished, fetch failures or not, as     *)
(* long as there is no crash.                                              *)
PlanFinishes ==
  [](changes = 0 /\ crashes = 0) /\ HasEnd /\ config.begin <= clock
    => <>(saved = [status |-> 8, last |-> config.end])

(* A manual plan that is finished has fetched its whole period: a window   *)
(* whose fetch failed was fetched again (comment "fetch again every 30     *)
(* seconds").                                                              *)
FinishedIsComplete ==
  changes = 0 /\ HasEnd /\ saved = [status |-> 8, last |-> config.end]
    => (config.begin .. config.end - 1) \subseteq covered
=============================================================================
