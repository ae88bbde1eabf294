----------------------------- MODULE AssignTasks -----------------------------
(***************************************************************************)
(* How a platform thread spreads the waiting compress tasks of its         *)
(* platform over the registered ZRV devices:                               *)
(* assign_compress_task_to_zrv_device_proc and check_need_to_re_assign.    *)
(*                                                                         *)
(* The routine takes three snapshots (all tasks in progress, tasks to      *)
(* assign, devices), each under its own lock, and then reads the load of   *)
(* the devices again and again from the live task map, with no lock held   *)
(* in between.  Every such read is a step here, so that the result thread, *)
(* the device registry and the task monitor run in between.                *)
(***************************************************************************)
EXTENDS Integers, FiniteSets

CONSTANTS
  Tasks,         (* record numbers of the tasks of this platform           *)
  Devices,       (* ZRV devices                                            *)
  NoDevice       (* empty strZRVDeviceIP                                   *)

ASSUME TasksFinite   == IsFiniteSet(Tasks)
ASSUME DevicesFinite == IsFiniteSet(Devices)
ASSUME NoDeviceIsNone == NoDevice \notin Devices

VARIABLES
  status,    (* iTaskStatus: "need" 0, "run" 1; "gone": not in the map     *)
  device,    (* strZRVDeviceIP of each task                                *)
  online,    (* devices with reg_status > 0 and tcp_sock >= 0              *)
  moved,     (* did a task change its device since the routine was called? *)
  pc,        (* where the routine is                                       *)
  all,       (* all_proc_task_count                                        *)
  need,      (* what is left of NeedAssignCompressTaskID                   *)
  devs,      (* AllZRVDeviceIP                                             *)
  per,       (* per_task_count_zrvdevice                                   *)
  unread,    (* devices check_need_to_re_assign has still to look at       *)
  load,      (* AssignZRVDeviceTaskCount, and which devices were kept      *)
  removed,   (* tmp_remove_task_count                                      *)
  ret        (* return value                                               *)

map    == <<status, device, online, moved>>
locals == <<all, need, devs, per, unread, load, removed, ret>>
vars   == <<map, pc, locals>>

Statuses == {"need", "run", "gone"}
Results  == {"ok", "error", "no_task", "no_device"}
Places   == {"start", "need", "devices", "check", "handout", "return",
             "divided_by_zero"}

(* A task has a device exactly while it is assigned; the rest are types.   *)
TypeOK ==
  /\ status  \in [Tasks -> Statuses]
  /\ device  \in [Tasks -> Devices \cup {NoDevice}]
  /\ online  \subseteq Devices
  /\ moved   \in BOOLEAN
  /\ pc      \in Places
  /\ all     \in Int
  /\ need    \subseteq Tasks
  /\ devs    \subseteq Devices
  /\ per     \in Int
  /\ unread  \subseteq devs
  /\ load    \in [Devices -> Int]
  /\ removed \in Int
  /\ ret     \in Results
  /\ \A t \in Tasks : device[t] = NoDevice <=> status[t] # "run"

(* GetAllProcCompressTaskByPlatformIP: tasks with status 0 or 1.           *)
AllProc == {t \in Tasks : status[t] \in {"need", "run"}}

(* GetNeedAssignCompressTaskByPlatformIP: tasks with status 0.             *)
NeedAssign == {t \in Tasks : status[t] = "need"}

(* Tasks with status 1 at the devices in D.                                *)
RunningAt(D) == {t \in Tasks : status[t] = "run" /\ device[t] \in D}

(* GetCurrentCompressTaskCountByZRVDeviceIP.                               *)
CurrentCount(d) == Cardinality(RunningAt({d}))

(* Each device's share: the C quotient, plus 1 when there is a remainder.  *)
Quotient(count, n) == IF count >= 0 THEN count \div n ELSE -((-count) \div n)
PerDevice(count, n) == Quotient(count, n) + (IF count % n = 0 THEN 0 ELSE 1)

Init ==
  /\ status \in [Tasks -> Statuses]
  /\ device \in [Tasks -> Devices \cup {NoDevice}]
  /\ \A t \in Tasks : device[t] = NoDevice <=> status[t] # "run"
  /\ online \in SUBSET Devices
  /\ moved = FALSE
  /\ pc = "start"
  /\ all = 0 /\ need = {} /\ devs = {} /\ per = 0
  /\ unread = {} /\ load = [d \in Devices |-> 0] /\ removed = 0
  /\ ret = "ok"

Return(r) ==
  /\ pc'  = "return"
  /\ ret' = r

-----------------------------------------------------------------------------
(* The routine.                                                            *)

(* Snapshot of the tasks in progress; none: nothing to do.                 *)
CountAll ==
  /\ pc = "start"
  /\ all' = Cardinality(AllProc)
  /\ moved' = FALSE
  /\ IF all' = 0
       THEN Return("no_task")
       ELSE pc' = "need" /\ ret' = "ok"
  /\ UNCHANGED <<status, device, online, need, devs, per, unread, load, removed>>

(* Snapshot of the tasks to assign.  The early return matters: the first   *)
(* form forgets it.                                                        *)
GetNeedWithoutReturn ==
  /\ pc = "need"
  /\ need' = NeedAssign
  /\ pc'   = "devices"
  /\ UNCHANGED <<map, all, devs, per, unread, load, removed, ret>>

GetNeed ==
  /\ pc = "need"
  /\ need' = NeedAssign
  /\ IF need' = {}
       THEN Return("no_task")
       ELSE pc' = "devices" /\ UNCHANGED ret
  /\ UNCHANGED <<map, all, devs, per, unread, load, removed>>

(* Start a pass of check_need_to_re_assign over the devices in D.          *)
BeginCheck(D, count) ==
  /\ devs'    = D
  /\ per'     = PerDevice(count, Cardinality(D))
  /\ unread'  = D
  /\ removed' = 0
  /\ pc'      = "check"

(* GetZRVDeviceIPForAssginTask, and the first share.                       *)
GetDevices ==
  /\ pc = "devices"
  /\ IF online = {}
       THEN Return("no_device") /\ UNCHANGED <<devs, per, unread, removed>>
       ELSE BeginCheck(online, all) /\ UNCHANGED ret
  /\ UNCHANGED <<map, all, need, load>>

(* A device below the share is kept, a busier one filtered out.  Kept is   *)
(* what the pass has kept so far.                                          *)
Keeps(count) == count < per
Kept == {d \in devs \ unread : Keeps(load[d])}

(* One turn of the loop of check_need_to_re_assign.                        *)
ReadLoad(d) ==
  /\ pc = "check"
  /\ d \in unread
  /\ unread' = unread \ {d}
  /\ load'   = [load EXCEPT ![d] = CurrentCount(d)]
  /\ removed' = IF Keeps(CurrentCount(d)) THEN removed
                                          ELSE removed + CurrentCount(d)
  /\ UNCHANGED <<map, pc, all, need, devs, per, ret>>

(* End of a pass: share the rest out over the kept devices, and again,     *)
(* until a pass filters nobody.  The division comes before any test that   *)
(* a device is left.  EndPassSameList forgets to copy the kept devices     *)
(* over the list.                                                          *)
Remaining == all - removed

EndPassSameList ==
  /\ pc = "check"
  /\ unread = {}
  /\ IF Kept = devs THEN pc' = "handout" /\ unread' = devs
                         /\ UNCHANGED <<all, devs, per, removed>>
                    ELSE all' = all /\ BeginCheck(devs, all')
  /\ UNCHANGED <<map, need, load, ret>>

EndPass ==
  /\ pc = "check"
  /\ unread = {}
  /\ \/ /\ Kept = devs
        /\ pc' = "handout"
        /\ unread' = devs
        /\ UNCHANGED <<all, devs, per, removed>>
     \/ /\ Kept # devs /\ Kept # {}
        /\ all' = Remaining
        /\ BeginCheck(Kept, all')
     \/ /\ Kept = {}
        /\ all' = Remaining
        /\ pc' = "divided_by_zero"
        /\ UNCHANGED <<devs, per, unread, removed>>
  /\ UNCHANGED <<map, need, load, ret>>

(* The slice of a device: its share less what it already runs, cut at the  *)
(* end of the vector.  WholeShare forgets what it already runs.            *)
WholeShare(d) == per
Quota(d) == per - load[d]
SliceSize(d) == IF Quota(d) < Cardinality(need) THEN Quota(d)
                                               ELSE Cardinality(need)

(* SendAssignTaskToZRVDevice: an empty slice or a device that went away    *)
(* since is an error and marks nothing; a connection that breaks leaves    *)
(* some of the slice marked and the rest not.  A task that has left the    *)
(* map meanwhile is passed over.                                           *)
Marked(S) == {t \in S : status[t] # "gone"}

HandOut(d) ==
  /\ pc = "handout"
  /\ d \in unread
  /\ unread' = unread \ {d}
  /\ \E slice \in SUBSET need :
       /\ Cardinality(slice) = SliceSize(d)
       /\ need' = need \ slice
       /\ \/ /\ slice = {} \/ d \notin online
             /\ ret' = "error"
             /\ UNCHANGED <<status, device, online>>
          \/ /\ slice # {} /\ d \in online
             /\ \E marked \in SUBSET slice :
                  /\ status' = [t \in Tasks |-> IF t \in Marked(marked) THEN "run" ELSE status[t]]
                  /\ device' = [t \in Tasks |-> IF t \in Marked(marked) THEN d ELSE device[t]]
                  /\ \/ marked = slice /\ UNCHANGED <<ret, online>>
                     \/ marked # {} /\ ret' = "error" /\ online' = online \ {d}
  /\ UNCHANGED <<moved, pc, all, devs, per, load, removed>>

EndHandOut ==
  /\ pc = "handout"
  /\ unread = {}
  /\ pc' = "return"
  /\ UNCHANGED <<map, locals>>

(* The platform thread comes back for the next round or the next retry.    *)
Again ==
  /\ pc = "return"
  /\ pc' = "start"
  /\ need' = {}
  /\ UNCHANGED <<map, all, devs, per, unread, load, removed, ret>>

-----------------------------------------------------------------------------
(* What the other threads do to the task map and to the registry.          *)

(* The platform thread itself fetches, but only between two calls; a task  *)
(* fetched again is reset (FetchKeepsDevice does so by half).              *)
FetchKeepsDevice(t) ==
  /\ pc = "start"
  /\ status' = [status EXCEPT ![t] = "need"]
  /\ UNCHANGED <<device, online, moved, pc, locals>>

Fetch(t) ==
  /\ pc = "start"
  /\ status' = [status EXCEPT ![t] = "need"]
  /\ device' = [device EXCEPT ![t] = NoDevice]
  /\ UNCHANGED <<online, moved, pc, locals>>

(* The result thread removes a task that a device has finished, also one   *)
(* that was fetched again while the device was at it.                      *)
Complete(t) ==
  /\ status[t] # "gone"
  /\ status' = [status EXCEPT ![t] = "gone"]
  /\ device' = [device EXCEPT ![t] = NoDevice]
  /\ UNCHANGED <<online, moved, pc, locals>>

(* Before that it enters the device that reports, which for a task that    *)
(* was moved once need not be the one it is assigned to.                   *)
ReportedBy(t, d) ==
  /\ status[t] = "run"
  /\ d # device[t]
  /\ device' = [device EXCEPT ![t] = d]
  /\ moved' = TRUE
  /\ UNCHANGED <<status, online, pc, locals>>

GoOnline(d) ==
  /\ d \notin online
  /\ online' = online \cup {d}
  /\ UNCHANGED <<status, device, moved, pc, locals>>

GoOffline(d) ==
  /\ d \in online
  /\ online' = online \ {d}
  /\ UNCHANGED <<status, device, moved, pc, locals>>

(* The task monitor gives a timed-out task of a device that is gone to     *)
(* the device get_zrv_device_ip_by_min_task_count picks.                   *)
Move(t, d) ==
  /\ status[t] = "run"
  /\ device[t] \notin online
  /\ d \in online
  /\ \A e \in online : CurrentCount(e) <= CurrentCount(d)
  /\ device' = [device EXCEPT ![t] = d]
  /\ moved' = TRUE
  /\ UNCHANGED <<status, online, pc, locals>>

Routine ==
  \/ CountAll \/ GetNeed \/ GetDevices \/ EndPass \/ EndHandOut \/ Again
  \/ \E d \in Devices : ReadLoad(d) \/ HandOut(d)

Others ==
  \/ \E t \in Tasks : Fetch(t) \/ Complete(t)
  \/ \E d \in Devices : GoOnline(d) \/ GoOffline(d)
  \/ \E t \in Tasks, d \in Devices : Move(t, d) \/ ReportedBy(t, d)

Next == Routine \/ Others

Spec == Init /\ [][Next]_vars

(* The thread keeps running: the scheduler lets it take its next step.     *)
FairSpec == Spec /\ WF_vars(Routine)

-----------------------------------------------------------------------------
(* Properties.                                                             *)

(* The comment of the test after the loop says that an empty device list   *)
(* ends the routine with FILE_COMPRESS_NO_ZRV_DEVICE: the share is never   *)
(* computed by dividing by a device count of zero.                         *)
NeverDividesByZero == pc # "divided_by_zero"

(* It is not, as long as no task changes its device while the routine runs *)
(* (moved by the monitor, or reported by another device than its own),     *)
(* whatever the result thread and the registry do meanwhile.               *)
DividesOnlyAfterMove == ~moved => NeverDividesByZero

(* The shares cover the work: before the slices are cut, the kept devices  *)
(* have room for every task of the vector, so a clean return of the        *)
(* routine leaves no task of the vector behind.                            *)
CleanReturnAssignsAll ==
  ~moved /\ pc = "return" /\ ret = "ok" => need = {} /\ NeedAssign = {}

(* A call never loads a device above the share it computed, neither by     *)
(* its own slices nor by what the device already had.                      *)
NeverOverloads ==
  ~moved /\ pc = "handout" =>
    \A d \in devs : d \notin unread => CurrentCount(d) <= per

(* The loop of passes comes to an end, whatever the other threads do to    *)
(* the loads it reads.                                                     *)
PassesEnd == pc = "check" ~> pc # "check"
=============================================================================
