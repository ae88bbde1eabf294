------------------------------ MODULE Dispatch ------------------------------
(***************************************************************************)
(* The life of compress tasks in the CMS: a platform thread fetches them   *)
(* and hands them to ZRV devices, devices report results, the result       *)
(* thread archives them, the task monitor resends what takes too long.     *)
(*                                                                         *)
(* The four threads share the task map g_CompressTaskMap (mem), the table  *)
(* ZRVCompressTaskAssignInfo (row) and the table ZRVCompressTaskInfo       *)
(* (total).  One lock guards one access of the map, and one SQL statement  *)
(* is one transaction: every such access is a step, and a crash of the     *)
(* process may fall between any two.  How big the slices of a round are    *)
(* is AssignTasks; here a round cuts its tasks into any slices.            *)
(***************************************************************************)
EXTENDS Integers, Sequences, FiniteSets

CONSTANTS
  Tasks,       (* record numbers                                            *)
  Devices,     (* ZRV devices                                               *)
  NoDevice,    (* empty strZRVDeviceIP                                      *)
  None,        (* no such record, no such thread activity                   *)
  Batch,       (* MAX_ZRV_COMPRESS_TASL_COUT_SEND, tasks per packet         *)
  MaxFetch,    (* bound: how often the platform delivers a task             *)
  MaxQueue,    (* bound: results waiting for the result thread              *)
  MaxFaults,   (* bound: packets lost, connections and devices broken       *)
  MaxCrashes   (* bound: crashes of the CMS                                 *)

ASSUME NamesDiffer == NoDevice \notin Devices /\ None \notin Tasks \cup Devices
ASSUME BatchIsPositive == Batch \in Nat \ {0}
ASSUME BoundsAreNaturals ==
  MaxFetch \in Nat /\ MaxQueue \in Nat /\ MaxFaults \in Nat /\ MaxCrashes \in Nat

VARIABLES
  mem,       (* g_CompressTaskMap                                          *)
  row,       (* ZRVCompressTaskAssignInfo                                  *)
  total,     (* ZRVCompressTaskInfo                                        *)
  told,      (* tasks the remote side was told about                       *)
  resent,    (* tasks whose resend_count was ever raised (history)         *)
  online,    (* devices with reg_status > 0 and a socket                   *)
  work,      (* tasks each device has received and not yet reported        *)
  queue,     (* g_TSUCreatTaskResultMsgQueue                               *)
  p,         (* platform thread                                            *)
  r,         (* result thread                                              *)
  m,         (* task monitor thread                                        *)
  k,         (* TCP thread                                                 *)
  up,        (* "up", or where the start of the CMS is                     *)
  fetched,   (* how often each task was accepted                           *)
  faults, crashes

store   == <<mem, row, total>>
threads == <<p, r, m, k>>
budget  == <<fetched, faults, crashes>>
vars    == <<store, told, resent, online, work, queue, threads, up, budget>>

(* A task has a result exactly when it is finished.                        *)
Record == {c \in [device : Devices \cup {NoDevice}, status : 0 .. 2, result : 0 .. 2] :
             c.status = 2 <=> c.result # 0}
Msg    == [task : Tasks, device : Devices, result : {1, 2}]

ASSUME NoneIsNoRecord == None \notin Record

PIdle == [at |-> "idle", task |-> None, device |-> None, devs |-> {},
          need |-> {}, slice |-> {}, packet |-> {}]
RIdle == [at |-> "idle", msg |-> None]
MIdle == [at |-> "idle", list |-> {}, task |-> None, device |-> None]
KIdle == [at |-> "idle", device |-> None]

Has(table, t) == table[t] # None

(* Tasks with status s in the map.                                         *)
InStatus(s) == {t \in Tasks : Has(mem, t) /\ mem[t].status = s}

(* Tasks with status 1 at device d; the first form forgets the device.     *)
AssignedAnywhere(d) == InStatus(1)
AssignedTo(d) == {t \in InStatus(1) : mem[t].device = d}

(* compress_task_set_task_assign_info and the UPDATE of the assign table   *)
(* do nothing when there is no such record; the same for the result        *)
(* (SwapResult has two of its arguments in the wrong order).               *)
SetDevice(table, t, d) ==
  IF Has(table, t) THEN [table EXCEPT ![t].device = d] ELSE table
SwapResult(table, t, s, res) ==
  IF Has(table, t) THEN [table EXCEPT ![t].status = res, ![t].result = s] ELSE table
SetResult(table, t, s, res) ==
  IF Has(table, t) THEN [table EXCEPT ![t].status = s, ![t].result = res] ELSE table

(* A task as it is when it has just been fetched.                          *)
Fresh == [device |-> NoDevice, status |-> 0, result |-> 0]

Table == [Tasks -> Record \cup {None}]

StoreOK == mem \in Table /\ row \in Table /\ total \in Table

DeviceSideOK ==
  /\ online \subseteq Devices
  /\ work   \in [Devices -> SUBSET Tasks]
  /\ queue  \in Seq(Msg)

PlatformOK ==
  /\ p \in [at : {"idle", "row", "slices", "pack", "assign_row", "mark_mem",
                  "mark_row", "flush"},
            task : Tasks \cup {None}, device : Devices \cup {None},
            devs : SUBSET Devices, need : SUBSET Tasks, slice : SUBSET Tasks,
            packet : SUBSET Tasks]
  /\ p.at \in {"row", "assign_row", "mark_mem", "mark_row"} => p.task \in Tasks
  /\ p.at \in {"pack", "assign_row", "mark_mem", "mark_row", "flush"} => p.device \in Devices

ResultOK ==
  /\ r \in [at : {"idle", "assign_row", "mark_mem", "mark_row", "delete",
                  "archive", "remove", "notify"}, msg : Msg \cup {None}]
  /\ r.at # "idle" => r.msg \in Msg

MonitorOK ==
  /\ m \in [at : {"idle", "next", "move", "move_row", "send"}, list : SUBSET Tasks,
            task : Tasks \cup {None}, device : Devices \cup {None}]
  /\ m.at \in {"move", "move_row", "send"} => m.task \in Tasks
  /\ m.at \in {"move", "move_row"} => m.device \in Devices

TcpOK ==
  /\ k \in [at : {"idle", "resend"}, device : Devices \cup {None}]
  /\ k.at = "resend" => k.device \in Devices

HistoryOK ==
  /\ told \subseteq Tasks /\ resent \subseteq Tasks
  /\ up \in {"up", "down", "archived"}
  /\ fetched \in [Tasks -> Nat] /\ faults \in Nat /\ crashes \in Nat

TypeOK ==
  /\ StoreOK /\ DeviceSideOK
  /\ PlatformOK /\ ResultOK /\ MonitorOK /\ TcpOK
  /\ HistoryOK

Init ==
  /\ mem = [t \in Tasks |-> None] /\ row = mem /\ total = mem
  /\ told = {} /\ resent = {} /\ online = {}
  /\ work = [d \in Devices |-> {}] /\ queue = <<>>
  /\ p = PIdle /\ r = RIdle /\ m = MIdle /\ k = KIdle
  /\ up = "up"
  /\ fetched = [t \in Tasks |-> 0] /\ faults = 0 /\ crashes = 0

Fault == faults < MaxFaults /\ faults' = faults + 1

(* One send() of a packet with the tasks S to device d: it arrives, it is  *)
(* lost (EAGAIN, or the device goes before reading it), or the connection  *)
(* breaks and the registry entry is reset.  gone tells which.              *)
Send(d, S, gone) ==
  \/ /\ d \in online /\ ~gone
     /\ work' = [work EXCEPT ![d] = @ \cup S]
     /\ UNCHANGED <<online, faults>>
  \/ /\ d \in online /\ ~gone
     /\ Fault
     /\ UNCHANGED <<online, work>>
  \/ /\ d \in online /\ gone
     /\ Fault
     /\ online' = online \ {d}
     /\ UNCHANGED work
  \/ /\ d \notin online /\ gone
     /\ UNCHANGED <<online, work, faults>>

-----------------------------------------------------------------------------
(* Platform thread: fetch (AddCompressTask).                               *)

(* A new task enters the map, a known one is reset for compression again.  *)
Fetch(t) ==
  /\ p.at = "idle"
  /\ fetched[t] < MaxFetch
  /\ mem' = [mem EXCEPT ![t] = Fresh]
  /\ p' = [p EXCEPT !.at = "row", !.task = t]
  /\ UNCHANGED <<row, total, told, resent, online, work, queue, r, m, k, budget>>

(* AddCompressTaskToAssignDB: insert, or reset the row that is there       *)
(* unless the task has a result by now.  The function was given a raw      *)
(* pointer: if the result thread has freed the task meanwhile, what the    *)
(* test reads is arbitrary.                                                *)
FetchRow ==
  /\ p.at = "row"
  /\ LET t == p.task
         resets == ~Has(row, t) \/ mem[t].status = 0 \/ mem[t].result = 0
     IN /\ row' \in IF Has(mem, t)
                      THEN {IF resets THEN [row EXCEPT ![t] = Fresh] ELSE row}
                      ELSE {row, [row EXCEPT ![t] = Fresh]}
        /\ fetched' = [fetched EXCEPT ![t] = @ + 1]
  /\ p' = PIdle
  /\ UNCHANGED <<mem, total, told, resent, online, work, queue, r, m, k, faults, crashes>>

-----------------------------------------------------------------------------
(* Platform thread: a round of assign_compress_task_to_zrv_device_proc and *)
(* its calls of SendAssignTaskToZRVDevice.                                 *)

BeginRound ==
  /\ p.at = "idle"
  /\ InStatus(0) # {} /\ online # {}
  /\ p' = [PIdle EXCEPT !.at = "slices", !.devs = online, !.need = InStatus(0)]
  /\ UNCHANGED <<store, told, resent, online, work, queue, r, m, k, budget>>

(* The next device gets a slice, the last one at least one task if any is  *)
(* left: a device the round keeps has room for one, but after a move the   *)
(* shares need not cover all tasks.  Nothing happens to an empty slice or  *)
(* for a device that is gone.                                              *)
CutSlice(d) ==
  /\ p.at = "slices"
  /\ d \in p.devs
  /\ \E S \in SUBSET p.need :
       /\ p.devs = {d} /\ p.need # {} => S # {}
       /\ p' = [p EXCEPT !.devs = @ \ {d}, !.need = @ \ S,
                         !.at = IF S # {} /\ d \in online THEN "pack" ELSE "slices",
                         !.device = IF S # {} /\ d \in online THEN d ELSE None,
                         !.slice = IF d \in online THEN S ELSE {}]
  /\ UNCHANGED <<store, told, resent, online, work, queue, r, m, k, budget>>

EndRound ==
  /\ p.at = "slices"
  /\ p.devs = {}
  /\ p' = PIdle
  /\ UNCHANGED <<store, told, resent, online, work, queue, r, m, k, budget>>

(* Put the next task of the slice into the packet, if it still exists, and *)
(* mark it: UpdateCompressTaskAssignInfo, UpdateCompressTaskResultInfo.    *)
Pack(t) ==
  /\ p.at = "pack"
  /\ t \in p.slice
  /\ mem' = SetDevice(mem, t, p.device)
  /\ p' = [p EXCEPT !.at = "assign_row", !.task = t, !.slice = @ \ {t},
                    !.packet = IF Has(mem, t) THEN @ \cup {t} ELSE @]
  /\ UNCHANGED <<row, total, told, resent, online, work, queue, r, m, k, budget>>

(* The table of a marked task; the first form forgets it.                  *)
PackAssignMapOnly ==
  /\ p.at = "assign_row"
  /\ p' = [p EXCEPT !.at = "mark_mem"]
  /\ UNCHANGED <<store, told, resent, online, work, queue, r, m, k, budget>>

PackAssignRow ==
  /\ p.at = "assign_row"
  /\ row' = SetDevice(row, p.task, p.device)
  /\ p' = [p EXCEPT !.at = "mark_mem"]
  /\ UNCHANGED <<mem, total, told, resent, online, work, queue, r, m, k, budget>>

(* The status in the map; the first form leaves it to the table.           *)
PackMarkTableOnly ==
  /\ p.at = "mark_mem"
  /\ p' = [p EXCEPT !.at = "mark_row"]
  /\ UNCHANGED <<store, told, resent, online, work, queue, r, m, k, budget>>

PackMarkMem ==
  /\ p.at = "mark_mem"
  /\ mem' = SetResult(mem, p.task, 1, 0)
  /\ p' = [p EXCEPT !.at = "mark_row"]
  /\ UNCHANGED <<row, total, told, resent, online, work, queue, r, m, k, budget>>

PackMarkRow ==
  /\ p.at = "mark_row"
  /\ row' = SetResult(row, p.task, 1, 0)
  /\ p' = [p EXCEPT !.task = None,
                    !.at = IF p.slice = {} \/ Cardinality(p.packet) >= Batch
                             THEN "flush" ELSE "pack"]
  /\ UNCHANGED <<mem, total, told, resent, online, work, queue, r, m, k, budget>>

(* Send the packet.  A broken connection ends the slice: its other tasks   *)
(* stay as they are until a later round.                                   *)
Flush ==
  /\ p.at = "flush"
  /\ \E gone \in BOOLEAN :
       /\ Send(p.device, p.packet, gone)
       /\ p' = IF gone \/ p.slice = {}
                 THEN [p EXCEPT !.at = "slices", !.device = None, !.slice = {}, !.packet = {}]
                 ELSE [p EXCEPT !.at = "pack", !.packet = {}]
  /\ UNCHANGED <<store, told, resent, queue, r, m, k, fetched, crashes>>

-----------------------------------------------------------------------------
(* Result thread: tsu_creat_task_result_msg_proc.                          *)

ToR(at) == r' = [r EXCEPT !.at = at]

TakeResult ==
  /\ r.at = "idle" /\ queue # <<>>
  /\ r' = [at |-> "assign_row", msg |-> Head(queue)]
  /\ queue' = Tail(queue)
  /\ mem' = SetDevice(mem, Head(queue).task, Head(queue).device)
  /\ UNCHANGED <<row, total, told, resent, online, work, p, m, k, budget>>

ResultAssignRow ==
  /\ r.at = "assign_row"
  /\ row' = SetDevice(row, r.msg.task, r.msg.device)
  /\ ToR("mark_mem")
  /\ UNCHANGED <<mem, total, told, resent, online, work, queue, p, m, k, budget>>

ResultMarkTableOnly ==
  /\ r.at = "mark_mem"
  /\ ToR("mark_row")
  /\ UNCHANGED <<store, told, resent, online, work, queue, p, m, k, budget>>

ResultMarkMem ==
  /\ r.at = "mark_mem"
  /\ mem' = SetResult(mem, r.msg.task, 2, r.msg.result)
  /\ ToR("mark_row")
  /\ UNCHANGED <<row, total, told, resent, online, work, queue, p, m, k, budget>>

ResultMarkRow ==
  /\ r.at = "mark_row"
  /\ row' = SetResult(row, r.msg.task, 2, r.msg.result)
  /\ ToR("delete")
  /\ UNCHANGED <<mem, total, told, resent, online, work, queue, p, m, k, budget>>

(* The row is deleted, and then the task archived; the first form skips    *)
(* the archiving.                                                          *)
ResultDeleteOnly ==
  /\ r.at = "delete"
  /\ row' = [row EXCEPT ![r.msg.task] = None]
  /\ ToR("remove")
  /\ UNCHANGED <<mem, total, told, resent, online, work, queue, p, m, k, budget>>

ResultDelete ==
  /\ r.at = "delete"
  /\ row' = [row EXCEPT ![r.msg.task] = None]
  /\ ToR("archive")
  /\ UNCHANGED <<mem, total, told, resent, online, work, queue, p, m, k, budget>>

(* AddCompressTaskToDB: the record in the map if there is one (its device  *)
(* is written only by an insert), else the reported values, but then only  *)
(* into a row that exists.  ArchivedByUpdate never inserts.                *)
ArchivedByUpdate(t, status, result) == SetResult(total, t, status, result)

Archived(t, status, result) ==
  IF Has(mem, t)
    THEN [total EXCEPT ![t] = IF Has(total, t) THEN [mem[t] EXCEPT !.device = total[t].device]
                                               ELSE mem[t]]
    ELSE SetResult(total, t, status, result)

ResultArchive ==
  /\ r.at = "archive"
  /\ total' = Archived(r.msg.task, 2, r.msg.result)
  /\ ToR("remove")
  /\ UNCHANGED <<mem, row, told, resent, online, work, queue, p, m, k, budget>>

(* The task leaves the map, failed or not.                                 *)
ResultRemove ==
  /\ r.at = "remove"
  /\ mem' = [mem EXCEPT ![r.msg.task] = None]
  /\ IF r.msg.result = 1 THEN ToR("notify") ELSE r' = RIdle
  /\ UNCHANGED <<row, total, told, resent, online, work, queue, p, m, k, budget>>

(* interface_updateObjectInfo; its failure is only logged.                 *)
ResultNotify ==
  /\ r.at = "notify"
  /\ told' \in {told, told \cup {r.msg.task}}
  /\ r' = RIdle
  /\ UNCHANGED <<store, resent, online, work, queue, p, m, k, budget>>

-----------------------------------------------------------------------------
(* Task monitor: scan_compress_task_list_for_wait_expire.                  *)

CountOf(d) == Cardinality(AssignedTo(d))

(* get_zrv_device_ip_by_min_task_count: a device none of the others has    *)
(* more tasks than, whatever the name says.                                *)
Picks == {d \in online : \A e \in online : CountOf(e) <= CountOf(d)}

(* Any of the assigned tasks may have waited long enough (300 scans).      *)
Collect(S) ==
  /\ m.at = "idle"
  /\ S # {} /\ S \subseteq InStatus(1)
  /\ resent' = resent \cup S
  /\ m' = [MIdle EXCEPT !.at = "next", !.list = S]
  /\ UNCHANGED <<store, told, online, work, queue, p, r, k, budget>>

(* A task of a device that is gone gets another device, if there is one.   *)
AtGoneDevice(t) == Has(mem, t) /\ mem[t].device \notin online
AtDevice(t)     == Has(mem, t) /\ mem[t].device \in online

LookAt(t) ==
  /\ m.at = "next"
  /\ t \in m.list
  /\ LET rest == m.list \ {t}
         skip == IF rest = {} THEN MIdle ELSE [MIdle EXCEPT !.at = "next", !.list = rest]
     IN \/ /\ Has(mem, t) => AtGoneDevice(t) /\ online = {}
           /\ m' = skip
        \/ /\ AtDevice(t)
           /\ m' = [at |-> "send", list |-> rest, task |-> t, device |-> None]
        \/ /\ AtGoneDevice(t)
           /\ \E d \in Picks : m' = [at |-> "move", list |-> rest, task |-> t, device |-> d]
  /\ UNCHANGED <<store, told, resent, online, work, queue, p, r, k, budget>>

MoveMem ==
  /\ m.at = "move"
  /\ mem' = SetDevice(mem, m.task, m.device)
  /\ m' = [m EXCEPT !.at = "move_row"]
  /\ UNCHANGED <<row, total, told, resent, online, work, queue, p, r, k, budget>>

MoveRow ==
  /\ m.at = "move_row"
  /\ row' = SetDevice(row, m.task, m.device)
  /\ m' = [m EXCEPT !.at = "send", !.device = None]
  /\ UNCHANGED <<mem, total, told, resent, online, work, queue, p, r, k, budget>>

(* SendNotCompleteTaskToZRVDeviceForTimeOut: only what is still assigned,  *)
(* and only to a device that is still there (MonitorForgetsSend: never).   *)
MonitorForgetsSend ==
  /\ m.at = "send"
  /\ m' = IF m.list = {} THEN MIdle ELSE [MIdle EXCEPT !.at = "next", !.list = m.list]
  /\ UNCHANGED <<store, told, resent, online, work, queue, p, r, k, budget>>

MonitorSend ==
  /\ m.at = "send"
  /\ IF m.task \in InStatus(1) /\ mem[m.task].device \in online
       THEN \E gone \in BOOLEAN : Send(mem[m.task].device, {m.task}, gone)
       ELSE UNCHANGED <<online, work, faults>>
  /\ m' = IF m.list = {} THEN MIdle ELSE [MIdle EXCEPT !.at = "next", !.list = m.list]
  /\ UNCHANGED <<store, told, resent, queue, p, r, k, fetched, crashes>>

-----------------------------------------------------------------------------
(* TCP thread: registrations and results of the devices.                   *)

(* zrv_device_register_request_proc; a first registration (IsRefresh NO)   *)
(* goes on to resend the tasks assigned to the device.                     *)
Register(d) ==
  /\ k.at = "idle"
  /\ online' = online \cup {d}
  /\ \/ k' = [at |-> "resend", device |-> d]
     \/ d \notin online /\ UNCHANGED k
  /\ UNCHANGED <<store, told, resent, work, queue, p, r, m, budget>>

Resend ==
  /\ k.at = "resend"
  /\ IF AssignedTo(k.device) # {} /\ k.device \in online
       THEN \E gone \in BOOLEAN : Send(k.device, AssignedTo(k.device), gone)
       ELSE UNCHANGED <<online, work, faults>>
  /\ k' = KIdle
  /\ UNCHANGED <<store, told, resent, queue, p, r, m, fetched, crashes>>

(* zrv_device_compress_task_result_request_proc: any device may report any *)
(* task it has, the map is not asked who it was assigned to.               *)
Report(d, t, res) ==
  /\ k.at = "idle"
  /\ t \in work[d]
  /\ Len(queue) < MaxQueue
  /\ work' = [work EXCEPT ![d] = @ \ {t}]
  /\ queue' = Append(queue, [task |-> t, device |-> d, result |-> res])
  /\ UNCHANGED <<store, told, resent, online, p, r, m, k, budget>>

-----------------------------------------------------------------------------
(* Faults.                                                                 *)

(* The device unregisters, its registration expires, or the connection     *)
(* breaks while nothing is being sent.                                     *)
GoOffline(d) ==
  /\ d \in online
  /\ Fault
  /\ online' = online \ {d}
  /\ UNCHANGED <<store, told, resent, work, queue, threads, up, fetched, crashes>>

(* A device restarts and forgets its tasks, or the message with a result   *)
(* is lost: results are not acknowledged.                                  *)
DeviceForgets(d) ==
  /\ Fault
  /\ \E S \in SUBSET work[d] : S # {} /\ work' = [work EXCEPT ![d] = @ \ S]
  /\ UNCHANGED <<store, told, resent, online, queue, threads, up, fetched, crashes>>

(* The process dies: the tables survive, and so does what devices work on. *)
Crash ==
  /\ crashes < MaxCrashes
  /\ crashes' = crashes + 1
  /\ up' = "down"
  /\ mem' = [t \in Tasks |-> None]
  /\ online' = {} /\ queue' = <<>>
  /\ p' = PIdle /\ r' = RIdle /\ m' = MIdle /\ k' = KIdle
  /\ UNCHANGED <<row, total, told, resent, work, fetched, faults>>

(* DeleteCompressTaskFromDBForStart: finished rows are read into the map,  *)
(* archived from there, and removed from the map again (the first form     *)
(* archives nothing) ...                                                   *)
StartForget ==
  /\ up = "down"
  /\ up' = "archived"
  /\ UNCHANGED <<store, told, resent, online, work, queue, threads, budget>>

StartArchive ==
  /\ up = "down"
  /\ total' = [t \in Tasks |->
       IF Has(row, t) /\ row[t].status = 2
         THEN IF Has(total, t) THEN [row[t] EXCEPT !.device = total[t].device] ELSE row[t]
         ELSE total[t]]
  /\ up' = "archived"
  /\ UNCHANGED <<mem, row, told, resent, online, work, queue, threads, budget>>

(* ... and deleted; then set_db_data_to_compress_task_list loads the rest. *)
(* StartLoadPending forgets the assigned ones, StartLoadAll the deletion.  *)
StartLoadPending ==
  /\ up = "archived"
  /\ row' = [t \in Tasks |-> IF Has(row, t) /\ row[t].status = 2 THEN None ELSE row[t]]
  /\ mem' = [t \in Tasks |-> IF Has(row, t) /\ row[t].status = 0 THEN row[t] ELSE None]
  /\ up' = "up"
  /\ UNCHANGED <<total, told, resent, online, work, queue, threads, budget>>

StartLoadAll ==
  /\ up = "archived"
  /\ mem' = row
  /\ up' = "up"
  /\ UNCHANGED <<row, total, told, resent, online, work, queue, threads, budget>>

StartLoad ==
  /\ up = "archived"
  /\ row' = [t \in Tasks |-> IF Has(row, t) /\ row[t].status = 2 THEN None ELSE row[t]]
  /\ mem' = row'
  /\ up' = "up"
  /\ UNCHANGED <<total, told, resent, online, work, queue, threads, budget>>

-----------------------------------------------------------------------------
PlatformStep ==
  \/ FetchRow \/ BeginRound \/ EndRound \/ PackAssignRow \/ PackMarkMem
  \/ PackMarkRow \/ Flush
  \/ \E d \in Devices : CutSlice(d)
  \/ \E t \in Tasks : Pack(t)

ResultStep ==
  \/ TakeResult \/ ResultAssignRow \/ ResultMarkMem \/ ResultMarkRow
  \/ ResultDelete \/ ResultArchive \/ ResultRemove \/ ResultNotify

MonitorStep ==
  \/ MoveMem \/ MoveRow \/ MonitorSend
  \/ \E t \in Tasks : LookAt(t)

Running ==
  /\ up = "up"
  /\ \/ PlatformStep \/ ResultStep \/ MonitorStep \/ Resend
     \/ \E t \in Tasks : Fetch(t)
     \/ \E S \in SUBSET Tasks : Collect(S)
     \/ \E d \in Devices : Register(d)
     \/ \E d \in Devices, t \in Tasks, res \in {1, 2} : Report(d, t, res)
  /\ UNCHANGED up

Failing ==
  \/ \E d \in Devices : (up = "up" /\ GoOffline(d)) \/ DeviceForgets(d)
  \/ Crash

Next == Running \/ Failing \/ StartArchive \/ StartLoad

Spec == Init /\ [][Next]_vars

(* Fairness.  The scheduler runs every thread.  A task that stays assigned *)
(* has its counter raised by every scan, so one of the scans collects it.  *)
(* A device that is up tries to register until it is registered, and to    *)
(* report until the TCP thread has read the report.                        *)
Live ==
  /\ WF_vars(Running /\ PlatformStep)
  /\ WF_vars(Running /\ ResultStep)
  /\ WF_vars(Running /\ MonitorStep)
  /\ WF_vars(Running /\ Resend)
  /\ \A t \in Tasks :
       /\ SF_vars(Running /\ \E S \in SUBSET Tasks : t \in S /\ Collect(S))
       /\ \A d \in Devices : SF_vars(Running /\ \E res \in {1, 2} : Report(d, t, res))
  /\ \A d \in Devices : SF_vars(Running /\ d \notin online /\ Register(d))

FairSpec == Spec /\ Live

-----------------------------------------------------------------------------
(* Properties.                                                             *)

(* A task in status 1 has a device, in the map and in the table, whatever  *)
(* the threads and crashes do: the branch of the monitor for an assigned   *)
(* task without device is never needed, and a device that registers again  *)
(* finds every task it has to be resent.                                   *)
AssignedHasDevice ==
  \A t \in Tasks :
    /\ Has(mem, t) /\ mem[t].status = 1 => mem[t].device # NoDevice
    /\ Has(row, t) /\ row[t].status = 1 => row[t].device # NoDevice

(* What a device works on is marked as assigned before the packet leaves,  *)
(* so the next round does not hand it out a second time.                   *)
SentIsMarked ==
  \A d \in Devices : work[d] \cap InStatus(0) = {}

(* The same task is at two devices only after the monitor has timed it     *)
(* out, or after a crash, which forgets a device that is marked in memory  *)
(* only and to which a registration has sent the task already: neither     *)
(* rounds nor registrations duplicate work.                                *)
OneDeviceUnlessTimedOut ==
  crashes = 0 => \A d, e \in Devices : d # e => work[d] \cap work[e] \subseteq resent

(* The result thread between the deletion of a row and its archiving.      *)
BeingArchived(t) == r.at = "archive" /\ r.msg.task = t

(* A task that was accepted is never forgotten: it is in the assign table, *)
(* or in the total table, or on its way from the one to the other          *)
(* (comment "add to the total task table" of the deletion).                *)
Recorded ==
  \A t \in Tasks : fetched[t] > 0 => Has(row, t) \/ Has(total, t) \/ BeingArchived(t)

Quiet == up = "up" /\ p.at \in {"idle", "slices"} /\ r = RIdle /\ m.at # "move_row"

(* Whenever none of the threads is in the middle of an update, the map     *)
(* holds exactly the rows of the assign table, so that a crash at such a   *)
(* moment loses nothing.                                                   *)
MapAgreesWithTable == Quiet => mem = row

(* The total table holds finished tasks only.                              *)
TotalIsFinal == \A t \in Tasks : Has(total, t) => total[t].status = 2

(* The remote side is told of a task only after its success is in the      *)
(* total table.                                                            *)
ToldAfterArchive ==
  [][\A t \in told' \ told : Has(total, t) /\ total[t].result = 1]_vars

(* A crash loses a task only when it falls between the deletion of its row *)
(* and its archiving; whatever else happens, also a crash anywhere else or *)
(* during the recovery, what was recorded stays recorded.                  *)
Kept(t) == Has(row, t) \/ Has(total, t) \/ (BeingArchived(t) /\ Has(mem, t))
LostInDeletion ==
  [][\A t \in Tasks : Kept(t) /\ ~Kept(t)' => crashes' # crashes /\ BeingArchived(t)]_vars

(* After a restart no finished task is left in the assign table: what the  *)
(* crash found between result and deletion has been archived.              *)
NoFinishedLeft == Quiet => \A t \in Tasks : Has(row, t) => row[t].status # 2

(* The life of a task as TaskLifecycle promises it.                        *)
Stage(t) == IF Has(total, t) THEN "archived"
            ELSE IF Has(mem, t)
              THEN <<"waiting", "assigned", "finished">>[mem[t].status + 1]
              ELSE "absent"
Outcome(t) == IF Has(total, t) THEN total[t].result ELSE 0

Lifecycle == INSTANCE TaskLifecycle WITH
               stage   <- [t \in Tasks |-> Stage(t)],
               outcome <- [t \in Tasks |-> Outcome(t)]

(* Without crashes and repeated fetches, the threads together implement    *)
(* TaskLifecycle: no interleaving skips, repeats or reverts a stage.       *)
FollowsLifecycle == Lifecycle!Spec

(* Every accepted task is archived in the end, as long as the process does *)
(* not crash: lost packets and broken devices are made up for.             *)
EventuallyArchived == \A t \in Tasks : fetched[t] > 0 ~> Has(total, t)
=============================================================================
