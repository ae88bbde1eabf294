--------------------------- MODULE Dispatch_proofs ---------------------------
(***************************************************************************)
(* Dispatch for any tasks, devices, packet size and bounds: type           *)
(* correctness, that a task in status 1 has a device, and that without     *)
(* crashes an accepted task is never forgotten.                            *)
(***************************************************************************)
EXTENDS Dispatch, TLAPS

-----------------------------------------------------------------------------
(* Type correctness.                                                       *)

(* Setting the device, or status and result, of a task keeps a table.      *)
LEMMA SetDeviceType ==
  ASSUME NEW table \in Table, NEW t \in Tasks, NEW d \in Devices
  PROVE  SetDevice(table, t, d) \in Table
BY DEF SetDevice, Table, Record, Has

LEMMA SetResultType ==
  ASSUME NEW table \in Table, NEW t \in Tasks, NEW s \in 0 .. 2, NEW res \in 0 .. 2,
         s = 2 <=> res # 0
  PROVE  SetResult(table, t, s, res) \in Table
BY ZenonT(30) DEF SetResult, Table, Record, Has

LEMMA FreshType == Fresh \in Record
BY DEF Fresh, Record

LEMMA ArchivedType ==
  ASSUME StoreOK, NEW t \in Tasks, NEW res \in {1, 2}
  PROVE  Archived(t, 2, res) \in Table
<1>1. CASE Has(mem, t)
  <2>1. mem[t] \in Record
    BY <1>1 DEF StoreOK, Table, Has
  <2>2. CASE Has(total, t)
    <3>1. total[t] \in Record
      BY <2>2 DEF StoreOK, Table, Has
    <3>2. [mem[t] EXCEPT !.device = total[t].device] \in Record
      BY <2>1, <3>1 DEF Record
    <3> QED BY <1>1, <2>2, <3>2 DEF Archived, StoreOK, Table
  <2>3. CASE ~Has(total, t)
    BY <1>1, <2>1, <2>3 DEF Archived, StoreOK, Table
  <2> QED BY <2>2, <2>3
<1>2. CASE ~Has(mem, t)
  BY <1>2, SetResultType DEF Archived, StoreOK
<1> QED BY <1>1, <1>2

(* A send touches the device side and the fault budget only.               *)
LEMMA SendType ==
  ASSUME TypeOK, NEW d \in Devices, NEW S \in SUBSET Tasks, NEW gone \in BOOLEAN,
         Send(d, S, gone), UNCHANGED queue
  PROVE  DeviceSideOK' /\ faults' \in Nat
BY DEF TypeOK, DeviceSideOK, HistoryOK, Send, Fault

LEMMA IdleTypes ==
  /\ PIdle.at = "idle" /\ PIdle.task = None /\ PIdle.device = None
  /\ PIdle.devs = {} /\ PIdle.need = {} /\ PIdle.slice = {} /\ PIdle.packet = {}
  /\ RIdle.at = "idle" /\ MIdle.at = "idle" /\ KIdle.at = "idle"
  /\ p' = PIdle => PlatformOK'
  /\ r' = RIdle => ResultOK'
  /\ m' = MIdle => MonitorOK'
  /\ k' = KIdle => TcpOK'
BY DEF PIdle, RIdle, MIdle, KIdle, PlatformOK, ResultOK, MonitorOK, TcpOK

LEMMA TypeInit == Init => TypeOK
<1> SUFFICES ASSUME Init PROVE TypeOK
  OBVIOUS
<1>1. StoreOK
  BY DEF Init, StoreOK, Table
<1>2. DeviceSideOK
  BY DEF Init, DeviceSideOK
<1>3. PlatformOK /\ ResultOK /\ MonitorOK /\ TcpOK
  BY DEF Init, PlatformOK, ResultOK, MonitorOK, TcpOK, PIdle, RIdle, MIdle, KIdle
<1>4. HistoryOK
  BY DEF Init, HistoryOK
<1> QED BY <1>1, <1>2, <1>3, <1>4 DEF TypeOK

LEMMA PlatformStepType ==
  ASSUME TypeOK, PlatformStep \/ \E t \in Tasks : Fetch(t), UNCHANGED up
  PROVE  TypeOK'
<1> USE DEF TypeOK
<1>1. ASSUME NEW t \in Tasks, Fetch(t) PROVE TypeOK'
  <2>1. StoreOK'
    BY <1>1, FreshType DEF Fetch, StoreOK, Table
  <2>2. PlatformOK'
    BY <1>1 DEF Fetch, PlatformOK
  <2> QED BY ZenonT(30), <1>1, <2>1, <2>2
    DEF Fetch, DeviceSideOK, ResultOK, MonitorOK, TcpOK, HistoryOK, budget
<1>2. CASE FetchRow
  <2>1. p.task \in Tasks
    BY <1>2 DEF FetchRow, PlatformOK
  <2>2. row' \in Table
    BY <1>2, <2>1, FreshType DEF FetchRow, StoreOK, Table
  <2>3. StoreOK'
    BY <1>2, <2>2 DEF FetchRow, StoreOK
  <2>4. fetched' \in [Tasks -> Nat]
    BY <1>2, <2>1 DEF FetchRow, HistoryOK
  <2>5. PlatformOK'
    BY <1>2, IdleTypes DEF FetchRow
  <2> QED BY <1>2, <2>3, <2>4, <2>5
    DEF FetchRow, DeviceSideOK, ResultOK, MonitorOK, TcpOK, HistoryOK
<1>3. CASE BeginRound
  <2>1. PlatformOK'
    BY <1>3 DEF BeginRound, PlatformOK, PIdle, InStatus, DeviceSideOK
  <2> QED BY <1>3, <2>1
    DEF BeginRound, StoreOK, store, DeviceSideOK, ResultOK, MonitorOK, TcpOK, HistoryOK, budget
<1>4. CASE EndRound
  BY <1>4, IdleTypes
  DEF EndRound, StoreOK, store, DeviceSideOK, ResultOK, MonitorOK, TcpOK, HistoryOK, budget
<1>5. ASSUME NEW d \in Devices, CutSlice(d) PROVE TypeOK'
  <2>1. PlatformOK'
    <3>1. PICK S \in SUBSET p.need :
            p' = [p EXCEPT !.devs = @ \ {d}, !.need = @ \ S,
                           !.at = IF S # {} /\ d \in online THEN "pack" ELSE "slices",
                           !.device = IF S # {} /\ d \in online THEN d ELSE None,
                           !.slice = IF d \in online THEN S ELSE {}]
      BY <1>5 DEF CutSlice
    <3>2. S \subseteq Tasks
      BY DEF PlatformOK
    <3>3. CASE S # {} /\ d \in online
      BY <3>1, <3>2, <3>3 DEF PlatformOK
    <3>4. CASE ~(S # {} /\ d \in online)
      <4>1. S \subseteq Tasks /\ (IF d \in online THEN S ELSE {}) \subseteq Tasks
        BY <3>2
      <4> QED BY <3>1, <3>4, <4>1 DEF PlatformOK
    <3> QED BY <3>3, <3>4
  <2> QED BY <1>5, <2>1
    DEF CutSlice, StoreOK, store, DeviceSideOK, ResultOK, MonitorOK, TcpOK, HistoryOK, budget
<1>6. ASSUME NEW t \in Tasks, Pack(t) PROVE TypeOK'
  <2>1. p.device \in Devices
    BY <1>6 DEF Pack, PlatformOK
  <2>2. StoreOK'
    BY <1>6, <2>1, SetDeviceType DEF Pack, StoreOK
  <2>3. PlatformOK'
    BY <1>6 DEF Pack, PlatformOK
  <2> QED BY <1>6, <2>2, <2>3
    DEF Pack, DeviceSideOK, ResultOK, MonitorOK, TcpOK, HistoryOK, budget
<1>7. CASE PackAssignRow \/ PackMarkMem \/ PackMarkRow
  <2>1. p.device \in Devices /\ p.task \in Tasks
    BY <1>7 DEF PackAssignRow, PackMarkMem, PackMarkRow, PlatformOK
  <2>2. StoreOK'
    BY <1>7, <2>1, SetDeviceType, SetResultType
    DEF PackAssignRow, PackMarkMem, PackMarkRow, StoreOK
  <2>3. PlatformOK'
    BY <1>7 DEF PackAssignRow, PackMarkMem, PackMarkRow, PlatformOK
  <2> QED BY <1>7, <2>2, <2>3
    DEF PackAssignRow, PackMarkMem, PackMarkRow,
        DeviceSideOK, ResultOK, MonitorOK, TcpOK, HistoryOK, budget
<1>8. CASE Flush
  <2>1. p.device \in Devices /\ p.packet \in SUBSET Tasks
    BY <1>8 DEF Flush, PlatformOK
  <2>2. DeviceSideOK' /\ faults' \in Nat
    BY <1>8, <2>1, SendType DEF Flush
  <2>3. PlatformOK'
    <3>1. CASE p' = [p EXCEPT !.at = "slices", !.device = None, !.slice = {}, !.packet = {}]
      BY <3>1 DEF PlatformOK
    <3>2. CASE p' = [p EXCEPT !.at = "pack", !.packet = {}]
      BY <2>1, <3>2 DEF PlatformOK
    <3> QED BY <1>8, <3>1, <3>2 DEF Flush
  <2> QED BY <1>8, <2>2, <2>3
    DEF Flush, StoreOK, store, ResultOK, MonitorOK, TcpOK, HistoryOK
<1> QED
  BY <1>1, <1>2, <1>3, <1>4, <1>5, <1>6, <1>7, <1>8 DEF PlatformStep

LEMMA ResultStepType ==
  ASSUME TypeOK, ResultStep, UNCHANGED up
  PROVE  TypeOK'
<1> USE DEF TypeOK
<1>1. CASE TakeResult
  <2>1. Head(queue) \in Msg /\ Tail(queue) \in Seq(Msg)
    BY <1>1 DEF TakeResult, DeviceSideOK
  <2>2. Head(queue).task \in Tasks /\ Head(queue).device \in Devices
    BY <2>1 DEF Msg
  <2>3. StoreOK'
    BY <1>1, <2>2, SetDeviceType DEF TakeResult, StoreOK
  <2>4. DeviceSideOK' /\ ResultOK'
    BY <1>1, <2>1 DEF TakeResult, DeviceSideOK, ResultOK
  <2> QED BY <1>1, <2>3, <2>4
    DEF TakeResult, PlatformOK, MonitorOK, TcpOK, HistoryOK, budget
<1>2. ASSUME r.at # "idle"
      PROVE  r.msg.task \in Tasks /\ r.msg.device \in Devices /\ r.msg.result \in {1, 2}
  BY <1>2 DEF ResultOK, Msg
<1>3. CASE ResultAssignRow \/ ResultMarkMem \/ ResultMarkRow \/ ResultDelete
           \/ ResultArchive \/ ResultRemove
  <2>1. StoreOK'
    <3>1. CASE ResultAssignRow \/ ResultMarkMem \/ ResultMarkRow
      BY SMTT(30), <1>2, <3>1, SetDeviceType, SetResultType
      DEF ResultAssignRow, ResultMarkMem, ResultMarkRow, StoreOK
    <3>2. CASE ResultDelete \/ ResultRemove
      BY <1>2, <3>2 DEF ResultDelete, ResultRemove, StoreOK, Table
    <3>3. CASE ResultArchive
      BY <1>2, <3>3, ArchivedType DEF ResultArchive, StoreOK
    <3> QED BY <1>3, <3>1, <3>2, <3>3
  <2>2. ResultOK'
    BY <1>3, IdleTypes
    DEF ResultAssignRow, ResultMarkMem, ResultMarkRow, ResultDelete, ResultArchive,
        ResultRemove, ToR, ResultOK
  <2> QED BY <1>3, <2>1, <2>2
    DEF ResultAssignRow, ResultMarkMem, ResultMarkRow, ResultDelete, ResultArchive,
        ResultRemove, DeviceSideOK, PlatformOK, MonitorOK, TcpOK, HistoryOK, budget
<1>4. CASE ResultNotify
  BY <1>2, <1>4, IdleTypes
  DEF ResultNotify, StoreOK, store, DeviceSideOK, PlatformOK, MonitorOK, TcpOK, HistoryOK, budget
<1> QED
  BY <1>1, <1>3, <1>4 DEF ResultStep

LEMMA MonitorStepType ==
  ASSUME TypeOK, MonitorStep \/ \E S \in SUBSET Tasks : Collect(S), UNCHANGED up
  PROVE  TypeOK'
<1> USE DEF TypeOK
<1>1. ASSUME NEW S \in SUBSET Tasks, Collect(S) PROVE TypeOK'
  <2>1. MonitorOK'
    BY <1>1 DEF Collect, MonitorOK, MIdle
  <2>2. HistoryOK'
    <3>1. S \subseteq Tasks /\ resent \subseteq Tasks
      BY DEF HistoryOK
    <3>2. resent' \subseteq Tasks
      BY <1>1, <3>1 DEF Collect
    <3> QED BY <1>1, <3>2 DEF Collect, HistoryOK, budget
  <2> QED BY ZenonT(30), <1>1, <2>1, <2>2
    DEF Collect, StoreOK, store, DeviceSideOK, PlatformOK, ResultOK, TcpOK, budget
<1>2. ASSUME NEW t \in Tasks, LookAt(t) PROVE TypeOK'
  <2>1. MonitorOK'
    <3> DEFINE rest == m.list \ {t}
    <3>1. rest \subseteq Tasks /\ Picks \subseteq Devices
      BY DEF MonitorOK, Picks, DeviceSideOK
    <3>2. CASE m' = MIdle
      BY <3>2, IdleTypes
    <3>3. CASE m' = [MIdle EXCEPT !.at = "next", !.list = rest]
      <4>1. m' = [at |-> "next", list |-> rest, task |-> None, device |-> None]
        BY <3>3 DEF MIdle
      <4> QED BY <3>1, <4>1 DEF MonitorOK
    <3>4. CASE m' = [at |-> "send", list |-> rest, task |-> t, device |-> None]
      BY <3>1, <3>4 DEF MonitorOK
    <3>5. CASE \E d \in Picks :
                 m' = [at |-> "move", list |-> rest, task |-> t, device |-> d]
      <4>1. PICK d \in Picks :
                 m' = [at |-> "move", list |-> rest, task |-> t, device |-> d]
        BY <3>5
      <4>2. d \in Devices
        BY <3>1
      <4> QED BY <3>1, <4>1, <4>2 DEF MonitorOK
    <3> QED BY <1>2, <3>2, <3>3, <3>4, <3>5 DEF LookAt
  <2> QED BY <1>2, <2>1
    DEF LookAt, StoreOK, store, DeviceSideOK, PlatformOK, ResultOK, TcpOK, HistoryOK, budget
<1>3. CASE MoveMem \/ MoveRow
  <2>1. m.task \in Tasks /\ m.device \in Devices
    BY <1>3 DEF MoveMem, MoveRow, MonitorOK
  <2>2. StoreOK'
    BY <1>3, <2>1, SetDeviceType DEF MoveMem, MoveRow, StoreOK
  <2>3. MonitorOK'
    BY <1>3 DEF MoveMem, MoveRow, MonitorOK
  <2> QED BY <1>3, <2>2, <2>3
    DEF MoveMem, MoveRow, DeviceSideOK, PlatformOK, ResultOK, TcpOK, HistoryOK, budget
<1>4. CASE MonitorSend
  <2>1. m.task \in Tasks /\ UNCHANGED queue
    BY <1>4 DEF MonitorSend, MonitorOK
  <2>2. DeviceSideOK' /\ faults' \in Nat
    <3>1. CASE m.task \in InStatus(1) /\ mem[m.task].device \in online
      <4>1. mem[m.task].device \in Devices
        BY <3>1 DEF DeviceSideOK
      <4>2. PICK gone \in BOOLEAN : Send(mem[m.task].device, {m.task}, gone)
        BY <1>4, <3>1 DEF MonitorSend
      <4>3. {m.task} \in SUBSET Tasks
        BY <2>1
      <4> QED BY <2>1, <4>1, <4>2, <4>3, SendType
    <3>2. CASE ~(m.task \in InStatus(1) /\ mem[m.task].device \in online)
      BY <1>4, <3>2 DEF MonitorSend, DeviceSideOK, HistoryOK
    <3> QED BY <3>1, <3>2
  <2>3. MonitorOK'
    <3>1. CASE m.list = {}
      BY <1>4, <3>1, IdleTypes DEF MonitorSend
    <3>2. CASE m.list # {}
      <4>1. m' = [at |-> "next", list |-> m.list, task |-> None, device |-> None]
        BY <1>4, <3>2 DEF MonitorSend, MIdle
      <4> QED BY <4>1 DEF MonitorOK
    <3> QED BY <3>1, <3>2
  <2> QED BY <1>4, <2>2, <2>3
    DEF MonitorSend, StoreOK, store, PlatformOK, ResultOK, TcpOK, HistoryOK
<1> QED BY <1>1, <1>2, <1>3, <1>4 DEF MonitorStep

LEMMA TcpStepType ==
  ASSUME TypeOK, UNCHANGED up,
         \/ Resend
         \/ \E d \in Devices : Register(d)
         \/ \E d \in Devices, t \in Tasks, res \in {1, 2} : Report(d, t, res)
  PROVE  TypeOK'
<1> USE DEF TypeOK
<1>1. ASSUME NEW d \in Devices, Register(d) PROVE TypeOK'
  BY <1>1 DEF Register, StoreOK, store, DeviceSideOK, PlatformOK, ResultOK, MonitorOK,
              TcpOK, HistoryOK, budget
<1>2. CASE Resend
  <2>1. k.device \in Devices /\ AssignedTo(k.device) \in SUBSET Tasks
    BY <1>2 DEF Resend, TcpOK, AssignedTo, InStatus
  <2>2. DeviceSideOK' /\ faults' \in Nat
    <3>1. CASE AssignedTo(k.device) # {} /\ k.device \in online
      BY <1>2, <2>1, <3>1, SendType DEF Resend
    <3>2. CASE ~(AssignedTo(k.device) # {} /\ k.device \in online)
      BY <1>2, <3>2 DEF Resend, DeviceSideOK, HistoryOK
    <3> QED BY <3>1, <3>2
  <2> QED BY <1>2, <2>2, IdleTypes
    DEF Resend, StoreOK, store, PlatformOK, ResultOK, MonitorOK, HistoryOK
<1>3. ASSUME NEW d \in Devices, NEW t \in Tasks, NEW res \in {1, 2}, Report(d, t, res)
      PROVE  TypeOK'
  <2>1. [task |-> t, device |-> d, result |-> res] \in Msg
    BY DEF Msg
  <2>2. DeviceSideOK'
    BY <1>3, <2>1 DEF Report, DeviceSideOK
  <2> QED BY <1>3, <2>2
    DEF Report, StoreOK, store, PlatformOK, ResultOK, MonitorOK, TcpOK, HistoryOK, budget
<1> QED BY <1>1, <1>2, <1>3

(* Faults, crash and the two steps of a start.                             *)
LEMMA FailingType ==
  ASSUME TypeOK, Failing \/ StartArchive \/ StartLoad
  PROVE  TypeOK'
<1> USE DEF TypeOK
<1>1. ASSUME NEW d \in Devices, GoOffline(d) PROVE TypeOK'
  BY <1>1 DEF GoOffline, Fault, StoreOK, store, DeviceSideOK, PlatformOK, ResultOK,
              MonitorOK, TcpOK, threads, HistoryOK
<1>2. ASSUME NEW d \in Devices, DeviceForgets(d) PROVE TypeOK'
  <2>1. DeviceSideOK'
    BY <1>2 DEF DeviceForgets, DeviceSideOK
  <2> QED BY <1>2, <2>1
    DEF DeviceForgets, Fault, StoreOK, store, PlatformOK, ResultOK,
        MonitorOK, TcpOK, threads, HistoryOK
<1>3. CASE Crash
  <2>1. StoreOK'
    BY <1>3 DEF Crash, StoreOK, Table
  <2>2. DeviceSideOK'
    BY <1>3 DEF Crash, DeviceSideOK
  <2>3. HistoryOK'
    BY <1>3 DEF Crash, HistoryOK
  <2> QED BY <1>3, <2>1, <2>2, <2>3, IdleTypes DEF Crash
<1>4. CASE StartArchive
  <2>1. total' \in Table
    <3>1. \A t \in Tasks :
            Has(row, t) /\ Has(total, t)
              => [row[t] EXCEPT !.device = total[t].device] \in Record
      <4> SUFFICES ASSUME NEW t \in Tasks, Has(row, t), Has(total, t)
                   PROVE  [row[t] EXCEPT !.device = total[t].device] \in Record
        OBVIOUS
      <4>1. row[t] \in Record /\ total[t] \in Record
        BY DEF Has, StoreOK, Table
      <4> QED BY <4>1 DEF Record
    <3>2. \A t \in Tasks : Has(row, t) => row[t] \in Record
      BY DEF Has, StoreOK, Table
    <3>3. \A t \in Tasks : total[t] \in Record \cup {None}
      BY DEF StoreOK, Table
    <3> QED BY <1>4, <3>1, <3>2, <3>3 DEF StartArchive, Table
  <2>2. HistoryOK'
    BY <1>4 DEF StartArchive, HistoryOK, budget
  <2> QED BY <1>4, <2>1, <2>2
    DEF StartArchive, StoreOK, DeviceSideOK, PlatformOK, ResultOK, MonitorOK, TcpOK, threads
<1>5. CASE StartLoad
  <2>1. row' \in Table /\ mem' = row'
    BY <1>5 DEF StartLoad, StoreOK, Table
  <2>2. HistoryOK'
    BY <1>5 DEF StartLoad, HistoryOK, budget
  <2> QED BY <1>5, <2>1, <2>2
    DEF StartLoad, StoreOK, DeviceSideOK, PlatformOK, ResultOK, MonitorOK, TcpOK, threads
<1> QED BY <1>1, <1>2, <1>3, <1>4, <1>5 DEF Failing

LEMMA TypeNext == TypeOK /\ [Next]_vars => TypeOK'
<1> SUFFICES ASSUME TypeOK, [Next]_vars PROVE TypeOK'
  OBVIOUS
<1>1. CASE Running
  BY <1>1, PlatformStepType, ResultStepType, MonitorStepType, TcpStepType DEF Running
<1>2. CASE Failing \/ StartArchive \/ StartLoad
  BY <1>2, FailingType
<1>3. CASE UNCHANGED vars
  BY <1>3 DEF vars, store, threads, budget, TypeOK, StoreOK, DeviceSideOK, PlatformOK,
              ResultOK, MonitorOK, TcpOK, HistoryOK, InStatus, Has
<1> QED BY <1>1, <1>2, <1>3 DEF Next

(* Every reachable state has its type, whatever tasks, devices and bounds. *)
THEOREM TypeCorrect == Spec => []TypeOK
BY TypeInit, TypeNext, PTL DEF Spec

-----------------------------------------------------------------------------
(* An assigned task has a device.  The platform thread sets device and     *)
(* status in four separate steps, so the invariant speaks of the task it   *)
(* is marking; the other threads may change the device of that task        *)
(* between two of the steps, or remove it, but never take a device away.   *)

Devised(table) ==
  \A t \in Tasks : Has(table, t) /\ table[t].status = 1 => table[t].device # NoDevice

HasDeviceIn(table, t) == Has(table, t) => table[t].device # NoDevice

MarkedHasDevice ==
  /\ p.at \in {"assign_row", "mark_mem", "mark_row"} => HasDeviceIn(mem, p.task)
  /\ p.at \in {"mark_mem", "mark_row"} => HasDeviceIn(row, p.task)

DeviceInv ==
  /\ TypeOK
  /\ Devised(mem) /\ Devised(row)
  /\ MarkedHasDevice
  /\ up # "up" => p = PIdle

(* The helpers on one table.                                               *)
LEMMA SetDeviceDevised ==
  ASSUME NEW table \in Table, Devised(table), NEW t \in Tasks, NEW d \in Devices
  PROVE  /\ Devised(SetDevice(table, t, d))
         /\ HasDeviceIn(SetDevice(table, t, d), t)
         /\ \A u \in Tasks : HasDeviceIn(table, u) => HasDeviceIn(SetDevice(table, t, d), u)
<1>1. d # NoDevice
  BY NamesDiffer
<1>2. \A u \in Tasks : Has(table, u) => table[u] \in Record
  BY DEF Table, Has
<1> QED BY <1>1, <1>2 DEF SetDevice, Devised, HasDeviceIn, Has, Table, Record

LEMMA SetResultDevised ==
  ASSUME NEW table \in Table, Devised(table), NEW t \in Tasks, NEW s, NEW res,
         s # 1 \/ HasDeviceIn(table, t)
  PROVE  /\ Devised(SetResult(table, t, s, res))
         /\ \A u \in Tasks : HasDeviceIn(table, u) => HasDeviceIn(SetResult(table, t, s, res), u)
<1>1. \A u \in Tasks : Has(table, u) => table[u] \in Record
  BY DEF Table, Has
<1> QED BY <1>1 DEF SetResult, Devised, HasDeviceIn, Has, Table, Record

LEMMA ReplaceDevised ==
  ASSUME NEW table \in Table, Devised(table), NEW t \in Tasks, NEW v \in {None, Fresh}
  PROVE  Devised([table EXCEPT ![t] = v])
BY DEF Devised, Table, Has, Fresh

(* Removing a task from a table takes no device away.                      *)
LEMMA RemoveDevised ==
  ASSUME NEW table \in Table, NEW t \in Tasks, NEW u \in Tasks, HasDeviceIn(table, u)
  PROVE  HasDeviceIn([table EXCEPT ![t] = None], u)
BY DEF HasDeviceIn, Table, Has

LEMMA DeviceInit == Init => DeviceInv
<1> SUFFICES ASSUME Init PROVE DeviceInv
  OBVIOUS
<1>1. TypeOK
  BY TypeInit
<1>2. Devised(mem) /\ Devised(row)
  BY DEF Init, Devised, Has
<1>3. MarkedHasDevice /\ (up # "up" => p = PIdle)
  BY DEF Init, MarkedHasDevice, PIdle
<1> QED BY <1>1, <1>2, <1>3 DEF DeviceInv

LEMMA PlatformStepDevice ==
  ASSUME DeviceInv, PlatformStep \/ \E t \in Tasks : Fetch(t)
  PROVE  Devised(mem)' /\ Devised(row)' /\ MarkedHasDevice'
<1> USE DEF DeviceInv
<1>0. mem \in Table /\ row \in Table
  BY DEF TypeOK, StoreOK
<1>1. ASSUME NEW t \in Tasks, Fetch(t) PROVE Devised(mem)' /\ Devised(row)' /\ MarkedHasDevice'
  <2>1. p'.at = "row"
    BY <1>1 DEF Fetch, TypeOK, PlatformOK
  <2>2. Devised(mem')
    BY <1>0, <1>1, ReplaceDevised DEF Fetch
  <2> QED BY <1>1, <2>1, <2>2 DEF Fetch, Devised, MarkedHasDevice
<1>2. CASE FetchRow
  <2>1. p.task \in Tasks
    BY <1>2 DEF FetchRow, TypeOK, PlatformOK
  <2>2. row' = row \/ row' = [row EXCEPT ![p.task] = Fresh]
    BY <1>2 DEF FetchRow
  <2>3. Devised(row')
    BY <1>0, <2>1, <2>2, ReplaceDevised
  <2> QED BY <1>2, <2>3 DEF FetchRow, PIdle, Devised, MarkedHasDevice
<1>3. CASE BeginRound \/ EndRound \/ (\E d \in Devices : CutSlice(d)) \/ Flush
  <2>1. p'.at \in {"slices", "idle", "pack"}
    <3>1. CASE BeginRound
      <4> HIDE DEF DeviceInv
      <4> QED BY <3>1 DEF BeginRound, PIdle
    <3>4. CASE EndRound
      BY <3>4 DEF EndRound, PIdle
    <3>2. CASE \E d \in Devices : CutSlice(d)
      BY <3>2 DEF CutSlice, TypeOK, PlatformOK
    <3>3. CASE Flush
      BY <3>3 DEF Flush, TypeOK, PlatformOK
    <3> QED BY <1>3, <3>1, <3>2, <3>3, <3>4
  <2>2. UNCHANGED <<mem, row>>
    BY <1>3 DEF BeginRound, EndRound, CutSlice, Flush, store
  <2> QED BY <2>1, <2>2 DEF Devised, MarkedHasDevice, Has
<1>4. ASSUME NEW t \in Tasks, Pack(t) PROVE Devised(mem)' /\ Devised(row)' /\ MarkedHasDevice'
  <2>1. p.device \in Devices
    BY <1>4 DEF Pack, TypeOK, PlatformOK
  <2>2. p'.at = "assign_row" /\ p'.task = t
    BY <1>4 DEF Pack, TypeOK, PlatformOK
  <2>3. Devised(mem') /\ HasDeviceIn(mem', t)
    BY <1>0, <1>4, <2>1, SetDeviceDevised DEF Pack
  <2> QED BY <1>4, <2>2, <2>3 DEF Pack, Devised, MarkedHasDevice, HasDeviceIn, Has
<1>5. CASE PackAssignRow
  <2>1. p.device \in Devices /\ p.task \in Tasks
    BY <1>5 DEF PackAssignRow, TypeOK, PlatformOK
  <2>2. p'.at = "mark_mem" /\ p'.task = p.task
    BY <1>5 DEF PackAssignRow, TypeOK, PlatformOK
  <2>3. Devised(row') /\ HasDeviceIn(row', p.task)
    BY <1>0, <1>5, <2>1, SetDeviceDevised DEF PackAssignRow
  <2> QED BY <1>5, <2>2, <2>3 DEF PackAssignRow, Devised, MarkedHasDevice, HasDeviceIn, Has
<1>6. CASE PackMarkMem
  <2>1. p.task \in Tasks
    BY <1>6 DEF PackMarkMem, TypeOK, PlatformOK
  <2>2. p'.at = "mark_row" /\ p'.task = p.task
    BY <1>6 DEF PackMarkMem, TypeOK, PlatformOK
  <2>3. HasDeviceIn(mem, p.task) /\ HasDeviceIn(row, p.task)
    BY <1>6 DEF PackMarkMem, MarkedHasDevice
  <2>4. Devised(mem') /\ HasDeviceIn(mem', p.task)
    BY <1>0, <1>6, <2>1, <2>3, SetResultDevised DEF PackMarkMem
  <2> QED BY <1>6, <2>2, <2>3, <2>4 DEF PackMarkMem, Devised, MarkedHasDevice, HasDeviceIn, Has
<1>7. CASE PackMarkRow
  <2>1. p.task \in Tasks
    BY <1>7 DEF PackMarkRow, TypeOK, PlatformOK
  <2>2. p'.at \in {"flush", "pack"}
    BY <1>7 DEF PackMarkRow, TypeOK, PlatformOK
  <2>3. HasDeviceIn(row, p.task)
    BY <1>7 DEF PackMarkRow, MarkedHasDevice
  <2>4. Devised(row')
    BY <1>0, <1>7, <2>1, <2>3, SetResultDevised DEF PackMarkRow
  <2> QED BY <1>7, <2>2, <2>4 DEF PackMarkRow, Devised, MarkedHasDevice
<1> QED
  BY <1>1, <1>2, <1>3, <1>4, <1>5, <1>6, <1>7 DEF PlatformStep

(* The other threads keep the two tables devised, and what the platform    *)
(* thread is marking.                                                      *)
LEMMA OthersDevice ==
  ASSUME DeviceInv, ResultStep \/ MonitorStep
  PROVE  Devised(mem)' /\ Devised(row)' /\ MarkedHasDevice'
<1> USE DEF DeviceInv
<1>0. mem \in Table /\ row \in Table
  BY DEF TypeOK, StoreOK
<1>1. p.at \in {"assign_row", "mark_mem", "mark_row"} => p.task \in Tasks
  BY DEF TypeOK, PlatformOK
<1>2. UNCHANGED p
  BY DEF ResultStep, MonitorStep, TakeResult, ResultAssignRow, ResultMarkMem, ResultMarkRow,
         ResultDelete, ResultArchive, ResultRemove, ResultNotify, MoveMem, MoveRow,
         MonitorSend, LookAt
<1>3. SUFFICES /\ Devised(mem') /\ Devised(row')
               /\ \A u \in Tasks : HasDeviceIn(mem, u) => HasDeviceIn(mem', u)
               /\ \A u \in Tasks : HasDeviceIn(row, u) => HasDeviceIn(row', u)
  BY <1>1, <1>2 DEF Devised, MarkedHasDevice, HasDeviceIn, Has
<1>4. r.at # "idle" => r.msg.task \in Tasks /\ r.msg.device \in Devices
  BY DEF TypeOK, ResultOK, Msg
<1>5. CASE TakeResult
  <2>1. Head(queue) \in Msg
    BY <1>5 DEF TakeResult, TypeOK, DeviceSideOK
  <2>2. Head(queue).task \in Tasks /\ Head(queue).device \in Devices
    BY <2>1 DEF Msg
  <2> QED BY <1>0, <1>5, <2>2, SetDeviceDevised DEF TakeResult
<1>6. CASE ResultAssignRow
  BY <1>0, <1>4, <1>6, SetDeviceDevised DEF ResultAssignRow
<1>7. CASE ResultMarkMem \/ ResultMarkRow
  BY <1>0, <1>4, <1>7, SetResultDevised DEF ResultMarkMem, ResultMarkRow
<1>8. CASE ResultDelete
  <2>1. row' = [row EXCEPT ![r.msg.task] = None] /\ mem' = mem /\ r.msg.task \in Tasks
    BY <1>4, <1>8 DEF ResultDelete
  <2> QED BY <1>0, <2>1, ReplaceDevised, RemoveDevised
<1>12. CASE ResultRemove
  <2>1. mem' = [mem EXCEPT ![r.msg.task] = None] /\ row' = row /\ r.msg.task \in Tasks
    BY <1>4, <1>12 DEF ResultRemove
  <2> QED BY <1>0, <2>1, ReplaceDevised, RemoveDevised
<1>9. CASE ResultArchive \/ ResultNotify
  BY <1>9 DEF ResultArchive, ResultNotify, store
<1>10. CASE MoveMem \/ MoveRow
  <2>1. m.task \in Tasks /\ m.device \in Devices
    BY <1>10 DEF MoveMem, MoveRow, TypeOK, MonitorOK
  <2> QED BY <1>0, <1>10, <2>1, SetDeviceDevised DEF MoveMem, MoveRow
<1>11. CASE MonitorSend \/ \E t \in Tasks : LookAt(t)
  BY <1>11 DEF MonitorSend, LookAt, store
<1> QED
  BY <1>5, <1>6, <1>7, <1>8, <1>9, <1>10, <1>11, <1>12 DEF ResultStep, MonitorStep

LEMMA DeviceNext == DeviceInv /\ [Next]_vars => DeviceInv'
<1> SUFFICES ASSUME DeviceInv, [Next]_vars PROVE DeviceInv'
  OBVIOUS
<1>1. TypeOK'
  BY TypeNext DEF DeviceInv
<1>2. CASE Running
  <2>1. up' = "up"
    BY <1>2 DEF Running
  <2>2. CASE PlatformStep \/ \E t \in Tasks : Fetch(t)
    BY <1>1, <2>1, <2>2, PlatformStepDevice DEF DeviceInv
  <2>3. CASE ResultStep \/ MonitorStep
    BY <1>1, <2>1, <2>3, OthersDevice DEF DeviceInv
  <2>4. CASE \/ Resend
             \/ \E S \in SUBSET Tasks : Collect(S)
             \/ \E d \in Devices : Register(d)
             \/ \E d \in Devices, t \in Tasks, res \in {1, 2} : Report(d, t, res)
    <3>1. UNCHANGED <<mem, row, p>>
      BY <2>4 DEF Resend, Collect, Register, Report, store
    <3> QED BY <1>1, <2>1, <3>1 DEF DeviceInv, Devised, MarkedHasDevice, HasDeviceIn, Has
  <2> QED BY <1>2, <2>2, <2>3, <2>4 DEF Running
<1>3. CASE Failing
  <2>1. CASE Crash
    BY <1>1, <2>1 DEF Crash, DeviceInv, Devised, MarkedHasDevice, HasDeviceIn, Has, PIdle
  <2>2. CASE \E d \in Devices : GoOffline(d) \/ DeviceForgets(d)
    <3>1. UNCHANGED <<mem, row, p, up>>
      BY <2>2 DEF GoOffline, DeviceForgets, store, threads
    <3> QED BY <1>1, <3>1 DEF DeviceInv, Devised, MarkedHasDevice, HasDeviceIn, Has
  <2> QED BY <1>3, <2>1, <2>2 DEF Failing
<1>4. CASE StartArchive
  <2>1. UNCHANGED <<mem, row, p>> /\ up # "up"
    BY <1>4 DEF StartArchive, threads
  <2> QED BY <1>1, <2>1 DEF DeviceInv, Devised, MarkedHasDevice, HasDeviceIn, Has
<1>5. CASE StartLoad
  <2>1. p = PIdle /\ p' = p /\ up' = "up"
    BY <1>5 DEF StartLoad, DeviceInv, threads
  <2>2. Devised(row')
    BY <1>5 DEF StartLoad, DeviceInv, Devised, Has, TypeOK, StoreOK, Table
  <2>3. mem' = row'
    BY <1>5 DEF StartLoad
  <2> QED BY <1>1, <2>1, <2>2, <2>3 DEF DeviceInv, Devised, MarkedHasDevice, PIdle, Has
<1>6. CASE UNCHANGED vars
  BY <1>1, <1>6 DEF vars, store, threads, DeviceInv, Devised, MarkedHasDevice, HasDeviceIn, Has
<1> QED BY <1>2, <1>3, <1>4, <1>5, <1>6 DEF Next

(* A task in status 1 has a device, in the map and in the table, under any *)
(* interleaving of the threads and any number of crashes and restarts.     *)
THEOREM AssignedTaskHasDevice == Spec => []AssignedHasDevice
<1>1. DeviceInv => AssignedHasDevice
  BY DEF DeviceInv, Devised, AssignedHasDevice
<1> QED BY <1>1, DeviceInit, DeviceNext, PTL DEF Spec

-----------------------------------------------------------------------------
(* Without crashes an accepted task is never forgotten.  The point where   *)
(* it could be is the archiving: the row is deleted by then, and the       *)
(* record comes from the map, which may have lost the task to an earlier   *)
(* result.  So the invariant follows a task from the packet it is sent in, *)
(* through the device and the queue, to the result thread: on all of that  *)
(* way it is known to the map or already in the total table.               *)

Known == {t \in Tasks : Has(mem, t) \/ Has(total, t)}

UnderwayKnown ==
  /\ p.at = "row" => p.task \in Known
  /\ p.packet \subseteq Known
  /\ \A d \in Devices : work[d] \subseteq Known
  /\ \A i \in 1 .. Len(queue) : queue[i].task \in Known
  /\ r.at # "idle" => r.msg.task \in Known
  /\ r.at = "remove" => Has(total, r.msg.task)

RecordedInv ==
  /\ TypeOK
  /\ up = "up"
  /\ UnderwayKnown
  /\ Recorded

(* A step that has no crash in it.                                         *)
Calm == Running \/ \E d \in Devices : GoOffline(d) \/ DeviceForgets(d)

LEMMA RecordedInit == Init => RecordedInv
<1> SUFFICES ASSUME Init PROVE RecordedInv
  OBVIOUS
<1>1. TypeOK
  BY TypeInit
<1>2. UnderwayKnown
  BY DEF Init, UnderwayKnown, PIdle, RIdle
<1>3. up = "up" /\ Recorded
  BY DEF Init, Recorded
<1> QED BY <1>1, <1>2, <1>3 DEF RecordedInv

(* A step moves or sets what a table holds, but does not remove it, unless *)
(* it says so.                                                             *)
LEMMA SetKeeps ==
  ASSUME NEW table \in Table, NEW t \in Tasks, NEW u \in Tasks, Has(table, u)
  PROVE  /\ \A d \in Devices : Has(SetDevice(table, t, d), u)
         /\ \A s, res \in 0 .. 2 : (s = 2 <=> res # 0) => Has(SetResult(table, t, s, res), u)
<1>1. ASSUME NEW d \in Devices PROVE Has(SetDevice(table, t, d), u)
  <2>1. CASE u = t
    <3>1. SetDevice(table, t, d)[t] \in Record
      BY <2>1 DEF SetDevice, Table, Record, Has
    <3> QED BY <2>1, <3>1, NoneIsNoRecord DEF Has
  <2>2. CASE u # t
    BY <2>2 DEF SetDevice, Table, Has
  <2> QED BY <2>1, <2>2
<1>2. ASSUME NEW s \in 0 .. 2, NEW res \in 0 .. 2, s = 2 <=> res # 0
      PROVE  Has(SetResult(table, t, s, res), u)
  <2>1. CASE u = t
    <3>1. SetResult(table, t, s, res)[t] \in Record
      BY <1>2, <2>1 DEF SetResult, Table, Record, Has
    <3> QED BY <2>1, <3>1, NoneIsNoRecord DEF Has
  <2>2. CASE u # t
    BY <2>2 DEF SetResult, Table, Has
  <2> QED BY <2>1, <2>2
<1> QED BY <1>1, <1>2

LEMMA FreshKeeps ==
  ASSUME NEW table \in Table, NEW t \in Tasks, NEW u \in Tasks
  PROVE  /\ Has(table, u) => Has([table EXCEPT ![t] = Fresh], u)
         /\ Has([table EXCEPT ![t] = Fresh], t)
BY FreshType, NoneIsNoRecord DEF Table, Has

LEMMA ArchivedKeeps ==
  ASSUME StoreOK, NEW t \in Tasks, NEW res \in {1, 2}
  PROVE  /\ \A u \in Tasks : Has(total, u) => Has(Archived(t, 2, res), u)
         /\ t \in Known => Has(Archived(t, 2, res), t)
<1>1. Archived(t, 2, res) \in Table
  BY ArchivedType
<1>2. CASE Has(mem, t)
  <2>1. mem[t] \in Record
    BY <1>2 DEF StoreOK, Table, Has
  <2>2. Archived(t, 2, res)[t] \in Record
    <3>1. CASE Has(total, t)
      <4>1. total[t] \in Record
        BY <3>1 DEF StoreOK, Table, Has
      <4>2. [mem[t] EXCEPT !.device = total[t].device] \in Record
        BY <2>1, <4>1 DEF Record
      <4> QED BY <1>2, <3>1, <4>2 DEF Archived, StoreOK, Table
    <3>2. CASE ~Has(total, t)
      BY <1>2, <2>1, <3>2 DEF Archived, StoreOK, Table
    <3> QED BY <3>1, <3>2
  <2>3. \A u \in Tasks : u # t => Archived(t, 2, res)[u] = total[u]
    BY <1>2 DEF Archived, StoreOK, Table
  <2> QED BY <2>2, <2>3, NoneIsNoRecord DEF Has
<1>3. CASE ~Has(mem, t)
  <2>1. Archived(t, 2, res) = SetResult(total, t, 2, res)
    BY <1>3 DEF Archived
  <2>2. \A u \in Tasks : Has(total, u) => Has(SetResult(total, t, 2, res), u)
    BY SetKeeps DEF StoreOK
  <2>3. t \in Known => Has(total, t)
    BY <1>3 DEF Known
  <2> QED BY <2>1, <2>2, <2>3
<1> QED BY <1>2, <1>3

(* Nothing leaves the total table, and a task leaves the map only when it  *)
(* is in the total table.                                                  *)
LEMMA KnownGrows ==
  ASSUME RecordedInv, Calm
  PROVE  /\ Known \subseteq Known'
         /\ \A t \in Tasks : Has(total, t) => Has(total, t)'
<1> SUFFICES /\ \A t \in Tasks : Has(total, t) => Has(total', t)
             /\ \A t \in Tasks : Has(mem, t) => Has(mem', t) \/ Has(total, t)
  BY DEF Known, Has
<1> USE DEF RecordedInv
<1>0. StoreOK /\ mem \in Table /\ total \in Table
  BY DEF TypeOK, StoreOK
<1>1. r.at # "idle" => /\ r.msg.task \in Tasks /\ r.msg.device \in Devices
                       /\ r.msg.result \in {1, 2}
  BY DEF TypeOK, ResultOK, Msg
<1>2. ASSUME NEW t \in Tasks, Fetch(t)
      PROVE  total' = total /\ \A u \in Tasks : Has(mem, u) => Has(mem', u)
  BY <1>0, <1>2, FreshKeeps DEF Fetch
<1>3. CASE PlatformStep
  <2>1. total' = total
    BY <1>3 DEF PlatformStep, FetchRow, BeginRound, EndRound, CutSlice, Pack, PackAssignRow,
                PackMarkMem, PackMarkRow, Flush, store
  <2>2. CASE \E t \in Tasks : Pack(t)
    <3>1. PICK t \in Tasks : Pack(t)
      BY <2>2
    <3>2. p.device \in Devices
      BY <3>1 DEF Pack, TypeOK, PlatformOK
    <3> QED BY <1>0, <2>1, <3>1, <3>2, SetKeeps DEF Pack
  <2>3. CASE PackMarkMem
    <3>1. p.task \in Tasks
      BY <2>3 DEF PackMarkMem, TypeOK, PlatformOK
    <3>2. \A u \in Tasks : Has(mem, u) => Has(SetResult(mem, p.task, 1, 0), u)
      BY <1>0, <3>1, SetKeeps
    <3> QED BY <2>1, <2>3, <3>2 DEF PackMarkMem
  <2>4. CASE \/ FetchRow \/ BeginRound \/ EndRound \/ PackAssignRow \/ PackMarkRow \/ Flush
             \/ \E d \in Devices : CutSlice(d)
    <3>1. mem' = mem
      BY <2>4 DEF FetchRow, BeginRound, EndRound, CutSlice, PackAssignRow, PackMarkRow, Flush, store
    <3> QED BY <2>1, <3>1
  <2> QED BY <1>3, <2>2, <2>3, <2>4 DEF PlatformStep
<1>4. CASE TakeResult
  <2>1. Head(queue) \in Msg
    BY <1>4 DEF TakeResult, TypeOK, DeviceSideOK
  <2>2. Head(queue).task \in Tasks /\ Head(queue).device \in Devices
    BY <2>1 DEF Msg
  <2> QED BY <1>0, <1>4, <2>2, SetKeeps DEF TakeResult
<1>5. CASE ResultMarkMem
  <2>1. \A u \in Tasks : Has(mem, u) => Has(SetResult(mem, r.msg.task, 2, r.msg.result), u)
    BY <1>0, <1>1, <1>5, SetKeeps DEF ResultMarkMem
  <2> QED BY <1>5, <2>1 DEF ResultMarkMem
<1>6. CASE ResultArchive
  BY <1>0, <1>1, <1>6, ArchivedKeeps DEF ResultArchive
<1>7. CASE ResultRemove
  <2>1. Has(total, r.msg.task)
    BY <1>7 DEF ResultRemove, UnderwayKnown
  <2>2. \A u \in Tasks : u # r.msg.task => mem'[u] = mem[u]
    BY <1>0, <1>7 DEF ResultRemove, Table
  <2> QED BY <1>7, <2>1, <2>2 DEF ResultRemove, Has
<1>8. CASE MoveMem
  <2>1. m.task \in Tasks /\ m.device \in Devices
    BY <1>8 DEF MoveMem, TypeOK, MonitorOK
  <2> QED BY <1>0, <1>8, <2>1, SetKeeps DEF MoveMem
<1>9. CASE \/ ResultAssignRow \/ ResultMarkRow \/ ResultDelete \/ ResultNotify
           \/ MoveRow \/ MonitorSend \/ Resend
           \/ \E t \in Tasks : LookAt(t)
           \/ \E S \in SUBSET Tasks : Collect(S)
           \/ \E d \in Devices : Register(d) \/ GoOffline(d) \/ DeviceForgets(d)
           \/ \E d \in Devices, t \in Tasks, res \in {1, 2} : Report(d, t, res)
  <2>1. mem' = mem /\ total' = total
    BY <1>9 DEF ResultAssignRow, ResultMarkRow, ResultDelete, ResultNotify, MoveRow, MonitorSend,
                Resend, LookAt, Collect, Register, GoOffline, DeviceForgets, Report, store
  <2> QED BY <2>1
<1> QED
  BY <1>2, <1>3, <1>4, <1>5, <1>6, <1>7, <1>8, <1>9
  DEF Calm, Running, ResultStep, MonitorStep

(* A packet in flight, or not: what a device works on afterwards.          *)
LEMMA SendWork ==
  ASSUME TypeOK, NEW d \in Devices, NEW S \in SUBSET Tasks, NEW gone \in BOOLEAN, Send(d, S, gone)
  PROVE  \A e \in Devices : work'[e] \subseteq work[e] \cup S
BY DEF TypeOK, DeviceSideOK, Send

LEMMA UnderwayNext ==
  ASSUME RecordedInv, Calm
  PROVE  UnderwayKnown'
<1> USE DEF RecordedInv
<1>0. Known \subseteq Known' /\ \A t \in Tasks : Has(total, t) => Has(total', t)
  BY KnownGrows DEF Has
<1>1. InStatus(1) \subseteq Known /\ Known \subseteq Tasks
  BY DEF InStatus, Known
<1> DEFINE AtRow    == p'.at = "row" => p'.task \in Known'
           InPacket == p'.packet \subseteq Known'
           AtWork == \A d \in Devices : work'[d] \subseteq Known'
           InQueue  == \A i \in 1 .. Len(queue') : queue'[i].task \in Known'
           InResult == /\ r'.at # "idle" => r'.msg.task \in Known'
                       /\ r'.at = "remove" => Has(total', r'.msg.task)
<1>2. SUFFICES (AtRow /\ InPacket) /\ AtWork /\ (InQueue /\ InResult)
  BY DEF UnderwayKnown, Has
<1>3. p' = p => AtRow /\ InPacket
  BY <1>0 DEF UnderwayKnown
<1>4. work' = work => AtWork
  BY <1>0 DEF UnderwayKnown
<1>5. r.at = "remove" => r.msg.task \in Tasks
  BY DEF TypeOK, ResultOK, Msg
<1>6. queue' = queue /\ r' = r => InQueue /\ InResult
  BY <1>0, <1>5 DEF UnderwayKnown
<1> HIDE DEF AtRow, InPacket, AtWork, InQueue, InResult
<1>7. ASSUME NEW t \in Tasks, Fetch(t)
      PROVE  AtRow /\ InPacket /\ AtWork /\ InQueue /\ InResult
  <2>1. p'.task = t /\ p'.packet = p.packet
    BY <1>7 DEF Fetch, TypeOK, PlatformOK
  <2>2. Has(mem', t)
    BY <1>7, FreshKeeps DEF Fetch, TypeOK, StoreOK
  <2>3. t \in Known'
    BY <2>2 DEF Known, Has
  <2>4. AtRow /\ InPacket
    BY <1>0, <2>1, <2>3 DEF AtRow, InPacket, UnderwayKnown
  <2> QED BY <1>4, <1>6, <1>7, <2>4 DEF Fetch
<1>8. CASE FetchRow \/ EndRound
  <2>1. p' = PIdle /\ UNCHANGED <<work, queue, r>>
    BY <1>8 DEF FetchRow, EndRound
  <2>2. AtRow /\ InPacket
    BY <2>1, IdleTypes DEF AtRow, InPacket
  <2> QED BY <1>4, <1>6, <2>1, <2>2
<1>9. CASE BeginRound
  <2>1. p'.at = "slices" /\ p'.packet = {}
    <3> HIDE DEF RecordedInv
    <3> QED BY <1>9 DEF BeginRound, PIdle
  <2>2. AtRow /\ InPacket
    BY <2>1 DEF AtRow, InPacket
  <2> QED BY <1>4, <1>6, <1>9, <2>2 DEF BeginRound
<1>10. ASSUME NEW d \in Devices, CutSlice(d)
       PROVE  AtRow /\ InPacket /\ AtWork /\ InQueue /\ InResult
  <2>1. p'.at # "row" /\ p'.packet = p.packet
    BY <1>10 DEF CutSlice, TypeOK, PlatformOK
  <2>2. AtRow /\ InPacket
    BY <1>0, <2>1 DEF AtRow, InPacket, UnderwayKnown
  <2> QED BY <1>4, <1>6, <1>10, <2>2 DEF CutSlice
<1>11. ASSUME NEW t \in Tasks, Pack(t)
       PROVE  AtRow /\ InPacket /\ AtWork /\ InQueue /\ InResult
  <2>1. /\ p'.at # "row"
        /\ p'.packet = IF Has(mem, t) THEN p.packet \cup {t} ELSE p.packet
    BY <1>11 DEF Pack, TypeOK, PlatformOK
  <2>2. p'.packet \subseteq Known
    BY <2>1 DEF UnderwayKnown, Known
  <2>3. AtRow /\ InPacket
    BY <1>0, <2>1, <2>2 DEF AtRow, InPacket
  <2> QED BY <1>4, <1>6, <1>11, <2>3 DEF Pack
<1>12. CASE PackAssignRow \/ PackMarkMem \/ PackMarkRow
  <2>1. p'.at # "row" /\ p'.packet = p.packet
    BY <1>12 DEF PackAssignRow, PackMarkMem, PackMarkRow, TypeOK, PlatformOK
  <2>2. AtRow /\ InPacket
    BY <1>0, <2>1 DEF AtRow, InPacket, UnderwayKnown
  <2> QED BY <1>4, <1>6, <1>12, <2>2 DEF PackAssignRow, PackMarkMem, PackMarkRow
<1>13. CASE Flush
  <2>1. p'.at # "row" /\ p'.packet = {}
    BY <1>13 DEF Flush, TypeOK, PlatformOK
  <2>2. p.device \in Devices /\ p.packet \in SUBSET Tasks
    BY <1>13 DEF Flush, TypeOK, PlatformOK
  <2>3. \A e \in Devices : work'[e] \subseteq work[e] \cup p.packet
    <3>1. PICK gone \in BOOLEAN : Send(p.device, p.packet, gone)
      BY <1>13 DEF Flush
    <3> QED BY <2>2, <3>1, SendWork
  <2>4. AtWork
    BY <1>0, <2>3 DEF AtWork, UnderwayKnown
  <2>5. AtRow /\ InPacket
    BY <2>1 DEF AtRow, InPacket
  <2> QED BY <1>6, <1>13, <2>4, <2>5 DEF Flush
<1>14. CASE TakeResult
  <2>1. queue # <<>> /\ queue \in Seq(Msg)
    BY <1>14 DEF TakeResult, TypeOK, DeviceSideOK
  <2>2. Head(queue).task \in Known
    BY <2>1 DEF UnderwayKnown
  <2>3. InResult
    BY <1>0, <1>14, <2>2 DEF TakeResult, InResult
  <2>4. InQueue
    BY <1>0, <1>14, <2>1 DEF TakeResult, InQueue, UnderwayKnown
  <2> QED BY <1>3, <1>4, <1>14, <2>3, <2>4 DEF TakeResult
<1>15. CASE ResultAssignRow \/ ResultMarkMem \/ ResultMarkRow \/ ResultDelete
            \/ ResultArchive \/ ResultRemove \/ ResultNotify
  <2>1. r.msg.task \in Known /\ r.msg.task \in Tasks /\ r.msg.result \in {1, 2}
    BY <1>1, <1>15 DEF ResultAssignRow, ResultMarkMem, ResultMarkRow, ResultDelete, ResultArchive,
                 ResultRemove, ResultNotify, UnderwayKnown, TypeOK, ResultOK, Msg
  <2>2. r' = RIdle \/ r'.msg = r.msg
    BY <1>15 DEF ResultAssignRow, ResultMarkMem, ResultMarkRow, ResultDelete, ResultArchive,
                 ResultRemove, ResultNotify, ToR, TypeOK, ResultOK
  <2>3. r'.at = "remove" => Has(total', r.msg.task)
    <3>1. CASE ResultArchive
      <4>1. Has(Archived(r.msg.task, 2, r.msg.result), r.msg.task)
        BY <2>1, ArchivedKeeps DEF TypeOK
      <4> QED BY <3>1, <4>1 DEF ResultArchive
    <3>2. CASE ResultRemove \/ ResultNotify
      BY <3>2, IdleTypes DEF ResultRemove, ResultNotify, ToR, TypeOK, ResultOK
    <3>3. CASE ResultAssignRow \/ ResultMarkMem \/ ResultMarkRow \/ ResultDelete
      BY <3>3 DEF ResultAssignRow, ResultMarkMem, ResultMarkRow, ResultDelete, ToR, TypeOK, ResultOK
    <3> QED BY <1>15, <3>1, <3>2, <3>3
  <2>4. InResult
    <3>1. CASE r' = RIdle
      BY <3>1, IdleTypes DEF InResult
    <3>2. CASE r'.msg = r.msg
      BY <1>0, <2>1, <2>3, <3>2 DEF InResult
    <3> QED BY <2>2, <3>1, <3>2
  <2>5. UNCHANGED <<p, work, queue>>
    BY <1>15 DEF ResultAssignRow, ResultMarkMem, ResultMarkRow, ResultDelete, ResultArchive,
                 ResultRemove, ResultNotify
  <2>6. InQueue
    BY <1>0, <2>5 DEF InQueue, UnderwayKnown
  <2> QED BY <1>3, <1>4, <2>4, <2>5, <2>6
<1>16. CASE \/ MoveMem \/ MoveRow
            \/ \E t \in Tasks : LookAt(t)
            \/ \E S \in SUBSET Tasks : Collect(S)
            \/ \E d \in Devices : Register(d) \/ GoOffline(d)
  <2>1. UNCHANGED <<p, work, queue, r>>
    BY <1>16 DEF MoveMem, MoveRow, LookAt, Collect, Register, GoOffline, threads
  <2> QED BY <1>3, <1>4, <1>6, <2>1
<1>17. CASE MonitorSend \/ Resend
  <2>1. \A e \in Devices : work'[e] \subseteq work[e] \cup InStatus(1)
    <3>1. CASE UNCHANGED work
      BY <3>1
    <3>2. CASE MonitorSend /\ m.task \in InStatus(1) /\ mem[m.task].device \in online
      <4>1. PICK gone \in BOOLEAN : Send(mem[m.task].device, {m.task}, gone)
        BY <3>2 DEF MonitorSend
      <4>2. mem[m.task].device \in Devices /\ {m.task} \in SUBSET Tasks
        BY <3>2 DEF TypeOK, DeviceSideOK, InStatus
      <4> QED BY <3>2, <4>1, <4>2, SendWork
    <3>3. CASE Resend /\ AssignedTo(k.device) # {} /\ k.device \in online
      <4>1. PICK gone \in BOOLEAN : Send(k.device, AssignedTo(k.device), gone)
        BY <3>3 DEF Resend
      <4>2. k.device \in Devices /\ AssignedTo(k.device) \subseteq InStatus(1)
        BY <3>3 DEF TypeOK, DeviceSideOK, AssignedTo
      <4>3. AssignedTo(k.device) \in SUBSET Tasks
        BY <4>2 DEF InStatus
      <4>4. \A e \in Devices : work'[e] \subseteq work[e] \cup AssignedTo(k.device)
        BY <4>1, <4>2, <4>3, SendWork
      <4> QED BY <4>2, <4>4
    <3> QED BY <1>17, <3>1, <3>2, <3>3 DEF MonitorSend, Resend
  <2>2. AtWork
    BY <1>0, <1>1, <2>1 DEF AtWork, UnderwayKnown
  <2> QED BY <1>3, <1>6, <1>17, <2>2 DEF MonitorSend, Resend
<1>18. ASSUME NEW d \in Devices, NEW t \in Tasks, NEW res \in {1, 2}, Report(d, t, res)
       PROVE  AtRow /\ InPacket /\ AtWork /\ InQueue /\ InResult
  <2>1. t \in Known /\ work \in [Devices -> SUBSET Tasks] /\ queue \in Seq(Msg)
    BY <1>18 DEF Report, UnderwayKnown, TypeOK, DeviceSideOK
  <2>2. \A e \in Devices : work'[e] \subseteq work[e]
    BY <1>18, <2>1 DEF Report
  <2>3. AtWork
    BY <1>0, <2>2 DEF AtWork, UnderwayKnown
  <2>4. [task |-> t, device |-> d, result |-> res] \in Msg
    BY DEF Msg
  <2>5. InQueue
    BY <1>0, <1>18, <2>1, <2>4 DEF Report, InQueue, UnderwayKnown
  <2>6. InResult
    BY <1>0, <1>5, <1>18 DEF Report, InResult, UnderwayKnown
  <2> QED BY <1>3, <1>18, <2>3, <2>5, <2>6 DEF Report
<1>19. ASSUME NEW d \in Devices, DeviceForgets(d)
       PROVE  AtRow /\ InPacket /\ AtWork /\ InQueue /\ InResult
  <2>1. \A e \in Devices : work'[e] \subseteq work[e]
    BY <1>19 DEF DeviceForgets, TypeOK, DeviceSideOK
  <2>2. AtWork
    BY <1>0, <2>1 DEF AtWork, UnderwayKnown
  <2> QED BY <1>3, <1>6, <1>19, <2>2 DEF DeviceForgets, threads
<1> QED
  BY <1>7, <1>8, <1>9, <1>10, <1>11, <1>12, <1>13, <1>14, <1>15, <1>16, <1>17, <1>18, <1>19
  DEF Calm, Running, PlatformStep, ResultStep, MonitorStep

(* Only the result thread deletes a row, and what it deletes it archives.  *)
LEMMA RecordedNext ==
  ASSUME RecordedInv, Calm
  PROVE  Recorded'
<1> USE DEF RecordedInv
<1>0. \A t \in Tasks : Has(total, t) => Has(total', t)
  BY KnownGrows DEF Has
<1>1. r.at # "idle" => /\ r.msg.task \in Known
                       /\ r.msg.task \in Tasks
                       /\ r.msg.device \in Devices
                       /\ r.msg.result \in {1, 2}
  BY DEF TypeOK, ResultOK, Msg, UnderwayKnown
<1>2. StoreOK /\ row \in Table
  BY DEF TypeOK, StoreOK
<1>3. SUFFICES ASSUME NEW t \in Tasks, fetched'[t] > 0
               PROVE  Has(row', t) \/ Has(total', t) \/ (r'.at = "archive" /\ r'.msg.task = t)
  BY DEF Recorded, BeingArchived, Has
<1> DEFINE Goal == Has(row', t) \/ Has(total', t) \/ (r'.at = "archive" /\ r'.msg.task = t)
<1>4. fetched[t] > 0 => Has(row, t) \/ Has(total, t) \/ (r.at = "archive" /\ r.msg.task = t)
  BY DEF Recorded, BeingArchived
<1>5. ASSUME fetched' = fetched, Has(row, t) => Has(row', t), r.at # "archive" \/ r' = r
      PROVE  Goal
  BY <1>0, <1>3, <1>4, <1>5
<1>6. CASE FetchRow
  <2>1. p.task \in Tasks /\ p.task \in Known
    BY <1>6 DEF FetchRow, TypeOK, PlatformOK, UnderwayKnown
  <2>2. row' = row \/ row' = [row EXCEPT ![p.task] = Fresh]
    BY <1>6 DEF FetchRow
  <2>3. Has(row, t) => Has(row', t)
    BY <1>2, <2>1, <2>2, FreshKeeps
  <2>4. CASE t = p.task
    <3>1. CASE Has(mem, t)
      <4>1. Has(row', t)
        BY <1>2, <1>6, <2>3, <2>4, <3>1, FreshKeeps DEF FetchRow
      <4> QED BY <4>1
    <3>2. CASE ~Has(mem, t)
      BY <1>0, <2>1, <2>4, <3>2 DEF Known
    <3> QED BY <3>1, <3>2
  <2>5. CASE t # p.task
    <3>1. fetched[t] > 0
      BY <1>3, <1>6, <2>5 DEF FetchRow, TypeOK, HistoryOK
    <3> QED BY <1>0, <1>4, <1>6, <2>3, <3>1 DEF FetchRow
  <2> QED BY <2>4, <2>5
<1>7. CASE PackAssignRow \/ PackMarkRow
  <2>1. p.task \in Tasks /\ (PackAssignRow => p.device \in Devices)
    BY <1>7 DEF PackAssignRow, PackMarkRow, TypeOK, PlatformOK
  <2>2. Has(row, t) => Has(row', t)
    <3>1. CASE PackAssignRow
      BY <1>2, <2>1, <3>1, SetKeeps DEF PackAssignRow
    <3>2. CASE PackMarkRow
      <4>1. Has(row, t) => Has(SetResult(row, p.task, 1, 0), t)
        BY <1>2, <2>1, SetKeeps
      <4> QED BY <3>2, <4>1 DEF PackMarkRow
    <3> QED BY <1>7, <3>1, <3>2
  <2> QED BY <1>5, <1>7, <2>2 DEF PackAssignRow, PackMarkRow, budget
<1>8. CASE ResultAssignRow \/ ResultMarkRow
  <2>1. Has(row, t) => Has(row', t)
    <3>1. CASE ResultAssignRow
      BY <1>1, <1>2, <3>1, SetKeeps DEF ResultAssignRow
    <3>2. CASE ResultMarkRow
      <4>1. Has(row, t) => Has(SetResult(row, r.msg.task, 2, r.msg.result), t)
        BY <1>1, <1>2, <3>2, SetKeeps DEF ResultMarkRow
      <4> QED BY <3>2, <4>1 DEF ResultMarkRow
    <3> QED BY <1>8, <3>1, <3>2
  <2> QED BY <1>5, <1>8, <2>1 DEF ResultAssignRow, ResultMarkRow, budget
<1>9. CASE MoveRow
  <2>1. m.task \in Tasks /\ m.device \in Devices
    BY <1>9 DEF MoveRow, TypeOK, MonitorOK
  <2>2. Has(row, t) => Has(row', t)
    BY <1>2, <1>9, <2>1, SetKeeps DEF MoveRow
  <2> QED BY <1>5, <1>9, <2>2 DEF MoveRow, budget
<1>10. CASE ResultDelete
  <2>1. CASE t = r.msg.task
    <3>1. r'.at = "archive" /\ r'.msg = r.msg
      BY <1>10 DEF ResultDelete, ToR, TypeOK, ResultOK
    <3> QED BY <2>1, <3>1
  <2>2. CASE t # r.msg.task
    <3>1. row'[t] = row[t]
      BY <1>2, <1>10, <2>2 DEF ResultDelete, Table
    <3> QED BY <1>5, <1>10, <3>1 DEF ResultDelete, budget, Has
  <2> QED BY <2>1, <2>2
<1>11. CASE ResultArchive
  <2>1. Has(total', r.msg.task)
    BY <1>1, <1>2, <1>11, ArchivedKeeps DEF ResultArchive
  <2>2. fetched' = fetched /\ row' = row
    BY <1>11 DEF ResultArchive, budget
  <2> QED BY <1>0, <1>3, <1>4, <2>1, <2>2
<1>12. CASE TakeResult \/ ResultMarkMem \/ ResultRemove \/ ResultNotify
  BY <1>5, <1>12 DEF TakeResult, ResultMarkMem, ResultRemove, ResultNotify, store, budget
<1>13. CASE \/ BeginRound \/ EndRound \/ PackMarkMem \/ Flush
            \/ \E d \in Devices : CutSlice(d)
            \/ \E u \in Tasks : Pack(u) \/ Fetch(u)
  BY <1>5, <1>13 DEF BeginRound, EndRound, PackMarkMem, Flush, CutSlice, Pack, Fetch, store, budget
<1>14. CASE \/ MoveMem \/ MonitorSend \/ Resend
            \/ \E u \in Tasks : LookAt(u)
            \/ \E S \in SUBSET Tasks : Collect(S)
  BY <1>5, <1>14 DEF MoveMem, MonitorSend, Resend, LookAt, Collect, store, budget
<1>15. CASE \/ \E d \in Devices : Register(d) \/ GoOffline(d) \/ DeviceForgets(d)
            \/ \E d \in Devices, u \in Tasks, res \in {1, 2} : Report(d, u, res)
  BY <1>5, <1>15 DEF Register, Report, GoOffline, DeviceForgets, store, threads, budget
<1> QED
  BY <1>6, <1>7, <1>8, <1>9, <1>10, <1>11, <1>12, <1>13, <1>14, <1>15
  DEF Calm, Running, PlatformStep, ResultStep, MonitorStep

LEMMA RecordedInvNext ==
  ASSUME MaxCrashes = 0
  PROVE  RecordedInv /\ [Next]_vars => RecordedInv'
<1> SUFFICES ASSUME RecordedInv, [Next]_vars PROVE RecordedInv'
  OBVIOUS
<1>1. TypeOK'
  BY TypeNext DEF RecordedInv
<1>2. ~Crash
  BY DEF Crash, RecordedInv, TypeOK, HistoryOK
<1>3. CASE Calm
  <2>1. up' = "up"
    BY <1>3 DEF Calm, Running, GoOffline, DeviceForgets, RecordedInv
  <2> QED BY <1>1, <1>3, <2>1, UnderwayNext, RecordedNext DEF RecordedInv
<1>4. CASE UNCHANGED vars
  <2>1. UnderwayKnown' /\ Recorded'
    BY <1>4 DEF vars, store, threads, budget, RecordedInv, UnderwayKnown, Known, Recorded,
                BeingArchived, Has
  <2>2. up' = "up"
    BY <1>4 DEF vars, RecordedInv
  <2> QED BY <1>1, <2>1, <2>2 DEF RecordedInv
<1>5. ~StartArchive /\ ~StartLoad
  BY DEF StartArchive, StartLoad, RecordedInv
<1> QED BY <1>2, <1>3, <1>4, <1>5 DEF Next, Failing, Calm

(* As long as the CMS does not crash, a task it has accepted is in the     *)
(* assign table, or in the total table, or on its way from the one to the  *)
(* other, whatever devices and connections do.                             *)
THEOREM NothingForgotten ==
  ASSUME MaxCrashes = 0
  PROVE  Spec => []Recorded
<1>1. RecordedInv => Recorded
  BY DEF RecordedInv
<1> QED BY <1>1, RecordedInit, RecordedInvNext, PTL DEF Spec

-----------------------------------------------------------------------------
(* No finished task is left in the assign table.                           *)

(* Only the task that the result thread is about to delete has a finished  *)
(* row; what a crash leaves behind is gone before the CMS is up.           *)
FinishedRow(t) == Has(row, t) /\ row[t].status = 2
FinishedInv ==
  /\ TypeOK
  /\ up = "up" => \A t \in Tasks : FinishedRow(t) => r.at = "delete" /\ r.msg.task = t

LEMMA FinishedSame ==
  ASSUME FinishedInv, up = "up", UNCHANGED r,
         \A t \in Tasks : FinishedRow(t)' => FinishedRow(t)
  PROVE  \A t \in Tasks : FinishedRow(t)' => r'.at = "delete" /\ r'.msg.task = t
BY DEF FinishedInv

(* A write that does not finish a task.                                    *)
LEMMA NotFinishing ==
  ASSUME NEW table \in Table, NEW u \in Tasks
  PROVE  /\ \A d \in Devices, t \in Tasks : Has(SetDevice(table, u, d), t) =>
              Has(table, t) /\ SetDevice(table, u, d)[t].status = table[t].status
         /\ \A t \in Tasks : Has(SetResult(table, u, 1, 0), t) => Has(table, t) /\
              (SetResult(table, u, 1, 0)[t].status = 2 => table[t].status = 2)
<1>1. CASE ~Has(table, u)
  BY <1>1 DEF SetDevice, SetResult
<1>2. CASE Has(table, u)
  <2>1. table[u] \in Record
    BY <1>2 DEF Has, Table
  <2>2. ASSUME NEW d \in Devices, NEW t \in Tasks, Has(SetDevice(table, u, d), t)
        PROVE  Has(table, t) /\ SetDevice(table, u, d)[t].status = table[t].status
    BY <1>2, <2>1, <2>2 DEF SetDevice, Table, Record, Has
  <2>3. ASSUME NEW t \in Tasks, Has(SetResult(table, u, 1, 0), t)
        PROVE  Has(table, t) /\ (SetResult(table, u, 1, 0)[t].status = 2 => table[t].status = 2)
    <3>1. SetResult(table, u, 1, 0) = [table EXCEPT ![u] = [table[u] EXCEPT !.status = 1, !.result = 0]]
      BY <1>2 DEF SetResult
    <3>2. CASE t = u
      <4>1. SetResult(table, u, 1, 0)[u] = [table[u] EXCEPT !.status = 1, !.result = 0]
        BY <3>1 DEF Table
      <4>2. SetResult(table, u, 1, 0)[u].status = 1
        BY <2>1, <4>1 DEF Record
      <4> QED BY <1>2, <3>2, <4>2
    <3>3. CASE t # u
      BY <2>3, <3>1, <3>3 DEF Table, Has
    <3> QED BY <3>2, <3>3
  <2> QED BY <2>2, <2>3
<1> QED BY <1>1, <1>2

LEMMA FinishedNext == FinishedInv /\ [Next]_vars => FinishedInv'
<1> SUFFICES ASSUME FinishedInv, [Next]_vars PROVE FinishedInv'
  OBVIOUS
<1> DEFINE Goal == \A t \in Tasks : FinishedRow(t)' => r'.at = "delete" /\ r'.msg.task = t
<1>1. TypeOK' /\ TypeOK /\ row \in Table
  BY TypeNext DEF FinishedInv, TypeOK, StoreOK
<1>2. SUFFICES ASSUME up' = "up" PROVE Goal
  BY <1>1 DEF FinishedInv
<1>3. CASE StartLoad
  BY <1>3 DEF StartLoad, FinishedRow, Has
<1>4. ASSUME up = "up", UNCHANGED <<row, r>> PROVE Goal
  BY <1>4, FinishedSame DEF FinishedRow, Has
<1>5. CASE up = "up" /\ PlatformStep
  <2>1. UNCHANGED r
    BY <1>5 DEF PlatformStep, FetchRow, BeginRound, EndRound, CutSlice, Pack, PackAssignRow,
                PackMarkMem, PackMarkRow, Flush
  <2>2. CASE FetchRow
    <3>1. p.task \in Tasks /\ (row' = row \/ row' = [row EXCEPT ![p.task] = Fresh])
      BY <1>1, <2>2 DEF FetchRow, TypeOK, PlatformOK
    <3>2. \A t \in Tasks : FinishedRow(t)' => FinishedRow(t)
      BY <1>1, <3>1 DEF FinishedRow, Has, Table, Fresh
    <3> QED BY <1>5, <2>1, <3>2, FinishedSame
  <2>3. CASE PackAssignRow \/ PackMarkRow
    <3>1. p.task \in Tasks /\ p.device \in Devices
      BY <1>1, <2>3 DEF PackAssignRow, PackMarkRow, TypeOK, PlatformOK
    <3>2. \A t \in Tasks : FinishedRow(t)' => FinishedRow(t)
      BY <1>1, <2>3, <3>1, NotFinishing DEF PackAssignRow, PackMarkRow, FinishedRow, Has
    <3> QED BY <1>5, <2>1, <3>2, FinishedSame
  <2>4. CASE ~(FetchRow \/ PackAssignRow \/ PackMarkRow)
    <3>1. UNCHANGED row
      BY <1>5, <2>4 DEF PlatformStep, BeginRound, EndRound, CutSlice, Pack, PackMarkMem, Flush, store
    <3> QED BY <1>4, <1>5, <2>1, <3>1
  <2> QED BY <2>2, <2>3, <2>4
<1>6. CASE up = "up" /\ ResultStep
  <2>1. r.at # "idle" => r.msg.task \in Tasks /\ r.msg.device \in Devices
    BY <1>1 DEF TypeOK, ResultOK, Msg
  <2>2. \A t \in Tasks : FinishedRow(t) => r.at = "delete" /\ r.msg.task = t
    BY <1>6 DEF FinishedInv
  <2>3. CASE ResultDelete
    BY <1>1, <2>2, <2>3 DEF ResultDelete, FinishedRow, Has, Table
  <2>4. CASE ResultMarkRow
    <3>1. r'.at = "delete" /\ r'.msg = r.msg
      BY <1>1, <2>4 DEF ResultMarkRow, ToR, TypeOK, ResultOK
    <3>2. \A t \in Tasks : t # r.msg.task => row'[t] = row[t]
      BY <1>1, <2>1, <2>4 DEF ResultMarkRow, SetResult, Table
    <3> QED BY <2>2, <2>4, <3>1, <3>2 DEF ResultMarkRow, FinishedRow, Has
  <2>5. CASE ResultAssignRow
    BY <1>1, <2>1, <2>2, <2>5, NotFinishing DEF ResultAssignRow, FinishedRow, Has
  <2>6. CASE TakeResult \/ ResultMarkMem \/ ResultArchive \/ ResultRemove \/ ResultNotify
    <3>1. UNCHANGED row /\ r.at # "delete"
      BY <2>6 DEF TakeResult, ResultMarkMem, ResultArchive, ResultRemove, ResultNotify, store
    <3> QED BY <2>2, <3>1 DEF FinishedRow, Has
  <2> QED BY <1>6, <2>3, <2>4, <2>5, <2>6 DEF ResultStep
<1>7. CASE up = "up" /\ MoveRow
  <2>1. UNCHANGED r /\ m.task \in Tasks /\ m.device \in Devices
    BY <1>1, <1>7 DEF MoveRow, TypeOK, MonitorOK
  <2>2. \A t \in Tasks : FinishedRow(t)' => FinishedRow(t)
    BY <1>1, <1>7, <2>1, NotFinishing DEF MoveRow, FinishedRow, Has
  <2> QED BY <1>7, <2>1, <2>2, FinishedSame
<1>8. CASE UNCHANGED vars
  BY <1>2, <1>4, <1>8 DEF vars, store, threads
<1>9. CASE up = "up" /\ \/ MoveMem \/ MonitorSend \/ Resend
                        \/ \E t \in Tasks : LookAt(t) \/ Fetch(t)
                        \/ \E S \in SUBSET Tasks : Collect(S)
                        \/ \E d \in Devices : Register(d)
                        \/ \E d \in Devices, t \in Tasks, res \in {1, 2} : Report(d, t, res)
  BY <1>4, <1>9 DEF MoveMem, MonitorSend, Resend, LookAt, Fetch, Collect, Register, Report, store
<1>10. CASE \E d \in Devices : (up = "up" /\ GoOffline(d)) \/ DeviceForgets(d)
  BY <1>2, <1>4, <1>10 DEF GoOffline, DeviceForgets, store, threads
<1>11. ~Crash /\ ~StartArchive
  BY <1>2 DEF Crash, StartArchive
<1> QED
  BY <1>3, <1>5, <1>6, <1>7, <1>8, <1>9, <1>10, <1>11 DEF Next, Failing, Running, MonitorStep

(* Whatever a crash interrupts: when the threads run, a finished task is   *)
(* in the assign table only until the result thread has deleted its row.   *)
THEOREM FinishedLeave == Spec => []NoFinishedLeft
<1>1. Init => FinishedInv
  BY TypeInit DEF Init, FinishedInv, FinishedRow, Has
<1>2. FinishedInv => NoFinishedLeft
  BY DEF FinishedInv, FinishedRow, NoFinishedLeft, Quiet, RIdle
<1> QED BY <1>1, <1>2, FinishedNext, PTL DEF Spec
=============================================================================
