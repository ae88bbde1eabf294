# Verification of the CMS compress-task dispatcher

The repository's main program is `cms` (`src/V1.0/code/Server/embedded/cms`), a
multi-threaded C/C++ server.  It asks video management platforms for newly
uploaded recordings, hands them as *compress tasks* to ZRV devices over TCP,
collects the results and reports them back; with a second host it runs as master
and slave.  It grew out of a SIP surveillance server, and most of its source is
code of that product that is still compiled but never initialised or started
(`common/init_proc.c:117-191`, `common/common_thread_proc.c:407-518`).  The
verification covers the part that runs.  Paths below are relative to the `cms`
directory.  The repository has no design document and no tests; what the program
is meant to do is taken from the comments in the code.

## 1. Inventory

| Component | State | Operations | Hard because | Correct when |
|---|---|---|---|---|
| Compress task store (`service/compress_task_proc.c`) | task map `g_CompressTaskMap`, tables `ZRVCompressTaskAssignInfo` (tasks in progress) and `ZRVCompressTaskInfo` (all) | add, set device, set result, remove, archive, recover at start | map and two tables are updated one after the other by three threads; the lock guards single accesses; raw pointers leave it; the process may die anywhere | no accepted task is lost; map and table agree; the total table holds finished tasks |
| Assignment (`device/device_srv_proc.c:23366-23850`) | snapshots of tasks, devices and loads | share out, send in packets | reads loads from a map that changes meanwhile; devices vanish half way | no task twice, none left behind, no device above its share, the loop ends, no division by zero |
| Result queue and thread (`resource/resource_info_mgn.c:2164-2362`) | deque of results | append (TCP thread), take and process | no lock on the deque; duplicates; any device may report | a result is archived before it is told |
| Task monitor (`service/compress_task_proc.c:673-812`) | per-task counter | every 60 s: resend, or move to another device | acts on tasks that may finish meanwhile; makes duplicates | every accepted task is archived in the end |
| Platform thread (`route/platform_thread_proc.c:205-648, 1766-2085`) | mode, period, progress `iLastGetTaskTime`, status 0..8, in memory and in `VideoManagePlatformInfo` | pass, fetch, retry, assign, end of round, restart | crash between any two saves; clock against progress; retries | no period is skipped; restarts continue; plans finish |
| Platform list and thread pool (`route/platform_info_mgn.c`, `route/platform_thread_proc.c:779-1269`) | list with deletion marks, ten slots | reload every 300 s, scan every second, add, remove, change address, assign and recycle | reload, scan and threads interleave; failures leave slots or marks | one thread per platform of the table, with its address and its own progress |
| ZRV device registry (`device/device_info_mgn.c`, `device/device_srv_proc.c`) | devices with status, expiry, row index and socket | register, refresh, unregister, expire, lose the connection | three threads work on a device access by access; failing SQL | a device shown as online has its own connection, or does not stay online; one that has gone is offline in the end |
| Device TCP server (`device/device_thread_proc.c`) | 50 slots, the set of ready sockets | accept, refuse and clean up, read, hang up | slots are not guarded; a sender closes sockets under the thread; a number is reused as soon as it is closed | every connection has its slot, but for those that came in during a closing; devices come back |
| Process start, stop and failover (`main.c`, `app_monitor.sh`, `BakeupDB.sh`) | role, common address, copied databases, run status | start, copy the database, take the address, give way, be killed | pings are lost or late; both may be active; copies go in both directions | at most one active server, one of them becomes active, no recorded row is overwritten |
| Thread monitor (`common/common_thread_proc.c:1072-1146`) | `run_time` of each thread | kill the process after 300 s | a long fetch looks like a hanging thread | a working process is not killed |
| Web service client (`route/route_srv_proc.c`), database layer (`common/db_proc.cpp`) | connections | fetch, notify; load and save | remote failures | – |

Interaction: the manager of the platform list gives each platform a thread.  The
platform thread calls the web service client, which adds tasks to the store;
then it calls the assignment, which reads store and registry and sends to
devices.  The TCP thread serves devices: registrations go to the registry (and
trigger a resend), results into the result queue.  The result thread works on
the store and tells the remote side.  The monitor works on store and registry.
All but the deque and the connection slots is guarded by one mutex per container
and access; none is held over a whole operation.  The process as a whole is
started, stopped and doubled by the failover, which replaces its database.

## 2. Modules

| Module | What it is |
|---|---|
| `Dispatch` | the store with all threads that work on it: platform thread (fetch, rounds of assigning), result thread, task monitor, TCP thread, devices, network faults, crash and recovery |
| `TaskLifecycle` | the abstract specification of `Dispatch`: what happens to a task, without threads, devices and messages |
| `AssignTasks` | one call of `assign_compress_task_to_zrv_device_proc` after the other, every read of a load a step, with the other threads in between |
| `PlatformThread` | the loop of one platform's thread over time, with restarts and changes of its configuration |
| `PlanWalk` | the abstract specification of `PlatformThread` for a manual plan: what its row and the web service see |
| `PlatformList` | the list of platforms against the table, its manager, and the pool of threads |
| `ZRVDevice` | the registry of devices, the TCP thread with its slots, a sender and the expiry |
| `HaFailover` | the two hosts with their processes, databases and the common address |
| `*_proofs` | theorems and proofs about the module of the same name (`TaskLifecycle_proofs`: about `Dispatch` and its refinement of `TaskLifecycle`; `TaskRecovery_proofs`: about `Dispatch` with crashes; `PlatformThread_proofs`: also its refinement of `PlanWalk`) |
| `MC*` | small instances for TLC |

Each abstracts from what another one has:

* `Dispatch` from how large the slices of a round are (any) - `AssignTasks` has
  that, and leaves out tables, packets and counters of the monitor.
  `BeginRound .. EndRound` of `Dispatch` is the routine of `AssignTasks`.
* `PlatformThread` from tasks and devices: `BeginFetch .. FetchSucceeds` and
  `BeginAssign .. AssignReturns` are the fetches and rounds of `Dispatch`.
* `PlatformList` keeps of a thread whether it is fetching and whose progress its
  fields hold; the rest is `PlatformThread`.
* `ZRVDevice` has the sockets behind the set `online` of `Dispatch` and
  `AssignTasks`, where a device comes and goes as it likes.
* `HaFailover` has the process as one state and its tables as one set of rows;
  its `Stop` is the `Crash` of the other modules.

### Dispatch

`mem` is the map, `row` and `total` the tables, `work[d]` what device `d` has
received, `queue` the result queue; `p`, `r`, `m` and `k` say where the platform,
result, monitor and TCP threads are.  A record is its device, status
(0 waiting, 1 assigned, 2 finished) and result (0 none, 1 success, 2 failure).
A step is one access of the map under its lock or one SQL statement, so the
halves of `UpdateCompressTaskAssignInfo` (map, then table) and
`UpdateCompressTaskResultInfo` are steps of their own: `Pack`, `PackAssignRow`,
`PackMarkMem`, `PackMarkRow`, and `TakeResult`, `ResultAssignRow`,
`ResultMarkMem`, `ResultMarkRow`, `ResultDelete`, `ResultArchive`,
`ResultRemove`, `ResultNotify`.  `Send` is one `send()`: delivered, lost (the
code only logs `EAGAIN`), or the connection breaks and the caller gives up the
rest.  `AddCompressTask` works on a raw pointer: in `FetchRow`, when the task is
no longer in the map, the freed memory that is read may say anything.  `Crash`
keeps tables and devices and loses the rest; `StartArchive` and `StartLoad` are
`DeleteCompressTaskFromDBForStart` and `set_db_data_to_compress_task_list`.

Devices are not in the repository; how they behave follows from how they are
used: they register until they are registered, may forget what they work on, and
report each task once.

### AssignTasks

The locals of the routine are variables; the map is reduced to the status and
device of each task.  `ReadLoad` is one turn of the loop of
`check_need_to_re_assign`, `EndPass` the share for the devices that are kept,
`HandOut` one device's slice with everything `SendAssignTaskToZRVDevice` may do.
`Others` are the other threads.  `moved` remembers whether a task changed its
device since the call began.

### PlatformThread

`config` and `saved` are the row of the platform, the other variables the
fields of the thread.  A pass is `Pass` (first half of the loop), one of the
work actions, and `EndPass`.  The web service call lies between `BeginFetch` or
`FetchAgain` and `FetchSucceeds` or `FetchFails`, so that time passes, the
process dies or the configuration changes meanwhile.  Static counters (every
30th pass, every fifth pass) are choices.  `tried` and `covered` are history.
A crash before a save is the same as a crash before the change, because memory
is lost, so a change of the status and its save are one step.

`PlanWalk` knows nothing of passes, of the progress in memory, or of restarts.
Its `state` is the status of the row by name, its `upTo` the progress of the row,
`asked` is `tried`.  It says which rounds a manual plan goes through, and how far
a question may be from the progress: it begins at most one window (`Longest`)
before it (`Behind`), since the clock may have been overtaken, and ends within
the plan, or without an end not in the future.  A plan that is changed is `Leave`.

### PlatformList

`table` is the address in each row of `VideoManagePlatformInfo`, `saved` the
status and progress of the rows, `list` the map with its marks (`del_mark`: 1
address changed, 2 to be deleted, 3 deletion postponed, -1 any other value), `slot`
the pool, and `g`
where the manager is, with the result of its SELECT.  `BeginReload`, `Select`,
`TakeRow` and `RowsDone` are the reload; `Assign`, `AssignFails` and `Load` are
`platform_info_add` with what it calls; `Scan`, `Move`, `Postpone` and `EndScan`
are `scan_platform_info_list`, which runs each second and within a reload.
`platform_info_init` does not set the mark of a new entry
(`route/platform_info_mgn.c:77-91`), so `TakeRow` enters a platform with any mark.
Whose progress a row or a thread has is kept as the platform it belongs to
(`of`), which is all that can be wrong with it.  When no thread is free or no
connection can be made, the entry is freed twice
(`route/platform_info_mgn.c:864` and its caller); the process may survive that or
be `Restarted`.  A thread that is recycled in a fetch (`call = "cut"`) goes on
with a deleted connection, which may be its end, too.  `missed`, `early` and
`read` are history.

### ZRVDevice

`conn` is the kernel's view of each socket number, `backlog` who waits to be
accepted, `slot` the array `ZRVDeviceTCPClients`, `reg` the registry; `k`, `x` and
`due` say where the TCP thread, a sender and the expiry are.  One call of
`ZRVDeviceLoginServerMain` is `Select`, perhaps `Accept`, `NotAccepted` (no number is
left) or `Refuse` (no slot is left; it cleans up unused connections), and one of
`PassBy`, `HangUp` and `FreeInfo`, `Register` or `Unregister` and `Confirm` for each
slot.  Other messages change none of this state, and a number that has one is
passed by.  `ready` holds numbers, as the `fd_set` does: a number that is closed and
given away meanwhile still looks ready.  The sender is `Choose`, `Send` and, after an
error, `Blame`, then for each slot `PassSlot`, or `FindSlot`, `CloseSock` and
`ClearSlot`, and at last `Reset` (`device/device_srv_proc.c:23754-23840`,
`device/device_thread_proc.c:2406-2422`).  As in the code, `CloseSock` reads the number
from the slot again, and `ClearSlot` clears what the slot has by then.  `Break` ends a
connection with or without a sign.

`Accept` takes the lowest number and the first slot, whatever the sender is doing
with them, and everything goes on from there.  When the number is still in a
hand (of the sender, of a slot it is about to clear, of a device) or the slot is, the
connection is *crossed*, and so is a registration made through it.  `crossed` is
history; it is how the properties tell what the code guarantees from what it does
not (see *Races*).

Simpler than the code: one sender stands for all that send; a registration is read
and put into the registry in one step, and a hang-up closes and clears in one; and
`recv()` returns at once, where on a number given away since `select()` it may wait
for the first bytes.

### HaFailover

`at[h]` is where the process of host `h` is, from `Launch` under
`app_monitor.sh` over `Prepare` (`set_video_eth_ip`), the checks by ping (`peer`:
`check_Master_Live`, `common`: `check_Common_IP_Live`) with the copying of the
other database while they are answered, `Take` (`set_common_ip`) and `Load` to
`serve`, which is `main_loop`.  The common address survives the process and a
power cycle, as it is written to the configuration.  `Stop` is a crash or a
hanging thread, `Kill` the end by the thread monitor or of a slave that gives
way.  A copy that is interrupted leaves some tables copied and others not.

## 3. Runs

| Run | Question | Instance | States |
|---|---|---|---|
| `assign` | sharing out is right and ends | 3 tasks, 2 devices, all initial maps | 382 096 |
| `assign_division` | is the share ever divided by zero? (yes) | the same | |
| `dispatch` | no task lost, what is archived and told; implements `TaskLifecycle` | 2 tasks, 1 device, packets of 1, 1 fault | 1 382 195 |
| `dispatch_crash` | recovery; map and table agree; which crash loses a task; no duplicates without timeout | 1 task, 2 devices, 1 fault, 1 crash | 2 758 363 |
| `dispatch_live` | every task is archived | 1 task, 1 device, 2 faults | 50 589 |
| `dispatch_lost` | is a task lost by a crash? (yes) | 1 task, 1 device, 1 crash | |
| `platform` | progress, windows, restarts, completion; implements `PlanWalk` | 5 plans, 8 units of time, 1 change, 1 crash | 362 186 |
| `platform_stuck` | does a restart go on? (not in status 2 and 5) | 1 crash | |
| `platform_failed` | is a failed window fetched again? (not in manual mode) | no crash | |
| `platforms` | one thread each, at the right address, with its own progress; what stays in the table is served | 2 platforms, one with 2 addresses, 2 threads, 2 edits or 1 failure, any marks | 914 055 |
| `devices` | slots, sockets and registry agree; stray registrations end; devices come back, or are seen to be gone | 2 devices, 1 slot, 2 numbers, 1 fault, accepting at any moment | 275 830 |
| `failover` | one serves, never both; no recorded row is lost | 2 rows, 3 power failures, 1 crash or hang, 1 lost answer | 206 894 |

Bounds, and why they show what they are meant to:

* Two tasks with packets of one reach everything about batches: a slice that
  is cut by a broken connection, a packet sent while the next task is marked.
  Two devices are what duplicates need.  One fault or one crash per behaviour
  can fall between any two steps.  `dispatch_crash` has one task since its
  properties speak of one task at a time.
* Three tasks on two devices give remainders, a second pass, and a device that
  is filtered out; the initial states are all maps and registries.
* Eight units of time with windows of two let a plan take several windows, end
  between windows, in the future or never, and be overtaken by the clock; one plan
  has not begun.
* Two platforms and two threads let a thread be free, taken, orphaned and taken
  over by the other platform; with two edits a platform is deleted and entered
  again, or changes its address twice.  One failure takes the same bound (it counts
  as two edits): a failed SELECT deletes all platforms, and the next reload enters
  them again with any mark.
* One slot for two devices is a full server; two numbers are enough for a number
  to go to the other device.  One fault makes one closing by the sender, and what
  comes in during it, once crossed, makes the next ones without a fault: a device
  on a closed number or on another's makes sends fail again.  The invariants, and
  those of the proof, also hold with two slots and three numbers (11 329 826
  states), and with two faults (1 136 243), which no run repeats; the proofs have
  no such bounds.
* Three power failures are both hosts and one of them again, so that the slave
  takes over, gives back and takes over; two rows, one before and one after.
* `MaxFetch = 1` where the properties fail for refetched tasks (see *Races*
  below); the proofs of `TypeOK`, `AssignedHasDevice`, `Recorded` and
  `NoFinishedLeft` have no such bound.
* `VIEW NoHistory` in `dispatch` leaves out `resent`, which no property of that
  run mentions and no guard reads.
* Deadlock is not checked where the bounds on faults, fetches and time let a
  behaviour end (`Dispatch`, `PlatformThread`).  The other runs check it.

Fairness.  `AssignTasks!FairSpec`: the thread is scheduled.  `Dispatch!Live`:
every thread is scheduled; a task that stays assigned is collected by a scan
again and again (its counter rises by one per scan up to 300, so strong fairness
is exactly what the counter gives); a device that runs registers and reports
until the TCP thread has read it.  `PlatformThread!FairSpec`: the thread runs,
time passes, calls return (the client uses timeouts).  `HelpfulSpec` adds that
the web service and the devices do not fail for ever.  `PlatformList!Live`: the
manager runs, and its counter reaches 300 again and again.  `ZRVDevice!Live`: the
three threads run (the backlog is served in its order), and for each number that
is in the slots of a `select()` again and again, some `select()` sees a message on
it: a connected device repeats its registration, and a vanished one cannot, so a
number of one is never among the ready ones.  `HaFailover!FairSpec`: a process
on a running host gets on.  No fairness is assumed of faults, crashes and administrators.

### Disagreements between code and comments

1. *Division by zero* (`assign_division`).  `device/device_srv_proc.c:23524`
   divides by the number of devices left before `23538` tests it.  All devices
   are filtered out when a task is counted twice because it changes its device
   between two reads.
2. *Task lost by a crash* (`dispatch_lost`).
   `service/compress_task_proc.c:2500` deletes the row, `2519` adds the task to
   the total table.
3. *Stuck after restart* (`platform_stuck`).  Nothing handles status 2 and 5 in
   the first pass, against the comment of `route/platform_thread_proc.c:368`.
4. *Failed window skipped* (`platform_failed`).  The progress advances before
   the fetch (`1826`); the retry (`1869`, `1878`) asks for the next window.

### Races

Other behaviour met while modelling, which no comment rules out.  The properties
name these as exceptions, so that they hold of everything else:

* *Refetch.*  `AddCompressTask` resets a task (`service/compress_task_proc.c:2139`)
  while the result thread is on its way to `compress_task_remove`; the reset task
  leaves the map while its row stays, until the next start.  If its next result
  comes before that, the row is deleted and nothing is left to archive; when a
  crash has kept the task out of the total table before, it is lost.
  (`MaxFetch = 1`.)
* *Devices at work over a crash.*  After a restart a task waits in the map while
  a device still works on it, when the crash came before its row was marked.  If
  the result comes while the next round marks the task, the mark may fall between
  the result thread's own mark and its archiving: the total table then has status
  1.  And what is found only in a late result is told although the total table does
  not have it.  (`MaxCrashes = 0` for `SentIsMarked`, `TotalIsFinal` and
  `ToldAfterArchive`.)
* *Address change missed.*  The mark is reset before the thread is found to be
  fetching (`route/platform_info_mgn.c:927-958`).  (`missed` in `ListedIsServed`.)
* *Progress of another platform.*  A thread assigned at run time may save its
  fields before it has read its row (`route/platform_thread_proc.c:810`, `874`).
  (`early` in `ProgressIsOwn`.)
* *Double free* when a platform gets no thread (`route/platform_info_mgn.c:864`).
  (`Restarted`.)
* *Crossed connections.*  A connection may come in between the steps with which a
  sender closes a number, clears the slot and takes the device offline
  (`device/device_thread_proc.c:2413-2417`, `device/device_srv_proc.c:23835-23837`).
  If the sender then clears the slot the TCP thread has just filled, the connection
  stays open without a slot: it is never read, its end is not seen, and its device
  thinks it is connected.  If the device that was blamed is still on the number,
  it is shown online on another one's connection, and tasks for it go there.  If
  the TCP thread hangs up and gives the number away before the sender closes it,
  the sender closes the new device's connection and takes the old one offline; the
  new one is online on a closed number.  And when the number
  is given away while the old slot still has it, two slots have it: a hang-up through
  one leaves a closed number in the other, and `select()` fails from then on (this
  takes two slots).
  `ConnectedHasSlot` and `OnlineIsOwn` leave out what is crossed and are proved of
  everything else; `StrayEnds` says that a device online on a number that is not its
  own does not stay so, since its registration expires; `ComesBack` asks that no
  crossed connection and no closed number be left (`Damaged`), for without that a
  device is not read, and may stay away for good.
* *Mark of a deleted entry.*  A platform entered by a reload may get the memory, and
  the mark 2 or 3, of an entry deleted before (`route/platform_info_mgn.c:77-91`).
  The scan at the end of the same reload deletes it, which leaves the mark in
  memory for the next reload.  `StaysIsServed` asks that this stop
  (`EntersDeleted`); without that TLC finds a platform that is never served.  With
  a mark that is none of the four (-1), a platform that is taken out of the table
  before its next row is read stays in the list and keeps its thread.
* *A device without index* never expires (`device/device_srv_proc.c:22976`).
  (`reg[d].id` in `StrayEnds`, `ComesBack` and `GoneIsOffline`.)
* *A plan that has not begun* is taken back to the present
  (`route/platform_thread_proc.c:1820`), so windows before its begin are asked for.
  (`saved.last = config.begin` in `ProgressIsKept`.)
* *Rows of the slave are lost* when it is started again before the master has
  copied them back: it copies the master's older database over its own
  (`main.c:1094-1113` against `1158-1177`).  (`shifted` in `RowsStay`, which from the
  slave's first taking over on claims nothing: it covers the copying only until
  then.)
* *Both serve* when an answer is lost, or the master gets power between the
  slave's check and its taking the address.  (`lost`, `late` in `Exclusive`.)

## 4. Proofs

TLAPS checks, for every value of the constants that satisfies the ASSUMEs:

* `AssignTasks_proofs`: `TypeCorrect`; three results that hold as long as no
  task changes its device during the call, and two that hold whatever happens.
  `NoDivisionByZero`: `DividesOnlyAfterMove` is not inductive; `DivisionInv` adds
  that while loads are read, (a) what is left of the total covers the tasks to
  assign and those running at the devices not filtered out, (b) the shares cover
  the total, and (c) at least one share was taken out per filtered device.  Were
  all devices filtered out, (b) and (c) would leave nothing, and (a) with a task
  to assign forbids that.  Results and refetches only shrink what is counted.
  `NoOverload`, by `LoadInv`: what was read of a load bounds it from above until
  the device's slice, as tasks leave a device but enter it only by a slice.
  `NoneLeftBehind`, by `RoomLeft` and `NotMissed`: the devices of a pass are columns
  of as many places as the share; the places taken by what was read, the tasks
  at the devices not yet read and those to assign are within the total, so when
  a pass keeps every device the places left over cover the tasks to assign, and
  each slice fills a column or takes all there is.  Products of finite sets stand
  for the sums of loads, which would need induction.
  `SlicesWithinVector`, also when tasks move: a device that has still to get its
  slice was read below the share, so the slice has no negative length, ends
  within the vector and takes a task while any is left.  `Dispatch!CutSlice`, which
  does not count, allows that and more: its last device takes a task if any is left.
  `PassesShrinkAlways`: the safety half of `PassesEnd` for any number of devices: each
  step of the loop lowers a rank (devices left, then devices unread), and no
  other thread touches it.  What fairness adds stays with TLC.
* `Dispatch_proofs`, for any number of fetches: `TypeCorrect`;
  `AssignedTaskHasDevice`, by `DeviceInv`: a record that is marked assigned, or
  about to be, has a device already, since map and table are given the device
  before the status, and recovery copies the table; `FinishedLeave`, by
  `FinishedInv`: a finished row belongs to the result thread until it is deleted,
  or to the recovery, which deletes it before it loads the rest;
  `NothingForgotten`, for `MaxCrashes = 0`, by `RecordedInv`: a task the result
  thread is archiving is known or underway.
* `TaskLifecycle_proofs`, for `MaxCrashes = 0` and `MaxFetch <= 1`, any tasks,
  devices, packets and faults: `SentMarked`, `TotalFinal`, `ToldLast`, and
  `ImplementsLifecycle`, the refinement.  All rest on `LifeInv`, which says for each
  task where it may be at the same time: what a device, a packet, the queue or the
  result thread has is no longer waiting (`FetchOK`); a difference of map and
  table belongs to a thread that is about to write (`AgreeOK`); what the result
  thread has done at each of its places (`ResultPlaceOK`); an archived task stays
  as it is, and late results of it find nothing (`FinalOK`).  `OneDevice`, until the
  first crash of however many, needs `HomeInv` in addition: whoever sends a task
  that was not timed out sends it to the device it is recorded with, and no round
  has it.
* `TaskRecovery_proofs`, for `MaxFetch <= 1` and any number of crashes:
  `MapIsTable`, and `OnlyInDeletion`, which says that the crash of `dispatch_lost` is
  the only way to lose a task.  `LifeInv` does not survive a crash: a device may work
  on a task that waits again, so platform, result and monitor threads may all be
  at the same task.  `RecoveryInv` holds on to less: unless the result thread is at
  a task, it is not finished (`StatusOK`), and map and table both have it or not, each
  field equal but for the one whose owner has written the map and not yet the
  table (`PairOK`); when the result thread is at a task, both have it until the
  row is deleted, and from then on the row stays away, and in the end the record
  in the map (`PlaceOK`), so whatever the others wrote meanwhile is gone; and while
  the process is down the map is empty and no thread is anywhere (`DownOK`).
  Recovery archives before it deletes, hence it may be interrupted itself.
* `PlatformThread_proofs`: `TypeCorrect`; `TableHasStatus`; `ManualWindows` and
  `WindowsStopAtEnd`, by `ProgressInv`: the saved progress never leaves the moments
  tried behind, and the progress in memory is the saved one unless it was taken
  back to the clock.  `ProgressNotLost`, by `KeptInv`: the saved progress is at most
  a window ahead of the clock and of the progress in memory and within the plan,
  or at its begin, so the next window ends no earlier than the last.
  `ImplementsWalk`, the refinement of `PlanWalk`, from `KeptInv` and where the thread
  is in a fetch or in assigning (`AtWork`): a window begins at the progress in
  memory, which `KeptInv` keeps within a window of the row; and a pass begins the
  plan only when the row has not passed its begin, for a row beyond the end is
  one at the begin of a plan that ends before it begins.
* `PlatformList_proofs`: `TypeCorrect`; `OneThreadEach`; `ListedServed`, by
  `ServedInv`: also in the middle of a reload or scan an entry has a thread, but for
  the one being assigned, and its address but for those still marked, collected or
  missed, whatever mark it was entered with; `OwnProgress`, by `OwnInv`: a thread that has read a row has the progress
  of the platform whose address it has.
* `ZRVDevice_proofs`: `TypeCorrect`; `ConnectionsHaveSlots`, by `SlotInv`: all that
  `ConnectedHasSlot` needs is `Cleared`, that the slot the sender is about to clear
  does not have the number of a connection that is not crossed.  `NoTaskAstray`, by
  `OwnInv`, which follows a number through the hands it may be in: a slot knows
  whose its connection is (`SlotOwn`), and only the one the sender has in hand can
  have another one's number (`Apart`) or, when the TCP thread accepts, a closed one,
  since `select()` has just seen that no other had (`ClosedInHand`); what the sender
  blames and closes, and what the TCP thread answers, is the device's own
  (`BlamedOwn`, `ClosesBlamed`, `Answered`); what was registered through a crossed
  connection never has one that is not (`CrossedStays`).  So whoever closes a
  number takes offline the one device that had it.
* `HaFailover_proofs`: `TypeCorrect`; `NoRowLost`, by `RowsInv`: a master copies only
  while the slave answers for the address, which only a slave that has taken it
  does; `OneServes`, by `ExclusiveInv`: while the slave is past its check of a master
  that was down, the master is down or came late.

Only model-checked: the liveness properties (the provers have no rule for
ENABLED in fairness), among them the termination of the passes (but for its rank).  `SentMarked`,
`TotalFinal`, `ToldLast` and the refinement of `TaskLifecycle` are false across
crashes and for refetched tasks (see *Races*), and `OneDevice` after a crash.

## 5. Not modelled

* Framing: messages that arrive in parts or together
  (`device/device_thread_proc.c:2032-2302`), and XML and SOAP; a message is read
  whole, and a fetch ends (`route/route_srv_proc.c:18550` may not).
* Failing SQL statements but the SELECT of the reload and the row of a device;
  reconnecting to the database.
* Loading the tasks of a platform that is added while the CMS runs over the live
  map; the load at the start takes the waiting tasks of all platforms
  (`common/db_proc.cpp:3492`).
* The data race on the deque and memory corruption by freed tasks and entries,
  beyond the outcomes of `FetchRow`, `Restarted` and `CutFetch`.
* The freeing of the result queue ten seconds after the CMS was seen not running
  (`common/common_thread_proc.c:1906`): results that it frees are lost as those that
  devices forget in `dispatch_live`.
* How `run_time` is updated: how long an operation takes is not in the code.  A
  kill is a stop at any time.
* A single host (`dwMSFlag` 0), and a master whose database is down and which
  keeps the address (`main.c:1202-1211`).
* The inherited surveillance code, the SIP and Onvif libraries, generated SOAP
  stubs, vendored code, logging, the shell, the web front end and the media
  gateway.  This is nearly all of the source by size; it is not part of the
  running dispatcher or has no state of its own the properties could speak of.

`PROJECT.json` lists each component with its status and each hazard that no
property covers yet with the reason.

## 6. Plan

1. `Framing`: the buffer of a connection under partial and joined packets,
   with the reset after a broken header; refinement of a stream of messages.
2. Loading at run time in `Dispatch`: a second platform whose load runs over the
   live map.
3. `ThreadMonitor`: `run_time` against long operations; the shared retry counter
   of two platform threads.
4. Proofs: what a refetched task does to `LifeInv` (a weaker lifecycle in which an
   archived task may wait again), and the safety part of the liveness arguments
   (what each scan of the monitor finds).
