------------------------ MODULE TaskLifecycle_proofs ------------------------
(***************************************************************************)
(* Dispatch implements TaskLifecycle when the CMS does not crash and each  *)
(* task is fetched once, for any tasks, devices, packet size and faults.   *)
(* With it: what a device works on is marked, the total table holds        *)
(* finished tasks, and the remote side is told last; and, until the first  *)
(* crash, a task is at two devices only when it was timed out.             *)
(***************************************************************************)
EXTENDS Dispatch_proofs

-----------------------------------------------------------------------------
(* The invariant, for one task t.                                          *)

(* Where the platform and the result thread are with t, and whether the    *)
(* monitor is between its two updates.                                     *)
PAt(t) ==
  IF p.task = t /\ p.at \in {"row", "assign_row", "mark_mem", "mark_row"}
    THEN p.at ELSE "elsewhere"
RAt(t) == IF r.at # "idle" /\ r.msg.task = t THEN r.at ELSE "elsewhere"
Moving(t) == m.task = t /\ m.at = "move_row"

(* A device, a result, a packet or the monitor has it ...                  *)
InWork(t)   == \E d \in Devices : t \in work[d]
InQueue(t)  == \E i \in 1 .. Len(queue) : queue[i].task = t
InPacket(t) == t \in p.packet /\ PAt(t) \notin {"assign_row", "mark_mem"}
InList(t)   == t \in m.list \/ m.task = t
Sent(t) == InWork(t) \/ InQueue(t) \/ RAt(t) # "elsewhere" \/ InPacket(t) \/ InList(t)

(* ... or a round is going to hand it out.                                 *)
Open(t) == t \in p.need \/ t \in p.slice \/ PAt(t) \in {"assign_row", "mark_mem"}

Started(t) == fetched[t] = 1 /\ (Has(mem, t) => mem[t].status # 0)
Waits(t)   == fetched[t] = 1 /\ Has(mem, t) /\ mem[t].status = 0
Apart(t) ==
  /\ ~(t \in p.need /\ t \in p.slice)
  /\ PAt(t) \in {"assign_row", "mark_mem"} => t \notin p.need /\ t \notin p.slice

FetchOK(t) ==
  /\ fetched[t] \in {0, 1}
  /\ PAt(t) = "row" => fetched[t] = 0
  /\ PAt(t) = "mark_row" => Started(t)
  /\ Sent(t) => Started(t)
  /\ Open(t) => Waits(t)
  /\ Apart(t)
  /\ fetched[t] = 0 => /\ row[t] = None /\ total[t] = None
                       /\ mem[t] = IF PAt(t) = "row" THEN Fresh ELSE None

(* While the result thread is not at t, map and table agree but for what   *)
(* the other two threads are about to write.                               *)
AgreeOK(t) ==
  fetched[t] = 1 /\ RAt(t) = "elsewhere" =>
    /\ Has(mem, t) <=> Has(row, t)
    /\ Has(mem, t) <=> ~Has(total, t)
    /\ Has(mem, t) =>
         /\ mem[t].status # 2 /\ row[t].status # 2
         /\ PAt(t) = "mark_row" \/ mem[t].status = row[t].status
         /\ PAt(t) = "assign_row" \/ Moving(t) \/ mem[t].device = row[t].device
         /\ PAt(t) = "assign_row" => mem[t].device = p.device
         /\ Moving(t) => mem[t].device = m.device

ResultPlaceOK(t) ==
  /\ RAt(t) \in {"assign_row", "mark_mem", "mark_row", "delete"} => (Has(mem, t) <=> Has(row, t))
  /\ RAt(t) \in {"archive", "remove", "notify"} => ~Has(row, t)
  /\ RAt(t) = "notify" => ~Has(mem, t) /\ r.msg.result = 1
  /\ RAt(t) \in {"assign_row", "mark_mem"} /\ Has(mem, t) => mem[t].status # 2
  /\ RAt(t) \in {"mark_row", "delete", "archive", "remove"} /\ Has(mem, t)
       => mem[t].status = 2 /\ mem[t].result = r.msg.result
  /\ RAt(t) \in {"assign_row", "mark_mem", "mark_row", "delete", "archive"}
       => (Has(mem, t) <=> ~Has(total, t))
  /\ RAt(t) \in {"remove", "notify"} => Has(total, t) /\ total[t].result = r.msg.result

FinalOK(t) == Has(total, t) => total[t].status = 2

LifeOK(t) == FetchOK(t) /\ AgreeOK(t) /\ ResultPlaceOK(t) /\ FinalOK(t)

LifeInv ==
  /\ TypeOK
  /\ up = "up"
  /\ \A t \in Tasks : LifeOK(t)

-----------------------------------------------------------------------------
(* A task that a step does not touch.                                      *)

SameRecords(t) ==
  mem'[t] = mem[t] /\ row'[t] = row[t] /\ total'[t] = total[t] /\ fetched'[t] = fetched[t]
SamePlatform(t) == PAt(t)' = PAt(t) /\ (PAt(t) = "assign_row" => p'.device = p.device)
SameResult(t)   == RAt(t)' = RAt(t) /\ (RAt(t) # "elsewhere" => r'.msg = r.msg)
SameMonitor(t)  == (Moving(t)' <=> Moving(t)) /\ (Moving(t) => m'.device = m.device)

LEMMA Untouched ==
  ASSUME NEW t \in Tasks, LifeOK(t),
         SameRecords(t), SamePlatform(t), SameResult(t), SameMonitor(t),
         Sent(t)' => Started(t), Open(t)' => Waits(t), Apart(t)'
  PROVE  LifeOK(t)'
<1> USE DEF Has
<1>1. FetchOK(t)'
  BY DEF LifeOK, FetchOK, SameRecords, SamePlatform, Started, Waits
<1>2. AgreeOK(t)'
  BY DEF LifeOK, AgreeOK, SameRecords, SamePlatform, SameResult, SameMonitor
<1>3. ResultPlaceOK(t)'
  BY DEF LifeOK, ResultPlaceOK, SameRecords, SameResult
<1>4. FinalOK(t)'
  BY DEF LifeOK, FinalOK, SameRecords
<1> QED BY <1>1, <1>2, <1>3, <1>4 DEF LifeOK

(* Each of the threads, when it does not move.                             *)
LEMMA SameThreads ==
  ASSUME NEW t
  PROVE  /\ UNCHANGED p => /\ SamePlatform(t) /\ (InPacket(t)' <=> InPacket(t))
                           /\ (Open(t)' <=> Open(t)) /\ (Apart(t)' <=> Apart(t))
         /\ UNCHANGED r => SameResult(t)
         /\ UNCHANGED m => SameMonitor(t) /\ (InList(t)' <=> InList(t))
         /\ UNCHANGED work => (InWork(t)' <=> InWork(t))
         /\ UNCHANGED queue => (InQueue(t)' <=> InQueue(t))
BY DEF SamePlatform, SameResult, SameMonitor, PAt, RAt, Moving, InPacket, InList, InWork, InQueue,
       Open, Apart

LEMMA SameRows ==
  UNCHANGED <<mem, row, total, fetched>> => \A t \in Tasks : SameRecords(t)
BY DEF SameRecords

-----------------------------------------------------------------------------
(* The platform thread.                                                    *)

LEMMA FetchLife ==
  ASSUME MaxFetch <= 1, LifeInv, NEW u \in Tasks, Fetch(u), NEW t \in Tasks
  PROVE  LifeOK(t)'
<1>1. /\ mem' = [mem EXCEPT ![u] = Fresh] /\ UNCHANGED <<row, total, fetched, work, queue, r, m>>
      /\ p.at = "idle" /\ p' = [p EXCEPT !.at = "row", !.task = u]
      /\ fetched[u] \in Nat /\ fetched[u] < MaxFetch
  BY DEF Fetch, budget, LifeInv, TypeOK, HistoryOK
<1>2. mem \in Table /\ p'.at = "row" /\ p'.task = u
      /\ p'.need = p.need /\ p'.slice = p.slice /\ p'.packet = p.packet
  BY <1>1 DEF LifeInv, TypeOK, StoreOK, PlatformOK
<1>3. LifeOK(t) /\ FetchOK(t) /\ PAt(t) = "elsewhere"
  BY <1>1 DEF LifeInv, LifeOK, PAt
<1>4. PAt(t)' = IF t = u THEN "row" ELSE "elsewhere"
  BY <1>2 DEF PAt
<1>5. (Sent(t)' <=> Sent(t)) /\ (Open(t)' <=> Open(t)) /\ (Apart(t)' <=> Apart(t))
  BY <1>1, <1>2, <1>3, <1>4, SameThreads DEF Sent, InPacket, RAt, Open, Apart
<1>6. CASE t # u
  <2>1. SameRecords(t) /\ SamePlatform(t) /\ SameResult(t) /\ SameMonitor(t)
    BY <1>1, <1>2, <1>3, <1>4, <1>6, SameThreads DEF SameRecords, SamePlatform, Table
  <2> QED BY <1>3, <1>5, <2>1, Untouched DEF FetchOK
<1>7. CASE t = u
  <2>1. fetched[u] = 0
    BY <1>1, BoundsAreNaturals
  <2>2. /\ row'[u] = None /\ total'[u] = None /\ mem'[u] = Fresh /\ fetched'[u] = 0
        /\ ~Sent(u) /\ ~Open(u)
    BY <1>1, <1>2, <1>3, <1>7, <2>1 DEF FetchOK, Started, Waits, Table
  <2>3. FetchOK(u)' /\ AgreeOK(u)' /\ FinalOK(u)'
    BY <1>3, <1>4, <1>5, <1>7, <2>2 DEF FetchOK, AgreeOK, FinalOK, Has
  <2>4. RAt(u)' = "elsewhere"
    BY <1>5, <1>7, <2>2 DEF Sent
  <2> QED BY <1>7, <2>3, <2>4 DEF LifeOK, ResultPlaceOK
<1> QED BY <1>6, <1>7

LEMMA FetchRowLife ==
  ASSUME LifeInv, FetchRow, NEW t \in Tasks
  PROVE  LifeOK(t)'
<1>1. PICK u \in Tasks : u = p.task
  BY DEF FetchRow, LifeInv, TypeOK, PlatformOK
<1>2. p.at = "row" /\ p' = PIdle /\ UNCHANGED <<mem, total, work, queue, r, m>>
      /\ fetched' = [fetched EXCEPT ![u] = @ + 1]
  BY <1>1 DEF FetchRow
<1>3. LifeOK(t) /\ LifeOK(u) /\ row \in Table /\ fetched \in [Tasks -> Nat]
  BY DEF LifeInv, TypeOK, StoreOK, HistoryOK
<1>4. fetched[u] = 0 /\ mem[u] = Fresh /\ row[u] = None /\ ~Sent(u) /\ total[u] = None
  BY <1>1, <1>2, <1>3 DEF LifeOK, FetchOK, PAt, Started
<1>5. Fresh # None /\ Fresh.status = 0
  BY FreshType, NoneIsNoRecord DEF Fresh
<1>6. row' = [row EXCEPT ![u] = Fresh]
  BY <1>1, <1>4, <1>5 DEF FetchRow, Has
<1>7. PAt(t)' = "elsewhere" /\ ~Open(t)' /\ Apart(t)' /\ (Sent(t)' => Sent(t))
  <2>1. PAt(t)' = "elsewhere" /\ ~Open(t)' /\ Apart(t)' /\ ~InPacket(t)'
    BY <1>2, IdleTypes DEF PAt, Open, Apart, InPacket
  <2>2. RAt(t)' = RAt(t) /\ InWork(t)' = InWork(t) /\ InQueue(t)' = InQueue(t) /\ InList(t)' = InList(t)
    BY <1>2 DEF RAt, InWork, InQueue, InList
  <2> QED BY <2>1, <2>2 DEF Sent
<1>8. CASE t # u
  <2>1. PAt(t) = "elsewhere"
    BY <1>1, <1>8 DEF PAt
  <2>2. SameRecords(t) /\ SamePlatform(t) /\ SameResult(t) /\ SameMonitor(t)
    BY <1>2, <1>3, <1>6, <1>7, <1>8, <2>1, SameThreads DEF SameRecords, SamePlatform, Table
  <2> QED BY <1>3, <1>7, <2>2, Untouched DEF LifeOK, FetchOK
<1>9. CASE t = u
  <2>1. mem'[u] = Fresh /\ row'[u] = Fresh /\ total'[u] = None /\ fetched'[u] = 1
    BY <1>2, <1>3, <1>4, <1>6 DEF Table
  <2>2. ~Sent(u)' /\ RAt(u)' = "elsewhere" /\ ~Moving(u)'
    BY <1>4, <1>7, <1>9 DEF Sent, InList, Moving
  <2>3. FetchOK(u)'
    BY <1>7, <1>9, <2>1, <2>2 DEF FetchOK
  <2>4. AgreeOK(u)' /\ ResultPlaceOK(u)' /\ FinalOK(u)'
    BY <1>5, <1>7, <1>9, <2>1, <2>2 DEF AgreeOK, ResultPlaceOK, FinalOK, Has
  <2> QED BY <1>9, <2>3, <2>4 DEF LifeOK
<1> QED BY <1>8, <1>9

(* Steps of the platform thread between the marking of tasks: what it has  *)
(* to do becomes less, or is what waits.                                   *)
LEMMA PlatformMoves ==
  ASSUME LifeInv, UNCHANGED <<mem, row, total, fetched, queue, r, m>>, NEW t \in Tasks,
         PAt(t) = "elsewhere", PAt(t)' = "elsewhere",
         InPacket(t)' => InPacket(t), InWork(t)' => InWork(t) \/ InPacket(t),
         Open(t)' => Open(t) \/ Waits(t), ~(t \in p'.need /\ t \in p'.slice)
  PROVE  LifeOK(t)'
<1>1. LifeOK(t) /\ FetchOK(t)
  BY DEF LifeInv, LifeOK
<1>2. SameRecords(t) /\ SamePlatform(t) /\ SameResult(t) /\ SameMonitor(t)
  BY SameThreads DEF SameRecords, SamePlatform
<1>3. Sent(t)' => Sent(t)
  BY <1>2, SameThreads DEF Sent, SameResult
<1>4. Apart(t)'
  BY DEF Apart
<1> QED BY <1>1, <1>2, <1>3, <1>4, Untouched DEF FetchOK

LEMMA RoundLife ==
  ASSUME LifeInv, BeginRound \/ EndRound \/ \E d \in Devices : CutSlice(d), NEW t \in Tasks
  PROVE  LifeOK(t)'
<1>1. UNCHANGED <<mem, row, total, fetched, work, queue, r, m>>
  BY DEF BeginRound, EndRound, CutSlice, store, budget
<1>2. PAt(t) = "elsewhere" /\ FetchOK(t) /\ p.at \in {"idle", "slices"}
  BY DEF BeginRound, EndRound, CutSlice, PAt, LifeInv, LifeOK
<1>3. CASE EndRound
  <2>1. p'.at = "idle" /\ p'.need = {} /\ p'.slice = {} /\ p'.packet = {}
    BY <1>3, IdleTypes DEF EndRound
  <2> QED BY <1>1, <1>2, <2>1, SameThreads, PlatformMoves DEF PAt, InPacket, Open
<1>4. CASE BeginRound
  <2>1. p'.at = "slices" /\ p'.need = InStatus(0) /\ p'.slice = {} /\ p'.packet = {}
    BY <1>4 DEF BeginRound, PIdle
  <2>2. t \in InStatus(0) => Waits(t)
    BY <1>2 DEF InStatus, FetchOK, Waits, Has
  <2> QED BY <1>1, <1>2, <2>1, <2>2, SameThreads, PlatformMoves DEF PAt, InPacket, Open
<1>5. ASSUME NEW d \in Devices, CutSlice(d) PROVE LifeOK(t)'
  <2>1. PICK S \in SUBSET p.need :
          p' = [p EXCEPT !.devs = @ \ {d}, !.need = @ \ S,
                         !.at = IF S # {} /\ d \in online THEN "pack" ELSE "slices",
                         !.device = IF S # {} /\ d \in online THEN d ELSE None,
                         !.slice = IF d \in online THEN S ELSE {}]
    BY <1>5 DEF CutSlice
  <2>2. p'.at \in {"pack", "slices"} /\ p'.packet = p.packet
        /\ p'.need = p.need \ S /\ p'.slice \in {S, {}}
    BY <2>1 DEF LifeInv, TypeOK, PlatformOK
  <2>3. PAt(t)' = "elsewhere"
    BY <2>2 DEF PAt
  <2>4. (InPacket(t)' => InPacket(t)) /\ (Open(t)' => Open(t)) /\ ~(t \in p'.need /\ t \in p'.slice)
    BY <1>2, <2>2, <2>3 DEF InPacket, Open
  <2> QED BY <1>1, <1>2, <2>3, <2>4, SameThreads, PlatformMoves
<1> QED BY <1>3, <1>4, <1>5

LEMMA FlushLife ==
  ASSUME LifeInv, Flush, NEW t \in Tasks
  PROVE  LifeOK(t)'
<1>1. UNCHANGED <<mem, row, total, fetched, queue, r, m>> /\ p.at = "flush"
  BY DEF Flush, store
<1>2. PAt(t) = "elsewhere" /\ FetchOK(t)
  BY <1>1 DEF PAt, LifeInv, LifeOK
<1>3. PICK gone \in BOOLEAN : Send(p.device, p.packet, gone)
  BY DEF Flush
<1>4. p.device \in Devices /\ p.packet \in SUBSET Tasks
  BY <1>1 DEF LifeInv, TypeOK, PlatformOK
<1>5. \A e \in Devices : work'[e] \subseteq work[e] \cup p.packet
  BY <1>3, <1>4, SendWork DEF LifeInv
<1>6. InWork(t)' => InWork(t) \/ InPacket(t)
  BY <1>2, <1>5 DEF InWork, InPacket
<1>7. p'.at \in {"slices", "pack"} /\ p'.packet = {} /\ p'.need = p.need /\ p'.slice \subseteq p.slice
  BY DEF Flush, LifeInv, TypeOK, PlatformOK
<1>8. /\ PAt(t)' = "elsewhere" /\ ~InPacket(t)' /\ (Open(t)' => Open(t))
      /\ ~(t \in p'.need /\ t \in p'.slice)
  BY <1>2, <1>7 DEF PAt, InPacket, Open, FetchOK, Apart
<1> QED BY <1>1, <1>2, <1>6, <1>8, PlatformMoves

(* What setting the device of task u does, or marking it as assigned.      *)
LEMMA SetDeviceAt ==
  ASSUME NEW table \in Table, NEW u \in Tasks, NEW d \in Devices
  PROVE  LET new == SetDevice(table, u, d)
         IN /\ new \in Table
            /\ \A t \in Tasks \ {u} : new[t] = table[t]
            /\ Has(new, u) <=> Has(table, u)
            /\ Has(new, u) => /\ new[u].device = d /\ new[u].status = table[u].status
                              /\ new[u].result = table[u].result
<1>1. SetDevice(table, u, d) \in Table
  BY SetDeviceType
<1>2. CASE ~Has(table, u)
  BY <1>1, <1>2 DEF SetDevice
<1>3. CASE Has(table, u)
  <2>1. table[u] \in Record /\ [table[u] EXCEPT !.device = d] \in Record
    BY <1>3 DEF Has, Table, Record
  <2>2. SetDevice(table, u, d) = [table EXCEPT ![u] = [table[u] EXCEPT !.device = d]]
    BY <1>3 DEF SetDevice
  <2> QED BY <1>1, <1>3, <2>1, <2>2, NoneIsNoRecord DEF Has, Table, Record
<1> QED BY <1>2, <1>3

LEMMA MarkedAt ==
  ASSUME NEW table \in Table, NEW u \in Tasks
  PROVE  /\ \A t \in Tasks \ {u} : SetResult(table, u, 1, 0)[t] = table[t]
         /\ Has(SetResult(table, u, 1, 0), u) <=> Has(table, u)
         /\ Has(table, u) => /\ SetResult(table, u, 1, 0)[u].status = 1
                             /\ SetResult(table, u, 1, 0)[u].device = table[u].device
<1>1. CASE ~Has(table, u)
  BY <1>1 DEF SetResult
<1>2. CASE Has(table, u)
  <2>0. table[u] \in Record
    BY <1>2 DEF Has, Table
  <2>1. [table[u] EXCEPT !.status = 1, !.result = 0] \in Record
    <3>1. 1 \in 0 .. 2 /\ 0 \in 0 .. 2 /\ (1 = 2 <=> 0 # 0)
      OBVIOUS
    <3> QED BY <2>0, <3>1 DEF Record
  <2>2. SetResult(table, u, 1, 0) =
          [table EXCEPT ![u] = [table[u] EXCEPT !.status = 1, !.result = 0]]
    BY <1>2 DEF SetResult
  <2> QED BY <1>2, <2>0, <2>1, <2>2, NoneIsNoRecord DEF Has, Table, Record
<1> QED BY <1>1, <1>2

(* The tasks other than the one that is being packed.                      *)
PackStep(u) ==
  \/ Pack(u)
  \/ u = p.task /\ (PackAssignRow \/ PackMarkMem \/ PackMarkRow)

LEMMA PackOthers ==
  ASSUME LifeInv, NEW u \in Tasks, NEW t \in Tasks, t # u, PackStep(u)
  PROVE  LifeOK(t)'
<1> USE DEF PackStep
<1>1. /\ UNCHANGED <<total, fetched, work, queue, r, m>>
      /\ LifeOK(t) /\ FetchOK(t) /\ mem \in Table /\ row \in Table /\ p.device \in Devices
  BY DEF Pack, PackAssignRow, PackMarkMem, PackMarkRow, budget, LifeInv, LifeOK, TypeOK,
         StoreOK, PlatformOK
<1>2. SameRecords(t)
  <2>1. SetDevice(mem, u, p.device)[t] = mem[t] /\ SetDevice(row, u, p.device)[t] = row[t]
    BY <1>1, SetDeviceAt
  <2>2. SetResult(mem, u, 1, 0)[t] = mem[t] /\ SetResult(row, u, 1, 0)[t] = row[t]
    BY <1>1, MarkedAt
  <2> QED BY <1>1, <2>1, <2>2 DEF SameRecords, Pack, PackAssignRow, PackMarkMem, PackMarkRow
<1>3. /\ p'.need = p.need /\ p'.slice \subseteq p.slice
      /\ t \in p'.packet <=> t \in p.packet
      /\ PAt(t) = "elsewhere" /\ PAt(t)' = "elsewhere"
  <2>1. CASE Pack(u)
    BY <2>1 DEF Pack, PAt, LifeInv, TypeOK, PlatformOK
  <2>2. CASE u = p.task /\ (PackAssignRow \/ PackMarkMem)
    BY <2>2 DEF PackAssignRow, PackMarkMem, PAt, LifeInv, TypeOK, PlatformOK
  <2>3. CASE u = p.task /\ PackMarkRow
    BY <2>3 DEF PackMarkRow, PAt, LifeInv, TypeOK, PlatformOK
  <2> QED BY <2>1, <2>2, <2>3
<1>4. SamePlatform(t) /\ SameResult(t) /\ SameMonitor(t)
  BY <1>1, <1>3, SameThreads DEF SamePlatform
<1>5. (Open(t)' => Open(t)) /\ Apart(t)'
  BY <1>1, <1>3 DEF Open, Apart, FetchOK
<1>6. InPacket(t)' => InPacket(t)
  BY <1>3 DEF InPacket
<1>7. Sent(t)' => Sent(t)
  BY <1>1, <1>4, <1>6, SameThreads DEF Sent, SameResult
<1> QED BY <1>1, <1>2, <1>4, <1>5, <1>7, Untouched DEF FetchOK

(* The task that is being packed.                                          *)
LEMMA PackLife ==
  ASSUME LifeInv, NEW u \in Tasks, Pack(u)
  PROVE  LifeOK(u)'
<1>1. /\ UNCHANGED <<row, total, fetched, work, queue, r, m>>
      /\ mem' = SetDevice(mem, u, p.device) /\ mem \in Table /\ p.device \in Devices
      /\ p.at = "pack" /\ u \in p.slice /\ LifeOK(u) /\ FetchOK(u) /\ AgreeOK(u) /\ FinalOK(u)
  BY DEF Pack, budget, LifeInv, LifeOK, TypeOK, StoreOK, PlatformOK
<1>2. p'.at = "assign_row" /\ p'.task = u /\ p'.need = p.need /\ p'.slice = p.slice \ {u}
      /\ p'.device = p.device
  BY DEF Pack, LifeInv, TypeOK, PlatformOK
<1>3. Waits(u) /\ ~Started(u) /\ ~Sent(u) /\ u \notin p.need
  BY <1>1 DEF FetchOK, Open, Waits, Started, Apart
<1>4. PAt(u) = "elsewhere" /\ PAt(u)' = "assign_row"
  BY <1>1, <1>2 DEF PAt
<1>5. /\ Has(mem', u) /\ mem'[u].status = 0 /\ mem'[u].device = p.device
  BY <1>1, <1>3, SetDeviceAt DEF Waits
<1>6. ~Sent(u)' /\ RAt(u)' = "elsewhere" /\ ~Moving(u)'
  BY <1>1, <1>3, <1>4, SameThreads DEF Sent, InPacket, InList, SameResult, Moving
<1>7. FetchOK(u)'
  BY <1>1, <1>2, <1>3, <1>4, <1>5, <1>6 DEF FetchOK, Waits, Apart, Has
<1>8. AgreeOK(u)'
  <2>1. Has(row, u) /\ ~Has(total, u) /\ row[u].status = 0
    BY <1>1, <1>3, <1>4, <1>6 DEF AgreeOK, Waits, Sent
  <2> QED BY <1>1, <1>2, <1>4, <1>5, <1>6, <2>1 DEF AgreeOK, Has
<1>9. ResultPlaceOK(u)' /\ FinalOK(u)'
  BY <1>1, <1>6 DEF ResultPlaceOK, FinalOK, Has
<1> QED BY <1>7, <1>8, <1>9 DEF LifeOK

LEMMA PackAssignRowLife ==
  ASSUME LifeInv, NEW u \in Tasks, u = p.task, PackAssignRow
  PROVE  LifeOK(u)'
<1>1. /\ UNCHANGED <<mem, total, fetched, work, queue, r, m>>
      /\ row' = SetDevice(row, u, p.device) /\ row \in Table /\ p.device \in Devices
      /\ p.at = "assign_row" /\ LifeOK(u) /\ FetchOK(u) /\ AgreeOK(u) /\ FinalOK(u)
  BY DEF PackAssignRow, budget, LifeInv, LifeOK, TypeOK, StoreOK, PlatformOK
<1>2. p'.at = "mark_mem" /\ p'.task = u /\ p'.need = p.need /\ p'.slice = p.slice
  BY DEF PackAssignRow, LifeInv, TypeOK, PlatformOK
<1>3. PAt(u) = "assign_row" /\ PAt(u)' = "mark_mem"
  BY <1>1, <1>2 DEF PAt
<1>4. Waits(u) /\ ~Started(u) /\ ~Sent(u) /\ u \notin p.need /\ u \notin p.slice
  BY <1>1, <1>3 DEF FetchOK, Open, Waits, Started, Apart
<1>5. ~Sent(u)' /\ RAt(u)' = "elsewhere" /\ ~Moving(u)'
  BY <1>1, <1>3, <1>4, SameThreads DEF Sent, InPacket, InList, SameResult, Moving
<1>6. FetchOK(u)'
  BY <1>1, <1>2, <1>3, <1>4, <1>5 DEF FetchOK, Waits, Apart, Has
<1>7. AgreeOK(u)'
  <2>1. Has(row, u) /\ ~Has(total, u) /\ row[u].status = 0 /\ mem[u].device = p.device
    BY <1>1, <1>3, <1>4, <1>5 DEF AgreeOK, Waits, Sent
  <2>2. Has(row', u) /\ row'[u].status = 0 /\ row'[u].device = p.device
    BY <1>1, <2>1, SetDeviceAt
  <2> QED BY <1>1, <1>2, <1>3, <1>4, <1>5, <2>1, <2>2 DEF AgreeOK, Has, Waits
<1>8. ResultPlaceOK(u)' /\ FinalOK(u)'
  BY <1>1, <1>5 DEF ResultPlaceOK, FinalOK, Has
<1> QED BY <1>6, <1>7, <1>8 DEF LifeOK

LEMMA PackMarkMemLife ==
  ASSUME LifeInv, NEW u \in Tasks, u = p.task, PackMarkMem
  PROVE  LifeOK(u)'
<1>1. /\ UNCHANGED <<row, total, fetched, work, queue, r, m>>
      /\ mem' = SetResult(mem, u, 1, 0) /\ mem \in Table
      /\ p.at = "mark_mem" /\ LifeOK(u) /\ FetchOK(u) /\ AgreeOK(u) /\ FinalOK(u)
  BY DEF PackMarkMem, budget, LifeInv, LifeOK, TypeOK, StoreOK
<1>2. p'.at = "mark_row" /\ p'.task = u /\ p'.need = p.need /\ p'.slice = p.slice
  BY DEF PackMarkMem, LifeInv, TypeOK, PlatformOK
<1>3. PAt(u) = "mark_mem" /\ PAt(u)' = "mark_row"
  BY <1>1, <1>2 DEF PAt
<1>4. Waits(u) /\ ~Started(u) /\ ~Sent(u) /\ u \notin p.need /\ u \notin p.slice
  BY <1>1, <1>3 DEF FetchOK, Open, Waits, Started, Apart
<1>5. RAt(u)' = "elsewhere" /\ ~Moving(u)' /\ ~Open(u)' /\ Apart(u)'
  BY <1>1, <1>2, <1>3, <1>4, SameThreads DEF Sent, InList, SameResult, Moving, Open, Apart
<1>6. Has(mem', u) /\ mem'[u].status = 1 /\ mem'[u].device = mem[u].device
  BY <1>1, <1>4, MarkedAt DEF Waits
<1>7. FetchOK(u)'
  BY <1>1, <1>3, <1>4, <1>5, <1>6 DEF FetchOK, Waits, Started, Has
<1>8. AgreeOK(u)'
  <2>1. Has(row, u) /\ ~Has(total, u) /\ row[u].status = 0 /\ mem[u].device = row[u].device
    BY <1>1, <1>3, <1>4, <1>5 DEF AgreeOK, Waits, Sent, InList, Moving
  <2> QED BY <1>1, <1>3, <1>5, <1>6, <2>1 DEF AgreeOK, Has
<1>9. ResultPlaceOK(u)' /\ FinalOK(u)'
  BY <1>1, <1>5 DEF ResultPlaceOK, FinalOK, Has
<1> QED BY <1>7, <1>8, <1>9 DEF LifeOK

LEMMA PackMarkRowLife ==
  ASSUME LifeInv, NEW u \in Tasks, u = p.task, PackMarkRow
  PROVE  LifeOK(u)'
<1>1. /\ UNCHANGED <<mem, total, fetched, work, queue, r, m>>
      /\ row' = SetResult(row, u, 1, 0) /\ mem \in Table /\ row \in Table
      /\ p.at = "mark_row" /\ LifeOK(u)
      /\ FetchOK(u) /\ AgreeOK(u) /\ ResultPlaceOK(u) /\ FinalOK(u)
  BY DEF PackMarkRow, budget, LifeInv, LifeOK, TypeOK, StoreOK
<1>2. p'.at \in {"flush", "pack"} /\ p'.need = p.need /\ p'.slice = p.slice /\ p'.packet = p.packet
  BY DEF PackMarkRow, LifeInv, TypeOK, PlatformOK
<1>3. PAt(u) = "mark_row" /\ PAt(u)' = "elsewhere"
  BY <1>1, <1>2 DEF PAt
<1>4. /\ SameResult(u) /\ SameMonitor(u)
      /\ (Sent(u)' => Sent(u)) /\ (Open(u)' => Open(u)) /\ Apart(u)'
  BY <1>1, <1>2, <1>3, SameThreads DEF Sent, InPacket, SameResult, Open, Apart, FetchOK
<1>5. Started(u) /\ ~Open(u)'
  BY <1>1, <1>3, <1>4 DEF FetchOK, Started, Waits
<1>6. /\ Has(row', u) <=> Has(row, u)
      /\ Has(row', u) => row'[u].status = 1 /\ row'[u].device = row[u].device
  BY <1>1, MarkedAt
<1>7. FetchOK(u)'
  BY <1>1, <1>3, <1>4, <1>5 DEF FetchOK, Started, Has
<1>8. AgreeOK(u)'
  <2>1. Has(mem, u) => mem[u].status \in {1, 2}
    BY <1>1, <1>5 DEF Started, Table, Record, Has
  <2>2. SUFFICES ASSUME RAt(u) = "elsewhere", fetched[u] = 1 PROVE AgreeOK(u)'
    BY <1>1, <1>4, <1>5 DEF SameResult, Started, AgreeOK
  <2>3. /\ Has(mem, u) <=> Has(row, u)
        /\ Has(mem, u) <=> ~Has(total, u)
        /\ Has(mem, u) => /\ mem[u].status # 2
                          /\ Moving(u) \/ mem[u].device = row[u].device
                          /\ Moving(u) => mem[u].device = m.device
    BY <1>1, <1>3, <2>2 DEF AgreeOK
  <2> QED BY <1>1, <1>3, <1>4, <1>6, <2>1, <2>3 DEF AgreeOK, SameMonitor, Has
<1>9. ResultPlaceOK(u)' /\ FinalOK(u)'
  BY <1>1, <1>4, <1>6 DEF ResultPlaceOK, FinalOK, SameResult, Has
<1> QED BY <1>7, <1>8, <1>9 DEF LifeOK

LEMMA PlatformLife ==
  ASSUME MaxFetch <= 1, LifeInv, PlatformStep \/ \E u \in Tasks : Fetch(u), NEW t \in Tasks
  PROVE  LifeOK(t)'
<1>1. ASSUME NEW u \in Tasks, Pack(u) PROVE LifeOK(t)'
  <2>1. CASE t = u
    BY <1>1, <2>1, PackLife
  <2>2. CASE t # u
    BY <1>1, <2>2, PackOthers DEF PackStep
  <2> QED BY <2>1, <2>2
<1>2. CASE PackAssignRow \/ PackMarkMem \/ PackMarkRow
  <2>1. p.task \in Tasks
    BY <1>2 DEF PackAssignRow, PackMarkMem, PackMarkRow, LifeInv, TypeOK, PlatformOK
  <2>2. CASE t # p.task
    BY <1>2, <2>1, <2>2, PackOthers DEF PackStep
  <2>3. CASE t = p.task
    BY <1>2, <2>3, PackAssignRowLife, PackMarkMemLife, PackMarkRowLife
  <2> QED BY <2>2, <2>3
<1> QED BY <1>1, <1>2, FetchLife, FetchRowLife, RoundLife, FlushLife DEF PlatformStep

-----------------------------------------------------------------------------
(* The result thread.                                                      *)

(* A step of the result thread on task u touches no other task ...         *)
LEMMA ResultOthers ==
  ASSUME LifeInv, NEW u \in Tasks, NEW t \in Tasks, t # u,
         UNCHANGED <<fetched, work, p, m>>,
         mem'[t] = mem[t], row'[t] = row[t], total'[t] = total[t],
         InQueue(t)' => InQueue(t),
         r.at # "idle" => r.msg.task = u, r'.at # "idle" => r'.msg.task = u
  PROVE  LifeOK(t)'
<1>1. LifeOK(t) /\ FetchOK(t)
  BY DEF LifeInv, LifeOK
<1>2. SameRecords(t) /\ SamePlatform(t) /\ SameMonitor(t)
  BY SameThreads DEF SameRecords
<1>3. RAt(t) = "elsewhere" /\ RAt(t)' = "elsewhere"
  BY DEF RAt
<1>4. (Sent(t)' => Sent(t)) /\ (Open(t)' <=> Open(t)) /\ (Apart(t)' <=> Apart(t))
  BY <1>3, SameThreads DEF Sent
<1> QED BY <1>1, <1>2, <1>3, <1>4, Untouched DEF FetchOK, SameResult

(* ... and u itself is one that a device has reported.                     *)
LEMMA ReportedLife ==
  ASSUME LifeInv, NEW u \in Tasks, UNCHANGED <<fetched, work, p, m>>,
         Sent(u), Has(mem', u) => mem'[u].status # 0,
         AgreeOK(u)', ResultPlaceOK(u)', FinalOK(u)'
  PROVE  LifeOK(u)'
<1>1. FetchOK(u) /\ (Open(u)' <=> Open(u)) /\ (Apart(u)' <=> Apart(u))
  BY SameThreads DEF LifeInv, LifeOK
<1>2. Started(u) /\ ~Open(u)
  BY <1>1 DEF FetchOK, Started, Waits
<1>3. PAt(u)' = PAt(u) /\ fetched'[u] = 1 /\ PAt(u) # "row"
  BY <1>1, <1>2 DEF PAt, Started, FetchOK
<1>4. FetchOK(u)'
  BY <1>1, <1>2, <1>3 DEF FetchOK, Started, Has
<1> QED BY <1>4 DEF LifeOK

LEMMA TakeResultLife ==
  ASSUME LifeInv, TakeResult, NEW t \in Tasks
  PROVE  LifeOK(t)'
<1>1. queue \in Seq(Msg) /\ queue # <<>> /\ mem \in Table
  BY DEF TakeResult, LifeInv, TypeOK, DeviceSideOK, StoreOK
<1>2. PICK u \in Tasks, d \in Devices : u = queue[1].task /\ d = queue[1].device
  <2>1. queue[1] \in Msg
    BY <1>1
  <2> QED BY <2>1 DEF Msg
<1>3. /\ r.at = "idle" /\ r'.at = "assign_row" /\ r'.msg.task = u
      /\ mem' = SetDevice(mem, u, d) /\ queue' = Tail(queue)
      /\ UNCHANGED <<row, total, fetched, work, p, m>>
  BY <1>1, <1>2 DEF TakeResult, budget
<1>4. CASE t # u
  <2>1. mem'[t] = mem[t]
    BY <1>1, <1>3, <1>4, SetDeviceAt
  <2>2. InQueue(t)' => InQueue(t)
    <3>1. \A i \in 1 .. Len(queue') : i + 1 \in 1 .. Len(queue) /\ queue'[i] = queue[i + 1]
      BY <1>1, <1>3
    <3> QED BY <3>1 DEF InQueue
  <2> QED BY <1>3, <1>4, <2>1, <2>2, ResultOthers
<1>5. CASE t = u
  <2>1. Sent(u)
    BY <1>1, <1>2 DEF Sent, InQueue
  <2>2. /\ RAt(u) = "elsewhere" /\ RAt(u)' = "assign_row"
        /\ FetchOK(u) /\ AgreeOK(u) /\ FinalOK(u)
    BY <1>3 DEF RAt, LifeInv, LifeOK
  <2>3. fetched[u] = 1 /\ (Has(mem, u) => mem[u].status # 0)
    BY <2>1, <2>2 DEF FetchOK, Started
  <2>4. /\ Has(mem', u) <=> Has(mem, u)
        /\ Has(mem', u) => mem'[u].status = mem[u].status
    BY <1>1, <1>3, SetDeviceAt
  <2>5. AgreeOK(u)' /\ ResultPlaceOK(u)' /\ FinalOK(u)'
    BY <1>3, <2>2, <2>3, <2>4 DEF AgreeOK, ResultPlaceOK, FinalOK, Has
  <2> QED BY <1>3, <1>5, <2>1, <2>3, <2>4, <2>5, ReportedLife
<1> QED BY <1>4, <1>5

(* The later steps, all on the task of the message.                        *)
LEMMA ResultMessage ==
  ASSUME LifeInv, r.at # "idle"
  PROVE  /\ r.msg.task \in Tasks /\ r.msg.device \in Devices /\ r.msg.result \in {1, 2}
         /\ RAt(r.msg.task) = r.at /\ Sent(r.msg.task)
         /\ fetched[r.msg.task] = 1
         /\ Has(mem, r.msg.task) => mem[r.msg.task].status \in {1, 2}
<1>1. r.msg \in Msg /\ mem \in Table
  BY DEF LifeInv, TypeOK, ResultOK, StoreOK
<1>2. r.msg.task \in Tasks /\ r.msg.device \in Devices /\ r.msg.result \in {1, 2}
  BY <1>1 DEF Msg
<1>3. RAt(r.msg.task) = r.at /\ r.at # "elsewhere"
  BY DEF RAt, LifeInv, TypeOK, ResultOK
<1>4. Sent(r.msg.task)
  BY <1>3 DEF Sent
<1>5. Started(r.msg.task)
  BY <1>2, <1>4 DEF LifeInv, LifeOK, FetchOK
<1> QED BY <1>1, <1>2, <1>3, <1>4, <1>5 DEF Started, Table, Record, Has

LEMMA ReportWritten ==
  ASSUME NEW table \in Table, NEW u \in Tasks, NEW res \in {1, 2}
  PROVE  /\ \A t \in Tasks \ {u} : SetResult(table, u, 2, res)[t] = table[t]
         /\ Has(SetResult(table, u, 2, res), u) <=> Has(table, u)
         /\ Has(table, u) => /\ SetResult(table, u, 2, res)[u].status = 2
                             /\ SetResult(table, u, 2, res)[u].result = res
                             /\ SetResult(table, u, 2, res)[u].device = table[u].device
<1>1. CASE ~Has(table, u)
  BY <1>1 DEF SetResult
<1>2. CASE Has(table, u)
  <2>0. table[u] \in Record
    BY <1>2 DEF Has, Table
  <2>1. [table[u] EXCEPT !.status = 2, !.result = res] \in Record
    <3>1. 2 \in 0 .. 2 /\ res \in 0 .. 2 /\ (2 = 2 <=> res # 0)
      OBVIOUS
    <3> QED BY <2>0, <3>1 DEF Record
  <2>2. SetResult(table, u, 2, res) =
          [table EXCEPT ![u] = [table[u] EXCEPT !.status = 2, !.result = res]]
    BY <1>2 DEF SetResult
  <2> QED BY <1>2, <2>0, <2>1, <2>2, NoneIsNoRecord DEF Has, Table, Record
<1> QED BY <1>1, <1>2

LEMMA ResultMarkLife ==
  ASSUME LifeInv, ResultAssignRow \/ ResultMarkMem \/ ResultMarkRow, NEW t \in Tasks
  PROVE  LifeOK(t)'
<1>0. PICK u \in Tasks : u = r.msg.task
  BY ResultMessage DEF ResultAssignRow, ResultMarkMem, ResultMarkRow, ResultDelete, ResultArchive,
                       ResultRemove, ResultNotify
<1>1. /\ UNCHANGED <<total, fetched, work, p, m, queue>>
      /\ r'.msg = r.msg /\ mem \in Table /\ row \in Table /\ r.at # "idle"
  BY DEF ResultAssignRow, ResultMarkMem, ResultMarkRow, ToR, budget, LifeInv, TypeOK, StoreOK,
         ResultOK
<1>2. /\ u \in Tasks /\ r.msg.device \in Devices /\ r.msg.result \in {1, 2}
      /\ RAt(u) = r.at /\ Sent(u) /\ fetched[u] = 1
      /\ Has(mem, u) => mem[u].status \in {1, 2}
  BY <1>0, <1>1, ResultMessage
<1>3. RAt(u)' = r'.at /\ r'.at # "elsewhere" /\ r'.at # "idle"
      /\ LifeOK(u) /\ ResultPlaceOK(u) /\ FinalOK(u)
  BY <1>0, <1>1, <1>2 DEF RAt, ResultAssignRow, ResultMarkMem, ResultMarkRow, ToR, LifeInv, LifeOK,
                    TypeOK, ResultOK
<1>4. CASE t # u
  <2>1. mem'[t] = mem[t]
    BY <1>0, <1>1, <1>2, <1>4, ReportWritten DEF ResultAssignRow, ResultMarkMem, ResultMarkRow
  <2>2. row'[t] = row[t]
    <3>1. SetDevice(row, u, r.msg.device)[t] = row[t]
      BY <1>1, <1>2, <1>4, SetDeviceAt
    <3>2. SetResult(row, u, 2, r.msg.result)[t] = row[t]
      BY <1>1, <1>2, <1>4, ReportWritten
    <3> QED BY <1>0, <3>1, <3>2 DEF ResultAssignRow, ResultMarkMem, ResultMarkRow
  <2> QED BY <1>0, <1>1, <1>2, <1>4, <2>1, <2>2, SameThreads, ResultOthers
<1>5. CASE ResultAssignRow
  <2>1. Has(row', u) <=> Has(row, u)
    BY <1>0, <1>1, <1>2, <1>5, SetDeviceAt DEF ResultAssignRow
  <2>2. mem' = mem /\ r.at = "assign_row" /\ r'.at = "mark_mem"
    BY <1>5 DEF ResultAssignRow, ToR, LifeInv, TypeOK, ResultOK
  <2>3. AgreeOK(u)' /\ ResultPlaceOK(u)' /\ FinalOK(u)'
    BY <1>1, <1>2, <1>3, <2>1, <2>2 DEF AgreeOK, ResultPlaceOK, FinalOK, Has
  <2>4. Has(mem', u) => mem'[u].status # 0
    BY <1>2, <2>2
  <2> QED BY <1>1, <1>2, <1>4, <2>3, <2>4, ReportedLife
<1>6. CASE ResultMarkMem
  <2>1. /\ Has(mem', u) <=> Has(mem, u)
        /\ Has(mem', u) => mem'[u].status = 2 /\ mem'[u].result = r.msg.result
    BY <1>0, <1>1, <1>2, <1>6, ReportWritten DEF ResultMarkMem
  <2>2. row' = row /\ r.at = "mark_mem" /\ r'.at = "mark_row"
    BY <1>6 DEF ResultMarkMem, ToR, LifeInv, TypeOK, ResultOK
  <2>3. AgreeOK(u)' /\ ResultPlaceOK(u)' /\ FinalOK(u)'
    BY <1>1, <1>2, <1>3, <2>1, <2>2 DEF AgreeOK, ResultPlaceOK, FinalOK, Has
  <2>4. Has(mem', u) => mem'[u].status # 0
    BY <2>1
  <2> QED BY <1>1, <1>2, <1>4, <2>3, <2>4, ReportedLife
<1>7. CASE ResultMarkRow
  <2>1. Has(row', u) <=> Has(row, u)
    BY <1>0, <1>1, <1>2, <1>7, ReportWritten DEF ResultMarkRow
  <2>2. mem' = mem /\ r.at = "mark_row" /\ r'.at = "delete"
    BY <1>7 DEF ResultMarkRow, ToR, LifeInv, TypeOK, ResultOK
  <2>3. AgreeOK(u)' /\ ResultPlaceOK(u)' /\ FinalOK(u)'
    BY <1>1, <1>2, <1>3, <2>1, <2>2 DEF AgreeOK, ResultPlaceOK, FinalOK, Has
  <2>4. Has(mem', u) => mem'[u].status # 0
    BY <1>2, <2>2
  <2> QED BY <1>1, <1>2, <1>4, <2>3, <2>4, ReportedLife
<1> QED BY <1>5, <1>6, <1>7

LEMMA ResultDeleteLife ==
  ASSUME LifeInv, ResultDelete, NEW t \in Tasks
  PROVE  LifeOK(t)'
<1>0. PICK u \in Tasks : u = r.msg.task
  BY ResultMessage DEF ResultAssignRow, ResultMarkMem, ResultMarkRow, ResultDelete, ResultArchive,
                       ResultRemove, ResultNotify
<1>1. /\ UNCHANGED <<mem, total, fetched, work, p, m, queue>> /\ row' = [row EXCEPT ![u] = None]
      /\ r'.msg = r.msg /\ row \in Table /\ r.at = "delete" /\ r'.at = "archive"
  BY <1>0 DEF ResultDelete, ToR, budget, LifeInv, TypeOK, StoreOK, ResultOK
<1>2. /\ u \in Tasks /\ RAt(u) = r.at /\ Sent(u) /\ fetched[u] = 1
      /\ Has(mem, u) => mem[u].status \in {1, 2}
  BY <1>0, <1>1, ResultMessage
<1>3. RAt(u)' = "archive" /\ LifeOK(u) /\ ResultPlaceOK(u) /\ FinalOK(u)
  BY <1>0, <1>1, <1>2 DEF RAt, LifeInv, LifeOK
<1>4. row'[u] = None /\ (t # u => row'[t] = row[t])
  BY <1>1, <1>2 DEF Table
<1>5. CASE t # u
  BY <1>0, <1>1, <1>2, <1>4, <1>5, SameThreads, ResultOthers
<1>6. AgreeOK(u)' /\ ResultPlaceOK(u)' /\ FinalOK(u)'
  BY <1>1, <1>2, <1>3, <1>4 DEF AgreeOK, ResultPlaceOK, FinalOK, Has
<1>7. Has(mem', u) => mem'[u].status # 0
  BY <1>1, <1>2
<1> QED BY <1>1, <1>2, <1>5, <1>6, <1>7, ReportedLife

LEMMA ResultArchiveLife ==
  ASSUME LifeInv, ResultArchive, NEW t \in Tasks
  PROVE  LifeOK(t)'
<1>0. PICK u \in Tasks : u = r.msg.task
  BY ResultMessage DEF ResultAssignRow, ResultMarkMem, ResultMarkRow, ResultDelete, ResultArchive,
                       ResultRemove, ResultNotify
<1>1. /\ UNCHANGED <<mem, row, fetched, work, p, m, queue>>
      /\ total' = Archived(u, 2, r.msg.result)
      /\ r'.msg = r.msg /\ mem \in Table /\ total \in Table
      /\ r.at = "archive" /\ r'.at = "remove"
  BY <1>0 DEF ResultArchive, ToR, budget, LifeInv, TypeOK, StoreOK, ResultOK
<1>2. /\ u \in Tasks /\ RAt(u) = r.at /\ Sent(u) /\ fetched[u] = 1 /\ r.msg.result \in {1, 2}
      /\ Has(mem, u) => mem[u].status \in {1, 2}
  BY <1>0, <1>1, ResultMessage
<1>3. RAt(u)' = "remove" /\ LifeOK(u) /\ ResultPlaceOK(u) /\ FinalOK(u)
  BY <1>0, <1>1, <1>2 DEF RAt, LifeInv, LifeOK
<1>4. /\ t # u => total'[t] = total[t]
      /\ Has(total', u) /\ total'[u].status = 2 /\ total'[u].result = r.msg.result
  <2>1. CASE Has(mem, u)
    <3>1. ~Has(total, u) /\ mem[u].status = 2 /\ mem[u].result = r.msg.result
      BY <1>1, <1>2, <1>3, <2>1 DEF ResultPlaceOK
    <3>2. total' = [total EXCEPT ![u] = mem[u]]
      BY <1>1, <2>1, <3>1 DEF Archived
    <3> QED BY <1>1, <1>2, <2>1, <3>1, <3>2 DEF Table, Has
  <2>2. CASE ~Has(mem, u)
    <3>1. Has(total, u) /\ total' = SetResult(total, u, 2, r.msg.result)
      BY <1>1, <1>2, <1>3, <2>2 DEF ResultPlaceOK, Archived
    <3> QED BY <1>1, <1>2, <3>1, ReportWritten
  <2> QED BY <2>1, <2>2
<1>5. CASE t # u
  BY <1>0, <1>1, <1>2, <1>4, <1>5, SameThreads, ResultOthers
<1>6. AgreeOK(u)' /\ ResultPlaceOK(u)' /\ FinalOK(u)'
  BY <1>1, <1>2, <1>3, <1>4 DEF AgreeOK, ResultPlaceOK, FinalOK, Has
<1>7. Has(mem', u) => mem'[u].status # 0
  BY <1>1, <1>2
<1> QED BY <1>1, <1>2, <1>5, <1>6, <1>7, ReportedLife

LEMMA ResultEndLife ==
  ASSUME LifeInv, ResultRemove \/ ResultNotify, NEW t \in Tasks
  PROVE  LifeOK(t)'
<1>0. PICK u \in Tasks : u = r.msg.task
  BY ResultMessage DEF ResultAssignRow, ResultMarkMem, ResultMarkRow, ResultDelete, ResultArchive,
                       ResultRemove, ResultNotify
<1>1. /\ UNCHANGED <<row, total, fetched, work, p, m, queue>>
      /\ r'.at # "idle" => r'.msg = r.msg /\ r'.at = "notify" /\ r.msg.result = 1
      /\ mem \in Table /\ r.at \in {"remove", "notify"}
  BY IdleTypes DEF ResultRemove, ResultNotify, ToR, budget, store, LifeInv, TypeOK, StoreOK, ResultOK
<1>2. /\ u \in Tasks /\ RAt(u) = r.at /\ Sent(u) /\ fetched[u] = 1
  BY <1>0, <1>1, ResultMessage
<1>3. LifeOK(u) /\ ResultPlaceOK(u) /\ FinalOK(u)
  BY <1>2 DEF LifeInv, LifeOK
<1>4. RAt(u)' \in {"notify", "elsewhere"} /\ (RAt(u)' = "notify" => r'.msg = r.msg /\ r.msg.result = 1)
  BY <1>0, <1>1 DEF RAt
<1>5. ~Has(mem', u) /\ (t # u => mem'[t] = mem[t])
  <2>1. CASE ResultRemove
    BY <1>0, <1>1, <1>2, <2>1 DEF ResultRemove, Table, Has
  <2>2. CASE ResultNotify
    BY <1>2, <1>3, <2>2 DEF ResultNotify, store, ResultPlaceOK
  <2> QED BY <2>1, <2>2
<1>6. CASE t # u
  BY <1>0, <1>1, <1>2, <1>5, <1>6, SameThreads, ResultOthers
<1>7. ~Has(row, u) /\ Has(total, u) /\ total[u].result = r.msg.result
  BY <1>1, <1>2, <1>3 DEF ResultPlaceOK
<1>8. AgreeOK(u)' /\ ResultPlaceOK(u)' /\ FinalOK(u)'
  BY <1>1, <1>3, <1>4, <1>5, <1>7 DEF AgreeOK, ResultPlaceOK, FinalOK, Has
<1> QED BY <1>1, <1>2, <1>5, <1>6, <1>8, ReportedLife

LEMMA ResultLife ==
  ASSUME LifeInv, ResultStep, NEW t \in Tasks
  PROVE  LifeOK(t)'
BY TakeResultLife, ResultMarkLife, ResultDeleteLife, ResultArchiveLife, ResultEndLife DEF ResultStep

-----------------------------------------------------------------------------
(* The monitor, the TCP thread and the faults.                             *)

(* They give nothing to a device but what a device has, what the monitor   *)
(* has, or what is in status 1.                                            *)
LEMMA Resending ==
  ASSUME LifeInv, NEW t \in Tasks, UNCHANGED <<mem, row, total, fetched, p, r>>,
         SameMonitor(t),
         InWork(t)' \/ InQueue(t)' \/ InList(t)' => Sent(t) \/ t \in InStatus(1)
  PROVE  LifeOK(t)'
<1>1. LifeOK(t) /\ FetchOK(t)
  BY DEF LifeInv, LifeOK
<1>2. /\ SameRecords(t) /\ SamePlatform(t) /\ SameResult(t)
      /\ (Open(t)' <=> Open(t)) /\ (Apart(t)' <=> Apart(t)) /\ (InPacket(t)' <=> InPacket(t))
  BY SameThreads DEF SameRecords
<1>3. t \in InStatus(1) => Started(t)
  <2>1. Fresh.status = 0
    BY DEF Fresh
  <2> QED BY <1>1, <2>1 DEF InStatus, FetchOK, Started, Has
<1>4. Sent(t)' => Started(t)
  BY <1>1, <1>2, <1>3 DEF Sent, FetchOK, SameResult
<1> QED BY <1>1, <1>2, <1>4, Untouched DEF FetchOK

LEMMA MoveLife ==
  ASSUME LifeInv, MoveMem \/ MoveRow, NEW t \in Tasks
  PROVE  LifeOK(t)'
<1>0. PICK u \in Tasks, d \in Devices : u = m.task /\ d = m.device
  BY DEF MoveMem, MoveRow, LifeInv, TypeOK, MonitorOK
<1>1. /\ UNCHANGED <<total, fetched, work, p, r, queue>>
      /\ m'.task = u /\ m'.list = m.list /\ mem \in Table /\ row \in Table
  BY <1>0 DEF MoveMem, MoveRow, budget, LifeInv, TypeOK, StoreOK, MonitorOK
<1>2. /\ SamePlatform(t) /\ SameResult(t) /\ (InList(t)' <=> InList(t))
      /\ (Sent(t)' <=> Sent(t)) /\ (Open(t)' <=> Open(t)) /\ (Apart(t)' <=> Apart(t))
  BY <1>0, <1>1, SameThreads DEF Sent, InList, SameResult
<1>3. LifeOK(t) /\ FetchOK(t) /\ AgreeOK(t) /\ ResultPlaceOK(t) /\ FinalOK(t)
  BY DEF LifeInv, LifeOK
<1>4. CASE t # u
  <2>1. mem'[t] = mem[t] /\ row'[t] = row[t]
    BY <1>0, <1>1, <1>4, SetDeviceAt DEF MoveMem, MoveRow
  <2> QED BY <1>0, <1>1, <1>2, <1>3, <1>4, <2>1, Untouched
          DEF SameRecords, SameMonitor, Moving, FetchOK
<1>5. CASE t = u
  <2>1. Started(u) /\ ~Open(u) /\ PAt(u) # "assign_row" /\ PAt(u) # "row"
    BY <1>0, <1>3, <1>5 DEF Sent, InList, FetchOK, Started, Waits, Open
  <2>2. CASE MoveMem
    <3>1. /\ Has(mem', u) <=> Has(mem, u)
          /\ Has(mem', u) => /\ mem'[u].status = mem[u].status
                             /\ mem'[u].result = mem[u].result /\ mem'[u].device = d
          /\ row' = row /\ Moving(u)' /\ m'.device = d
      BY <1>0, <1>1, <2>2, SetDeviceAt DEF MoveMem, Moving, LifeInv, TypeOK, MonitorOK
    <3>2. FetchOK(u)'
      BY <1>1, <1>2, <1>3, <1>5, <2>1, <3>1 DEF FetchOK, Started, SamePlatform, Has
    <3>3. AgreeOK(u)'
      BY <1>1, <1>2, <1>3, <1>5, <2>1, <3>1 DEF AgreeOK, SamePlatform, SameResult, Has
    <3>4. ResultPlaceOK(u)' /\ FinalOK(u)'
      BY <1>1, <1>2, <1>3, <1>5, <3>1 DEF ResultPlaceOK, FinalOK, SameResult, Has
    <3> QED BY <1>5, <3>2, <3>3, <3>4 DEF LifeOK
  <2>3. CASE MoveRow
    <3>1. /\ Has(row', u) <=> Has(row, u)
          /\ Has(row', u) => row'[u].status = row[u].status /\ row'[u].device = d
          /\ mem' = mem /\ Moving(u) /\ ~Moving(u)'
      BY <1>0, <1>1, <2>3, SetDeviceAt DEF MoveRow, Moving, LifeInv, TypeOK, MonitorOK
    <3>2. FetchOK(u)'
      BY <1>1, <1>2, <1>3, <1>5, <2>1, <3>1 DEF FetchOK, Started, SamePlatform, Has
    <3>3. AgreeOK(u)'
      BY <1>0, <1>1, <1>2, <1>3, <1>5, <2>1, <3>1 DEF AgreeOK, SamePlatform, SameResult, Has
    <3>4. ResultPlaceOK(u)' /\ FinalOK(u)'
      BY <1>1, <1>2, <1>3, <1>5, <3>1 DEF ResultPlaceOK, FinalOK, SameResult, Has
    <3> QED BY <1>5, <3>2, <3>3, <3>4 DEF LifeOK
  <2> QED BY <2>2, <2>3
<1> QED BY <1>4, <1>5

(* The monitor goes on with a task of its list.                            *)
LEMMA LookAtMonitor ==
  ASSUME NEW u, LookAt(u)
  PROVE  /\ u \in m.list
         /\ m'.at # "move_row" /\ m'.list \subseteq m.list \ {u} /\ m'.task \in {u, None}
<1> DEFINE rest == m.list \ {u}
<1>1. \/ m' = MIdle
      \/ m' = [MIdle EXCEPT !.at = "next", !.list = rest]
      \/ m' = [at |-> "send", list |-> rest, task |-> u, device |-> None]
      \/ \E d \in Picks : m' = [at |-> "move", list |-> rest, task |-> u, device |-> d]
  BY DEF LookAt
<1>2. CASE m' = MIdle
  BY <1>2 DEF MIdle, LookAt
<1>3. CASE m' = [MIdle EXCEPT !.at = "next", !.list = rest]
  BY <1>3 DEF MIdle, LookAt
<1>4. CASE m' = [at |-> "send", list |-> rest, task |-> u, device |-> None]
  BY <1>4 DEF LookAt
<1>5. CASE \E d \in Picks : m' = [at |-> "move", list |-> rest, task |-> u, device |-> d]
  BY <1>5 DEF LookAt
<1> QED BY <1>1, <1>2, <1>3, <1>4, <1>5

LEMMA MonitorLife ==
  ASSUME LifeInv, MonitorStep \/ \E S \in SUBSET Tasks : Collect(S), NEW t \in Tasks
  PROVE  LifeOK(t)'
<1>1. ASSUME NEW S \in SUBSET Tasks, Collect(S) PROVE LifeOK(t)'
  <2>1. /\ UNCHANGED <<mem, row, total, fetched, work, queue, p, r>>
        /\ m.at = "idle" /\ m'.at = "next" /\ m'.list \subseteq InStatus(1) /\ m'.task = None
    BY <1>1 DEF Collect, store, budget, MIdle
  <2>2. t # None
    BY NamesDiffer
  <2> QED BY <2>1, <2>2, SameThreads, Resending DEF SameMonitor, Moving, InList, Sent
<1>2. ASSUME NEW u \in Tasks, LookAt(u) PROVE LifeOK(t)'
  <2>3. /\ m'.at # "move_row" /\ m'.list \subseteq m.list \ {u} /\ m'.task \in {u, None}
    BY <1>2, LookAtMonitor
  <2>4. /\ UNCHANGED <<mem, row, total, fetched, work, queue, p, r>>
        /\ m.at = "next" /\ u \in m.list
    BY <1>2 DEF LookAt, store, budget
  <2>2. t # None
    BY NamesDiffer
  <2> QED BY <2>2, <2>3, <2>4, SameThreads, Resending DEF SameMonitor, Moving, InList, Sent
<1>3. CASE MonitorSend
  <2>1. /\ UNCHANGED <<mem, row, total, fetched, queue, p, r>>
        /\ m.at = "send" /\ m'.at # "move_row" /\ m'.list = m.list /\ m'.task = None
    BY <1>3 DEF MonitorSend, store, MIdle
  <2>2. \A e \in Devices : work'[e] \subseteq work[e] \cup {m.task}
    <3>1. CASE m.task \in InStatus(1) /\ mem[m.task].device \in online
      <4>1. PICK gone \in BOOLEAN : Send(mem[m.task].device, {m.task}, gone)
        BY <1>3, <3>1 DEF MonitorSend
      <4>2. mem[m.task].device \in Devices /\ {m.task} \in SUBSET Tasks
        BY <3>1 DEF LifeInv, TypeOK, DeviceSideOK, InStatus
      <4> QED BY <4>1, <4>2, SendWork DEF LifeInv
    <3>2. CASE ~(m.task \in InStatus(1) /\ mem[m.task].device \in online)
      BY <1>3, <3>2 DEF MonitorSend
    <3> QED BY <3>1, <3>2
  <2>3. InWork(t)' => InWork(t) \/ InList(t)
    BY <2>2 DEF InWork, InList
  <2>4. t # None
    BY NamesDiffer
  <2>5. InList(t)' => InList(t)
    BY <2>1, <2>4 DEF InList
  <2> QED BY <2>1, <2>3, <2>5, SameThreads, Resending DEF SameMonitor, Moving, Sent
<1> QED BY <1>1, <1>2, <1>3, MoveLife DEF MonitorStep

LEMMA DeviceLife ==
  ASSUME LifeInv, NEW t \in Tasks,
         \/ Resend
         \/ \E d \in Devices : Register(d) \/ GoOffline(d) \/ DeviceForgets(d)
         \/ \E d \in Devices, u \in Tasks, res \in {1, 2} : Report(d, u, res)
  PROVE  LifeOK(t)'
<1>1. CASE Resend
  <2>1. UNCHANGED <<mem, row, total, fetched, queue, p, r, m>>
    BY <1>1 DEF Resend, store
  <2>2. \A e \in Devices : work'[e] \subseteq work[e] \cup AssignedTo(k.device)
    <3>1. CASE AssignedTo(k.device) # {} /\ k.device \in online
      <4>1. PICK gone \in BOOLEAN : Send(k.device, AssignedTo(k.device), gone)
        BY <1>1, <3>1 DEF Resend
      <4>2. k.device \in Devices /\ AssignedTo(k.device) \in SUBSET Tasks
        BY <3>1 DEF LifeInv, TypeOK, DeviceSideOK, AssignedTo, InStatus
      <4> QED BY <4>1, <4>2, SendWork DEF LifeInv
    <3>2. CASE ~(AssignedTo(k.device) # {} /\ k.device \in online)
      BY <1>1, <3>2 DEF Resend
    <3> QED BY <3>1, <3>2
  <2>3. InWork(t)' => InWork(t) \/ t \in InStatus(1)
    BY <2>2 DEF InWork, AssignedTo
  <2> QED BY <2>1, <2>3, SameThreads, Resending DEF Sent
<1>2. ASSUME NEW d \in Devices, Register(d) \/ GoOffline(d) PROVE LifeOK(t)'
  <2>1. UNCHANGED <<mem, row, total, fetched, work, queue, p, r, m>>
    BY <1>2 DEF Register, GoOffline, store, budget, threads
  <2> QED BY <2>1, SameThreads, Resending DEF Sent
<1>3. ASSUME NEW d \in Devices, DeviceForgets(d) PROVE LifeOK(t)'
  <2>1. /\ UNCHANGED <<mem, row, total, fetched, queue, p, r, m>>
        /\ \A e \in Devices : work'[e] \subseteq work[e]
    BY <1>3 DEF DeviceForgets, store, threads, LifeInv, TypeOK, DeviceSideOK
  <2>2. InWork(t)' => InWork(t)
    BY <2>1 DEF InWork
  <2> QED BY <2>1, <2>2, SameThreads, Resending DEF Sent
<1>4. ASSUME NEW d \in Devices, NEW u \in Tasks, NEW res \in {1, 2}, Report(d, u, res)
      PROVE  LifeOK(t)'
  <2>1. /\ UNCHANGED <<mem, row, total, fetched, p, r, m>> /\ u \in work[d]
        /\ \A e \in Devices : work'[e] \subseteq work[e]
        /\ queue \in Seq(Msg) /\ queue' = Append(queue, [task |-> u, device |-> d, result |-> res])
    BY <1>4 DEF Report, store, budget, LifeInv, TypeOK, DeviceSideOK
  <2>2. InWork(t)' => InWork(t)
    BY <2>1 DEF InWork
  <2>3. InQueue(t)' => InQueue(t) \/ InWork(t)
    <3>1. SUFFICES ASSUME NEW i \in 1 .. Len(queue'), queue'[i].task = t
                   PROVE  InQueue(t) \/ InWork(t)
      BY DEF InQueue
    <3>2. CASE i \in 1 .. Len(queue)
      BY <2>1, <3>1, <3>2 DEF InQueue
    <3>3. CASE i = Len(queue) + 1
      BY <2>1, <3>1, <3>3 DEF InWork
    <3> QED BY <2>1, <3>1, <3>2, <3>3
  <2> QED BY <2>1, <2>2, <2>3, SameThreads, Resending DEF Sent
<1> QED BY <1>1, <1>2, <1>3, <1>4

-----------------------------------------------------------------------------
LEMMA LifeInit == Init => LifeInv
<1> SUFFICES ASSUME Init PROVE LifeInv
  OBVIOUS
<1>1. TypeOK /\ up = "up"
  BY TypeInit DEF Init
<1>2. SUFFICES ASSUME NEW t \in Tasks PROVE LifeOK(t)
  BY <1>1 DEF LifeInv
<1>3. /\ mem[t] = None /\ row[t] = None /\ total[t] = None /\ fetched[t] = 0
      /\ p.at = "idle" /\ p.need = {} /\ p.slice = {} /\ p.packet = {}
      /\ r.at = "idle" /\ m.list = {} /\ m.task = None /\ Len(queue) = 0
      /\ \A d \in Devices : work[d] = {}
  BY DEF Init, PIdle, RIdle, MIdle
<1>4. PAt(t) = "elsewhere" /\ RAt(t) = "elsewhere" /\ ~Sent(t) /\ ~Open(t) /\ Apart(t)
  BY <1>3, NamesDiffer DEF PAt, RAt, Sent, InWork, InQueue, InPacket, InList, Open, Apart
<1> QED BY <1>3, <1>4 DEF LifeOK, FetchOK, AgreeOK, ResultPlaceOK, FinalOK, Has

LEMMA LifeStep ==
  ASSUME MaxFetch <= 1
  PROVE  LifeInv /\ [Next]_vars /\ ~Crash => LifeInv'
<1> SUFFICES ASSUME LifeInv, [Next]_vars, ~Crash PROVE LifeInv'
  OBVIOUS
<1>1. TypeOK'
  BY TypeNext DEF LifeInv
<1>2. ~StartArchive /\ ~StartLoad
  BY DEF StartArchive, StartLoad, LifeInv
<1>3. CASE Calm
  <2>1. up' = "up"
    BY <1>3 DEF Calm, Running, GoOffline, DeviceForgets, LifeInv
  <2>2. \A t \in Tasks : LifeOK(t)'
    BY <1>3, PlatformLife, ResultLife, MonitorLife, DeviceLife DEF Calm, Running
  <2> QED BY <1>1, <2>1, <2>2 DEF LifeInv
<1>4. CASE UNCHANGED vars
  <2>1. UNCHANGED <<mem, row, total, fetched, work, queue, p, r, m, up>>
    BY <1>4 DEF vars, store, threads, budget
  <2>2. \A t \in Tasks : LifeOK(t)'
    BY <2>1, SameThreads, Resending DEF Sent
  <2> QED BY <1>1, <2>1, <2>2 DEF LifeInv
<1> QED BY <1>2, <1>3, <1>4 DEF Next, Failing, Calm

LEMMA LifeNext ==
  ASSUME MaxFetch <= 1, MaxCrashes = 0
  PROVE  LifeInv /\ [Next]_vars => LifeInv'
<1>1. LifeInv => ~Crash
  BY DEF Crash, LifeInv, TypeOK, HistoryOK
<1> QED BY <1>1, LifeStep

(* What a device works on is marked as assigned, so that no later round    *)
(* hands it out again.                                                     *)
THEOREM SentMarked ==
  ASSUME MaxFetch <= 1, MaxCrashes = 0
  PROVE  Spec => []SentIsMarked
<1>1. LifeInv => SentIsMarked
  <2>1. SUFFICES ASSUME LifeInv, NEW d \in Devices, NEW t \in Tasks, t \in work[d], t \in InStatus(0)
                 PROVE  FALSE
    BY DEF SentIsMarked, InStatus
  <2>2. Started(t)
    BY <2>1 DEF LifeInv, LifeOK, FetchOK, Sent, InWork
  <2> QED BY <2>1, <2>2 DEF Started, InStatus
<1> QED BY <1>1, LifeInit, LifeNext, PTL DEF Spec

(* Whatever enters the total table is a finished task, and stays one.      *)
THEOREM TotalFinal ==
  ASSUME MaxFetch <= 1, MaxCrashes = 0
  PROVE  Spec => []TotalIsFinal
<1>1. LifeInv => TotalIsFinal
  BY DEF LifeInv, LifeOK, FinalOK, TotalIsFinal
<1> QED BY <1>1, LifeInit, LifeNext, PTL DEF Spec

(* The remote side is told of a task only after its success is in the      *)
(* total table.                                                            *)
THEOREM ToldLast ==
  ASSUME MaxFetch <= 1, MaxCrashes = 0
  PROVE  Spec => ToldAfterArchive
<1>1. LifeInv /\ [Next]_vars => [\A t \in told' \ told : Has(total, t) /\ total[t].result = 1]_vars
  <2>1. SUFFICES ASSUME LifeInv, [Next]_vars, NEW t \in told' \ told
                 PROVE  Has(total, t) /\ total[t].result = 1
    OBVIOUS
  <2>2. CASE ResultNotify
    <3>1. r.at = "notify" /\ t = r.msg.task
      BY <2>1, <2>2 DEF ResultNotify
    <3>2. t \in Tasks /\ RAt(t) = "notify"
      BY <2>1, <3>1, ResultMessage
    <3> QED BY <2>1, <3>1, <3>2 DEF LifeInv, LifeOK, ResultPlaceOK
  <2>3. CASE told' = told
    BY <2>1, <2>3
  <2>4. PlatformStep \/ (\E u \in Tasks : Fetch(u)) => told' = told
    BY DEF PlatformStep, Fetch, FetchRow, BeginRound, EndRound, CutSlice, Pack, PackAssignRow,
           PackMarkMem, PackMarkRow, Flush
  <2>5. ResultStep => told' = told \/ ResultNotify
    BY DEF ResultStep, TakeResult, ResultAssignRow, ResultMarkMem, ResultMarkRow, ResultDelete,
           ResultArchive, ResultRemove
  <2>6. MonitorStep \/ (\E S \in SUBSET Tasks : Collect(S)) => told' = told
    BY DEF MonitorStep, Collect, LookAt, MoveMem, MoveRow, MonitorSend
  <2>7. /\ Resend \/ Failing \/ StartArchive \/ StartLoad => told' = told
        /\ (\E d \in Devices : Register(d)) => told' = told
        /\ (\E d \in Devices, u \in Tasks, res \in {1, 2} : Report(d, u, res)) => told' = told
    BY DEF Resend, Register, Report, Failing, GoOffline, DeviceForgets, Crash, StartArchive, StartLoad
  <2>8. UNCHANGED vars => told' = told
    BY DEF vars
  <2> QED BY <2>1, <2>2, <2>3, <2>4, <2>5, <2>6, <2>7, <2>8 DEF Next, Running
<1> QED BY <1>1, LifeInit, LifeNext, PTL DEF Spec, ToldAfterArchive

-----------------------------------------------------------------------------
(* The refinement.                                                         *)

LEMMA StageValues ==
  ASSUME NEW t
  PROVE  /\ Has(total, t) => Stage(t) = "archived" /\ Outcome(t) = total[t].result
         /\ ~Has(total, t) => Outcome(t) = 0
         /\ ~Has(total, t) /\ ~Has(mem, t) => Stage(t) = "absent"
         /\ ~Has(total, t) /\ Has(mem, t) =>
              /\ mem[t].status = 0 => Stage(t) = "waiting"
              /\ mem[t].status = 1 => Stage(t) = "assigned"
              /\ mem[t].status = 2 => Stage(t) = "finished"
BY DEF Stage, Outcome

(* A step that changes at most the stage of one task is a step, or no step,*)
(* of TaskLifecycle.                                                       *)
Same(t) == Stage(t)' = Stage(t) /\ Outcome(t)' = Outcome(t)

LEMMA StepOfOne ==
  ASSUME NEW u \in Tasks, \A t \in Tasks \ {u} : Same(t),
         \/ Same(u)
         \/ Stage(u) = "absent" /\ Stage(u)' = "waiting" /\ Outcome(u)' = Outcome(u)
         \/ Stage(u) = "waiting" /\ Stage(u)' = "assigned" /\ Outcome(u)' = Outcome(u)
         \/ Stage(u) = "assigned" /\ Stage(u)' = "finished" /\ Outcome(u)' = Outcome(u)
         \/ Stage(u) = "finished" /\ Stage(u)' = "archived" /\ Outcome(u)' \in {1, 2}
         \/ Stage(u) = "archived" /\ Stage(u)' = "archived" /\ Outcome(u)' \in {1, 2}
  PROVE  [Lifecycle!Next]_(Lifecycle!vars)
<1> DEFINE st == [t \in Tasks |-> Stage(t)]
           ou == [t \in Tasks |-> Outcome(t)]
<1>1. st' = [st EXCEPT ![u] = Stage(u)'] /\ ou' = [ou EXCEPT ![u] = Outcome(u)']
  BY DEF Same
<1>2. Outcome(u)' = Outcome(u) => ou' = ou
  BY DEF Same
<1>3. Stage(u)' = Stage(u) => st' = st
  BY DEF Same
<1>4. st[u] = Stage(u)
  OBVIOUS
<1> QED BY <1>1, <1>2, <1>3, <1>4
    DEF Same, Lifecycle!Next, Lifecycle!vars, Lifecycle!Accept, Lifecycle!Assign,
        Lifecycle!Finish, Lifecycle!Archive, Lifecycle!Revise, Lifecycle!Advance

LEMMA StepOfNone ==
  ASSUME \A t \in Tasks : Same(t)
  PROVE  [Lifecycle!Next]_(Lifecycle!vars)
BY DEF Same, Lifecycle!vars

LEMMA SameRecordsSameStage ==
  ASSUME NEW t, mem'[t] = mem[t], total'[t] = total[t]
  PROVE  Same(t)
BY DEF Same, Stage, Outcome, Has

(* Setting the device of a task is no step.                                *)
LEMMA DeviceNoStep ==
  ASSUME NEW u \in Tasks, NEW d \in Devices, mem \in Table,
         mem' = SetDevice(mem, u, d), total' = total
  PROVE  [Lifecycle!Next]_(Lifecycle!vars)
<1>1. \A t \in Tasks \ {u} : Same(t)
  BY SetDeviceAt, SameRecordsSameStage
<1>2. /\ Has(mem', u) <=> Has(mem, u)
      /\ Has(mem', u) => mem'[u].status = mem[u].status
  BY SetDeviceAt
<1>3. Same(u)
  BY <1>2 DEF Same, Stage, Outcome, Has
<1> QED BY <1>1, <1>3, StepOfNone

LEMMA StoreUntouched ==
  ASSUME mem' = mem, total' = total
  PROVE  [Lifecycle!Next]_(Lifecycle!vars)
BY SameRecordsSameStage, StepOfNone

LEMMA PlatformRefines ==
  ASSUME MaxFetch <= 1, LifeInv, PlatformStep \/ \E u \in Tasks : Fetch(u)
  PROVE  [Lifecycle!Next]_(Lifecycle!vars)
<1>0. mem \in Table
  BY DEF LifeInv, TypeOK, StoreOK
<1>1. ASSUME NEW u \in Tasks, Fetch(u) PROVE [Lifecycle!Next]_(Lifecycle!vars)
  <2>1. /\ mem' = [mem EXCEPT ![u] = Fresh] /\ total' = total
        /\ fetched[u] < MaxFetch /\ fetched[u] \in Nat /\ p.at = "idle"
    BY <1>1 DEF Fetch, LifeInv, TypeOK, HistoryOK
  <2>2. fetched[u] = 0 /\ PAt(u) = "elsewhere"
    BY <2>1, BoundsAreNaturals DEF PAt
  <2>3. mem[u] = None /\ total[u] = None
    BY <2>2 DEF LifeInv, LifeOK, FetchOK
  <2>4. mem'[u] = Fresh /\ Fresh # None /\ Fresh.status = 0
    BY <1>0, <2>1, FreshType, NoneIsNoRecord DEF Table, Fresh
  <2>5. \A t \in Tasks \ {u} : Same(t)
    BY <1>0, <2>1, SameRecordsSameStage DEF Table
  <2>6. Stage(u) = "absent" /\ Stage(u)' = "waiting" /\ Outcome(u)' = Outcome(u)
    BY <2>1, <2>3, <2>4 DEF Stage, Outcome, Has
  <2> QED BY <2>5, <2>6, StepOfOne
<1>2. ASSUME NEW u \in Tasks, Pack(u) PROVE [Lifecycle!Next]_(Lifecycle!vars)
  BY <1>0, <1>2, DeviceNoStep DEF Pack, LifeInv, TypeOK, PlatformOK
<1>3. CASE PackMarkMem
  <2>1. PICK u \in Tasks : u = p.task
    BY <1>3 DEF PackMarkMem, LifeInv, TypeOK, PlatformOK
  <2>2. mem' = SetResult(mem, u, 1, 0) /\ total' = total /\ PAt(u) = "mark_mem"
    BY <1>3, <2>1 DEF PackMarkMem, PAt
  <2>3. Waits(u) /\ ~Sent(u)
    BY <2>2 DEF LifeInv, LifeOK, FetchOK, Open, Waits, Started
  <2>4. ~Has(total, u)
    BY <2>3 DEF LifeInv, LifeOK, AgreeOK, Waits, Sent
  <2>5. Has(mem', u) /\ mem'[u].status = 1
    BY <1>0, <2>2, <2>3, MarkedAt DEF Waits
  <2>6. \A t \in Tasks \ {u} : Same(t)
    <3>1. ASSUME NEW t \in Tasks \ {u} PROVE mem'[t] = mem[t]
      BY <1>0, <2>2, <3>1, MarkedAt
    <3> QED BY <2>2, <3>1, SameRecordsSameStage
  <2>7. Stage(u) = "waiting" /\ Stage(u)' = "assigned" /\ Outcome(u)' = Outcome(u)
    BY <2>2, <2>3, <2>4, <2>5 DEF Stage, Outcome, Has, Waits
  <2> QED BY <2>6, <2>7, StepOfOne
<1>4. CASE FetchRow \/ BeginRound \/ EndRound \/ PackAssignRow \/ PackMarkRow \/ Flush
           \/ \E d \in Devices : CutSlice(d)
  BY <1>4, StoreUntouched
  DEF FetchRow, BeginRound, EndRound, PackAssignRow, PackMarkRow, Flush, CutSlice, store
<1> QED BY <1>1, <1>2, <1>3, <1>4 DEF PlatformStep

LEMMA ResultRefines ==
  ASSUME LifeInv, ResultStep
  PROVE  [Lifecycle!Next]_(Lifecycle!vars)
<1>0. mem \in Table /\ total \in Table
  BY DEF LifeInv, TypeOK, StoreOK
<1>1. CASE TakeResult
  <2>1. queue[1] \in Msg /\ Head(queue) = queue[1]
    BY <1>1 DEF TakeResult, LifeInv, TypeOK, DeviceSideOK
  <2>2. Head(queue).task \in Tasks /\ Head(queue).device \in Devices
    BY <2>1 DEF Msg
  <2> QED BY <1>0, <1>1, <2>2, DeviceNoStep DEF TakeResult
<1>2. CASE ResultAssignRow \/ ResultMarkRow \/ ResultDelete \/ ResultNotify
  BY <1>2, StoreUntouched DEF ResultAssignRow, ResultMarkRow, ResultDelete, ResultNotify, store
<1>3. CASE ResultMarkMem \/ ResultArchive \/ ResultRemove
  <2>1. PICK u \in Tasks : u = r.msg.task
    BY <1>3, ResultMessage DEF ResultMarkMem, ResultArchive, ResultRemove
  <2>2. /\ r.msg.result \in {1, 2} /\ RAt(u) = r.at
        /\ Has(mem, u) => mem[u].status \in {1, 2}
        /\ ResultPlaceOK(u)
    BY <1>3, <2>1, ResultMessage DEF ResultMarkMem, ResultArchive, ResultRemove, LifeInv, LifeOK
  <2>3. CASE ResultMarkMem
    <3>1. mem' = SetResult(mem, u, 2, r.msg.result) /\ total' = total /\ r.at = "mark_mem"
      BY <2>1, <2>3 DEF ResultMarkMem
    <3>2. /\ \A t \in Tasks \ {u} : mem'[t] = mem[t]
          /\ Has(mem', u) <=> Has(mem, u)
          /\ Has(mem', u) => mem'[u].status = 2
      BY <1>0, <2>2, <3>1, ReportWritten
    <3>3. \A t \in Tasks \ {u} : Same(t)
      BY <3>1, <3>2, SameRecordsSameStage
    <3>4. CASE Has(mem, u)
      <4>1. ~Has(total, u) /\ mem[u].status = 1
        BY <2>2, <3>1, <3>4 DEF ResultPlaceOK
      <4>2. Stage(u) = "assigned" /\ Stage(u)' = "finished" /\ Outcome(u)' = Outcome(u)
        BY <3>1, <3>2, <3>4, <4>1 DEF Stage, Outcome, Has
      <4> QED BY <3>3, <4>2, StepOfOne
    <3>5. CASE ~Has(mem, u)
      <4>1. Same(u)
        BY <3>1, <3>2, <3>5 DEF Same, Stage, Outcome, Has
      <4> QED BY <3>3, <4>1, StepOfNone
    <3> QED BY <3>4, <3>5
  <2>4. CASE ResultArchive
    <3>1. /\ mem' = mem /\ total' = Archived(u, 2, r.msg.result) /\ r.at = "archive"
      BY <2>1, <2>4 DEF ResultArchive
    <3>2. Has(total', u) /\ total'[u].result = r.msg.result /\ \A t \in Tasks \ {u} : total'[t] = total[t]
      <4>1. CASE Has(mem, u)
        <5>1. ~Has(total, u) /\ mem[u].result = r.msg.result
          BY <2>2, <3>1, <4>1 DEF ResultPlaceOK
        <5>2. total' = [total EXCEPT ![u] = mem[u]]
          BY <3>1, <4>1, <5>1 DEF Archived
        <5> QED BY <1>0, <4>1, <5>1, <5>2 DEF Table, Has
      <4>2. CASE ~Has(mem, u)
        <5>1. Has(total, u) /\ total' = SetResult(total, u, 2, r.msg.result)
          BY <2>2, <3>1, <4>2 DEF ResultPlaceOK, Archived
        <5> QED BY <1>0, <2>2, <5>1, ReportWritten
      <4> QED BY <4>1, <4>2
    <3>3. \A t \in Tasks \ {u} : Same(t)
      BY <3>1, <3>2, SameRecordsSameStage
    <3>4. Stage(u) \in {"finished", "archived"}
      <4>1. CASE Has(mem, u)
        BY <2>2, <3>1, <4>1 DEF ResultPlaceOK, Stage
      <4>2. CASE ~Has(mem, u)
        BY <2>2, <3>1, <4>2 DEF ResultPlaceOK, Stage
      <4> QED BY <4>1, <4>2
    <3>5. Stage(u)' = "archived" /\ Outcome(u)' \in {1, 2}
      BY <2>2, <3>2 DEF Stage, Outcome, Has
    <3> QED BY <3>3, <3>4, <3>5, StepOfOne
  <2>5. CASE ResultRemove
    <3>1. mem' = [mem EXCEPT ![u] = None] /\ total' = total /\ r.at = "remove"
      BY <2>1, <2>5 DEF ResultRemove
    <3>2. Has(total, u)
      BY <2>2, <3>1 DEF ResultPlaceOK
    <3>3. Same(u)
      BY <3>1, <3>2 DEF Same, Stage, Outcome, Has
    <3>4. \A t \in Tasks \ {u} : Same(t)
      BY <1>0, <3>1, SameRecordsSameStage DEF Table
    <3> QED BY <3>3, <3>4, StepOfNone
  <2> QED BY <1>3, <2>3, <2>4, <2>5
<1> QED BY <1>1, <1>2, <1>3 DEF ResultStep

LEMMA OthersRefine ==
  ASSUME LifeInv, Calm \/ UNCHANGED vars,
         ~PlatformStep, ~ResultStep, ~\E u \in Tasks : Fetch(u)
  PROVE  [Lifecycle!Next]_(Lifecycle!vars)
<1>0. mem \in Table
  BY DEF LifeInv, TypeOK, StoreOK
<1>1. CASE MoveMem
  BY <1>0, <1>1, DeviceNoStep DEF MoveMem, LifeInv, TypeOK, MonitorOK
<1>2. CASE \/ MoveRow \/ MonitorSend \/ Resend \/ UNCHANGED vars
           \/ \E t \in Tasks : LookAt(t)
           \/ \E S \in SUBSET Tasks : Collect(S)
           \/ \E d \in Devices : Register(d) \/ GoOffline(d) \/ DeviceForgets(d)
           \/ \E d \in Devices, t \in Tasks, res \in {1, 2} : Report(d, t, res)
  BY <1>2, StoreUntouched
  DEF MoveRow, MonitorSend, Resend, vars, LookAt, Collect, Register, GoOffline, DeviceForgets,
      Report, store
<1> QED BY <1>1, <1>2 DEF Calm, Running, MonitorStep

(* Each task fetched once and no crash: the threads, the devices and the   *)
(* monitor together implement TaskLifecycle.  No interleaving skips,       *)
(* repeats or reverts a stage of any task.                                 *)
THEOREM ImplementsLifecycle ==
  ASSUME MaxFetch <= 1, MaxCrashes = 0
  PROVE  Spec => FollowsLifecycle
<1>1. Init => Lifecycle!Init
  BY DEF Init, Lifecycle!Init, Stage, Outcome, Has
<1>2. LifeInv /\ [Next]_vars => [Lifecycle!Next]_(Lifecycle!vars)
  <2>1. SUFFICES ASSUME LifeInv, [Next]_vars PROVE [Lifecycle!Next]_(Lifecycle!vars)
    OBVIOUS
  <2>2. ~Crash /\ ~StartArchive /\ ~StartLoad
    BY <2>1 DEF Crash, StartArchive, StartLoad, LifeInv, TypeOK, HistoryOK
  <2>3. Calm \/ UNCHANGED vars
    BY <2>1, <2>2 DEF Next, Failing, Calm
  <2> QED BY <2>1, <2>3, PlatformRefines, ResultRefines, OthersRefine
<1> QED BY <1>1, <1>2, LifeInit, LifeNext, PTL DEF Spec, FollowsLifecycle, Lifecycle!Spec

-----------------------------------------------------------------------------
(* Neither rounds nor registrations duplicate work.                        *)

(* The devices that have t, have reported it, or are about to get it: one  *)
(* at most as long as the monitor has not timed it out, and the one that   *)
(* the map has.                                                            *)
Carrier(t, d) ==
  \/ t \in work[d]
  \/ \E i \in 1 .. Len(queue) : queue[i].task = t /\ queue[i].device = d
  \/ RAt(t) # "elsewhere" /\ r.msg.device = d
  \/ t \in p.packet /\ p.device = d

HomeOK(t) == t \notin resent =>
  /\ \A d, e \in Devices : Carrier(t, d) /\ Carrier(t, e) => d = e
  /\ \A d \in Devices : Carrier(t, d) /\ Has(mem, t) => mem[t].device = d
  /\ ~InList(t)

HomeInv ==
  /\ LifeInv
  /\ p.at \in {"idle", "row", "slices"} => p.packet = {}
  /\ \A t \in Tasks : HomeOK(t)

LEMMA HomeKept ==
  ASSUME NEW t \in Tasks, HomeOK(t), resent \subseteq resent',
         \A d \in Devices : Carrier(t, d)' => Carrier(t, d),
         t \notin resent => /\ Has(mem', t) => Has(mem, t) /\ mem'[t].device = mem[t].device
                            /\ InList(t)' => InList(t)
  PROVE  HomeOK(t)'
BY DEF HomeOK, Has

(* A task that no one has started has no carrier.                          *)
LEMMA NoCarrier ==
  ASSUME LifeInv, NEW t \in Tasks, NEW d \in Devices, ~Started(t), Carrier(t, d),
         PAt(t) \notin {"assign_row", "mark_mem"}
  PROVE  FALSE
<1>1. Sent(t)
  BY DEF Carrier, Sent, InWork, InQueue, InPacket
<1> QED BY <1>1 DEF LifeInv, LifeOK, FetchOK

LEMMA CarrierMoves ==
  ASSUME NEW t, NEW d, UNCHANGED queue, SameResult(t),
         t \in work'[d] => Carrier(t, d), t \in p'.packet /\ p'.device = d => Carrier(t, d)
  PROVE  Carrier(t, d)' => Carrier(t, d)
BY DEF Carrier, SameResult

LEMMA PlatformHome ==
  ASSUME MaxFetch <= 1, HomeInv, PlatformStep \/ \E u \in Tasks : Fetch(u), NEW t \in Tasks
  PROVE  /\ HomeOK(t)'
         /\ p'.at \in {"idle", "row", "slices"} => p'.packet = {}
<1> DEFINE Goal == HomeOK(t)' /\ (p'.at \in {"idle", "row", "slices"} => p'.packet = {})
<1>0. mem \in Table /\ HomeOK(t) /\ TypeOK /\ PlatformOK /\ LifeInv
  BY DEF HomeInv, LifeInv, TypeOK, StoreOK
<1>1. ASSUME NEW u \in Tasks, Fetch(u) PROVE Goal
  <2>1. /\ mem' = [mem EXCEPT ![u] = Fresh] /\ UNCHANGED <<work, queue, r, m, resent>>
        /\ p.at = "idle" /\ p'.packet = p.packet /\ p.packet = {}
        /\ fetched[u] \in Nat /\ fetched[u] < MaxFetch
    BY <1>0, <1>1 DEF Fetch, HomeInv, PlatformOK, TypeOK, HistoryOK
  <2>2. \A d \in Devices : Carrier(t, d)' => Carrier(t, d)
    BY <2>1, SameThreads, CarrierMoves DEF Carrier
  <2>3. CASE t # u
    <3>1. mem'[t] = mem[t]
      BY <1>0, <2>1, <2>3 DEF Table
    <3> QED BY <1>0, <2>1, <2>2, <3>1, SameThreads, HomeKept DEF Has
  <2>4. CASE t = u
    <3>1. ~Started(u) /\ PAt(u) = "elsewhere"
      BY <2>1, BoundsAreNaturals DEF Started, PAt
    <3>2. \A d \in Devices : ~Carrier(u, d)
      BY <1>0, <3>1, NoCarrier
    <3> QED BY <1>0, <2>1, <2>2, <2>4, <3>2, SameThreads DEF HomeOK
  <2> QED BY <2>1, <2>3, <2>4
<1>2. ASSUME NEW u \in Tasks, Pack(u) PROVE Goal
  <2>1. /\ mem' = SetDevice(mem, u, p.device) /\ UNCHANGED <<work, queue, r, m, resent>>
        /\ p.at = "pack" /\ p'.at = "assign_row" /\ p'.device = p.device /\ p.device \in Devices
        /\ u \in p.slice /\ p'.packet \subseteq p.packet \cup {u}
    BY <1>0, <1>2 DEF Pack, PlatformOK
  <2>2. CASE t # u
    <3>1. \A d \in Devices : Carrier(t, d)' => Carrier(t, d)
      BY <2>1, <2>2, SameThreads, CarrierMoves DEF Carrier
    <3>2. mem'[t] = mem[t]
      BY <1>0, <2>1, <2>2, SetDeviceAt
    <3> QED BY <1>0, <2>1, <3>1, <3>2, SameThreads, HomeKept DEF Has
  <2>3. CASE t = u
    <3>1. ~Started(u) /\ PAt(u) = "elsewhere"
      BY <1>0, <2>1 DEF PAt, LifeInv, LifeOK, FetchOK, Open, Waits, Started
    <3>2. \A d \in Devices : ~Carrier(u, d)
      BY <1>0, <3>1, NoCarrier
    <3>3. \A d \in Devices : Carrier(u, d)' => d = p.device
      BY <2>1, <3>2, SameThreads DEF Carrier, SameResult
    <3>4. Has(mem', u) => mem'[u].device = p.device
      BY <1>0, <2>1, SetDeviceAt
    <3> QED BY <1>0, <2>1, <2>3, <3>3, <3>4, SameThreads DEF HomeOK
  <2> QED BY <2>1, <2>2, <2>3
<1>3. CASE PackMarkMem
  <2>1. /\ p.task \in Tasks /\ mem' = SetResult(mem, p.task, 1, 0)
        /\ UNCHANGED <<work, queue, r, m, resent>>
        /\ p'.at = "mark_row" /\ p'.device = p.device /\ p'.packet = p.packet
    BY <1>0, <1>3 DEF PackMarkMem, PlatformOK
  <2>2. \A d \in Devices : Carrier(t, d)' => Carrier(t, d)
    BY <2>1, SameThreads, CarrierMoves DEF Carrier
  <2>3. Has(mem', t) => Has(mem, t) /\ mem'[t].device = mem[t].device
    BY <1>0, <2>1, MarkedAt DEF Has
  <2> QED BY <1>0, <2>1, <2>2, <2>3, SameThreads, HomeKept
<1>4. CASE Flush
  <2>1. PICK gone \in BOOLEAN : Send(p.device, p.packet, gone)
    BY <1>4 DEF Flush
  <2>2. p.device \in Devices /\ p.packet \in SUBSET Tasks
    BY <1>0, <1>4 DEF Flush, PlatformOK
  <2>3. \A d \in Devices : t \in work'[d] => Carrier(t, d)
    BY <1>0, <2>1, <2>2 DEF Send, Carrier, TypeOK, DeviceSideOK
  <2>4. p'.packet = {} /\ UNCHANGED <<mem, queue, r, m, resent>>
    BY <1>0, <1>4 DEF Flush, store, PlatformOK
  <2>5. \A d \in Devices : Carrier(t, d)' => Carrier(t, d)
    BY <2>3, <2>4, SameThreads, CarrierMoves
  <2> QED BY <1>0, <2>4, <2>5, SameThreads, HomeKept
<1>5. CASE \/ FetchRow \/ BeginRound \/ EndRound \/ PackAssignRow \/ PackMarkRow
           \/ \E d \in Devices : CutSlice(d)
  <2>1. UNCHANGED <<mem, work, queue, r, m, resent>>
    BY <1>5 DEF FetchRow, BeginRound, EndRound, PackAssignRow, PackMarkRow, CutSlice, store
  <2>2. \/ p'.packet = {}
        \/ /\ p'.packet = p.packet /\ p'.device = p.device
           /\ p'.at \notin {"idle", "row", "slices"}
    <3>1. CASE FetchRow \/ BeginRound \/ EndRound
      BY <3>1, IdleTypes DEF FetchRow, BeginRound, EndRound, PIdle
    <3>2. CASE PackAssignRow \/ PackMarkRow
      BY <1>0, <3>2 DEF PackAssignRow, PackMarkRow, PlatformOK
    <3>3. CASE \E d \in Devices : CutSlice(d)
      BY <1>0, <3>3 DEF CutSlice, PlatformOK, HomeInv
    <3> QED BY <1>5, <3>1, <3>2, <3>3
  <2>3. \A d \in Devices : Carrier(t, d)' => Carrier(t, d)
    BY <2>1, <2>2, SameThreads, CarrierMoves DEF Carrier
  <2> QED BY <1>0, <2>1, <2>2, <2>3, SameThreads, HomeKept
<1> QED BY <1>1, <1>2, <1>3, <1>4, <1>5 DEF PlatformStep

LEMMA ResultHome ==
  ASSUME HomeInv, ResultStep, NEW t \in Tasks
  PROVE  HomeOK(t)' /\ UNCHANGED p
<1>0. mem \in Table /\ HomeOK(t) /\ TypeOK /\ ResultOK /\ LifeInv
  BY DEF HomeInv, LifeInv, TypeOK, StoreOK
<1>1. CASE TakeResult
  <2>1. PICK u \in Tasks, d \in Devices : u = queue[1].task /\ d = queue[1].device
    <3>1. queue[1] \in Msg
      BY <1>0, <1>1 DEF TakeResult, TypeOK, DeviceSideOK
    <3> QED BY <3>1 DEF Msg
  <2>2. /\ r'.at # "idle" /\ r'.msg.task = u /\ r'.msg.device = d
        /\ mem' = SetDevice(mem, u, d) /\ UNCHANGED <<work, p, m, resent>>
        /\ 1 \in 1 .. Len(queue)
        /\ \A i \in 1 .. Len(queue') : i + 1 \in 1 .. Len(queue) /\ queue'[i] = queue[i + 1]
    BY <1>0, <1>1, <2>1 DEF TakeResult, TypeOK, DeviceSideOK
  <2>3. Carrier(u, d)
    BY <2>1, <2>2 DEF Carrier
  <2>4. \A e \in Devices : Carrier(t, e)' => Carrier(t, e)
    BY <2>1, <2>2, <2>3 DEF Carrier, RAt
  <2>5. t \notin resent /\ Has(mem', t) => Has(mem, t) /\ mem'[t].device = mem[t].device
    <3>1. CASE t # u
      BY <1>0, <2>2, <3>1, SetDeviceAt DEF Has
    <3>2. CASE t = u
      <4>1. Has(mem', u) => Has(mem, u) /\ mem'[u].device = d
        BY <1>0, <2>2, SetDeviceAt
      <4> QED BY <1>0, <2>3, <3>2, <4>1 DEF HomeOK
    <3> QED BY <3>1, <3>2
  <2> QED BY <1>0, <2>2, <2>4, <2>5, SameThreads, HomeKept
<1>2. CASE ~TakeResult
  <2>1. UNCHANGED <<work, queue, p, m, resent>> /\ r.at # "idle"
    BY <1>2 DEF ResultStep, ResultAssignRow, ResultMarkMem, ResultMarkRow, ResultDelete,
                ResultArchive, ResultRemove, ResultNotify
  <2>2. r'.at = "idle" \/ r'.msg = r.msg
    BY <1>0, <1>2, IdleTypes
    DEF ResultStep, ResultAssignRow, ResultMarkMem, ResultMarkRow, ResultDelete,
        ResultArchive, ResultRemove, ResultNotify, ToR, ResultOK
  <2>3. RAt(t)' # "elsewhere" => RAt(t) # "elsewhere" /\ r'.msg = r.msg
    BY <1>0, <2>1, <2>2 DEF RAt, ResultOK
  <2>4. \A e \in Devices : Carrier(t, e)' => Carrier(t, e)
    BY <2>1, <2>3 DEF Carrier
  <2>5. Has(mem', t) => Has(mem, t) /\ mem'[t].device = mem[t].device
    <3>1. CASE ResultMarkMem
      <4>1. /\ mem' = SetResult(mem, r.msg.task, 2, r.msg.result)
            /\ r.msg.task \in Tasks /\ r.msg.result \in {1, 2}
        BY <1>0, <3>1, ResultMessage DEF ResultMarkMem
      <4>2. CASE t = r.msg.task
        <5>1. /\ Has(mem', t) <=> Has(mem, t)
              /\ Has(mem, t) => mem'[t].device = mem[t].device
          BY <1>0, <4>1, <4>2, ReportWritten
        <5> QED BY <5>1 DEF Has
      <4>3. CASE t # r.msg.task
        BY <1>0, <4>1, <4>3, ReportWritten DEF Has
      <4> QED BY <4>2, <4>3
    <3>2. CASE ResultRemove
      <4>1. mem' = [mem EXCEPT ![r.msg.task] = None]
        BY <3>2 DEF ResultRemove
      <4> QED BY <1>0, <4>1 DEF Table, Has
    <3>3. CASE ResultAssignRow \/ ResultMarkRow \/ ResultDelete \/ ResultArchive \/ ResultNotify
      BY <3>3 DEF ResultAssignRow, ResultMarkRow, ResultDelete, ResultArchive, ResultNotify,
                  store, Has
    <3> QED BY <1>2, <3>1, <3>2, <3>3 DEF ResultStep
  <2> QED BY <1>0, <2>1, <2>4, <2>5, SameThreads, HomeKept
<1> QED BY <1>1, <1>2

(* What is resent by the monitor is in resent, and a registration resends  *)
(* to the device that the map has.                                         *)
LEMMA OthersHome ==
  ASSUME HomeInv, NEW t \in Tasks, Calm, ~PlatformStep, ~ResultStep, ~\E u \in Tasks : Fetch(u)
  PROVE  HomeOK(t)' /\ UNCHANGED p
<1>0. mem \in Table /\ HomeOK(t) /\ TypeOK /\ LifeInv /\ t # None
  BY NamesDiffer DEF HomeInv, LifeInv, TypeOK, StoreOK
<1>1. CASE \/ MoveMem \/ MoveRow \/ MonitorSend
           \/ \E u \in Tasks : LookAt(u)
           \/ \E S \in SUBSET Tasks : Collect(S)
  <2>1. UNCHANGED <<queue, p, r>> /\ resent \subseteq resent'
    BY <1>1 DEF MoveMem, MoveRow, MonitorSend, LookAt, Collect, store
  <2>2. CASE t \in resent'
    BY <2>1, <2>2 DEF HomeOK
  <2>3. CASE t \notin resent'
    <3>1. ~InList(t) /\ t \notin resent
      BY <1>0, <2>1, <2>3 DEF HomeOK
    <3>2. mem'[t] = mem[t]
      <4>1. CASE MoveMem
        BY <1>0, <3>1, <4>1, SetDeviceAt DEF MoveMem, TypeOK, MonitorOK, InList
      <4>2. CASE ~MoveMem
        BY <1>1, <4>2 DEF MoveRow, MonitorSend, LookAt, Collect, store
      <4> QED BY <4>1, <4>2
    <3>3. ~InList(t)'
      <4>1. CASE MoveMem \/ MoveRow
        BY <1>0, <3>1, <4>1 DEF MoveMem, MoveRow, InList, TypeOK, MonitorOK
      <4>2. CASE MonitorSend
        BY <1>0, <3>1, <4>2 DEF MonitorSend, InList, MIdle
      <4>3. ASSUME NEW u \in Tasks, LookAt(u) PROVE ~InList(t)'
        <5>1. u \in m.list /\ m'.list \subseteq m.list \ {u} /\ m'.task \in {u, None}
          BY <4>3, LookAtMonitor
        <5> QED BY <1>0, <3>1, <5>1 DEF InList
      <4>4. ASSUME NEW S \in SUBSET Tasks, Collect(S) PROVE ~InList(t)'
        BY <1>0, <2>3, <4>4 DEF Collect, InList, MIdle
      <4> QED BY <1>1, <4>1, <4>2, <4>3, <4>4
    <3>4. \A d \in Devices : t \in work'[d] => t \in work[d]
      <4>1. CASE MonitorSend /\ m.task \in InStatus(1) /\ mem[m.task].device \in online
        <5>1. PICK gone \in BOOLEAN : Send(mem[m.task].device, {m.task}, gone)
          BY <4>1 DEF MonitorSend
        <5>2. mem[m.task].device \in Devices /\ {m.task} \in SUBSET Tasks
          BY <1>0, <4>1 DEF TypeOK, DeviceSideOK, InStatus
        <5>3. \A d \in Devices : work'[d] \subseteq work[d] \cup {m.task}
          BY <1>0, <5>1, <5>2, SendWork
        <5> QED BY <3>1, <5>3 DEF InList
      <4>2. CASE UNCHANGED work
        BY <4>2
      <4> QED BY <1>1, <4>1, <4>2 DEF MoveMem, MoveRow, MonitorSend, LookAt, Collect
    <3>5. \A d \in Devices : Carrier(t, d)' => Carrier(t, d)
      BY <2>1, <3>4, SameThreads DEF Carrier, SameResult
    <3> QED BY <1>0, <2>1, <3>2, <3>3, <3>5, HomeKept DEF Has
  <2> QED BY <2>1, <2>2, <2>3
<1>2. CASE Resend
  <2>1. UNCHANGED <<mem, queue, p, r, m, resent>>
    BY <1>2 DEF Resend, store
  <2>2. CASE AssignedTo(k.device) # {} /\ k.device \in online
    <3>1. PICK gone \in BOOLEAN : Send(k.device, AssignedTo(k.device), gone)
      BY <1>2, <2>2 DEF Resend
    <3>2. k.device \in Devices
      BY <1>0, <2>2 DEF TypeOK, DeviceSideOK
    <3>3. \A d \in Devices : t \in work'[d] =>
            t \in work[d] \/ (Has(mem, t) /\ mem[t].device = d)
      BY <1>0, <3>1, <3>2 DEF Send, AssignedTo, InStatus, TypeOK, DeviceSideOK
    <3>4. \A d \in Devices : Carrier(t, d)' => Carrier(t, d) \/ (Has(mem, t) /\ mem[t].device = d)
      BY <2>1, <3>3, SameThreads DEF Carrier, SameResult
    <3> QED BY <1>0, <2>1, <3>4, SameThreads DEF HomeOK, Has
  <2>3. CASE ~(AssignedTo(k.device) # {} /\ k.device \in online)
    <3>1. UNCHANGED work
      BY <1>2, <2>3 DEF Resend
    <3>2. \A d \in Devices : Carrier(t, d)' => Carrier(t, d)
      BY <2>1, <3>1, SameThreads DEF Carrier, SameResult
    <3> QED BY <1>0, <2>1, <3>2, SameThreads, HomeKept DEF Has
  <2> QED BY <2>2, <2>3
<1>3. ASSUME NEW d \in Devices, Register(d) \/ GoOffline(d) \/ DeviceForgets(d)
      PROVE  HomeOK(t)' /\ UNCHANGED p
  <2>1. UNCHANGED <<mem, queue, p, r, m, resent>>
    BY <1>3 DEF Register, GoOffline, DeviceForgets, store, threads
  <2>2. \A e \in Devices : work'[e] \subseteq work[e]
    BY <1>0, <1>3 DEF Register, GoOffline, DeviceForgets, TypeOK, DeviceSideOK
  <2>3. \A e \in Devices : Carrier(t, e)' => Carrier(t, e)
    BY <2>1, <2>2, SameThreads DEF Carrier, SameResult
  <2> QED BY <1>0, <2>1, <2>3, SameThreads, HomeKept DEF Has
<1>4. ASSUME NEW d \in Devices, NEW u \in Tasks, NEW res \in {1, 2}, Report(d, u, res)
      PROVE  HomeOK(t)' /\ UNCHANGED p
  <2>1. /\ UNCHANGED <<mem, p, r, m, resent>> /\ u \in work[d]
        /\ \A e \in Devices : work'[e] \subseteq work[e]
        /\ queue \in Seq(Msg) /\ queue' = Append(queue, [task |-> u, device |-> d, result |-> res])
    BY <1>0, <1>4 DEF Report, store, TypeOK, DeviceSideOK
  <2>2. ASSUME NEW e \in Devices,
               NEW i \in 1 .. Len(queue'), queue'[i].task = t, queue'[i].device = e
        PROVE  Carrier(t, e)
    <3>1. CASE i \in 1 .. Len(queue)
      BY <2>1, <2>2, <3>1 DEF Carrier
    <3>2. CASE i = Len(queue) + 1
      BY <2>1, <2>2, <3>2 DEF Carrier
    <3> QED BY <2>1, <2>2, <3>1, <3>2
  <2>3. \A e \in Devices : Carrier(t, e)' => Carrier(t, e)
    BY <2>1, <2>2, SameThreads DEF Carrier, SameResult
  <2> QED BY <1>0, <2>1, <2>3, SameThreads, HomeKept DEF Has
<1> QED BY <1>1, <1>2, <1>3, <1>4 DEF Calm, Running, MonitorStep

LEMMA HomeInit == Init => HomeInv
<1> SUFFICES ASSUME Init PROVE HomeInv
  OBVIOUS
<1>1. p.packet = {} /\ r.at = "idle" /\ Len(queue) = 0 /\ m.list = {} /\ m.task = None
      /\ \A d \in Devices : work[d] = {}
  BY DEF Init, PIdle, RIdle, MIdle
<1>2. \A t \in Tasks : HomeOK(t)
  BY <1>1, NamesDiffer DEF HomeOK, Carrier, RAt, InList
<1> QED BY <1>1, <1>2, LifeInit DEF HomeInv

LEMMA HomeStep ==
  ASSUME MaxFetch <= 1
  PROVE  HomeInv /\ [Next]_vars /\ ~Crash => HomeInv'
<1> SUFFICES ASSUME HomeInv, [Next]_vars, ~Crash PROVE HomeInv'
  OBVIOUS
<1>1. LifeInv'
  BY LifeStep DEF HomeInv
<1>2. ~StartArchive /\ ~StartLoad
  BY DEF StartArchive, StartLoad, HomeInv, LifeInv
<1>3. CASE PlatformStep \/ \E u \in Tasks : Fetch(u)
  <2>1. p'.at \in {"idle", "row", "slices"} => p'.packet = {}
    <3>1. CASE Tasks = {}
      BY <1>1, <3>1 DEF LifeInv, TypeOK, PlatformOK
    <3>2. CASE Tasks # {}
      BY <1>3, <3>2, PlatformHome
    <3> QED BY <3>1, <3>2
  <2> QED BY <1>1, <1>3, <2>1, PlatformHome DEF HomeInv
<1>4. CASE ResultStep
  <2>1. UNCHANGED p
    BY <1>4 DEF ResultStep, TakeResult, ResultAssignRow, ResultMarkMem, ResultMarkRow,
                ResultDelete, ResultArchive, ResultRemove, ResultNotify
  <2> QED BY <1>1, <1>4, <2>1, ResultHome DEF HomeInv
<1>5. CASE Calm /\ ~PlatformStep /\ ~ResultStep /\ ~\E u \in Tasks : Fetch(u)
  <2>1. UNCHANGED p
    BY <1>5 DEF Calm, Running, MonitorStep, MoveMem, MoveRow, MonitorSend, LookAt, Collect, Resend,
                Register, Report, GoOffline, DeviceForgets, threads
  <2> QED BY <1>1, <1>5, <2>1, OthersHome DEF HomeInv
<1>6. CASE UNCHANGED vars
  <2>1. UNCHANGED <<mem, queue, work, p, r, m, resent>>
    BY <1>6 DEF vars, store, threads
  <2>2. \A t \in Tasks : HomeOK(t)'
    BY <2>1 DEF HomeInv, HomeOK, Carrier, RAt, InList, Has
  <2> QED BY <1>1, <2>1, <2>2 DEF HomeInv
<1> QED BY <1>2, <1>3, <1>4, <1>5, <1>6 DEF Next, Failing, Calm

(* Until the CMS crashes for the first time.                               *)
FirstRun == TypeOK /\ (crashes = 0 => HomeInv)

LEMMA FirstRunNext ==
  ASSUME MaxFetch <= 1
  PROVE  FirstRun /\ [Next]_vars => FirstRun'
<1> SUFFICES ASSUME FirstRun, [Next]_vars, crashes' = 0 PROVE HomeInv'
  BY TypeNext DEF FirstRun
<1>1. ~Crash
  BY DEF Crash, FirstRun, TypeOK, HistoryOK
<1>2. crashes' = crashes
  <2>1. PlatformStep \/ (\E u \in Tasks : Fetch(u)) => UNCHANGED crashes
    BY DEF PlatformStep, Fetch, FetchRow, BeginRound, EndRound, CutSlice, Pack, PackAssignRow,
           PackMarkMem, PackMarkRow, Flush, budget
  <2>2. ResultStep => UNCHANGED crashes
    BY DEF ResultStep, TakeResult, ResultAssignRow, ResultMarkMem, ResultMarkRow, ResultDelete,
           ResultArchive, ResultRemove, ResultNotify, budget
  <2>3. MonitorStep \/ (\E S \in SUBSET Tasks : Collect(S)) => UNCHANGED crashes
    BY DEF MonitorStep, Collect, LookAt, MoveMem, MoveRow, MonitorSend, budget
  <2>4. /\ Resend \/ StartArchive \/ StartLoad \/ UNCHANGED vars => UNCHANGED crashes
        /\ (\E d \in Devices : Register(d) \/ GoOffline(d) \/ DeviceForgets(d)) => UNCHANGED crashes
        /\ (\E d \in Devices, u \in Tasks, res \in {1, 2} : Report(d, u, res)) => UNCHANGED crashes
    BY DEF Resend, Register, Report, GoOffline, DeviceForgets, StartArchive, StartLoad, vars, budget
  <2> QED BY <1>1, <2>1, <2>2, <2>3, <2>4 DEF Next, Running, Failing
<1> QED BY <1>1, <1>2, HomeStep DEF FirstRun

(* A task is at two devices only after the monitor has timed it out,       *)
(* as long as the CMS has not crashed.                                     *)
THEOREM OneDevice ==
  ASSUME MaxFetch <= 1
  PROVE  Spec => []OneDeviceUnlessTimedOut
<1>1. FirstRun => OneDeviceUnlessTimedOut
  <2>1. SUFFICES ASSUME FirstRun, crashes = 0, HomeInv, NEW d \in Devices, NEW e \in Devices, d # e,
                        NEW t \in work[d] \cap work[e], t \notin resent
                 PROVE  FALSE
    BY DEF FirstRun, OneDeviceUnlessTimedOut
  <2>2. t \in Tasks
    BY <2>1 DEF HomeInv, LifeInv, TypeOK, DeviceSideOK
  <2> QED BY <2>1, <2>2 DEF HomeInv, HomeOK, Carrier
<1>2. Init => FirstRun
  BY TypeInit, HomeInit DEF FirstRun
<1> QED BY <1>1, <1>2, FirstRunNext, PTL DEF Spec
=============================================================================
