------------------------- MODULE TaskRecovery_proofs -------------------------
(***************************************************************************)
(* What Dispatch keeps across any number of crashes, at any place, when    *)
(* each task is fetched once: the map agrees with the table whenever no    *)
(* thread is in the middle of an update, and a task is lost only by a      *)
(* crash between the deletion of its row and its archiving.                *)
(***************************************************************************)
EXTENDS TaskLifecycle_proofs

-----------------------------------------------------------------------------
(* The invariant.  After a restart a task may be at a device although it   *)
(* waits in the map, or be lost and still be reported; so much less is     *)
(* known of a task than in LifeOK.                                         *)

Accepted(t) == fetched[t] = 1

KnownOK(t) ==
  /\ fetched[t] \in {0, 1}
  /\ PAt(t) = "row" => fetched[t] = 0
  /\ fetched[t] = 0 =>
       /\ row[t] = None /\ total[t] = None
       /\ mem[t] = IF PAt(t) = "row" THEN Fresh ELSE None
       /\ ~Sent(t) /\ ~Open(t) /\ PAt(t) \in {"row", "elsewhere"}

(* A task is in the hands of the platform thread or of the monitor, not of *)
(* both, unless the result thread ends what they do.                       *)
StatusOK(t) ==
  Has(mem, t) /\ RAt(t) = "elsewhere" =>
    /\ mem[t].status # 2
    /\ Open(t) => mem[t].status = 0
    /\ InList(t) \/ PAt(t) = "mark_row" => mem[t].status = 1

PairOK(t) ==
  up = "up" /\ Accepted(t) /\ RAt(t) = "elsewhere" =>
    /\ Has(mem, t) <=> Has(row, t)
    /\ Has(mem, t) =>
         /\ row[t].status # 2
         /\ PAt(t) = "mark_row" \/ mem[t].status = row[t].status
         /\ PAt(t) = "assign_row" \/ Moving(t) \/ mem[t].device = row[t].device
         /\ PAt(t) = "assign_row" => mem[t].device = p.device
         /\ Moving(t) => mem[t].device = m.device

(* The result thread deletes the row of every task it comes to, and its    *)
(* record in the map.                                                      *)
PlaceOK(t) ==
  /\ RAt(t) \in {"assign_row", "mark_mem", "mark_row", "delete"} => (Has(mem, t) <=> Has(row, t))
  /\ RAt(t) \in {"archive", "remove", "notify"} => ~Has(row, t)
  /\ RAt(t) = "notify" => ~Has(mem, t)

TaskOK(t) == KnownOK(t) /\ StatusOK(t) /\ PairOK(t) /\ PlaceOK(t) /\ Apart(t)

(* While the CMS is down nothing is in memory, and before the recovery     *)
(* deletes the finished rows it has archived them.                         *)
DownOK ==
  /\ up # "up" => /\ p = PIdle /\ r = RIdle /\ m = MIdle /\ queue = <<>>
                  /\ \A t \in Tasks : mem[t] = None
  /\ up = "archived" => \A t \in Tasks : FinishedRow(t) => Has(total, t)

RecoveryInv == TypeOK /\ DownOK /\ \A t \in Tasks : TaskOK(t)

-----------------------------------------------------------------------------
(* A task that a step does not touch.                                      *)
LEMMA Undisturbed ==
  ASSUME NEW t \in Tasks, TaskOK(t), UNCHANGED up,
         SameRecords(t), SamePlatform(t), SameResult(t), SameMonitor(t), Apart(t)',
         Sent(t)' => Accepted(t),
         Open(t)' => Open(t) \/ (Accepted(t) /\ mem[t].status = 0),
         InList(t)' => InList(t) \/ (Accepted(t) /\ mem[t].status = 1)
  PROVE  TaskOK(t)'
<1> USE DEF Has
<1>1. KnownOK(t)'
  BY DEF TaskOK, KnownOK, Accepted, SameRecords, SamePlatform
<1>2. StatusOK(t)'
  BY DEF TaskOK, StatusOK, SameRecords, SamePlatform, SameResult
<1>3. PairOK(t)'
  BY DEF TaskOK, PairOK, Accepted, SameRecords, SamePlatform, SameResult, SameMonitor
<1>4. PlaceOK(t)'
  BY DEF TaskOK, PlaceOK, SameRecords, SameResult
<1> QED BY <1>1, <1>2, <1>3, <1>4 DEF TaskOK

LEMMA SentAccepted ==
  ASSUME NEW t \in Tasks, TaskOK(t)
  PROVE  /\ Sent(t) \/ Open(t) => Accepted(t)
         /\ Has(mem, t) /\ mem[t].status = 1 => Accepted(t)
         /\ Has(mem, t) /\ p.at # "row" => Accepted(t)
<1>1. Fresh.status = 0
  BY DEF Fresh
<1>2. PAt(t) = "row" => p.at = "row"
  BY DEF PAt
<1> QED BY <1>1, <1>2 DEF TaskOK, KnownOK, Accepted, Has

-----------------------------------------------------------------------------
(* The platform thread.                                                    *)

LEMMA FetchKept ==
  ASSUME MaxFetch <= 1, RecoveryInv, NEW u \in Tasks, Fetch(u), UNCHANGED up, NEW t \in Tasks
  PROVE  TaskOK(t)'
<1>1. /\ mem' = [mem EXCEPT ![u] = Fresh] /\ UNCHANGED <<row, total, fetched, work, queue, r, m>>
      /\ p.at = "idle" /\ p' = [p EXCEPT !.at = "row", !.task = u]
      /\ fetched[u] \in Nat /\ fetched[u] < MaxFetch
  BY DEF Fetch, budget, RecoveryInv, TypeOK, HistoryOK
<1>2. mem \in Table /\ p'.at = "row" /\ p'.task = u
      /\ p'.need = p.need /\ p'.slice = p.slice /\ p'.packet = p.packet
  BY <1>1 DEF RecoveryInv, TypeOK, StoreOK, PlatformOK
<1>3. TaskOK(t) /\ KnownOK(t) /\ Apart(t) /\ PAt(t) = "elsewhere"
  BY <1>1 DEF RecoveryInv, TaskOK, PAt
<1>4. PAt(t)' = IF t = u THEN "row" ELSE "elsewhere"
  BY <1>2 DEF PAt
<1>5. /\ (Sent(t)' <=> Sent(t)) /\ (Open(t)' <=> Open(t)) /\ (Apart(t)' <=> Apart(t))
      /\ (InList(t)' <=> InList(t)) /\ RAt(t)' = RAt(t)
  BY <1>1, <1>2, <1>3, <1>4, SameThreads DEF Sent, InPacket, RAt, Open, Apart
<1>6. CASE t # u
  <2>1. SameRecords(t) /\ SamePlatform(t) /\ SameResult(t) /\ SameMonitor(t)
    BY <1>1, <1>2, <1>3, <1>4, <1>6, SameThreads DEF SameRecords, SamePlatform, Table
  <2> QED BY <1>3, <1>5, <2>1, Undisturbed, SentAccepted
<1>7. CASE t = u
  <2>1. fetched[u] = 0
    BY <1>1, BoundsAreNaturals
  <2>2. /\ row'[u] = None /\ total'[u] = None /\ mem'[u] = Fresh /\ fetched'[u] = 0
        /\ ~Sent(u) /\ ~Open(u)
    BY <1>1, <1>2, <1>3, <1>7, <2>1 DEF KnownOK, Table
  <2>3. ~InList(u)' /\ ~Open(u)' /\ ~Sent(u)' /\ RAt(u)' = "elsewhere" /\ Fresh.status = 0
    BY <1>5, <1>7, <2>2 DEF Sent, Fresh
  <2>4. KnownOK(u)' /\ StatusOK(u)'
    BY <1>4, <1>7, <2>2, <2>3 DEF KnownOK, StatusOK
  <2>5. PairOK(u)' /\ PlaceOK(u)'
    BY <2>2, <2>3 DEF PairOK, PlaceOK, Accepted
  <2> QED BY <1>3, <1>5, <1>7, <2>4, <2>5 DEF TaskOK
<1> QED BY <1>6, <1>7

LEMMA FetchRowKept ==
  ASSUME RecoveryInv, FetchRow, UNCHANGED up, NEW t \in Tasks
  PROVE  TaskOK(t)'
<1>1. PICK u \in Tasks : u = p.task
  BY DEF FetchRow, RecoveryInv, TypeOK, PlatformOK
<1>2. p.at = "row" /\ p' = PIdle /\ UNCHANGED <<mem, total, work, queue, r, m>>
      /\ fetched' = [fetched EXCEPT ![u] = @ + 1]
  BY <1>1 DEF FetchRow
<1>3. TaskOK(t) /\ TaskOK(u) /\ row \in Table /\ fetched \in [Tasks -> Nat]
  BY DEF RecoveryInv, TypeOK, StoreOK, HistoryOK
<1>4. fetched[u] = 0 /\ mem[u] = Fresh /\ row[u] = None /\ ~Sent(u) /\ total[u] = None
  BY <1>1, <1>2, <1>3 DEF TaskOK, KnownOK, PAt
<1>5. Fresh # None /\ Fresh.status = 0
  BY FreshType, NoneIsNoRecord DEF Fresh
<1>6. row' = [row EXCEPT ![u] = Fresh]
  BY <1>1, <1>4, <1>5 DEF FetchRow, Has
<1>7. /\ PAt(t)' = "elsewhere" /\ ~Open(t)' /\ Apart(t)' /\ (Sent(t)' => Sent(t))
      /\ (InList(t)' <=> InList(t))
  <2>1. PAt(t)' = "elsewhere" /\ ~Open(t)' /\ Apart(t)' /\ ~InPacket(t)'
    BY <1>2, IdleTypes DEF PAt, Open, Apart, InPacket
  <2>2. RAt(t)' = RAt(t) /\ InWork(t)' = InWork(t) /\ InQueue(t)' = InQueue(t) /\ InList(t)' = InList(t)
    BY <1>2 DEF RAt, InWork, InQueue, InList
  <2> QED BY <2>1, <2>2 DEF Sent
<1>8. CASE t # u
  <2>1. PAt(t) = "elsewhere"
    BY <1>1, <1>8 DEF PAt
  <2>2. SameRecords(t) /\ SamePlatform(t) /\ SameResult(t) /\ SameMonitor(t)
    BY <1>2, <1>3, <1>6, <1>7, <1>8, <2>1, SameThreads DEF SameRecords, SamePlatform, Table
  <2> QED BY <1>3, <1>7, <2>2, Undisturbed, SentAccepted
<1>9. CASE t = u
  <2>1. mem'[u] = Fresh /\ row'[u] = Fresh /\ total'[u] = None /\ fetched'[u] = 1
    BY <1>2, <1>3, <1>4, <1>6 DEF Table
  <2>2. ~Sent(u)' /\ RAt(u)' = "elsewhere" /\ ~Moving(u)' /\ ~InList(u)'
    BY <1>4, <1>7, <1>9 DEF Sent, InList, Moving
  <2>3. KnownOK(u)' /\ StatusOK(u)'
    BY <1>5, <1>7, <1>9, <2>1, <2>2 DEF KnownOK, StatusOK
  <2>4. PairOK(u)' /\ PlaceOK(u)'
    BY <1>5, <1>7, <1>9, <2>1, <2>2 DEF PairOK, PlaceOK, Has
  <2> QED BY <1>7, <1>9, <2>3, <2>4 DEF TaskOK
<1> QED BY <1>8, <1>9

(* Steps of the platform thread between the marking of tasks: what it has  *)
(* to do becomes less, or is what waits.                                   *)
LEMMA PlatformGoesOn ==
  ASSUME RecoveryInv, UNCHANGED <<up, mem, row, total, fetched, queue, r, m>>, NEW t \in Tasks,
         p.at # "row", PAt(t) = "elsewhere", PAt(t)' = "elsewhere",
         InPacket(t)' => InPacket(t), InWork(t)' => InWork(t) \/ InPacket(t),
         Open(t)' => Open(t) \/ t \in InStatus(0), ~(t \in p'.need /\ t \in p'.slice)
  PROVE  TaskOK(t)'
<1>1. TaskOK(t)
  BY DEF RecoveryInv
<1>2. /\ SameRecords(t) /\ SamePlatform(t) /\ SameResult(t) /\ SameMonitor(t)
      /\ (InList(t)' <=> InList(t))
  BY SameThreads DEF SameRecords, SamePlatform
<1>3. Sent(t)' => Sent(t)
  BY <1>2, SameThreads DEF Sent, SameResult
<1>4. Apart(t)'
  BY DEF Apart
<1>5. t \in InStatus(0) => Accepted(t) /\ mem[t].status = 0
  BY <1>1, SentAccepted DEF InStatus
<1> QED BY <1>1, <1>2, <1>3, <1>4, <1>5, Undisturbed, SentAccepted

LEMMA RoundKept ==
  ASSUME RecoveryInv, UNCHANGED up, BeginRound \/ EndRound \/ \E d \in Devices : CutSlice(d),
         NEW t \in Tasks
  PROVE  TaskOK(t)'
<1>1. UNCHANGED <<mem, row, total, fetched, work, queue, r, m>>
  BY DEF BeginRound, EndRound, CutSlice, store, budget
<1>2. PAt(t) = "elsewhere" /\ Apart(t) /\ p.at \in {"idle", "slices"}
  BY DEF BeginRound, EndRound, CutSlice, PAt, RecoveryInv, TaskOK
<1>3. CASE EndRound
  <2>1. p'.at = "idle" /\ p'.need = {} /\ p'.slice = {} /\ p'.packet = {}
    BY <1>3, IdleTypes DEF EndRound
  <2> QED BY <1>1, <1>2, <2>1, SameThreads, PlatformGoesOn DEF PAt, InPacket, Open
<1>4. CASE BeginRound
  <2>1. p'.at = "slices" /\ p'.need = InStatus(0) /\ p'.slice = {} /\ p'.packet = {}
    BY <1>4 DEF BeginRound, PIdle
  <2> QED BY <1>1, <1>2, <2>1, SameThreads, PlatformGoesOn DEF PAt, InPacket, Open
<1>5. ASSUME NEW d \in Devices, CutSlice(d) PROVE TaskOK(t)'
  <2>1. PICK S \in SUBSET p.need :
          p' = [p EXCEPT !.devs = @ \ {d}, !.need = @ \ S,
                         !.at = IF S # {} /\ d \in online THEN "pack" ELSE "slices",
                         !.device = IF S # {} /\ d \in online THEN d ELSE None,
                         !.slice = IF d \in online THEN S ELSE {}]
    BY <1>5 DEF CutSlice
  <2>2. p'.at \in {"pack", "slices"} /\ p'.packet = p.packet
        /\ p'.need = p.need \ S /\ p'.slice \in {S, {}}
    BY <2>1 DEF RecoveryInv, TypeOK, PlatformOK
  <2>3. PAt(t)' = "elsewhere"
    BY <2>2 DEF PAt
  <2>4. (InPacket(t)' => InPacket(t)) /\ (Open(t)' => Open(t)) /\ ~(t \in p'.need /\ t \in p'.slice)
    BY <1>2, <2>2, <2>3 DEF InPacket, Open
  <2> QED BY <1>1, <1>2, <2>3, <2>4, SameThreads, PlatformGoesOn
<1> QED BY <1>3, <1>4, <1>5

LEMMA FlushKept ==
  ASSUME RecoveryInv, UNCHANGED up, Flush, NEW t \in Tasks
  PROVE  TaskOK(t)'
<1>1. UNCHANGED <<mem, row, total, fetched, queue, r, m>> /\ p.at = "flush"
  BY DEF Flush, store
<1>2. PAt(t) = "elsewhere" /\ Apart(t)
  BY <1>1 DEF PAt, RecoveryInv, TaskOK
<1>3. PICK gone \in BOOLEAN : Send(p.device, p.packet, gone)
  BY DEF Flush
<1>4. p.device \in Devices /\ p.packet \in SUBSET Tasks
  BY <1>1 DEF RecoveryInv, TypeOK, PlatformOK
<1>5. \A e \in Devices : work'[e] \subseteq work[e] \cup p.packet
  BY <1>3, <1>4, SendWork DEF RecoveryInv
<1>6. InWork(t)' => InWork(t) \/ InPacket(t)
  BY <1>2, <1>5 DEF InWork, InPacket
<1>7. p'.at \in {"slices", "pack"} /\ p'.packet = {} /\ p'.need = p.need /\ p'.slice \subseteq p.slice
  BY DEF Flush, RecoveryInv, TypeOK, PlatformOK
<1>8. /\ PAt(t)' = "elsewhere" /\ ~InPacket(t)' /\ (Open(t)' => Open(t))
      /\ ~(t \in p'.need /\ t \in p'.slice)
  BY <1>2, <1>7 DEF PAt, InPacket, Open, Apart
<1> QED BY <1>1, <1>2, <1>6, <1>8, PlatformGoesOn

(* The tasks other than the one that is being packed.                      *)
LEMMA PackOthersKept ==
  ASSUME RecoveryInv, UNCHANGED up, NEW u \in Tasks, NEW t \in Tasks, t # u, PackStep(u)
  PROVE  TaskOK(t)'
<1> USE DEF PackStep
<1>1. /\ UNCHANGED <<total, fetched, work, queue, r, m>>
      /\ TaskOK(t) /\ Apart(t) /\ mem \in Table /\ row \in Table /\ p.device \in Devices
  BY DEF Pack, PackAssignRow, PackMarkMem, PackMarkRow, budget, RecoveryInv, TaskOK, TypeOK,
         StoreOK, PlatformOK
<1>2. SameRecords(t)
  <2>1. SetDevice(mem, u, p.device)[t] = mem[t] /\ SetDevice(row, u, p.device)[t] = row[t]
    BY <1>1, SetDeviceAt
  <2>2. SetResult(mem, u, 1, 0)[t] = mem[t] /\ SetResult(row, u, 1, 0)[t] = row[t]
    BY <1>1, MarkedAt
  <2> QED BY <1>1, <2>1, <2>2 DEF SameRecords, Pack, PackAssignRow, PackMarkMem, PackMarkRow
<1>3. /\ p'.need = p.need /\ p'.slice \subseteq p.slice
      /\ t \in p'.packet <=> t \in p.packet
      /\ PAt(t) = "elsewhere" /\ PAt(t)' = "elsewhere"
  <2>1. CASE Pack(u)
    BY <2>1 DEF Pack, PAt, RecoveryInv, TypeOK, PlatformOK
  <2>2. CASE u = p.task /\ (PackAssignRow \/ PackMarkMem)
    BY <2>2 DEF PackAssignRow, PackMarkMem, PAt, RecoveryInv, TypeOK, PlatformOK
  <2>3. CASE u = p.task /\ PackMarkRow
    BY <2>3 DEF PackMarkRow, PAt, RecoveryInv, TypeOK, PlatformOK
  <2> QED BY <2>1, <2>2, <2>3
<1>4. SamePlatform(t) /\ SameResult(t) /\ SameMonitor(t) /\ (InList(t)' <=> InList(t))
  BY <1>1, <1>3, SameThreads DEF SamePlatform
<1>5. (Open(t)' => Open(t)) /\ Apart(t)'
  BY <1>1, <1>3 DEF Open, Apart
<1>6. InPacket(t)' => InPacket(t)
  BY <1>3 DEF InPacket
<1>7. Sent(t)' => Sent(t)
  BY <1>1, <1>4, <1>6, SameThreads DEF Sent, SameResult
<1> QED BY <1>1, <1>2, <1>4, <1>5, <1>7, Undisturbed, SentAccepted

(* The task that is being packed.  It is accepted; that it waits and is    *)
(* with nobody else is known while it is in the map.                       *)
LEMMA StaysKnown ==
  ASSUME NEW t \in Tasks, Accepted(t), UNCHANGED fetched, PAt(t)' # "row"
  PROVE  KnownOK(t)'
BY DEF Accepted, KnownOK

LEMMA PackKept ==
  ASSUME RecoveryInv, UNCHANGED up, NEW u \in Tasks, Pack(u)
  PROVE  TaskOK(u)'
<1>1. /\ UNCHANGED <<row, total, fetched, work, queue, r, m>>
      /\ mem' = SetDevice(mem, u, p.device) /\ mem \in Table /\ p.device \in Devices
      /\ p.at = "pack" /\ u \in p.slice /\ TaskOK(u)
  BY DEF Pack, budget, RecoveryInv, TypeOK, StoreOK, PlatformOK
<1>2. p'.at = "assign_row" /\ p'.task = u /\ p'.need = p.need /\ p'.slice = p.slice \ {u}
      /\ p'.device = p.device
  BY DEF Pack, RecoveryInv, TypeOK, PlatformOK
<1>3. Accepted(u) /\ Open(u) /\ u \notin p.need
  BY <1>1, SentAccepted DEF Open, TaskOK, Apart
<1>4. PAt(u) = "elsewhere" /\ PAt(u)' = "assign_row"
  BY <1>1, <1>2 DEF PAt
<1>5. /\ Has(mem', u) <=> Has(mem, u)
      /\ Has(mem', u) => mem'[u].status = mem[u].status /\ mem'[u].device = p.device
  BY <1>1, SetDeviceAt
<1>6. RAt(u)' = RAt(u) /\ (InList(u)' <=> InList(u)) /\ (Moving(u)' => InList(u)) /\ Apart(u)'
  BY <1>1, <1>2, <1>3, SameThreads DEF SameResult, Apart, Moving, InList
<1>7. KnownOK(u)'
  BY <1>1, <1>3, <1>4, StaysKnown
<1>8. StatusOK(u)' /\ (Has(mem, u) /\ RAt(u) = "elsewhere" => ~InList(u))
  BY <1>1, <1>3, <1>4, <1>5, <1>6 DEF TaskOK, StatusOK
<1>9. PairOK(u)'
  BY <1>1, <1>2, <1>3, <1>4, <1>5, <1>6, <1>8 DEF TaskOK, PairOK, Accepted, Has
<1>10. PlaceOK(u)'
  BY <1>1, <1>5, <1>6 DEF TaskOK, PlaceOK, Has
<1> QED BY <1>6, <1>7, <1>8, <1>9, <1>10 DEF TaskOK

LEMMA PackAssignRowKept ==
  ASSUME RecoveryInv, UNCHANGED up, NEW u \in Tasks, u = p.task, PackAssignRow
  PROVE  TaskOK(u)'
<1>1. /\ UNCHANGED <<mem, total, fetched, work, queue, r, m>>
      /\ row' = SetDevice(row, u, p.device) /\ row \in Table /\ p.device \in Devices
      /\ p.at = "assign_row" /\ TaskOK(u)
  BY DEF PackAssignRow, budget, RecoveryInv, TypeOK, StoreOK, PlatformOK
<1>2. p'.at = "mark_mem" /\ p'.task = u /\ p'.need = p.need /\ p'.slice = p.slice
  BY DEF PackAssignRow, RecoveryInv, TypeOK, PlatformOK
<1>3. PAt(u) = "assign_row" /\ PAt(u)' = "mark_mem"
  BY <1>1, <1>2 DEF PAt
<1>4. Accepted(u) /\ Open(u) /\ Apart(u)'
  BY <1>1, <1>2, <1>3, SentAccepted DEF Open, TaskOK, Apart
<1>5. /\ Has(row', u) <=> Has(row, u)
      /\ Has(row', u) => row'[u].status = row[u].status /\ row'[u].device = p.device
  BY <1>1, SetDeviceAt
<1>6. RAt(u)' = RAt(u) /\ (InList(u)' <=> InList(u)) /\ (Moving(u)' => InList(u))
  BY <1>1, SameThreads DEF SameResult, Moving, InList
<1>7. KnownOK(u)'
  BY <1>1, <1>3, <1>4, StaysKnown
<1>8. StatusOK(u)' /\ (Has(mem, u) /\ RAt(u) = "elsewhere" => ~InList(u))
  BY <1>1, <1>3, <1>4, <1>6 DEF TaskOK, StatusOK, Has
<1>9. PairOK(u)'
  BY <1>1, <1>2, <1>3, <1>4, <1>5, <1>6, <1>8 DEF TaskOK, PairOK, Accepted, Has
<1>10. PlaceOK(u)'
  BY <1>1, <1>5, <1>6 DEF TaskOK, PlaceOK, Has
<1> QED BY <1>4, <1>7, <1>8, <1>9, <1>10 DEF TaskOK

LEMMA PackMarkMemKept ==
  ASSUME RecoveryInv, UNCHANGED up, NEW u \in Tasks, u = p.task, PackMarkMem
  PROVE  TaskOK(u)'
<1>1. /\ UNCHANGED <<row, total, fetched, work, queue, r, m>>
      /\ mem' = SetResult(mem, u, 1, 0) /\ mem \in Table
      /\ p.at = "mark_mem" /\ TaskOK(u)
  BY DEF PackMarkMem, budget, RecoveryInv, TypeOK, StoreOK
<1>2. p'.at = "mark_row" /\ p'.task = u /\ p'.need = p.need /\ p'.slice = p.slice
  BY DEF PackMarkMem, RecoveryInv, TypeOK, PlatformOK
<1>3. PAt(u) = "mark_mem" /\ PAt(u)' = "mark_row"
  BY <1>1, <1>2 DEF PAt
<1>4. Accepted(u) /\ Open(u) /\ ~Open(u)' /\ Apart(u)'
  BY <1>1, <1>2, <1>3, SentAccepted DEF Open, TaskOK, Apart
<1>5. /\ Has(mem', u) <=> Has(mem, u)
      /\ Has(mem', u) => mem'[u].status = 1 /\ mem'[u].device = mem[u].device
  BY <1>1, MarkedAt DEF Has
<1>6. RAt(u)' = RAt(u) /\ (InList(u)' <=> InList(u)) /\ (Moving(u)' => InList(u))
  BY <1>1, SameThreads DEF SameResult, Moving, InList
<1>7. KnownOK(u)'
  BY <1>1, <1>3, <1>4, StaysKnown
<1>8. StatusOK(u)' /\ (Has(mem, u) /\ RAt(u) = "elsewhere" => ~InList(u))
  BY <1>1, <1>3, <1>4, <1>5, <1>6 DEF TaskOK, StatusOK
<1>9. PairOK(u)'
  BY <1>1, <1>3, <1>4, <1>5, <1>6, <1>8 DEF TaskOK, PairOK, Accepted, Moving, InList, Has
<1>10. PlaceOK(u)'
  BY <1>1, <1>5, <1>6 DEF TaskOK, PlaceOK, Has
<1> QED BY <1>4, <1>7, <1>8, <1>9, <1>10 DEF TaskOK

LEMMA PackMarkRowKept ==
  ASSUME RecoveryInv, UNCHANGED up, NEW u \in Tasks, u = p.task, PackMarkRow
  PROVE  TaskOK(u)'
<1>1. /\ UNCHANGED <<mem, total, fetched, work, queue, r, m>>
      /\ row' = SetResult(row, u, 1, 0) /\ mem \in Table /\ row \in Table
      /\ p.at = "mark_row" /\ TaskOK(u)
  BY DEF PackMarkRow, budget, RecoveryInv, TypeOK, StoreOK
<1>2. p'.at \in {"flush", "pack"} /\ p'.need = p.need /\ p'.slice = p.slice
  BY DEF PackMarkRow, RecoveryInv, TypeOK, PlatformOK
<1>3. PAt(u) = "mark_row" /\ PAt(u)' = "elsewhere"
  BY <1>1, <1>2 DEF PAt
<1>4. Accepted(u) /\ (Open(u)' => Open(u)) /\ Apart(u)'
  BY <1>1, <1>2, <1>3 DEF Open, TaskOK, Apart, KnownOK, Accepted
<1>5. /\ Has(row', u) <=> Has(row, u)
      /\ Has(row', u) => row'[u].status = 1 /\ row'[u].device = row[u].device
  BY <1>1, MarkedAt DEF Has
<1>6. RAt(u)' = RAt(u) /\ (InList(u)' <=> InList(u)) /\ (Moving(u)' <=> Moving(u)) /\ m' = m
  BY <1>1, SameThreads DEF SameResult, SameMonitor
<1>7. KnownOK(u)'
  BY <1>1, <1>3, <1>4, StaysKnown
<1>8. StatusOK(u)' /\ (Has(mem, u) /\ RAt(u) = "elsewhere" => mem[u].status = 1)
  BY <1>1, <1>3, <1>4, <1>6 DEF TaskOK, StatusOK, Has
<1>9. PairOK(u)'
  BY <1>1, <1>3, <1>4, <1>5, <1>6, <1>8 DEF TaskOK, PairOK, Accepted, Has
<1>10. PlaceOK(u)'
  BY <1>1, <1>5, <1>6 DEF TaskOK, PlaceOK, Has
<1> QED BY <1>4, <1>7, <1>8, <1>9, <1>10 DEF TaskOK

LEMMA PlatformKept ==
  ASSUME MaxFetch <= 1, RecoveryInv, UNCHANGED up, PlatformStep \/ \E u \in Tasks : Fetch(u),
         NEW t \in Tasks
  PROVE  TaskOK(t)'
<1>1. ASSUME NEW u \in Tasks, Pack(u) PROVE TaskOK(t)'
  <2>1. CASE t = u
    BY <1>1, <2>1, PackKept
  <2>2. CASE t # u
    BY <1>1, <2>2, PackOthersKept DEF PackStep
  <2> QED BY <2>1, <2>2
<1>2. CASE PackAssignRow \/ PackMarkMem \/ PackMarkRow
  <2>1. p.task \in Tasks
    BY <1>2 DEF PackAssignRow, PackMarkMem, PackMarkRow, RecoveryInv, TypeOK, PlatformOK
  <2>2. CASE t # p.task
    BY <1>2, <2>1, <2>2, PackOthersKept DEF PackStep
  <2>3. CASE t = p.task
    BY <1>2, <2>3, PackAssignRowKept, PackMarkMemKept, PackMarkRowKept
  <2> QED BY <2>2, <2>3
<1> QED BY <1>1, <1>2, FetchKept, FetchRowKept, RoundKept, FlushKept DEF PlatformStep

-----------------------------------------------------------------------------
(* The result thread.                                                      *)

(* A step of the result thread on task u touches no other task ...         *)
LEMMA ResultOthersKept ==
  ASSUME RecoveryInv, UNCHANGED up, NEW u \in Tasks, NEW t \in Tasks, t # u,
         UNCHANGED <<fetched, work, p, m>>,
         mem'[t] = mem[t], row'[t] = row[t], total'[t] = total[t],
         InQueue(t)' => InQueue(t),
         r.at # "idle" => r.msg.task = u, r'.at # "idle" => r'.msg.task = u
  PROVE  TaskOK(t)'
<1>1. TaskOK(t) /\ Apart(t)
  BY DEF RecoveryInv, TaskOK
<1>2. SameRecords(t) /\ SamePlatform(t) /\ SameMonitor(t) /\ (InList(t)' <=> InList(t))
  BY SameThreads DEF SameRecords
<1>3. RAt(t) = "elsewhere" /\ RAt(t)' = "elsewhere"
  BY DEF RAt
<1>4. (Sent(t)' => Sent(t)) /\ (Open(t)' <=> Open(t)) /\ (Apart(t)' <=> Apart(t))
  BY <1>3, SameThreads DEF Sent
<1> QED BY <1>1, <1>2, <1>3, <1>4, Undisturbed, SentAccepted DEF SameResult

(* ... and while it is at u, or has removed it, little can be wrong.       *)
LEMMA ReportedKept ==
  ASSUME RecoveryInv, UNCHANGED up, NEW u \in Tasks, UNCHANGED <<fetched, p, m>>, Sent(u),
         RAt(u)' # "elsewhere" \/ (~Has(mem', u) /\ ~Has(row', u)), PlaceOK(u)'
  PROVE  TaskOK(u)'
<1>1. TaskOK(u) /\ Accepted(u)
  BY SentAccepted DEF RecoveryInv
<1>2. PAt(u)' = PAt(u) /\ (Apart(u)' <=> Apart(u)) /\ PAt(u) # "row"
  BY <1>1, SameThreads DEF SamePlatform, TaskOK, KnownOK, Accepted
<1>3. KnownOK(u)'
  BY <1>1, <1>2, StaysKnown
<1>4. StatusOK(u)' /\ PairOK(u)'
  BY DEF StatusOK, PairOK, Has
<1> QED BY <1>1, <1>2, <1>3, <1>4 DEF TaskOK

LEMMA TakeResultKept ==
  ASSUME RecoveryInv, UNCHANGED up, up = "up", TakeResult, NEW t \in Tasks
  PROVE  TaskOK(t)'
<1>1. queue \in Seq(Msg) /\ queue # <<>> /\ mem \in Table
  BY DEF TakeResult, RecoveryInv, TypeOK, DeviceSideOK, StoreOK
<1>2. PICK u \in Tasks, d \in Devices : u = queue[1].task /\ d = queue[1].device
  <2>1. queue[1] \in Msg
    BY <1>1
  <2> QED BY <2>1 DEF Msg
<1>3. /\ r.at = "idle" /\ r'.at = "assign_row" /\ r'.msg.task = u
      /\ mem' = SetDevice(mem, u, d) /\ queue' = Tail(queue)
      /\ UNCHANGED <<row, total, fetched, work, p, m>>
  BY <1>1, <1>2 DEF TakeResult, budget
<1>4. CASE t # u
  <2>1. mem'[t] = mem[t]
    BY <1>1, <1>3, <1>4, SetDeviceAt
  <2>2. InQueue(t)' => InQueue(t)
    <3>1. \A i \in 1 .. Len(queue') : i + 1 \in 1 .. Len(queue) /\ queue'[i] = queue[i + 1]
      BY <1>1, <1>3
    <3> QED BY <3>1 DEF InQueue
  <2> QED BY <1>3, <1>4, <2>1, <2>2, ResultOthersKept
<1>5. CASE t = u
  <2>1. Sent(u) /\ Accepted(u)
    <3>1. Sent(u)
      BY <1>1, <1>2 DEF Sent, InQueue
    <3> QED BY <3>1, SentAccepted DEF RecoveryInv
  <2>2. RAt(u) = "elsewhere" /\ RAt(u)' = "assign_row" /\ PairOK(u)
    BY <1>3 DEF RAt, RecoveryInv, TaskOK
  <2>3. Has(mem', u) <=> Has(mem, u)
    BY <1>1, <1>3, SetDeviceAt
  <2>4. PlaceOK(u)'
    BY <1>3, <2>1, <2>2, <2>3 DEF PairOK, PlaceOK, Has
  <2> QED BY <1>3, <1>5, <2>1, <2>2, <2>4, ReportedKept
<1> QED BY <1>4, <1>5

(* The later steps, all on the task of the message.                        *)
LEMMA MessageInHand ==
  ASSUME RecoveryInv, r.at # "idle"
  PROVE  /\ r.msg.task \in Tasks /\ r.msg.device \in Devices /\ r.msg.result \in {1, 2}
         /\ RAt(r.msg.task) = r.at /\ Sent(r.msg.task)
<1>1. r.msg \in Msg
  BY DEF RecoveryInv, TypeOK, ResultOK
<1>2. r.msg.task \in Tasks /\ r.msg.device \in Devices /\ r.msg.result \in {1, 2}
  BY <1>1 DEF Msg
<1>3. RAt(r.msg.task) = r.at /\ r.at # "elsewhere"
  BY DEF RAt, RecoveryInv, TypeOK, ResultOK
<1> QED BY <1>2, <1>3 DEF Sent

LEMMA ResultMarkKept ==
  ASSUME RecoveryInv, UNCHANGED up, ResultAssignRow \/ ResultMarkMem \/ ResultMarkRow,
         NEW t \in Tasks
  PROVE  TaskOK(t)'
<1>0. PICK u \in Tasks : u = r.msg.task
  BY MessageInHand DEF ResultAssignRow, ResultMarkMem, ResultMarkRow
<1>1. /\ UNCHANGED <<total, fetched, work, p, m, queue>>
      /\ r'.msg = r.msg /\ mem \in Table /\ row \in Table /\ r.at # "idle"
  BY DEF ResultAssignRow, ResultMarkMem, ResultMarkRow, ToR, budget, RecoveryInv, TypeOK, StoreOK,
         ResultOK
<1>2. /\ r.msg.device \in Devices /\ r.msg.result \in {1, 2} /\ RAt(u) = r.at /\ Sent(u)
      /\ PlaceOK(u) /\ r.at \in {"assign_row", "mark_mem", "mark_row"}
  BY <1>0, <1>1, MessageInHand DEF RecoveryInv, TaskOK, ResultAssignRow, ResultMarkMem, ResultMarkRow
<1>3. RAt(u)' = r'.at /\ r'.at \in {"mark_mem", "mark_row", "delete"}
  BY <1>0, <1>1 DEF RAt, ResultAssignRow, ResultMarkMem, ResultMarkRow, ToR, RecoveryInv,
                    TypeOK, ResultOK
<1>4. CASE t # u
  <2>1. mem'[t] = mem[t]
    BY <1>0, <1>1, <1>2, <1>4, ReportWritten DEF ResultAssignRow, ResultMarkMem, ResultMarkRow
  <2>2. row'[t] = row[t]
    <3>1. SetDevice(row, u, r.msg.device)[t] = row[t]
      BY <1>1, <1>2, <1>4, SetDeviceAt
    <3>2. SetResult(row, u, 2, r.msg.result)[t] = row[t]
      BY <1>1, <1>2, <1>4, ReportWritten
    <3> QED BY <1>0, <3>1, <3>2 DEF ResultAssignRow, ResultMarkMem, ResultMarkRow
  <2> QED BY <1>0, <1>1, <1>4, <2>1, <2>2, SameThreads, ResultOthersKept
<1>5. (Has(mem', u) <=> Has(mem, u)) /\ (Has(row', u) <=> Has(row, u))
  <2>1. CASE ResultAssignRow
    <3>1. Has(row', u) <=> Has(row, u)
      BY <1>0, <1>1, <1>2, <2>1, SetDeviceAt DEF ResultAssignRow
    <3> QED BY <2>1, <3>1 DEF ResultAssignRow, Has
  <2>2. CASE ResultMarkMem
    <3>1. Has(mem', u) <=> Has(mem, u)
      BY <1>0, <1>1, <1>2, <2>2, ReportWritten DEF ResultMarkMem
    <3> QED BY <2>2, <3>1 DEF ResultMarkMem, Has
  <2>3. CASE ResultMarkRow
    <3>1. Has(row', u) <=> Has(row, u)
      BY <1>0, <1>1, <1>2, <2>3, ReportWritten DEF ResultMarkRow
    <3> QED BY <2>3, <3>1 DEF ResultMarkRow, Has
  <2> QED BY <2>1, <2>2, <2>3
<1>6. PlaceOK(u)'
  BY <1>2, <1>3, <1>5 DEF PlaceOK, Has
<1> QED BY <1>1, <1>2, <1>3, <1>4, <1>6, ReportedKept

LEMMA ResultDeleteKept ==
  ASSUME RecoveryInv, UNCHANGED up, ResultDelete, NEW t \in Tasks
  PROVE  TaskOK(t)'
<1>0. PICK u \in Tasks : u = r.msg.task
  BY MessageInHand DEF ResultDelete
<1>1. /\ UNCHANGED <<mem, total, fetched, work, p, m, queue>> /\ row' = [row EXCEPT ![u] = None]
      /\ r'.msg = r.msg /\ row \in Table /\ r.at = "delete" /\ r'.at = "archive"
  BY <1>0 DEF ResultDelete, ToR, budget, RecoveryInv, TypeOK, StoreOK, ResultOK
<1>2. Sent(u) /\ RAt(u)' = "archive"
  BY <1>0, <1>1, MessageInHand DEF RAt
<1>3. row'[u] = None /\ (t # u => row'[t] = row[t])
  BY <1>1 DEF Table
<1>4. CASE t # u
  BY <1>0, <1>1, <1>3, <1>4, SameThreads, ResultOthersKept
<1>5. PlaceOK(u)'
  BY <1>2, <1>3 DEF PlaceOK, Has
<1> QED BY <1>1, <1>2, <1>4, <1>5, ReportedKept

LEMMA ResultArchiveKept ==
  ASSUME RecoveryInv, UNCHANGED up, ResultArchive, NEW t \in Tasks
  PROVE  TaskOK(t)'
<1>0. PICK u \in Tasks : u = r.msg.task
  BY MessageInHand DEF ResultArchive
<1>1. /\ UNCHANGED <<mem, row, fetched, work, p, m, queue>> /\ r.msg.result \in {1, 2}
      /\ total' = Archived(u, 2, r.msg.result) /\ total \in Table
      /\ r'.msg = r.msg /\ r.at = "archive" /\ r'.at = "remove"
  BY <1>0, MessageInHand DEF ResultArchive, ToR, budget, RecoveryInv, TypeOK, StoreOK, ResultOK
<1>2. Sent(u) /\ RAt(u) = "archive" /\ RAt(u)' = "remove" /\ PlaceOK(u)
  BY <1>0, <1>1, MessageInHand DEF RAt, RecoveryInv, TaskOK
<1>3. t # u => total'[t] = total[t]
  <2>1. CASE Has(mem, u)
    BY <1>1, <2>1 DEF Archived, Table
  <2>2. CASE ~Has(mem, u)
    BY <1>1, <2>2, ReportWritten DEF Archived
  <2> QED BY <2>1, <2>2
<1>4. CASE t # u
  BY <1>0, <1>1, <1>3, <1>4, SameThreads, ResultOthersKept
<1>5. PlaceOK(u)'
  BY <1>1, <1>2 DEF PlaceOK, Has
<1> QED BY <1>1, <1>2, <1>4, <1>5, ReportedKept

LEMMA ResultEndKept ==
  ASSUME RecoveryInv, UNCHANGED up, ResultRemove \/ ResultNotify, NEW t \in Tasks
  PROVE  TaskOK(t)'
<1>0. PICK u \in Tasks : u = r.msg.task
  BY MessageInHand DEF ResultRemove, ResultNotify
<1>1. /\ UNCHANGED <<row, total, fetched, work, p, m, queue>>
      /\ r'.at # "idle" => r'.msg = r.msg /\ r'.at = "notify"
      /\ mem \in Table /\ r.at \in {"remove", "notify"}
  BY IdleTypes
  DEF ResultRemove, ResultNotify, ToR, budget, store, RecoveryInv, TypeOK, StoreOK, ResultOK
<1>2. Sent(u) /\ RAt(u) = r.at /\ PlaceOK(u)
  BY <1>0, <1>1, MessageInHand DEF RecoveryInv, TaskOK
<1>3. RAt(u)' \in {"notify", "elsewhere"}
  BY <1>0, <1>1 DEF RAt
<1>4. ~Has(mem', u) /\ (t # u => mem'[t] = mem[t])
  <2>1. CASE ResultRemove
    BY <1>0, <1>1, <2>1 DEF ResultRemove, Table, Has
  <2>2. CASE ResultNotify
    BY <1>2, <2>2 DEF ResultNotify, store, PlaceOK
  <2> QED BY <2>1, <2>2
<1>5. ~Has(row', u)
  BY <1>1, <1>2 DEF PlaceOK, Has
<1>6. CASE t # u
  BY <1>0, <1>1, <1>4, <1>6, SameThreads, ResultOthersKept
<1>7. PlaceOK(u)'
  BY <1>3, <1>4, <1>5 DEF PlaceOK
<1> QED BY <1>1, <1>2, <1>4, <1>5, <1>6, <1>7, ReportedKept

LEMMA ResultKept ==
  ASSUME RecoveryInv, UNCHANGED up, up = "up", ResultStep, NEW t \in Tasks
  PROVE  TaskOK(t)'
BY TakeResultKept, ResultMarkKept, ResultDeleteKept, ResultArchiveKept, ResultEndKept
DEF ResultStep

-----------------------------------------------------------------------------
(* The monitor, the TCP thread and the faults.                             *)

LEMMA ResendingKept ==
  ASSUME RecoveryInv, NEW t \in Tasks, UNCHANGED <<up, mem, row, total, fetched, p, r>>,
         SameMonitor(t),
         InWork(t)' \/ InQueue(t)' => Sent(t) \/ t \in InStatus(1),
         InList(t)' => InList(t) \/ t \in InStatus(1)
  PROVE  TaskOK(t)'
<1>1. TaskOK(t) /\ Apart(t)
  BY DEF RecoveryInv, TaskOK
<1>2. /\ SameRecords(t) /\ SamePlatform(t) /\ SameResult(t)
      /\ (Open(t)' <=> Open(t)) /\ (Apart(t)' <=> Apart(t)) /\ (InPacket(t)' <=> InPacket(t))
  BY SameThreads DEF SameRecords
<1>3. t \in InStatus(1) => Accepted(t) /\ mem[t].status = 1
  BY <1>1, SentAccepted DEF InStatus
<1>4. Sent(t)' => Accepted(t)
  BY <1>1, <1>2, <1>3, SentAccepted DEF Sent, SameResult
<1> QED BY <1>1, <1>2, <1>3, <1>4, Undisturbed

LEMMA MoveKept ==
  ASSUME RecoveryInv, UNCHANGED up, MoveMem \/ MoveRow, NEW t \in Tasks
  PROVE  TaskOK(t)'
<1>0. PICK u \in Tasks, d \in Devices : u = m.task /\ d = m.device
  BY DEF MoveMem, MoveRow, RecoveryInv, TypeOK, MonitorOK
<1>1. /\ UNCHANGED <<total, fetched, work, p, r, queue>>
      /\ m'.task = u /\ m'.list = m.list /\ mem \in Table /\ row \in Table
  BY <1>0 DEF MoveMem, MoveRow, budget, RecoveryInv, TypeOK, StoreOK, MonitorOK
<1>2. /\ SamePlatform(t) /\ SameResult(t) /\ (InList(t)' <=> InList(t))
      /\ (Sent(t)' <=> Sent(t)) /\ (Open(t)' <=> Open(t)) /\ (Apart(t)' <=> Apart(t))
  BY <1>0, <1>1, SameThreads DEF Sent, InList, SameResult
<1>3. TaskOK(t) /\ Apart(t)
  BY DEF RecoveryInv, TaskOK
<1>4. CASE t # u
  <2>1. mem'[t] = mem[t] /\ row'[t] = row[t]
    BY <1>0, <1>1, <1>4, SetDeviceAt DEF MoveMem, MoveRow
  <2> QED BY <1>0, <1>1, <1>2, <1>3, <1>4, <2>1, Undisturbed, SentAccepted
          DEF SameRecords, SameMonitor, Moving
<1>5. CASE t = u
  <2>1. InList(u) /\ Accepted(u) /\ PAt(u) # "row"
    BY <1>0, <1>3, <1>5, SentAccepted DEF Sent, InList, TaskOK, KnownOK, Accepted
  <2>2. Has(mem, u) /\ RAt(u) = "elsewhere" =>
          mem[u].status = 1 /\ ~Open(u) /\ PAt(u) # "assign_row"
    BY <1>3, <1>5, <2>1 DEF TaskOK, StatusOK, Open
  <2>3. KnownOK(u)'
    BY <1>1, <1>2, <1>5, <2>1, StaysKnown DEF SamePlatform
  <2>4. CASE MoveMem
    <3>1. /\ Has(mem', u) <=> Has(mem, u)
          /\ Has(mem', u) => mem'[u].status = mem[u].status /\ mem'[u].device = d
          /\ row' = row /\ Moving(u)' /\ m'.device = d
      BY <1>0, <1>1, <2>4, SetDeviceAt DEF MoveMem, Moving, RecoveryInv, TypeOK, MonitorOK
    <3>2. StatusOK(u)'
      BY <1>2, <1>5, <2>2, <3>1 DEF StatusOK, SamePlatform, SameResult
    <3>3. PairOK(u)'
      BY <1>1, <1>2, <1>3, <1>5, <2>2, <3>1
      DEF TaskOK, PairOK, SamePlatform, SameResult, Accepted, Has
    <3>4. PlaceOK(u)'
      BY <1>2, <1>3, <1>5, <3>1 DEF TaskOK, PlaceOK, SameResult, Has
    <3> QED BY <1>2, <1>3, <1>5, <2>3, <3>2, <3>3, <3>4 DEF TaskOK
  <2>5. CASE MoveRow
    <3>1. /\ Has(row', u) <=> Has(row, u)
          /\ Has(row', u) => row'[u].status = row[u].status /\ row'[u].device = d
          /\ mem' = mem /\ Moving(u) /\ ~Moving(u)'
      BY <1>0, <1>1, <2>5, SetDeviceAt DEF MoveRow, Moving, RecoveryInv, TypeOK, MonitorOK
    <3>2. StatusOK(u)'
      BY <1>2, <1>5, <2>2, <3>1 DEF StatusOK, SamePlatform, SameResult, Has
    <3>3. PairOK(u)'
      BY <1>0, <1>1, <1>2, <1>3, <1>5, <2>2, <3>1
      DEF TaskOK, PairOK, SamePlatform, SameResult, Accepted, Has
    <3>4. PlaceOK(u)'
      BY <1>2, <1>3, <1>5, <3>1 DEF TaskOK, PlaceOK, SameResult, Has
    <3> QED BY <1>2, <1>3, <1>5, <2>3, <3>2, <3>3, <3>4 DEF TaskOK
  <2> QED BY <2>4, <2>5
<1> QED BY <1>4, <1>5

LEMMA MonitorKept ==
  ASSUME RecoveryInv, UNCHANGED up, MonitorStep \/ \E S \in SUBSET Tasks : Collect(S),
         NEW t \in Tasks
  PROVE  TaskOK(t)'
<1>0. t # None
  BY NamesDiffer
<1>1. ASSUME NEW S \in SUBSET Tasks, Collect(S) PROVE TaskOK(t)'
  <2>1. /\ UNCHANGED <<mem, row, total, fetched, work, queue, p, r>>
        /\ m.at = "idle" /\ m'.at = "next" /\ m'.list \subseteq InStatus(1) /\ m'.task = None
    BY <1>1 DEF Collect, store, budget, MIdle
  <2> QED BY <1>0, <2>1, SameThreads, ResendingKept DEF SameMonitor, Moving, InList, Sent
<1>2. ASSUME NEW u \in Tasks, LookAt(u) PROVE TaskOK(t)'
  <2>1. /\ u \in m.list
        /\ m'.at # "move_row" /\ m'.list \subseteq m.list \ {u} /\ m'.task \in {u, None}
    BY <1>2, LookAtMonitor
  <2>2. UNCHANGED <<mem, row, total, fetched, work, queue, p, r>> /\ m.at = "next"
    BY <1>2 DEF LookAt, store, budget
  <2> QED BY <1>0, <2>1, <2>2, SameThreads, ResendingKept DEF SameMonitor, Moving, InList, Sent
<1>3. CASE MonitorSend
  <2>1. /\ UNCHANGED <<mem, row, total, fetched, queue, p, r>>
        /\ m.at = "send" /\ m'.at # "move_row" /\ m'.list = m.list /\ m'.task = None
    BY <1>3 DEF MonitorSend, store, MIdle
  <2>2. \A e \in Devices : work'[e] \subseteq work[e] \cup {m.task}
    <3>1. CASE m.task \in InStatus(1) /\ mem[m.task].device \in online
      <4>1. PICK gone \in BOOLEAN : Send(mem[m.task].device, {m.task}, gone)
        BY <1>3, <3>1 DEF MonitorSend
      <4>2. mem[m.task].device \in Devices /\ {m.task} \in SUBSET Tasks
        BY <3>1 DEF RecoveryInv, TypeOK, DeviceSideOK, InStatus
      <4> QED BY <4>1, <4>2, SendWork DEF RecoveryInv
    <3>2. CASE ~(m.task \in InStatus(1) /\ mem[m.task].device \in online)
      BY <1>3, <3>2 DEF MonitorSend
    <3> QED BY <3>1, <3>2
  <2>3. InWork(t)' => InWork(t) \/ InList(t)
    BY <2>2 DEF InWork, InList
  <2>4. InList(t)' => InList(t)
    BY <1>0, <2>1 DEF InList
  <2> QED BY <2>1, <2>3, <2>4, SameThreads, ResendingKept DEF SameMonitor, Moving, Sent
<1> QED BY <1>1, <1>2, <1>3, MoveKept DEF MonitorStep

LEMMA DeviceKept ==
  ASSUME RecoveryInv, UNCHANGED up, NEW t \in Tasks,
         \/ Resend
         \/ \E d \in Devices : Register(d) \/ GoOffline(d) \/ DeviceForgets(d)
         \/ \E d \in Devices, u \in Tasks, res \in {1, 2} : Report(d, u, res)
  PROVE  TaskOK(t)'
<1>1. CASE Resend
  <2>1. UNCHANGED <<mem, row, total, fetched, queue, p, r, m>>
    BY <1>1 DEF Resend, store
  <2>2. \A e \in Devices : work'[e] \subseteq work[e] \cup AssignedTo(k.device)
    <3>1. CASE AssignedTo(k.device) # {} /\ k.device \in online
      <4>1. PICK gone \in BOOLEAN : Send(k.device, AssignedTo(k.device), gone)
        BY <1>1, <3>1 DEF Resend
      <4>2. k.device \in Devices /\ AssignedTo(k.device) \in SUBSET Tasks
        BY <3>1 DEF RecoveryInv, TypeOK, DeviceSideOK, AssignedTo, InStatus
      <4> QED BY <4>1, <4>2, SendWork DEF RecoveryInv
    <3>2. CASE ~(AssignedTo(k.device) # {} /\ k.device \in online)
      BY <1>1, <3>2 DEF Resend
    <3> QED BY <3>1, <3>2
  <2>3. InWork(t)' => InWork(t) \/ t \in InStatus(1)
    BY <2>2 DEF InWork, AssignedTo
  <2> QED BY <2>1, <2>3, SameThreads, ResendingKept DEF Sent
<1>2. ASSUME NEW d \in Devices, Register(d) \/ GoOffline(d) PROVE TaskOK(t)'
  <2>1. UNCHANGED <<mem, row, total, fetched, work, queue, p, r, m>>
    BY <1>2 DEF Register, GoOffline, store, budget, threads
  <2> QED BY <2>1, SameThreads, ResendingKept DEF Sent
<1>3. ASSUME NEW d \in Devices, DeviceForgets(d) PROVE TaskOK(t)'
  <2>1. /\ UNCHANGED <<mem, row, total, fetched, queue, p, r, m>>
        /\ \A e \in Devices : work'[e] \subseteq work[e]
    BY <1>3 DEF DeviceForgets, store, threads, RecoveryInv, TypeOK, DeviceSideOK
  <2>2. InWork(t)' => InWork(t)
    BY <2>1 DEF InWork
  <2> QED BY <2>1, <2>2, SameThreads, ResendingKept DEF Sent
<1>4. ASSUME NEW d \in Devices, NEW u \in Tasks, NEW res \in {1, 2}, Report(d, u, res)
      PROVE  TaskOK(t)'
  <2>1. /\ UNCHANGED <<mem, row, total, fetched, p, r, m>> /\ u \in work[d]
        /\ \A e \in Devices : work'[e] \subseteq work[e]
        /\ queue \in Seq(Msg) /\ queue' = Append(queue, [task |-> u, device |-> d, result |-> res])
    BY <1>4 DEF Report, store, budget, RecoveryInv, TypeOK, DeviceSideOK
  <2>2. InWork(t)' => InWork(t)
    BY <2>1 DEF InWork
  <2>3. InQueue(t)' => InQueue(t) \/ InWork(t)
    <3>1. SUFFICES ASSUME NEW i \in 1 .. Len(queue'), queue'[i].task = t
                   PROVE  InQueue(t) \/ InWork(t)
      BY DEF InQueue
    <3>2. CASE i \in 1 .. Len(queue)
      BY <2>1, <3>1, <3>2 DEF InQueue
    <3>3. CASE i = Len(queue) + 1
      BY <2>1, <3>1, <3>3 DEF InWork
    <3> QED BY <2>1, <3>1, <3>2, <3>3
  <2> QED BY <2>1, <2>2, <2>3, SameThreads, ResendingKept DEF Sent
<1> QED BY <1>1, <1>2, <1>3, <1>4

-----------------------------------------------------------------------------
(* Crash and recovery.                                                     *)

(* With nothing in memory but what the table has.                          *)
LEMMA FreshStart ==
  ASSUME NEW t \in Tasks, KnownOK(t), ~Sent(t)' \/ Accepted(t), fetched'[t] = fetched[t],
         p' = PIdle, r' = RIdle, m' = MIdle,
         row'[t] = None \/ row'[t] = row[t], ~Accepted(t) => total'[t] = None,
         mem'[t] \in {None, row'[t]}, Has(row', t) /\ mem'[t] = row'[t] => row'[t].status # 2,
         up' = "up" => mem'[t] = row'[t]
  PROVE  TaskOK(t)'
<1>1. /\ p'.at = "idle" /\ p'.need = {} /\ p'.slice = {} /\ p'.packet = {} /\ r'.at = "idle"
      /\ m'.list = {} /\ m'.task = None /\ m'.at = "idle" /\ t # None
  BY NamesDiffer, IdleTypes DEF MIdle, RIdle
<1>2. PAt(t)' = "elsewhere" /\ RAt(t)' = "elsewhere" /\ ~Open(t)' /\ Apart(t)' /\ ~InList(t)'
      /\ ~Moving(t)'
  BY <1>1 DEF PAt, RAt, Open, Apart, InList, Moving
<1>3. KnownOK(t)'
  BY <1>2 DEF KnownOK, Accepted
<1>4. StatusOK(t)'
  BY <1>2 DEF StatusOK, Has
<1>5. PairOK(t)'
  BY <1>2 DEF PairOK, Has
<1>6. PlaceOK(t)'
  BY <1>2 DEF PlaceOK
<1> QED BY <1>2, <1>3, <1>4, <1>5, <1>6 DEF TaskOK

(* Only the devices keep what they have.                                   *)
LEMMA SentAfterRestart ==
  ASSUME NEW t \in Tasks, TaskOK(t), UNCHANGED work, p' = PIdle, r' = RIdle, m' = MIdle, queue' = <<>>
  PROVE  ~Sent(t)' \/ Accepted(t)
<1>1. /\ p'.packet = {} /\ r'.at = "idle" /\ m'.list = {} /\ m'.task = None /\ t # None
      /\ Len(queue') = 0
  BY NamesDiffer, IdleTypes DEF MIdle, RIdle
<1>2. InWork(t)' => InWork(t)
  BY DEF InWork
<1>3. ~InQueue(t)' /\ ~InPacket(t)' /\ ~InList(t)' /\ RAt(t)' = "elsewhere"
  BY <1>1 DEF InQueue, InPacket, InList, RAt
<1> QED BY <1>2, <1>3, SentAccepted DEF Sent

LEMMA CrashKept ==
  ASSUME RecoveryInv, Crash
  PROVE  DownOK' /\ \A t \in Tasks : TaskOK(t)'
<1>1. /\ mem' = [t \in Tasks |-> None] /\ up' = "down" /\ queue' = <<>>
      /\ p' = PIdle /\ r' = RIdle /\ m' = MIdle /\ UNCHANGED <<row, total, work, fetched>>
  BY DEF Crash
<1>2. DownOK'
  BY <1>1 DEF DownOK
<1>3. ASSUME NEW t \in Tasks PROVE TaskOK(t)'
  <2>1. TaskOK(t) /\ KnownOK(t) /\ (~Accepted(t) => total[t] = None)
    BY DEF RecoveryInv, TaskOK, KnownOK, Accepted
  <2>2. ~Sent(t)' \/ Accepted(t)
    BY <1>1, <2>1, SentAfterRestart
  <2>3. mem'[t] = None
    BY <1>1
  <2> QED BY <1>1, <2>1, <2>2, <2>3, FreshStart DEF Has
<1> QED BY <1>2, <1>3

LEMMA ArchiveKept ==
  ASSUME RecoveryInv, StartArchive
  PROVE  DownOK' /\ \A t \in Tasks : TaskOK(t)'
<1>1. /\ up = "down" /\ up' = "archived" /\ UNCHANGED <<mem, row, work, queue, p, r, m, fetched>>
      /\ total' = [t \in Tasks |->
           IF FinishedRow(t)
             THEN IF Has(total, t) THEN [row[t] EXCEPT !.device = total[t].device] ELSE row[t]
             ELSE total[t]]
  BY DEF StartArchive, threads, budget, FinishedRow
<1>2. /\ p = PIdle /\ r = RIdle /\ m = MIdle /\ queue = <<>> /\ \A t \in Tasks : mem[t] = None
      /\ row \in Table /\ total \in Table
  BY <1>1 DEF RecoveryInv, DownOK, TypeOK, StoreOK
<1>3. \A t \in Tasks : FinishedRow(t) => Has(total', t)
  <2>1. SUFFICES ASSUME NEW t \in Tasks, FinishedRow(t) PROVE Has(total', t)
    OBVIOUS
  <2>2. row[t] \in Record
    BY <1>2, <2>1 DEF FinishedRow, Has, Table
  <2>3. CASE Has(total, t)
    <3>1. total[t] \in Record
      BY <1>2, <2>3 DEF Has, Table
    <3>2. [row[t] EXCEPT !.device = total[t].device] \in Record
      BY <2>2, <3>1 DEF Record
    <3> QED BY <1>1, <2>1, <2>3, <3>2, NoneIsNoRecord DEF Has
  <2>4. CASE ~Has(total, t)
    BY <1>1, <2>1, <2>2, <2>4, NoneIsNoRecord DEF Has
  <2> QED BY <2>3, <2>4
<1>4. DownOK'
  BY <1>1, <1>2, <1>3 DEF DownOK, FinishedRow, Has
<1>5. ASSUME NEW t \in Tasks PROVE TaskOK(t)'
  <2>1. TaskOK(t) /\ KnownOK(t)
    BY DEF RecoveryInv, TaskOK
  <2>2. ~Accepted(t) => row[t] = None /\ total[t] = None
    BY <2>1 DEF KnownOK, Accepted
  <2>3. ~Accepted(t) => total'[t] = None
    BY <1>1, <2>2 DEF FinishedRow, Has
  <2>4. ~Sent(t)' \/ Accepted(t)
    BY <1>1, <1>2, <2>1, SentAfterRestart
  <2>5. mem'[t] = None
    BY <1>1, <1>2
  <2> QED BY <1>1, <1>2, <2>1, <2>3, <2>4, <2>5, FreshStart DEF Has
<1> QED BY <1>4, <1>5

LEMMA LoadKept ==
  ASSUME RecoveryInv, StartLoad
  PROVE  DownOK' /\ \A t \in Tasks : TaskOK(t)'
<1>1. /\ up = "archived" /\ up' = "up" /\ UNCHANGED <<total, work, queue, p, r, m, fetched>>
      /\ row' = [t \in Tasks |-> IF FinishedRow(t) THEN None ELSE row[t]] /\ mem' = row'
  BY DEF StartLoad, threads, budget, FinishedRow
<1>2. p = PIdle /\ r = RIdle /\ m = MIdle /\ queue = <<>>
  BY <1>1 DEF RecoveryInv, DownOK
<1>3. DownOK'
  BY <1>1 DEF DownOK
<1>4. ASSUME NEW t \in Tasks PROVE TaskOK(t)'
  <2>1. TaskOK(t) /\ KnownOK(t) /\ (~Accepted(t) => total[t] = None)
    BY DEF RecoveryInv, TaskOK, KnownOK, Accepted
  <2>2. ~Sent(t)' \/ Accepted(t)
    BY <1>1, <1>2, <2>1, SentAfterRestart
  <2>3. row'[t] = IF FinishedRow(t) THEN None ELSE row[t]
    BY <1>1
  <2>4. Has(row', t) => row'[t].status # 2
    BY <2>3 DEF FinishedRow, Has
  <2> QED BY <1>1, <1>2, <2>1, <2>2, <2>3, <2>4, FreshStart
<1> QED BY <1>3, <1>4

-----------------------------------------------------------------------------
LEMMA RecoveryInit == Init => RecoveryInv
<1> SUFFICES ASSUME Init PROVE RecoveryInv
  OBVIOUS
<1>1. TypeOK /\ DownOK
  BY TypeInit DEF Init, DownOK
<1>2. SUFFICES ASSUME NEW t \in Tasks PROVE TaskOK(t)
  BY <1>1 DEF RecoveryInv
<1>3. /\ mem[t] = None /\ row[t] = None /\ total[t] = None /\ fetched[t] = 0
      /\ p.at = "idle" /\ p.need = {} /\ p.slice = {} /\ p.packet = {}
      /\ r.at = "idle" /\ m.list = {} /\ m.task = None /\ Len(queue) = 0
      /\ \A d \in Devices : work[d] = {}
  BY DEF Init, PIdle, RIdle, MIdle
<1>4. PAt(t) = "elsewhere" /\ RAt(t) = "elsewhere" /\ ~Sent(t) /\ ~Open(t) /\ Apart(t)
  BY <1>3, NamesDiffer DEF PAt, RAt, Sent, InWork, InQueue, InPacket, InList, Open, Apart
<1> QED BY <1>3, <1>4 DEF TaskOK, KnownOK, StatusOK, PairOK, PlaceOK, Accepted, Has

LEMMA RecoveryNext ==
  ASSUME MaxFetch <= 1
  PROVE  RecoveryInv /\ [Next]_vars => RecoveryInv'
<1> SUFFICES ASSUME RecoveryInv, [Next]_vars PROVE RecoveryInv'
  OBVIOUS
<1>1. TypeOK'
  BY TypeNext DEF RecoveryInv
<1>2. CASE Running
  <2>1. up = "up" /\ UNCHANGED up /\ DownOK'
    BY <1>2 DEF Running, DownOK
  <2>2. \A t \in Tasks : TaskOK(t)'
    BY <1>2, <2>1, PlatformKept, ResultKept, MonitorKept, DeviceKept DEF Running
  <2> QED BY <1>1, <2>1, <2>2 DEF RecoveryInv
<1>3. ASSUME NEW d \in Devices, (up = "up" /\ GoOffline(d)) \/ DeviceForgets(d)
      PROVE  RecoveryInv'
  <2>1. UNCHANGED <<up, mem, row, total, queue, p, r, m>>
    BY <1>3 DEF GoOffline, DeviceForgets, store, threads
  <2>2. DownOK'
    BY <2>1 DEF RecoveryInv, DownOK, FinishedRow, Has
  <2>3. \A t \in Tasks : TaskOK(t)'
    BY <1>3, <2>1, DeviceKept
  <2> QED BY <1>1, <2>2, <2>3 DEF RecoveryInv
<1>4. CASE Crash \/ StartArchive \/ StartLoad
  BY <1>1, <1>4, CrashKept, ArchiveKept, LoadKept DEF RecoveryInv
<1>5. CASE UNCHANGED vars
  <2>1. UNCHANGED <<up, mem, row, total, fetched, work, queue, p, r, m>>
    BY <1>5 DEF vars, store, threads, budget
  <2>2. DownOK'
    BY <2>1 DEF RecoveryInv, DownOK, FinishedRow, Has
  <2>3. \A t \in Tasks : TaskOK(t)'
    BY <2>1, SameThreads, ResendingKept DEF Sent
  <2> QED BY <1>1, <2>2, <2>3 DEF RecoveryInv
<1> QED BY <1>2, <1>3, <1>4, <1>5 DEF Next, Failing

(* When no thread is between its write to the map and its write to the     *)
(* table, the map is the table, whatever crashes there have been.          *)
THEOREM MapIsTable ==
  ASSUME MaxFetch <= 1
  PROVE  Spec => []MapAgreesWithTable
<1>1. RecoveryInv => MapAgreesWithTable
  <2>1. SUFFICES ASSUME RecoveryInv, Quiet PROVE mem = row
    BY DEF MapAgreesWithTable
  <2>2. mem \in Table /\ row \in Table
    BY <2>1 DEF RecoveryInv, TypeOK, StoreOK
  <2>3. ASSUME NEW t \in Tasks PROVE mem[t] = row[t]
    <3>1. PAt(t) = "elsewhere" /\ RAt(t) = "elsewhere" /\ ~Moving(t) /\ up = "up"
      BY <2>1 DEF Quiet, PAt, RAt, Moving, RIdle
    <3>2. KnownOK(t) /\ StatusOK(t) /\ PairOK(t)
      BY <2>1 DEF RecoveryInv, TaskOK
    <3>3. CASE fetched[t] = 0
      BY <3>1, <3>2, <3>3 DEF KnownOK
    <3>4. CASE fetched[t] = 1
      <4>1. CASE ~Has(mem, t)
        BY <3>1, <3>2, <3>4, <4>1 DEF PairOK, Accepted, Has
      <4>2. CASE Has(mem, t)
        <5>1. /\ mem[t] \in Record /\ row[t] \in Record
              /\ mem[t].status = row[t].status /\ mem[t].device = row[t].device
              /\ mem[t].status # 2
          BY <2>2, <3>1, <3>2, <3>4, <4>2 DEF StatusOK, PairOK, Accepted, Has, Table
        <5>2. mem[t].result = 0 /\ row[t].result = 0
          BY <5>1 DEF Record
        <5> QED BY <5>1, <5>2 DEF Record
      <4> QED BY <4>1, <4>2
    <3> QED BY <3>2, <3>3, <3>4 DEF KnownOK
  <2> QED BY <2>2, <2>3 DEF Table
<1> QED BY <1>1, RecoveryInit, RecoveryNext, PTL DEF Spec

-----------------------------------------------------------------------------
(* What was recorded stays recorded.                                       *)

KeptStays(t) == Kept(t) => Kept(t)' \/ (crashes' # crashes /\ BeingArchived(t))

(* Most steps leave a task where it is recorded.                           *)
LEMMA RecordsStay ==
  ASSUME NEW t \in Tasks, Has(row, t) => Has(row', t), Has(total, t) => Has(total', t),
         BeingArchived(t) /\ Has(mem, t) => (BeingArchived(t) /\ Has(mem, t))'
  PROVE  KeptStays(t)
BY DEF KeptStays, Kept, Has

LEMMA PlatformKeeps ==
  ASSUME TypeOK, PlatformStep \/ \E u \in Tasks : Fetch(u), NEW t \in Tasks
  PROVE  KeptStays(t)
<1>0. mem \in Table /\ row \in Table /\ Fresh # None
  BY FreshType, NoneIsNoRecord DEF TypeOK, StoreOK
<1>1. UNCHANGED <<total, r>>
  BY DEF PlatformStep, Fetch, FetchRow, BeginRound, EndRound, CutSlice, Pack, PackAssignRow,
         PackMarkMem, PackMarkRow, Flush, store
<1>2. (Has(mem, t) => Has(mem', t)) /\ (Has(row, t) => Has(row', t))
  <2>1. ASSUME NEW u \in Tasks, Fetch(u)
        PROVE  (Has(mem, t) => Has(mem', t)) /\ (Has(row, t) => Has(row', t))
    <3>1. mem' = [mem EXCEPT ![u] = Fresh] /\ row' = row
      BY <2>1 DEF Fetch
    <3> QED BY <1>0, <3>1 DEF Table, Has
  <2>2. CASE FetchRow
    <3>1. mem' = mem /\ row' \in {row, [row EXCEPT ![p.task] = Fresh]}
      BY <2>2 DEF FetchRow
    <3> QED BY <1>0, <3>1 DEF Table, Has
  <2>3. ASSUME NEW u \in Tasks, Pack(u)
        PROVE  (Has(mem, t) => Has(mem', t)) /\ (Has(row, t) => Has(row', t))
    <3>1. mem' = SetDevice(mem, u, p.device) /\ row' = row /\ p.device \in Devices
      BY <2>3 DEF Pack, TypeOK, PlatformOK
    <3> QED BY <1>0, <3>1, SetDeviceAt DEF Has
  <2>4. CASE PackAssignRow
    <3>1. /\ row' = SetDevice(row, p.task, p.device) /\ mem' = mem
          /\ p.device \in Devices /\ p.task \in Tasks
      BY <2>4 DEF PackAssignRow, TypeOK, PlatformOK
    <3> QED BY <1>0, <3>1, SetDeviceAt DEF Has
  <2>5. CASE PackMarkMem
    <3>1. mem' = SetResult(mem, p.task, 1, 0) /\ row' = row /\ p.task \in Tasks
      BY <2>5 DEF PackMarkMem, TypeOK, PlatformOK
    <3> QED BY <1>0, <3>1, MarkedAt DEF Has
  <2>6. CASE PackMarkRow
    <3>1. row' = SetResult(row, p.task, 1, 0) /\ mem' = mem /\ p.task \in Tasks
      BY <2>6 DEF PackMarkRow, TypeOK, PlatformOK
    <3> QED BY <1>0, <3>1, MarkedAt DEF Has
  <2>7. CASE BeginRound \/ EndRound \/ Flush \/ \E d \in Devices : CutSlice(d)
    BY <2>7 DEF BeginRound, EndRound, CutSlice, Flush, store
  <2> QED BY <2>1, <2>2, <2>3, <2>4, <2>5, <2>6, <2>7 DEF PlatformStep
<1> QED BY <1>1, <1>2, RecordsStay DEF BeingArchived, Has

LEMMA ResultKeeps ==
  ASSUME RecoveryInv, ResultStep, NEW t \in Tasks
  PROVE  KeptStays(t)
<1>0. mem \in Table /\ row \in Table /\ total \in Table
  BY DEF RecoveryInv, TypeOK, StoreOK
<1>1. CASE TakeResult \/ ResultAssignRow \/ ResultMarkMem \/ ResultMarkRow
  <2>1. r.at # "archive" /\ total' = total
    BY <1>1 DEF TakeResult, ResultAssignRow, ResultMarkMem, ResultMarkRow
  <2>2. Has(row, t) => Has(row', t)
    <3>1. CASE TakeResult \/ ResultMarkMem
      BY <3>1 DEF TakeResult, ResultMarkMem, Has
    <3>2. CASE ResultAssignRow
      BY <1>0, <3>2, MessageInHand, SetDeviceAt DEF ResultAssignRow, Has
    <3>3. CASE ResultMarkRow
      BY <1>0, <3>3, MessageInHand, ReportWritten DEF ResultMarkRow, Has
    <3> QED BY <1>1, <3>1, <3>2, <3>3
  <2> QED BY <2>1, <2>2, RecordsStay DEF BeingArchived, Has
<1>2. CASE ResultDelete
  <2>1. PICK u \in Tasks : u = r.msg.task /\ RAt(u) = "delete" /\ PlaceOK(u)
    BY <1>2, MessageInHand DEF ResultDelete, RecoveryInv, TaskOK
  <2>2. /\ UNCHANGED <<mem, total>> /\ row' = [row EXCEPT ![u] = None]
        /\ r.at = "delete" /\ r'.at = "archive" /\ r'.msg.task = u
    BY <1>2, <2>1 DEF ResultDelete, ToR, RecoveryInv, TypeOK, ResultOK
  <2>3. CASE t # u
    BY <1>0, <2>2, <2>3, RecordsStay DEF BeingArchived, Table, Has
  <2>4. CASE t = u
    <3>1. Has(row, u) => Has(mem, u)
      BY <2>1 DEF PlaceOK
    <3> QED BY <2>2, <2>4, <3>1 DEF KeptStays, Kept, BeingArchived, Has
  <2> QED BY <2>3, <2>4
<1>3. CASE ResultArchive
  <2>1. PICK u \in Tasks : u = r.msg.task /\ r.msg.result \in {1, 2}
    BY <1>3, MessageInHand DEF ResultArchive
  <2>2. UNCHANGED <<mem, row>> /\ total' = Archived(u, 2, r.msg.result)
    BY <1>3, <2>1 DEF ResultArchive
  <2>3. (Has(total, t) => Has(total', t)) /\ (t = u /\ Has(mem, t) => Has(total', t))
    <3>1. CASE Has(mem, u)
      <4>1. PICK c \in Record : total' = [total EXCEPT ![u] = c]
        <5>1. mem[u] \in Record
          BY <1>0, <3>1 DEF Has, Table
        <5>2. Has(total, u) => [mem[u] EXCEPT !.device = total[u].device] \in Record
          BY <1>0, <5>1 DEF Has, Table, Record
        <5> QED BY <2>2, <3>1, <5>1, <5>2 DEF Archived
      <4> QED BY <1>0, <4>1, NoneIsNoRecord DEF Has, Table
    <3>2. CASE ~Has(mem, u)
      BY <1>0, <2>1, <2>2, <3>2, ReportWritten DEF Archived, Has
    <3> QED BY <3>1, <3>2
  <2> QED BY <2>1, <2>2, <2>3 DEF KeptStays, Kept, BeingArchived, Has
<1>4. CASE ResultRemove \/ ResultNotify
  <2>1. r.at # "archive" /\ UNCHANGED <<row, total>>
    BY <1>4 DEF ResultRemove, ResultNotify, store
  <2> QED BY <2>1, RecordsStay DEF BeingArchived, Has
<1> QED BY <1>1, <1>2, <1>3, <1>4 DEF ResultStep

LEMMA OthersKeep ==
  ASSUME RecoveryInv, NEW t \in Tasks,
         \/ MonitorStep \/ Resend \/ Failing \/ StartArchive \/ StartLoad \/ UNCHANGED vars
         \/ \E S \in SUBSET Tasks : Collect(S)
         \/ \E d \in Devices : Register(d)
         \/ \E d \in Devices, u \in Tasks, res \in {1, 2} : Report(d, u, res)
  PROVE  KeptStays(t)
<1>0. mem \in Table /\ row \in Table /\ total \in Table
  BY DEF RecoveryInv, TypeOK, StoreOK
<1>1. CASE MoveMem \/ MoveRow
  <2>1. m.task \in Tasks /\ m.device \in Devices /\ UNCHANGED <<total, r>>
    BY <1>1 DEF MoveMem, MoveRow, RecoveryInv, TypeOK, MonitorOK
  <2>2. (Has(mem, t) => Has(mem', t)) /\ (Has(row, t) => Has(row', t))
    <3>1. CASE MoveMem
      BY <1>0, <2>1, <3>1, SetDeviceAt DEF MoveMem, Has
    <3>2. CASE MoveRow
      BY <1>0, <2>1, <3>2, SetDeviceAt DEF MoveRow, Has
    <3> QED BY <1>1, <3>1, <3>2
  <2> QED BY <2>1, <2>2, RecordsStay DEF BeingArchived, Has
<1>2. CASE \/ MonitorSend \/ Resend \/ UNCHANGED vars
           \/ \E u \in Tasks : LookAt(u)
           \/ \E S \in SUBSET Tasks : Collect(S)
           \/ \E d \in Devices : Register(d) \/ GoOffline(d) \/ DeviceForgets(d)
           \/ \E d \in Devices, u \in Tasks, res \in {1, 2} : Report(d, u, res)
  <2>1. UNCHANGED <<mem, row, total, r>>
    BY <1>2 DEF MonitorSend, Resend, vars, LookAt, Collect, Register, GoOffline, DeviceForgets,
                Report, store, threads
  <2> QED BY <2>1, RecordsStay DEF BeingArchived, Has
<1>3. CASE Crash
  <2>1. UNCHANGED <<row, total>> /\ crashes' # crashes
    BY <1>3 DEF Crash, RecoveryInv, TypeOK, HistoryOK
  <2> QED BY <2>1 DEF KeptStays, Kept, Has
<1>4. CASE StartArchive
  <2>1. row' = row /\ r = RIdle
    BY <1>4 DEF StartArchive, RecoveryInv, DownOK
  <2>2. Has(total, t) => Has(total', t)
    <3>1. CASE FinishedRow(t) /\ Has(total, t)
      <4>1. row[t] \in Record /\ total[t] \in Record
        BY <1>0, <3>1 DEF FinishedRow, Has, Table
      <4>2. [row[t] EXCEPT !.device = total[t].device] \in Record
        BY <4>1 DEF Record
      <4>3. total'[t] = [row[t] EXCEPT !.device = total[t].device]
        BY <1>4, <3>1 DEF StartArchive, FinishedRow
      <4> QED BY <4>2, <4>3, NoneIsNoRecord DEF Has
    <3>2. CASE ~FinishedRow(t)
      BY <1>4, <3>2 DEF StartArchive, FinishedRow, Has
    <3> QED BY <3>1, <3>2
  <2> QED BY <2>1, <2>2, RecordsStay DEF BeingArchived, RIdle, Has
<1>5. CASE StartLoad
  <2>1. total' = total /\ r = RIdle /\ (FinishedRow(t) => Has(total, t))
    BY <1>5 DEF StartLoad, RecoveryInv, DownOK
  <2>2. ~FinishedRow(t) => row'[t] = row[t]
    BY <1>5 DEF StartLoad, FinishedRow
  <2> QED BY <2>1, <2>2 DEF KeptStays, Kept, BeingArchived, RIdle, Has
<1> QED BY <1>1, <1>2, <1>3, <1>4, <1>5 DEF MonitorStep, Failing

(* A crash loses a task only when it falls between the deletion of its row *)
(* and its archiving, and nothing else loses one.                          *)
THEOREM OnlyInDeletion ==
  ASSUME MaxFetch <= 1
  PROVE  Spec => LostInDeletion
<1>1. RecoveryInv /\ [Next]_vars =>
        [\A t \in Tasks : Kept(t) /\ ~Kept(t)' => crashes' # crashes /\ BeingArchived(t)]_vars
  <2>1. SUFFICES ASSUME RecoveryInv, [Next]_vars, NEW t \in Tasks PROVE KeptStays(t)
    BY DEF KeptStays
  <2> QED BY <2>1, PlatformKeeps, ResultKeeps, OthersKeep DEF Next, Running, RecoveryInv
<1> QED BY <1>1, RecoveryInit, RecoveryNext, PTL DEF Spec, LostInDeletion
=============================================================================
