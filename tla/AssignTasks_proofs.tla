-------------------------- MODULE AssignTasks_proofs --------------------------
(***************************************************************************)
(* The sharing out of AssignTasks, for every finite set of tasks and       *)
(* devices: type correctness, and that, as long as no task changes its     *)
(* device while it runs, the routine never divides by zero, loads no       *)
(* device above the share and leaves no task behind; and, also when tasks  *)
(* move, that slices stay within the vector and a pass lowers its rank.    *)
(***************************************************************************)
EXTENDS AssignTasks, FiniteSetTheorems, TLAPS

-----------------------------------------------------------------------------
(* Counting lemmas.                                                        *)

(* Every set of tasks and every set of devices the routine counts is       *)
(* finite, so its count is a natural number.                               *)
LEMMA TaskSetsCounted ==
  ASSUME NEW S, S \subseteq Tasks
  PROVE  IsFiniteSet(S) /\ Cardinality(S) \in Nat
BY TasksFinite, FS_Subset, FS_CardinalityType

LEMMA DeviceSetsCounted ==
  ASSUME NEW D, D \subseteq Devices
  PROVE  /\ IsFiniteSet(D)
         /\ Cardinality(D) \in Nat
         /\ Cardinality(D) = 0 <=> D = {}
BY DevicesFinite, FS_Subset, FS_CardinalityType, FS_EmptySet

(* The share is an integer, and for a natural count the shares cover it.   *)
LEMMA SharesCover ==
  ASSUME NEW count \in Int, NEW n \in Nat \ {0}
  PROVE  /\ PerDevice(count, n) \in Int
         /\ count >= 0 => count <= PerDevice(count, n) * n
<1>1. Quotient(count, n) \in Int
  BY DEF Quotient
<1>2. PerDevice(count, n) \in Int
  BY <1>1 DEF PerDevice
<1>3. ASSUME count >= 0 PROVE count <= PerDevice(count, n) * n
  <2> DEFINE q == count \div n
             r == count % n
  <2>1. q \in Int /\ r \in 0 .. (n - 1) /\ count = n * q + r
    OBVIOUS
  <2>2. Quotient(count, n) = q
    BY <1>3 DEF Quotient
  <2> HIDE DEF q, r
  <2>3. CASE r = 0
    <3>1. PerDevice(count, n) = q
      BY <2>1, <2>2, <2>3 DEF PerDevice, r
    <3> QED BY <2>1, <2>3, <3>1
  <2>4. CASE r # 0
    <3>1. PerDevice(count, n) = q + 1
      BY <2>1, <2>2, <2>4 DEF PerDevice, r
    <3>2. (q + 1) * n = n * q + n
      BY <2>1
    <3> QED BY <2>1, <3>1, <3>2
  <2> QED BY <2>3, <2>4
<1> QED BY <1>2, <1>3

-----------------------------------------------------------------------------
(* Type correctness.                                                       *)

LEMMA TypeInit == Init => TypeOK
<1> SUFFICES ASSUME Init PROVE TypeOK
  OBVIOUS
<1>1. moved \in BOOLEAN
  BY Zenon DEF Init
<1> QED BY <1>1 DEF Init, TypeOK, Statuses, Places, Results

LEMMA TypeNext == TypeOK /\ [Next]_vars => TypeOK'
<1> SUFFICES ASSUME TypeOK, [Next]_vars PROVE TypeOK'
  OBVIOUS
<1> USE DEF TypeOK, Statuses, Places, Results
<1>1. CASE CountAll
  <2>1. Cardinality(AllProc) \in Nat
    BY TaskSetsCounted DEF AllProc
  <2>2. moved' \in BOOLEAN
    BY <1>1, Zenon DEF CountAll
  <2> QED BY <1>1, <2>1, <2>2 DEF CountAll, Return
<1>2. CASE GetNeed
  BY <1>2 DEF GetNeed, NeedAssign, Return, map
<1>3. ASSUME NEW D, D \subseteq Devices, D # {}, NEW count \in Int,
             BeginCheck(D, count)
      PROVE  /\ devs' \subseteq Devices /\ per' \in Int /\ unread' \subseteq devs'
             /\ removed' \in Int /\ pc' \in Places
  <2>1. Cardinality(D) \in Nat \ {0}
    BY <1>3, DeviceSetsCounted
  <2> QED BY <1>3, <2>1, SharesCover DEF BeginCheck
<1>4. CASE GetDevices
  <2>1. CASE online = {}
    BY <1>4, <2>1 DEF GetDevices, Return, map
  <2>2. CASE online # {}
    BY <1>3, <1>4, <2>2 DEF GetDevices, map
  <2> QED BY <2>1, <2>2
<1>5. CASE EndPass
  <2>1. Kept \subseteq Devices /\ Remaining \in Int
    BY DEF Kept, Remaining
  <2>2. CASE Kept # devs /\ Kept # {} /\ all' = Remaining /\ BeginCheck(Kept, all')
    BY <1>3, <1>5, <2>1, <2>2 DEF EndPass, map
  <2>3. CASE Kept = devs \/ Kept = {}
    BY <1>5, <2>1, <2>3 DEF EndPass, map, BeginCheck
  <2> QED BY <1>5, <2>2, <2>3 DEF EndPass
<1>6. CASE EndHandOut
  BY <1>6 DEF EndHandOut, map, locals
<1>7. CASE Again
  BY <1>7 DEF Again, map
<1>8. ASSUME NEW d \in Devices, ReadLoad(d) PROVE TypeOK'
  <2>1. CurrentCount(d) \in Nat
    BY TaskSetsCounted DEF CurrentCount, RunningAt
  <2> QED BY <1>8, <2>1 DEF ReadLoad, map
<1>9. ASSUME NEW d \in Devices, HandOut(d) PROVE TypeOK'
  <2> USE NoDeviceIsNone
  <2>1. PICK slice \in SUBSET need :
          /\ need' = need \ slice
          /\ \/ ret' = "error" /\ UNCHANGED <<status, device, online>>
             \/ \E marked \in SUBSET slice :
                  /\ status' = [t \in Tasks |-> IF t \in Marked(marked) THEN "run" ELSE status[t]]
                  /\ device' = [t \in Tasks |-> IF t \in Marked(marked) THEN d ELSE device[t]]
                  /\ \/ UNCHANGED <<ret, online>>
                     \/ ret' = "error" /\ online' = online \ {d}
    BY <1>9 DEF HandOut
  <2>2. /\ pc' = pc /\ all' = all /\ devs' = devs /\ per' = per /\ load' = load
        /\ removed' = removed /\ unread' = unread \ {d} /\ need' \subseteq Tasks
        /\ moved' = moved
    BY <1>9, <2>1 DEF HandOut
  <2>3. CASE ret' = "error" /\ UNCHANGED <<status, device, online>>
    BY <2>2, <2>3
  <2>4. ASSUME NEW marked \in SUBSET slice,
               status' = [t \in Tasks |-> IF t \in Marked(marked) THEN "run" ELSE status[t]],
               device' = [t \in Tasks |-> IF t \in Marked(marked) THEN d ELSE device[t]],
               \/ UNCHANGED <<ret, online>>
               \/ ret' = "error" /\ online' = online \ {d}
        PROVE  TypeOK'
    <3>1. ret' \in Results /\ online' \subseteq Devices
      BY <2>4
    <3>4. Marked(marked) \subseteq Tasks
      BY DEF Marked
    <3>2. status' \in [Tasks -> Statuses] /\ device' \in [Tasks -> Devices \cup {NoDevice}]
      BY <2>4
    <3>3. \A t \in Tasks : device'[t] = NoDevice <=> status'[t] # "run"
      BY <2>4
    <3> QED BY <2>2, <3>1, <3>2, <3>3
  <2> QED BY <2>1, <2>3, <2>4
<1>10. ASSUME NEW t \in Tasks, Fetch(t) \/ Complete(t) PROVE TypeOK'
  BY <1>10 DEF Fetch, Complete, locals
<1>11. ASSUME NEW d \in Devices, GoOnline(d) \/ GoOffline(d) PROVE TypeOK'
  BY <1>11 DEF GoOnline, GoOffline, locals
<1>12. ASSUME NEW t \in Tasks, NEW d \in Devices, Move(t, d) \/ ReportedBy(t, d)
       PROVE TypeOK'
  BY <1>12, NoDeviceIsNone DEF Move, ReportedBy, locals
<1>13. CASE UNCHANGED vars
  BY <1>13 DEF vars, map, locals
<1> QED
  BY <1>1, <1>2, <1>4, <1>5, <1>6, <1>7, <1>8, <1>9, <1>10, <1>11, <1>12, <1>13
  DEF Next, Routine, Others

(* The locals of the routine keep their types, and a task has a device     *)
(* exactly while it is assigned.                                           *)
THEOREM TypeCorrect == Spec => []TypeOK
BY TypeInit, TypeNext, PTL DEF Spec

-----------------------------------------------------------------------------
(* No division by zero.  While check_need_to_re_assign runs, the total not *)
(* yet taken out covers the tasks to assign and those running on the       *)
(* devices not filtered out, and what was taken out is at least one share  *)
(* per filtered device.  Were all of them filtered out, the shares taken   *)
(* out would be the whole total and nothing would be left to assign.       *)

Unfiltered == unread \cup Kept
Filtered   == devs \ Unfiltered

CountCovers ==
  /\ pc = "need" => Cardinality(AllProc) <= all
  /\ pc = "devices" => Cardinality(need \cup RunningAt(Devices)) <= all

NeedWaits ==
  pc \in {"devices", "check"} => need # {} /\ need \cap RunningAt(Devices) = {}

PassCovers ==
  pc = "check" =>
    /\ devs # {}
    /\ Cardinality(need) + Cardinality(RunningAt(Unfiltered)) <= all - removed
    /\ all <= per * Cardinality(devs)
    /\ per * Cardinality(Filtered) <= removed

Covered == CountCovers /\ NeedWaits /\ PassCovers /\ NeverDividesByZero

DivisionInv == TypeOK /\ (~moved => Covered)

LEMMA DivisionInit == Init => DivisionInv
BY TypeInit DEF Init, DivisionInv, Covered, CountCovers, NeedWaits, PassCovers,
                NeverDividesByZero

(* A pass begins with a total that covers what is to be assigned and what  *)
(* the devices of the pass run.                                            *)
LEMMA PassBegins ==
  ASSUME TypeOK, NEW D, D \subseteq Devices, D # {}, NEW count \in Int,
         NEW N, N \subseteq Tasks, need' = N,
         Cardinality(N) + Cardinality(RunningAt(D)) <= count,
         BeginCheck(D, count), all' = count, UNCHANGED <<status, device, load>>
  PROVE  PassCovers'
<1>1. Cardinality(D) \in Nat \ {0}
  BY DeviceSetsCounted
<1>2. count >= 0
  <2>1. Cardinality(N) \in Nat /\ Cardinality(RunningAt(D)) \in Nat
    BY TaskSetsCounted DEF RunningAt
  <2> QED BY <2>1
<1>3. count <= PerDevice(count, Cardinality(D)) * Cardinality(D)
  BY <1>1, <1>2, SharesCover
<1>4. PerDevice(count, Cardinality(D)) \in Int
  BY <1>1, SharesCover
<1>5. Kept' = {} /\ Unfiltered' = D /\ Filtered' = {}
  BY DEF BeginCheck, Kept, Unfiltered, Filtered
<1>6. RunningAt(Unfiltered)' = RunningAt(D)
  BY <1>5 DEF RunningAt
<1>7. Cardinality(Filtered)' = 0
  BY <1>5, FS_EmptySet
<1> QED
  BY <1>3, <1>4, <1>5, <1>6, <1>7 DEF PassCovers, BeginCheck

(* One turn of the loop moves a device from the unread to the kept or to   *)
(* the filtered ones, with its tasks.                                      *)
LEMMA ReadKeepsCover ==
  ASSUME TypeOK, Covered, NEW d \in Devices, ReadLoad(d)
  PROVE  PassCovers'
<1> DEFINE c == CurrentCount(d)
<1>1. /\ pc = "check" /\ pc' = "check" /\ d \in unread /\ d \in devs
      /\ unread' = unread \ {d} /\ devs' = devs /\ per' = per /\ all' = all
      /\ need' = need /\ status' = status /\ device' = device
      /\ load' = [load EXCEPT ![d] = c]
  BY DEF ReadLoad, map, TypeOK
<1>2. /\ per \in Int /\ all \in Int /\ removed \in Int /\ load \in [Devices -> Int]
      /\ devs \subseteq Devices /\ unread \subseteq devs /\ need \subseteq Tasks
  BY DEF TypeOK
<1>3. /\ devs # {}
      /\ Cardinality(need) + Cardinality(RunningAt(Unfiltered)) <= all - removed
      /\ all <= per * Cardinality(devs)
      /\ per * Cardinality(Filtered) <= removed
  BY <1>1 DEF Covered, PassCovers
<1>4. /\ c \in Nat /\ Cardinality(need) \in Nat
      /\ Cardinality(RunningAt(Unfiltered)) \in Nat
      /\ IsFiniteSet(RunningAt(Unfiltered)) /\ IsFiniteSet(RunningAt({d}))
  BY <1>2, TaskSetsCounted DEF CurrentCount, RunningAt
<1>5. Cardinality(Filtered) \in Nat /\ IsFiniteSet(Filtered)
  BY <1>2, DeviceSetsCounted DEF Filtered
<1>6. d \notin Kept /\ d \in Unfiltered /\ d \notin Filtered
  BY <1>1 DEF Kept, Unfiltered, Filtered
<1>7. CASE Keeps(c)
  <2>1. Kept' = Kept \cup {d}
    BY <1>1, <1>2, <1>7 DEF Kept, Keeps
  <2>2. Unfiltered' = Unfiltered /\ Filtered' = Filtered
    BY <1>1, <2>1 DEF Unfiltered, Filtered
  <2>3. RunningAt(Unfiltered)' = RunningAt(Unfiltered)
    BY <1>1, <2>2 DEF RunningAt
  <2>4. removed' = removed
    BY <1>7 DEF ReadLoad
  <2> QED BY <1>1, <1>3, <2>2, <2>3, <2>4 DEF PassCovers
<1>8. CASE ~ Keeps(c)
  <2>1. Kept' = Kept
    BY <1>1, <1>2, <1>8 DEF Kept, Keeps
  <2>2. Unfiltered' = Unfiltered \ {d} /\ Filtered' = Filtered \cup {d}
    BY <1>1, <1>6, <2>1 DEF Unfiltered, Filtered
  <2>3. removed' = removed + c
    BY <1>8 DEF ReadLoad
  <2>4. Cardinality(RunningAt(Unfiltered)') = Cardinality(RunningAt(Unfiltered)) - c
    <3>1. RunningAt(Unfiltered)' = RunningAt(Unfiltered) \ RunningAt({d})
      BY <1>1, <2>2 DEF RunningAt
    <3>2. RunningAt(Unfiltered) \cap RunningAt({d}) = RunningAt({d})
      BY <1>6 DEF RunningAt
    <3> QED BY <1>4, <3>1, <3>2, FS_Difference DEF CurrentCount
  <2>5. Cardinality(Filtered') = Cardinality(Filtered) + 1
    BY <1>5, <1>6, <2>2, FS_AddElement
  <2>6. per * (Cardinality(Filtered) + 1) = per * Cardinality(Filtered) + per
    BY <1>2, <1>5
  <2>7. per * Cardinality(Filtered) \in Int
    BY <1>2, <1>5
  <2>8. per <= c
    BY <1>2, <1>4, <1>8 DEF Keeps
  <2>9. per * Cardinality(Filtered') <= removed'
    BY <1>2, <1>3, <1>4, <2>3, <2>5, <2>6, <2>7, <2>8
  <2>10. Cardinality(need) + Cardinality(RunningAt(Unfiltered)') <= all - removed'
    BY <1>2, <1>3, <1>4, <2>3, <2>4
  <2> QED BY <1>1, <1>3, <2>9, <2>10 DEF PassCovers
<1> QED BY <1>7, <1>8

(* The end of a pass: a device is kept, and the rest of the total covers   *)
(* the next one.                                                           *)
LEMMA EndPassKeepsCover ==
  ASSUME TypeOK, Covered, EndPass
  PROVE  PassCovers' /\ NeverDividesByZero'
<1>1. /\ pc = "check" /\ unread = {} /\ need' = need
      /\ status' = status /\ device' = device /\ load' = load
  BY DEF EndPass, map
<1>2. /\ per \in Int /\ all \in Int /\ removed \in Int
      /\ devs \subseteq Devices /\ need \subseteq Tasks
  BY DEF TypeOK
<1>3. /\ devs # {}
      /\ Cardinality(need) + Cardinality(RunningAt(Unfiltered)) <= all - removed
      /\ all <= per * Cardinality(devs)
      /\ per * Cardinality(Filtered) <= removed
  BY <1>1 DEF Covered, PassCovers
<1>4. Unfiltered = Kept /\ Kept \subseteq Devices
  BY <1>1, <1>2 DEF Unfiltered, Kept
<1>5. Kept # {}
  <2> SUFFICES ASSUME Kept = {} PROVE FALSE
    OBVIOUS
  <2>1. Filtered = devs
    BY <1>4 DEF Filtered
  <2>2. Cardinality(RunningAt(Unfiltered)) \in Nat
    BY TaskSetsCounted DEF RunningAt
  <2>3. Cardinality(need) \in Nat /\ Cardinality(need) # 0
    BY <1>1, <1>2, TaskSetsCounted, FS_EmptySet DEF Covered, NeedWaits
  <2>4. per * Cardinality(devs) \in Int
    BY <1>2, DeviceSetsCounted
  <2> QED BY <1>2, <1>3, <2>1, <2>2, <2>3, <2>4
<1>6. CASE pc' = "handout"
  BY <1>6 DEF PassCovers, NeverDividesByZero
<1>7. CASE all' = Remaining /\ BeginCheck(Kept, all')
  <2>1. all' = all - removed /\ all' \in Int
    BY <1>2, <1>7 DEF Remaining
  <2>2. Cardinality(need) + Cardinality(RunningAt(Kept)) <= all'
    BY <1>3, <1>4, <2>1
  <2>3. PassCovers'
    BY <1>1, <1>2, <1>4, <1>5, <1>7, <2>1, <2>2, PassBegins DEF Covered
  <2> QED BY <1>7, <2>3 DEF NeverDividesByZero, BeginCheck
<1> QED BY <1>5, <1>6, <1>7 DEF EndPass

LEMMA DivisionNext == DivisionInv /\ [Next]_vars => DivisionInv'
<1> SUFFICES ASSUME DivisionInv, [Next]_vars, ~moved' PROVE Covered'
  BY TypeNext DEF DivisionInv
<1>1. TypeOK /\ TypeOK'
  BY TypeNext DEF DivisionInv
<1>0. moved' = moved => Covered
  BY DEF DivisionInv
<1> USE DEF Covered, CountCovers, NeedWaits, NeverDividesByZero
<1>2. CASE CountAll
  <2>1. pc' = "return" \/ (pc' = "need" /\ all' = Cardinality(AllProc))
    BY <1>2 DEF CountAll, Return
  <2>2. AllProc' = AllProc /\ Cardinality(AllProc) \in Nat
    BY <1>2, TaskSetsCounted DEF CountAll, AllProc
  <2> QED BY <2>1, <2>2 DEF PassCovers
<1>3. CASE GetNeed
  <2>1. pc = "need" /\ (pc' = "return" \/ (pc' = "devices" /\ need' = NeedAssign /\ need' # {}))
    BY <1>3 DEF GetNeed, Return
  <2>2. all' = all /\ status' = status /\ device' = device
    BY <1>3 DEF GetNeed, map
  <2>3. RunningAt(Devices)' = RunningAt(Devices)
    BY <2>2 DEF RunningAt
  <2>4. CASE pc' = "devices"
    <3>1. need' \cup RunningAt(Devices) \subseteq AllProc /\ need' \cap RunningAt(Devices) = {}
      BY <2>1, <2>4 DEF NeedAssign, RunningAt, AllProc
    <3>2. Cardinality(AllProc) <= all
      BY <1>0, <1>3, <2>1 DEF GetNeed, map
    <3>3. Cardinality(need' \cup RunningAt(Devices)) <= all
      <4>1. /\ IsFiniteSet(AllProc) /\ Cardinality(AllProc) \in Nat
            /\ Cardinality(need' \cup RunningAt(Devices)) \in Nat
        BY <3>1, TaskSetsCounted DEF AllProc
      <4>2. Cardinality(need' \cup RunningAt(Devices)) <= Cardinality(AllProc)
        BY <3>1, <4>1, FS_Subset
      <4> QED BY <1>1, <3>2, <4>1, <4>2 DEF TypeOK
    <3> QED BY <2>1, <2>2, <2>3, <2>4, <3>1, <3>3 DEF PassCovers
  <2>5. CASE pc' = "return"
    BY <2>5 DEF PassCovers
  <2> QED BY <2>1, <2>4, <2>5
<1>4. CASE GetDevices
  <2>1. CASE online = {}
    BY <1>0, <1>4, <2>1 DEF PassCovers, GetDevices, Return, map
  <2>2. CASE online # {}
    <3>1. /\ pc = "devices" /\ need' = need /\ all' = all /\ pc' = "check"
          /\ BeginCheck(online, all) /\ UNCHANGED <<status, device, load>>
      BY <1>4, <2>2 DEF GetDevices, BeginCheck, map
    <3>2. /\ online \subseteq Devices /\ need \subseteq Tasks /\ all \in Int
          /\ need # {} /\ need \cap RunningAt(Devices) = {}
          /\ Cardinality(need \cup RunningAt(Devices)) <= all
      BY <1>0, <1>1, <1>4, <3>1 DEF TypeOK, GetDevices, map
    <3>3. Cardinality(need) + Cardinality(RunningAt(online)) <= all
      <4> DEFINE waiting == need \cup RunningAt(Devices)
      <4>1. /\ IsFiniteSet(need) /\ IsFiniteSet(RunningAt(online)) /\ IsFiniteSet(waiting)
            /\ Cardinality(need) \in Nat /\ Cardinality(RunningAt(online)) \in Nat
            /\ Cardinality(waiting) \in Nat
        <5>1. /\ need \subseteq Tasks /\ RunningAt(online) \subseteq Tasks
              /\ waiting \subseteq Tasks
          BY <3>2 DEF RunningAt
        <5> HIDE DEF waiting
        <5> QED BY <5>1, TaskSetsCounted
      <4>2. /\ need \cap RunningAt(online) = {}
            /\ need \cup RunningAt(online) \subseteq waiting
        BY <3>2 DEF RunningAt
      <4>3. Cardinality(need \cup RunningAt(online))
              = Cardinality(need) + Cardinality(RunningAt(online))
        BY <4>1, <4>2, FS_Union, FS_EmptySet
      <4>4. Cardinality(need \cup RunningAt(online)) <= Cardinality(waiting)
        <5> HIDE DEF waiting
        <5> QED BY <4>1, <4>2, FS_Subset
      <4> QED BY <3>2, <4>1, <4>3, <4>4
    <3>4. PassCovers'
      BY <1>1, <2>2, <3>1, <3>2, <3>3, PassBegins
    <3>5. RunningAt(Devices)' = RunningAt(Devices)
      BY <3>1 DEF RunningAt
    <3> QED BY <3>1, <3>2, <3>4, <3>5
  <2> QED BY <2>1, <2>2
<1>5. CASE EndPass
  <2>1. pc = "check" /\ need' = need /\ RunningAt(Devices)' = RunningAt(Devices)
    BY <1>5 DEF EndPass, map, RunningAt
  <2>2. pc' \in {"handout", "check", "divided_by_zero"}
    BY <1>5 DEF EndPass, BeginCheck
  <2>3. Covered
    BY <1>0, <1>5 DEF EndPass, map
  <2> QED BY <1>1, <1>5, <2>1, <2>2, <2>3, EndPassKeepsCover
<1>6. CASE EndHandOut
  BY <1>6 DEF PassCovers, EndHandOut
<1>7. CASE Again
  BY <1>7 DEF PassCovers, Again
<1>8. ASSUME NEW d \in Devices, ReadLoad(d) PROVE Covered'
  <2>1. pc = "check" /\ pc' = "check" /\ need' = need
        /\ RunningAt(Devices)' = RunningAt(Devices)
    BY <1>8 DEF ReadLoad, map, RunningAt
  <2>2. Covered
    BY <1>0, <1>8 DEF ReadLoad, map
  <2> QED BY <1>1, <1>8, <2>1, <2>2, ReadKeepsCover
<1>9. ASSUME NEW d \in Devices, HandOut(d) PROVE Covered'
  <2>1. pc' = "handout"
    BY <1>9 DEF HandOut
  <2> QED BY <2>1 DEF PassCovers
<1>10. ASSUME NEW t \in Tasks, Fetch(t) PROVE Covered'
  <2>1. pc' = "start"
    BY <1>10 DEF Fetch
  <2> QED BY <2>1 DEF PassCovers
<1>11. ASSUME NEW t \in Tasks, Complete(t) PROVE Covered'
  <2>1. /\ UNCHANGED <<pc, locals>>
        /\ status' = [status EXCEPT ![t] = "gone"]
        /\ device' = [device EXCEPT ![t] = NoDevice]
        /\ Covered
    BY <1>0, <1>11 DEF Complete
  <2>2. /\ status \in [Tasks -> Statuses]
        /\ device \in [Tasks -> Devices \cup {NoDevice}]
        /\ devs \subseteq Devices /\ unread \subseteq devs
        /\ all \in Int /\ removed \in Int /\ need \subseteq Tasks
    BY <1>1 DEF TypeOK
  <2>3. AllProc' \subseteq AllProc /\ RunningAt(Devices)' \subseteq RunningAt(Devices)
    BY <2>1, <2>2, NoDeviceIsNone DEF AllProc, RunningAt
  <2>4. Unfiltered' = Unfiltered /\ Filtered' = Filtered /\ Unfiltered \subseteq Devices
    BY <2>1, <2>2 DEF Unfiltered, Filtered, Kept, locals, Keeps
  <2>5. RunningAt(Unfiltered)' \subseteq RunningAt(Unfiltered)
    BY <2>1, <2>2, <2>4, NoDeviceIsNone DEF RunningAt
  <2>11. need' = need
    BY <2>1 DEF locals
  <2>12. /\ Cardinality((need \cup RunningAt(Devices))') <= Cardinality(need \cup RunningAt(Devices))
         /\ Cardinality((need \cup RunningAt(Devices))') \in Nat
         /\ Cardinality(need \cup RunningAt(Devices)) \in Nat
    <3>1. /\ (need \cup RunningAt(Devices))' \subseteq need \cup RunningAt(Devices)
          /\ need \cup RunningAt(Devices) \subseteq Tasks
      BY <2>2, <2>3, <2>11 DEF RunningAt
    <3>2. (need \cup RunningAt(Devices))' \subseteq Tasks
      BY <3>1
    <3> QED BY <3>1, <3>2, TaskSetsCounted, FS_Subset
  <2>6. /\ Cardinality(AllProc') <= Cardinality(AllProc)
        /\ Cardinality(AllProc') \in Nat /\ Cardinality(AllProc) \in Nat
    <3>1. AllProc \subseteq Tasks /\ AllProc' \subseteq Tasks
      BY <2>3 DEF AllProc
    <3> QED BY <2>3, <3>1, TaskSetsCounted, FS_Subset
  <2>7. /\ Cardinality(RunningAt(Unfiltered)') <= Cardinality(RunningAt(Unfiltered))
        /\ Cardinality(RunningAt(Unfiltered)') \in Nat
        /\ Cardinality(RunningAt(Unfiltered)) \in Nat /\ Cardinality(need) \in Nat
    <3>1. RunningAt(Unfiltered) \subseteq Tasks /\ RunningAt(Unfiltered)' \subseteq Tasks
      BY <2>5 DEF RunningAt
    <3> QED BY <2>2, <2>5, <3>1, TaskSetsCounted, FS_Subset
  <2>8. CountCovers'
    BY <2>1, <2>2, <2>6, <2>12 DEF locals
  <2>9. NeedWaits' /\ NeverDividesByZero'
    BY <2>1, <2>3 DEF locals
  <2>10. PassCovers'
    <3> SUFFICES ASSUME pc = "check" PROVE PassCovers'
      BY <2>1 DEF PassCovers
    <3>1. /\ devs # {} /\ all <= per * Cardinality(devs)
          /\ per * Cardinality(Filtered) <= removed
          /\ Cardinality(need) + Cardinality(RunningAt(Unfiltered)) <= all - removed
      BY <2>1 DEF PassCovers
    <3>2. Cardinality(need) + Cardinality(RunningAt(Unfiltered)') <= all - removed
      BY <2>2, <2>7, <3>1
    <3> QED BY <2>1, <2>4, <3>1, <3>2 DEF PassCovers, locals
  <2> QED BY <2>8, <2>9, <2>10
<1>12. CASE UNCHANGED <<status, device, moved, pc, locals>>
  BY <1>0, <1>12 DEF PassCovers, AllProc, NeedAssign, RunningAt,
     Unfiltered, Filtered, Kept, Keeps, locals
<1>13. ASSUME NEW d \in Devices, GoOnline(d) \/ GoOffline(d) PROVE Covered'
  BY <1>12, <1>13 DEF GoOnline, GoOffline
<1>14. ASSUME NEW t \in Tasks, NEW d \in Devices, Move(t, d) \/ ReportedBy(t, d) PROVE FALSE
  BY <1>14 DEF Move, ReportedBy
<1>15. CASE UNCHANGED vars
  BY <1>12, <1>15 DEF vars, map
<1> QED
  BY <1>2, <1>3, <1>4, <1>5, <1>6, <1>7, <1>8, <1>9, <1>10, <1>11, <1>13, <1>14, <1>15
  DEF Next, Routine, Others

(* As long as no task changes its device while the routine runs, the share *)
(* is never divided by a device count of zero.                             *)
THEOREM NoDivisionByZero == Spec => []DividesOnlyAfterMove
<1>1. DivisionInv => DividesOnlyAfterMove
  BY DEF DivisionInv, Covered, DividesOnlyAfterMove
<1> QED BY <1>1, DivisionInit, DivisionNext, PTL DEF Spec

-----------------------------------------------------------------------------
(* The load of a device.  What was read of it is an upper bound, as tasks  *)
(* leave a device but enter it only by a slice.                            *)

Loaded ==
  /\ pc = "check" => \A d \in devs \ unread : CurrentCount(d) <= load[d]
  /\ pc = "handout" => \A d \in devs :
       /\ d \in unread => CurrentCount(d) <= load[d] /\ load[d] < per
       /\ d \notin unread => CurrentCount(d) <= per

LoadInv == TypeOK /\ (~moved => Loaded)

LEMMA CountAtMost ==
  ASSUME NEW e, NEW S \in SUBSET Tasks, RunningAt({e})' \subseteq RunningAt({e}) \cup S
  PROVE  /\ CurrentCount(e) \in Nat /\ CurrentCount(e)' \in Nat /\ Cardinality(S) \in Nat
         /\ CurrentCount(e)' <= CurrentCount(e) + Cardinality(S)
<1>1. /\ RunningAt({e}) \subseteq Tasks /\ RunningAt({e}) \cup S \subseteq Tasks
      /\ RunningAt({e})' \subseteq Tasks
  BY DEF RunningAt
<1>2. /\ IsFiniteSet(RunningAt({e})) /\ IsFiniteSet(S) /\ IsFiniteSet(RunningAt({e}) \cup S)
      /\ Cardinality(RunningAt({e})) \in Nat /\ Cardinality(S) \in Nat
      /\ Cardinality(RunningAt({e})') \in Nat
  BY <1>1, TaskSetsCounted
<1>3. Cardinality(RunningAt({e})') <= Cardinality(RunningAt({e}) \cup S)
  BY <1>2, FS_Subset
<1>4. Cardinality(RunningAt({e}) \cup S) <= Cardinality(RunningAt({e})) + Cardinality(S)
  <2>1. Cardinality(RunningAt({e}) \cap S) \in Nat
    BY <1>1, TaskSetsCounted, RunningAt({e}) \cap S \subseteq Tasks
  <2>2. Cardinality(RunningAt({e}) \cup S)
          = Cardinality(RunningAt({e})) + Cardinality(S) - Cardinality(RunningAt({e}) \cap S)
    BY <1>2, FS_Union
  <2> QED BY <1>2, <2>1, <2>2
<1>5. Cardinality(RunningAt({e}) \cup S) \in Nat
  BY <1>1, TaskSetsCounted
<1> QED BY <1>2, <1>3, <1>4, <1>5 DEF CurrentCount

(* A step by which no task enters a device.                                *)
LEMMA TasksLeave ==
  ASSUME TypeOK, Loaded, UNCHANGED <<pc, devs, per, unread, load>>,
         \A e \in Devices : RunningAt({e})' \subseteq RunningAt({e})
  PROVE  Loaded'
<1>1. ASSUME NEW e \in Devices
      PROVE  CurrentCount(e) \in Nat /\ CurrentCount(e)' \in Nat /\ CurrentCount(e)' <= CurrentCount(e)
  <2>1. Cardinality({}) = 0
    BY FS_EmptySet
  <2>2. {} \in SUBSET Tasks /\ RunningAt({e})' \subseteq RunningAt({e}) \cup {}
    BY <1>1
  <2>3. /\ CurrentCount(e) \in Nat /\ CurrentCount(e)' \in Nat
        /\ CurrentCount(e)' <= CurrentCount(e) + Cardinality({})
    BY <2>2, CountAtMost
  <2> QED BY <2>1, <2>3
<1>2. devs \subseteq Devices /\ per \in Int /\ load \in [Devices -> Int]
  BY DEF TypeOK
<1> QED BY <1>1, <1>2 DEF Loaded

LEMMA LoadNext == LoadInv /\ [Next]_vars => LoadInv'
<1> SUFFICES ASSUME LoadInv, [Next]_vars, ~moved' PROVE Loaded'
  BY TypeNext DEF LoadInv
<1>1. TypeOK /\ per \in Int /\ load \in [Devices -> Int] /\ devs \subseteq Devices /\ need \subseteq Tasks
  BY DEF LoadInv, TypeOK
<1>2. moved' = moved => Loaded
  BY DEF LoadInv
<1>3. CASE CountAll \/ GetNeed \/ EndHandOut \/ Again
  BY <1>3 DEF CountAll, GetNeed, EndHandOut, Again, Return, Loaded
<1>4. CASE GetDevices
  BY <1>4 DEF GetDevices, Return, BeginCheck, Loaded
<1>5. ASSUME NEW d \in Devices, ReadLoad(d) PROVE Loaded'
  <2>1. /\ pc = "check" /\ pc' = "check" /\ devs' = devs /\ unread' = unread \ {d}
        /\ load' = [load EXCEPT ![d] = CurrentCount(d)] /\ UNCHANGED <<status, device>>
        /\ \A e \in devs \ unread : CurrentCount(e) <= load[e]
    BY <1>2, <1>5 DEF ReadLoad, map, Loaded
  <2>2. CurrentCount(d) \in Nat /\ \A e : CurrentCount(e)' = CurrentCount(e)
    BY <2>1, TaskSetsCounted DEF CurrentCount, RunningAt
  <2> QED BY <1>1, <2>1, <2>2 DEF Loaded
<1>6. CASE EndPass
  <2>1. /\ pc = "check" /\ unread = {} /\ load' = load /\ UNCHANGED <<status, device>>
        /\ \A e \in devs : CurrentCount(e) <= load[e]
    BY <1>2, <1>6 DEF EndPass, map, Loaded
  <2>2. \A e : CurrentCount(e)' = CurrentCount(e)
    BY <2>1 DEF CurrentCount, RunningAt
  <2>3. CASE Kept = devs
    <3>1. \A e \in devs : load[e] < per
      BY <2>3 DEF Kept, Keeps
    <3>2. CASE pc' = "handout" /\ unread' = devs /\ devs' = devs /\ per' = per
      BY <2>1, <2>2, <3>1, <3>2 DEF Loaded
    <3>3. CASE pc' = "divided_by_zero"
      BY <3>3 DEF Loaded
    <3> QED BY <1>6, <2>3, <3>2, <3>3 DEF EndPass
  <2>4. CASE Kept # devs
    BY <1>6, <2>4 DEF EndPass, BeginCheck, Loaded
  <2> QED BY <2>3, <2>4
<1>7. ASSUME NEW d \in Devices, HandOut(d) PROVE Loaded'
  <2>1. /\ pc = "handout" /\ pc' = "handout" /\ d \in unread /\ unread' = unread \ {d}
        /\ UNCHANGED <<devs, per, load>> /\ d \in devs
    BY <1>1, <1>7 DEF HandOut, TypeOK
  <2>2. PICK slice \in SUBSET need :
          /\ Cardinality(slice) = SliceSize(d)
          /\ \/ UNCHANGED <<status, device>>
             \/ \E marked \in SUBSET slice :
                  /\ status' = [t \in Tasks |-> IF t \in Marked(marked) THEN "run" ELSE status[t]]
                  /\ device' = [t \in Tasks |-> IF t \in Marked(marked) THEN d ELSE device[t]]
    BY <1>7 DEF HandOut
  <2>3. slice \in SUBSET Tasks
    BY <1>1
  <2>4. ASSUME NEW e \in Devices
        PROVE  /\ e # d => RunningAt({e})' \subseteq RunningAt({e})
               /\ e = d => RunningAt({e})' \subseteq RunningAt({e}) \cup slice
    <3>1. CASE UNCHANGED <<status, device>>
      BY <3>1 DEF RunningAt
    <3>2. ASSUME NEW marked \in SUBSET slice,
                 status' = [t \in Tasks |-> IF t \in Marked(marked) THEN "run" ELSE status[t]],
                 device' = [t \in Tasks |-> IF t \in Marked(marked) THEN d ELSE device[t]]
          PROVE  /\ e # d => RunningAt({e})' \subseteq RunningAt({e})
                 /\ e = d => RunningAt({e})' \subseteq RunningAt({e}) \cup slice
      BY <3>2 DEF RunningAt, Marked
    <3> QED BY <2>2, <3>1, <3>2
  <2>5. \A e \in devs : /\ e \in unread => CurrentCount(e) <= load[e] /\ load[e] < per
                        /\ e \notin unread => CurrentCount(e) <= per
    BY <1>2, <1>7, <2>1 DEF HandOut, Loaded
  <2>6. ASSUME NEW e \in devs, e # d
        PROVE  /\ e \in unread' => CurrentCount(e)' <= load[e] /\ load[e] < per
               /\ e \notin unread' => CurrentCount(e)' <= per
    <3>1. Cardinality({}) = 0
      BY FS_EmptySet
    <3>2. /\ CurrentCount(e) \in Nat /\ CurrentCount(e)' \in Nat
          /\ CurrentCount(e)' <= CurrentCount(e) + Cardinality({})
      BY <1>1, <2>4, <2>6, CountAtMost, {} \in SUBSET Tasks
    <3>3. load[e] \in Int
      BY <1>1
    <3> QED BY <1>1, <2>1, <2>5, <2>6, <3>1, <3>2, <3>3
  <2>7. CurrentCount(d)' <= per
    <3>1. /\ CurrentCount(d) \in Nat /\ CurrentCount(d)' \in Nat /\ Cardinality(slice) \in Nat
          /\ CurrentCount(d)' <= CurrentCount(d) + Cardinality(slice)
      BY <2>3, <2>4, CountAtMost
    <3>2. Cardinality(need) \in Nat /\ load[d] \in Int
      BY <1>1, TaskSetsCounted
    <3>3. Cardinality(slice) <= per - load[d]
      BY <1>1, <2>2, <3>1, <3>2 DEF SliceSize, Quota
    <3> QED BY <1>1, <2>1, <2>5, <3>1, <3>2, <3>3
  <2> QED BY <2>1, <2>6, <2>7 DEF Loaded
<1>8. ASSUME NEW t \in Tasks, Complete(t) PROVE Loaded'
  <2>1. \A e \in Devices : RunningAt({e})' \subseteq RunningAt({e})
    BY <1>1, <1>8 DEF Complete, RunningAt, TypeOK
  <2> QED BY <1>1, <1>2, <1>8, <2>1, TasksLeave DEF Complete, locals
<1>9. ASSUME NEW t \in Tasks, Fetch(t) PROVE Loaded'
  BY <1>9 DEF Fetch, Loaded
<1>10. ASSUME NEW d \in Devices, GoOnline(d) \/ GoOffline(d) PROVE Loaded'
  <2>1. \A e \in Devices : RunningAt({e})' \subseteq RunningAt({e})
    BY <1>10 DEF GoOnline, GoOffline, RunningAt
  <2> QED BY <1>1, <1>2, <1>10, <2>1, TasksLeave DEF GoOnline, GoOffline, locals
<1>11. ASSUME NEW t \in Tasks, NEW d \in Devices, Move(t, d) \/ ReportedBy(t, d) PROVE Loaded'
  BY <1>11 DEF Move, ReportedBy
<1>12. CASE UNCHANGED vars
  <2>1. \A e \in Devices : RunningAt({e})' \subseteq RunningAt({e})
    BY <1>12 DEF vars, map, RunningAt
  <2> QED BY <1>1, <1>2, <1>12, <2>1, TasksLeave DEF vars, map, locals
<1> QED
  BY <1>3, <1>4, <1>5, <1>6, <1>7, <1>8, <1>9, <1>10, <1>11, <1>12 DEF Next, Routine, Others

(* No call of the routine loads a device above the share it has computed,  *)
(* as long as no task changes its device meanwhile.                        *)
THEOREM NoOverload == Spec => []NeverOverloads
<1>1. Init => LoadInv
  BY TypeInit DEF Init, LoadInv, Loaded
<1>2. LoadInv => NeverOverloads
  BY DEF LoadInv, Loaded, NeverOverloads
<1> QED BY <1>1, <1>2, LoadNext, PTL DEF Spec

-----------------------------------------------------------------------------
(* Nothing is left behind.  A device of the pass is a column of per        *)
(* places; what was read of its load takes the lower ones and the slice it *)
(* gets must fit into the others.  While loads are read, the total not yet *)
(* taken out covers the places taken, the tasks of the devices not looked  *)
(* at and those to assign; when the slices are cut, the places left over   *)
(* cover what is still to assign.                                          *)

Column   == 0 .. (per - 1)
Taken(D) == {c \in D \X Column : c[2] < load[c[1]]}
Room(D)  == {c \in D \X Column : load[c[1]] <= c[2]}

RoomLeft ==
  /\ pc = "check" =>
       Cardinality(Taken(Kept)) + Cardinality(RunningAt(unread)) + Cardinality(need)
         <= all - removed
  /\ pc = "handout" => Cardinality(need) <= Cardinality(Room(unread))
  /\ pc = "return" /\ ret = "ok" => need = {}

(* The vector has every task that waits, except after an error.            *)
NotMissed ==
  pc \in {"devices", "check", "handout", "return"} /\ ret = "ok" => NeedAssign \subseteq need

CleanInv == DivisionInv /\ LoadInv /\ NotMissed /\ (~moved => RoomLeft)

LEMMA PlacesCounted ==
  ASSUME TypeOK, NEW D, D \subseteq Devices
  PROVE  /\ IsFiniteSet(Taken(D)) /\ IsFiniteSet(Room(D))
         /\ Cardinality(Taken(D)) \in Nat /\ Cardinality(Room(D)) \in Nat
<1>1. IsFiniteSet(D) /\ IsFiniteSet(Column)
  BY DeviceSetsCounted, FS_Interval DEF TypeOK, Column
<1>2. IsFiniteSet(D \X Column)
  BY <1>1, FS_Product
<1>3. Taken(D) \subseteq D \X Column /\ Room(D) \subseteq D \X Column
  BY DEF Taken, Room
<1> QED BY <1>2, <1>3, FS_Subset, FS_CardinalityType

LEMMA PartTaken ==
  ASSUME NEW S, NEW T, IsFiniteSet(S), T \subseteq S
  PROVE  Cardinality(S \ T) = Cardinality(S) - Cardinality(T)
<1>1. S \cap T = T
  OBVIOUS
<1> QED BY <1>1, FS_Difference

(* The places from m up to n in the column of one device.                  *)
LEMMA ColumnCounted ==
  ASSUME NEW d, NEW m \in Nat, NEW n \in Nat, m <= n
  PROVE  /\ IsFiniteSet({d} \X (m .. (n - 1)))
         /\ Cardinality({d} \X (m .. (n - 1))) = n - m
<1>1. IsFiniteSet({d}) /\ Cardinality({d}) = 1
  BY FS_Singleton
<1>2. IsFiniteSet(m .. (n - 1)) /\ Cardinality(m .. (n - 1)) = n - m
  <2>1. /\ IsFiniteSet(m .. (n - 1))
        /\ Cardinality(m .. (n - 1)) = IF m > n - 1 THEN 0 ELSE (n - 1) - m + 1
    BY FS_Interval, m \in Int, n - 1 \in Int
  <2> QED BY <2>1
<1>3. /\ IsFiniteSet({d} \X (m .. (n - 1)))
      /\ Cardinality({d} \X (m .. (n - 1))) = Cardinality({d}) * Cardinality(m .. (n - 1))
  BY <1>1, <1>2, FS_Product
<1> QED BY <1>1, <1>2, <1>3

(* A pass begins with nothing read, so its total covers its devices.       *)
LEMMA PassBeginsWithRoom ==
  ASSUME TypeOK', PassCovers', pc' = "check", unread' = devs'
  PROVE  RoomLeft'
<1>1. Kept' = {} /\ Unfiltered' = unread'
  BY DEF Kept, Unfiltered
<1>2. Taken(Kept)' = {}
  BY <1>1 DEF Taken
<1>3. Cardinality(need') + Cardinality(RunningAt(unread)') <= all' - removed'
  BY <1>1 DEF PassCovers, RunningAt
<1>4. Cardinality(Taken(Kept)') = 0
  BY <1>2, FS_EmptySet
<1>5. need' \subseteq Tasks /\ RunningAt(unread)' \subseteq Tasks
  BY DEF TypeOK, RunningAt
<1>6. Cardinality(need') \in Nat /\ Cardinality(RunningAt(unread)') \in Nat
  BY <1>5, TaskSetsCounted
<1> QED BY <1>3, <1>4, <1>6 DEF RoomLeft

(* What a turn of the loop reads of a device moves from the running tasks  *)
(* to the places taken or out of the total.                                *)
LEMMA ReadKeepsRoom ==
  ASSUME TypeOK, RoomLeft, NEW d \in Devices, ReadLoad(d)
  PROVE  RoomLeft'
<1> DEFINE c == CurrentCount(d)
<1>1. /\ pc = "check" /\ pc' = "check" /\ d \in unread /\ d \in devs
      /\ unread' = unread \ {d} /\ devs' = devs /\ per' = per /\ all' = all
      /\ need' = need /\ status' = status /\ device' = device
      /\ load' = [load EXCEPT ![d] = c]
      /\ removed' = IF Keeps(c) THEN removed ELSE removed + c
  BY DEF ReadLoad, map, TypeOK
<1>2. /\ per \in Int /\ all \in Int /\ removed \in Int /\ load \in [Devices -> Int]
      /\ devs \subseteq Devices /\ unread \subseteq devs /\ need \subseteq Tasks
  BY DEF TypeOK
<1>3. /\ c \in Nat /\ Cardinality(need) \in Nat
      /\ IsFiniteSet(RunningAt(unread)) /\ Cardinality(RunningAt(unread)) \in Nat
  BY <1>2, TaskSetsCounted DEF CurrentCount, RunningAt
<1>4. d \notin Kept /\ Kept \subseteq Devices
  BY <1>1, <1>2 DEF Kept
<1>5. Cardinality(RunningAt(unread)') = Cardinality(RunningAt(unread)) - c
  <2>1. RunningAt(unread)' = RunningAt(unread) \ RunningAt({d})
    BY <1>1 DEF RunningAt
  <2>2. RunningAt(unread) \cap RunningAt({d}) = RunningAt({d})
    BY <1>1 DEF RunningAt
  <2> QED BY <1>3, <2>1, <2>2, FS_Difference DEF CurrentCount
<1>6. IsFiniteSet(Taken(Kept)) /\ Cardinality(Taken(Kept)) \in Nat
  BY <1>4, PlacesCounted
<1>8. CASE Keeps(c)
  <2>1. Kept' = Kept \cup {d}
    BY <1>1, <1>2, <1>8 DEF Kept, Keeps
  <2>2. load'[d] = c /\ \A e \in Kept : load'[e] = load[e]
    BY <1>1, <1>2, <1>4
  <2>3. Taken(Kept)' = Taken(Kept) \cup Taken({d})'
    BY <1>1, <2>1, <2>2 DEF Taken, Column
  <2>4. Taken(Kept) \cap Taken({d})' = {}
    BY <1>4 DEF Taken
  <2>5. Taken({d})' = {d} \X (0 .. (c - 1))
    BY <1>1, <1>2, <1>3, <1>8, <2>2 DEF Taken, Column, Keeps
  <2>6. IsFiniteSet(Taken({d})') /\ Cardinality(Taken({d})') = c
    <3>2. c \in Nat
      BY <1>3
    <3>3. /\ IsFiniteSet({d} \X (0 .. (c - 1)))
          /\ Cardinality({d} \X (0 .. (c - 1))) = c - 0
      <4> HIDE DEF c
      <4> QED BY <3>2, ColumnCounted, 0 \in Nat, 0 <= c
    <3>4. c - 0 = c
      BY <3>2
    <3>5. IsFiniteSet({d} \X (0 .. (c - 1))) /\ Cardinality({d} \X (0 .. (c - 1))) = c
      BY <3>3, <3>4
    <3> HIDE DEF c
    <3> QED BY <2>5, <3>5
  <2>7. Cardinality(Taken(Kept)') = Cardinality(Taken(Kept)) + c
    <3> DEFINE A == Taken(Kept)
               B == Taken({d})'
    <3>1. IsFiniteSet(A) /\ IsFiniteSet(B) /\ A \cap B = {}
      BY <1>6, <2>4, <2>6
    <3>2. Cardinality(A \cup B) = Cardinality(A) + Cardinality(B) - Cardinality(A \cap B)
      <4> HIDE DEF A, B
      <4> QED BY <3>1, FS_Union
    <3>3. Cardinality(A \cap B) = 0
      BY <3>1, FS_EmptySet
    <3> QED BY <1>3, <1>6, <2>3, <2>6, <3>2, <3>3
  <2> QED BY <1>1, <1>2, <1>3, <1>5, <1>6, <1>8, <2>7 DEF RoomLeft
<1>9. CASE ~Keeps(c)
  <2>1. Kept' = Kept
    BY <1>1, <1>2, <1>9 DEF Kept, Keeps
  <2>2. Taken(Kept)' = Taken(Kept)
    BY <1>1, <1>2, <1>4, <2>1 DEF Taken, Column
  <2> QED BY <1>1, <1>2, <1>3, <1>5, <1>6, <1>9, <2>2 DEF RoomLeft
<1> QED BY <1>8, <1>9

(* When a pass has kept every device, the places not taken are those that  *)
(* the slices fill.                                                        *)
LEMMA EndPassKeepsRoom ==
  ASSUME TypeOK, Covered, Loaded, RoomLeft, EndPass
  PROVE  RoomLeft'
<1>1. /\ pc = "check" /\ unread = {} /\ need' = need /\ load' = load /\ TypeOK'
  BY TypeNext DEF EndPass, map, Next, Routine
<1>2. /\ per \in Int /\ all \in Int /\ removed \in Int /\ load \in [Devices -> Int]
      /\ devs \subseteq Devices /\ need \subseteq Tasks
  BY DEF TypeOK
<1>3. PassCovers' /\ NeverDividesByZero'
  BY EndPassKeepsCover
<1>4. CASE pc' = "check"
  <2>1. unread' = devs'
    BY <1>4 DEF EndPass, BeginCheck
  <2> QED BY <1>1, <1>3, <1>4, <2>1, PassBeginsWithRoom
<1>5. CASE Kept = devs /\ pc' = "handout" /\ unread' = devs /\ devs' = devs /\ per' = per
  <2>1. 0 <= removed /\ all <= per * Cardinality(devs)
    <3>1. Filtered = {}
      BY <1>5 DEF Filtered, Unfiltered
    <3>2. Cardinality(Filtered) = 0
      BY <3>1, FS_EmptySet
    <3>3. per * Cardinality(Filtered) <= removed /\ all <= per * Cardinality(devs)
      BY <1>1 DEF Covered, PassCovers
    <3> QED BY <1>2, <3>2, <3>3
  <2>2. /\ Cardinality(devs) \in Nat /\ IsFiniteSet(devs) /\ Cardinality(need) \in Nat
        /\ Cardinality(Taken(devs)) \in Nat /\ IsFiniteSet(Taken(devs))
        /\ Cardinality(Room(devs)) \in Nat /\ IsFiniteSet(Room(devs))
    BY <1>2, TaskSetsCounted, DeviceSetsCounted, PlacesCounted
  <2>3. per \in Nat
    <3>1. PICK d \in devs : load[d] < per /\ CurrentCount(d) <= load[d]
      BY <1>1, <1>5 DEF Covered, PassCovers, Loaded, Kept, Keeps
    <3>2. CurrentCount(d) \in Nat /\ load[d] \in Int
      BY <1>2, <3>1, TaskSetsCounted DEF CurrentCount, RunningAt
    <3> QED BY <1>2, <3>1, <3>2
  <2>4. IsFiniteSet(Column) /\ Cardinality(Column) = per
    <3>1. /\ IsFiniteSet(0 .. (per - 1))
          /\ Cardinality(0 .. (per - 1)) = IF 0 > per - 1 THEN 0 ELSE (per - 1) - 0 + 1
      BY <2>3, FS_Interval, 0 \in Int, per - 1 \in Int
    <3> QED BY <2>3, <3>1 DEF Column
  <2>5. Cardinality(devs \X Column) = Cardinality(devs) * per /\ IsFiniteSet(devs \X Column)
    BY <2>2, <2>4, FS_Product
  <2>6. Cardinality(Room(devs)) = Cardinality(devs) * per - Cardinality(Taken(devs))
    <3>1. Room(devs) = (devs \X Column) \ Taken(devs)
      BY <1>2 DEF Room, Taken, Column
    <3>2. Taken(devs) \subseteq devs \X Column
      BY DEF Taken
    <3>3. Cardinality((devs \X Column) \ Taken(devs))
            = Cardinality(devs \X Column) - Cardinality(Taken(devs))
      BY <2>5, <3>2, PartTaken
    <3> QED BY <2>5, <3>1, <3>3
  <2>7. Cardinality(Taken(devs)) + Cardinality(need) <= all - removed
    <3>1. RunningAt(unread) = {}
      BY <1>1 DEF RunningAt
    <3>2. Cardinality(RunningAt(unread)) = 0
      BY <3>1, FS_EmptySet
    <3> QED BY <1>1, <1>5, <2>2, <3>2 DEF RoomLeft
  <2>8. per * Cardinality(devs) = Cardinality(devs) * per /\ per * Cardinality(devs) \in Int
    BY <1>2, <2>2
  <2>9. Cardinality(need) <= Cardinality(Room(devs))
    BY <1>2, <2>1, <2>2, <2>6, <2>7, <2>8
  <2>10. Room(unread)' = Room(devs)
    BY <1>1, <1>5 DEF Room, Column
  <2> QED BY <1>1, <1>5, <2>9, <2>10 DEF RoomLeft
<1> QED BY <1>1, <1>3, <1>4, <1>5 DEF EndPass, NeverDividesByZero, BeginCheck

(* A slice fills what is left of its device's column or takes all that is  *)
(* still to assign.                                                        *)
LEMMA HandOutKeepsRoom ==
  ASSUME TypeOK, Loaded, RoomLeft, NEW d \in Devices, HandOut(d)
  PROVE  RoomLeft'
<1>1. /\ pc = "handout" /\ pc' = "handout" /\ d \in unread /\ unread' = unread \ {d}
      /\ UNCHANGED <<devs, per, load>> /\ d \in devs
  BY DEF HandOut, TypeOK
<1>2. /\ per \in Int /\ load \in [Devices -> Int] /\ unread \subseteq Devices /\ need \subseteq Tasks
  BY DEF TypeOK
<1>3. PICK slice \in SUBSET need :
        Cardinality(slice) = SliceSize(d) /\ need' = need \ slice
  BY DEF HandOut
<1>4. /\ IsFiniteSet(need) /\ Cardinality(need) \in Nat /\ IsFiniteSet(slice)
      /\ Cardinality(slice) \in Nat /\ Cardinality(need') \in Nat
  BY <1>2, <1>3, TaskSetsCounted
<1>5. Cardinality(need') = Cardinality(need) - Cardinality(slice)
  <2>1. Cardinality(need \ slice) = Cardinality(need) - Cardinality(slice)
    BY <1>4, PartTaken
  <2> QED BY <1>3, <2>1
<1>6. load[d] \in Nat /\ per \in Nat /\ load[d] < per
  <2>1. CurrentCount(d) \in Nat /\ CurrentCount(d) <= load[d] /\ load[d] < per
    BY <1>1, <1>2, TaskSetsCounted DEF Loaded, CurrentCount, RunningAt
  <2> QED BY <1>2, <2>1
<1>7. /\ IsFiniteSet(Room(unread)) /\ Cardinality(Room(unread)) \in Nat
      /\ Cardinality(Room(unread \ {d})) \in Nat
  BY <1>2, PlacesCounted
<1>8. Cardinality(Room(unread \ {d})) = Cardinality(Room(unread)) - (per - load[d])
  <2>1. Room(unread \ {d}) = Room(unread) \ Room({d}) /\ Room({d}) \subseteq Room(unread)
    BY <1>1 DEF Room
  <2>2. Room({d}) = {d} \X (load[d] .. (per - 1))
    BY <1>6 DEF Room, Column
  <2>3. Cardinality({d} \X (load[d] .. (per - 1))) = per - load[d]
    <3> DEFINE n == load[d]
    <3>1. n \in Nat /\ n <= per /\ per \in Nat
      BY <1>6
    <3> HIDE DEF n
    <3>2. /\ IsFiniteSet({d} \X (n .. (per - 1)))
          /\ Cardinality({d} \X (n .. (per - 1))) = per - n
      BY <3>1, ColumnCounted
    <3> QED BY <3>2 DEF n
  <2>4. Cardinality(Room(unread) \ Room({d})) = Cardinality(Room(unread)) - Cardinality(Room({d}))
    BY <1>7, <2>1, PartTaken
  <2> QED BY <2>1, <2>2, <2>3, <2>4
<1>9. Cardinality(need) <= Cardinality(Room(unread))
  BY <1>1 DEF RoomLeft
<1>10. Cardinality(need') <= Cardinality(Room(unread \ {d}))
  BY <1>3, <1>4, <1>5, <1>6, <1>7, <1>8, <1>9 DEF SliceSize, Quota
<1>11. Room(unread)' = Room(unread \ {d})
  BY <1>1 DEF Room, Column
<1> QED BY <1>1, <1>10, <1>11 DEF RoomLeft

(* When all slices are cut no room is left, so nothing is to assign.       *)
LEMMA EndHandOutLeavesNothing ==
  ASSUME TypeOK, RoomLeft, EndHandOut
  PROVE  RoomLeft'
<1>1. pc = "handout" /\ pc' = "return" /\ unread = {} /\ need' = need
  BY DEF EndHandOut, locals
<1>2. Room(unread) = {}
  BY <1>1 DEF Room
<1>3. Cardinality(Room(unread)) = 0
  BY <1>2, FS_EmptySet
<1>4. IsFiniteSet(need) /\ Cardinality(need) \in Nat /\ need \subseteq Tasks
  BY TaskSetsCounted DEF TypeOK
<1>5. Cardinality(need) = 0
  BY <1>1, <1>3, <1>4 DEF RoomLeft
<1>6. need = {}
  BY <1>4, <1>5, FS_EmptySet
<1> QED BY <1>1, <1>6 DEF RoomLeft

(* A step by which no task enters a device.                                *)
LEMMA LeavingKeepsRoom ==
  ASSUME TypeOK, RoomLeft, UNCHANGED <<pc, locals>>,
         RunningAt(unread)' \subseteq RunningAt(unread)
  PROVE  RoomLeft'
<1>1. UNCHANGED <<pc, all, need, devs, per, unread, load, removed, ret>>
  BY DEF locals
<1>2. /\ Taken(Kept)' = Taken(Kept) /\ Room(unread)' = Room(unread)
  BY <1>1 DEF Taken, Room, Column, Kept, Keeps
<1>3. /\ IsFiniteSet(RunningAt(unread)) /\ Cardinality(RunningAt(unread)) \in Nat
      /\ Cardinality(RunningAt(unread)') \in Nat
      /\ Cardinality(RunningAt(unread)') <= Cardinality(RunningAt(unread))
  <2>1. RunningAt(unread) \subseteq Tasks /\ RunningAt(unread)' \subseteq Tasks
    BY DEF RunningAt
  <2> QED BY <2>1, TaskSetsCounted, FS_Subset
<1>4. /\ all \in Int /\ removed \in Int /\ Cardinality(need) \in Nat
      /\ Cardinality(Taken(Kept)) \in Nat
  BY TaskSetsCounted, PlacesCounted DEF TypeOK, Kept
<1> QED BY <1>1, <1>2, <1>3, <1>4 DEF RoomLeft

LEMMA MissedNext == TypeOK /\ NotMissed /\ [Next]_vars => NotMissed'
<1> SUFFICES ASSUME TypeOK, NotMissed, [Next]_vars PROVE NotMissed'
  OBVIOUS
<1> USE DEF NotMissed, NeedAssign
<1>1. CASE CountAll
  BY <1>1 DEF CountAll, Return
<1>2. CASE GetNeed
  <2>1. need' = NeedAssign /\ status' = status
    BY <1>2 DEF GetNeed, map
  <2> QED BY <2>1
<1>3. CASE GetDevices \/ EndPass \/ EndHandOut
  <2>1. /\ need' = need /\ status' = status /\ (ret' = "ok" => ret = "ok")
        /\ pc \in {"devices", "check", "handout"}
    BY <1>3 DEF GetDevices, EndPass, EndHandOut, Return, map, locals
  <2> QED BY <2>1
<1>4. CASE Again
  BY <1>4 DEF Again
<1>5. ASSUME NEW d \in Devices, ReadLoad(d) PROVE NotMissed'
  BY <1>5 DEF ReadLoad, map
<1>6. ASSUME NEW d \in Devices, HandOut(d) PROVE NotMissed'
  <2> SUFFICES ASSUME ret' = "ok" PROVE NeedAssign' \subseteq need'
    OBVIOUS
  <2>1. PICK slice \in SUBSET need :
          /\ need' = need \ slice
          /\ status' = [t \in Tasks |-> IF t \in Marked(slice) THEN "run" ELSE status[t]]
          /\ ret = "ok"
    BY <1>6 DEF HandOut
  <2>2. NeedAssign \subseteq need
    BY <1>6, <2>1 DEF HandOut
  <2>3. status \in [Tasks -> Statuses]
    BY DEF TypeOK
  <2> QED BY <2>1, <2>2, <2>3 DEF Marked
<1>7. ASSUME NEW t \in Tasks, Fetch(t) PROVE NotMissed'
  BY <1>7 DEF Fetch
<1>8. ASSUME NEW t \in Tasks, Complete(t) PROVE NotMissed'
  <2>1. UNCHANGED <<pc, need, ret>> /\ NeedAssign' \subseteq NeedAssign
    BY <1>8 DEF Complete, locals, TypeOK
  <2> QED BY <2>1
<1>9. CASE UNCHANGED <<status, pc, locals>>
  BY <1>9 DEF locals
<1>10. ASSUME NEW d \in Devices, GoOnline(d) \/ GoOffline(d) PROVE NotMissed'
  BY <1>9, <1>10 DEF GoOnline, GoOffline
<1>11. ASSUME NEW t \in Tasks, NEW d \in Devices, Move(t, d) \/ ReportedBy(t, d) PROVE NotMissed'
  BY <1>9, <1>11 DEF Move, ReportedBy
<1>12. CASE UNCHANGED vars
  BY <1>9, <1>12 DEF vars, map
<1> QED
  BY <1>1, <1>2, <1>3, <1>4, <1>5, <1>6, <1>7, <1>8, <1>10, <1>11, <1>12
  DEF Next, Routine, Others

LEMMA RoomNext == CleanInv /\ [Next]_vars /\ ~moved' => RoomLeft'
<1> SUFFICES ASSUME CleanInv, [Next]_vars, ~moved' PROVE RoomLeft'
  OBVIOUS
<1>1. TypeOK /\ TypeOK' /\ DivisionInv'
  BY TypeNext, DivisionNext DEF CleanInv, DivisionInv
<1>2. moved' = moved => Covered /\ Loaded /\ RoomLeft
  BY DEF CleanInv, DivisionInv, LoadInv
<1>3. PassCovers'
  BY <1>1 DEF DivisionInv, Covered
<1>4. CASE CountAll \/ GetNeed \/ Again
  BY <1>4 DEF CountAll, GetNeed, Again, Return, RoomLeft
<1>5. CASE GetDevices
  <2>1. CASE pc' = "check" /\ unread' = devs'
    BY <1>1, <1>3, <2>1, PassBeginsWithRoom
  <2>2. CASE pc' = "return" /\ ret' # "ok"
    BY <2>2 DEF RoomLeft
  <2> QED BY <1>5, <2>1, <2>2 DEF GetDevices, BeginCheck, Return
<1>6. ASSUME NEW d \in Devices, ReadLoad(d) PROVE RoomLeft'
  BY <1>1, <1>2, <1>6, ReadKeepsRoom DEF ReadLoad, map
<1>7. CASE EndPass
  BY <1>1, <1>2, <1>7, EndPassKeepsRoom DEF EndPass, map
<1>8. ASSUME NEW d \in Devices, HandOut(d) PROVE RoomLeft'
  BY <1>1, <1>2, <1>8, HandOutKeepsRoom DEF HandOut
<1>9. CASE EndHandOut
  BY <1>1, <1>2, <1>9, EndHandOutLeavesNothing DEF EndHandOut, map
<1>10. ASSUME NEW t \in Tasks, Fetch(t) PROVE RoomLeft'
  BY <1>10 DEF Fetch, RoomLeft
<1>11. ASSUME NEW t \in Tasks, Complete(t) PROVE RoomLeft'
  <2>1. RunningAt(unread)' \subseteq RunningAt(unread)
    BY <1>1, <1>11, NoDeviceIsNone DEF Complete, locals, RunningAt, TypeOK
  <2> QED BY <1>1, <1>2, <1>11, <2>1, LeavingKeepsRoom DEF Complete
<1>12. CASE UNCHANGED <<map, pc, locals>> \/ \E d \in Devices : GoOnline(d) \/ GoOffline(d)
  <2>1. UNCHANGED <<status, device, moved, pc, locals>>
    BY <1>12 DEF GoOnline, GoOffline, map
  <2>2. RunningAt(unread)' \subseteq RunningAt(unread)
    BY <2>1 DEF locals, RunningAt
  <2> QED BY <1>1, <1>2, <2>1, <2>2, LeavingKeepsRoom
<1>13. ASSUME NEW t \in Tasks, NEW d \in Devices, Move(t, d) \/ ReportedBy(t, d) PROVE FALSE
  BY <1>13 DEF Move, ReportedBy
<1> QED
  BY <1>4, <1>5, <1>6, <1>7, <1>8, <1>9, <1>10, <1>11, <1>12, <1>13
  DEF Next, Routine, Others, vars

(* As long as no task changes its device while the routine runs, a return  *)
(* without an error has handed out every task that waited, whatever the    *)
(* result thread and the registry did meanwhile.                           *)
THEOREM NoneLeftBehind == Spec => []CleanReturnAssignsAll
<1>1. Init => CleanInv
  BY DivisionInit, TypeInit DEF Init, CleanInv, LoadInv, Loaded, NotMissed, RoomLeft
<1>2. CleanInv /\ [Next]_vars => CleanInv'
  BY DivisionNext, LoadNext, MissedNext, RoomNext DEF CleanInv, DivisionInv
<1>3. CleanInv => CleanReturnAssignsAll
  BY DEF CleanInv, NotMissed, RoomLeft, CleanReturnAssignsAll
<1> QED BY <1>1, <1>2, <1>3, PTL DEF Spec

-----------------------------------------------------------------------------
(* The slices, also when tasks change their device meanwhile.              *)

(* Every device that has still to get its slice is below the share it was  *)
(* measured against, so the slice the code cuts (the share less the load,  *)
(* at most what is left of the vector) takes no negative number of tasks,  *)
(* none beyond the end of the vector, and one at least while any is left.  *)
SlicesInRange ==
  pc = "handout" => \A d \in unread :
    /\ SliceSize(d) \in 0 .. Cardinality(need)
    /\ need # {} => SliceSize(d) > 0

BelowShare == pc = "handout" => \A d \in devs : load[d] < per

SliceInv == TypeOK /\ BelowShare

LEMMA BelowShareNext == SliceInv /\ [Next]_vars => BelowShare'
<1> SUFFICES ASSUME SliceInv, [Next]_vars, pc' = "handout"
             PROVE  \A d \in devs' : load'[d] < per'
  BY DEF BelowShare
<1>1. CASE pc = "handout"
  <2>1. UNCHANGED <<devs, load, per>>
    BY <1>1 DEF Next, Routine, Others, CountAll, GetNeed, GetDevices, EndPass, EndHandOut,
                Again, ReadLoad, HandOut, Fetch, Complete, GoOnline, GoOffline, Move,
                ReportedBy, vars, locals
  <2> QED BY <1>1, <2>1 DEF SliceInv, BelowShare
<1>2. CASE pc # "handout"
  <2>1. EndPass
    BY <1>2 DEF Next, Routine, Others, CountAll, GetNeed, GetDevices, BeginCheck, Return,
                EndHandOut, Again, ReadLoad, HandOut, Fetch, Complete, GoOnline, GoOffline,
                Move, ReportedBy, vars
  <2>2. Kept = devs /\ UNCHANGED <<devs, per, load>>
    BY <2>1 DEF EndPass, BeginCheck
  <2> QED BY <2>2 DEF Kept, Keeps
<1> QED BY <1>1, <1>2

(* The slices are cut within the vector, and no kept device goes without   *)
(* one while tasks are left, whatever the other threads do.                *)
THEOREM SlicesWithinVector == Spec => []SlicesInRange
<1>1. Init => SliceInv
  BY TypeInit DEF Init, SliceInv, BelowShare
<1>2. SliceInv /\ [Next]_vars => SliceInv'
  BY TypeNext, BelowShareNext DEF SliceInv
<1>3. SliceInv => SlicesInRange
  <2> SUFFICES ASSUME SliceInv, pc = "handout", NEW d \in unread
               PROVE  /\ SliceSize(d) \in 0 .. Cardinality(need)
                      /\ need # {} => SliceSize(d) > 0
    BY DEF SlicesInRange
  <2>1. /\ d \in devs /\ d \in Devices /\ load[d] < per
        /\ load[d] \in Int /\ per \in Int /\ need \subseteq Tasks
    BY DEF SliceInv, TypeOK, BelowShare
  <2>2. Cardinality(need) \in Nat /\ (need # {} => Cardinality(need) # 0)
    BY <2>1, TaskSetsCounted, FS_EmptySet
  <2> QED BY <2>1, <2>2 DEF SliceSize, Quota
<1> QED BY <1>1, <1>2, <1>3, PTL DEF Spec

-----------------------------------------------------------------------------
(* The loop of passes.  That it ends needs fairness and stays with TLC;    *)
(* proved here is what its end rests on: a number that every step of the   *)
(* loop makes smaller and no other thread can touch.                       *)

(* Devices still in the loop, weighed so that one less outweighs a whole   *)
(* new pass; within a pass, the devices not looked at yet.                 *)
PassRank == Cardinality(devs) * (Cardinality(Devices) + 1) + Cardinality(unread)

(* While the routine is in check_need_to_re_assign, each of its own steps  *)
(* leaves the loop or lowers the rank, a natural number, and every other   *)
(* thread's step leaves it where it is, however it changes the loads.      *)
PassesShrink ==
  [][pc = "check" =>
       /\ PassRank \in Nat
       /\ Routine => pc' # "check" \/ PassRank' < PassRank
       /\ ~ Routine => UNCHANGED <<pc, locals>>]_vars

LEMMA RankCounted ==
  ASSUME NEW D, NEW U, U \subseteq D, D \subseteq Devices
  PROVE  /\ Cardinality(D) \in Nat /\ Cardinality(U) \in Nat
         /\ Cardinality(Devices) \in Nat /\ Cardinality(U) <= Cardinality(Devices)
         /\ Cardinality(D) * (Cardinality(Devices) + 1) \in Nat
<1>1. /\ Cardinality(D) \in Nat /\ Cardinality(U) \in Nat
      /\ Cardinality(Devices) \in Nat /\ IsFiniteSet(Devices)
  BY DeviceSetsCounted
<1>2. Cardinality(U) <= Cardinality(Devices)
  BY <1>1, FS_Subset
<1> QED BY <1>1, <1>2

(* A turn of the loop looks at one device.                                 *)
LEMMA ReadLowersRank ==
  ASSUME TypeOK, NEW d \in Devices, ReadLoad(d)
  PROVE  PassRank' < PassRank
<1>1. /\ d \in unread /\ unread' = unread \ {d} /\ devs' = devs
      /\ unread \subseteq devs /\ devs \subseteq Devices
  BY DEF ReadLoad, TypeOK
<1>2. IsFiniteSet(unread)
  BY <1>1, DeviceSetsCounted
<1>3. Cardinality(unread') = Cardinality(unread) - 1
  BY <1>1, <1>2, FS_RemoveElement
<1>4. /\ Cardinality(unread) \in Nat
      /\ Cardinality(devs) * (Cardinality(Devices) + 1) \in Nat
  BY <1>1, RankCounted
<1> QED BY <1>1, <1>3, <1>4 DEF PassRank

(* A new pass has a device less.                                           *)
LEMMA EndPassLowersRank ==
  ASSUME TypeOK, EndPass, pc' = "check"
  PROVE  PassRank' < PassRank
<1> DEFINE n == Cardinality(Devices)
           m == Cardinality(devs)
           k == Cardinality(Kept)
<1>1. /\ unread = {} /\ Kept # devs /\ devs' = Kept /\ unread' = Kept
      /\ Kept \subseteq devs /\ devs \subseteq Devices
  BY DEF EndPass, BeginCheck, Kept, TypeOK
<1>2. n \in Nat /\ m \in Nat /\ k \in Nat /\ k <= n
  <2>1. Kept \subseteq Kept /\ Kept \subseteq Devices
    BY <1>1
  <2> QED BY <1>1, <2>1, RankCounted
<1>3. k < m
  <2>1. IsFiniteSet(devs)
    BY <1>1, DeviceSetsCounted
  <2> QED BY <1>1, <1>2, <2>1, FS_Subset
<1>4. Cardinality(unread) = 0
  BY <1>1, FS_EmptySet
<1>5. PassRank = m * (n + 1)
  BY <1>2, <1>4 DEF PassRank
<1>6. PassRank' = k * (n + 1) + k
  BY <1>1 DEF PassRank
<1> HIDE DEF n, m, k
<1>7. k * (n + 1) + k < (k + 1) * (n + 1)
  BY <1>2
<1>8. (k + 1) * (n + 1) <= m * (n + 1)
  BY <1>2, <1>3
<1>9. /\ k * (n + 1) + k \in Nat /\ (k + 1) * (n + 1) \in Nat /\ m * (n + 1) \in Nat
  BY <1>2
<1> QED BY <1>5, <1>6, <1>7, <1>8, <1>9

(* The passes cannot go on for ever: every step of the loop lowers a       *)
(* number that the other threads leave alone, for any number of devices.   *)
THEOREM PassesShrinkAlways == Spec => PassesShrink
<1>1. TypeOK /\ [Next]_vars =>
        [pc = "check" =>
           /\ PassRank \in Nat
           /\ Routine => pc' # "check" \/ PassRank' < PassRank
           /\ ~ Routine => UNCHANGED <<pc, locals>>]_vars
  <2> SUFFICES ASSUME TypeOK, Next, pc = "check"
               PROVE  /\ PassRank \in Nat
                      /\ Routine => pc' # "check" \/ PassRank' < PassRank
                      /\ ~ Routine => UNCHANGED <<pc, locals>>
    OBVIOUS
  <2>1. PassRank \in Nat
    <3>1. /\ Cardinality(unread) \in Nat
          /\ Cardinality(devs) * (Cardinality(Devices) + 1) \in Nat
      BY RankCounted DEF TypeOK
    <3> QED BY <3>1 DEF PassRank
  <2>2. ASSUME Routine, pc' = "check" PROVE PassRank' < PassRank
    <3>1. EndPass \/ \E d \in Devices : ReadLoad(d)
      BY <2>2 DEF Routine, CountAll, GetNeed, GetDevices, EndHandOut, Again, HandOut
    <3> QED BY <2>2, <3>1, ReadLowersRank, EndPassLowersRank
  <2>3. ASSUME ~ Routine PROVE UNCHANGED <<pc, locals>>
    BY <2>3 DEF Next, Others, Fetch, Complete, GoOnline, GoOffline, Move, ReportedBy
  <2> QED BY <2>1, <2>2, <2>3
<1> QED BY <1>1, TypeCorrect, PTL DEF Spec, PassesShrink
=============================================================================
