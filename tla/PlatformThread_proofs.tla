----------------------- MODULE PlatformThread_proofs ------------------------
(***************************************************************************)
(* PlatformThread for any configurations, intervals and bounds: type       *)
(* correctness, and what the table and the windows say of the progress.    *)
(***************************************************************************)
EXTENDS PlatformThread, TLAPS

-----------------------------------------------------------------------------
(* Type correctness.                                                       *)

LEMMA SetStatusType ==
  ASSUME NEW s \in 0 .. 8, NEW l \in Nat, SetStatus(s, l)
  PROVE  /\ status' \in 0 .. 8 /\ last' \in Nat
         /\ saved' \in [status : 0 .. 8, last : Nat]
BY DEF SetStatus

(* A manual window ends in a natural number, not beyond the plan's end.    *)
LEMMA WindowType ==
  ASSUME TypeOK
  PROVE  /\ ManualWindow.from = last
         /\ ManualWindow.to \in Nat
         /\ ManualWindow \in [from : Int, to : Nat]
         /\ plan.end > 0 => ManualWindow.to <= plan.end
BY PlansAreConfigurations, IntervalsArePositive DEF TypeOK, ManualWindow, Window, Least

LEMMA FetchType ==
  ASSUME TypeOK, NEW l \in Nat, NEW w \in [from : Int, to : Nat], Fetch(w, l)
  PROVE  TypeOK'
<1>1. status' \in 0 .. 8 /\ last' \in Nat /\ saved' \in [status : 0 .. 8, last : Nat]
  BY SetStatusType DEF Fetch
<1>2. Moments(w) \subseteq Int
  BY DEF Moments
<1> QED BY <1>1, <1>2 DEF Fetch, TypeOK

LEMMA TypeInit == Init => TypeOK
BY TimesAreNaturals DEF Init, TypeOK, Window

LEMMA TypeNext == TypeOK /\ [Next]_vars => TypeOK'
<1> SUFFICES ASSUME TypeOK, [Next]_vars PROVE TypeOK'
  OBVIOUS
<1>1. CASE StartThread
  BY <1>1 DEF StartThread, TypeOK, row, rest, Window
<1>2. CASE Pass
  <2>1. plan' \in Plans
    BY <1>2 DEF Pass, TypeOK
  <2>2. plan'.begin \in Nat
    BY <2>1, PlansAreConfigurations
  <2>3. \/ UNCHANGED <<status, last, saved>>
        \/ SetStatus(1, plan'.begin)
        \/ SetStatus(1, last)
    BY <1>2 DEF Pass, FirstPass, LaterPass, Unchanged
  <2>4. status' \in 0 .. 8 /\ last' \in Nat /\ saved' \in [status : 0 .. 8, last : Nat]
    BY <2>2, <2>3, SetStatusType DEF TypeOK
  <2>5. lastRun' \in Nat /\ runTime' \in Nat /\ pc' = "work"
    BY <1>2 DEF Pass, TypeOK
  <2> QED BY <1>2, <2>1, <2>4, <2>5 DEF Pass, TypeOK, rest
<1>3. CASE Overtaken \/ NoWork
  BY <1>3 DEF Overtaken, NoWork, TypeOK, row, rest
<1>4. CASE BeginFetch \/ FetchAgain
  <2>1. PICK w \in [from : Int, to : Nat], l \in Nat : Fetch(w, l)
    <3>1. CASE Fetch(ManualWindow, ManualWindow.to) \/ Fetch(ManualWindow, last)
      BY <3>1, WindowType DEF TypeOK
    <3>2. ASSUME NEW l \in Nat, Fetch(AutoWindow(l), l)
          PROVE  \E w \in [from : Int, to : Nat], i \in Nat : Fetch(w, i)
      <4>1. AutoWindow(l) \in [from : Int, to : Nat]
        BY IntervalsArePositive DEF AutoWindow, Window
      <4> QED BY <3>2, <4>1
    <3>3. last \in Nat /\ runTime \in Nat
      BY DEF TypeOK
    <3> QED BY <1>4, <3>1, <3>2, <3>3 DEF BeginFetch, FetchAgain
  <2> QED BY <2>1, FetchType
<1>5. CASE FetchFails \/ FetchSucceeds
  <2>1. status' \in 0 .. 8 /\ last' \in Nat /\ saved' \in [status : 0 .. 8, last : Nat]
    BY <1>5, SetStatusType DEF FetchFails, FetchSucceeds, TypeOK
  <2>2. CASE FetchFails
    BY <2>1, <2>2 DEF FetchFails, TypeOK, rest
  <2>3. CASE FetchSucceeds
    <3>1. covered' \subseteq tried
      BY <2>3 DEF FetchSucceeds, TypeOK
    <3> QED BY <2>1, <2>3, <3>1 DEF FetchSucceeds, TypeOK
  <2> QED BY <1>5, <2>2, <2>3
<1>6. CASE BeginAssign \/ AssignReturns
  <2>1. status' \in 0 .. 8 /\ last' \in Nat /\ saved' \in [status : 0 .. 8, last : Nat]
    BY <1>6, SetStatusType DEF BeginAssign, AssignReturns, TypeOK
  <2> QED BY <1>6, <2>1 DEF BeginAssign, AssignReturns, TypeOK, rest
<1>7. CASE EndPass
  <2>1. status' \in 0 .. 8 /\ last' \in Nat /\ saved' \in [status : 0 .. 8, last : Nat]
    BY <1>7, SetStatusType DEF EndPass, Unchanged, TypeOK
  <2> QED BY <1>7, <2>1 DEF EndPass, TypeOK, rest
<1>8. CASE Tick \/ Crash \/ \E c \in Plans : Reconfigure(c)
  <2>1. CASE Tick
    BY <2>1 DEF Tick, TypeOK, row, thread
  <2>2. CASE Crash
    BY <2>2 DEF Crash, TypeOK, row
  <2>3. CASE \E c \in Plans : Reconfigure(c)
    BY <2>3 DEF Reconfigure, TypeOK, thread
  <2> QED BY <1>8, <2>1, <2>2, <2>3
<1>9. CASE UNCHANGED vars
  BY <1>9 DEF vars, row, thread, rest, TypeOK, Moments
<1> QED
  BY <1>1, <1>2, <1>3, <1>4, <1>5, <1>6, <1>7, <1>8, <1>9 DEF Next, Loop

(* Every reachable state has its type, for any plans and intervals.        *)
THEOREM TypeCorrect == Spec => []TypeOK
BY TypeInit, TypeNext, PTL DEF Spec

-----------------------------------------------------------------------------
(* What the table says of the thread.                                      *)

(* What a step does to status and progress, seen from the table.           *)
LEMMA Saves ==
  ASSUME TypeOK, StatusIsSaved, NEW s, NEW l, SetStatus(s, l)
  PROVE  StatusIsSaved'
BY DEF SetStatus, StatusIsSaved

LEMMA SavedNext == TypeOK /\ StatusIsSaved /\ [Next]_vars => StatusIsSaved'
<1> SUFFICES ASSUME TypeOK, StatusIsSaved, [Next]_vars PROVE StatusIsSaved'
  OBVIOUS
<1>1. CASE StartThread
  BY <1>1 DEF StartThread, StatusIsSaved, row
<1>2. CASE Pass
  <2>1. \/ UNCHANGED <<status, last, saved>>
        \/ \E l : SetStatus(1, l)
    BY <1>2 DEF Pass, FirstPass, LaterPass, Unchanged
  <2>2. pc # "down"
    BY <1>2 DEF Pass
  <2> QED BY <2>1, <2>2, Saves DEF StatusIsSaved
<1>3. CASE Overtaken
  BY <1>3 DEF Overtaken, StatusIsSaved, TypeOK, row
<1>4. CASE BeginFetch \/ FetchAgain \/ FetchFails \/ FetchSucceeds \/ BeginAssign \/ AssignReturns
  <2>1. \E s, l : SetStatus(s, l)
    BY <1>4 DEF BeginFetch, FetchAgain, Fetch, FetchFails, FetchSucceeds, BeginAssign, AssignReturns
  <2> QED BY <2>1, Saves
<1>5. CASE EndPass
  BY <1>5, Saves DEF EndPass, Unchanged, StatusIsSaved
<1>6. CASE NoWork \/ Tick \/ Crash \/ \E c \in Plans : Reconfigure(c)
  BY <1>6 DEF NoWork, Tick, Crash, Reconfigure, row, thread, StatusIsSaved
<1>7. CASE UNCHANGED vars
  BY <1>7 DEF vars, row, thread, StatusIsSaved
<1> QED BY <1>1, <1>2, <1>3, <1>4, <1>5, <1>6, <1>7 DEF Next, Loop

LEMMA SavedInit == Init => StatusIsSaved
BY DEF Init, StatusIsSaved

(* A restart always finds in the table the status the thread was in.       *)
THEOREM TableHasStatus == Spec => []StatusIsSaved
BY TypeInit, TypeNext, SavedInit, SavedNext, PTL DEF Spec

-----------------------------------------------------------------------------
(* What the windows say of a manual plan.  As long as the configuration    *)
(* has not been changed the thread has it as its plan, and then every      *)
(* window begins at the progress, ends within the plan, and the progress   *)
(* in the table is never ahead of the windows.                             *)

PlanIsConfig == changes = 0 => plan = config

ProgressInv ==
  /\ TypeOK /\ StatusIsSaved
  /\ PlanIsConfig
  /\ NothingPassedOver /\ StopsAtEnd

LEMMA PlanNext == PlanIsConfig /\ TypeOK /\ [Next]_vars => PlanIsConfig'
BY DEF PlanIsConfig, TypeOK, Next, Loop, vars, row, thread, rest, StartThread, Pass, Overtaken,
       BeginFetch, FetchAgain, Fetch, FetchFails, FetchSucceeds, BeginAssign, AssignReturns,
       NoWork, EndPass, Tick, Crash, Reconfigure

(* A fetch in a manual plan that has not been changed.                     *)
LEMMA ManualFetch ==
  ASSUME ProgressInv, pc # "down", NEW l \in {last, ManualWindow.to}, Fetch(ManualWindow, l)
  PROVE  NothingPassedOver' /\ StopsAtEnd'
<1> USE DEF ProgressInv
<1>1. SUFFICES ASSUME changes = 0, config.mode = 1
               PROVE  /\ \A x \in config.begin .. l - 1 : x \in tried \cup Moments(ManualWindow)
                      /\ HasEnd => \A x \in tried \cup Moments(ManualWindow) : x < config.end
  BY DEF NothingPassedOver, StopsAtEnd, HasEnd, Fetch, SetStatus
<1>2. plan = config /\ config \in [mode : {0, 1}, begin : Nat, end : Nat]
  BY <1>1, PlansAreConfigurations DEF PlanIsConfig, TypeOK
<1>3. last \in Nat /\ saved.last \in Nat /\ last <= saved.last
  BY DEF TypeOK, StatusIsSaved
<1>4. \A x \in config.begin .. last - 1 : x \in tried
  BY <1>1, <1>2, <1>3 DEF NothingPassedOver
<1>5. \A x \in last .. ManualWindow.to - 1 : x \in Moments(ManualWindow)
  BY WindowType DEF Moments
<1>6. \A x \in config.begin .. l - 1 : x \in tried \cup Moments(ManualWindow)
  BY <1>2, <1>3, <1>4, <1>5, WindowType
<1>7. ASSUME HasEnd
      PROVE  \A x \in tried \cup Moments(ManualWindow) : x < config.end
  <2>1. ManualWindow.to <= config.end
    BY <1>2, <1>7, WindowType DEF HasEnd
  <2>2. \A x \in Moments(ManualWindow) : x < config.end
    BY <1>2, <1>3, <2>1, WindowType DEF Moments
  <2> QED BY <1>1, <1>7, <2>2 DEF StopsAtEnd
<1> QED BY <1>6, <1>7

LEMMA ProgressNext == ProgressInv /\ [Next]_vars => ProgressInv'
<1> SUFFICES ASSUME ProgressInv, [Next]_vars PROVE ProgressInv'
  OBVIOUS
<1>1. TypeOK' /\ StatusIsSaved' /\ PlanIsConfig'
  BY TypeNext, SavedNext, PlanNext DEF ProgressInv
<1>2. SUFFICES NothingPassedOver' /\ StopsAtEnd'
  BY <1>1 DEF ProgressInv
<1> USE DEF ProgressInv
<1>3. pc # "down" => last \in Nat /\ saved.last \in Nat /\ last <= saved.last
  BY DEF TypeOK, StatusIsSaved
<1>4. ASSUME UNCHANGED <<config, tried, changes>>, saved'.last \in Nat,
             saved'.last <= saved.last \/ saved'.last = config.begin
      PROVE  NothingPassedOver' /\ StopsAtEnd'
  <2>1. config.begin \in Nat /\ saved.last \in Nat
    BY PlansAreConfigurations DEF TypeOK
  <2> QED BY <1>4, <2>1 DEF NothingPassedOver, StopsAtEnd, HasEnd
<1>5. CASE BeginFetch \/ FetchAgain
  <2>1. CASE \E l \in {last, ManualWindow.to} : Fetch(ManualWindow, l)
    <3>1. pc # "down"
      BY <1>5 DEF BeginFetch, FetchAgain
    <3> QED BY <2>1, <3>1, ManualFetch
  <2>2. CASE ~Manual(plan)
    <3>1. changes' = changes /\ config' = config
      BY <1>5 DEF BeginFetch, FetchAgain, Fetch
    <3>2. ~(changes = 0 /\ config.mode = 1)
      BY <2>2 DEF PlanIsConfig, Manual
    <3> QED BY <3>1, <3>2 DEF NothingPassedOver, StopsAtEnd, HasEnd
  <2> QED BY <1>5, <2>1, <2>2 DEF BeginFetch, FetchAgain
<1>6. CASE Pass
  <2>1. UNCHANGED <<config, tried, changes>> /\ pc # "down"
    BY <1>6 DEF Pass, rest
  <2>2. CASE changes = 0
    <3>1. plan' = config
      BY <1>6, <2>2 DEF Pass, PlanIsConfig
    <3>2. \/ UNCHANGED <<status, last, saved>>
          \/ SetStatus(1, plan'.begin)
          \/ SetStatus(1, last)
      BY <1>6 DEF Pass, FirstPass, LaterPass, Unchanged
    <3>3. saved'.last <= saved.last \/ saved'.last = config.begin
      BY <1>3, <2>1, <3>1, <3>2 DEF SetStatus
    <3> QED BY <1>1, <1>4, <2>1, <3>3 DEF TypeOK
  <2>3. CASE changes # 0
    BY <2>1, <2>3 DEF NothingPassedOver, StopsAtEnd
  <2> QED BY <2>2, <2>3
<1>7. CASE FetchFails \/ FetchSucceeds \/ BeginAssign \/ AssignReturns \/ EndPass
  <2>1. UNCHANGED <<config, tried, changes>> /\ pc # "down"
    BY <1>7 DEF FetchFails, FetchSucceeds, BeginAssign, AssignReturns, EndPass, rest
  <2>2. saved'.last = last \/ saved' = saved
    BY <1>7 DEF FetchFails, FetchSucceeds, BeginAssign, AssignReturns, EndPass, SetStatus, Unchanged
  <2> QED BY <1>1, <1>3, <1>4, <2>1, <2>2 DEF TypeOK
<1>8. CASE StartThread \/ Overtaken \/ NoWork \/ Tick \/ Crash
  <2>1. UNCHANGED <<config, saved, tried, changes>>
    BY <1>8 DEF StartThread, Overtaken, NoWork, Tick, Crash, row, rest
  <2> QED BY <2>1 DEF NothingPassedOver, StopsAtEnd, HasEnd
<1>9. CASE \E c \in Plans : Reconfigure(c)
  <2>1. changes' # 0
    BY <1>9 DEF Reconfigure, TypeOK
  <2> QED BY <2>1 DEF NothingPassedOver, StopsAtEnd
<1>10. CASE UNCHANGED vars
  BY <1>10 DEF vars, row, rest, NothingPassedOver, StopsAtEnd, HasEnd
<1> QED
  BY <1>5, <1>6, <1>7, <1>8, <1>9, <1>10 DEF Next, Loop

LEMMA ProgressInit == Init => ProgressInv
<1> SUFFICES ASSUME Init PROVE ProgressInv
  OBVIOUS
<1>1. config.begin \in Nat /\ saved.last = 0
  BY PlansAreConfigurations DEF Init
<1>2. NothingPassedOver
  BY <1>1 DEF NothingPassedOver
<1>3. StopsAtEnd /\ PlanIsConfig
  BY DEF Init, StopsAtEnd, PlanIsConfig
<1> QED BY <1>2, <1>3, TypeInit, SavedInit DEF ProgressInv

(* No moment of a manual plan up to the progress in the table is without a *)
(* fetch that was begun for it.                                            *)
THEOREM ManualWindows == Spec => []NothingPassedOver
<1>1. ProgressInv => NothingPassedOver
  BY DEF ProgressInv
<1> QED BY <1>1, ProgressInit, ProgressNext, PTL DEF Spec

(* No window of a manual plan reaches beyond the end of the plan, neither  *)
(* the first try nor a retry.                                              *)
THEOREM WindowsStopAtEnd == Spec => []StopsAtEnd
<1>1. ProgressInv => StopsAtEnd
  BY DEF ProgressInv
<1> QED BY <1>1, ProgressInit, ProgressNext, PTL DEF Spec

-----------------------------------------------------------------------------
(* When the progress in the table goes back.  It is ahead of the thread's  *)
(* only after the clock was overtaken, and then by no more than a window,  *)
(* or at the begin of a plan that has not begun; so the next window ends   *)
(* no earlier than the last.                                               *)

InPass == pc \in {"work", "fetch", "assign", "check"}

Times ==
  /\ clock > 0 /\ runTime <= clock
  /\ InPass => runTime > 0 /\ lastRun > 0
  /\ pc = "top" /\ lastRun # 0 => runTime > 0

Together ==
  /\ pc = "top" /\ lastRun = 0 => last = saved.last
  /\ pc \in {"fetch", "assign"} => last = saved.last /\ status # 1
  /\ pc # "down" /\ last # saved.last => last <= runTime
  /\ pc # "down" /\ last = 0 => saved.last = 0

AtBegin  == config.mode = 1 /\ saved.last = config.begin
Reach(t) == AtBegin \/ saved.last <= t + (IF HasEnd THEN GetInterval ELSE 0)
Ahead ==
  /\ Reach(clock)
  /\ InPass => Reach(runTime)
  /\ pc # "down" => AtBegin \/ saved.last <= last + GetInterval
  /\ HasEnd => (AtBegin /\ saved.status = 1) \/ saved.last <= config.end

KeptInv == TypeOK /\ StatusIsSaved /\ PlanIsConfig /\ Times /\ Together /\ (changes = 0 => Ahead)

LEMMA TimesNext == TypeOK /\ Times /\ [Next]_vars => Times'
BY TimesAreNaturals
DEF TypeOK, Times, InPass, Next, Loop, vars, row, thread, rest, StartThread, Pass, Overtaken,
    BeginFetch, FetchAgain, Fetch, FetchFails, FetchSucceeds, BeginAssign, AssignReturns,
    NoWork, EndPass, Tick, Crash, Reconfigure

LEMMA TogetherNext ==
  TypeOK /\ StatusIsSaved /\ Times /\ Together /\ [Next]_vars => Together'
<1> SUFFICES ASSUME TypeOK, StatusIsSaved, Times, Together, [Next]_vars PROVE Together'
  OBVIOUS
<1> USE DEF Together
<1>1. CASE StartThread
  BY <1>1 DEF StartThread, row
<1>2. CASE Pass
  <2>1. lastRun' # 0 /\ pc' = "work" /\ pc # "down"
    BY <1>2 DEF Pass, Times, TypeOK
  <2>2. UNCHANGED <<last, saved>> \/ saved'.last = last'
    BY <1>2 DEF Pass, FirstPass, LaterPass, Unchanged, SetStatus
  <2>3. runTime \in Nat /\ runTime' \in Nat /\ last \in Nat /\ runTime <= runTime'
    BY <1>2 DEF Pass, Times, TypeOK
  <2> QED BY <2>1, <2>2, <2>3
<1>3. CASE Overtaken
  BY <1>3 DEF Overtaken, Times, InPass, TypeOK
<1>4. CASE BeginFetch \/ FetchAgain \/ FetchFails \/ FetchSucceeds \/ BeginAssign \/ AssignReturns
  BY <1>4 DEF BeginFetch, FetchAgain, Fetch, FetchFails, FetchSucceeds, BeginAssign, AssignReturns,
              SetStatus
<1>5. CASE EndPass
  BY <1>5 DEF EndPass, SetStatus, Unchanged, Times, InPass, TypeOK
<1>6. CASE NoWork \/ Tick \/ Crash \/ \E c \in Plans : Reconfigure(c)
  BY <1>6 DEF NoWork, Tick, Crash, Reconfigure, row, thread
<1>7. CASE UNCHANGED vars
  BY <1>7 DEF vars, row, thread
<1> QED BY <1>1, <1>2, <1>3, <1>4, <1>5, <1>6, <1>7 DEF Next, Loop

LEMMA AddNat == \A a, b, g \in Nat : a <= b => a <= b + g
OBVIOUS

(* A step that writes the progress of the thread to the table.             *)
LEMMA AheadSaved ==
  ASSUME KeptInv, Ahead, pc # "down", UNCHANGED <<config, clock, last>>, runTime' \in Nat,
         saved'.last = last,
         saved.status # 1 \/ (last = saved.last /\ saved'.status = 1),
         InPass' => (InPass /\ runTime <= runTime') \/ runTime' = clock
  PROVE  Ahead'
<1>1. /\ last \in Nat /\ saved.last \in Nat /\ last <= saved.last /\ runTime \in Nat
      /\ clock \in Nat /\ runTime <= clock /\ (last # saved.last => last <= runTime)
  BY DEF KeptInv, TypeOK, StatusIsSaved, Times, Together
<1>2. config.begin \in Nat /\ config.end \in Nat /\ GetInterval \in Nat \ {0}
  BY PlansAreConfigurations, IntervalsArePositive DEF KeptInv, TypeOK
<1>3. HasEnd' = HasEnd
  BY DEF HasEnd
<1>4. Reach(clock)'
  BY <1>1, <1>2, <1>3 DEF Ahead, Reach, AtBegin
<1>5. ASSUME InPass' PROVE Reach(runTime)'
  <2>1. runTime' \in Nat /\ runTime <= runTime'
    BY <1>1, <1>5
  <2>2. Reach(runTime')
    BY <1>1, <1>2, <1>5, <2>1 DEF Ahead, Reach
  <2>3. CASE last # saved.last
    <3>1. last <= runTime'
      BY <1>1, <2>1, <2>3
    <3>2. GetInterval \in Nat /\ last \in Nat /\ runTime' \in Nat
      BY <1>1, <1>2
    <3>3. last <= runTime' + GetInterval /\ last <= runTime' + 0
      BY <3>1, <3>2, AddNat
    <3>4. saved'.last <= runTime' + (IF HasEnd' THEN GetInterval ELSE 0)
      BY ONLY <3>3, saved'.last = last
    <3> QED BY <3>4 DEF Reach
  <2>4. CASE last = saved.last
    <3>1. AtBegin' = AtBegin /\ saved'.last = saved.last
      BY <2>4 DEF AtBegin
    <3> QED BY <1>3, <2>2, <3>1 DEF Reach
  <2> QED BY <2>3, <2>4
<1>6. saved'.last <= last' + GetInterval
  BY <1>1, <1>2
<1>7. HasEnd' => (AtBegin' /\ saved'.status = 1) \/ saved'.last <= config'.end
  BY <1>1, <1>2, <1>3 DEF Ahead, AtBegin
<1> QED BY <1>4, <1>5, <1>6, <1>7 DEF Ahead

(* A step that leaves the table alone.                                     *)
LEMMA AheadUnsaved ==
  ASSUME KeptInv, Ahead, UNCHANGED row, clock' \in Nat, clock <= clock', runTime' \in Nat,
         InPass' => (InPass /\ runTime <= runTime') \/ runTime' = clock,
         pc' # "down" => \/ pc # "down" /\ last' = last
                         \/ last' = saved.last
                         \/ InPass /\ last' = runTime
  PROVE  Ahead'
<1>1. last \in Nat /\ saved.last \in Nat /\ runTime \in Nat /\ clock \in Nat
  BY DEF KeptInv, TypeOK
<1>2. config.begin \in Nat /\ config.end \in Nat /\ GetInterval \in Nat \ {0}
  BY PlansAreConfigurations, IntervalsArePositive DEF KeptInv, TypeOK
<1>3. HasEnd' = HasEnd /\ AtBegin' = AtBegin /\ saved' = saved
  BY DEF HasEnd, AtBegin, row
<1>4. Reach(clock)'
  BY <1>1, <1>2, <1>3 DEF Ahead, Reach
<1>5. InPass' => Reach(runTime)'
  BY <1>1, <1>2, <1>3 DEF Ahead, Reach
<1>6. pc' # "down" => AtBegin \/ saved.last <= last' + GetInterval
  BY <1>1, <1>2 DEF Ahead, Reach
<1>7. HasEnd' => (AtBegin' /\ saved'.status = 1) \/ saved'.last <= config'.end
  BY <1>3 DEF Ahead, row
<1> QED BY <1>3, <1>4, <1>5, <1>6, <1>7 DEF Ahead

(* A first fetch of a window: the progress does not go back, but from the  *)
(* begin of the plan.                                                      *)
LEMMA FetchAdvances ==
  ASSUME KeptInv, changes = 0, Ahead, BeginFetch
  PROVE  Ahead' /\ (saved'.last < saved.last => saved.last = config.begin)
<1>1. /\ last \in Nat /\ saved.last \in Nat /\ last <= saved.last /\ runTime \in Nat
      /\ clock \in Nat /\ runTime <= clock /\ Reach(runTime) /\ InPass
      /\ AtBegin \/ saved.last <= last + GetInterval
  BY DEF KeptInv, TypeOK, StatusIsSaved, Times, BeginFetch, InPass, Ahead
<1>2. /\ config \in [mode : {0, 1}, begin : Nat, end : Nat] /\ plan = config
      /\ GetInterval \in Nat \ {0}
  BY PlansAreConfigurations, IntervalsArePositive DEF KeptInv, TypeOK, PlanIsConfig
<1>3. /\ UNCHANGED <<config, runTime, clock>> /\ saved'.last = last'
      /\ saved'.last = IF config.mode = 1 THEN ManualWindow.to ELSE runTime
  BY <1>2 DEF BeginFetch, Fetch, SetStatus, Manual
<1>4. CASE config.mode = 1
  <2>1. CASE config.end > 0
    <3>1. /\ saved'.last \in Nat /\ saved'.last <= config.end
          /\ saved'.last = IF last + GetInterval <= config.end THEN last + GetInterval ELSE config.end
      BY <1>1, <1>2, <1>3, <1>4, <2>1 DEF ManualWindow, Window, Least
    <3>2. saved'.last <= runTime + GetInterval
      BY <1>1, <1>2, <1>4, <3>1 DEF BeginFetch, Manual
    <3>3. HasEnd /\ HasEnd'
      BY <1>3, <1>4, <2>1 DEF HasEnd
    <3>4. Ahead'
      BY <1>1, <1>2, <1>3, <3>1, <3>2, <3>3 DEF Ahead, Reach
    <3>5. AtBegin \/ saved.last <= config.end
      BY <3>3 DEF Ahead
    <3> QED BY <1>1, <1>2, <1>4, <3>1, <3>4, <3>5 DEF AtBegin
  <2>2. CASE ~(config.end > 0)
    <3>1. /\ saved'.last \in Nat /\ saved'.last <= runTime
          /\ saved'.last = IF last + GetInterval <= runTime THEN last + GetInterval ELSE runTime
      BY <1>1, <1>2, <1>3, <1>4, <2>2 DEF ManualWindow, Window, Least
    <3>2. ~HasEnd /\ ~HasEnd'
      BY <1>3, <2>2 DEF HasEnd
    <3>3. Ahead'
      BY <1>1, <1>2, <1>3, <3>1, <3>2 DEF Ahead, Reach
    <3>4. AtBegin \/ saved.last <= runTime
      BY <1>1, <3>2 DEF Reach
    <3> QED BY <1>1, <1>2, <1>4, <3>1, <3>3, <3>4 DEF AtBegin
  <2> QED BY <2>1, <2>2
<1>5. CASE config.mode # 1
  <2>1. ~HasEnd /\ ~HasEnd' /\ ~AtBegin
    BY <1>3, <1>5 DEF HasEnd, AtBegin
  <2>2. saved.last <= runTime /\ saved'.last = runTime
    BY <1>1, <1>3, <1>5, <2>1 DEF Reach
  <2>3. Ahead'
    BY <1>1, <1>2, <1>3, <2>1, <2>2 DEF Ahead, Reach
  <2> QED BY <1>1, <2>2, <2>3
<1> QED BY <1>4, <1>5

KeptStep == saved'.last < saved.last => status = 3 \/ saved.last = config.begin

LEMMA AheadNext ==
  ASSUME KeptInv, [Next]_vars, changes = 0, changes' = 0
  PROVE  Ahead' /\ KeptStep
<1> USE DEF KeptStep
<1>1. Ahead /\ TypeOK /\ StatusIsSaved /\ Times /\ Together /\ plan = config
  BY DEF KeptInv, PlanIsConfig
<1>2. last \in Nat /\ saved.last \in Nat /\ runTime \in Nat /\ clock \in Nat /\ runTime <= clock
  BY <1>1 DEF TypeOK, Times
<1>3. pc # "down" => saved.status = status /\ last <= saved.last
  BY <1>1, <1>2 DEF StatusIsSaved
<1>4. runTime' \in Nat /\ clock' \in Nat
  BY TypeNext, <1>1 DEF TypeOK
<1>5. CASE BeginFetch
  BY <1>1, <1>5, FetchAdvances
<1>6. CASE FetchAgain
  <2>1. pc = "work" /\ pc' = "fetch" /\ status = 3 /\ UNCHANGED <<config, runTime, clock>>
    BY <1>6 DEF FetchAgain, Fetch
  <2>2. last' = last /\ saved'.last = last
    BY <1>6 DEF FetchAgain, Fetch, SetStatus
  <2>3. Ahead'
    BY <1>1, <1>2, <1>3, <1>4, <2>1, <2>2, AheadSaved DEF InPass
  <2> QED BY <2>1, <2>3
<1>7. CASE FetchFails \/ FetchSucceeds \/ BeginAssign \/ AssignReturns
  <2>1. /\ pc # "down" /\ UNCHANGED <<config, clock, last>> /\ saved'.last = last
        /\ InPass
    BY <1>7 DEF FetchFails, FetchSucceeds, BeginAssign, AssignReturns, SetStatus, rest, InPass
  <2>2. runTime <= runTime'
    BY <1>2, <1>7 DEF FetchFails, FetchSucceeds, BeginAssign, AssignReturns
  <2>3. status # 1 /\ last = saved.last
    <3>1. CASE pc \in {"fetch", "assign"}
      BY <1>1, <3>1 DEF Together
    <3>2. CASE BeginAssign
      <4>1. pc = "work" /\ status \in {4, 6}
        BY <3>2 DEF BeginAssign
      <4>2. last = saved.last
        BY <1>1, <4>1 DEF StatusIsSaved
      <4> QED BY <4>1, <4>2
    <3> QED BY <1>7, <3>1, <3>2 DEF FetchFails, FetchSucceeds, AssignReturns
  <2>4. Ahead'
    BY <1>1, <1>3, <1>4, <2>1, <2>2, <2>3, AheadSaved
  <2> QED BY <1>2, <2>1, <2>3, <2>4
<1>8. CASE EndPass
  <2>1. pc = "check" /\ pc' = "top" /\ UNCHANGED <<config, clock, last, runTime>>
    BY <1>8 DEF EndPass, rest, SetStatus, Unchanged
  <2>2. CASE status \in {0, 3, 7} /\ SetStatus(8, last)
    <3>1. Ahead'
      BY <1>1, <1>3, <1>4, <2>1, <2>2, AheadSaved DEF InPass, SetStatus
    <3>2. status # 3 => last = saved.last
      BY <1>1, <2>1, <2>2 DEF StatusIsSaved
    <3> QED BY <1>2, <2>2, <3>1, <3>2 DEF SetStatus
  <2>3. CASE saved' = saved
    <3>1. Ahead'
      BY <1>1, <1>2, <1>4, <2>1, <2>3, AheadUnsaved DEF InPass, row
    <3> QED BY <1>2, <2>3, <3>1
  <2> QED BY <1>8, <2>2, <2>3 DEF EndPass, Unchanged
<1>9. CASE Pass
  <2>1. /\ pc = "top" /\ pc' = "work" /\ UNCHANGED <<config, clock>> /\ runTime' = clock
        /\ plan' = config
    BY <1>1, <1>9 DEF Pass, rest
  <2>2. CASE UNCHANGED <<status, last, saved>>
    <3>1. Ahead'
      BY <1>1, <1>2, <1>4, <2>1, <2>2, AheadUnsaved DEF row
    <3> QED BY <1>2, <2>2, <3>1
  <2>3. CASE SetStatus(1, last) /\ ~UNCHANGED <<status, last, saved>>
    <3>1. status = 8 \/ lastRun = 0 \/ last = 0
      BY <1>9, <2>3, <2>1 DEF Pass, LaterPass, Unchanged
    <3>2. last = saved.last
      BY <1>1, <2>1, <3>1 DEF StatusIsSaved, Together
    <3>3. Ahead'
      BY <1>1, <1>4, <2>1, <2>3, <3>2, AheadSaved DEF SetStatus
    <3> QED BY <1>2, <2>3, <3>2, <3>3 DEF SetStatus
  <2>4. CASE /\ SetStatus(1, config.begin) /\ config.mode = 1
             /\ ~UNCHANGED <<status, last, saved>> /\ ~SetStatus(1, last)
    <3>1. config \in [mode : {0, 1}, begin : Nat, end : Nat] /\ GetInterval \in Nat
      BY <1>1, PlansAreConfigurations, IntervalsArePositive DEF TypeOK
    <3>2. Ahead'
      BY <2>1, <2>4 DEF Ahead, Reach, AtBegin, SetStatus
    <3>3. saved'.last = config.begin
      BY <2>4 DEF SetStatus
    <3>4. \/ last = 0
          \/ lastRun = 0 /\ OffPlan(config)
      BY <1>9, <2>1, <2>4 DEF Pass, FirstPass, LaterPass, Unchanged
    <3>5. saved.last < config.begin \/ saved.last = 0 \/ (HasEnd /\ saved.last > config.end)
      <4>1. CASE last = 0
        BY <1>1, <2>1, <4>1 DEF Together
      <4>2. CASE lastRun = 0 /\ OffPlan(config)
        <5>1. last = saved.last
          BY <1>1, <2>1, <4>2 DEF Together
        <5> QED BY <1>2, <2>4, <3>1, <4>2, <5>1 DEF OffPlan, InPlan, AtEnd, HasEnd
      <4> QED BY <3>4, <4>1, <4>2
    <3>6. saved.last > config.end /\ HasEnd => saved.last = config.begin
      BY <1>1, <1>2, <3>1 DEF Ahead, AtBegin
    <3> QED BY <1>2, <3>1, <3>2, <3>3, <3>5, <3>6
  <2> QED
    BY <1>9, <2>1, <2>2, <2>3, <2>4 DEF Pass, FirstPass, LaterPass, Unchanged, Manual
<1>10. CASE StartThread \/ Overtaken \/ NoWork \/ Tick \/ Crash \/ UNCHANGED vars
  <2>1. UNCHANGED row /\ clock <= clock'
    BY <1>2, <1>10 DEF StartThread, Overtaken, NoWork, Tick, Crash, vars, row, rest
  <2>2. InPass' => InPass /\ runTime <= runTime'
    BY <1>2, <1>10 DEF StartThread, Overtaken, NoWork, Tick, Crash, vars, thread, InPass
  <2>3. pc' # "down" => \/ pc # "down" /\ last' = last
                        \/ last' = saved.last
                        \/ InPass /\ last' = runTime
    BY <1>10 DEF StartThread, Overtaken, NoWork, Tick, Crash, vars, thread, InPass
  <2>4. Ahead'
    BY <1>1, <1>4, <2>1, <2>2, <2>3, AheadUnsaved
  <2> QED BY <1>2, <2>1, <2>4 DEF row
<1>11. CASE \E c \in Plans : Reconfigure(c)
  BY <1>11 DEF Reconfigure
<1> QED
  BY <1>5, <1>6, <1>7, <1>8, <1>9, <1>10, <1>11 DEF Next, Loop

LEMMA KeptInit == Init => KeptInv
<1> SUFFICES ASSUME Init PROVE KeptInv
  OBVIOUS
<1>1. TypeOK /\ StatusIsSaved
  BY TypeInit, SavedInit
<1>2. PlanIsConfig /\ Times /\ Together
  BY TimesAreNaturals DEF Init, PlanIsConfig, Times, Together, InPass
<1>3. config.end \in Nat /\ GetInterval \in Nat /\ clock \in Nat /\ saved.last = 0
  BY PlansAreConfigurations, IntervalsArePositive, TimesAreNaturals DEF Init
<1>4. Ahead
  BY <1>3 DEF Init, Ahead, Reach, InPass
<1> QED BY <1>1, <1>2, <1>4 DEF KeptInv

LEMMA KeptNext == KeptInv /\ [Next]_vars => KeptInv'
<1> SUFFICES ASSUME KeptInv, [Next]_vars PROVE KeptInv'
  OBVIOUS
<1>1. TypeOK' /\ StatusIsSaved' /\ PlanIsConfig' /\ Times' /\ Together'
  BY TypeNext, SavedNext, PlanNext, TimesNext, TogetherNext DEF KeptInv
<1>2. changes' = 0 => changes = 0
  BY DEF KeptInv, TypeOK, Next, Loop, vars, rest, StartThread, Pass, Overtaken, BeginFetch,
         FetchAgain, Fetch, FetchFails, FetchSucceeds, BeginAssign, AssignReturns, NoWork,
         EndPass, Tick, Crash, Reconfigure
<1>3. changes' = 0 => Ahead'
  BY <1>2, AheadNext
<1> QED BY <1>1, <1>3 DEF KeptInv

(* The progress of a thread whose configuration is not changed goes back   *)
(* in no other way than the two that ProgressIsKept names.                 *)
THEOREM ProgressNotLost == Spec => ProgressIsKept
<1>1. ASSUME KeptInv, [Next]_vars
      PROVE  [changes = 0 /\ saved'.last < saved.last
                => status = 3 \/ saved.last = config.begin]_vars
  <2>1. CASE changes = 0 /\ changes' = 0
    BY <1>1, <2>1, AheadNext DEF KeptStep
  <2>2. CASE changes = 0 /\ changes' # 0
    <3>1. saved' = saved \/ UNCHANGED vars
      BY <1>1, <2>2 DEF Next, Loop, vars, row, rest, StartThread, Pass, Overtaken, BeginFetch,
         FetchAgain, Fetch, FetchFails, FetchSucceeds, BeginAssign, AssignReturns, NoWork,
         EndPass, Tick, Crash, Reconfigure
    <3>2. saved.last \in Nat
      BY <1>1 DEF KeptInv, TypeOK
    <3> QED BY <3>1, <3>2
  <2> QED BY <2>1, <2>2
<1> QED BY <1>1, KeptInit, KeptNext, PTL DEF Spec, ProgressIsKept

-----------------------------------------------------------------------------
(* The thread implements PlanWalk.  Where the thread is in a fetch or in a *)
(* round of assigning, the table says so.                                  *)

AtWork ==
  /\ pc = "fetch" => status = 2
  /\ pc = "assign" => status = 5

WalkInv == KeptInv /\ AtWork

LEMMA AtWorkNext == AtWork /\ [Next]_vars => AtWork'
BY DEF AtWork, Next, Loop, vars, row, thread, rest, StartThread, Pass, Overtaken, BeginFetch,
       FetchAgain, Fetch, SetStatus, FetchFails, FetchSucceeds, BeginAssign, AssignReturns,
       NoWork, EndPass, Tick, Crash, Reconfigure

LEMMA WalkInit == Init => WalkInv
BY KeptInit DEF Init, WalkInv, AtWork

LEMMA WalkKept == WalkInv /\ [Next]_vars => WalkInv'
BY KeptNext, AtWorkNext DEF WalkInv

(* A walk is left for good.                                                *)
LEMMA WalkEnds ==
  ASSUME TypeOK, [Next]_vars
  PROVE  /\ Walking' => Walking
         /\ Walking /\ ~Walking' => /\ \E c \in Plans : Reconfigure(c)
                                    /\ UNCHANGED clock
         /\ Walking' => UNCHANGED config
<1>1. CASE \E c \in Plans : Reconfigure(c)
  <2>1. changes' # 0 /\ UNCHANGED clock
    BY <1>1 DEF Reconfigure, TypeOK
  <2> QED BY <1>1, <2>1 DEF Walking
<1>2. CASE ~\E c \in Plans : Reconfigure(c)
  <2>1. UNCHANGED <<config, changes>>
    BY <1>2 DEF Next, Loop, vars, row, rest, StartThread, Pass, Overtaken, BeginFetch, FetchAgain,
       Fetch, FetchFails, FetchSucceeds, BeginAssign, AssignReturns, NoWork, EndPass, Tick, Crash
  <2> QED BY <2>1 DEF Walking
<1> QED BY <1>1, <1>2

(* A step that turns the status of the row, in a plan that is walked.      *)
Walks == Walking /\ Walking' /\ UNCHANGED <<config, clock>>

LEMMA Turns ==
  ASSUME Walks, NEW from, NEW to, StateOf(saved.status) \in from, StateOf(saved'.status) \in to
  PROVE  Walk!Turn(from, to)
BY DEF Walks, Walk!Turn, Walk!plan

LEMMA BeginsPlan ==
  ASSUME Walks, UNCHANGED tried, saved.status \in 0 .. 8, saved'.status = 1,
         saved.last <= config.begin, saved'.last = config.begin
  PROVE  Walk!Next
<1>1. Walk!Turn({"idle", "due", "asking", "failed", "answered", "assigning", "unsent", "sent",
                 "over"}, {"due"})
  BY Turns DEF StateOf
<1>2. Walk!BeginPlan
  BY <1>1 DEF Walks, Walk!BeginPlan
<1> QED BY <1>2 DEF Walk!Next

LEMMA BeginsRound ==
  ASSUME Walks, UNCHANGED tried, saved.status \in {0, 3, 8}, saved'.status = 1,
         config.begin <= saved.last, config.end > 0 => saved.last < config.end,
         saved'.last = saved.last
  PROVE  Walk!Next
<1>1. Walk!Turn({"idle", "failed", "over"}, {"due"})
  BY Turns DEF StateOf
<1>2. Walk!BeginRound
  BY <1>1 DEF Walks, Walk!BeginRound
<1> QED BY <1>2 DEF Walk!Next

(* The steps that leave progress and windows alone.                        *)
LEMMA TurnsOnly ==
  ASSUME Walks, UNCHANGED tried, saved'.last = saved.last,
         \/ saved.status = 2 /\ saved'.status \in {3, 4}
         \/ saved.status \in {4, 6} /\ saved'.status = 5
         \/ saved.status = 5 /\ saved'.status \in {6, 7}
         \/ saved.status \in {0, 7} /\ saved'.status = 8
  PROVE  Walk!Next
<1>1. CASE saved.status = 2 /\ saved'.status \in {3, 4}
  <2>1. Walk!Turn({"asking"}, {"failed", "answered"})
    BY <1>1, Turns DEF StateOf
  <2>2. Walk!Answered
    BY <2>1 DEF Walks, Walk!Answered
  <2> QED BY <2>2 DEF Walk!Next
<1>2. CASE saved.status \in {4, 6} /\ saved'.status = 5
  <2>1. Walk!Turn({"answered", "unsent"}, {"assigning"})
    BY <1>2, Turns DEF StateOf
  <2>2. Walk!Assign
    BY <2>1 DEF Walks, Walk!Assign
  <2> QED BY <2>2 DEF Walk!Next
<1>3. CASE saved.status = 5 /\ saved'.status \in {6, 7}
  <2>1. Walk!Turn({"assigning"}, {"unsent", "sent"})
    BY <1>3, Turns DEF StateOf
  <2>2. Walk!Assigned
    BY <2>1 DEF Walks, Walk!Assigned
  <2> QED BY <2>2 DEF Walk!Next
<1>4. CASE saved.status \in {0, 7} /\ saved'.status = 8
  <2>1. Walk!Turn({"idle", "sent"}, {"over"})
    BY <1>4, Turns DEF StateOf
  <2>2. Walk!EndRound
    BY <2>1 DEF Walks, Walk!EndRound
  <2> QED BY <2>2 DEF Walk!Next
<1> QED BY <1>1, <1>2, <1>3, <1>4

LEMMA EndsFailed ==
  ASSUME Walks, UNCHANGED tried, saved.status = 3, saved'.status = 8,
         saved'.last \in 0 .. saved.last,
         saved.last <= saved'.last + GetInterval \/ saved.last = config.begin
  PROVE  Walk!Next
<1>1. Walk!Turn({"failed"}, {"over"})
  BY Turns DEF StateOf
<1>2. Walk!EndRound
  BY <1>1 DEF Walks, Walk!EndRound, Walk!Behind
<1> QED BY <1>2 DEF Walk!Next

(* A window from the progress in memory.                                   *)
LEMMA Asks ==
  ASSUME KeptInv, Walks, pc # "down", tried' = tried \cup Moments(ManualWindow)
  PROVE  /\ Walk!Ask(last, ManualWindow.to)
         /\ last \in 0 .. saved.last
         /\ ManualWindow.to \in 0 .. last + GetInterval
<1>1. /\ plan = config /\ config \in [mode : {0, 1}, begin : Nat, end : Nat]
      /\ GetInterval \in Nat \ {0}
  BY PlansAreConfigurations, IntervalsArePositive DEF KeptInv, PlanIsConfig, TypeOK, Walks, Walking
<1>2. /\ last \in Nat /\ saved.last \in Nat /\ last <= saved.last
      /\ runTime \in Nat /\ clock \in Nat /\ runTime <= clock
  BY DEF KeptInv, TypeOK, StatusIsSaved, Times
<1>3. saved.last <= last + GetInterval \/ saved.last = config.begin
  BY DEF KeptInv, Ahead, AtBegin, Walks, Walking
<1>4. ManualWindow.from = last /\ ManualWindow.to \in Nat
  BY WindowType DEF KeptInv
<1>5. /\ ManualWindow.to <= last + GetInterval
      /\ ManualWindow.to <= IF config.end > 0 THEN config.end ELSE clock
  BY <1>1, <1>2 DEF ManualWindow, Window, Least
<1>6. Walk!Ask(last, ManualWindow.to)
  <2>1. Walking /\ Walking'
    BY DEF Walks
  <2>2. tried' = tried \cup last .. ManualWindow.to - 1
    BY <1>4 DEF Moments
  <2> HIDE DEF ManualWindow
  <2> QED BY <1>3, <1>5, <2>1, <2>2 DEF Walk!Ask, Walk!Behind, Walk!Limit
<1> QED BY <1>1, <1>2, <1>4, <1>5, <1>6

LEMMA FetchWalks ==
  ASSUME WalkInv, Walks, BeginFetch \/ FetchAgain
  PROVE  Walk!Next
<1>1. Manual(plan) /\ KeptInv /\ changes = 0 /\ TypeOK /\ StatusIsSaved
  BY DEF WalkInv, KeptInv, PlanIsConfig, Walks, Walking, Manual
<1>2. pc # "down" /\ saved.status = status
  BY <1>1 DEF BeginFetch, FetchAgain, StatusIsSaved
<1>3. CASE BeginFetch
  <2>1. Fetch(ManualWindow, ManualWindow.to) /\ status = 1
    BY <1>1, <1>3 DEF BeginFetch
  <2>2. /\ saved'.status = 2 /\ saved'.last = ManualWindow.to
        /\ tried' = tried \cup Moments(ManualWindow)
    BY <2>1 DEF Fetch, SetStatus
  <2>3. /\ Walk!Ask(last, saved'.last) /\ last \in 0 .. saved.last /\ saved'.last \in Nat
    BY <1>1, <1>2, <2>2, Asks, WindowType
  <2>4. Walk!Turn({"due"}, {"asking"})
    BY <1>2, <2>1, <2>2, Turns DEF StateOf
  <2>5. saved.last <= saved'.last \/ saved.last = config.begin
    BY <1>1, <1>3, <2>3, FetchAdvances DEF KeptInv, TypeOK
  <2>6. Walk!FirstTry
    BY <2>3, <2>4, <2>5 DEF Walk!FirstTry, Walks, Walk!Ask
  <2> QED BY <2>6 DEF Walk!Next
<1>4. CASE FetchAgain
  <2>1. Fetch(ManualWindow, last) /\ status = 3
    BY <1>1, <1>4 DEF FetchAgain
  <2>2. /\ saved'.status = 2 /\ saved'.last = last
        /\ tried' = tried \cup Moments(ManualWindow)
    BY <2>1 DEF Fetch, SetStatus
  <2>3. /\ Walk!Ask(saved'.last, ManualWindow.to) /\ saved'.last \in 0 .. saved.last
        /\ ManualWindow.to \in 0 .. saved'.last + GetInterval
    BY <1>1, <1>2, <2>2, Asks
  <2>4. Walk!Turn({"failed"}, {"asking"})
    BY <1>2, <2>1, <2>2, Turns DEF StateOf
  <2>5. Walk!Retry
    BY <2>3, <2>4 DEF Walk!Retry, Walks
  <2> QED BY <2>5 DEF Walk!Next
<1> QED BY <1>3, <1>4

LEMMA PassWalks ==
  ASSUME WalkInv, Walks, Pass
  PROVE  [Walk!Next]_(Walk!vars)
<1>1. /\ KeptInv /\ TypeOK /\ StatusIsSaved /\ Together /\ Ahead /\ changes = 0
      /\ config.mode = 1
  BY DEF WalkInv, KeptInv, Walks, Walking
<1>2. /\ pc = "top" /\ plan' = config /\ UNCHANGED <<tried, clock, config>>
      /\ saved.status = status /\ saved.status \in 0 .. 8
      /\ last \in Nat /\ saved.last \in Nat /\ last <= saved.last
      /\ config.begin \in Nat /\ config.end \in Nat
  BY <1>1, PlansAreConfigurations
  DEF Pass, KeptInv, PlanIsConfig, rest, TypeOK, StatusIsSaved
<1>3. last = 0 => saved.last = 0
  BY <1>1, <1>2 DEF Together
<1>4. lastRun = 0 \/ status = 8 => saved.last = last
  BY <1>1, <1>2 DEF Together, StatusIsSaved
<1>5. CASE UNCHANGED saved
  BY <1>2, <1>5 DEF Walks, Walk!vars, Walk!plan
<1>6. CASE /\ SetStatus(1, last) /\ InPlan(config) /\ status \in {0, 3, 8}
           /\ lastRun = 0 \/ status = 8
  <2>1. /\ saved'.status = 1 /\ saved'.last = saved.last /\ saved.last = last
    BY <1>4, <1>6 DEF SetStatus
  <2> QED BY <1>2, <1>6, <2>1, BeginsRound DEF InPlan
<1>7. CASE /\ SetStatus(1, config.begin)
           /\ last = 0 \/ (lastRun = 0 /\ OffPlan(config))
  <2>1. saved'.status = 1 /\ saved'.last = config.begin
    BY <1>7 DEF SetStatus
  <2>2. saved.last <= config.begin
    <3>1. CASE last = 0
      BY <1>2, <1>3, <3>1
    <3>2. CASE lastRun = 0 /\ OffPlan(config)
      <4>1. \/ saved.last < config.begin
            \/ HasEnd /\ saved.last > config.end
        BY <1>1, <1>2, <1>4, <3>2 DEF OffPlan, InPlan, AtEnd, HasEnd
      <4>2. HasEnd /\ saved.last > config.end => saved.last = config.begin
        BY <1>1, <1>2 DEF Ahead, AtBegin
      <4> QED BY <1>2, <4>1, <4>2
    <3> QED BY <1>7, <3>1, <3>2
  <2> QED BY <1>2, <2>1, <2>2, BeginsPlan
<1>8. CASE lastRun = 0
  <2>1. \E busy \in BOOLEAN : FirstPass(config, busy)
    BY <1>2, <1>8 DEF Pass
  <2> QED
    BY <1>1, <1>2, <1>5, <1>6, <1>7, <1>8, <2>1 DEF FirstPass, Manual, Unchanged
<1>9. CASE lastRun # 0
  <2>1. LaterPass(config)
    BY <1>2, <1>9 DEF Pass
  <2> QED
    BY <1>1, <1>5, <1>6, <1>7, <2>1 DEF LaterPass, Manual, Unchanged
<1> QED BY <1>8, <1>9

LEMMA WorkWalks ==
  ASSUME WalkInv, Walks,
         FetchFails \/ FetchSucceeds \/ BeginAssign \/ AssignReturns \/ EndPass
  PROVE  [Walk!Next]_(Walk!vars)
<1>1. /\ KeptInv /\ AtWork /\ TypeOK /\ StatusIsSaved /\ Together /\ Ahead
  BY DEF WalkInv, KeptInv, Walks, Walking
<1>2. /\ pc # "down" /\ saved.status = status /\ UNCHANGED <<tried, clock, config>>
      /\ last \in Nat /\ saved.last \in Nat /\ last <= saved.last
  BY <1>1 DEF TypeOK, StatusIsSaved, FetchFails, FetchSucceeds, BeginAssign, AssignReturns,
              EndPass, rest
<1>3. status \notin {1, 3} => last = saved.last
  BY <1>1, <1>2 DEF StatusIsSaved
<1>4. CASE FetchFails \/ FetchSucceeds
  <2>1. saved.status = 2 /\ saved'.status \in {3, 4} /\ saved'.last = last
    BY <1>1, <1>2, <1>4 DEF AtWork, FetchFails, FetchSucceeds, SetStatus
  <2> QED BY <1>2, <1>3, <2>1, TurnsOnly
<1>5. CASE BeginAssign
  <2>1. saved.status \in {4, 6} /\ saved'.status = 5 /\ saved'.last = last
    BY <1>2, <1>5 DEF BeginAssign, SetStatus
  <2> QED BY <1>2, <1>3, <2>1, TurnsOnly
<1>6. CASE AssignReturns
  <2>1. saved.status = 5 /\ saved'.status \in {6, 7} /\ saved'.last = last
    BY <1>1, <1>2, <1>6 DEF AtWork, AssignReturns, SetStatus
  <2> QED BY <1>2, <1>3, <2>1, TurnsOnly
<1>7. CASE EndPass
  <2>1. CASE UNCHANGED saved
    BY <1>2, <2>1 DEF Walks, Walk!vars, Walk!plan
  <2>2. CASE status \in {0, 3, 7} /\ SetStatus(8, last)
    <3>1. saved'.status = 8 /\ saved'.last = last
      BY <2>2 DEF SetStatus
    <3>2. CASE status = 3
      <4>1. saved.last <= last + GetInterval \/ saved.last = config.begin
        BY <1>1, <1>2 DEF Ahead, AtBegin
      <4>2. saved'.last \in 0 .. saved.last
        BY <1>2, <3>1
      <4> QED BY <1>2, <3>1, <3>2, <4>1, <4>2, EndsFailed
    <3>3. CASE status \in {0, 7}
      BY <1>2, <1>3, <3>1, <3>3, TurnsOnly
    <3> QED BY <2>2, <3>2, <3>3
  <2> QED BY <1>7, <2>1, <2>2 DEF EndPass, Unchanged
<1> QED BY <1>4, <1>5, <1>6, <1>7

(* What the row does not see, and time.                                    *)
LEMMA UnseenWalks ==
  ASSUME [Next]_vars, Walking' = Walking, TypeOK,
         ~Walking \/ (UNCHANGED <<saved, tried, config>>)
  PROVE  [Walk!Next]_(Walk!vars)
<1>1. UNCHANGED <<saved, tried, config>> \/ (~Walking /\ ~Walking')
  OBVIOUS
<1>2. CASE UNCHANGED clock
  BY <1>1, <1>2 DEF Walk!vars, Walk!plan
<1>3. CASE Tick
  <2>1. Walk!Tick
    BY <1>1, <1>3 DEF Tick, Walk!Tick, Walk!plan
  <2> QED BY <2>1 DEF Walk!Next
<1> QED
  BY <1>2, <1>3
  DEF Next, Loop, vars, rest, StartThread, Pass, Overtaken, BeginFetch, FetchAgain, Fetch,
      FetchFails, FetchSucceeds, BeginAssign, AssignReturns, NoWork, EndPass, Crash, Reconfigure

LEMMA NextWalks == WalkInv /\ [Next]_vars => [Walk!Next]_(Walk!vars)
<1> SUFFICES ASSUME WalkInv, [Next]_vars PROVE [Walk!Next]_(Walk!vars)
  OBVIOUS
<1>1. TypeOK
  BY DEF WalkInv, KeptInv
<1>2. CASE ~Walking
  <2>1. ~Walking'
    BY <1>1, <1>2, WalkEnds
  <2>2. Walking' = Walking
    BY <1>2, <2>1 DEF Walking
  <2> QED BY <1>1, <1>2, <2>2, UnseenWalks
<1>3. CASE Walking /\ ~Walking'
  <2>1. UNCHANGED clock
    BY <1>1, <1>3, WalkEnds
  <2>2. StateOf(saved.status) # "off"
    BY <1>1 DEF StateOf, TypeOK
  <2>3. Walk!Leave
    BY <1>3, <2>1, <2>2 DEF Walk!Leave
  <2> QED BY <2>3 DEF Walk!Next
<1>4. CASE Walking /\ Walking'
  <2>1. UNCHANGED config /\ Walking' = Walking
    BY <1>1, <1>4, WalkEnds DEF Walking
  <2>2. CASE StartThread \/ Overtaken \/ NoWork \/ Tick \/ Crash \/ UNCHANGED vars
    <3>1. UNCHANGED <<saved, tried>>
      BY <2>2 DEF StartThread, Overtaken, NoWork, Tick, Crash, vars, row, rest
    <3> QED BY <1>1, <2>1, <3>1, UnseenWalks
  <2>3. CASE BeginFetch \/ FetchAgain
    <3>1. Walks
      BY <1>4, <2>1, <2>3 DEF Walks, BeginFetch, FetchAgain, Fetch
    <3> QED BY <2>3, <3>1, FetchWalks
  <2>4. CASE Pass
    <3>1. Walks
      BY <1>4, <2>1, <2>4 DEF Walks, Pass, rest
    <3> QED BY <2>4, <3>1, PassWalks
  <2>5. CASE FetchFails \/ FetchSucceeds \/ BeginAssign \/ AssignReturns \/ EndPass
    <3>1. Walks
      BY <1>4, <2>1, <2>5
      DEF Walks, FetchFails, FetchSucceeds, BeginAssign, AssignReturns, EndPass, rest
    <3> QED BY <2>5, <3>1, WorkWalks
  <2>6. ~\E c \in Plans : Reconfigure(c)
    BY <2>1 DEF Reconfigure
  <2> QED BY <2>2, <2>3, <2>4, <2>5, <2>6 DEF Next, Loop
<1> QED BY <1>2, <1>3, <1>4

(* The refinement: the passes, the memory and the restarts of the thread   *)
(* implement PlanWalk, for any plans, intervals, changes and crashes.      *)
THEOREM ImplementsWalk == Spec => FollowsPlan
<1>1. Init => Walk!Init
  <2> SUFFICES ASSUME Init PROVE Walk!Init
    OBVIOUS
  <2>1. config.begin \in Nat /\ config.end \in Nat
    BY PlansAreConfigurations DEF Init
  <2>2. StateOf(saved.status) = "idle" /\ saved.last = 0 /\ tried = {} /\ clock = Start
    BY DEF Init, StateOf
  <2> QED BY <2>1, <2>2 DEF Walk!Init
<1> QED BY <1>1, WalkInit, WalkKept, NextWalks, PTL DEF Spec, FollowsPlan, Walk!Spec
=============================================================================
