-------------------------- MODULE HaFailover_proofs --------------------------
(* Proofs about HaFailover, for any number of rows, power cycles, stops    *)
(* and lost answers.                                                       *)
EXTENDS HaFailover, TLAPS

-----------------------------------------------------------------------------
(* Type correctness.                                                       *)

LEMMA InitTypeOK == Init => TypeOK
<1> SUFFICES ASSUME Init PROVE TypeOK
  OBVIOUS
<1>1. n \in 0 .. MaxRows /\ offs \in Nat /\ stops \in Nat /\ lost \in Nat
  BY BoundsAreNaturals DEF Init
<1>2. db \in [Hosts -> SUBSET Rows] /\ copy \in [Hosts -> SUBSET Rows]
  BY DEF Init
<1> QED BY <1>1, <1>2 DEF Init, TypeOK, Hosts

(* The start of a process keeps the types.                                 *)
LEMMA StartTypeOK ==
  ASSUME TypeOK, NEW h \in Hosts,
         Launch(h) \/ Prepare(h) \/ Wait(h) \/ EndSync(h) \/ NoAnswer(h) \/ Take(h) \/ Load(h)
  PROVE  TypeOK'
<1> USE BoundsAreNaturals DEF TypeOK, Hosts, Checking, Syncing, Holding, Goes
<1>1. CASE Launch(h)
  BY <1>1 DEF Launch
<1>2. CASE Prepare(h)
  BY <1>2 DEF Prepare, FirstCheck, AddressDropped
<1>3. CASE Wait(h)
  BY <1>3 DEF Wait, Source, Other
<1>4. CASE EndSync(h)
  <2>1. /\ UNCHANGED <<up, ip, synced, n, shifted, late, offs, stops, lost>>
        /\ copy' \in [Hosts -> SUBSET Rows] /\ db' \in [Hosts -> SUBSET Rows]
    BY <1>4 DEF EndSync, Partial, Other
  <2>2. /\ at' \in [Hosts -> {"off", "init", "take"} \cup Checking \cup Syncing \cup Holding]
        /\ at'["master"] \notin {"peer", "peerSync", "leave"}
    BY <1>4 DEF EndSync
  <2> QED BY <2>1, <2>2
<1>5. CASE NoAnswer(h)
  BY <1>5 DEF NoAnswer, GoOn
<1>6. CASE Take(h)
  BY <1>6 DEF Take
<1>7. CASE Load(h)
  BY <1>7 DEF Load
<1> QED BY <1>1, <1>2, <1>3, <1>4, <1>5, <1>6, <1>7

(* So does a process that serves, and everything that goes wrong.          *)
LEMMA RestTypeOK ==
  ASSUME TypeOK, NEW h \in Hosts,
         \/ SeeMaster(h) \/ Kill(h) \/ Record(h)
         \/ AnswerLost(h) \/ Stop(h) \/ PowerOff(h) \/ PowerOn(h)
  PROVE  TypeOK'
<1> USE BoundsAreNaturals DEF TypeOK, Hosts, Checking, Syncing, Holding, Goes
<1>1. CASE SeeMaster(h)
  BY <1>1 DEF SeeMaster, GivesWay
<1>2. CASE Kill(h)
  BY <1>2 DEF Kill
<1>3. CASE Record(h)
  BY <1>3 DEF Record, Serves, Rows
<1>4. CASE AnswerLost(h)
  BY <1>4 DEF AnswerLost, GoOn
<1>5. CASE Stop(h)
  BY <1>5 DEF Stop
<1>6. CASE PowerOff(h)
  <2>1. db' \in [Hosts -> SUBSET Rows]
    BY <1>6 DEF PowerOff, Partial
  <2> QED BY <1>6, <2>1 DEF PowerOff
<1>7. CASE PowerOn(h)
  BY <1>7 DEF PowerOn
<1> QED BY <1>1, <1>2, <1>3, <1>4, <1>5, <1>6, <1>7

LEMMA NextTypeOK == TypeOK /\ [Next]_vars => TypeOK'
<1> SUFFICES ASSUME TypeOK, [Next]_vars PROVE TypeOK'
  OBVIOUS
<1>1. CASE UNCHANGED vars
  BY <1>1 DEF vars, TypeOK
<1>2. CASE Next
  BY <1>2, StartTypeOK, RestTypeOK DEF Next, Step
<1> QED BY <1>1, <1>2

(* Every variable of the pair has its type in every state.                 *)
THEOREM TypeCorrect == Spec => []TypeOK
  BY InitTypeOK, NextTypeOK, PTL DEF Spec

-----------------------------------------------------------------------------
(* Rows.                                                                   *)

(* Before the slave has ever set the address it has not served, and the    *)
(* master has found nobody to copy from.                                   *)
RowsInv ==
  ~shifted => /\ 1 .. n \subseteq db["master"]
              /\ ~ip["slave"]
              /\ at["slave"] \notin Holding
              /\ at["master"] \notin Syncing

LEMMA InitRowsInv == Init => RowsInv
  BY DEF Init, RowsInv, Hosts, Holding, Syncing

LEMMA NextRowsInv == TypeOK /\ RowsInv /\ [Next]_vars => RowsInv'
<1> SUFFICES ASSUME TypeOK, RowsInv, [Next]_vars, ~shifted' PROVE RowsInv'
  BY DEF RowsInv
<1> USE DEF Hosts, Checking, Syncing, Holding, Goes, TypeOK
<1>1. CASE UNCHANGED vars
  BY <1>1 DEF vars, RowsInv
<1>2. ASSUME NEW h \in Hosts, Launch(h) PROVE RowsInv'
  BY <1>2 DEF Launch, RowsInv
<1>3. ASSUME NEW h \in Hosts, Prepare(h) PROVE RowsInv'
  BY <1>3 DEF Prepare, FirstCheck, AddressDropped, RowsInv
<1>4. ASSUME NEW h \in Hosts, Wait(h) PROVE RowsInv'
  BY <1>4 DEF Wait, Answered, CommonAnswers, Other, RowsInv
<1>5. ASSUME NEW h \in Hosts, EndSync(h) PROVE RowsInv'
  <2>1. ~shifted /\ h = "slave"
    BY <1>5 DEF EndSync, RowsInv
  <2>2. db'["master"] = db["master"] /\ UNCHANGED <<n, ip, shifted>>
    BY <1>5, <2>1 DEF EndSync
  <2>3. at'["slave"] \in Checking /\ at'["master"] = at["master"]
    BY <1>5, <2>1 DEF EndSync
  <2> QED BY <2>1, <2>2, <2>3 DEF RowsInv
<1>6. ASSUME NEW h \in Hosts, NoAnswer(h) PROVE RowsInv'
  BY <1>6 DEF NoAnswer, GoOn, RowsInv
<1>7. ASSUME NEW h \in Hosts, Take(h) PROVE RowsInv'
  BY <1>7 DEF Take, RowsInv
<1>8. ASSUME NEW h \in Hosts, Load(h) PROVE RowsInv'
  BY <1>8 DEF Load, RowsInv
<1>9. ASSUME NEW h \in Hosts, Record(h) PROVE RowsInv'
  <2>1. ~shifted /\ h = "master" /\ UNCHANGED <<at, ip, shifted>>
    BY <1>9 DEF Record, Serves, RowsInv
  <2>2. n' = n + 1 /\ db'["master"] = db["master"] \cup {n + 1} /\ n \in Nat
    BY <1>9, <2>1, BoundsAreNaturals DEF Record
  <2> QED BY <2>1, <2>2 DEF RowsInv
<1>10. ASSUME NEW h \in Hosts, SeeMaster(h) PROVE RowsInv'
  BY <1>10 DEF SeeMaster, GivesWay, RowsInv
<1>11. ASSUME NEW h \in Hosts, Kill(h) PROVE RowsInv'
  BY <1>11 DEF Kill, RowsInv
<1>12. ASSUME NEW h \in Hosts, AnswerLost(h) PROVE RowsInv'
  BY <1>12 DEF AnswerLost, GoOn, RowsInv
<1>13. ASSUME NEW h \in Hosts, Stop(h) PROVE RowsInv'
  BY <1>13 DEF Stop, RowsInv
<1>14. ASSUME NEW h \in Hosts, PowerOff(h) PROVE RowsInv'
  <2>1. ~shifted /\ UNCHANGED <<n, ip, shifted>>
    BY <1>14 DEF PowerOff
  <2>2. db'["master"] = db["master"]
    BY <1>14, <2>1 DEF PowerOff, RowsInv
  <2>3. at' = [at EXCEPT ![h] = "off"]
    BY <1>14 DEF PowerOff
  <2> QED BY <2>1, <2>2, <2>3 DEF RowsInv
<1>15. ASSUME NEW h \in Hosts, PowerOn(h) PROVE RowsInv'
  BY <1>15 DEF PowerOn, RowsInv
<1> QED
  BY <1>1, <1>2, <1>3, <1>4, <1>5, <1>6, <1>7, <1>8, <1>9, <1>10, <1>11, <1>12, <1>13, <1>14,
     <1>15 DEF Next, Step

(* As long as the slave has never taken over, the master's database has    *)
(* every row it recorded, whatever crashes, hangs or loses power.          *)
THEOREM NoRowLost == Spec => []RowsStay
<1>1. RowsInv => RowsStay
  BY DEF RowsInv, RowsStay
<1> QED BY <1>1, InitRowsInv, NextRowsInv, TypeCorrect, PTL DEF Spec

-----------------------------------------------------------------------------
(* One host serves.                                                        *)

(* Without lost answers, and unless the master came too late to be seen:   *)
(* beyond its check of the master's host the slave goes on only while that *)
(* host is down, and once it has the address, the master waits for it.     *)
Past == {"common", "commonSync", "take"}

ExclusiveInv ==
  /\ \A h \in Hosts : at[h] # "off" => up[h]
  /\ at["master"] \in {"common", "commonSync"} => ~ip["master"]
  /\ at["slave"] \in Holding => ip["slave"]
  /\ lost = 0 /\ ~late => /\ at["slave"] \in Past => ~up["master"]
                          /\ at["slave"] \in Holding => at["master"] \notin Holding \cup {"take"}

LEMMA InitExclusiveInv == Init => ExclusiveInv
  BY DEF Init, ExclusiveInv, Hosts, Holding, Past

LEMMA NextExclusiveInv == TypeOK /\ ExclusiveInv /\ [Next]_vars => ExclusiveInv'
<1> SUFFICES ASSUME TypeOK, ExclusiveInv, [Next]_vars PROVE ExclusiveInv'
  OBVIOUS
<1> USE DEF Hosts, Past, Checking, Syncing, Holding, Goes, TypeOK
<1>1. CASE UNCHANGED vars
  BY <1>1 DEF vars, ExclusiveInv
<1>2. ASSUME NEW h \in Hosts, Launch(h) PROVE ExclusiveInv'
  BY <1>2 DEF Launch, ExclusiveInv
<1>3. ASSUME NEW h \in Hosts, Prepare(h) PROVE ExclusiveInv'
  BY <1>3 DEF Prepare, FirstCheck, AddressDropped, ExclusiveInv
<1>4. ASSUME NEW h \in Hosts, Wait(h) PROVE ExclusiveInv'
  BY <1>4 DEF Wait, ExclusiveInv
<1>5. ASSUME NEW h \in Hosts, EndSync(h) PROVE ExclusiveInv'
  <2>1. UNCHANGED <<up, ip, late, lost>>
    BY <1>5 DEF EndSync
  <2>2. at' = [at EXCEPT ![h] = IF at[h] = "peerSync" THEN "peer" ELSE "common"]
    BY <1>5 DEF EndSync
  <2>3. up[h] /\ at[h] \in {"peerSync", "commonSync"}
    BY <1>5 DEF EndSync
  <2> QED BY <2>1, <2>2, <2>3 DEF ExclusiveInv
<1>6. ASSUME NEW h \in Hosts, NoAnswer(h) PROVE ExclusiveInv'
  BY <1>6 DEF NoAnswer, GoOn, Answered, MasterAnswers, CommonAnswers, Other, ExclusiveInv
<1>7. ASSUME NEW h \in Hosts, Take(h) PROVE ExclusiveInv'
  BY <1>7 DEF Take, ExclusiveInv
<1>8. ASSUME NEW h \in Hosts, Load(h) PROVE ExclusiveInv'
  BY <1>8 DEF Load, ExclusiveInv
<1>9. ASSUME NEW h \in Hosts, Record(h) PROVE ExclusiveInv'
  BY <1>9 DEF Record, ExclusiveInv
<1>10. ASSUME NEW h \in Hosts, SeeMaster(h) PROVE ExclusiveInv'
  BY <1>10 DEF SeeMaster, GivesWay, ExclusiveInv
<1>11. ASSUME NEW h \in Hosts, Kill(h) PROVE ExclusiveInv'
  BY <1>11 DEF Kill, ExclusiveInv
<1>12. ASSUME NEW h \in Hosts, AnswerLost(h) PROVE ExclusiveInv'
  BY <1>12 DEF AnswerLost, GoOn, ExclusiveInv
<1>13. ASSUME NEW h \in Hosts, Stop(h) PROVE ExclusiveInv'
  BY <1>13 DEF Stop, ExclusiveInv
<1>14. ASSUME NEW h \in Hosts, PowerOff(h) PROVE ExclusiveInv'
  BY <1>14 DEF PowerOff, ExclusiveInv
<1>15. ASSUME NEW h \in Hosts, PowerOn(h) PROVE ExclusiveInv'
  BY <1>15 DEF PowerOn, ExclusiveInv
<1> QED
  BY <1>1, <1>2, <1>3, <1>4, <1>5, <1>6, <1>7, <1>8, <1>9, <1>10, <1>11, <1>12, <1>13, <1>14,
     <1>15 DEF Next, Step

(* Master and slave never serve at the same time, unless an answer got     *)
(* lost, or the master got power while the slave was taking over.          *)
THEOREM OneServes == Spec => []Exclusive
<1>1. ExclusiveInv => Exclusive
  BY DEF ExclusiveInv, Exclusive, Serves, Holding
<1> QED BY <1>1, InitExclusiveInv, NextExclusiveInv, TypeCorrect, PTL DEF Spec
=============================================================================
