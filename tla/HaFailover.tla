----------------------------- MODULE HaFailover -----------------------------
(***************************************************************************)
(* The two hosts of a CMS with a standby (dwMSFlag = 1).  Each runs the    *)
(* process /app/cms under app_monitor.sh; the one that has set the common  *)
(* IP address on its interface serves.  They agree by pings alone: the     *)
(* slave pings the master's host, both ping the common address.  Before a  *)
(* process takes over it copies the database of the other host over its    *)
(* own (BakeupDB.sh), the slave also every hour.  The thread monitor kills *)
(* a process with a thread that hangs.                                     *)
(***************************************************************************)
EXTENDS Integers

CONSTANTS
  MaxRows,      (* bound: rows recorded                                     *)
  MaxOffs,      (* bound: hosts that lose power                             *)
  MaxStops,     (* bound: processes that crash or hang                      *)
  MaxLost       (* bound: checks that get no answer from who is there       *)

ASSUME BoundsAreNaturals ==
  /\ MaxRows \in Nat /\ MaxOffs \in Nat /\ MaxStops \in Nat /\ MaxLost \in Nat

Hosts    == {"master", "slave"}
Rows     == 1 .. MaxRows
Other(h) == IF h = "master" THEN "slave" ELSE "master"

VARIABLES
  up,         (* the host runs                                              *)
  at,         (* where its process is                                       *)
  ip,         (* the common address is set; KingStoreConsole writes it to   *)
              (* the configuration, so that it survives a power cycle       *)
  synced,     (* MS_Bakup1, MS_Bakup2: the process has copied the database  *)
  db, copy,   (* rows of the host's database; of a copy on its way to it    *)
  n,          (* rows recorded                                              *)
  shifted,    (* the slave has set the address (history)                    *)
  late,       (* the master got power after the slave had missed it and     *)
              (* before it had set the address, in its last start (history) *)
  offs, stops, lost

vars == <<up, at, ip, synced, db, copy, n, shifted, late, offs, stops, lost>>

Checking == {"peer", "common"}
Syncing  == {"peerSync", "commonSync"}
Holding  == {"load", "serve", "leave", "hung"}

TypeOK ==
  /\ up \in [Hosts -> BOOLEAN] /\ ip \in [Hosts -> BOOLEAN] /\ synced \in [Hosts -> BOOLEAN]
  /\ at \in [Hosts -> {"off", "init", "take"} \cup Checking \cup Syncing \cup Holding]
  /\ at["master"] \notin {"peer", "peerSync", "leave"}
  /\ db \in [Hosts -> SUBSET Rows] /\ copy \in [Hosts -> SUBSET Rows]
  /\ n \in 0 .. MaxRows /\ shifted \in BOOLEAN /\ late \in BOOLEAN
  /\ offs \in Nat /\ stops \in Nat /\ lost \in Nat

Init ==
  /\ up \in [Hosts -> BOOLEAN]
  /\ at = [h \in Hosts |-> "off"]
  /\ ip = [h \in Hosts |-> FALSE]
  /\ synced = [h \in Hosts |-> FALSE]
  /\ db = [h \in Hosts |-> {}] /\ copy = [h \in Hosts |-> {}]
  /\ n = 0 /\ shifted = FALSE /\ late = FALSE
  /\ offs = 0 /\ stops = 0 /\ lost = 0

Serves(h) == up[h] /\ at[h] \in {"serve", "leave"}
Goes(h, a) == at' = [at EXCEPT ![h] = a]

-----------------------------------------------------------------------------
(* The start of the process.                                               *)

(* app_monitor.sh                                                          *)
Launch(h) ==
  /\ up[h] /\ at[h] = "off"
  /\ Goes(h, "init")
  /\ synced' = [synced EXCEPT ![h] = FALSE]
  /\ late' = IF h = "slave" THEN FALSE ELSE late
  /\ UNCHANGED <<up, ip, db, copy, n, shifted, offs, stops, lost>>

(* The first check: the slave's is for the master's host.  The first form  *)
(* has both look for it.                                                   *)
FirstCheckSame(h) == "peer"
FirstCheck(h)     == IF h = "slave" THEN "peer" ELSE "common"

(* set_video_eth_ip takes the common address off the interface (the first  *)
(* form leaves it there).                                                  *)
AddressKept(h)    == ip
AddressDropped(h) == [ip EXCEPT ![h] = FALSE]

Prepare(h) ==
  /\ up[h] /\ at[h] = "init"
  /\ ip' = AddressDropped(h)
  /\ Goes(h, FirstCheck(h))
  /\ UNCHANGED <<up, synced, db, copy, n, shifted, late, offs, stops, lost>>

(* What a ping would show: check_Master_Live of the slave,                 *)
(* check_Common_IP_Live of both, which does not count the address on the   *)
(* own interface.  In the first form of the latter any host answers, in    *)
(* the second an address that is configured.                               *)
MasterAnswers     == up["master"]
HostAnswers(h)    == up[Other(h)]
AddressAnswers(h) == ip[Other(h)] /\ ~ip[h]
CommonAnswers(h)  == up[Other(h)] /\ ip[Other(h)] /\ ~ip[h]

Answered(h) == CASE at[h] = "peer" -> MasterAnswers [] at[h] = "common" -> CommonAnswers(h)

(* An answer: wait, and copy the other database at the first time and then *)
(* every hour.                                                             *)
Source(h) == db[Other(h)]

Wait(h) ==
  /\ up[h] /\ at[h] \in Checking /\ Answered(h)
  /\ Goes(h, IF at[h] = "peer" THEN "peerSync" ELSE "commonSync")
  /\ synced' = [synced EXCEPT ![h] = TRUE]
  /\ copy' = [copy EXCEPT ![h] = Source(h)]
  /\ UNCHANGED <<up, ip, db, n, shifted, late, offs, stops, lost>>

(* The copy replaces the database table by table: if the other host has    *)
(* stopped, some are lost.                                                 *)
Partial(h) == SUBSET (copy[h] \cup db[h])

EndSync(h) ==
  /\ up[h] /\ at[h] \in Syncing
  /\ \/ up[Other(h)] /\ db' = [db EXCEPT ![h] = copy[h]]
     \/ ~up[Other(h)] /\ \E part \in Partial(h) : db' = [db EXCEPT ![h] = part]
  /\ copy' = [copy EXCEPT ![h] = {}]
  /\ Goes(h, IF at[h] = "peerSync" THEN "peer" ELSE "common")
  /\ UNCHANGED <<up, ip, synced, n, shifted, late, offs, stops, lost>>

GoOn(h) == Goes(h, IF at[h] = "peer" THEN "common" ELSE "take")

NoAnswer(h) ==
  /\ up[h] /\ at[h] \in Checking /\ ~Answered(h)
  /\ GoOn(h)
  /\ UNCHANGED <<up, ip, synced, db, copy, n, shifted, late, offs, stops, lost>>

AnswerLost(h) ==
  /\ up[h] /\ at[h] \in Checking /\ Answered(h)
  /\ lost < MaxLost /\ lost' = lost + 1
  /\ GoOn(h)
  /\ UNCHANGED <<up, ip, synced, db, copy, n, shifted, late, offs, stops>>

(* set_common_ip                                                           *)
Take(h) ==
  /\ up[h] /\ at[h] = "take"
  /\ ip' = [ip EXCEPT ![h] = TRUE]
  /\ shifted' = (shifted \/ h = "slave")
  /\ Goes(h, "load")
  /\ UNCHANGED <<up, synced, db, copy, n, late, offs, stops, lost>>

(* Everything from the database to cms_run_status = 1.                     *)
Load(h) ==
  /\ up[h] /\ at[h] = "load"
  /\ Goes(h, "serve")
  /\ UNCHANGED <<up, ip, synced, db, copy, n, shifted, late, offs, stops, lost>>

-----------------------------------------------------------------------------
(* A process that serves.                                                  *)

Record(h) ==
  /\ Serves(h) /\ n < MaxRows
  /\ n' = n + 1
  /\ db' = [db EXCEPT ![h] = @ \cup {n + 1}]
  /\ UNCHANGED <<up, at, ip, synced, copy, shifted, late, offs, stops, lost>>

(* main_loop of the slave: when the master's host answers, sleep for 30    *)
(* seconds, during which the other threads go on, and kill the process.    *)
(* The first form stays.                                                   *)
StaysActive(h) == FALSE
GivesWay(h)    == h = "slave" /\ MasterAnswers

SeeMaster(h) ==
  /\ up[h] /\ at[h] = "serve" /\ GivesWay(h)
  /\ Goes(h, "leave")
  /\ UNCHANGED <<up, ip, synced, db, copy, n, shifted, late, offs, stops, lost>>

(* The end of that sleep, and the thread monitor after 300 seconds without *)
(* a sign of life: killall cms.  The address stays.                        *)
Kill(h) ==
  /\ up[h] /\ at[h] \in {"leave", "hung"}
  /\ Goes(h, "off")
  /\ UNCHANGED <<up, ip, synced, db, copy, n, shifted, late, offs, stops, lost>>

-----------------------------------------------------------------------------
(* What goes wrong.                                                        *)

Stop(h) ==
  /\ stops < MaxStops /\ stops' = stops + 1
  /\ up[h]
  /\ \/ at[h] \in Holding \ {"hung"} /\ Goes(h, "off")
     \/ at[h] = "serve" /\ Goes(h, "hung")
  /\ UNCHANGED <<up, ip, synced, db, copy, n, shifted, late, offs, lost>>

PowerOff(h) ==
  /\ offs < MaxOffs /\ offs' = offs + 1
  /\ up[h] /\ up' = [up EXCEPT ![h] = FALSE]
  /\ Goes(h, "off")
  /\ IF at[h] \in Syncing THEN \E part \in Partial(h) : db' = [db EXCEPT ![h] = part]
                          ELSE UNCHANGED db
  /\ copy' = [copy EXCEPT ![h] = {}]
  /\ UNCHANGED <<ip, synced, n, shifted, late, stops, lost>>

PowerOn(h) ==
  /\ ~up[h] /\ up' = [up EXCEPT ![h] = TRUE]
  /\ late' = \/ late
             \/ h = "master" /\ at["slave"] \in {"common", "commonSync", "take"}
  /\ UNCHANGED <<at, ip, synced, db, copy, n, shifted, offs, stops, lost>>

-----------------------------------------------------------------------------
Step(h) ==
  \/ Launch(h) \/ Prepare(h) \/ Wait(h) \/ EndSync(h) \/ NoAnswer(h) \/ Take(h) \/ Load(h)
  \/ SeeMaster(h) \/ Kill(h)

Next ==
  \E h \in Hosts :
    \/ Step(h) \/ Record(h)
    \/ AnswerLost(h) \/ Stop(h) \/ PowerOff(h) \/ PowerOn(h)

Spec == Init /\ [][Next]_vars

(* A host that runs gets on with its process.                              *)
FairSpec == Spec /\ \A h \in Hosts : WF_vars(Step(h))

-----------------------------------------------------------------------------
(* Properties.                                                             *)

(* Master and slave never serve at the same time, unless an answer got     *)
(* lost, or the master got power while the slave was taking over.          *)
Exclusive ==
  lost = 0 /\ ~late => ~(Serves("master") /\ Serves("slave"))

(* As long as the slave has never taken over, no row the master recorded   *)
(* is lost, whatever crashes, hangs or loses power: the slave's copy of    *)
(* the database does not get into the master's.                            *)
RowsStay ==
  ~shifted => 1 .. n \subseteq db["master"]

(* A master that keeps running serves in the end and for good, and the     *)
(* slave then has given up the address.                                    *)
MasterTakesBack ==
  <>[]up["master"] => <>[](Serves("master") /\ (up["slave"] => ~ip["slave"]))

(* If the master does not come back, a slave that keeps running serves.    *)
SlaveTakesOver ==
  <>[](up["slave"] /\ ~up["master"]) => <>[]Serves("slave")
=============================================================================
