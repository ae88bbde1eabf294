---------------------------- MODULE PlatformList ----------------------------
(***************************************************************************)
(* The platforms and the threads that serve them: the table                *)
(* VideoManagePlatformInfo, which the web front end edits, its copy in     *)
(* memory g_PlatformInfoList, and the pool of threads, each of which       *)
(* serves one platform at its address.  The thread platform_mgn_proc       *)
(* reloads the list every 300 seconds and looks every second for marked    *)
(* entries: a platform that is gone, or that has another address.  A       *)
(* thread in the middle of a fetch is to be left alone.                    *)
(*                                                                         *)
(* Of a thread's work (PlatformThread) remains whether it is fetching, and *)
(* whose progress it has in its fields.                                    *)
(***************************************************************************)
EXTENDS Integers, FiniteSets

CONSTANTS
  Platforms,     (* IDs of rows of the table                                *)
  Homes,         (* Homes[p]: addresses platform p may have                 *)
  N,             (* MAX_PLATFORM_SRV_THREADS                                *)
  None,
  MaxFaults      (* bound: changes of the table, and failures of SELECTs    *)
                 (* and connections, each of which counts as two changes    *)

Slots     == 1 .. N
Addresses == UNION {Homes[p] : p \in Platforms}

(* del_mark: 0 nothing, 1 another address, 2 to be deleted, 3 to be deleted *)
(* later.  Nothing sets it in a new entry (platform_info_init): it is what  *)
(* the memory held, the mark of an entry that was deleted for instance.     *)
(* -1 stands for every value that is none of the four.                      *)
Marks == -1 .. 3
Entry == [ip : Addresses, mark : Marks]          (* platform_info_t *)

ASSUME NIsPositive == N \in Nat \ {0}
ASSUME FaultsAreBounded == MaxFaults \in Nat
ASSUME NoneIsNoName == None \notin Platforms \cup Addresses \cup Entry
ASSUME HomesAreApart ==
  \A p, q \in Platforms : p # q => Homes[p] \cap Homes[q] = {}

VARIABLES
  table,      (* PlatformIP of each row; None: no row, or an empty address *)
  saved,      (* CompressTaskStatus (1 and 2 are "busy") and whose         *)
              (* LastTaskTime a row has                                    *)
  list,       (* g_PlatformInfoList                                        *)
  slot,       (* g_PlatformSrvProcThreadList; read: since it was assigned, *)
              (* the thread has read its row (history)                     *)
  g,          (* platform_mgn_proc_thread, before that the start           *)
  missed,     (* platforms whose thread did not get the last change of     *)
              (* address (history)                                         *)
  early,      (* rows saved by a thread that had read none (history)       *)
  faults

vars == <<table, saved, list, slot, g, missed, early, faults>>

Thread == [index : Platforms \cup {None}, ip : Addresses \cup {None},
           status : {"rest", "busy"}, of : Platforms \cup {None},
           call : {"none", "open", "cut"}, read : BOOLEAN]

Work   == [at : {"start", "sleep", "select", "rows", "assign", "load", "scan", "apply"},
           reload : BOOLEAN, rows : [Platforms -> Addresses \cup {None}],
           p : Platforms \cup {None}, slot : 0 .. N,
           moved : SUBSET Platforms, gone : SUBSET Platforms]

Free  == [index |-> None, ip |-> None, status |-> "rest", of |-> None, call |-> "none",
          read |-> FALSE]
Asleep == [at |-> "sleep", reload |-> FALSE, rows |-> [p \in Platforms |-> None],
           p |-> None, slot |-> 0, moved |-> {}, gone |-> {}]
Starting == [Asleep EXCEPT !.at = "start"]

(* cms_run_status: the threads do nothing while the list is filled for the *)
(* first time.                                                             *)
Up == g.reload \/ g.at \notin {"start", "rows", "assign", "load"}

TypeOK ==
  /\ table \in [Platforms -> Addresses \cup {None}]
  /\ \A p \in Platforms : table[p] \in Homes[p] \cup {None}
  /\ saved \in [Platforms -> [of : Platforms \cup {None}, status : {"rest", "busy"}]]
  /\ list \in [Platforms -> Entry \cup {None}]
  /\ slot \in [Slots -> Thread]
  /\ g \in Work
  /\ g.at \in {"assign", "load"} => g.p \in Platforms
  /\ g.at = "load" => g.slot \in Slots
  /\ missed \subseteq Platforms /\ early \subseteq Platforms
  /\ faults \in Nat

Empty == /\ list = [p \in Platforms |-> None]
         /\ slot = [s \in Slots |-> Free]
         /\ g = Starting /\ missed = {}

Init ==
  /\ table \in [Platforms -> Addresses \cup {None}]
  /\ \A p \in Platforms : table[p] \in Homes[p] \cup {None}
  /\ saved = [p \in Platforms |-> [of |-> p, status |-> "rest"]]
  /\ Empty
  /\ early = {} /\ faults = 0

Listed(p) == list[p] # None
Serves(s, p) == slot[s].index = p

Fault(n) == faults + n <= MaxFaults /\ faults' = faults + n

-----------------------------------------------------------------------------
(* Reload: mark everything, then go through the rows of the table.         *)

(* set_platform_info_list_del_mark(2) at the 300th second.                 *)
BeginReload ==
  /\ g.at = "sleep"
  /\ list' = [p \in Platforms |->
                IF Listed(p) /\ list[p].mark = 0 THEN [list[p] EXCEPT !.mark = 2] ELSE list[p]]
  /\ g' = [Asleep EXCEPT !.at = "select", !.reload = TRUE]
  /\ UNCHANGED <<table, saved, slot, missed, early, faults>>

(* The SELECT of the reload, and that of set_db_data_to_platform_info_list *)
(* at the start.  When it fails, everything keeps its mark.                *)
Select ==
  /\ g.at \in {"select", "start"}
  /\ \/ g' = [g EXCEPT !.at = "rows", !.rows = table] /\ UNCHANGED faults
     \/ g' = [g EXCEPT !.at = "rows"] /\ Fault(2)
  /\ UNCHANGED <<table, saved, list, slot, missed, early>>

(* What the next row makes of the entry of a known platform: it is kept,   *)
(* and marked when its address is another one, unless a change of address  *)
(* is still waiting.  The first form keeps the deletion mark.              *)
KeptMarked(p) ==
  IF list[p].mark = 1 \/ list[p].ip = g.rows[p] THEN list[p] ELSE [ip |-> g.rows[p], mark |-> 1]
Kept(p) ==
  IF list[p].mark = 1 THEN list[p]
  ELSE [ip |-> g.rows[p], mark |-> IF list[p].ip = g.rows[p] THEN 0 ELSE 1]

(* A platform that is not in the list is added, with any mark, and         *)
(* assigned to a thread.                                                   *)
TakeRow(p) ==
  /\ g.at = "rows" /\ g.rows[p] # None
  /\ IF Listed(p)
       THEN /\ list' = [list EXCEPT ![p] = Kept(p)]
            /\ g' = [g EXCEPT !.rows[p] = None]
       ELSE /\ \E m \in Marks : list' = [list EXCEPT ![p] = [ip |-> g.rows[p], mark |-> m]]
            /\ g' = [g EXCEPT !.rows[p] = None, !.at = "assign", !.p = p]
  /\ UNCHANGED <<table, saved, slot, missed, early, faults>>

RowsDone ==
  /\ g.at = "rows"
  /\ \A p \in Platforms : g.rows[p] = None
  /\ g' = IF g.reload THEN [g EXCEPT !.at = "scan"] ELSE Asleep
  /\ UNCHANGED <<table, saved, list, slot, missed, early, faults>>

(* platform_srv_proc_thread_recycle: whatever the thread is doing.  Whose  *)
(* progress is in its fields stays.                                        *)
Recycled(s) == [Free EXCEPT !.of = slot[s].of,
                            !.call = IF slot[s].call = "none" THEN "none" ELSE "cut"]

(* The thread that serves p, if there is one, is released; the first form  *)
(* releases none.                                                          *)
ReleasedNone(p) == slot
Released(p) == [s \in Slots |-> IF Serves(s, p) THEN Recycled(s) ELSE slot[s]]

FreeSlots(pool) == {s \in Slots : pool[s].index = None}
First(S) == CHOOSE s \in S : \A t \in S : s <= t

(* platform_info_add: a thread that still serves the platform is released, *)
(* and the first free one assigned.                                        *)
Assign ==
  /\ g.at = "assign"
  /\ LET pool == Released(g.p)
         s    == First(FreeSlots(pool))
     IN /\ FreeSlots(pool) # {}
        /\ slot' = [pool EXCEPT ![s] = [@ EXCEPT !.index = g.p, !.ip = list[g.p].ip,
                                                 !.status = "rest"]]
        /\ g' = [g EXCEPT !.at = "load", !.slot = s]
        /\ missed' = missed \ {g.p}
  /\ UNCHANGED <<table, saved, list, early, faults>>

(* No free thread, or no connection: the entry is removed and its thread   *)
(* released (the first form of that keeps the entry).  Then the caller     *)
(* frees the entry a second time: the C library stops the process, which   *)
(* is Restarted, or does not notice.                                       *)
Restarted == /\ list' = [p \in Platforms |-> None]
             /\ slot' = [s \in Slots |-> Free]
             /\ g' = Starting /\ missed' = {}

EntryKept(p)    == list
EntryRemoved(p) == [list EXCEPT ![p] = None]

AssignFails ==
  /\ g.at = "assign"
  /\ IF FreeSlots(Released(g.p)) = {} THEN UNCHANGED faults ELSE Fault(2)
  /\ \/ /\ list' = EntryRemoved(g.p)
        /\ slot' = Released(g.p)
        /\ g' = [g EXCEPT !.at = "rows", !.p = None]
        /\ missed' = missed \ {g.p}
     \/ Restarted
  /\ UNCHANGED <<table, saved, early>>

(* get_platform_thread_info_from_db: status and progress of the row with   *)
(* the thread's address, if there is one.                                  *)
RowsAt(ip) == {p \in Platforms : table[p] = ip /\ ip # None}

ReadRow(s) ==
  \/ RowsAt(slot[s].ip) = {} /\ UNCHANGED slot
  \/ \E p \in RowsAt(slot[s].ip) :
       slot' = [slot EXCEPT ![s] = [@ EXCEPT !.of = saved[p].of, !.status = saved[p].status,
                                             !.read = TRUE]]

(* After the tasks (Dispatch), the thread's row is loaded; the first form  *)
(* forgets that.                                                           *)
LoadTasksOnly ==
  /\ g.at = "load"
  /\ g' = [g EXCEPT !.at = "rows", !.p = None, !.slot = 0]
  /\ slot' = [slot EXCEPT ![g.slot].read = TRUE]
  /\ UNCHANGED <<table, saved, list, missed, early, faults>>

Load ==
  /\ g.at = "load"
  /\ ReadRow(g.slot)
  /\ g' = [g EXCEPT !.at = "rows", !.p = None, !.slot = 0]
  /\ UNCHANGED <<table, saved, list, missed, early, faults>>

-----------------------------------------------------------------------------
(* scan_platform_info_list: every second, and in the middle of a reload.   *)

(* Under the lock the marked entries are collected, and the mark of a      *)
(* changed address is reset.                                               *)
Scan ==
  /\ g.at \in {"sleep", "scan"}
  /\ LET marked(S) == {p \in Platforms : Listed(p) /\ list[p].mark \in S}
     IN /\ list' = [p \in Platforms |-> IF p \in marked({1}) THEN [list[p] EXCEPT !.mark = 0]
                                                             ELSE list[p]]
        /\ g' = [g EXCEPT !.at = "apply", !.moved = marked({1}), !.gone = marked({2, 3})]
  /\ UNCHANGED <<table, saved, slot, missed, early, faults>>

Idle(s) == slot[s].status = "rest"

(* The thread gets the new address, unless it is fetching: then the change *)
(* is forgotten.                                                           *)
Move(p) ==
  /\ g.at = "apply" /\ p \in g.moved
  /\ g' = [g EXCEPT !.moved = @ \ {p}]
  /\ slot' = [s \in Slots |-> IF Serves(s, p) /\ Idle(s) THEN [slot[s] EXCEPT !.ip = list[p].ip]
                                                        ELSE slot[s]]
  /\ missed' = IF \E s \in Slots : Serves(s, p) /\ ~Idle(s) THEN missed \cup {p}
                                                          ELSE missed \ {p}
  /\ UNCHANGED <<table, saved, list, early, faults>>

(* A platform whose thread is fetching is not deleted yet: mark 3 (the     *)
(* first form counts up).                                                  *)
MarkCounted(p, s) == IF Idle(s) THEN 2 ELSE list[p].mark + 1
Mark(p, s)        == IF Idle(s) THEN 2 ELSE 3

Postpone(p) ==
  /\ g.at = "apply" /\ g.moved = {} /\ p \in g.gone
  /\ g' = [g EXCEPT !.gone = @ \ {p}]
  /\ \/ (\A s \in Slots : ~Serves(s, p)) /\ UNCHANGED list
     \/ \E s \in Slots : Serves(s, p) /\ list' = [list EXCEPT ![p].mark = Mark(p, s)]
  /\ UNCHANGED <<table, saved, slot, missed, early, faults>>

(* At the end of a reload delete_platform_info_from_list_by_mark removes   *)
(* what has mark 2.  The thread stays as it is.                            *)
EndScan ==
  /\ g.at = "apply" /\ g.moved = {} /\ g.gone = {}
  /\ list' = IF g.reload
               THEN [p \in Platforms |-> IF Listed(p) /\ list[p].mark = 2 THEN None ELSE list[p]]
               ELSE list
  /\ g' = Asleep
  /\ UNCHANGED <<table, saved, slot, missed, early, faults>>

-----------------------------------------------------------------------------
(* The threads.                                                            *)

(* UpdatePlatFormCompressTaskStatusToDB: into the row with the thread's    *)
(* address, if there is one.                                               *)
Save(s, status) ==
  /\ saved' = [p \in Platforms |-> IF p \in RowsAt(slot[s].ip)
                                     THEN [of |-> slot[s].of, status |-> status] ELSE saved[p]]
  /\ early' = IF slot[s].read THEN early ELSE early \cup RowsAt(slot[s].ip)

(* A pass that begins a fetch: status 1, then 2 (a thread may have loaded  *)
(* such a status, too).                                                    *)
BeginFetch(s) ==
  /\ Up /\ slot[s].index # None /\ slot[s].call = "none"
  /\ Save(s, "busy")
  /\ slot' = [slot EXCEPT ![s].status = "busy", ![s].call = "open"]
  /\ UNCHANGED <<table, list, g, missed, faults>>

(* The fetch returns: status 3 or 4.  If the thread was released meanwhile *)
(* it has used a connection that was deleted, which may be its end.        *)
EndFetch(s) ==
  /\ slot[s].call # "none"
  /\ Save(s, "rest")
  /\ slot' = [slot EXCEPT ![s].status = "rest", ![s].call = "none"]
  /\ UNCHANGED <<table, list, g, missed, faults>>

CutFetch(s) ==
  /\ slot[s].call = "cut"
  /\ Restarted
  /\ UNCHANGED <<table, saved, early, faults>>

(* Status 8: the row is read again.                                        *)
Reread(s) ==
  /\ Up /\ slot[s].index # None /\ slot[s].call = "none" /\ Idle(s)
  /\ ReadRow(s)
  /\ UNCHANGED <<table, saved, list, g, missed, early, faults>>

-----------------------------------------------------------------------------
(* The web front end enters, changes or deletes a row.                     *)
Edit(p, ip) ==
  /\ table[p] # ip
  /\ Fault(1)
  /\ table' = [table EXCEPT ![p] = ip]
  /\ saved' = IF None \in {table[p], ip}
                THEN [saved EXCEPT ![p] = [of |-> p, status |-> "rest"]] ELSE saved
  /\ UNCHANGED <<list, slot, g, missed, early>>

-----------------------------------------------------------------------------
Manager ==
  \/ Select \/ RowsDone \/ Assign \/ AssignFails \/ Load \/ Scan \/ EndScan
  \/ \E p \in Platforms : TakeRow(p) \/ Move(p) \/ Postpone(p)

ThreadStep(s) == BeginFetch(s) \/ EndFetch(s) \/ CutFetch(s) \/ Reread(s)

Next ==
  \/ BeginReload \/ Manager
  \/ \E s \in Slots : ThreadStep(s)
  \/ \E p \in Platforms : \E ip \in Homes[p] \cup {None} : Edit(p, ip)

Spec == Init /\ [][Next]_vars

(* The manager runs, and reloads every 300th second.                       *)
Live == WF_vars(Manager) /\ SF_vars(BeginReload)

FairSpec == Spec /\ Live

-----------------------------------------------------------------------------
(* Properties.                                                             *)

(* No platform has two threads, also when it was deleted, its thread went  *)
(* on as an orphan, and it was entered again: its tasks would be fetched   *)
(* twice and its progress written by both.                                 *)
ServedOnce ==
  \A s, t \in Slots : s # t /\ slot[s].index # None => slot[s].index # slot[t].index

(* Whenever the manager is not in the middle of something, every platform  *)
(* of the list has a thread, at the address of the list unless the change  *)
(* was missed.                                                             *)
ListedIsServed ==
  g.at = "sleep" => \A p \in Platforms : Listed(p) =>
    \E s \in Slots : Serves(s, p) /\ (p \notin missed => slot[s].ip = list[p].ip)

(* The progress in a row is the platform's own, unless a thread that was   *)
(* assigned while the CMS runs saved its fields before it had read a row:  *)
(* no recycled thread passes on the progress of its last platform.         *)
ProgressIsOwn ==
  \A p \in Platforms : saved[p].of # p => p \in early

(* A platform that stays in the table comes into the list and stays there, *)
(* with a thread, after failed SELECTs and restarts too, as long as the    *)
(* rows and the orphaned threads are not more than there are threads, and  *)
(* unless reloads go on entering it with a mark that says "delete": such a *)
(* reload deletes at its end what it has entered, which gives the next one *)
(* the memory with that mark.                                              *)
Wanting == {p \in Platforms : table[p] # None \/ \E s \in Slots : Serves(s, p)}

EntersDeleted(p) ==
  TakeRow(p) /\ ~Listed(p) /\ g.reload /\ list'[p].mark \in {2, 3}

StaysIsServed ==
  [](Cardinality(Wanting) <= N) =>
    \A p \in Platforms :
      <>[](table[p] # None) /\ <>[][~EntersDeleted(p)]_vars
        => <>[](Listed(p) /\ \E s \in Slots : Serves(s, p))
=============================================================================
