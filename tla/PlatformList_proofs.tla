------------------------- MODULE PlatformList_proofs -------------------------
(* Proofs about PlatformList, for any platforms, addresses, number of      *)
(* threads and faults.                                                     *)
EXTENDS PlatformList, WellFoundedInduction, TLAPS

-----------------------------------------------------------------------------
(* The first free thread.                                                  *)

LEMMA FirstIsLeast ==
  ASSUME NEW S \in SUBSET Nat, S # {}
  PROVE  First(S) \in S
<1> DEFINE R == {ss \in Nat \X Nat : ss[1] < ss[2]}
<1>1. IsWellFoundedOn(R, Nat)
  BY NatLessThanWellFounded DEF OpToRel
<1>2. PICK x \in S : \A y \in S : <<y, x>> \notin R
  <2> HIDE DEF R
  <2> QED BY <1>1, WFMin
<1>3. ASSUME NEW y \in S PROVE x <= y
  <2>1. <<y, x>> \in Nat \X Nat /\ <<y, x>> \notin R
    BY <1>2
  <2>2. ~(y < x)
    BY <2>1
  <2> QED BY <2>2
<1> QED BY <1>3 DEF First

LEMMA FirstFree ==
  ASSUME NEW pool, FreeSlots(pool) # {}
  PROVE  /\ First(FreeSlots(pool)) \in Slots
         /\ pool[First(FreeSlots(pool))].index = None
<1>1. FreeSlots(pool) \in SUBSET Nat
  BY NIsPositive DEF FreeSlots, Slots
<1>2. First(FreeSlots(pool)) \in FreeSlots(pool)
  BY <1>1, FirstIsLeast
<1> QED BY <1>2 DEF FreeSlots

(* Releasing a platform's thread leaves the others as they are.            *)
LEMMA ReleasedPool ==
  ASSUME slot \in [Slots -> Thread], NEW p \in Platforms
  PROVE  /\ Released(p) \in [Slots -> Thread]
         /\ \A s \in Slots : Released(p)[s].index # p
         /\ \A s \in Slots : slot[s].index # p => Released(p)[s] = slot[s]
         /\ \A s \in Slots : slot[s].index = p => Released(p)[s] = Recycled(s)
         /\ \A s \in Slots : Released(p)[s].index \in {slot[s].index, None}
<1>1. \A s \in Slots : Recycled(s) \in Thread /\ Recycled(s).index = None
  BY NoneIsNoName DEF Recycled, Free, Thread
<1> QED BY <1>1, NoneIsNoName DEF Released, Serves

LEMMA NoHomeIsNone == \A p \in Platforms : None \notin Homes[p] /\ Homes[p] \subseteq Addresses
  BY NoneIsNoName DEF Addresses

-----------------------------------------------------------------------------
(* Type correctness.  It needs that an entry exists while it is worked on, *)
(* and has an address of its own platform.                                 *)

EntriesOK ==
  /\ \A p \in Platforms : Listed(p) => list[p].ip \in Homes[p]
  /\ \A p \in Platforms : g.rows[p] \in Homes[p] \cup {None}
  /\ g.at = "assign" => Listed(g.p)
  /\ \A p \in g.moved \cup g.gone : Listed(p)
  /\ g.at # "apply" => g.moved = {} /\ g.gone = {}

TypeInv == TypeOK /\ EntriesOK

LEMMA Quiet == Asleep \in Work /\ Starting \in Work /\ Free \in Thread
<1>1. Asleep \in Work
  BY NIsPositive DEF Asleep, Work
<1>2. Starting \in Work
  BY <1>1 DEF Starting, Work
<1>3. Free \in Thread
  BY DEF Free, Thread
<1> QED BY <1>1, <1>2, <1>3

LEMMA RestartTypeInv ==
  ASSUME TypeInv, Restarted, UNCHANGED <<table, saved>>, faults' \in Nat,
         early' \subseteq Platforms
  PROVE  TypeInv'
<1>1. Starting.at = "start"
  BY DEF Starting, Asleep
<1>2. TypeOK'
  BY <1>1, Quiet DEF TypeInv, TypeOK, Work, Restarted
<1>3. EntriesOK'
  BY DEF Restarted, EntriesOK, Starting, Asleep, Listed
<1> QED BY <1>2, <1>3 DEF TypeInv

LEMMA InitTypeInv == Init => TypeInv
<1> SUFFICES ASSUME Init PROVE TypeInv
  OBVIOUS
<1>1. Starting.at = "start"
  BY DEF Starting, Asleep
<1>2. TypeOK
  BY <1>1, Quiet DEF Init, Empty, TypeOK, Work
<1>3. EntriesOK
  BY DEF Init, Empty, EntriesOK, Starting, Asleep, Listed
<1> QED BY <1>2, <1>3 DEF TypeInv

(* What a thread reads of its row has the right type.                      *)
LEMMA ReadRowOK ==
  ASSUME TypeOK, NEW s \in Slots, ReadRow(s)
  PROVE  slot' \in [Slots -> Thread]
<1>1. ASSUME NEW p \in Platforms,
             slot' = [slot EXCEPT ![s] = [@ EXCEPT !.of = saved[p].of, !.status = saved[p].status,
                                                   !.read = TRUE]]
      PROVE  slot' \in [Slots -> Thread]
  <2>1. saved[p].of \in Platforms \cup {None} /\ saved[p].status \in {"rest", "busy"}
    BY DEF TypeOK, Work
  <2>2. slot[s] \in Thread /\ slot \in [Slots -> Thread]
    BY DEF TypeOK, Work
  <2> QED BY <1>1, <2>1, <2>2 DEF Thread
<1> QED BY <1>1 DEF TypeOK, Work, ReadRow, RowsAt

LEMMA ReadRowKeeps ==
  ASSUME TypeOK, NEW s \in Slots, ReadRow(s), NEW t \in Slots
  PROVE  slot'[t].index = slot[t].index /\ slot'[t].ip = slot[t].ip
<1>1. ASSUME NEW p \in Platforms,
             slot' = [slot EXCEPT ![s] = [@ EXCEPT !.of = saved[p].of, !.status = saved[p].status,
                                                   !.read = TRUE]]
      PROVE  slot'[t].index = slot[t].index /\ slot'[t].ip = slot[t].ip
  <2>1. slot[s] \in Thread /\ slot \in [Slots -> Thread]
    BY DEF TypeOK
  <2> QED BY <1>1, <2>1 DEF Thread
<1> QED BY <1>1 DEF ReadRow, RowsAt

LEMMA SaveOK ==
  ASSUME TypeOK, NEW s \in Slots, NEW status \in {"rest", "busy"}, Save(s, status)
  PROVE  /\ saved' \in [Platforms -> [of : Platforms \cup {None}, status : {"rest", "busy"}]]
         /\ early' \subseteq Platforms
  BY DEF TypeOK, Work, Save, RowsAt, Thread

LEMMA ManagerTypeInv == TypeInv /\ (BeginReload \/ Manager) => TypeInv'
<1> SUFFICES ASSUME TypeInv, BeginReload \/ Manager PROVE TypeInv'
  OBVIOUS
<1> USE NoHomeIsNone, NoneIsNoName, NIsPositive DEF TypeInv
<1>1. CASE BeginReload
  <2>1. list' \in [Platforms -> Entry \cup {None}]
        /\ \A p \in Platforms : (list'[p] # None <=> list[p] # None)
                                /\ (list[p] # None => list'[p].ip = list[p].ip)
    BY <1>1 DEF BeginReload, TypeOK, Work, Listed, Entry, Marks
  <2>2. TypeOK'
    <3>1. g' \in Work /\ g'.at = "select"
      BY <1>1, Quiet DEF BeginReload, Work
    <3> QED BY <1>1, <2>1, <3>1 DEF BeginReload, TypeOK, Work
  <2>3. EntriesOK'
    BY <1>1, <2>1 DEF BeginReload, EntriesOK, Listed, Asleep
  <2> QED BY <2>2, <2>3
<1>2. CASE Select
  <2>1. faults' \in Nat
    BY <1>2 DEF Select, Fault, TypeOK, Work
  <2>2. TypeOK'
    BY ZenonT(30), <1>2, <2>1 DEF Select, TypeOK, Work
  <2>3. EntriesOK'
    BY ZenonT(30), <1>2 DEF Select, EntriesOK, Listed, TypeOK, Work
  <2> QED BY <2>2, <2>3
<1>3. ASSUME NEW p \in Platforms, TakeRow(p) PROVE TypeInv'
  <2>1. g.rows[p] \in Homes[p] /\ g.rows[p] \in Addresses
    BY <1>3 DEF TakeRow, EntriesOK
  <2>2. [ip |-> g.rows[p], mark |-> 0] \in Entry /\ [ip |-> g.rows[p], mark |-> 1] \in Entry
    BY <2>1 DEF Entry, Marks
  <2>3. CASE Listed(p)
    <3>1. Kept(p) \in Entry /\ Kept(p).ip \in Homes[p]
      BY <1>3, <2>1, <2>2, <2>3 DEF Kept, TypeOK, Work, EntriesOK, Listed
    <3>2. /\ list' = [list EXCEPT ![p] = Kept(p)] /\ g' = [g EXCEPT !.rows[p] = None]
          /\ UNCHANGED <<table, saved, slot, missed, early, faults>>
          /\ g.at = "rows"
      BY <1>3, <2>3 DEF TakeRow
    <3>3. TypeOK'
      BY <3>1, <3>2 DEF TypeOK, Work
    <3>4. EntriesOK'
      BY <3>1, <3>2 DEF TypeOK, Work, EntriesOK, Listed
    <3> QED BY <3>3, <3>4
  <2>4. CASE ~Listed(p)
    <3> PICK m \in Marks : list' = [list EXCEPT ![p] = [ip |-> g.rows[p], mark |-> m]]
      BY <1>3, <2>4 DEF TakeRow
    <3>0. [ip |-> g.rows[p], mark |-> m] \in Entry
      BY <2>1 DEF Entry
    <3>1. /\ list' = [list EXCEPT ![p] = [ip |-> g.rows[p], mark |-> m]]
          /\ g' = [g EXCEPT !.rows[p] = None, !.at = "assign", !.p = p]
          /\ UNCHANGED <<table, saved, slot, missed, early, faults>>
          /\ g.at = "rows"
      BY <1>3, <2>4 DEF TakeRow
    <3>2. TypeOK'
      <4>1. list' \in [Platforms -> Entry \cup {None}]
        BY <3>0, <3>1 DEF TypeOK
      <4>2. g' \in Work /\ g'.at = "assign" /\ g'.p = p
        BY <3>1 DEF TypeOK, Work
      <4> QED BY <3>1, <4>1, <4>2 DEF TypeOK
    <3>3. EntriesOK'
      BY <2>1, <3>0, <3>1 DEF TypeOK, Work, EntriesOK, Listed
    <3> QED BY <3>2, <3>3
  <2> QED BY <2>3, <2>4
<1>4. CASE RowsDone
  BY <1>4 DEF RowsDone, TypeOK, Work, EntriesOK, Listed, Asleep
<1>5. CASE Assign
  <2> DEFINE pool == Released(g.p)
             s    == First(FreeSlots(pool))
  <2>1. g.at = "assign" /\ g.p \in Platforms /\ list[g.p] \in Entry /\ FreeSlots(pool) # {}
    BY <1>5 DEF Assign, TypeOK, Work, EntriesOK, Listed
  <2>2. s \in Slots /\ pool \in [Slots -> Thread]
    BY <2>1, FirstFree, ReleasedPool DEF TypeOK, Work
  <2>3. /\ slot' = [pool EXCEPT ![s] = [@ EXCEPT !.index = g.p, !.ip = list[g.p].ip,
                                                 !.status = "rest"]]
        /\ g' = [g EXCEPT !.at = "load", !.slot = s]
        /\ missed' = missed \ {g.p}
        /\ UNCHANGED <<table, saved, list, early, faults>>
    BY <1>5 DEF Assign
  <2> HIDE DEF pool, s
  <2>4. slot' \in [Slots -> Thread]
    <3>1. list[g.p].ip \in Addresses /\ pool[s] \in Thread
      BY <2>1, <2>2 DEF Entry
    <3> QED BY <2>1, <2>2, <2>3, <3>1 DEF Thread
  <2>5. g'.at = "load" /\ g'.p = g.p /\ g'.slot = s /\ g'.moved = g.moved /\ g'.gone = g.gone
        /\ g'.rows = g.rows
    BY <2>3 DEF TypeOK, Work
  <2>6. TypeOK'
    <3>1. g' \in Work
      <4>1. s \in 0 .. N
        BY <2>2 DEF Slots
      <4> QED BY <2>3, <4>1 DEF TypeOK, Work
    <3> QED BY <2>1, <2>2, <2>3, <2>4, <2>5, <3>1 DEF TypeOK, Work
  <2>7. EntriesOK'
    BY <2>1, <2>3, <2>5 DEF EntriesOK, Listed
  <2> QED BY <2>6, <2>7
<1>6. CASE AssignFails
  <2>1. faults' \in Nat /\ g.p \in Platforms /\ g.at = "assign"
    BY <1>6 DEF AssignFails, Fault, TypeOK, Work
  <2>2. CASE Restarted
    BY <1>6, <2>1, <2>2, RestartTypeInv DEF AssignFails, TypeOK, Work
  <2>3. CASE /\ list' = EntryRemoved(g.p) /\ slot' = Released(g.p)
             /\ g' = [g EXCEPT !.at = "rows", !.p = None] /\ missed' = missed \ {g.p}
    <3>1. slot' \in [Slots -> Thread] /\ UNCHANGED <<table, saved, early>>
      BY <1>6, <2>1, <2>3, ReleasedPool DEF TypeOK, Work, AssignFails
    <3>2. TypeOK'
      BY <2>1, <2>3, <3>1 DEF TypeOK, Work, EntryRemoved
    <3>3. EntriesOK'
      BY <2>1, <2>3 DEF EntriesOK, EntryRemoved, Listed, TypeOK, Work
    <3> QED BY <3>2, <3>3
  <2> QED BY <1>6, <2>2, <2>3 DEF AssignFails
<1>7. CASE Load
  <2>1. g.slot \in Slots /\ slot' \in [Slots -> Thread]
    BY <1>7, ReadRowOK DEF Load, TypeOK, Work
  <2>2. TypeOK'
    <3>1. g' \in Work /\ g'.at = "rows"
      <4>1. 0 \in 0 .. N
        OBVIOUS
      <4> QED BY <1>7, <4>1 DEF Load, TypeOK, Work
    <3> QED BY <1>7, <2>1, <3>1 DEF Load, TypeOK, Work
  <2>3. EntriesOK'
    BY <1>7 DEF Load, EntriesOK, Listed, TypeOK, Work
  <2> QED BY <2>2, <2>3
<1>8. CASE Scan
  <2>1. list' \in [Platforms -> Entry \cup {None}]
        /\ \A p \in Platforms : (list'[p] # None <=> list[p] # None)
                                /\ (list[p] # None => list'[p].ip = list[p].ip)
    BY <1>8 DEF Scan, TypeOK, Work, Listed, Entry, Marks
  <2>2. TypeOK'
    BY <1>8, <2>1 DEF Scan, TypeOK, Work
  <2>3. EntriesOK'
    BY <1>8, <2>1 DEF Scan, EntriesOK, Listed, TypeOK, Work
  <2> QED BY <2>2, <2>3
<1>9. ASSUME NEW p \in Platforms, Move(p) PROVE TypeInv'
  <2>1. list[p] \in Entry
    BY <1>9 DEF Move, EntriesOK, Listed, TypeOK, Work
  <2>2. slot' \in [Slots -> Thread]
    <3>1. list[p].ip \in Addresses
      BY <2>1 DEF Entry
    <3>2. \A s \in Slots : slot[s] \in Thread /\ [slot[s] EXCEPT !.ip = list[p].ip] \in Thread
      BY <3>1 DEF TypeOK, Thread
    <3> QED BY <1>9, <3>2 DEF Move
  <2>3. TypeOK'
    BY <1>9, <2>2 DEF Move, TypeOK, Work
  <2>4. EntriesOK'
    BY <1>9 DEF Move, EntriesOK, Listed, TypeOK, Work
  <2> QED BY <2>3, <2>4
<1>10. ASSUME NEW p \in Platforms, Postpone(p) PROVE TypeInv'
  <2>1. list[p] \in Entry
    BY <1>10 DEF Postpone, EntriesOK, Listed, TypeOK, Work
  <2>2. /\ list' \in [Platforms -> Entry \cup {None}]
        /\ \A q \in Platforms : (list'[q] # None <=> list[q] # None)
                                /\ (list[q] # None => list'[q].ip = list[q].ip)
    BY <1>10, <2>1 DEF Postpone, Mark, TypeOK, Work, Entry, Marks
  <2>3. TypeOK'
    BY <1>10, <2>2 DEF Postpone, TypeOK, Work
  <2>4. EntriesOK'
    BY <1>10, <2>2 DEF Postpone, EntriesOK, Listed, TypeOK, Work
  <2> QED BY <2>3, <2>4
<1>11. CASE EndScan
  BY <1>11 DEF EndScan, TypeOK, Work, EntriesOK, Listed, Asleep
<1> QED
  BY <1>1, <1>2, <1>3, <1>4, <1>5, <1>6, <1>7, <1>8, <1>9, <1>10, <1>11 DEF Manager

LEMMA ThreadTypeInv == ASSUME TypeInv, NEW s \in Slots, ThreadStep(s) PROVE TypeInv'
<1> USE DEF TypeInv
<1>1. CASE BeginFetch(s)
  <2>1. slot' \in [Slots -> Thread]
    BY <1>1 DEF BeginFetch, TypeOK, Thread
  <2>2. TypeOK'
    BY <1>1, <2>1, SaveOK DEF BeginFetch, TypeOK
  <2> QED BY <1>1, <2>2 DEF BeginFetch, EntriesOK, Listed
<1>2. CASE EndFetch(s)
  <2>1. slot' \in [Slots -> Thread]
    BY <1>2 DEF EndFetch, TypeOK, Thread
  <2>2. TypeOK'
    BY <1>2, <2>1, SaveOK DEF EndFetch, TypeOK
  <2> QED BY <1>2, <2>2 DEF EndFetch, EntriesOK, Listed
<1>3. CASE CutFetch(s)
  BY <1>3, RestartTypeInv DEF CutFetch, TypeOK
<1>4. CASE Reread(s)
  <2>1. TypeOK'
    BY <1>4, ReadRowOK DEF Reread, TypeOK
  <2> QED BY <1>4, <2>1 DEF Reread, EntriesOK, Listed
<1> QED BY <1>1, <1>2, <1>3, <1>4 DEF ThreadStep

LEMMA EditTypeInv ==
  ASSUME TypeInv, NEW p \in Platforms, NEW ip \in Homes[p] \cup {None}, Edit(p, ip)
  PROVE  TypeInv'
<1>1. table' \in [Platforms -> Addresses \cup {None}]
      /\ \A q \in Platforms : table'[q] \in Homes[q] \cup {None}
  BY NoHomeIsNone DEF Edit, TypeInv, TypeOK
<1>2. saved' \in [Platforms -> [of : Platforms \cup {None}, status : {"rest", "busy"}]]
  BY DEF Edit, TypeInv, TypeOK
<1>3. TypeOK'
  BY <1>1, <1>2 DEF Edit, Fault, TypeInv, TypeOK
<1> QED BY <1>3 DEF TypeInv, Edit, EntriesOK, Listed

LEMMA NextTypeInv == TypeInv /\ [Next]_vars => TypeInv'
<1> SUFFICES ASSUME TypeInv, [Next]_vars PROVE TypeInv'
  OBVIOUS
<1>1. CASE UNCHANGED vars
  BY <1>1 DEF vars, TypeInv, TypeOK, EntriesOK, Listed
<1>2. CASE Next
  BY <1>2, ManagerTypeInv, ThreadTypeInv, EditTypeInv DEF Next
<1> QED BY <1>1, <1>2

LEMMA AlwaysTypeInv == Spec => []TypeInv
  BY InitTypeInv, NextTypeInv, PTL DEF Spec

(* Every variable of list, pool and manager has its type in every state.   *)
THEOREM TypeCorrect == Spec => []TypeOK
<1>1. TypeInv => TypeOK
  BY DEF TypeInv
<1> QED BY <1>1, AlwaysTypeInv, PTL

-----------------------------------------------------------------------------
(* One thread per platform.                                                *)

LEMMA NextServedOnce == TypeInv /\ ServedOnce /\ [Next]_vars => ServedOnce'
<1> SUFFICES ASSUME TypeInv, ServedOnce, [Next]_vars PROVE ServedOnce'
  OBVIOUS
<1> USE DEF TypeInv
<1>1. (\A s \in Slots : slot'[s].index \in {slot[s].index, None}) => ServedOnce'
  BY DEF ServedOnce
<1>2. Restarted => ServedOnce'
  BY <1>1 DEF Restarted, Free
<1>3. CASE Assign
  <2> DEFINE pool == Released(g.p)
             f    == First(FreeSlots(pool))
  <2>1. g.p \in Platforms /\ FreeSlots(pool) # {}
    BY <1>3 DEF Assign, TypeOK
  <2>2. f \in Slots /\ pool \in [Slots -> Thread]
        /\ \A s \in Slots : pool[s].index # g.p /\ pool[s].index \in {slot[s].index, None}
    BY <2>1, FirstFree, ReleasedPool DEF TypeOK
  <2>3. slot' = [pool EXCEPT ![f] = [@ EXCEPT !.index = g.p, !.ip = list[g.p].ip,
                                              !.status = "rest"]]
    BY <1>3 DEF Assign
  <2> HIDE DEF pool, f
  <2>4. \A s \in Slots : slot'[s].index = IF s = f THEN g.p ELSE pool[s].index
    BY <2>2, <2>3 DEF Thread
  <2> QED BY <2>2, <2>4 DEF ServedOnce
<1>4. CASE AssignFails
  <2>1. CASE slot' = Released(g.p)
    BY <1>1, <1>4, <2>1, ReleasedPool DEF AssignFails, TypeOK
  <2> QED BY <1>2, <1>4, <2>1 DEF AssignFails
<1>5. ASSUME NEW s \in Slots, ReadRow(s) PROVE ServedOnce'
  BY <1>1, <1>5, ReadRowOK, ReadRowKeeps
<1>6. CASE Load
  BY <1>5, <1>6 DEF Load, TypeOK
<1>7. ASSUME NEW p \in Platforms, Move(p) PROVE ServedOnce'
  BY <1>1, <1>7 DEF Move, TypeOK, Thread
<1>8. ASSUME NEW s \in Slots, ThreadStep(s) PROVE ServedOnce'
  BY <1>1, <1>2, <1>5, <1>8 DEF ThreadStep, BeginFetch, EndFetch, CutFetch, Reread, TypeOK, Thread
<1>9. CASE UNCHANGED slot
  BY <1>9 DEF ServedOnce
<1> QED
  BY <1>3, <1>4, <1>6, <1>7, <1>8, <1>9
     DEF Next, Manager, BeginReload, Select, TakeRow, RowsDone, Scan, Postpone, EndScan, Edit, vars

(* Two threads never serve one platform, also when it was deleted and      *)
(* entered again while its thread was fetching.                            *)
THEOREM OneThreadEach == Spec => []ServedOnce
<1>1. Init => ServedOnce
  BY DEF Init, Empty, ServedOnce, Free
<1> QED BY <1>1, AlwaysTypeInv, NextServedOnce, PTL DEF Spec

-----------------------------------------------------------------------------
(* Every platform of the list has a thread at its address.                 *)

(* While a reload goes on an address may have changed, with mark 1 until   *)
(* the scan takes it, and in moved until the thread gets it.  The mark 1   *)
(* of a new entry may stay longer, and says nothing.                       *)
Changing == g.reload /\ g.at \in {"rows", "assign", "load", "scan"}

AtHome(p, s) ==
  /\ Serves(s, p)
  /\ ~(Changing /\ list[p].mark = 1) /\ p \notin g.moved \cup missed => slot[s].ip = list[p].ip

ServedInv ==
  /\ \A p \in Platforms : Listed(p) /\ ~(g.at = "assign" /\ g.p = p) =>
       \E s \in Slots : AtHome(p, s)
  /\ g.at = "start" => \A p \in Platforms : ~Listed(p)
  /\ g.at \in {"select", "scan"} => g.reload
  /\ ~g.reload => \A p \in Platforms : Listed(p) => g.rows[p] = None

LEMMA RestartServedInv == Restarted => ServedInv'
  BY DEF Restarted, ServedInv, Starting, Asleep, Listed

(* A step that changes at most what the threads do.                        *)
LEMMA SameServedInv ==
  ASSUME ServedInv, UNCHANGED <<list, g, missed>>,
         \A s \in Slots : slot'[s].index = slot[s].index /\ slot'[s].ip = slot[s].ip
  PROVE  ServedInv'
  BY DEF ServedInv, AtHome, Changing, Serves, Listed

LEMMA ThreadServedInv ==
  ASSUME TypeInv, ServedInv, NEW s \in Slots, ThreadStep(s)
  PROVE  ServedInv'
<1>1. CASE BeginFetch(s)
  BY <1>1, SameServedInv DEF BeginFetch, TypeInv, TypeOK, Thread
<1>2. CASE EndFetch(s)
  BY <1>2, SameServedInv DEF EndFetch, TypeInv, TypeOK, Thread
<1>3. CASE CutFetch(s)
  BY <1>3, RestartServedInv DEF CutFetch
<1>4. CASE Reread(s)
  BY <1>4, ReadRowKeeps, SameServedInv DEF Reread, TypeInv
<1> QED BY <1>1, <1>2, <1>3, <1>4 DEF ThreadStep

LEMMA ManagerServedInv ==
  TypeInv /\ ServedInv /\ (BeginReload \/ Manager) => ServedInv'
<1> SUFFICES ASSUME TypeInv, ServedInv, BeginReload \/ Manager PROVE ServedInv'
  OBVIOUS
<1> USE NoneIsNoName DEF TypeInv
<1>1. CASE BeginReload
  <2>1. \A p \in Platforms : /\ list'[p] # None <=> list[p] # None
                             /\ list[p] # None => list'[p].ip = list[p].ip
    BY <1>1 DEF BeginReload, TypeOK, Listed, Entry, Marks
  <2>2. g.at = "sleep" /\ g' = [Asleep EXCEPT !.at = "select", !.reload = TRUE]
        /\ UNCHANGED <<slot, missed>> /\ g.moved = {}
    BY <1>1 DEF BeginReload, EntriesOK
  <2>3. g'.at = "select" /\ g'.reload /\ g'.moved = {}
    BY <2>2 DEF Asleep
  <2> QED BY <2>1, <2>2, <2>3 DEF ServedInv, AtHome, Changing, Serves, Listed
<1>2. CASE Select
  <2>1. g.at \in {"select", "start"} /\ UNCHANGED <<list, slot, missed>>
    BY <1>2 DEF Select
  <2>2. g'.at = "rows" /\ g'.reload = g.reload /\ g'.moved = g.moved
        /\ (g.at = "select" => g'.at = "rows")
    BY <1>2 DEF Select, TypeOK, Work
  <2>3. ~g.reload => \A p \in Platforms : Listed(p) => g'.rows[p] = None
    <3>1. CASE g.at = "start"
      BY <3>1 DEF ServedInv
    <3>2. CASE g.at = "select"
      BY <3>2 DEF ServedInv
    <3> QED BY <2>1, <3>1, <3>2
  <2> QED BY <2>1, <2>2, <2>3 DEF ServedInv, AtHome, Changing, Serves, Listed
<1>3. ASSUME NEW p \in Platforms, TakeRow(p) PROVE ServedInv'
  <2>1. g.at = "rows" /\ g.rows[p] # None /\ g.moved = {} /\ UNCHANGED <<slot, missed>>
    BY <1>3 DEF TakeRow, EntriesOK
  <2>2. CASE Listed(p)
    <3>1. list' = [list EXCEPT ![p] = Kept(p)] /\ g' = [g EXCEPT !.rows[p] = None] /\ g.reload
      BY <1>3, <2>1, <2>2 DEF TakeRow, ServedInv
    <3>2. g'.at = "rows" /\ g'.reload /\ g'.moved = {}
      BY <2>1, <3>1 DEF TypeOK, Work
    <3>3. \A q \in Platforms : q # p => list'[q] = list[q]
      BY <3>1 DEF TypeOK
    <3>4. list'[p] = Kept(p) /\ list[p] \in Entry
      BY <2>2, <3>1 DEF TypeOK, Listed
    <3>5. Kept(p).mark # 1 => Kept(p).ip = list[p].ip /\ list[p].mark # 1
      BY <3>4 DEF Kept, Entry
    <3>6. PICK s \in Slots : AtHome(p, s)
      BY <2>1, <2>2 DEF ServedInv
    <3>7. AtHome(p, s)'
      BY <2>1, <3>2, <3>4, <3>5, <3>6 DEF AtHome, Changing, Serves
    <3>8. \A q \in Platforms : q # p /\ Listed(q) => \E t \in Slots : AtHome(q, t)'
      BY <2>1, <3>2, <3>3 DEF ServedInv, AtHome, Changing, Serves
    <3> QED BY <3>2, <3>3, <3>7, <3>8 DEF ServedInv, Listed
  <2>3. CASE ~Listed(p)
    <3> PICK m \in Marks : list' = [list EXCEPT ![p] = [ip |-> g.rows[p], mark |-> m]]
      BY <1>3, <2>3 DEF TakeRow
    <3>1. /\ list' = [list EXCEPT ![p] = [ip |-> g.rows[p], mark |-> m]]
          /\ g' = [g EXCEPT !.rows[p] = None, !.at = "assign", !.p = p]
      BY <1>3, <2>3 DEF TakeRow
    <3>2. /\ g'.at = "assign" /\ g'.p = p /\ g'.reload = g.reload /\ g'.moved = {}
          /\ g'.rows = [g.rows EXCEPT ![p] = None]
      BY <2>1, <3>1 DEF TypeOK, Work
    <3>3. \A q \in Platforms : q # p => list'[q] = list[q] /\ g'.rows[q] = g.rows[q]
      BY <3>1, <3>2 DEF TypeOK, Work
    <3>4. g'.rows[p] = None
      BY <3>1, <3>2 DEF TypeOK, Work
    <3>5. \A q \in Platforms : q # p /\ Listed(q) => \E t \in Slots : AtHome(q, t)'
      BY <2>1, <3>2, <3>3 DEF ServedInv, AtHome, Changing, Serves
    <3> QED BY <2>1, <3>2, <3>3, <3>4, <3>5 DEF ServedInv, Listed
  <2> QED BY <2>2, <2>3
<1>4. CASE RowsDone
  <2>1. g'.at = (IF g.reload THEN "scan" ELSE "sleep") /\ g'.moved = {} /\ g'.reload = g.reload
        /\ \A p \in Platforms : g'.rows[p] = None
    BY <1>4 DEF RowsDone, TypeOK, Work, EntriesOK, Asleep
  <2>2. g.at = "rows" /\ g.moved = {} /\ UNCHANGED <<list, slot, missed>>
    BY <1>4 DEF RowsDone, EntriesOK
  <2> QED BY <2>1, <2>2 DEF ServedInv, AtHome, Changing, Serves, Listed
<1>5. CASE Assign
  <2> DEFINE pool == Released(g.p)
             f    == First(FreeSlots(pool))
  <2>1. g.at = "assign" /\ g.p \in Platforms /\ FreeSlots(pool) # {} /\ g.moved = {}
    BY <1>5 DEF Assign, TypeOK, EntriesOK
  <2>2. f \in Slots /\ pool \in [Slots -> Thread] /\ pool[f].index = None
    BY <2>1, FirstFree, ReleasedPool DEF TypeOK
  <2>3. \A s \in Slots : slot[s].index # g.p => pool[s] = slot[s]
    BY <2>1, ReleasedPool DEF TypeOK
  <2>4. /\ slot' = [pool EXCEPT ![f] = [@ EXCEPT !.index = g.p, !.ip = list[g.p].ip,
                                                 !.status = "rest"]]
        /\ g' = [g EXCEPT !.at = "load", !.slot = f] /\ missed' = missed \ {g.p}
        /\ list' = list
    BY <1>5 DEF Assign
  <2> HIDE DEF pool, f
  <2>5. slot'[f].index = g.p /\ slot'[f].ip = list[g.p].ip
    BY <2>2, <2>4 DEF Thread
  <2>6. \A s \in Slots : slot[s].index \notin {g.p, None} => slot'[s] = slot[s]
    BY <2>2, <2>3, <2>4
  <2>7. g'.at = "load" /\ g'.p = g.p /\ g'.moved = {} /\ g'.reload = g.reload /\ g'.rows = g.rows
    BY <2>1, <2>4 DEF TypeOK, Work
  <2>8. \A p \in Platforms, s \in Slots : p = g.p /\ s = f => AtHome(p, s)'
    BY <2>4, <2>5, <2>7 DEF AtHome, Changing, Serves
  <2>9. ASSUME NEW q \in Platforms, q # g.p, Listed(q) PROVE \E t \in Slots : AtHome(q, t)'
    <3>1. PICK t \in Slots : AtHome(q, t)
      BY <2>9 DEF ServedInv
    <3>2. slot'[t] = slot[t]
      BY <2>6, <2>9, <3>1 DEF AtHome, Changing, Serves
    <3> QED BY <2>1, <2>4, <2>7, <2>9, <3>1, <3>2 DEF AtHome, Changing, Serves
  <2>10. \A q \in Platforms : Listed(q)' => \E t \in Slots : AtHome(q, t)'
    BY <2>1, <2>2, <2>4, <2>8, <2>9 DEF Listed
  <2> QED BY <2>1, <2>4, <2>7, <2>10 DEF ServedInv, Listed
<1>6. CASE AssignFails
  <2>1. CASE /\ list' = EntryRemoved(g.p) /\ slot' = Released(g.p)
             /\ g' = [g EXCEPT !.at = "rows", !.p = None] /\ missed' = missed \ {g.p}
    <3>1. g.at = "assign" /\ g.p \in Platforms /\ g.moved = {}
      BY <1>6 DEF AssignFails, TypeOK, EntriesOK
    <3>2. \A s \in Slots : slot[s].index # g.p => slot'[s] = slot[s]
      BY <2>1, <3>1, ReleasedPool DEF TypeOK
    <3>3. g'.at = "rows" /\ g'.moved = {} /\ g'.reload = g.reload /\ g'.rows = g.rows
      BY <2>1, <3>1 DEF TypeOK, Work
    <3>4. list'[g.p] = None /\ \A q \in Platforms : q # g.p => list'[q] = list[q]
      BY <2>1, <3>1 DEF EntryRemoved, TypeOK
    <3>5. ASSUME NEW q \in Platforms, q # g.p, Listed(q) PROVE \E t \in Slots : AtHome(q, t)'
      <4>1. PICK t \in Slots : AtHome(q, t)
        BY <3>5 DEF ServedInv
      <4>2. slot'[t] = slot[t]
        BY <3>2, <3>5, <4>1 DEF AtHome, Changing, Serves
      <4> QED BY <2>1, <3>1, <3>3, <3>4, <3>5, <4>1, <4>2 DEF AtHome, Changing, Serves
    <3> QED BY <3>1, <3>3, <3>4, <3>5 DEF ServedInv, Listed
  <2> QED BY <1>6, <2>1, RestartServedInv DEF AssignFails
<1>7. CASE Load
  <2>1. \A s \in Slots : slot'[s].index = slot[s].index /\ slot'[s].ip = slot[s].ip
    BY <1>7, ReadRowKeeps DEF Load, TypeOK
  <2>2. g'.at = "rows" /\ g'.moved = g.moved /\ g'.reload = g.reload /\ g'.rows = g.rows
    BY <1>7 DEF Load, TypeOK, Work
  <2>3. g.at = "load" /\ UNCHANGED <<list, missed>>
    BY <1>7 DEF Load
  <2> QED BY <2>1, <2>2, <2>3 DEF ServedInv, AtHome, Changing, Serves, Listed
<1>8. CASE Scan
  <2>1. /\ g.at \in {"sleep", "scan"} /\ g.moved = {} /\ UNCHANGED <<slot, missed>>
        /\ g'.at = "apply" /\ g'.reload = g.reload /\ g'.rows = g.rows
        /\ g'.moved = {p \in Platforms : Listed(p) /\ list[p].mark = 1}
    BY <1>8 DEF Scan, TypeOK, Work, EntriesOK
  <2>2. \A p \in Platforms : /\ list'[p] # None <=> list[p] # None
                             /\ list[p] # None => /\ list'[p].ip = list[p].ip
                                                  /\ list'[p].mark # 1
    BY <1>8 DEF Scan, TypeOK, Listed, Entry, Marks
  <2> QED BY <2>1, <2>2 DEF ServedInv, AtHome, Changing, Serves, Listed
<1>9. ASSUME NEW p \in Platforms, Move(p) PROVE ServedInv'
  <2>1. /\ g.at = "apply" /\ list' = list
        /\ g'.at = "apply" /\ g'.reload = g.reload /\ g'.rows = g.rows
        /\ g'.moved = g.moved \ {p}
    BY <1>9 DEF Move, TypeOK, Work
  <2>2. \A s \in Slots : /\ slot'[s].index = slot[s].index
                         /\ ~Serves(s, p) => slot'[s].ip = slot[s].ip
                         /\ Serves(s, p) /\ Idle(s) => slot'[s].ip = list[p].ip
    BY <1>9 DEF Move, TypeOK, Thread
  <2>3. /\ p \notin missed' => \A s \in Slots : Serves(s, p) => Idle(s)
        /\ \A q \in Platforms : q # p => (q \in missed' <=> q \in missed)
    BY <1>9 DEF Move
  <2>4. \A s \in Slots : AtHome(p, s) => AtHome(p, s)'
    BY <2>1, <2>2, <2>3 DEF AtHome, Changing, Serves
  <2>5. \A q \in Platforms, s \in Slots : q # p /\ AtHome(q, s) => AtHome(q, s)'
    BY <2>1, <2>2, <2>3 DEF AtHome, Changing, Serves
  <2> QED BY <2>1, <2>4, <2>5 DEF ServedInv, Listed
<1>10. ASSUME NEW p \in Platforms, Postpone(p) PROVE ServedInv'
  <2>1. /\ g.at = "apply" /\ UNCHANGED <<slot, missed>>
        /\ g'.at = "apply" /\ g'.reload = g.reload /\ g'.rows = g.rows /\ g'.moved = g.moved
        /\ list[p] \in Entry
    BY <1>10 DEF Postpone, TypeOK, Work, EntriesOK, Listed
  <2>2. \A q \in Platforms : /\ list'[q] # None <=> list[q] # None
                             /\ list[q] # None => list'[q].ip = list[q].ip
    BY <1>10, <2>1 DEF Postpone, TypeOK, Entry, Marks, Mark, Listed
  <2> QED BY <2>1, <2>2 DEF ServedInv, AtHome, Changing, Serves, Listed
<1>11. CASE EndScan
  <2>1. /\ g.at = "apply" /\ g.moved = {} /\ UNCHANGED <<slot, missed>>
        /\ g'.at = "sleep" /\ ~g'.reload /\ g'.moved = {}
        /\ \A p \in Platforms : g'.rows[p] = None
    BY <1>11 DEF EndScan, Asleep
  <2>2. \A p \in Platforms : list'[p] # None => list[p] # None /\ list'[p] = list[p]
    BY <1>11 DEF EndScan, TypeOK, Listed
  <2> QED BY <2>1, <2>2 DEF ServedInv, AtHome, Changing, Serves, Listed
<1> QED
  BY <1>1, <1>2, <1>3, <1>4, <1>5, <1>6, <1>7, <1>8, <1>9, <1>10, <1>11 DEF Manager

LEMMA NextServedInv == TypeInv /\ ServedInv /\ [Next]_vars => ServedInv'
<1> SUFFICES ASSUME TypeInv, ServedInv, [Next]_vars PROVE ServedInv'
  OBVIOUS
<1>1. CASE UNCHANGED <<list, g, missed, slot>>
  BY <1>1, SameServedInv
<1> QED BY <1>1, ManagerServedInv, ThreadServedInv DEF Next, Edit, vars

(* Whenever the manager sleeps, every platform of the list has a thread,   *)
(* at the address of the list unless it was fetching when that changed.    *)
THEOREM ListedServed == Spec => []ListedIsServed
<1>1. Init => ServedInv
  BY DEF Init, Empty, ServedInv, Starting, Asleep, Listed
<1>2. TypeInv /\ ServedInv => ListedIsServed
  BY DEF TypeInv, EntriesOK, ServedInv, AtHome, Changing, ListedIsServed, Listed
<1> QED BY <1>1, <1>2, AlwaysTypeInv, NextServedInv, PTL DEF Spec

-----------------------------------------------------------------------------
(* A platform's progress is its own.                                       *)

(* A thread is at an address of its platform, has read nothing while it is *)
(* free, and what it has read is the platform's own progress.              *)
OwnThread(s) ==
  /\ Serves(s, None) => slot[s].ip = None /\ ~slot[s].read
  /\ ~Serves(s, None) =>
       /\ slot[s].ip \in Homes[slot[s].index]
       /\ slot[s].read /\ slot[s].of # slot[s].index => slot[s].index \in early

OwnInv == (\A s \in Slots : OwnThread(s)) /\ ProgressIsOwn

(* The only row with the address of a thread is that of its platform.      *)
LEMMA OwnRow ==
  ASSUME TypeInv, NEW s \in Slots, OwnThread(s), NEW p \in RowsAt(slot[s].ip)
  PROVE  p = slot[s].index /\ slot[s].index \in Platforms
<1>1. p \in Platforms /\ slot[s].ip \in Homes[p] /\ slot[s].ip # None
  BY DEF RowsAt, TypeInv, TypeOK
<1>2. slot[s].index \in Platforms /\ slot[s].ip \in Homes[slot[s].index]
  BY <1>1 DEF OwnThread, Serves, TypeInv, TypeOK, Thread
<1> QED BY <1>1, <1>2, HomesAreApart

LEMMA RestartOwnInv == OwnInv /\ Restarted /\ UNCHANGED <<saved, early>> => OwnInv'
  BY DEF OwnInv, Restarted, OwnThread, Serves, Free, ProgressIsOwn

LEMMA ReadRowOwnInv ==
  ASSUME TypeInv, OwnInv, NEW s \in Slots, ReadRow(s), UNCHANGED <<saved, early>>
  PROVE  OwnInv'
<1>1. CASE UNCHANGED slot
  BY <1>1 DEF OwnInv, OwnThread, Serves, ProgressIsOwn
<1>2. ASSUME NEW p \in RowsAt(slot[s].ip),
             slot' = [slot EXCEPT ![s] = [@ EXCEPT !.of = saved[p].of, !.status = saved[p].status,
                                                   !.read = TRUE]]
      PROVE  OwnInv'
  <2>1. p = slot[s].index /\ p \in Platforms
    BY <1>2, OwnRow DEF OwnInv
  <2>2. slot[s] \in Thread /\ slot \in [Slots -> Thread]
    BY DEF TypeInv, TypeOK
  <2>3. slot'[s].index = p /\ slot'[s].ip = slot[s].ip /\ slot'[s].of = saved[p].of
    BY <1>2, <2>1, <2>2 DEF Thread
  <2>4. OwnThread(s)'
    BY <2>1, <2>3, NoneIsNoName DEF OwnInv, OwnThread, Serves, ProgressIsOwn
  <2>5. \A t \in Slots : t # s => slot'[t] = slot[t]
    BY <1>2, <2>2
  <2> QED BY <2>4, <2>5 DEF OwnInv, OwnThread, Serves, ProgressIsOwn
<1> QED BY <1>1, <1>2 DEF ReadRow

LEMMA SaveOwnInv ==
  ASSUME TypeInv, OwnInv, NEW s \in Slots, NEW status, Save(s, status),
         \A t \in Slots : /\ slot'[t].index = slot[t].index /\ slot'[t].ip = slot[t].ip
                          /\ slot'[t].of = slot[t].of /\ slot'[t].read = slot[t].read
  PROVE  OwnInv'
<1>1. early \subseteq early'
  BY DEF Save
<1>2. \A t \in Slots : OwnThread(t)'
  BY <1>1 DEF OwnInv, OwnThread, Serves
<1>3. ASSUME NEW p \in Platforms, saved'[p].of # p PROVE p \in early'
  <2>1. CASE p \in RowsAt(slot[s].ip)
    <3>1. p = slot[s].index /\ p \in Platforms
      BY <2>1, OwnRow DEF OwnInv
    <3>2. saved'[p].of = slot[s].of
      BY <2>1 DEF Save
    <3>3. CASE slot[s].read
      BY <1>1, <1>3, <3>1, <3>2, <3>3, NoneIsNoName DEF OwnInv, OwnThread, Serves
    <3>4. CASE ~slot[s].read
      BY <2>1, <3>4 DEF Save
    <3> QED BY <3>3, <3>4
  <2>2. CASE p \notin RowsAt(slot[s].ip)
    BY <1>1, <1>3, <2>2 DEF Save, OwnInv, ProgressIsOwn
  <2> QED BY <2>1, <2>2
<1> QED BY <1>2, <1>3 DEF OwnInv, ProgressIsOwn

LEMMA NextOwnInv == TypeInv /\ OwnInv /\ [Next]_vars => OwnInv'
<1> SUFFICES ASSUME TypeInv, OwnInv, [Next]_vars PROVE OwnInv'
  OBVIOUS
<1>1. CASE Assign
  <2> DEFINE pool == Released(g.p)
             f    == First(FreeSlots(pool))
  <2>1. /\ g.p \in Platforms /\ FreeSlots(pool) # {} /\ list[g.p] \in Entry
        /\ list[g.p].ip \in Homes[g.p]
    BY <1>1 DEF Assign, TypeInv, TypeOK, EntriesOK, Listed
  <2>2. f \in Slots /\ pool \in [Slots -> Thread] /\ pool[f].index = None
    BY <2>1, FirstFree, ReleasedPool DEF TypeInv, TypeOK
  <2>3. \A s \in Slots : pool[s] = slot[s] \/ pool[s] = Recycled(s)
    BY <2>1, ReleasedPool DEF TypeInv, TypeOK
  <2>4. slot' = [pool EXCEPT ![f] = [@ EXCEPT !.index = g.p, !.ip = list[g.p].ip,
                                              !.status = "rest"]]
        /\ UNCHANGED <<saved, early>>
    BY <1>1 DEF Assign
  <2> HIDE DEF pool, f
  <2>5. \A s \in Slots : pool[s].index = None => ~pool[s].read /\ pool[s].ip = None
    <3> SUFFICES ASSUME NEW s \in Slots, pool[s].index = None
                 PROVE  ~pool[s].read /\ pool[s].ip = None
      OBVIOUS
    <3>1. CASE pool[s] = slot[s]
      BY <3>1 DEF OwnInv, OwnThread, Serves
    <3>2. CASE pool[s] = Recycled(s)
      BY <3>2 DEF Recycled, Free
    <3> QED BY <2>3, <3>1, <3>2
  <2>6. \A s \in Slots : pool[s].index # None => pool[s] = slot[s]
    BY <2>3 DEF Recycled, Free
  <2>7. slot'[f].index = g.p /\ slot'[f].ip = list[g.p].ip /\ slot'[f].read = FALSE
    BY <2>2, <2>4, <2>5 DEF Thread
  <2>8. \A s \in Slots : s # f => slot'[s] = pool[s]
    BY <2>2, <2>4
  <2>9. ASSUME NEW s \in Slots PROVE OwnThread(s)'
    <3>1. CASE s = f
      BY <2>1, <2>7, <3>1, NoneIsNoName DEF OwnThread, Serves
    <3>2. CASE s # f
      BY <2>4, <2>5, <2>6, <2>8, <3>2 DEF OwnInv, OwnThread, Serves
    <3> QED BY <3>1, <3>2
  <2> QED BY <2>4, <2>9 DEF OwnInv, ProgressIsOwn
<1>2. CASE AssignFails
  <2>1. CASE slot' = Released(g.p)
    <3>1. \A s \in Slots : slot'[s] = slot[s] \/ slot'[s] = Recycled(s)
      BY <1>2, <2>1, ReleasedPool DEF AssignFails, TypeInv, TypeOK
    <3>2. UNCHANGED <<saved, early>>
      BY <1>2 DEF AssignFails
    <3>3. \A s \in Slots : Recycled(s).index = None /\ Recycled(s).ip = None /\ ~Recycled(s).read
      BY DEF Recycled, Free
    <3>4. \A s \in Slots : OwnThread(s)'
      <4> TAKE s \in Slots
      <4>1. CASE slot'[s] = slot[s]
        BY <3>2, <4>1 DEF OwnInv, OwnThread, Serves
      <4>2. CASE slot'[s] = Recycled(s)
        BY <3>3, <4>2 DEF OwnThread, Serves
      <4> QED BY <3>1, <4>1, <4>2
    <3> QED BY <3>2, <3>4 DEF OwnInv, ProgressIsOwn
  <2> QED BY <1>2, <2>1, RestartOwnInv DEF AssignFails
<1>3. CASE Load
  BY <1>3, ReadRowOwnInv DEF Load, TypeInv, TypeOK
<1>4. ASSUME NEW p \in Platforms, Move(p) PROVE OwnInv'
  <2>1. list[p].ip \in Homes[p] /\ UNCHANGED <<saved, early>>
    BY <1>4 DEF Move, TypeInv, EntriesOK
  <2>2. \A s \in Slots : /\ slot'[s].index = slot[s].index /\ slot'[s].of = slot[s].of
                         /\ slot'[s].read = slot[s].read
                         /\ \/ slot'[s].ip = slot[s].ip
                            \/ Serves(s, p) /\ slot'[s].ip = list[p].ip
    <3> TAKE s \in Slots
    <3>1. slot[s] \in Thread
      BY DEF TypeInv, TypeOK
    <3>2. CASE Serves(s, p) /\ Idle(s)
      <4>1. slot'[s] = [slot[s] EXCEPT !.ip = list[p].ip]
        BY <1>4, <3>2 DEF Move
      <4> QED BY <3>1, <3>2, <4>1 DEF Thread
    <3>3. CASE ~(Serves(s, p) /\ Idle(s))
      <4>1. slot'[s] = slot[s]
        BY <1>4, <3>3 DEF Move
      <4> QED BY <4>1
    <3> QED BY <3>2, <3>3
  <2> QED BY <2>1, <2>2, NoneIsNoName DEF OwnInv, OwnThread, Serves, ProgressIsOwn
<1>5. ASSUME NEW s \in Slots, BeginFetch(s) PROVE OwnInv'
  BY <1>5, SaveOwnInv DEF BeginFetch, TypeInv, TypeOK, Thread
<1>6. ASSUME NEW s \in Slots, EndFetch(s) PROVE OwnInv'
  BY <1>6, SaveOwnInv DEF EndFetch, TypeInv, TypeOK, Thread
<1>7. ASSUME NEW s \in Slots, CutFetch(s) PROVE OwnInv'
  BY <1>7, RestartOwnInv DEF CutFetch
<1>8. ASSUME NEW s \in Slots, Reread(s) PROVE OwnInv'
  BY <1>8, ReadRowOwnInv DEF Reread
<1>9. ASSUME NEW p \in Platforms, NEW ip, Edit(p, ip) PROVE OwnInv'
  <2>1. UNCHANGED <<slot, early>>
    BY <1>9 DEF Edit
  <2>2. \A q \in Platforms : saved'[q] = saved[q] \/ saved'[q].of = q
    BY <1>9 DEF Edit, TypeInv, TypeOK
  <2> QED BY <2>1, <2>2 DEF OwnInv, OwnThread, Serves, ProgressIsOwn
<1>10. CASE UNCHANGED <<slot, saved, early>>
  BY <1>10 DEF OwnInv, OwnThread, Serves, ProgressIsOwn
<1> QED
  BY <1>1, <1>2, <1>3, <1>4, <1>5, <1>6, <1>7, <1>8, <1>9, <1>10
     DEF Next, Manager, ThreadStep, BeginReload, Select, TakeRow, RowsDone, Scan, Postpone,
         EndScan, vars

(* The progress in a row is the platform's own, unless a thread that was   *)
(* assigned at run time saved its fields before it had read a row.         *)
THEOREM OwnProgress == Spec => []ProgressIsOwn
<1>1. Init => OwnInv
  BY DEF Init, Empty, OwnInv, OwnThread, Serves, Free, ProgressIsOwn
<1>2. OwnInv => ProgressIsOwn
  BY DEF OwnInv
<1> QED BY <1>1, <1>2, AlwaysTypeInv, NextOwnInv, PTL DEF Spec
=============================================================================
