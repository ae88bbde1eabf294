-------------------------- MODULE ZRVDevice_proofs --------------------------
(* Proofs about ZRVDevice, for any devices, slots, numbers of sockets,     *)
(* expiry and faults.                                                      *)
EXTENDS ZRVDevice, WellFoundedInduction, TLAPS

-----------------------------------------------------------------------------
(* The first free slot and the lowest free number.                         *)

LEMMA FirstIsLeast ==
  ASSUME NEW S \in SUBSET Nat, S # {}
  PROVE  First(S) \in S
<1> DEFINE R == {ss \in Nat \X Nat : ss[1] < ss[2]}
<1>1. IsWellFoundedOn(R, Nat)
  BY NatLessThanWellFounded DEF OpToRel
<1>2. PICK e \in S : \A f \in S : <<f, e>> \notin R
  <2> HIDE DEF R
  <2> QED BY <1>1, WFMin
<1>3. ASSUME NEW f \in S PROVE e <= f
  <2>1. <<f, e>> \in Nat \X Nat /\ <<f, e>> \notin R
    BY <1>2
  <2>2. ~(f < e)
    BY <2>1
  <2> QED BY <2>2
<1> QED BY <1>3 DEF First

LEMMA NewNumber == FreeSocks # {} => NewSock \in Socks /\ conn[NewSock] = None
<1>1. FreeSocks \in SUBSET Nat
  BY DEF FreeSocks, Socks
<1> QED BY <1>1, FirstIsLeast DEF NewSock, FreeSocks

LEMMA NewPlace == FreeSlots # {} => NewSlot \in Slots /\ slot[NewSlot].sock = 0
<1>1. FreeSlots \in SUBSET Nat
  BY DEF FreeSlots, Slots
<1> QED BY <1>1, FirstIsLeast DEF NewSlot, FreeSlots

-----------------------------------------------------------------------------
(* Types, and where each thread's places lie.                              *)

TcpAt ==
  /\ k.at = "accept" => backlog # <<>>
  /\ k.at \in {"slots", "gone", "table"} => k.p \in Slots
  /\ k.at \in {"gone", "table"} => k.sock \in Socks
  /\ k.at = "table" => k.dev \in Devices

SendAt ==
  /\ x.at # "idle" => x.dev \in Devices
  /\ x.at \in {"close", "clear"} => x.p \in Slots

SlotIp   == \A s \in Slots : slot[s].sock # 0 => slot[s].ip \in Devices
Expiring == \A d \in Devices : Online(d) /\ reg[d].left = 0 => d \in due

TypeInv == TypeOK /\ TcpAt /\ SendAt /\ SlotIp /\ Expiring

LEMMA IdleTypes ==
  /\ NoSlot \in Client /\ Unknown \in Info /\ Loaded \in Info
  /\ KIdle \in TcpPlace /\ XIdle \in SendPlace
  /\ NoSlot.sock = 0 /\ KIdle.at = "select" /\ XIdle.at = "idle"
  /\ Unknown.sock = 0 /\ Loaded.sock = 0 /\ ~Unknown.crossed /\ ~Loaded.crossed
<1>1. NoSlot \in Client /\ NoSlot.sock = 0
  BY SizesArePositive DEF NoSlot, Client
<1>2. Unknown \in Info /\ Unknown.sock = 0 /\ ~Unknown.crossed
  BY SizesArePositive DEF Unknown, Info
<1>3. Loaded \in Info /\ Loaded.sock = 0 /\ ~Loaded.crossed
  BY <1>2 DEF Loaded, Info
<1>4. KIdle \in TcpPlace /\ KIdle.at = "select"
  BY SizesArePositive DEF KIdle, TcpPlace
<1>5. XIdle \in SendPlace /\ XIdle.at = "idle"
  BY SizesArePositive DEF XIdle, SendPlace
<1> QED BY <1>1, <1>2, <1>3, <1>4, <1>5

LEMMA InitTypeInv == Init => TypeInv
<1> SUFFICES ASSUME Init PROVE TypeInv
  OBVIOUS
<1>1. reg \in [Devices -> Info] /\ \A d \in Devices : reg[d].sock = 0
  BY IdleTypes DEF Init
<1>2. backlog \in Seq(Devices)
  BY DEF Init
<1>3. TypeOK
  BY <1>1, <1>2, IdleTypes DEF Init, TypeOK
<1>4. TcpAt /\ SendAt /\ SlotIp /\ Expiring
  BY <1>1, IdleTypes DEF Init, TcpAt, SendAt, SlotIp, Expiring, Online
<1> QED BY <1>3, <1>4 DEF TypeInv

(* A registration that ends, wherever it is ended.                         *)
LEMMA OfflineType ==
  ASSUME NEW r \in Info
  PROVE  /\ Offline(r) \in Info /\ Offline(r).sock = 0 /\ ~Offline(r).on
         /\ ~Offline(r).crossed
<1>1. 0 \in 0 .. F /\ 0 \in 0 .. E
  BY SizesArePositive
<1> QED BY <1>1 DEF Offline, Info

LEMMA OneOffline ==
  ASSUME TypeInv, NEW d \in Devices, NEW r \in Info, reg' = [reg EXCEPT ![d] = Offline(r)],
         due \ {d} \subseteq due', due' \subseteq Devices
  PROVE  /\ reg' \in [Devices -> Info] /\ Expiring'
         /\ reg'[d].sock = 0 /\ \A e \in Devices : e # d => reg'[e] = reg[e]
<1>1. /\ reg' \in [Devices -> Info] /\ reg'[d].sock = 0
      /\ \A e \in Devices : e # d => reg'[e] = reg[e]
  BY OfflineType DEF TypeInv, TypeOK
<1>2. Expiring'
  BY <1>1 DEF TypeInv, Expiring, Online
<1> QED BY <1>1, <1>2

(* The next slot, or the end of the call.                                  *)
LEMMA NextSlotType ==
  ASSUME TypeInv, NextSlot, k.p \in Slots
  PROVE  k' \in TcpPlace /\ TcpAt' /\ k'.at \in {"select", "slots"}
<1>1. CASE k.p = N
  BY <1>1, IdleTypes DEF NextSlot, TcpAt
<1>2. CASE k.p # N
  <2>1. k' = [k EXCEPT !.at = "slots", !.p = @ + 1, !.sock = 0, !.dev = None]
    BY <1>2 DEF NextSlot
  <2>2. k.p + 1 \in Slots /\ k.p + 1 \in 0 .. N + 1 /\ 0 \in 0 .. F
    BY <1>2, SizesArePositive DEF Slots
  <2>3. k' \in TcpPlace /\ k'.at = "slots" /\ k'.p = k.p + 1
    BY <2>1, <2>2 DEF TypeInv, TypeOK, TcpPlace
  <2> QED BY <2>2, <2>3 DEF TcpAt
<1> QED BY <1>1, <1>2

(* Closing sockets, and clearing their slots.                              *)
LEMMA ClosedType ==
  ASSUME TypeInv, NEW S
  PROVE  Closed(S) \in [Socks -> Conn \cup {None}]
  BY DEF Closed, TypeInv, TypeOK

LEMMA EmptiedType ==
  ASSUME TypeInv, NEW S, slot' = Emptied(S)
  PROVE  slot' \in [Slots -> Client] /\ SlotIp'
  BY IdleTypes DEF Emptied, TypeInv, TypeOK, SlotIp

LEMMA OneEmptiedType ==
  ASSUME TypeInv, NEW s \in Slots, slot' = [slot EXCEPT ![s] = NoSlot]
  PROVE  slot' \in [Slots -> Client] /\ SlotIp'
  BY IdleTypes DEF TypeInv, TypeOK, SlotIp

LEMMA SelectTypeInv == TypeInv /\ Select => TypeInv'
<1> SUFFICES ASSUME TypeInv, Select PROVE TypeInv'
  OBVIOUS
<1>1. PICK R \in SUBSET Used :
        \/ backlog # <<>> /\ k' = [KIdle EXCEPT !.at = "accept", !.ready = R]
        \/ k' = [KIdle EXCEPT !.at = "slots", !.ready = R, !.p = 1]
  BY DEF Select
<1>2. R \subseteq Socks
  BY DEF Used, Socks, TypeInv, TypeOK, Client
<1>3. 1 \in 0 .. N + 1 /\ 1 \in Slots
  BY SizesArePositive DEF Slots
<1>4. /\ k' \in TcpPlace /\ k'.at \in {"accept", "slots"}
      /\ k'.at = "slots" => k'.p \in Slots
      /\ k'.at = "accept" => backlog # <<>>
  BY ZenonT(30), <1>1, <1>2, <1>3, IdleTypes DEF TcpPlace
<1>5. TypeOK' /\ TcpAt'
  BY <1>4 DEF Select, TypeInv, TypeOK, TcpAt
<1>6. SendAt' /\ SlotIp' /\ Expiring'
  BY DEF Select, TypeInv, SendAt, SlotIp, Expiring, Online
<1> QED BY <1>5, <1>6 DEF TypeInv

(* What the TCP thread's accepting does.                                   *)
LEMMA Accepts ==
  ASSUME TypeInv, Accept
  PROVE  \E f \in Socks, s \in Slots, d \in Devices, c \in BOOLEAN :
           /\ conn[f] = None /\ slot[s].sock = 0 /\ k.at = "accept"
           /\ c = (InHand(f) \/ SlotInHand(s))
           /\ conn' = [conn EXCEPT ![f] = [dev |-> d, end |-> "open", crossed |-> c]]
           /\ slot' = [slot EXCEPT ![s] = [sock |-> f, ip |-> d]]
           /\ d = Head(backlog) /\ backlog' = Tail(backlog)
           /\ k' = [k EXCEPT !.at = "slots", !.p = 1]
           /\ UNCHANGED <<reg, x, due, faults>>
<1>1. PICK f \in Socks : f = NewSock /\ conn[f] = None
  BY NewNumber DEF Accept
<1>2. PICK s \in Slots : s = NewSlot /\ slot[s].sock = 0
  BY NewPlace DEF Accept
<1>3. PICK d \in Devices : d = Head(backlog)
  BY DEF Accept, TypeInv, TypeOK, TcpAt
<1>4. PICK c \in BOOLEAN : c = (InHand(f) \/ SlotInHand(s))
  OBVIOUS
<1>5. /\ conn' = [conn EXCEPT ![f] = [dev |-> d, end |-> "open", crossed |-> c]]
      /\ slot' = [slot EXCEPT ![s] = [sock |-> f, ip |-> d]]
      /\ backlog' = Tail(backlog) /\ k.at = "accept"
      /\ k' = [k EXCEPT !.at = "slots", !.p = 1]
      /\ UNCHANGED <<reg, x, due, faults>>
  BY <1>1, <1>2, <1>3, <1>4 DEF Accept
<1> QED BY <1>1, <1>2, <1>3, <1>4, <1>5

LEMMA AcceptTypeInv == TypeInv /\ Accept => TypeInv'
<1> SUFFICES ASSUME TypeInv, Accept PROVE TypeInv'
  OBVIOUS
<1>1. PICK f \in Socks, s \in Slots, d \in Devices, c \in BOOLEAN :
        /\ conn' = [conn EXCEPT ![f] = [dev |-> d, end |-> "open", crossed |-> c]]
        /\ slot' = [slot EXCEPT ![s] = [sock |-> f, ip |-> d]]
        /\ backlog' = Tail(backlog) /\ k.at = "accept"
        /\ k' = [k EXCEPT !.at = "slots", !.p = 1]
        /\ UNCHANGED <<reg, x, due, faults>>
  BY Accepts
<1>2. conn' \in [Socks -> Conn \cup {None}]
  <2>1. [dev |-> d, end |-> "open", crossed |-> c] \in Conn
    BY DEF Conn
  <2> QED BY <1>1, <2>1 DEF TypeInv, TypeOK
<1>3. slot' \in [Slots -> Client] /\ SlotIp'
  <2>1. [sock |-> f, ip |-> d] \in Client
    BY DEF Client, Socks
  <2> QED BY <1>1, <2>1 DEF TypeInv, TypeOK, SlotIp
<1>4. k' \in TcpPlace /\ TcpAt'
  <2>1. 1 \in 0 .. N + 1 /\ 1 \in Slots
    BY SizesArePositive DEF Slots
  <2>2. k' \in TcpPlace /\ k'.at = "slots" /\ k'.p \in Slots
    BY <1>1, <2>1 DEF TypeInv, TypeOK, TcpPlace
  <2> QED BY <2>2 DEF TcpAt
<1>5. backlog' \in Seq(Devices)
  BY <1>1 DEF TypeInv, TypeOK, TcpAt
<1>6. TypeOK'
  BY <1>1, <1>2, <1>3, <1>4, <1>5 DEF TypeInv, TypeOK
<1>7. SendAt' /\ Expiring'
  BY <1>1 DEF TypeInv, SendAt, Expiring, Online
<1> QED BY <1>3, <1>4, <1>6, <1>7 DEF TypeInv

LEMMA NotAcceptedTypeInv == TypeInv /\ NotAccepted => TypeInv'
<1> SUFFICES ASSUME TypeInv, NotAccepted PROVE TypeInv'
  OBVIOUS
<1>1. TypeOK' /\ TcpAt'
  BY IdleTypes DEF NotAccepted, TypeInv, TypeOK, TcpAt
<1>2. SendAt' /\ SlotIp' /\ Expiring'
  BY DEF NotAccepted, TypeInv, SendAt, SlotIp, Expiring, Online
<1> QED BY <1>1, <1>2 DEF TypeInv

LEMMA RefuseTypeInv == TypeInv /\ Refuse => TypeInv'
<1> SUFFICES ASSUME TypeInv, Refuse PROVE TypeInv'
  OBVIOUS
<1>1. /\ conn' = Closed(Unused) /\ slot' = Emptied(Unused) /\ backlog' = Tail(backlog)
      /\ k' = KIdle /\ k.at = "accept" /\ UNCHANGED <<reg, x, due, faults>>
  BY DEF Refuse
<1>2. conn' \in [Socks -> Conn \cup {None}]
  BY <1>1, ClosedType
<1>3. slot' \in [Slots -> Client] /\ SlotIp'
  BY <1>1, EmptiedType
<1>4. backlog' \in Seq(Devices)
  BY <1>1 DEF TypeInv, TypeOK, TcpAt
<1>5. TypeOK' /\ TcpAt'
  BY <1>1, <1>2, <1>3, <1>4, IdleTypes DEF TypeInv, TypeOK, TcpAt
<1>6. SendAt' /\ Expiring'
  BY <1>1 DEF TypeInv, SendAt, Expiring, Online
<1> QED BY <1>3, <1>5, <1>6 DEF TypeInv

LEMMA PassByTypeInv == TypeInv /\ PassBy => TypeInv'
<1> SUFFICES ASSUME TypeInv, PassBy PROVE TypeInv'
  OBVIOUS
<1>1. k' \in TcpPlace /\ TcpAt'
  BY NextSlotType DEF PassBy, TypeInv, TcpAt
<1>2. TypeOK'
  BY <1>1 DEF PassBy, TypeInv, TypeOK
<1>3. SendAt' /\ SlotIp' /\ Expiring'
  BY DEF PassBy, TypeInv, SendAt, SlotIp, Expiring, Online
<1> QED BY <1>1, <1>2, <1>3 DEF TypeInv

LEMMA HereType ==
  ASSUME TypeInv, k.at = "slots", Ready
  PROVE  k.p \in Slots /\ Here \in Socks /\ slot[k.p].ip \in Devices
<1>1. k.p \in Slots /\ Here \in Socks
  BY DEF Ready, Here, TypeInv, TypeOK, TcpAt, TcpPlace
<1>2. Here # 0
  BY <1>1 DEF Socks
<1> QED BY <1>1, <1>2 DEF Here, TypeInv, SlotIp

LEMMA HangUpTypeInv == TypeInv /\ HangUp => TypeInv'
<1> SUFFICES ASSUME TypeInv, HangUp PROVE TypeInv'
  OBVIOUS
<1>1. PICK f \in Socks : f = Here /\ k.p \in Slots
  BY HereType DEF HangUp
<1>2. conn' \in [Socks -> Conn \cup {None}]
  BY ClosedType DEF HangUp, ClosedHere
<1>3. slot' \in [Slots -> Client] /\ SlotIp'
  BY <1>1, OneEmptiedType DEF HangUp
<1>4. k' \in TcpPlace /\ TcpAt'
  <2>1. k' = [k EXCEPT !.at = "gone", !.sock = f] /\ f \in 0 .. F
    BY <1>1 DEF HangUp, Socks
  <2>2. k' \in TcpPlace /\ k'.at = "gone" /\ k'.sock = f /\ k'.p = k.p
    BY <2>1 DEF TypeInv, TypeOK, TcpPlace
  <2> QED BY <1>1, <2>2 DEF TcpAt
<1>5. TypeOK'
  BY <1>2, <1>3, <1>4 DEF HangUp, TypeInv, TypeOK
<1>6. SendAt' /\ Expiring'
  BY DEF HangUp, TypeInv, SendAt, Expiring, Online
<1> QED BY <1>3, <1>4, <1>5, <1>6 DEF TypeInv

LEMMA FreeInfoTypeInv == TypeInv /\ FreeInfo => TypeInv'
<1> SUFFICES ASSUME TypeInv, FreeInfo PROVE TypeInv'
  OBVIOUS
<1>1. k' \in TcpPlace /\ TcpAt'
  BY NextSlotType DEF FreeInfo, TypeInv, TcpAt
<1>2. reg' \in [Devices -> Info] /\ Expiring'
  <2>1. CASE UNCHANGED reg
    BY <2>1 DEF FreeInfo, TypeInv, TypeOK, Expiring, Online
  <2>2. ASSUME NEW d \in Devices, reg' = [reg EXCEPT ![d] = Offline(@)]
        PROVE  reg' \in [Devices -> Info] /\ Expiring'
    <3>1. reg[d] \in Info /\ due \ {d} \subseteq due' /\ due' \subseteq Devices
      BY DEF FreeInfo, TypeInv, TypeOK
    <3> QED BY <2>2, <3>1, OneOffline
  <2> QED BY <2>1, <2>2 DEF FreeInfo, HolderOffline
<1>3. TypeOK'
  BY <1>1, <1>2 DEF FreeInfo, TypeInv, TypeOK
<1>4. SendAt' /\ SlotIp'
  BY DEF FreeInfo, TypeInv, SendAt, SlotIp
<1> QED BY <1>1, <1>2, <1>3, <1>4 DEF TypeInv

LEMMA TableType ==
  ASSUME TypeInv, k.p \in Slots, NEW f \in Socks, NEW d \in Devices,
         k' = [k EXCEPT !.at = "table", !.sock = f, !.dev = d]
  PROVE  k' \in TcpPlace /\ TcpAt' /\ k'.at = "table" /\ k'.sock = f /\ k'.dev = d
<1>1. f \in 0 .. F
  BY DEF Socks
<1>2. k' \in TcpPlace /\ k'.at = "table" /\ k'.sock = f /\ k'.dev = d /\ k'.p = k.p
  BY <1>1 DEF TypeInv, TypeOK, TcpPlace
<1> QED BY <1>2 DEF TcpAt

LEMMA RegisterTypeInv == TypeInv /\ Register => TypeInv'
<1> SUFFICES ASSUME TypeInv, Register PROVE TypeInv'
  OBVIOUS
<1>1. PICK d \in Devices, f \in Socks : d = slot[k.p].ip /\ f = Here /\ k.p \in Slots
  BY HereType DEF Register, Message
<1>2. conn[f] \in Conn
  BY <1>1 DEF Register, Message, Opened, TypeInv, TypeOK
<1>3. /\ reg' = [reg EXCEPT ![d] = [known |-> TRUE, id |-> @.id, on |-> TRUE, sock |-> f,
                                    left |-> E, crossed |-> conn[f].crossed]]
      /\ k' = [k EXCEPT !.at = "table", !.sock = f, !.dev = d]
      /\ UNCHANGED <<conn, backlog, slot, x, due, faults>>
  BY <1>1 DEF Register
<1>4. [known |-> TRUE, id |-> reg[d].id, on |-> TRUE, sock |-> f, left |-> E,
       crossed |-> conn[f].crossed] \in Info
  <2>1. f \in 0 .. F /\ E \in 0 .. E /\ reg[d].id \in BOOLEAN /\ conn[f].crossed \in BOOLEAN
    BY <1>2, SizesArePositive DEF Socks, TypeInv, TypeOK, Info, Conn
  <2> QED BY <2>1 DEF Info
<1>5. /\ reg' \in [Devices -> Info] /\ reg'[d].left = E
      /\ \A e \in Devices : e # d => reg'[e] = reg[e]
  BY <1>3, <1>4 DEF TypeInv, TypeOK
<1>6. Expiring'
  BY <1>3, <1>5, SizesArePositive DEF TypeInv, Expiring, Online
<1>7. k' \in TcpPlace /\ TcpAt'
  BY <1>1, <1>3, TableType
<1>8. TypeOK'
  BY <1>3, <1>5, <1>7 DEF TypeInv, TypeOK
<1>9. SendAt' /\ SlotIp'
  BY <1>3 DEF TypeInv, SendAt, SlotIp
<1> QED BY <1>6, <1>7, <1>8, <1>9 DEF TypeInv

LEMMA UnregisterTypeInv == TypeInv /\ Unregister => TypeInv'
<1> SUFFICES ASSUME TypeInv, Unregister PROVE TypeInv'
  OBVIOUS
<1>1. PICK d \in Devices, f \in Socks : d = slot[k.p].ip /\ f = Here /\ k.p \in Slots
  BY HereType DEF Unregister, Message
<1>2. /\ UNCHANGED <<conn, backlog, slot, x, due>> /\ faults' \in Nat
  BY DEF Unregister, Fault, TypeInv, TypeOK
<1>3. k' \in TcpPlace /\ TcpAt' /\ reg' \in [Devices -> Info] /\ Expiring'
  <2>1. CASE NextSlot /\ UNCHANGED reg
    BY <1>1, <1>2, <2>1, NextSlotType DEF TypeInv, TypeOK, Expiring, Online
  <2>2. CASE /\ reg' = [reg EXCEPT ![d] = Offline(@)]
             /\ k' = [k EXCEPT !.at = "table", !.sock = f, !.dev = d]
    <3>1. reg[d] \in Info /\ due \ {d} \subseteq due' /\ due' \subseteq Devices
      BY <1>2 DEF TypeInv, TypeOK
    <3>2. reg' \in [Devices -> Info] /\ Expiring'
      BY <2>2, <3>1, OneOffline
    <3>3. k' \in TcpPlace /\ TcpAt'
      BY <1>1, <2>2, TableType
    <3> QED BY <3>2, <3>3
  <2> QED BY <1>1, <2>1, <2>2 DEF Unregister
<1>4. TypeOK'
  BY <1>2, <1>3 DEF TypeInv, TypeOK
<1>5. SendAt' /\ SlotIp'
  BY <1>2 DEF TypeInv, SendAt, SlotIp
<1> QED BY <1>3, <1>4, <1>5 DEF TypeInv

(* The three ways of Confirm, with what is the same in all of them.        *)
ConfirmEnds ==
  /\ reg' = [reg EXCEPT ![k.dev] = Offline([@ EXCEPT !.id = TRUE])]
  /\ slot' = Emptied({k.sock})
  /\ conn' = Closed({k.sock} \cap Used)

LEMMA Confirms ==
  ASSUME TypeInv, Confirm
  PROVE  /\ k.at = "table" /\ k.p \in Slots /\ k.sock \in Socks /\ k.dev \in Devices
         /\ NextSlot /\ UNCHANGED <<backlog, x, due>> /\ faults' \in Nat
         /\ \/ UNCHANGED <<conn, slot, reg>>
            \/ UNCHANGED <<conn, slot>> /\ reg' = [reg EXCEPT ![k.dev].id = TRUE]
            \/ ConfirmEnds
<1>1. /\ k.at = "table" /\ k.p \in Slots /\ k.sock \in Socks /\ k.dev \in Devices
  BY DEF Confirm, TypeInv, TcpAt
<1>2. NextSlot /\ UNCHANGED <<backlog, x, due>>
  BY DEF Confirm
<1>3. faults' \in Nat
  BY DEF Confirm, Fault, TypeInv, TypeOK
<1>4. \/ UNCHANGED <<conn, slot, reg>>
      \/ UNCHANGED <<conn, slot>> /\ reg' = [reg EXCEPT ![k.dev].id = TRUE]
      \/ ConfirmEnds
  BY Zenon DEF Confirm, ConfirmEnds
<1> QED BY <1>1, <1>2, <1>3, <1>4

LEMMA ConfirmTypeInv == TypeInv /\ Confirm => TypeInv'
<1> SUFFICES ASSUME TypeInv, Confirm PROVE TypeInv'
  OBVIOUS
<1>1. /\ k.dev \in Devices /\ k.p \in Slots /\ NextSlot
      /\ UNCHANGED <<backlog, x, due>> /\ faults' \in Nat
  BY Confirms
<1>2. k' \in TcpPlace /\ TcpAt'
  BY <1>1, NextSlotType
<1>3. [reg[k.dev] EXCEPT !.id = TRUE] \in Info
  BY <1>1 DEF TypeInv, TypeOK, Info
<1>4. /\ conn' \in [Socks -> Conn \cup {None}] /\ slot' \in [Slots -> Client]
      /\ reg' \in [Devices -> Info] /\ Expiring' /\ SlotIp'
  <2>1. CASE UNCHANGED <<conn, slot, reg>>
    BY <1>1, <2>1 DEF TypeInv, TypeOK, Expiring, SlotIp, Online
  <2>2. CASE UNCHANGED <<conn, slot>> /\ reg' = [reg EXCEPT ![k.dev].id = TRUE]
    <3>1. /\ reg' \in [Devices -> Info]
          /\ \A d \in Devices : reg'[d].on = reg[d].on /\ reg'[d].sock = reg[d].sock
                                  /\ reg'[d].left = reg[d].left
      BY <1>1, <1>3, <2>2 DEF TypeInv, TypeOK, Info
    <3> QED BY <1>1, <2>2, <3>1 DEF TypeInv, TypeOK, Expiring, SlotIp, Online
  <2>3. CASE ConfirmEnds
    <3>1. due \ {k.dev} \subseteq due' /\ due' \subseteq Devices
      BY <1>1 DEF TypeInv, TypeOK
    <3>2. reg' \in [Devices -> Info] /\ Expiring'
      BY <1>1, <1>3, <2>3, <3>1, OneOffline DEF ConfirmEnds
    <3>3. conn' \in [Socks -> Conn \cup {None}] /\ slot' \in [Slots -> Client] /\ SlotIp'
      BY <2>3, ClosedType, EmptiedType DEF ConfirmEnds
    <3> QED BY <3>2, <3>3
  <2> QED BY <2>1, <2>2, <2>3, Confirms
<1>5. TypeOK'
  BY <1>1, <1>2, <1>4 DEF TypeInv, TypeOK
<1>6. SendAt'
  BY <1>1 DEF TypeInv, SendAt
<1> QED BY <1>2, <1>4, <1>5, <1>6 DEF TypeInv

(* The sender until it has found a slot: only its place changes.           *)
LEMMA TalkTypeInv ==
  ASSUME TypeInv,
         Send \/ Blame \/ PassSlot \/ FindSlot \/ \E d \in Devices : Choose(d)
  PROVE  TypeInv'
<1>1. UNCHANGED <<conn, backlog, slot, reg, k, due, faults>>
  BY DEF Send, Blame, PassSlot, FindSlot, Choose
<1>2. x \in SendPlace /\ (x.at # "idle" => x.dev \in Devices)
  BY DEF TypeInv, TypeOK, SendAt
<1>3. x' \in SendPlace /\ SendAt'
  <2>1. CASE Send
    <3>1. x' = XIdle \/ x' = [x EXCEPT !.at = "failed"]
      BY <2>1 DEF Send
    <3>2. x' \in SendPlace /\ (x'.at = "idle" \/ (x'.at = "failed" /\ x'.dev = x.dev))
      BY <1>2, <3>1, IdleTypes DEF SendPlace
    <3> QED BY <1>2, <2>1, <3>2 DEF SendAt, Send
  <2>2. CASE Blame
    <3>1. Sock \in 0 .. F /\ 1 \in 0 .. N + 1
      BY <1>2, <2>2, SizesArePositive DEF Blame, Sock, TypeInv, TypeOK, Info
    <3>2. x' = [x EXCEPT !.at = "scan", !.sock = Sock, !.p = 1]
      BY <2>2 DEF Blame
    <3>3. x' \in SendPlace /\ x'.at = "scan" /\ x'.dev = x.dev
      BY <1>2, <3>1, <3>2 DEF SendPlace
    <3> QED BY <1>2, <2>2, <3>3 DEF SendAt, Blame
  <2>3. CASE PassSlot
    <3>1. x.p >= N \/ x.p + 1 \in 0 .. N + 1
      BY <1>2, SizesArePositive DEF SendPlace
    <3>2. 0 \in 0 .. N + 1
      BY SizesArePositive
    <3>3. x' \in SendPlace /\ x'.at \in {"reset", "scan"} /\ x'.dev = x.dev
      <4>1. CASE x' = [x EXCEPT !.at = "reset", !.p = 0]
        BY <1>2, <3>2, <4>1 DEF SendPlace
      <4>2. CASE ~(x.p >= N) /\ x' = [x EXCEPT !.p = @ + 1]
        BY <1>2, <2>3, <3>1, <4>2 DEF SendPlace, PassSlot
      <4> QED BY <2>3, <4>1, <4>2 DEF PassSlot
    <3> QED BY <1>2, <2>3, <3>3 DEF SendAt, PassSlot
  <2>4. CASE FindSlot
    <3>1. x' = [x EXCEPT !.at = "close"] /\ x.p \in Slots
      BY <2>4 DEF FindSlot, HasSock
    <3>2. x' \in SendPlace /\ x'.at = "close" /\ x'.dev = x.dev /\ x'.p = x.p
      BY <1>2, <3>1 DEF SendPlace
    <3> QED BY <1>2, <2>4, <3>1, <3>2 DEF SendAt, FindSlot
  <2>5. ASSUME NEW d \in Devices, Choose(d) PROVE x' \in SendPlace /\ SendAt'
    <3>1. x' = [XIdle EXCEPT !.at = "send", !.dev = d]
      BY <2>5 DEF Choose
    <3>2. x' \in SendPlace /\ x'.at = "send" /\ x'.dev = d
      BY <3>1, IdleTypes DEF SendPlace
    <3> QED BY <3>2 DEF SendAt
  <2> QED BY <2>1, <2>2, <2>3, <2>4, <2>5
<1>4. TypeOK'
  BY <1>1, <1>3 DEF TypeInv, TypeOK
<1>5. TcpAt' /\ SlotIp' /\ Expiring'
  BY <1>1 DEF TypeInv, TcpAt, SlotIp, Expiring, Online
<1> QED BY <1>3, <1>4, <1>5 DEF TypeInv

LEMMA CloseSockTypeInv == TypeInv /\ CloseSock => TypeInv'
<1> SUFFICES ASSUME TypeInv, CloseSock PROVE TypeInv'
  OBVIOUS
<1>1. conn' \in [Socks -> Conn \cup {None}]
  BY ClosedType DEF CloseSock
<1>2. x' \in SendPlace /\ SendAt'
  <2>1. x' \in SendPlace /\ x'.at = "clear" /\ x'.p = x.p /\ x'.dev = x.dev
    BY DEF CloseSock, TypeInv, TypeOK, SendPlace
  <2> QED BY <2>1 DEF SendAt, CloseSock, TypeInv
<1>3. TypeOK'
  BY <1>1, <1>2 DEF CloseSock, TypeInv, TypeOK
<1>4. TcpAt' /\ SlotIp' /\ Expiring'
  BY DEF CloseSock, TypeInv, TcpAt, SlotIp, Expiring, Online
<1> QED BY <1>2, <1>3, <1>4 DEF TypeInv

LEMMA ClearSlotTypeInv == TypeInv /\ ClearSlot => TypeInv'
<1> SUFFICES ASSUME TypeInv, ClearSlot PROVE TypeInv'
  OBVIOUS
<1>1. x.p \in Slots
  BY DEF ClearSlot, TypeInv, SendAt
<1>2. slot' \in [Slots -> Client] /\ SlotIp'
  BY <1>1, OneEmptiedType DEF ClearSlot
<1>3. x' \in SendPlace /\ SendAt'
  <2>1. x.p + 1 \in 0 .. N + 1
    BY <1>1, SizesArePositive DEF Slots
  <2>2. x' \in SendPlace /\ x'.at = "scan" /\ x'.dev = x.dev
    BY <2>1 DEF ClearSlot, TypeInv, TypeOK, SendPlace
  <2> QED BY <2>2 DEF SendAt, ClearSlot, TypeInv
<1>4. TypeOK'
  BY <1>2, <1>3 DEF ClearSlot, TypeInv, TypeOK
<1>5. TcpAt' /\ Expiring'
  BY DEF ClearSlot, TypeInv, TcpAt, Expiring, Online
<1> QED BY <1>2, <1>3, <1>4, <1>5 DEF TypeInv

LEMMA ResetTypeInv == TypeInv /\ Reset => TypeInv'
<1> SUFFICES ASSUME TypeInv, Reset PROVE TypeInv'
  OBVIOUS
<1>1. x.dev \in Devices
  BY DEF Reset, TypeInv, SendAt
<1>2. reg[x.dev] \in Info /\ due \ {x.dev} \subseteq due' /\ due' \subseteq Devices
  BY <1>1 DEF Reset, TypeInv, TypeOK
<1>3. reg' \in [Devices -> Info] /\ Expiring'
  BY <1>1, <1>2, OneOffline DEF Reset
<1>4. TypeOK'
  BY <1>3, IdleTypes DEF Reset, TypeInv, TypeOK
<1>5. TcpAt' /\ SendAt' /\ SlotIp'
  BY IdleTypes DEF Reset, TypeInv, TcpAt, SendAt, SlotIp
<1> QED BY <1>3, <1>4, <1>5 DEF TypeInv

LEMMA CountDownTypeInv == TypeInv /\ CountDown => TypeInv'
<1> SUFFICES ASSUME TypeInv, CountDown PROVE TypeInv'
  OBVIOUS
<1>1. \A d \in Devices : /\ reg'[d] \in Info
                         /\ Online(d)' /\ reg'[d].left = 0 => d \in due'
  <2> TAKE d \in Devices
  <2>1. reg[d] \in Info /\ (Online(d) => reg[d].left # 0)
    BY DEF CountDown, TypeInv, TypeOK, Expiring
  <2>2. due' = {e \in Devices : Counts(e) /\ reg[e].left <= 1}
    BY DEF CountDown
  <2>3. CASE Counts(d)
    <3>1. reg'[d] = [reg[d] EXCEPT !.left = @ - 1]
      BY <2>3 DEF CountDown
    <3>2. reg[d].left \in 1 .. E
      BY <2>1, <2>3, SizesArePositive DEF Counts, Info
    <3>3. reg[d].left - 1 \in 0 .. E
      BY <3>2, SizesArePositive
    <3>4. reg'[d] \in Info /\ reg'[d].left = reg[d].left - 1
      BY <2>1, <3>1, <3>3 DEF Info
    <3>5. reg'[d].left = 0 => d \in due'
      BY <2>2, <2>3, <3>2, <3>4
    <3> QED BY <3>4, <3>5
  <2>4. CASE ~Counts(d)
    <3>1. reg'[d] = reg[d]
      BY <2>4 DEF CountDown
    <3> QED BY <2>1, <3>1 DEF Online
  <2> QED BY <2>3, <2>4
<1>2. reg' \in [Devices -> Info]
  <2>1. reg' = [d \in Devices |-> IF Counts(d) THEN [reg[d] EXCEPT !.left = @ - 1] ELSE reg[d]]
    BY DEF CountDown
  <2>2. DOMAIN reg' = Devices
    BY <2>1
  <2> QED BY <1>1, <2>1, <2>2
<1>3. TypeOK'
  BY <1>2 DEF CountDown, TypeInv, TypeOK
<1>4. Expiring'
  BY <1>1 DEF Expiring
<1>5. TcpAt' /\ SendAt' /\ SlotIp'
  BY DEF CountDown, TypeInv, TcpAt, SendAt, SlotIp
<1> QED BY <1>3, <1>4, <1>5 DEF TypeInv

LEMMA ExpireTypeInv == ASSUME TypeInv, NEW d \in Devices, Expire(d) PROVE TypeInv'
<1>1. reg[d] \in Info /\ due \ {d} \subseteq due' /\ due' \subseteq Devices
  BY DEF Expire, TypeInv, TypeOK
<1>2. reg' \in [Devices -> Info] /\ Expiring'
  BY <1>1, OneOffline DEF Expire
<1>3. TypeOK'
  BY <1>1, <1>2 DEF Expire, TypeInv, TypeOK
<1>4. TcpAt' /\ SendAt' /\ SlotIp'
  BY DEF Expire, TypeInv, TcpAt, SendAt, SlotIp
<1> QED BY <1>2, <1>3, <1>4 DEF TypeInv

LEMMA ConnectTypeInv == ASSUME TypeInv, NEW d \in Devices, Connect(d) PROVE TypeInv'
<1>1. backlog' \in Seq(Devices) /\ backlog' # <<>>
  BY DEF Connect, TypeInv, TypeOK
<1>2. TypeOK' /\ TcpAt'
  BY <1>1 DEF Connect, TypeInv, TypeOK, TcpAt
<1>3. SendAt' /\ SlotIp' /\ Expiring'
  BY DEF Connect, TypeInv, SendAt, SlotIp, Expiring, Online
<1> QED BY <1>2, <1>3 DEF TypeInv

(* A connection that breaks stays in its place, and whose it is.           *)
LEMMA Breaks ==
  ASSUME TypeInv, NEW f \in Socks, Break(f)
  PROVE  /\ conn' \in [Socks -> Conn \cup {None}]
         /\ \A h \in Socks : /\ conn[h] # None <=> conn'[h] # None
                             /\ conn'[h].dev = conn[h].dev
                             /\ conn'[h].crossed = conn[h].crossed
<1>1. PICK e \in {"shut", "mute"} : conn' = [conn EXCEPT ![f].end = e]
  BY DEF Break
<1>2. conn[f] \in Conn
  BY DEF Break, TypeInv, TypeOK
<1>3. [conn[f] EXCEPT !.end = e] \in Conn
  BY <1>2 DEF Conn
<1>4. [conn[f] EXCEPT !.end = e].dev = conn[f].dev
      /\ [conn[f] EXCEPT !.end = e].crossed = conn[f].crossed
  BY <1>2 DEF Conn
<1>5. conn'[f] = [conn[f] EXCEPT !.end = e] /\ \A h \in Socks : h # f => conn'[h] = conn[h]
  BY <1>1 DEF TypeInv, TypeOK
<1>6. conn[f] # None /\ conn'[f] # None
  BY <1>3, <1>5, NoneIsNoDevice DEF Break
<1> QED BY <1>1, <1>3, <1>4, <1>5, <1>6 DEF TypeInv, TypeOK

LEMMA BreakTypeInv == ASSUME TypeInv, NEW f \in Socks, Break(f) PROVE TypeInv'
<1>1. conn' \in [Socks -> Conn \cup {None}]
  BY Breaks
<1>2. TypeOK'
  BY <1>1 DEF Break, Fault, TypeInv, TypeOK
<1>3. TcpAt' /\ SendAt' /\ SlotIp' /\ Expiring'
  BY DEF Break, TypeInv, TcpAt, SendAt, SlotIp, Expiring, Online
<1> QED BY <1>2, <1>3 DEF TypeInv

LEMMA NextTypeInv == TypeInv /\ [Next]_vars => TypeInv'
<1> SUFFICES ASSUME TypeInv, [Next]_vars PROVE TypeInv'
  OBVIOUS
<1>1. CASE TcpStep
  BY <1>1, SelectTypeInv, AcceptTypeInv, NotAcceptedTypeInv, RefuseTypeInv, PassByTypeInv,
     HangUpTypeInv, FreeInfoTypeInv, RegisterTypeInv, UnregisterTypeInv, ConfirmTypeInv
     DEF TcpStep
<1>2. CASE SendStep
  BY <1>2, TalkTypeInv, CloseSockTypeInv, ClearSlotTypeInv, ResetTypeInv DEF SendStep
<1>3. CASE ExpiryStep
  BY <1>3, CountDownTypeInv, ExpireTypeInv DEF ExpiryStep
<1>4. CASE \E d \in Devices : Choose(d) \/ Connect(d)
  BY <1>4, TalkTypeInv, ConnectTypeInv
<1>5. CASE \E f \in Socks : Break(f)
  BY <1>5, BreakTypeInv
<1>6. CASE UNCHANGED vars
  BY <1>6 DEF vars, TypeInv, TypeOK, TcpAt, SendAt, SlotIp, Expiring, Online
<1> QED BY <1>1, <1>2, <1>3, <1>4, <1>5, <1>6 DEF Next

LEMMA TypeInvAlways == Spec => []TypeInv
<1> QED BY InitTypeInv, NextTypeInv, PTL DEF Spec

(* Every variable always has its type: a count never goes below zero, and  *)
(* a registration never has a number that is none.                         *)
THEOREM TypeCorrect == Spec => []TypeOK
<1>1. TypeInv => TypeOK
  BY DEF TypeInv
<1> QED BY <1>1, TypeInvAlways, PTL

-----------------------------------------------------------------------------
(* The slots of connections that are not crossed.  Cleared is what makes   *)
(* ConnectedHasSlot inductive: the sender never clears the slot of one.    *)

Clean(f) == f # 0 /\ conn[f] # None /\ ~conn[f].crossed
Cleared  == x.at = "clear" => ~Clean(slot[x.p].sock)

SlotInv == TypeInv /\ ConnectedHasSlot /\ Cleared

LEMMA SockType ==
  ASSUME TypeInv
  PROVE  /\ \A s \in Slots : slot[s].sock \in 0 .. F /\ (slot[s].sock # 0 => slot[s].sock \in Socks)
         /\ \A d \in Devices : reg[d].sock # 0 => reg[d].sock \in Socks
         /\ x.sock # 0 => x.sock \in Socks
<1>1. /\ \A s \in Slots : slot[s].sock \in 0 .. F
      /\ \A d \in Devices : reg[d].sock \in 0 .. F
      /\ x.sock \in 0 .. F
  BY DEF TypeInv, TypeOK, Client, Info, SendPlace
<1> QED BY <1>1, SizesArePositive DEF Socks

(* Numbers are closed, and no slot is lost but those of closed numbers.    *)
ClosedWithSlots ==
  /\ \A f \in Socks : conn'[f] = conn[f] \/ conn'[f] = None
  /\ \A s \in Slots :
       \/ slot'[s] = slot[s]
       \/ slot'[s].sock = 0 /\ (slot[s].sock # 0 => conn'[slot[s].sock] = None)

LEMMA ClosedWithSlotsKeeps ==
  ASSUME SlotInv, ClosedWithSlots, UNCHANGED x
  PROVE  ConnectedHasSlot' /\ Cleared'
<1>1. ConnectedHasSlot'
  <2> SUFFICES ASSUME NEW f \in Socks, conn'[f] # None, ~conn'[f].crossed
               PROVE  \E s \in Slots : slot'[s] = [sock |-> f, ip |-> conn'[f].dev]
    BY DEF ConnectedHasSlot
  <2>1. conn'[f] = conn[f]
    BY DEF ClosedWithSlots
  <2>2. PICK s \in Slots : slot[s] = [sock |-> f, ip |-> conn[f].dev]
    BY <2>1 DEF SlotInv, ConnectedHasSlot
  <2>3. slot[s].sock = f /\ f # 0
    BY <2>2 DEF Socks
  <2>4. slot'[s] = slot[s]
    BY <2>3 DEF ClosedWithSlots
  <2> QED BY <2>1, <2>2, <2>4
<1>2. Cleared'
  <2> SUFFICES ASSUME x.at = "clear", Clean(slot[x.p].sock)' PROVE FALSE
    BY DEF Cleared
  <2>1. x.p \in Slots
    BY DEF SlotInv, TypeInv, SendAt
  <2>2. slot'[x.p] = slot[x.p] /\ slot[x.p].sock # 0
    BY <2>1 DEF ClosedWithSlots, Clean
  <2>3. slot[x.p].sock \in Socks
    BY <2>1, <2>2, SockType DEF SlotInv
  <2>4. conn'[slot[x.p].sock] = conn[slot[x.p].sock]
    BY <2>2, <2>3 DEF ClosedWithSlots, Clean
  <2> QED BY <2>2, <2>4 DEF SlotInv, Cleared, Clean
<1> QED BY <1>1, <1>2

LEMMA ClosedWithSlotsSteps ==
  ASSUME TypeInv
  PROVE  /\ Refuse => ClosedWithSlots /\ UNCHANGED x
         /\ HangUp => ClosedWithSlots /\ UNCHANGED x
         /\ Confirm => ClosedWithSlots /\ UNCHANGED x
<1>1. ASSUME Refuse PROVE ClosedWithSlots /\ UNCHANGED x
  <2>1. /\ \A f \in Socks : conn'[f] = IF f \in Unused THEN None ELSE conn[f]
        /\ \A s \in Slots : slot'[s] = IF slot[s].sock \in Unused THEN NoSlot ELSE slot[s]
    BY <1>1 DEF Refuse, Closed, Emptied
  <2>2. \A s \in Slots : slot[s].sock \in Unused => slot[s].sock \in Socks
    BY SockType DEF Unused, Used
  <2> QED BY <1>1, <2>1, <2>2, IdleTypes DEF ClosedWithSlots, Refuse
<1>2. ASSUME HangUp PROVE ClosedWithSlots /\ UNCHANGED x
  <2>1. Here \in Socks /\ k.p \in Slots /\ Here = slot[k.p].sock
    BY <1>2, HereType DEF HangUp, Here
  <2>2. /\ \A f \in Socks : conn'[f] = IF f = Here THEN None ELSE conn[f]
        /\ slot' = [slot EXCEPT ![k.p] = NoSlot]
    BY <1>2 DEF HangUp, ClosedHere, Closed
  <2>3. \A s \in Slots : slot'[s] = IF s = k.p THEN NoSlot ELSE slot[s]
    BY <2>2 DEF TypeInv, TypeOK
  <2> QED BY <1>2, <2>1, <2>2, <2>3, IdleTypes DEF ClosedWithSlots, HangUp
<1>3. ASSUME Confirm PROVE ClosedWithSlots /\ UNCHANGED x
  <2>1. CASE UNCHANGED <<conn, slot>>
    BY <1>3, <2>1, Confirms DEF ClosedWithSlots
  <2>2. CASE ConfirmEnds
    <3>1. /\ \A f \in Socks : conn'[f] = IF f \in {k.sock} \cap Used THEN None ELSE conn[f]
          /\ \A s \in Slots : slot'[s] = IF slot[s].sock \in {k.sock} THEN NoSlot ELSE slot[s]
      BY <2>2 DEF ConfirmEnds, Closed, Emptied
    <3>2. k.sock \in Socks /\ \A s \in Slots : slot[s].sock = k.sock => k.sock \in Used
      BY <1>3, Confirms DEF Used, Socks
    <3> QED BY <1>3, <3>1, <3>2, Confirms, IdleTypes DEF ClosedWithSlots
  <2> QED BY <1>3, <2>1, <2>2, Confirms
<1> QED BY <1>1, <1>2, <1>3

(* A connection that takes a slot that is being cleared, or a number of    *)
(* one, is crossed.                                                        *)
LEMMA AcceptSlots == SlotInv /\ Accept => ConnectedHasSlot' /\ Cleared'
<1> SUFFICES ASSUME SlotInv, Accept PROVE ConnectedHasSlot' /\ Cleared'
  OBVIOUS
<1>1. PICK f \in Socks, s \in Slots, d \in Devices, c \in BOOLEAN :
        /\ conn[f] = None /\ slot[s].sock = 0
        /\ c = (InHand(f) \/ SlotInHand(s))
        /\ conn' = [conn EXCEPT ![f] = [dev |-> d, end |-> "open", crossed |-> c]]
        /\ slot' = [slot EXCEPT ![s] = [sock |-> f, ip |-> d]]
        /\ UNCHANGED x
  BY Accepts DEF SlotInv
<1>2. /\ conn'[f] = [dev |-> d, end |-> "open", crossed |-> c]
      /\ slot'[s] = [sock |-> f, ip |-> d]
      /\ \A h \in Socks : h # f => conn'[h] = conn[h]
      /\ \A t \in Slots : t # s => slot'[t] = slot[t]
  BY <1>1 DEF SlotInv, TypeInv, TypeOK
<1>3. InHand(f) \/ SlotInHand(s) => conn'[f].crossed
  <2>1. conn'[f].crossed = c
    BY <1>2
  <2> QED BY Zenon, <1>1, <2>1
<1>4. ConnectedHasSlot'
  <2> SUFFICES ASSUME NEW h \in Socks, conn'[h] # None, ~conn'[h].crossed
               PROVE  \E t \in Slots : slot'[t] = [sock |-> h, ip |-> conn'[h].dev]
    BY DEF ConnectedHasSlot
  <2>1. CASE h = f
    BY <1>2, <2>1
  <2>2. CASE h # f
    <3>1. PICK t \in Slots : slot[t] = [sock |-> h, ip |-> conn[h].dev]
      BY <1>2, <2>2 DEF SlotInv, ConnectedHasSlot
    <3>2. t # s
      BY <1>1, <3>1 DEF Socks
    <3> QED BY <1>2, <2>2, <3>1, <3>2
  <2> QED BY <2>1, <2>2
<1>5. Cleared'
  <2> SUFFICES ASSUME x.at = "clear", Clean(slot[x.p].sock)' PROVE FALSE
    BY <1>1 DEF Cleared
  <2>1. x' = x /\ x.p \in Slots
    BY <1>1 DEF SlotInv, TypeInv, SendAt
  <2>2. slot'[x.p].sock # 0 /\ conn'[slot'[x.p].sock] # None /\ ~conn'[slot'[x.p].sock].crossed
    BY <2>1 DEF Clean
  <2>3. CASE x.p = s
    BY <1>2, <1>3, <2>2, <2>3 DEF SlotInHand
  <2>4. CASE x.p # s /\ slot[x.p].sock = f
    BY <1>2, <1>3, <2>1, <2>2, <2>4 DEF InHand
  <2>5. CASE x.p # s /\ slot[x.p].sock # f
    <3>1. slot'[x.p] = slot[x.p] /\ slot[x.p].sock \in Socks
      BY <1>2, <2>1, <2>2, <2>5, SockType DEF SlotInv
    <3>2. Clean(slot[x.p].sock)
      BY <1>2, <2>2, <2>5, <3>1 DEF Clean
    <3> QED BY <3>2 DEF SlotInv, Cleared
  <2> QED BY <2>3, <2>4, <2>5
<1> QED BY <1>4, <1>5

(* What is cleared was closed in the same slot, or is crossed.             *)
LEMMA CloseSockSlots == SlotInv /\ CloseSock => ConnectedHasSlot' /\ Cleared'
<1> SUFFICES ASSUME SlotInv, CloseSock PROVE ConnectedHasSlot' /\ Cleared'
  OBVIOUS
<1>1. /\ \A f \in Socks : conn'[f] = IF f = slot[x.p].sock THEN None ELSE conn[f]
      /\ UNCHANGED slot /\ x'.p = x.p /\ x.p \in Slots
  BY DEF CloseSock, Closed, SlotInv, TypeInv, TypeOK, SendPlace, SendAt
<1>2. ConnectedHasSlot'
  BY <1>1 DEF SlotInv, ConnectedHasSlot
<1>3. Cleared'
  BY <1>1, SockType DEF Cleared, Clean, SlotInv
<1> QED BY <1>2, <1>3

LEMMA ClearSlotSlots == SlotInv /\ ClearSlot => ConnectedHasSlot' /\ Cleared'
<1> SUFFICES ASSUME SlotInv, ClearSlot PROVE ConnectedHasSlot' /\ Cleared'
  OBVIOUS
<1>1. /\ x.at = "clear" /\ x'.at # "clear" /\ UNCHANGED conn
      /\ \A t \in Slots : t # x.p => slot'[t] = slot[t]
  BY DEF ClearSlot, SlotInv, TypeInv, TypeOK, SendPlace
<1>2. ConnectedHasSlot'
  <2> SUFFICES ASSUME NEW f \in Socks, conn[f] # None, ~conn[f].crossed
               PROVE  \E t \in Slots : slot'[t] = [sock |-> f, ip |-> conn[f].dev]
    BY <1>1 DEF ConnectedHasSlot
  <2>1. PICK t \in Slots : slot[t] = [sock |-> f, ip |-> conn[f].dev]
    BY DEF SlotInv, ConnectedHasSlot
  <2>2. t # x.p
    BY <1>1, <2>1 DEF SlotInv, Cleared, Clean, Socks
  <2> QED BY <1>1, <2>1, <2>2
<1> QED BY <1>1, <1>2 DEF Cleared

(* A step that leaves slots and connections where they are.                *)
LEMMA SameSlots ==
  ASSUME SlotInv, UNCHANGED slot, x'.at = "clear" => x' = x,
         \A f \in Socks : /\ conn[f] # None <=> conn'[f] # None
                          /\ conn'[f].dev = conn[f].dev
                          /\ conn'[f].crossed = conn[f].crossed
  PROVE  ConnectedHasSlot' /\ Cleared'
<1>1. ConnectedHasSlot'
  BY DEF SlotInv, ConnectedHasSlot
<1>2. Cleared'
  <2> SUFFICES ASSUME x'.at = "clear", Clean(slot[x.p].sock)' PROVE FALSE
    BY DEF Cleared
  <2>1. x' = x /\ x.p \in Slots
    BY DEF SlotInv, TypeInv, SendAt
  <2>2. slot[x.p].sock \in Socks
    BY <2>1, SockType DEF SlotInv, Clean
  <2> QED BY <2>1, <2>2 DEF SlotInv, Cleared, Clean
<1> QED BY <1>1, <1>2

LEMMA NextSlotInv == SlotInv /\ [Next]_vars => SlotInv'
<1> SUFFICES ASSUME SlotInv, [Next]_vars PROVE SlotInv'
  OBVIOUS
<1>1. TypeInv'
  BY NextTypeInv DEF SlotInv
<1>2. ConnectedHasSlot' /\ Cleared'
  <2>1. CASE Select \/ NotAccepted \/ PassBy \/ FreeInfo \/ Register \/ Unregister
    <3>1. UNCHANGED <<conn, slot, x>>
      BY <2>1 DEF Select, NotAccepted, PassBy, FreeInfo, Register, Unregister
    <3> QED BY <3>1, SameSlots
  <2>2. CASE Accept
    BY <2>2, AcceptSlots
  <2>3. CASE Refuse \/ HangUp \/ Confirm
    BY <2>3, ClosedWithSlotsSteps, ClosedWithSlotsKeeps DEF SlotInv
  <2>4. CASE Send \/ Blame \/ PassSlot \/ FindSlot \/ Reset \/ \E d \in Devices : Choose(d)
    <3>1. UNCHANGED <<conn, slot>>
      BY <2>4 DEF Send, Blame, PassSlot, FindSlot, Reset, Choose
    <3>2. x'.at # "clear"
      BY <2>4, IdleTypes
         DEF Send, Blame, PassSlot, FindSlot, Reset, Choose, XIdle, SlotInv, TypeInv, TypeOK, SendPlace
    <3> QED BY <3>1, <3>2, SameSlots
  <2>5. CASE CloseSock
    BY <2>5, CloseSockSlots
  <2>6. CASE ClearSlot
    BY <2>6, ClearSlotSlots
  <2>7. CASE ExpiryStep \/ \E d \in Devices : Connect(d)
    <3>1. UNCHANGED <<conn, slot, x>>
      BY <2>7 DEF ExpiryStep, CountDown, Expire, Connect
    <3> QED BY <3>1, SameSlots
  <2>8. ASSUME NEW f \in Socks, Break(f) PROVE ConnectedHasSlot' /\ Cleared'
    <3>1. UNCHANGED <<slot, x>>
      BY <2>8 DEF Break
    <3>2. \A h \in Socks : /\ conn[h] # None <=> conn'[h] # None
                           /\ conn'[h].dev = conn[h].dev
                           /\ conn'[h].crossed = conn[h].crossed
      BY <2>8, Breaks DEF SlotInv
    <3> QED BY <3>1, <3>2, SameSlots
  <2>9. CASE UNCHANGED vars
    <3>1. UNCHANGED <<conn, slot, x>>
      BY <2>9 DEF vars
    <3> QED BY <3>1, SameSlots
  <2> QED BY <2>1, <2>2, <2>3, <2>4, <2>5, <2>6, <2>7, <2>8, <2>9
       DEF Next, TcpStep, SendStep
<1> QED BY <1>1, <1>2 DEF SlotInv

(* Whatever the sender, the TCP thread and the devices do at the same      *)
(* time, a connection that was not accepted in the middle of a closing has *)
(* its slot until it is closed.                                            *)
THEOREM ConnectionsHaveSlots == Spec => []ConnectedHasSlot
<1>1. Init => SlotInv
  <2> SUFFICES ASSUME Init PROVE SlotInv
    OBVIOUS
  <2>1. TypeInv
    BY InitTypeInv
  <2>2. ConnectedHasSlot /\ Cleared
    BY IdleTypes DEF Init, ConnectedHasSlot, Cleared
  <2> QED BY <2>1, <2>2 DEF SlotInv
<1>2. SlotInv => ConnectedHasSlot
  BY DEF SlotInv
<1> QED BY <1>1, <1>2, NextSlotInv, PTL DEF Spec

-----------------------------------------------------------------------------
(* Whose connection the number of a registration is.  Own is OnlineIsOwn   *)
(* for every registration that has a number; the rest says where the       *)
(* numbers that the sender and the TCP thread hold, and those in the       *)
(* slots, come from.                                                       *)

Ending == x.at \in {"scan", "close", "clear", "reset"}

(* A slot knows whose its connection is, and only one that the sender has  *)
(* in hand can have the number of another one, or a closed number when the *)
(* TCP thread accepts (select() has just seen that there was none).        *)
SlotOwn == \A s \in Slots : Clean(slot[s].sock) => slot[s].ip = conn[slot[s].sock].dev

Apart == \A s, t \in Slots :
  s # t /\ slot[s].sock = slot[t].sock /\ slot[s].sock # 0 => x.at = "clear" /\ x.p \in {s, t}

ClosedInHand == k.at = "accept" =>
  \A s \in Slots : slot[s].sock # 0 /\ conn[slot[s].sock] = None => x.at = "clear" /\ x.p = s

CrossedStays == \A d \in Devices : reg[d].crossed => ~Clean(reg[d].sock)

(* The number in the sender's hand, and the one it is about to close.      *)
BlamedOwn    == Ending /\ Clean(x.sock) => conn[x.sock].dev = x.dev
ClosesBlamed == x.at = "close" /\ Clean(slot[x.p].sock) => slot[x.p].sock = x.sock

(* The registration that the TCP thread answers.                           *)
Answered == k.at = "table" /\ Clean(k.sock) => conn[k.sock].dev = k.dev

OwnOf(d) ==
  \/ Clean(reg[d].sock) /\ conn[reg[d].sock].dev = d
  \/ Blamed(d)
  \/ /\ k.at = "gone" /\ k.sock = reg[d].sock /\ conn[k.sock] = None
     /\ \A e \in Devices : reg[e].sock = k.sock => e = d

Own == \A d \in Devices : reg[d].sock # 0 /\ ~reg[d].crossed => OwnOf(d)

Hands == /\ SlotOwn /\ Apart /\ ClosedInHand /\ CrossedStays
         /\ BlamedOwn /\ ClosesBlamed /\ Answered

OwnInv == TypeInv /\ Hands /\ Own

(* What most steps leave as it is: a connection is whose it was, or is     *)
(* closed; a slot has what it had, or is cleared; a registration has the   *)
(* number it had, or none; the sender goes on with what it has in hand.    *)
ConnKept == \A f \in Socks : conn'[f] # None =>
              /\ conn[f] # None
              /\ conn'[f].dev = conn[f].dev /\ conn'[f].crossed = conn[f].crossed
SlotKept == \A s \in Slots : slot'[s] = slot[s] \/ slot'[s].sock = 0
RegKept  == \A d \in Devices :
              \/ reg'[d].sock = 0 /\ ~reg'[d].crossed
              \/ reg'[d].sock = reg[d].sock /\ reg'[d].crossed = reg[d].crossed

Kept == ConnKept /\ SlotKept /\ RegKept

HandKept ==
  /\ Ending' => Ending /\ x'.sock = x.sock /\ x'.dev = x.dev
  /\ x'.at = "close" => x.at = "close" /\ x'.p = x.p
  /\ x.at = "clear" => \/ x'.at = "clear" /\ x'.p = x.p
                       \/ slot'[x.p].sock = 0

StillEnding == Ending => Ending' /\ x'.sock = x.sock /\ x'.dev = x.dev

NotAnswering == k'.at = "table" => k' = k
NotAccepting == k'.at # "accept"

LEMMA CleanKept ==
  ASSUME ConnKept, NEW f \in 0 .. F, f # 0, conn'[f] # None, ~conn'[f].crossed
  PROVE  Clean(f) /\ conn'[f].dev = conn[f].dev
<1>1. f \in Socks
  BY SizesArePositive DEF Socks
<1> QED BY <1>1 DEF ConnKept, Clean

LEMMA SlotsKept ==
  ASSUME OwnInv, Kept, HandKept
  PROVE  SlotOwn' /\ Apart' /\ CrossedStays' /\ BlamedOwn' /\ ClosesBlamed'
<1>1. SlotOwn'
  <2> SUFFICES ASSUME NEW s \in Slots, Clean(slot[s].sock)'
               PROVE  slot'[s].ip = conn'[slot'[s].sock].dev
    BY DEF SlotOwn
  <2>1. slot'[s] = slot[s] /\ slot[s].sock \in 0 .. F /\ slot[s].sock # 0
    BY SockType DEF Kept, SlotKept, Clean, OwnInv
  <2>2. conn'[slot[s].sock] # None /\ ~conn'[slot[s].sock].crossed
    BY <2>1 DEF Clean
  <2>3. Clean(slot[s].sock) /\ conn'[slot[s].sock].dev = conn[slot[s].sock].dev
    BY <2>1, <2>2, CleanKept DEF Kept
  <2> QED BY <2>1, <2>3 DEF OwnInv, Hands, SlotOwn
<1>2. Apart'
  <2> SUFFICES ASSUME NEW s \in Slots, NEW t \in Slots, s # t,
                      slot'[s].sock = slot'[t].sock, slot'[s].sock # 0
               PROVE  x'.at = "clear" /\ x'.p \in {s, t}
    BY DEF Apart
  <2>1. slot'[s] = slot[s] /\ slot'[t] = slot[t]
    BY DEF Kept, SlotKept
  <2>2. x.at = "clear" /\ x.p \in {s, t}
    BY <2>1 DEF OwnInv, Hands, Apart
  <2> QED BY <2>2 DEF HandKept
<1>3. CrossedStays'
  <2> SUFFICES ASSUME NEW d \in Devices, reg'[d].crossed, Clean(reg[d].sock)' PROVE FALSE
    BY DEF CrossedStays
  <2>1. reg'[d].sock = reg[d].sock /\ reg[d].crossed
    BY DEF Kept, RegKept
  <2>2. reg[d].sock \in 0 .. F /\ reg[d].sock # 0 /\ conn'[reg[d].sock] # None
        /\ ~conn'[reg[d].sock].crossed
    BY <2>1 DEF Clean, OwnInv, TypeInv, TypeOK, Info
  <2>3. Clean(reg[d].sock)
    BY <2>2, CleanKept DEF Kept
  <2> QED BY <2>1, <2>3 DEF OwnInv, Hands, CrossedStays
<1>4. BlamedOwn'
  <2> SUFFICES ASSUME Ending', Clean(x.sock)' PROVE conn'[x'.sock].dev = x'.dev
    BY DEF BlamedOwn
  <2>1. Ending /\ x'.sock = x.sock /\ x'.dev = x.dev
    BY DEF HandKept
  <2>2. x.sock \in 0 .. F /\ x.sock # 0 /\ conn'[x.sock] # None /\ ~conn'[x.sock].crossed
    BY <2>1 DEF Clean, OwnInv, TypeInv, TypeOK, SendPlace
  <2>3. Clean(x.sock) /\ conn'[x.sock].dev = conn[x.sock].dev
    BY <2>2, CleanKept DEF Kept
  <2> QED BY <2>1, <2>3 DEF OwnInv, Hands, BlamedOwn
<1>5. ClosesBlamed'
  <2> SUFFICES ASSUME x'.at = "close", Clean(slot[x.p].sock)'
               PROVE  slot'[x'.p].sock = x'.sock
    BY DEF ClosesBlamed
  <2>1. x.at = "close" /\ x'.p = x.p /\ x'.sock = x.sock /\ x.p \in Slots
    BY DEF HandKept, Ending, OwnInv, TypeInv, SendAt
  <2>2. slot'[x.p] = slot[x.p] /\ slot[x.p].sock \in 0 .. F /\ slot[x.p].sock # 0
    BY <2>1, SockType DEF Kept, SlotKept, Clean, OwnInv
  <2>3. conn'[slot[x.p].sock] # None /\ ~conn'[slot[x.p].sock].crossed
    BY <2>1, <2>2 DEF Clean
  <2>4. Clean(slot[x.p].sock)
    BY <2>2, <2>3, CleanKept DEF Kept
  <2> QED BY <2>1, <2>2, <2>4 DEF OwnInv, Hands, ClosesBlamed
<1> QED BY <1>1, <1>2, <1>3, <1>4, <1>5

LEMMA AnsweredKept ==
  ASSUME OwnInv, ConnKept, NotAnswering
  PROVE  Answered'
<1> SUFFICES ASSUME k'.at = "table", Clean(k.sock)' PROVE conn'[k'.sock].dev = k'.dev
  BY DEF Answered
<1>1. k' = k
  BY DEF NotAnswering
<1>2. k.sock \in 0 .. F /\ k.sock # 0 /\ conn'[k.sock] # None /\ ~conn'[k.sock].crossed
  BY <1>1 DEF Clean, OwnInv, TypeInv, TypeOK, TcpPlace
<1>3. Clean(k.sock) /\ conn'[k.sock].dev = conn[k.sock].dev
  BY <1>2, CleanKept
<1> QED BY <1>1, <1>3 DEF OwnInv, Hands, Answered

LEMMA NotAcceptingKeeps == NotAccepting => ClosedInHand'
  BY DEF NotAccepting, ClosedInHand

(* A registration that was its device's own and has its number yet is so   *)
(* still, as long as its connection is not closed and the sender and the   *)
(* TCP thread have it in hand until they have ended it.                    *)
LEMMA OwnStays ==
  ASSUME OwnInv, Kept, NEW d \in Devices, reg'[d].sock # 0, ~reg'[d].crossed,
         Clean(reg[d].sock) /\ conn[reg[d].sock].dev = d => conn'[reg[d].sock] # None \/ OwnOf(d)',
         Blamed(d) => Blamed(d)',
         k.at = "gone" => k' = k \/ k.sock # reg[d].sock
  PROVE  OwnOf(d)'
<1>1. reg'[d].sock = reg[d].sock /\ ~reg[d].crossed /\ reg[d].sock # 0 /\ reg[d].sock \in Socks
  BY SockType DEF Kept, RegKept, OwnInv
<1>2. OwnOf(d)
  BY <1>1 DEF OwnInv, Own
<1>3. CASE Clean(reg[d].sock) /\ conn[reg[d].sock].dev = d /\ conn'[reg[d].sock] # None
  <2>1. conn'[reg[d].sock].dev = d /\ ~conn'[reg[d].sock].crossed
    BY <1>1, <1>3 DEF Kept, ConnKept, Clean
  <2> QED BY <1>1, <1>3, <2>1 DEF OwnOf, Clean
<1>4. CASE Blamed(d)
  BY <1>4 DEF OwnOf
<1>5. CASE /\ k.at = "gone" /\ k.sock = reg[d].sock /\ conn[k.sock] = None
           /\ \A e \in Devices : reg[e].sock = k.sock => e = d
  <2>1. k' = k
    BY <1>5
  <2>2. conn'[k.sock] = None
    BY <1>1, <1>5 DEF Kept, ConnKept
  <2>3. \A e \in Devices : reg'[e].sock = k.sock => e = d
    BY <1>1, <1>5 DEF Kept, RegKept
  <2> QED BY <1>1, <1>5, <2>1, <2>2, <2>3 DEF OwnOf
<1> QED BY <1>2, <1>3, <1>4, <1>5 DEF OwnOf

LEMMA BlamedStays ==
  ASSUME StillEnding, NEW d \in Devices, reg'[d].sock = reg[d].sock
  PROVE  Blamed(d) => Blamed(d)'
  BY DEF StillEnding, Ending, Blamed

(* A step that closes nothing and has nothing to do with "gone".           *)
LEMMA NothingClosed ==
  ASSUME OwnInv, Kept, StillEnding, k.at = "gone" => k' = k,
         \A f \in Socks : conn[f] # None => conn'[f] # None
  PROVE  Own'
<1> SUFFICES ASSUME NEW d \in Devices, reg'[d].sock # 0, ~reg'[d].crossed PROVE OwnOf(d)'
  BY DEF Own
<1>1. reg'[d].sock = reg[d].sock /\ reg[d].sock \in Socks
  BY SockType DEF Kept, RegKept, OwnInv
<1>2. Blamed(d) => Blamed(d)'
  BY <1>1, BlamedStays
<1>3. conn[reg[d].sock] # None => conn'[reg[d].sock] # None
  BY <1>1
<1> QED BY <1>2, <1>3, OwnStays DEF Clean

LEMMA OwnInvKept ==
  ASSUME OwnInv, TypeInv', Kept, HandKept, NotAnswering, ClosedInHand', Own'
  PROVE  OwnInv'
<1>1. SlotOwn' /\ Apart' /\ CrossedStays' /\ BlamedOwn' /\ ClosesBlamed'
  BY SlotsKept
<1>2. Answered'
  BY AnsweredKept DEF Kept
<1> QED BY <1>1, <1>2 DEF OwnInv, Hands

(* A step after which the TCP thread is still accepting, or no longer.     *)
LEMMA ClosedStays ==
  ASSUME OwnInv, SlotKept, HandKept, NotAccepting \/ k' = k,
         \A f \in Socks : conn[f] # None => conn'[f] # None
  PROVE  ClosedInHand'
<1> SUFFICES ASSUME k'.at = "accept", NEW s \in Slots, slot'[s].sock # 0,
                    conn'[slot'[s].sock] = None
             PROVE  x'.at = "clear" /\ x'.p = s
  BY DEF ClosedInHand
<1>1. k.at = "accept" /\ slot'[s] = slot[s] /\ slot[s].sock \in Socks
  BY SockType DEF SlotKept, OwnInv, NotAccepting
<1>2. x.at = "clear" /\ x.p = s
  BY <1>1 DEF OwnInv, Hands, ClosedInHand
<1> QED BY <1>1, <1>2 DEF HandKept

LEMMA SameKept ==
  /\ UNCHANGED conn => ConnKept /\ \A f \in Socks : conn[f] # None => conn'[f] # None
  /\ UNCHANGED slot => SlotKept
  /\ UNCHANGED reg => RegKept
  /\ UNCHANGED x => HandKept /\ StillEnding
  BY DEF ConnKept, SlotKept, RegKept, HandKept, StillEnding, Ending

LEMMA OneOfflineKept ==
  ASSUME TypeInv, NEW d \in Devices, NEW r \in Info, reg' = [reg EXCEPT ![d] = Offline(r)]
  PROVE  RegKept /\ reg'[d].sock = 0
<1>1. reg'[d] = Offline(r) /\ \A e \in Devices : e # d => reg'[e] = reg[e]
  BY DEF TypeInv, TypeOK
<1> QED BY <1>1, OfflineType DEF RegKept

(* select() has seen that no slot has a number that is closed.             *)
LEMMA SelectOwn == OwnInv /\ Select => OwnInv'
<1> SUFFICES ASSUME OwnInv, Select PROVE OwnInv'
  OBVIOUS
<1>1. TypeInv'
  BY SelectTypeInv DEF OwnInv
<1>2. UNCHANGED <<conn, slot, reg, x>> /\ k.at = "select" /\ \A f \in Used : Opened(f)
  BY DEF Select
<1>3. k'.at # "table"
  BY IdleTypes DEF Select, KIdle
<1>4. Kept /\ HandKept /\ StillEnding /\ NotAnswering
  BY <1>2, <1>3, SameKept DEF Kept, NotAnswering
<1>5. ClosedInHand'
  BY <1>2 DEF ClosedInHand, Used, Opened
<1>6. Own'
  BY <1>2, <1>4, SameKept, NothingClosed
<1> QED BY <1>1, <1>4, <1>5, <1>6, OwnInvKept

LEMMA PassOwn == OwnInv /\ (NotAccepted \/ PassBy) => OwnInv'
<1> SUFFICES ASSUME OwnInv, NotAccepted \/ PassBy PROVE OwnInv'
  OBVIOUS
<1>1. TypeInv'
  BY NotAcceptedTypeInv, PassByTypeInv DEF OwnInv
<1>2. UNCHANGED <<conn, slot, reg, x>> /\ k.at # "gone"
  BY DEF NotAccepted, PassBy
<1>3. k'.at \in {"select", "slots"}
  BY IdleTypes, NextSlotType DEF NotAccepted, PassBy, OwnInv, TypeInv, TcpAt
<1>4. Kept /\ HandKept /\ StillEnding /\ NotAnswering /\ NotAccepting
  BY <1>2, <1>3, SameKept DEF Kept, NotAnswering, NotAccepting
<1>5. Own'
  BY <1>2, <1>4, SameKept, NothingClosed
<1> QED BY <1>1, <1>4, <1>5, NotAcceptingKeeps, OwnInvKept

(* Where a connection is accepted with a number or a slot that is still in *)
(* a hand, it is crossed, and so all that is said about it.                *)
LEMMA AcceptOwn == OwnInv /\ Accept => OwnInv'
<1> SUFFICES ASSUME OwnInv, Accept PROVE OwnInv'
  OBVIOUS
<1>1. TypeInv'
  BY AcceptTypeInv DEF OwnInv
<1>2. PICK f \in Socks, s \in Slots, d \in Devices, c \in BOOLEAN :
        /\ conn[f] = None /\ slot[s].sock = 0 /\ k.at = "accept"
        /\ c = (InHand(f) \/ SlotInHand(s))
        /\ conn' = [conn EXCEPT ![f] = [dev |-> d, end |-> "open", crossed |-> c]]
        /\ slot' = [slot EXCEPT ![s] = [sock |-> f, ip |-> d]]
        /\ k' = [k EXCEPT !.at = "slots", !.p = 1]
        /\ UNCHANGED <<reg, x>>
  BY Accepts DEF OwnInv
<1>3. /\ conn'[f] = [dev |-> d, end |-> "open", crossed |-> c]
      /\ slot'[s] = [sock |-> f, ip |-> d] /\ f # 0
      /\ \A h \in Socks : h # f => conn'[h] = conn[h]
      /\ \A t \in Slots : t # s => slot'[t] = slot[t]
  BY <1>2 DEF OwnInv, TypeInv, TypeOK, Socks
<1>4. InHand(f) \/ SlotInHand(s) => ~Clean(f)'
  <2>1. conn'[f].crossed = c
    BY <1>3
  <2>2. InHand(f) \/ SlotInHand(s) => conn'[f].crossed
    BY Zenon, <1>2, <2>1
  <2> QED BY <2>2 DEF Clean
<1>5. \A h \in 0 .. F : h # f => (Clean(h)' => Clean(h) /\ conn'[h] = conn[h])
  BY <1>3 DEF Clean, Socks
<1>6. \A t \in Slots : slot[t].sock = f => x.at = "clear" /\ x.p = t /\ InHand(f)
  BY <1>2, <1>3 DEF OwnInv, Hands, ClosedInHand, InHand
<1>7. SlotOwn'
  <2> SUFFICES ASSUME NEW t \in Slots, Clean(slot[t].sock)'
               PROVE  slot'[t].ip = conn'[slot'[t].sock].dev
    BY DEF SlotOwn
  <2>1. CASE t = s
    BY <1>3, <2>1
  <2>2. CASE t # s
    <3>1. slot'[t] = slot[t] /\ slot[t].sock \in 0 .. F
      BY <1>3, <2>2, SockType DEF OwnInv
    <3>2. slot[t].sock # f
      BY <1>4, <1>6, <3>1
    <3> QED BY <1>5, <3>1, <3>2 DEF OwnInv, Hands, SlotOwn
  <2> QED BY <2>1, <2>2
<1>8. Apart'
  <2> SUFFICES ASSUME NEW t \in Slots, NEW u \in Slots, t # u,
                      slot'[t].sock = slot'[u].sock, slot'[t].sock # 0
               PROVE  x.at = "clear" /\ x.p \in {t, u}
    BY <1>2 DEF Apart
  <2>1. CASE t # s /\ u # s
    BY <1>3, <2>1 DEF OwnInv, Hands, Apart
  <2>2. CASE t = s \/ u = s
    BY <1>3, <1>6, <2>2
  <2> QED BY <2>1, <2>2
<1>9. ClosedInHand' /\ Answered'
  <2>1. k'.at = "slots"
    BY <1>2 DEF OwnInv, TypeInv, TypeOK, TcpPlace
  <2> QED BY <2>1 DEF ClosedInHand, Answered
<1>10. CrossedStays'
  <2> SUFFICES ASSUME NEW e \in Devices, reg[e].crossed, Clean(reg[e].sock)' PROVE FALSE
    BY <1>2 DEF CrossedStays
  <2>1. reg' = reg /\ reg[e].sock \in 0 .. F
    BY <1>2 DEF OwnInv, TypeInv, TypeOK, Info
  <2>2. CASE reg[e].sock = f
    BY <1>4, <2>1, <2>2 DEF InHand
  <2>3. CASE reg[e].sock # f
    BY <1>5, <2>1, <2>3 DEF OwnInv, Hands, CrossedStays
  <2> QED BY <2>2, <2>3
<1>11. BlamedOwn'
  <2> SUFFICES ASSUME Ending, Clean(x.sock)' PROVE conn'[x.sock].dev = x.dev
    BY <1>2 DEF BlamedOwn, Ending
  <2>1. x' = x /\ x.sock \in 0 .. F
    BY <1>2 DEF OwnInv, TypeInv, TypeOK, SendPlace
  <2>2. x.sock # f
    BY <1>4, <2>1 DEF InHand, Ending
  <2> QED BY <1>5, <2>1, <2>2 DEF OwnInv, Hands, BlamedOwn
<1>12. ClosesBlamed'
  <2> SUFFICES ASSUME x.at = "close", Clean(slot[x.p].sock)' PROVE slot'[x.p].sock = x.sock
    BY <1>2 DEF ClosesBlamed
  <2>1. x' = x /\ x.p \in Slots
    BY <1>2 DEF OwnInv, TypeInv, SendAt
  <2>2. x.p # s
    BY <1>3, <1>4, <2>1 DEF SlotInHand
  <2>3. slot'[x.p] = slot[x.p] /\ slot[x.p].sock \in 0 .. F
    BY <1>3, <2>1, <2>2, SockType DEF OwnInv
  <2>4. slot[x.p].sock # f
    BY <1>6, <2>1
  <2>5. Clean(slot[x.p].sock)
    BY <1>5, <2>1, <2>3, <2>4
  <2> QED BY <2>3, <2>5 DEF OwnInv, Hands, ClosesBlamed
<1>13. Own'
  <2> SUFFICES ASSUME NEW e \in Devices, reg[e].sock # 0, ~reg[e].crossed PROVE OwnOf(e)'
    BY <1>2 DEF Own
  <2>1. CASE Clean(reg[e].sock) /\ conn[reg[e].sock].dev = e
    <3>1. reg[e].sock # f /\ reg[e].sock \in Socks
      BY <1>2, <2>1, SockType DEF Clean, OwnInv
    <3>2. conn'[reg[e].sock] = conn[reg[e].sock] /\ reg' = reg
      BY <1>2, <1>3, <3>1
    <3> QED BY <2>1, <3>2 DEF OwnOf, Clean
  <2>2. CASE Blamed(e)
    BY <1>2, <2>2 DEF OwnOf, Blamed
  <2> QED BY <1>2, <2>1, <2>2 DEF OwnInv, Own, OwnOf
<1> QED BY <1>1, <1>7, <1>8, <1>9, <1>10, <1>11, <1>12, <1>13 DEF OwnInv, Hands

(* Steps that close numbers together with slots.                           *)
LEMMA ClosedKept == ClosedWithSlots => ConnKept /\ SlotKept
  BY DEF ClosedWithSlots, ConnKept, SlotKept

(* Only numbers that no device has are closed.                             *)
LEMMA RefuseOwn == OwnInv /\ Refuse => OwnInv'
<1> SUFFICES ASSUME OwnInv, Refuse PROVE OwnInv'
  OBVIOUS
<1>1. TypeInv'
  BY RefuseTypeInv DEF OwnInv
<1>2. UNCHANGED <<reg, x>> /\ k.at = "accept" /\ k' = KIdle /\ conn' = Closed(Unused)
  BY DEF Refuse
<1>3. ConnKept /\ SlotKept
  BY ClosedWithSlotsSteps, ClosedKept DEF OwnInv
<1>4. Kept /\ HandKept /\ StillEnding /\ NotAnswering /\ NotAccepting
  BY <1>2, <1>3, SameKept, IdleTypes DEF Kept, NotAnswering, NotAccepting
<1>5. Own'
  <2> SUFFICES ASSUME NEW d \in Devices, reg'[d].sock # 0, ~reg'[d].crossed PROVE OwnOf(d)'
    BY DEF Own
  <2>1. reg[d].sock \in Socks /\ reg[d].sock \notin Unused
    BY <1>2, SockType DEF OwnInv, Unused, InUse
  <2>2. conn'[reg[d].sock] = conn[reg[d].sock]
    BY <1>2, <2>1 DEF Closed
  <2>3. Blamed(d) => Blamed(d)'
    BY <1>2, <1>4, BlamedStays
  <2> QED BY <1>2, <1>4, <2>2, <2>3, OwnStays DEF Clean
<1> QED BY <1>1, <1>4, <1>5, NotAcceptingKeeps, OwnInvKept

(* Another device that had the number would have its connection too.       *)
LEMMA HangUpOwn == OwnInv /\ HangUp => OwnInv'
<1> SUFFICES ASSUME OwnInv, HangUp PROVE OwnInv'
  OBVIOUS
<1>1. TypeInv'
  BY HangUpTypeInv DEF OwnInv
<1>2. PICK f \in Socks : /\ f = Here /\ k.at = "slots" /\ conn' = Closed({f})
                         /\ k' = [k EXCEPT !.at = "gone", !.sock = f] /\ UNCHANGED <<reg, x>>
  BY HereType DEF HangUp, ClosedHere, OwnInv
<1>3. k'.at = "gone" /\ k'.sock = f
  BY <1>2 DEF OwnInv, TypeInv, TypeOK, TcpPlace
<1>4. ConnKept /\ SlotKept
  BY ClosedWithSlotsSteps, ClosedKept DEF OwnInv
<1>5. Kept /\ HandKept /\ StillEnding /\ NotAnswering /\ NotAccepting
  BY <1>2, <1>3, <1>4, SameKept DEF Kept, NotAnswering, NotAccepting
<1>6. Own'
  <2> SUFFICES ASSUME NEW d \in Devices, reg'[d].sock # 0, ~reg'[d].crossed PROVE OwnOf(d)'
    BY DEF Own
  <2>1. Blamed(d) => Blamed(d)'
    BY <1>2, <1>5, BlamedStays
  <2>2. CASE Clean(reg[d].sock) /\ conn[reg[d].sock].dev = d /\ reg[d].sock = f
    <3>1. conn'[f] = None
      BY <1>2 DEF Closed
    <3>2. ASSUME NEW e \in Devices, reg[e].sock = f PROVE e = d
      <4>1. ~reg[e].crossed /\ reg[e].sock # 0
        BY <2>2, <3>2 DEF OwnInv, Hands, CrossedStays, Clean
      <4>2. OwnOf(e)
        BY <4>1 DEF OwnInv, Own
      <4>3. Blamed(e) => conn[f].dev = e
        BY <2>2, <3>2 DEF OwnInv, Hands, BlamedOwn, Blamed, Ending
      <4> QED BY <1>2, <2>2, <3>2, <4>2, <4>3 DEF OwnOf
    <3> QED BY <1>2, <1>3, <2>2, <3>1, <3>2 DEF OwnOf
  <2>3. CASE reg[d].sock # f
    <3>1. reg[d].sock \in Socks
      BY <1>2, SockType DEF OwnInv
    <3>2. conn'[reg[d].sock] = conn[reg[d].sock]
      BY <1>2, <2>3, <3>1 DEF Closed
    <3> QED BY <1>2, <1>5, <2>1, <3>2, OwnStays DEF Clean
  <2>4. reg[d].sock # 0 /\ ~reg[d].crossed
    BY <1>2
  <2> QED BY <1>2, <2>1, <2>2, <2>3, <2>4 DEF OwnInv, Own, OwnOf
<1> QED BY <1>1, <1>5, <1>6, NotAcceptingKeeps, OwnInvKept

(* The one that had the number is taken offline.                           *)
LEMMA FreeInfoOwn == OwnInv /\ FreeInfo => OwnInv'
<1> SUFFICES ASSUME OwnInv, FreeInfo PROVE OwnInv'
  OBVIOUS
<1>1. TypeInv'
  BY FreeInfoTypeInv DEF OwnInv
<1>2. UNCHANGED <<conn, slot, x>> /\ k.at = "gone" /\ NextSlot /\ HolderOffline(k.sock)
  BY DEF FreeInfo
<1>3. k'.at \in {"select", "slots"}
  BY <1>2, NextSlotType DEF OwnInv, TypeInv, TcpAt
<1>4. RegKept /\ \A d \in Devices :
        reg[d].sock = k.sock /\ (\A e \in Devices : reg[e].sock = k.sock => e = d)
          => reg'[d].sock = 0
  <2>1. CASE (\A d \in Devices : reg[d].sock # k.sock) /\ UNCHANGED reg
    BY <2>1, SameKept
  <2>2. ASSUME NEW e \in Devices, reg[e].sock = k.sock, reg' = [reg EXCEPT ![e] = Offline(@)]
        PROVE  RegKept /\ reg'[e].sock = 0
    <3>1. reg[e] \in Info
      BY DEF OwnInv, TypeInv, TypeOK
    <3> QED BY <2>2, <3>1, OneOfflineKept DEF OwnInv
  <2> QED BY <1>2, <2>1, <2>2 DEF HolderOffline
<1>5. Kept /\ HandKept /\ StillEnding /\ NotAnswering /\ NotAccepting
  BY <1>2, <1>3, <1>4, SameKept DEF Kept, NotAnswering, NotAccepting
<1>6. Own'
  <2> SUFFICES ASSUME NEW d \in Devices, reg'[d].sock # 0, ~reg'[d].crossed PROVE OwnOf(d)'
    BY DEF Own
  <2>1. reg'[d].sock = reg[d].sock /\ reg[d].sock # 0 /\ ~reg[d].crossed
    BY <1>4 DEF RegKept
  <2>2. Blamed(d) => Blamed(d)'
    BY <1>5, <2>1, BlamedStays
  <2>3. Clean(reg[d].sock) \/ Blamed(d)
    BY <1>4, <2>1 DEF OwnInv, Own, OwnOf
  <2>4. CASE Blamed(d)
    BY <2>2, <2>4 DEF OwnOf
  <2>5. CASE ~Blamed(d) /\ Clean(reg[d].sock) /\ conn[reg[d].sock].dev = d
    BY <1>2, <2>1, <2>5 DEF OwnOf, Clean
  <2> QED BY <1>4, <2>1, <2>4, <2>5 DEF OwnInv, Own, OwnOf
<1> QED BY <1>1, <1>5, <1>6, NotAcceptingKeeps, OwnInvKept

(* A message on a connection that is not crossed is that of its device.    *)
LEMMA Sender ==
  ASSUME OwnInv, Message
  PROVE  /\ k.at = "slots" /\ k.p \in Slots /\ slot[k.p].ip \in Devices
         /\ Here \in Socks /\ conn[Here] # None
         /\ Clean(Here) => conn[Here].dev = slot[k.p].ip
<1>1. k.at = "slots" /\ k.p \in Slots /\ Here \in Socks /\ slot[k.p].ip \in Devices
      /\ conn[Here] # None
  BY HereType DEF Message, Opened, OwnInv
<1> QED BY <1>1 DEF Here, OwnInv, Hands, SlotOwn

LEMMA RegisterOwn == OwnInv /\ Register => OwnInv'
<1> SUFFICES ASSUME OwnInv, Register PROVE OwnInv'
  OBVIOUS
<1>1. TypeInv'
  BY RegisterTypeInv DEF OwnInv
<1>2. PICK d \in Devices, f \in Socks :
        /\ d = slot[k.p].ip /\ f = Here /\ conn[f] # None /\ k.p \in Slots
        /\ Clean(f) => conn[f].dev = d
  BY Sender DEF Register
<1>3. /\ reg' = [reg EXCEPT ![d] = [known |-> TRUE, id |-> @.id, on |-> TRUE, sock |-> f,
                                    left |-> E, crossed |-> conn[f].crossed]]
      /\ k' = [k EXCEPT !.at = "table", !.sock = f, !.dev = d]
      /\ UNCHANGED <<conn, slot, x>> /\ k.at = "slots"
  BY <1>2 DEF Register, Message
<1>4. /\ reg'[d].sock = f /\ reg'[d].crossed = conn[f].crossed
      /\ \A e \in Devices : e # d => reg'[e] = reg[e]
  BY <1>3 DEF OwnInv, TypeInv, TypeOK
<1>5. k'.at = "table" /\ k'.sock = f /\ k'.dev = d
  BY <1>2, <1>3, TableType DEF OwnInv
<1>6. SlotOwn' /\ Apart' /\ BlamedOwn' /\ ClosesBlamed' /\ ClosedInHand' /\ Answered'
  BY <1>2, <1>3, <1>5 DEF OwnInv, Hands, SlotOwn, Apart, BlamedOwn, ClosesBlamed, ClosedInHand,
     Answered, Clean, Ending
<1>7. CrossedStays'
  <2> SUFFICES ASSUME NEW e \in Devices, reg'[e].crossed PROVE ~Clean(reg'[e].sock)
    BY <1>3 DEF CrossedStays, Clean
  <2>1. CASE e = d
    BY <1>4, <2>1 DEF Clean
  <2>2. CASE e # d
    BY <1>4, <2>2 DEF OwnInv, Hands, CrossedStays
  <2> QED BY <2>1, <2>2
<1>8. Own'
  <2> SUFFICES ASSUME NEW e \in Devices, reg'[e].sock # 0, ~reg'[e].crossed PROVE OwnOf(e)'
    BY DEF Own
  <2>1. CASE e = d
    <3>1. Clean(f)
      BY <1>2, <1>4, <2>1 DEF Clean, Socks
    <3>2. Clean(reg[e].sock)' /\ conn'[reg'[e].sock].dev = e
      BY <1>2, <1>3, <1>4, <2>1, <3>1 DEF Clean
    <3> QED BY <3>2 DEF OwnOf
  <2>2. CASE e # d
    <3>1. OwnOf(e) /\ reg'[e] = reg[e]
      BY <1>4, <2>2 DEF OwnInv, Own
    <3>2. (Clean(reg[e].sock) /\ conn[reg[e].sock].dev = e) \/ Blamed(e)
      BY <1>3, <3>1 DEF OwnOf
    <3> QED BY <1>3, <3>1, <3>2 DEF OwnOf, Clean, Blamed
  <2> QED BY <2>1, <2>2
<1> QED BY <1>1, <1>6, <1>7, <1>8 DEF OwnInv, Hands

LEMMA UnregisterOwn == OwnInv /\ Unregister => OwnInv'
<1> SUFFICES ASSUME OwnInv, Unregister PROVE OwnInv'
  OBVIOUS
<1>1. TypeInv'
  BY UnregisterTypeInv DEF OwnInv
<1>2. PICK d \in Devices, f \in Socks :
        /\ d = slot[k.p].ip /\ f = Here /\ conn[f] # None /\ k.p \in Slots /\ k.at = "slots"
        /\ Clean(f) => conn[f].dev = d
  BY Sender DEF Unregister
<1>3. UNCHANGED <<conn, slot, x>>
  BY DEF Unregister
<1>4. ConnKept /\ SlotKept /\ HandKept /\ StillEnding
  BY <1>3, SameKept
<1>5. CASE NextSlot /\ UNCHANGED reg
  <2>1. k'.at \in {"select", "slots"}
    BY <1>2, <1>5, NextSlotType DEF OwnInv
  <2>2. Kept /\ NotAnswering /\ NotAccepting
    BY <1>4, <1>5, <2>1, SameKept DEF Kept, NotAnswering, NotAccepting
  <2>3. Own'
    BY <1>2, <1>3, <1>4, <2>2, SameKept, NothingClosed
  <2> QED BY <1>1, <1>4, <2>2, <2>3, NotAcceptingKeeps, OwnInvKept
<1>6. CASE /\ reg' = [reg EXCEPT ![d] = Offline(@)]
           /\ k' = [k EXCEPT !.at = "table", !.sock = f, !.dev = d]
  <2>1. RegKept
    <3>1. reg[d] \in Info
      BY DEF OwnInv, TypeInv, TypeOK
    <3> QED BY <1>6, <3>1, OneOfflineKept DEF OwnInv
  <2>2. k'.at = "table" /\ k'.sock = f /\ k'.dev = d
    BY <1>2, <1>6, TableType DEF OwnInv
  <2>3. Kept /\ NotAccepting
    BY <1>4, <2>1, <2>2 DEF Kept, NotAccepting
  <2>4. Own'
    BY <1>2, <1>3, <1>4, <2>3, SameKept, NothingClosed
  <2>5. Answered'
    BY <1>2, <1>3, <2>2 DEF Answered, Clean
  <2>6. SlotOwn' /\ Apart' /\ CrossedStays' /\ BlamedOwn' /\ ClosesBlamed'
    BY <1>4, <2>3, SlotsKept
  <2> QED BY <1>1, <2>3, <2>4, <2>5, <2>6, NotAcceptingKeeps DEF OwnInv, Hands
<1> QED BY <1>2, <1>5, <1>6 DEF Unregister

(* Of the devices that are online on the number that is closed, the one    *)
(* whose connection it is is taken offline with it.                        *)
LEMMA ConfirmOwn == OwnInv /\ Confirm => OwnInv'
<1> SUFFICES ASSUME OwnInv, Confirm PROVE OwnInv'
  OBVIOUS
<1>1. TypeInv'
  BY ConfirmTypeInv DEF OwnInv
<1>2. /\ k.at = "table" /\ k.p \in Slots /\ k.sock \in Socks /\ k.dev \in Devices /\ NextSlot
      /\ UNCHANGED x
      /\ \/ UNCHANGED <<conn, slot, reg>>
         \/ UNCHANGED <<conn, slot>> /\ reg' = [reg EXCEPT ![k.dev].id = TRUE]
         \/ ConfirmEnds
  BY Confirms DEF OwnInv
<1>3. k'.at \in {"select", "slots"}
  BY <1>2, NextSlotType DEF OwnInv
<1>4. ConnKept /\ SlotKept
  BY ClosedWithSlotsSteps, ClosedKept DEF OwnInv
<1>5. HandKept /\ StillEnding /\ NotAnswering /\ NotAccepting
  BY <1>2, <1>3, SameKept DEF NotAnswering, NotAccepting
<1>6. RegKept /\ Own'
  <2>1. CASE UNCHANGED <<conn, slot>> /\ (UNCHANGED reg \/ reg' = [reg EXCEPT ![k.dev].id = TRUE])
    <3>1. RegKept
      <4> SUFFICES ASSUME NEW d \in Devices
                   PROVE  reg'[d].sock = reg[d].sock /\ reg'[d].crossed = reg[d].crossed
        BY DEF RegKept
      <4>1. reg \in [Devices -> Info] /\ reg[d] \in Info
        BY DEF OwnInv, TypeInv, TypeOK
      <4>2. CASE UNCHANGED reg
        BY <4>2
      <4>3. CASE reg' = [reg EXCEPT ![k.dev].id = TRUE]
        <5>1. reg'[d] = reg[d] \/ reg'[d] = [reg[d] EXCEPT !.id = TRUE]
          BY <4>1, <4>3
        <5> QED BY <4>1, <5>1 DEF Info
      <4> QED BY <2>1, <4>2, <4>3
    <3>2. Own'
      BY <1>2, <1>4, <1>5, <2>1, <3>1, SameKept, NothingClosed DEF Kept
    <3> QED BY <3>1, <3>2
  <2>2. CASE ConfirmEnds
    <3>1. [reg[k.dev] EXCEPT !.id = TRUE] \in Info
      BY <1>2 DEF OwnInv, TypeInv, TypeOK, Info
    <3>2. RegKept /\ reg'[k.dev].sock = 0
      BY <1>2, <2>2, <3>1, OneOfflineKept DEF ConfirmEnds, OwnInv
    <3>3. Own'
      <4> SUFFICES ASSUME NEW d \in Devices, reg'[d].sock # 0, ~reg'[d].crossed
                   PROVE  OwnOf(d)'
        BY DEF Own
      <4>1. d # k.dev /\ reg'[d].sock = reg[d].sock /\ reg[d].sock \in Socks
        BY <3>2, SockType DEF RegKept, OwnInv
      <4>2. Blamed(d) => Blamed(d)'
        BY <1>5, <4>1, BlamedStays
      <4>3. Clean(reg[d].sock) /\ conn[reg[d].sock].dev = d => reg[d].sock # k.sock
        BY <1>2, <4>1 DEF OwnInv, Hands, Answered
      <4>4. reg[d].sock # k.sock => conn'[reg[d].sock] = conn[reg[d].sock]
        BY <2>2, <4>1 DEF ConfirmEnds, Closed
      <4> QED BY <1>2, <1>4, <3>2, <4>2, <4>3, <4>4, OwnStays DEF Clean, Kept
    <3> QED BY <3>2, <3>3
  <2> QED BY <1>2, <2>1, <2>2
<1> QED BY <1>1, <1>4, <1>5, <1>6, NotAcceptingKeeps, OwnInvKept DEF Kept

(* The sender: choosing, sending, passing slots by.                        *)
LEMMA TalkOwn == OwnInv /\ (Send \/ PassSlot \/ \E d \in Devices : Choose(d)) => OwnInv'
<1> SUFFICES ASSUME OwnInv, Send \/ PassSlot \/ \E d \in Devices : Choose(d) PROVE OwnInv'
  OBVIOUS
<1>1. TypeInv'
  BY TalkTypeInv DEF OwnInv
<1>2. UNCHANGED <<conn, slot, reg, k>>
  BY DEF Send, PassSlot, Choose
<1>3. x \in SendPlace
  BY DEF OwnInv, TypeInv, TypeOK
<1>4. HandKept /\ StillEnding
  <2>1. CASE Send
    BY <1>3, <2>1, IdleTypes DEF Send, HandKept, StillEnding, Ending, SendPlace
  <2>2. CASE PassSlot
    BY <1>3, <2>2 DEF PassSlot, HandKept, StillEnding, Ending, SendPlace
  <2>3. ASSUME NEW d \in Devices, Choose(d) PROVE HandKept /\ StillEnding
    BY <2>3 DEF Choose, HandKept, StillEnding, Ending, XIdle
  <2> QED BY <2>1, <2>2, <2>3
<1>5. Kept /\ NotAnswering
  BY <1>2, SameKept DEF Kept, NotAnswering
<1>6. ClosedInHand'
  BY <1>2, <1>4, <1>5, SameKept, ClosedStays DEF Kept
<1>7. Own'
  BY <1>2, <1>4, <1>5, SameKept, NothingClosed
<1> QED BY <1>1, <1>4, <1>5, <1>6, <1>7, OwnInvKept

(* The sender blames the device whose number it takes, and whose           *)
(* connection that is.                                                     *)
LEMMA BlameOwn == OwnInv /\ Blame => OwnInv'
<1> SUFFICES ASSUME OwnInv, Blame PROVE OwnInv'
  OBVIOUS
<1>1. TypeInv'
  BY TalkTypeInv DEF OwnInv
<1>2. /\ x.at = "failed" /\ x.dev \in Devices /\ UNCHANGED <<conn, slot, reg, k>>
      /\ x'.sock = reg[x.dev].sock /\ x'.dev = x.dev /\ x'.at = "scan"
  BY DEF Blame, Sock, OwnInv, TypeInv, TypeOK, SendAt, SendPlace
<1>3. SlotOwn' /\ Apart' /\ ClosedInHand' /\ CrossedStays' /\ ClosesBlamed' /\ Answered'
  BY <1>2 DEF OwnInv, Hands, SlotOwn, Apart, ClosedInHand, CrossedStays, ClosesBlamed, Answered,
     Clean
<1>4. BlamedOwn'
  <2> SUFFICES ASSUME Clean(reg[x.dev].sock) PROVE conn[reg[x.dev].sock].dev = x.dev
    BY <1>2 DEF BlamedOwn, Clean
  <2>1. ~reg[x.dev].crossed /\ reg[x.dev].sock # 0
    BY <1>2 DEF OwnInv, Hands, CrossedStays, Clean
  <2> QED BY <1>2, <2>1 DEF OwnInv, Own, OwnOf, Blamed, Clean
<1>5. Own'
  BY <1>2 DEF OwnInv, Own, OwnOf, Blamed, Clean
<1> QED BY <1>1, <1>3, <1>4, <1>5 DEF OwnInv, Hands

LEMMA FindSlotOwn == OwnInv /\ FindSlot => OwnInv'
<1> SUFFICES ASSUME OwnInv, FindSlot PROVE OwnInv'
  OBVIOUS
<1>1. TypeInv'
  BY TalkTypeInv DEF OwnInv
<1>2. /\ x.at = "scan" /\ slot[x.p].sock = x.sock /\ UNCHANGED <<conn, slot, reg, k>>
      /\ x'.at = "close" /\ x'.p = x.p /\ x'.sock = x.sock /\ x'.dev = x.dev
  BY DEF FindSlot, HasSock, OwnInv, TypeInv, TypeOK, SendPlace
<1>3. SlotOwn' /\ Apart' /\ ClosedInHand' /\ CrossedStays' /\ Answered'
  BY <1>2 DEF OwnInv, Hands, SlotOwn, Apart, ClosedInHand, CrossedStays, Answered, Clean
<1>4. BlamedOwn' /\ ClosesBlamed'
  BY <1>2 DEF OwnInv, Hands, BlamedOwn, ClosesBlamed, Ending, Clean
<1>5. Own'
  BY <1>2 DEF OwnInv, Own, OwnOf, Blamed, Clean
<1> QED BY <1>1, <1>3, <1>4, <1>5 DEF OwnInv, Hands

(* What it closes, if that is not crossed, is the connection of the device *)
(* it blames and will take offline.                                        *)
LEMMA CloseSockOwn == OwnInv /\ CloseSock => OwnInv'
<1> SUFFICES ASSUME OwnInv, CloseSock PROVE OwnInv'
  OBVIOUS
<1>1. TypeInv'
  BY CloseSockTypeInv DEF OwnInv
<1>2. /\ x.at = "close" /\ x'.at = "clear" /\ x'.sock = x.sock /\ x'.dev = x.dev
      /\ x'.p = x.p /\ x.p \in Slots /\ UNCHANGED <<slot, reg, k>>
      /\ \A f \in Socks : conn'[f] = IF f = slot[x.p].sock THEN None ELSE conn[f]
  BY DEF CloseSock, Closed, OwnInv, TypeInv, TypeOK, SendPlace, SendAt
<1>3. HandKept /\ StillEnding /\ NotAnswering
  BY <1>2 DEF HandKept, StillEnding, Ending, NotAnswering
<1>4. ConnKept
  BY <1>2 DEF ConnKept
<1>5. Kept
  BY <1>2, <1>4, SameKept DEF Kept
<1>6. ClosedInHand'
  <2> SUFFICES ASSUME k.at = "accept", NEW s \in Slots, slot[s].sock # 0,
                      conn'[slot[s].sock] = None
               PROVE  x.p = s
    BY <1>2 DEF ClosedInHand
  <2>1. conn[slot[s].sock] # None /\ slot[s].sock \in Socks
    BY <1>2, SockType DEF OwnInv, Hands, ClosedInHand
  <2>2. slot[s].sock = slot[x.p].sock
    BY <1>2, <2>1
  <2> QED BY <1>2, <2>2 DEF OwnInv, Hands, Apart
<1>7. Own'
  <2> SUFFICES ASSUME NEW d \in Devices, reg'[d].sock # 0, ~reg'[d].crossed PROVE OwnOf(d)'
    BY DEF Own
  <2>1. reg'[d].sock = reg[d].sock /\ reg[d].sock \in Socks
    BY <1>2, SockType DEF OwnInv
  <2>2. Blamed(d) => Blamed(d)'
    BY <1>3, <2>1, BlamedStays
  <2>3. Clean(reg[d].sock) /\ conn[reg[d].sock].dev = d /\ reg[d].sock = slot[x.p].sock
          => Blamed(d)
    BY <1>2 DEF OwnInv, Hands, ClosesBlamed, BlamedOwn, Ending, Blamed
  <2>4. Clean(reg[d].sock) /\ conn[reg[d].sock].dev = d
          => conn'[reg[d].sock] # None \/ OwnOf(d)'
    BY <1>2, <2>1, <2>2, <2>3 DEF OwnOf, Clean
  <2> QED BY <1>2, <1>5, <2>2, <2>4, OwnStays
<1> QED BY <1>1, <1>3, <1>5, <1>6, <1>7, OwnInvKept

LEMMA ClearSlotOwn == OwnInv /\ ClearSlot => OwnInv'
<1> SUFFICES ASSUME OwnInv, ClearSlot PROVE OwnInv'
  OBVIOUS
<1>1. TypeInv'
  BY ClearSlotTypeInv DEF OwnInv
<1>2. /\ x.at = "clear" /\ x'.at = "scan" /\ x'.sock = x.sock /\ x'.dev = x.dev
      /\ UNCHANGED <<conn, reg, k>> /\ x.p \in Slots
      /\ \A s \in Slots : slot'[s] = IF s = x.p THEN NoSlot ELSE slot[s]
  BY DEF ClearSlot, OwnInv, TypeInv, TypeOK, SendPlace, SendAt
<1>3. SlotKept /\ HandKept /\ StillEnding /\ NotAnswering
  BY <1>2, IdleTypes DEF SlotKept, HandKept, StillEnding, Ending, NotAnswering
<1>4. Kept
  BY <1>2, <1>3, SameKept DEF Kept
<1>5. ClosedInHand'
  BY <1>2, <1>3, SameKept, ClosedStays
<1>6. Own'
  BY <1>2, <1>3, <1>4, SameKept, NothingClosed
<1> QED BY <1>1, <1>3, <1>4, <1>5, <1>6, OwnInvKept

LEMMA ResetOwn == OwnInv /\ Reset => OwnInv'
<1> SUFFICES ASSUME OwnInv, Reset PROVE OwnInv'
  OBVIOUS
<1>1. TypeInv'
  BY ResetTypeInv DEF OwnInv
<1>2. /\ x.at = "reset" /\ x.dev \in Devices /\ reg' = [reg EXCEPT ![x.dev] = Offline(@)]
      /\ x'.at = "idle" /\ UNCHANGED <<conn, slot, k>>
  BY IdleTypes DEF Reset, OwnInv, TypeInv, SendAt
<1>3. RegKept /\ reg'[x.dev].sock = 0
  <2>1. reg[x.dev] \in Info
    BY <1>2 DEF OwnInv, TypeInv, TypeOK
  <2> QED BY <1>2, <2>1, OneOfflineKept DEF OwnInv
<1>4. HandKept /\ NotAnswering
  BY <1>2 DEF HandKept, Ending, NotAnswering
<1>5. Kept
  BY <1>2, <1>3, SameKept DEF Kept
<1>6. ClosedInHand'
  BY <1>2, <1>4, <1>5, SameKept, ClosedStays DEF Kept
<1>7. Own'
  <2> SUFFICES ASSUME NEW d \in Devices, reg'[d].sock # 0, ~reg'[d].crossed PROVE OwnOf(d)'
    BY DEF Own
  <2>1. ~Blamed(d)
    BY <1>3 DEF Blamed
  <2> QED BY <1>2, <1>5, <2>1, OwnStays DEF Clean
<1> QED BY <1>1, <1>4, <1>5, <1>6, <1>7, OwnInvKept

(* The expiry, and the other ends.                                         *)
LEMMA OthersOwn ==
  ASSUME OwnInv,
         ExpiryStep \/ (\E d \in Devices : Connect(d)) \/ (\E f \in Socks : Break(f))
  PROVE  OwnInv'
<1>1. TypeInv'
  BY CountDownTypeInv, ExpireTypeInv, ConnectTypeInv, BreakTypeInv DEF OwnInv, ExpiryStep
<1>2. UNCHANGED <<slot, k, x>>
  BY DEF ExpiryStep, CountDown, Expire, Connect, Break
<1>3. RegKept
  <2>1. CASE CountDown
    <3> SUFFICES ASSUME NEW d \in Devices
                 PROVE  reg'[d].sock = reg[d].sock /\ reg'[d].crossed = reg[d].crossed
      BY DEF RegKept
    <3>1. reg[d] \in Info
      BY DEF OwnInv, TypeInv, TypeOK
    <3> QED BY <2>1, <3>1 DEF CountDown, Info
  <2>2. ASSUME NEW d \in Devices, Expire(d) PROVE RegKept
    <3>1. reg[d] \in Info
      BY DEF OwnInv, TypeInv, TypeOK
    <3> QED BY <2>2, <3>1, OneOfflineKept DEF Expire, OwnInv
  <2>3. CASE (\E d \in Devices : Connect(d)) \/ (\E f \in Socks : Break(f))
    BY <2>3, SameKept DEF Connect, Break
  <2> QED BY <2>1, <2>2, <2>3 DEF ExpiryStep
<1>4. ConnKept /\ \A f \in Socks : conn[f] # None => conn'[f] # None
  <2>1. CASE ExpiryStep \/ \E d \in Devices : Connect(d)
    BY <2>1, SameKept DEF ExpiryStep, CountDown, Expire, Connect
  <2>2. ASSUME NEW f \in Socks, Break(f)
        PROVE  ConnKept /\ \A h \in Socks : conn[h] # None => conn'[h] # None
    BY <2>2, Breaks DEF ConnKept, OwnInv
  <2> QED BY <2>1, <2>2
<1>5. Kept /\ HandKept /\ StillEnding /\ NotAnswering
  BY <1>2, <1>3, <1>4, SameKept DEF Kept, NotAnswering
<1>6. ClosedInHand'
  BY <1>2, <1>4, <1>5, ClosedStays DEF Kept
<1>7. Own'
  BY <1>2, <1>4, <1>5, NothingClosed
<1> QED BY <1>1, <1>5, <1>6, <1>7, OwnInvKept

LEMMA InitOwnInv == Init => OwnInv
<1> SUFFICES ASSUME Init PROVE OwnInv
  OBVIOUS
<1>1. /\ k.at = "select" /\ x.at = "idle" /\ \A d \in Devices : reg[d].sock = 0 /\ ~reg[d].crossed
      /\ \A s \in Slots : slot[s].sock = 0
  BY IdleTypes DEF Init
<1>2. Hands
  BY <1>1 DEF Hands, SlotOwn, Apart, ClosedInHand, CrossedStays, BlamedOwn, ClosesBlamed, Answered,
     Ending, Clean
<1>3. Own
  BY <1>1 DEF Own
<1> QED BY <1>2, <1>3, InitTypeInv DEF OwnInv

LEMMA NextOwnInv == OwnInv /\ [Next]_vars => OwnInv'
<1> SUFFICES ASSUME OwnInv, [Next]_vars PROVE OwnInv'
  OBVIOUS
<1>1. CASE TcpStep
  BY <1>1, SelectOwn, PassOwn, AcceptOwn, RefuseOwn, HangUpOwn, FreeInfoOwn, RegisterOwn,
     UnregisterOwn, ConfirmOwn DEF TcpStep
<1>2. CASE SendStep
  BY <1>2, TalkOwn, BlameOwn, FindSlotOwn, CloseSockOwn, ClearSlotOwn, ResetOwn DEF SendStep
<1>3. CASE ExpiryStep
  BY <1>3, OthersOwn
<1>4. CASE \E d \in Devices : Choose(d) \/ Connect(d)
  BY <1>4, TalkOwn, OthersOwn
<1>5. CASE \E f \in Socks : Break(f)
  BY <1>5, OthersOwn
<1>6. CASE UNCHANGED vars
  <2>1. TypeInv'
    BY NextTypeInv DEF OwnInv
  <2>2. Hands'
    BY <1>6 DEF vars, OwnInv, Hands, SlotOwn, Apart, ClosedInHand, CrossedStays, BlamedOwn,
       ClosesBlamed, Answered, Ending, Clean
  <2>3. Own'
    BY <1>6 DEF vars, OwnInv, Own, OwnOf, Blamed, Clean
  <2> QED BY <2>1, <2>2, <2>3 DEF OwnInv
<1> QED BY <1>1, <1>2, <1>3, <1>4, <1>5, <1>6 DEF Next

LEMMA OwnInvAlways == Spec => []OwnInv
<1> QED BY InitOwnInv, NextOwnInv, PTL DEF Spec

(* A device that is online and was not registered through a crossed        *)
(* connection has its connection still, or is about to be taken offline:   *)
(* its tasks do not go to another device, however the closing by the       *)
(* sender and by the TCP thread, and the accepting, interleave.            *)
THEOREM NoTaskAstray == Spec => []OnlineIsOwn
<1>1. OwnInv => OnlineIsOwn
  <2> SUFFICES ASSUME OwnInv, NEW d \in Devices, Online(d), ~reg[d].crossed
               PROVE  \/ conn[reg[d].sock] # None /\ conn[reg[d].sock].dev = d
                      \/ Blamed(d)
                      \/ k.at = "gone" /\ k.sock = reg[d].sock
    BY DEF OnlineIsOwn
  <2>1. OwnOf(d)
    BY DEF OwnInv, Own, Online
  <2> QED BY <2>1 DEF OwnOf, Clean
<1> QED BY <1>1, OwnInvAlways, PTL
=============================================================================
