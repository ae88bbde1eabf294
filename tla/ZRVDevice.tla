------------------------------ MODULE ZRVDevice ------------------------------
(***************************************************************************)
(* The registry of ZRV devices g_ZRVDeviceInfoMap and the TCP server they  *)
(* register at.  Three threads share registry, connection slots and the    *)
(* numbers of sockets: the TCP thread (ZRVDeviceLoginServerMain), a thread *)
(* that sends tasks (SendAssignTaskToZRVDevice), and the thread that       *)
(* expires registrations.  Only single accesses of the registry are        *)
(* guarded; the slots are not guarded at all, and a number is given to the *)
(* next connection as soon as its socket is closed.  What follows when a   *)
(* connection comes in just then is part of the model; the connection is   *)
(* "crossed", and so is a registration that is made through it.            *)
(*                                                                         *)
(* Dispatch sees of all this only which devices are online.                *)
(***************************************************************************)
EXTENDS Integers, FiniteSets, Sequences

CONSTANTS
  Devices,     (* addresses of devices                                      *)
  N,           (* MAX_ZRV_DEVICE_TCP_CLIENTS                                *)
  F,           (* numbers of sockets                                        *)
  E,           (* Expires of a registration, in scans                       *)
  None,
  MaxFaults    (* bound: connections broken, SQL statements failed          *)

Slots == 1 .. N
Socks == 1 .. F
Conn  == [dev : Devices, end : {"open", "shut", "mute"}, crossed : BOOLEAN]

ASSUME SizesArePositive == N \in Nat \ {0} /\ F \in Nat /\ N < F /\ E \in Nat \ {0}
ASSUME FaultsAreBounded == MaxFaults \in Nat
ASSUME NoneIsNoDevice == None \notin Devices \cup Conn

VARIABLES
  conn,      (* the kernel: whose connection a number is, and whether the  *)
             (* other end is open, shut, or vanished without a word;       *)
             (* crossed: it got its number or its slot while those were    *)
             (* still in other hands (history)                             *)
  backlog,   (* devices that wait to be accepted, in their order           *)
  slot,      (* ZRVDeviceTCPClients; sock 0 is -1                          *)
  reg,       (* g_ZRVDeviceInfoMap; id: it has its row's index; crossed:   *)
             (* registered through a crossed connection (history)          *)
  k,         (* TCP thread                                                 *)
  x,         (* the thread that sends                                      *)
  due,       (* registrations the expiry has collected                     *)
  faults

vars == <<conn, backlog, slot, reg, k, x, due, faults>>

Client == [sock : 0 .. F, ip : Devices \cup {None}]     (* zrv_device_tcp_client_t *)
Info   == [known : BOOLEAN, id : BOOLEAN, on : BOOLEAN, sock : 0 .. F, left : 0 .. E,
           crossed : BOOLEAN]
TcpPlace  == [at : {"select", "accept", "slots", "gone", "table"}, ready : SUBSET Socks,
              p : 0 .. N + 1, sock : 0 .. F, dev : Devices \cup {None}]
SendPlace == [at : {"idle", "send", "failed", "scan", "close", "clear", "reset"},
              dev : Devices \cup {None}, sock : 0 .. F, p : 0 .. N + 1]

NoSlot  == [sock |-> 0, ip |-> None]
Unknown == [known |-> FALSE, id |-> FALSE, on |-> FALSE, sock |-> 0, left |-> 0,
            crossed |-> FALSE]
KIdle   == [at |-> "select", ready |-> {}, p |-> 0, sock |-> 0, dev |-> None]
XIdle   == [at |-> "idle", dev |-> None, sock |-> 0, p |-> 0]

TypeOK ==
  /\ conn \in [Socks -> Conn \cup {None}]
  /\ backlog \in Seq(Devices)
  /\ slot \in [Slots -> Client]
  /\ reg \in [Devices -> Info]
  /\ k \in TcpPlace
  /\ x \in SendPlace
  /\ due \subseteq Devices
  /\ faults \in Nat

(* A device whose row was loaded at the start.  It has no socket, so that  *)
(* Status and Expires of the row have no effect.                           *)
Loaded == [Unknown EXCEPT !.known = TRUE, !.id = TRUE]

Init ==
  /\ conn = [f \in Socks |-> None] /\ backlog = <<>>
  /\ slot = [s \in Slots |-> NoSlot]
  /\ reg \in [Devices -> {Unknown, Loaded}]
  /\ k = KIdle /\ x = XIdle /\ due = {}
  /\ faults = 0

Fault == faults < MaxFaults /\ faults' = faults + 1

Closed(S) == [f \in Socks |-> IF f \in S THEN None ELSE conn[f]]
Opened(f) == f # 0 /\ conn[f] # None
Used      == {slot[s].sock : s \in Slots} \ {0}
Connected(d) == \E f \in Socks : conn[f] # None /\ conn[f].dev = d /\ conn[f].end = "open"

(* The count of an offline device stands still, and means nothing.         *)
Offline(r) == [r EXCEPT !.on = FALSE, !.sock = 0, !.left = 0, !.crossed = FALSE]

Online(d) == reg[d].on /\ reg[d].sock # 0

-----------------------------------------------------------------------------
(* TCP thread: one call of ZRVDeviceLoginServerMain.                       *)

(* select() fails as long as a slot has a socket that is closed.  ready    *)
(* are the numbers, not the connections, on which there is a registration  *)
(* or an end.  Other messages, results for instance, change nothing here:  *)
(* a number that has one is passed by.                                     *)
Select ==
  /\ k.at = "select"
  /\ \A f \in Used : Opened(f)
  /\ \E R \in SUBSET Used :
       /\ \A f \in Used : /\ conn[f].end = "shut" => f \in R
                          /\ conn[f].end = "mute" => f \notin R
       /\ \/ backlog # <<>> /\ k' = [KIdle EXCEPT !.at = "accept", !.ready = R]
          \/ backlog = <<>> /\ R # {} /\ k' = [KIdle EXCEPT !.at = "slots", !.ready = R, !.p = 1]
  /\ UNCHANGED <<conn, backlog, slot, reg, x, due, faults>>

FreeSlots == {s \in Slots : slot[s].sock = 0}
First(S)  == CHOOSE s \in S : \A t \in S : s <= t

FreeSocks == {f \in Socks : conn[f] = None}
NewSock   == First(FreeSocks)
NewSlot   == First(FreeSlots)

(* A number that is free and still in somebody's hand: of x, which closes  *)
(* what has it, or has closed it in a slot it has not cleared; or of a     *)
(* device.  And a free slot that x is about to clear.                      *)
InHand(f) ==
  \/ x.at \in {"scan", "close", "clear", "reset"} /\ x.sock = f
  \/ x.at = "clear" /\ slot[x.p].sock = f
  \/ \E d \in Devices : reg[d].sock = f

SlotInHand(s) == x.at \in {"close", "clear"} /\ x.p = s

(* The connection gets the lowest number and the first slot.               *)
Accept ==
  /\ k.at = "accept" /\ FreeSocks # {} /\ FreeSlots # {}
  /\ conn' = [conn EXCEPT ![NewSock] =
                [dev |-> Head(backlog), end |-> "open",
                 crossed |-> InHand(NewSock) \/ SlotInHand(NewSlot)]]
  /\ slot' = [slot EXCEPT ![NewSlot] = [sock |-> NewSock, ip |-> Head(backlog)]]
  /\ backlog' = Tail(backlog)
  /\ k' = [k EXCEPT !.at = "slots", !.p = 1]
  /\ UNCHANGED <<reg, x, due, faults>>

(* accept() fails: no number is left.                                      *)
NotAccepted ==
  /\ k.at = "accept" /\ FreeSocks = {}
  /\ k' = KIdle
  /\ UNCHANGED <<conn, backlog, slot, reg, x, due, faults>>

(* No slot: the connection is closed again, and with it all that no device *)
(* of the registry uses (free_unused_zrv_device_tcp_connect; the first     *)
(* form keeps those).                                                      *)
InUse(f)   == \E d \in Devices : reg[d].sock = f
AllKept   == {}
Unused    == {f \in Used : ~InUse(f)}
Emptied(S) == [s \in Slots |-> IF slot[s].sock \in S THEN NoSlot ELSE slot[s]]

Refuse ==
  /\ k.at = "accept" /\ FreeSocks # {} /\ FreeSlots = {}
  /\ conn' = Closed(Unused)
  /\ slot' = Emptied(Unused)
  /\ backlog' = Tail(backlog)
  /\ k' = KIdle
  /\ UNCHANGED <<reg, x, due, faults>>

NextSlot == k' = IF k.p = N THEN KIdle ELSE [k EXCEPT !.at = "slots", !.p = @ + 1, !.sock = 0,
                                                    !.dev = None]
Ready == slot[k.p].sock \in k.ready
Here  == slot[k.p].sock

PassBy ==
  /\ k.at = "slots" /\ ~Ready
  /\ NextSlot
  /\ UNCHANGED <<conn, backlog, slot, reg, x, due, faults>>

(* recv() returns 0, or fails since x has closed the socket: it is closed, *)
(* the slot cleared (the first form only clears the slot), and then the    *)
(* first device with the number is taken offline                           *)
(* (free_zrv_device_info_by_tcp_socket; the first form takes none).        *)
ClosedNone(f)   == conn
ClosedHere(f)   == Closed({f})
NobodyOffline(f) == reg' = reg
HolderOffline(f) ==
  \/ (\A d \in Devices : reg[d].sock # f) /\ UNCHANGED reg
  \/ \E d \in Devices : reg[d].sock = f /\ reg' = [reg EXCEPT ![d] = Offline(@)]

HangUp ==
  /\ k.at = "slots" /\ Ready
  /\ Opened(Here) => conn[Here].end = "shut"
  /\ conn' = ClosedHere(Here)
  /\ slot' = [slot EXCEPT ![k.p] = NoSlot]
  /\ k' = [k EXCEPT !.at = "gone", !.sock = Here]
  /\ UNCHANGED <<backlog, reg, x, due, faults>>

FreeInfo ==
  /\ k.at = "gone"
  /\ HolderOffline(k.sock)
  /\ NextSlot
  /\ UNCHANGED <<conn, backlog, slot, x, due, faults>>

(* A registration or a refresh, of the device whose address the slot has.  *)
Message == k.at = "slots" /\ Ready /\ Opened(Here) /\ conn[Here].end # "shut"

Register ==
  /\ Message
  /\ LET d == slot[k.p].ip
     IN /\ reg' = [reg EXCEPT ![d] = [known |-> TRUE, id |-> @.id, on |-> TRUE, sock |-> Here,
                                      left |-> E, crossed |-> conn[Here].crossed]]
        /\ k' = [k EXCEPT !.at = "table", !.sock = Here, !.dev = d]
  /\ UNCHANGED <<conn, backlog, slot, x, due, faults>>

(* Expires 0; for a device nobody knows nothing happens.                   *)
Unregister ==
  /\ Message
  /\ LET d == slot[k.p].ip
     IN IF reg[d].known
          THEN /\ reg' = [reg EXCEPT ![d] = Offline(@)]
               /\ k' = [k EXCEPT !.at = "table", !.sock = Here, !.dev = d]
          ELSE NextSlot /\ UNCHANGED reg
  /\ Fault
  /\ UNCHANGED <<conn, backlog, slot, x, due>>

(* SetZRVDeviceToConfigTable gives the device its index; when it fails     *)
(* nothing else happens.  Then the answer is sent, and when that fails the *)
(* connection is closed.                                                   *)
Confirm ==
  /\ k.at = "table"
  /\ \/ /\ Fault
        /\ UNCHANGED <<conn, slot, reg>>
     \/ /\ Opened(k.sock)
        /\ reg' = [reg EXCEPT ![k.dev].id = TRUE]
        /\ UNCHANGED <<conn, slot, faults>>
     \/ /\ Opened(k.sock) => conn[k.sock].end # "open"
        /\ reg' = [reg EXCEPT ![k.dev] = Offline([@ EXCEPT !.id = TRUE])]
        /\ slot' = Emptied({k.sock})
        /\ conn' = Closed({k.sock} \cap Used)
        /\ UNCHANGED faults
  /\ NextSlot
  /\ UNCHANGED <<backlog, x, due>>

-----------------------------------------------------------------------------
(* A thread that sends to a device: SendAssignTaskToZRVDevice.             *)

Choose(d) ==
  /\ x.at = "idle" /\ Online(d)
  /\ x' = [XIdle EXCEPT !.at = "send", !.dev = d]
  /\ UNCHANGED <<conn, backlog, slot, reg, k, due, faults>>

(* One packet, through the socket the device has now.  A connection that   *)
(* is shut or mute takes it or not; an open one takes it (EAGAIN is a      *)
(* matter of Dispatch).                                                    *)
Sock == reg[x.dev].sock

Send ==
  /\ x.at = "send"
  /\ \/ Opened(Sock) /\ x' = XIdle
     \/ /\ Opened(Sock) => conn[Sock].end # "open"
        /\ x' = [x EXCEPT !.at = "failed"]
  /\ UNCHANGED <<conn, backlog, slot, reg, k, due, faults>>

(* What is closed is the socket the device has after the error.            *)
Blame ==
  /\ x.at = "failed"
  /\ x' = [x EXCEPT !.at = "scan", !.sock = Sock, !.p = 1]
  /\ UNCHANGED <<conn, backlog, slot, reg, k, due, faults>>

(* free_zrv_device_tcp_connect_by_socket: for every slot that has the      *)
(* number, the number that it has by then is closed, and then the slot is  *)
(* cleared, whatever the TCP thread has put there.                         *)
HasSock(s) == s \in Slots /\ x.sock # 0 /\ slot[s].sock = x.sock

PassSlot ==
  /\ x.at = "scan" /\ ~HasSock(x.p)
  /\ x' = IF x.p >= N THEN [x EXCEPT !.at = "reset", !.p = 0] ELSE [x EXCEPT !.p = @ + 1]
  /\ UNCHANGED <<conn, backlog, slot, reg, k, due, faults>>

FindSlot ==
  /\ x.at = "scan" /\ HasSock(x.p)
  /\ x' = [x EXCEPT !.at = "close"]
  /\ UNCHANGED <<conn, backlog, slot, reg, k, due, faults>>

CloseSock ==
  /\ x.at = "close"
  /\ conn' = Closed({slot[x.p].sock})
  /\ x' = [x EXCEPT !.at = "clear"]
  /\ UNCHANGED <<backlog, slot, reg, k, due, faults>>

ClearSlot ==
  /\ x.at = "clear"
  /\ slot' = [slot EXCEPT ![x.p] = NoSlot]
  /\ x' = [x EXCEPT !.at = "scan", !.p = @ + 1]
  /\ UNCHANGED <<conn, backlog, reg, k, due, faults>>

(* The device goes offline, whatever has become of it meanwhile.           *)
Reset ==
  /\ x.at = "reset"
  /\ reg' = [reg EXCEPT ![x.dev] = Offline(@)]
  /\ x' = XIdle
  /\ UNCHANGED <<conn, backlog, slot, k, due, faults>>

-----------------------------------------------------------------------------
(* scan_ZRVDevice_info_list_for_expires: count down under the lock, then   *)
(* take what has expired offline.  A device without index does not expire. *)
(* The first form counts offline devices, the second none.                 *)
CountsAll(d)  == reg[d].id
CountsNone(d) == FALSE
Counts(d)     == reg[d].id /\ Online(d)

CountDown ==
  /\ due = {}
  /\ reg' = [d \in Devices |-> IF Counts(d) THEN [reg[d] EXCEPT !.left = @ - 1] ELSE reg[d]]
  /\ due' = {d \in Devices : Counts(d) /\ reg[d].left <= 1}
  /\ UNCHANGED <<conn, backlog, slot, k, x, faults>>

Expire(d) ==
  /\ d \in due
  /\ reg' = [reg EXCEPT ![d] = Offline(@)]
  /\ due' = due \ {d}
  /\ UNCHANGED <<conn, backlog, slot, k, x, faults>>

-----------------------------------------------------------------------------
(* The other ends.                                                         *)

Waits(d) == \E i \in DOMAIN backlog : backlog[i] = d

Connect(d) ==
  /\ ~Waits(d) /\ ~Connected(d)
  /\ backlog' = Append(backlog, d)
  /\ UNCHANGED <<conn, slot, reg, k, x, due, faults>>

Break(f) ==
  /\ conn[f] # None /\ conn[f].end = "open"
  /\ \E e \in {"shut", "mute"} : conn' = [conn EXCEPT ![f].end = e]
  /\ Fault
  /\ UNCHANGED <<backlog, slot, reg, k, x, due>>

-----------------------------------------------------------------------------
TcpStep ==
  \/ Select \/ Accept \/ NotAccepted \/ Refuse
  \/ PassBy \/ HangUp \/ FreeInfo \/ Register \/ Unregister \/ Confirm

SendStep == Send \/ Blame \/ PassSlot \/ FindSlot \/ CloseSock \/ ClearSlot \/ Reset

ExpiryStep == CountDown \/ \E d \in Devices : Expire(d)

Next ==
  \/ TcpStep \/ SendStep \/ ExpiryStep
  \/ \E d \in Devices : Choose(d) \/ Connect(d)
  \/ \E f \in Socks : Break(f)

Spec == Init /\ [][Next]_vars

(* The threads run, and a device that is connected registers again and     *)
(* again.                                                                  *)
Live ==
  /\ WF_vars(TcpStep) /\ WF_vars(SendStep) /\ WF_vars(ExpiryStep)
  /\ \A f \in Socks : SF_vars(Select /\ f \in k'.ready)

FairSpec == Spec /\ Live

-----------------------------------------------------------------------------
(* Properties.                                                             *)

(* Every connection has its slot, so that what it sends is read and its    *)
(* end is seen, unless it was accepted in the middle of a sender's closing *)
(* or with a number that a device still had.  No step of either thread     *)
(* takes the slot of another one.                                          *)
ConnectedHasSlot ==
  \A f \in Socks : conn[f] # None /\ ~conn[f].crossed
    => \E s \in Slots : slot[s] = [sock |-> f, ip |-> conn[f].dev]

(* A device that is online and was registered through such a connection    *)
(* has it still, or the sender or the TCP thread is just about to take it  *)
(* offline.  No third thing happens: that it stays online on a number      *)
(* nobody has, or on one that another device got since, so that its tasks  *)
(* go there.                                                               *)
Blamed(d) ==
  x.at \in {"scan", "close", "clear", "reset"} /\ x.dev = d /\ x.sock = reg[d].sock

OnlineIsOwn ==
  \A d \in Devices : LET f == reg[d].sock IN
    Online(d) /\ ~reg[d].crossed =>
      \/ conn[f] # None /\ conn[f].dev = d
      \/ Blamed(d)
      \/ k.at = "gone" /\ k.sock = f

(* A device that is online on a number nobody has, or that is another's,   *)
(* does not stay so, whatever was crossed, unless its first registration   *)
(* was not written to the table (without index it never expires).          *)
Stray(d) ==
  Online(d) /\ (conn[reg[d].sock] = None \/ conn[reg[d].sock].dev # d)

StrayEnds == \A d \in Devices : []<>~(Stray(d) /\ reg[d].id)

(* A device that keeps trying is online again and again, also after        *)
(* connections that ended without a word have filled the slots, as long as *)
(* there are slots for all that try, every registration was written to the *)
(* table (without index it keeps its slot), and no crossed connection has  *)
(* left damage: itself, which may be open without a slot and is then never *)
(* read, or a slot whose number is closed, with which select() fails.      *)
Trying == {d \in Devices : Waits(d) \/ Connected(d)}

Damaged ==
  \/ \E f \in Socks : conn[f] # None /\ conn[f].crossed
  \/ x.at = "idle" /\ \E f \in Used : ~Opened(f)

ComesBack ==
  \A d \in Devices :
    /\ []<>(d \in Trying)
    /\ <>[](/\ Cardinality(Trying \cup {d}) <= N
            /\ \A e \in Devices : reg[e].on => reg[e].id
            /\ ~Damaged)
    => []<>Online(d)

(* A device that has gone is offline in the end, unless its first          *)
(* registration was not written to the table.                              *)
GoneIsOffline ==
  \A d \in Devices :
    <>[](reg[d].id /\ d \notin Trying)
      => <>[]~Online(d)
=============================================================================
