---------------------------- MODULE RudpSocketImpl ----------------------------
(***************************************************************************)
(* RudpSocketImpl: every call an application makes on the sockets of one   *)
(* node, the end points those calls take from and give back to the two     *)
(* demultiplexers, and the datagrams they hand to the IP layer.  The       *)
(* receive side is RudpSocketRx, composed here with the rest.              *)
(*                                                                         *)
(* Handlers run to completion: the simulator is single threaded, and each  *)
(* callback into the application (NotifyDataRecv, NotifyDataSent,          *)
(* NotifySend, NotifyConnectionSucceeded) comes after the last use of the  *)
(* socket's state, so what the application does there is a later step.     *)
(*                                                                         *)
(* An assertion that fails, or a null pointer the code follows, in the     *)
(* middle of a handler ends the program: status says which.  The two       *)
(* assertions at the entry of Bind(address) are preconditions, and guards. *)
(***************************************************************************)
EXTENDS Integers, FiniteSets, Sequences

CONSTANTS
  Sockets,         \* the sockets of one node
  Datagrams,       \* what may arrive: records with a field size
  Word,            \* the receive counters are unsigned integers below Word
  BufSizes,        \* the values the RcvBufSize attribute is given
  ReadSizes,       \* the maxSize arguments the application reads with
  Errnos,          \* the values m_errno takes
  Nothing,         \* rxOut before anything was said
  MaxQueue,        \* bound: no datagram arrives at a queue this long
  LocalAddrs,      \* the node's own addresses
  AnyAddr,         \* the wildcard address
  Ports,           \* the ports an application names
  EphemeralPorts,  \* the ports the demultiplexers choose from
  Stacks,          \* the IP layers the node has, among "v4" and "v6"
  Packets,         \* packet objects of the application: id and size
  Dests,           \* addresses it sends to: type and mapped
  Calls,           \* the calls the application makes
  Binds,           \* the arguments of Bind(address): family, addr and port
  Rebinds,         \* those of them it makes on a socket already bound
  NoEndPoint,      \* the null end point pointer
  NoSocket,        \* a null callback
  NoDest,          \* m_defaultAddress before Connect
  NoDatagram       \* sent, when the last step sent nothing

Families == {"v4", "v6"}
EndPoints == [family : Families, addr : LocalAddrs \cup {AnyAddr},
              port : Ports \cup EphemeralPorts]

MAX_IPV4_RUDP_DATAGRAM_SIZE == 65507
HeaderSize == 16   \* RudpHeader::GetSerializedSize

(* The assumptions of RudpSocketRx.                                        *)
ASSUME ReceiveAssumption ==
  /\ Word \in Nat \ {0}
  /\ \A d \in Datagrams : d.size \in 0..(Word - 1)
  /\ BufSizes # {} /\ BufSizes \subseteq 0..(Word - 1)
  /\ ReadSizes \subseteq 0..(Word - 1)
  /\ {"NOTERROR", "AGAIN"} \subseteq Errnos
ASSUME SocketsAssumption == NoSocket \notin Sockets
ASSUME EndPointsAssumption == NoEndPoint \notin EndPoints
ASSUME PortsAssumption == 0 \notin Ports \cup EphemeralPorts
ASSUME BindsAssumption ==
  Binds \subseteq [family : Families, addr : LocalAddrs \cup {AnyAddr},
                  port : Ports \cup {0}]
ASSUME PacketsAssumption == \A p \in Packets : p.size \in Nat
ASSUME DestsAssumption ==
  \A d \in Dests : d.type \in {"Inet", "Inet6", "Other"} /\ d.mapped \in BOOLEAN
ASSUME SocketErrnosAssumption ==
  {"NOTCONN", "SHUTDOWN", "MSGSIZE", "NOROUTETOHOST", "BADF", "OPNOTSUPP",
   "ADDRINUSE", "ADDRNOTAVAIL", "INVAL"} \subseteq Errnos

VARIABLES
  m_deliveryQueue, m_rxAvailable, m_rcvBufSize, m_shutdownRecv, m_errno, rxOut,
  demux,             \* end points allocated, with their callbacks and flags
  m_endPoint,        \* m_endPoint and m_endPoint6 of each socket
  m_shutdownSend,
  m_connected,
  m_defaultAddress,
  m_mtuDiscover,
  m_boundnetdevice,  \* a device is set, in the base class Socket
  dfTag,             \* the SocketSetDontFragmentTag each packet object carries
  sent,              \* the datagram the last step handed to the IP layer
  status             \* "running", or why the program stopped

Rx == INSTANCE RudpSocketRx

rxVars == <<m_deliveryQueue, m_rxAvailable, m_rcvBufSize, m_shutdownRecv,
            m_errno, rxOut>>
bindVars == <<demux, m_endPoint, m_boundnetdevice>>
flagVars == <<m_shutdownSend, m_connected, m_defaultAddress, m_mtuDiscover>>
vars == <<rxVars, bindVars, flagVars, dfTag, sent, status>>

Init ==
  /\ Rx!Init
  /\ demux = [k \in {} |-> {}]
  /\ m_endPoint = [s \in Sockets |-> [f \in Families |-> NoEndPoint]]
  /\ m_shutdownSend = [s \in Sockets |-> FALSE]
  /\ m_connected = [s \in Sockets |-> FALSE]
  /\ m_defaultAddress = [s \in Sockets |-> NoDest]
  /\ m_mtuDiscover = [s \in Sockets |-> FALSE]
  /\ m_boundnetdevice = [s \in Sockets |-> FALSE]
  /\ dfTag = [p \in Packets |-> "none"]
  /\ sent = NoDatagram
  /\ status = "running"

(* The application makes call c.                                           *)
Calling(c) == status = "running" /\ c \in Calls

(* A call that does nothing but set m_errno and return -1.                 *)
Refuse(s, e) ==
  /\ Rx!OtherCall(s, e)
  /\ sent' = NoDatagram
  /\ UNCHANGED <<bindVars, flagVars, dfTag, status>>

(* A call that changes none of the receive side and sends nothing.         *)
Silent == UNCHANGED <<rxVars, dfTag, status>> /\ sent' = NoDatagram

(* The program ends in the middle of a handler.                            *)
Stop(why) ==
  /\ status' = why
  /\ sent' = NoDatagram
  /\ UNCHANGED <<rxVars, bindVars, flagVars, dfTag>>

-------------------------------------------------------------------------------
(***************************************************************************)
(* External: Ipv4EndPointDemux and Ipv6EndPointDemux.  Allocate returns    *)
(* null for a pair already taken; port 0 asks for an ephemeral port that   *)
(* no end point of the family uses, null when there is none.               *)
(***************************************************************************)
Fresh == [rxCallback |-> NoSocket, destroyCallback |-> NoSocket,
          rxEnabled |-> TRUE, device |-> FALSE]

Ephemeral(f, a) ==
  {k \in EndPoints \ DOMAIN demux :
     /\ k.family = f /\ k.addr = a /\ k.port \in EphemeralPorts
     /\ \A j \in DOMAIN demux : j.family = f => j.port # k.port}

(* Mutant of Allocate: a pair already taken handed out again.              *)
AllocateTaken(f, a, port) ==
  IF port = 0
  THEN Ephemeral(f, a) \cup {NoEndPoint}
  ELSE {[family |-> f, addr |-> a, port |-> port]}

Allocate(f, a, port) ==
  LET free == IF port = 0
              THEN Ephemeral(f, a)
              ELSE {[family |-> f, addr |-> a, port |-> port]} \ DOMAIN demux
  IN  IF free = {} THEN {NoEndPoint} ELSE free

With(table, new) ==
  [k \in DOMAIN table \cup (new \ {NoEndPoint}) |->
     IF k \in DOMAIN table THEN table[k] ELSE Fresh]

Without(table, gone) == [k \in DOMAIN table \ gone |-> table[k]]

-------------------------------------------------------------------------------
(***************************************************************************)
(* Binding.                                                                *)
(***************************************************************************)
(* SetRxCallback and SetDestroyCallback with callbacks into the socket.    *)
Hook(e, s) == [e EXCEPT !.rxCallback = s, !.destroyCallback = s]

(* Mutants of Hooked: FinishBind without its null tests, and with the IPv4 *)
(* end point in the else branch of the IPv6 one.                           *)
HookedUnchecked(table, s, held) ==
  [k \in DOMAIN table \cup {held[f] : f \in Families} |->
     IF \E f \in Families : held[f] = k
     THEN Hook(Fresh, s)
     ELSE table[k]]

HookedOnlyV6(table, s, held) ==
  LET hooked == IF held["v6"] # NoEndPoint THEN held["v6"] ELSE held["v4"] IN
  [k \in DOMAIN table |->
     IF k = hooked
     THEN Hook(table[k], s)
     ELSE table[k]]

(* FinishBind hooks every end point the socket holds, whichever was just   *)
(* allocated, and fails only when it holds none.                           *)
Hooked(table, s, held) ==
  [k \in DOMAIN table |->
     IF \E f \in Families : held[f] = k
     THEN Hook(table[k], s)
     ELSE table[k]]

FinishBindFails(held) == \A f \in Families : held[f] = NoEndPoint

(* The pointer is overwritten by what Allocate returned, null included.    *)
Rebound(s, f, k) == [m_endPoint[s] EXCEPT ![f] = k]

TakeEndPoint(s, f, k) ==
  /\ m_endPoint' = [m_endPoint EXCEPT ![s] = Rebound(s, f, k)]
  /\ demux' = Hooked(With(demux, {k}), s, Rebound(s, f, k))

(* Bind() and Bind6(): no address, no check that the socket is unbound.    *)
Bind(s, f) ==
  /\ Calling("Bind")
  /\ m_endPoint[s][f] = NoEndPoint \/ "Bind" \in Rebinds
  /\ \E k \in Allocate(f, AnyAddr, 0) : TakeEndPoint(s, f, k)
  /\ Silent
  /\ UNCHANGED <<flagVars, m_boundnetdevice>>

(* Bind(address) asserts that the socket has no IPv4 end point, for an     *)
(* IPv6 address as well.                                                   *)
BindAddress(s, f, a, port) ==
  /\ Calling("BindAddress")
  /\ m_endPoint[s]["v4"] = NoEndPoint
  /\ m_endPoint[s][f] = NoEndPoint \/ "BindAddress" \in Rebinds
  /\ \E k \in Allocate(f, a, port) :
       IF k = NoEndPoint
       THEN /\ m_endPoint' = [m_endPoint EXCEPT ![s] = Rebound(s, f, k)]
            /\ Rx!OtherCall(s, IF port = 0 THEN "ADDRNOTAVAIL" ELSE "ADDRINUSE")
            /\ UNCHANGED demux
       ELSE /\ TakeEndPoint(s, f, k)
            /\ UNCHANGED rxVars
  /\ sent' = NoDatagram
  /\ UNCHANGED <<flagVars, m_boundnetdevice, dfTag, status>>

(* An address of neither type.                                             *)
BindInvalid(s) == Calling("BindInvalid") /\ Refuse(s, "INVAL")

(* The end points a call may go on with in family f: the one held, or what *)
(* Bind or Bind6 would allocate.                                           *)
HeldOrBound(s, f) ==
  IF m_endPoint[s][f] # NoEndPoint
  THEN {m_endPoint[s][f]}
  ELSE Allocate(f, AnyAddr, 0)

(* Bind, then Bind6, then the device on both end points.                   *)
BindToNetDevice(s) ==
  /\ Calling("BindToNetDevice")
  /\ \E k4 \in HeldOrBound(s, "v4"), k6 \in HeldOrBound(s, "v6") :
       LET first == Rebound(s, "v4", k4)
           both == [first EXCEPT !["v6"] = k6]
           table == Hooked(With(demux, {k4, k6}), s, both)
       IN  \/ /\ FinishBindFails(first)
              /\ m_boundnetdevice' = [m_boundnetdevice EXCEPT ![s] = TRUE]
              /\ Silent
              /\ UNCHANGED <<flagVars, demux, m_endPoint>>
           \/ /\ ~FinishBindFails(first)
              /\ k4 = NoEndPoint \/ k6 = NoEndPoint
              /\ Stop("notBound")
           \/ /\ k4 # NoEndPoint /\ k6 # NoEndPoint
              /\ m_boundnetdevice' = [m_boundnetdevice EXCEPT ![s] = TRUE]
              /\ m_endPoint' = [m_endPoint EXCEPT ![s] = both]
              /\ demux' = [k \in DOMAIN table |->
                             IF k \in {k4, k6}
                             THEN [table[k] EXCEPT !.device = TRUE]
                             ELSE table[k]]
              /\ Silent
              /\ UNCHANGED flagVars

-------------------------------------------------------------------------------
(***************************************************************************)
(* Shutting down and closing.                                              *)
(***************************************************************************)
ShutdownSend(s) ==
  /\ Calling("ShutdownSend")
  /\ m_shutdownSend' = [m_shutdownSend EXCEPT ![s] = TRUE]
  /\ Silent
  /\ UNCHANGED <<bindVars, m_connected, m_defaultAddress, m_mtuDiscover>>

(* Only the end points held now are disabled.                              *)
ShutdownRecv(s) ==
  /\ Calling("ShutdownRecv")
  /\ Rx!StopReceiving(s)
  /\ demux' = [k \in DOMAIN demux |->
                 IF \E f \in Families : m_endPoint[s][f] = k
                 THEN [demux[k] EXCEPT !.rxEnabled = FALSE]
                 ELSE demux[k]]
  /\ sent' = NoDatagram
  /\ UNCHANGED <<m_endPoint, m_boundnetdevice, flagVars, dfTag, status>>

(* Mutants of DeallocateEndPoint: the IPv6 half left out, and the reset of  *)
(* m_endPoint6 forgotten.                                                  *)
DeallocateV4Only(s) ==
  /\ demux' = Without(demux, {m_endPoint[s]["v4"]})
  /\ m_endPoint' = [m_endPoint EXCEPT ![s] = [f \in Families |-> NoEndPoint]]

DeallocateKeepingV6(s) ==
  /\ demux' = Without(demux, {m_endPoint[s][f] : f \in Families})
  /\ m_endPoint' = [m_endPoint EXCEPT ![s]["v4"] = NoEndPoint]

(* DeallocateEndPoint clears the destroy callback first, so deleting the   *)
(* end point does not call back into the socket.                           *)
DeallocateEndPoint(s) ==
  /\ demux' = Without(demux, {m_endPoint[s][f] : f \in Families})
  /\ m_endPoint' = [m_endPoint EXCEPT ![s] = [f \in Families |-> NoEndPoint]]

(* Mutant of Close: the unread datagrams dropped but still counted.        *)
CloseFlushing(s) ==
  /\ Calling("Close")
  /\ m_deliveryQueue' = [m_deliveryQueue EXCEPT ![s] = <<>>]
  /\ m_shutdownRecv' = [m_shutdownRecv EXCEPT ![s] = TRUE]
  /\ m_shutdownSend' = [m_shutdownSend EXCEPT ![s] = TRUE]
  /\ DeallocateEndPoint(s)
  /\ sent' = NoDatagram
  /\ UNCHANGED <<m_rxAvailable, m_rcvBufSize, m_errno, rxOut,
                 m_boundnetdevice, m_connected, m_defaultAddress,
                 m_mtuDiscover, dfTag, status>>

(* A socket shut both ways is refused before anything is given back.       *)
Close(s) ==
  /\ Calling("Close")
  /\ \/ /\ m_shutdownRecv[s] /\ m_shutdownSend[s]
        /\ Refuse(s, "BADF")
     \/ /\ ~(m_shutdownRecv[s] /\ m_shutdownSend[s])
        /\ Rx!StopReceiving(s)
        /\ m_shutdownSend' = [m_shutdownSend EXCEPT ![s] = TRUE]
        /\ DeallocateEndPoint(s)
        /\ sent' = NoDatagram
        /\ UNCHANGED <<m_boundnetdevice, m_connected, m_defaultAddress,
                       m_mtuDiscover, dfTag, status>>

-------------------------------------------------------------------------------
(***************************************************************************)
(* Sending.                                                                *)
(***************************************************************************)
(* Mutant of PathFamily: the mapped addresses forgotten.                   *)
PathByType(d) == IF d.type = "Inet" THEN "v4" ELSE "v6"

(* A mapped IPv6 address takes the IPv4 path.                              *)
PathFamily(d) == IF d.type = "Inet" \/ d.mapped THEN "v4" ELSE "v6"

GetTxAvailable == MAX_IPV4_RUDP_DATAGRAM_SIZE

(* Mutant of Refusals: the shutdown test left to DoSend.                   *)
RefusalsForSize(s, p) == IF p.size > GetTxAvailable THEN {"MSGSIZE"} ELSE {}

(* The errors a socket that has an end point may refuse a packet with.     *)
Refusals(s, p) ==
  IF m_shutdownSend[s] THEN {"SHUTDOWN"}
  ELSE IF p.size > GetTxAvailable THEN {"MSGSIZE"}
  ELSE {}

(* IPv4 only: the tag is taken off the packet object and put back only if  *)
(* it was not there.                                                       *)
DontFragmentTag(s, p, f) ==
  CASE f = "v6"                       -> dfTag[p]
    [] f = "v4" /\ dfTag[p] # "none" -> "none"
    [] f = "v4" /\ dfTag[p] = "none" -> IF m_mtuDiscover[s] THEN "on" ELSE "off"

(* What leaves: a copy of the packet, from end point k, behind a header.   *)
Datagram(s, p, d, k) ==
  [sock |-> s, endPoint |-> k, dest |-> d, size |-> p.size + HeaderSize,
   df |-> DontFragmentTag(s, p, k.family) = "on"]

(* DoSendTo once the socket holds end point k of the family.  Without the  *)
(* IP layer, m_downTarget or GetRoutingProtocol is called through null; an *)
(* end point bound to an address is its own source, any other one needs a  *)
(* route to learn its source.                                              *)
Transmit(s, p, d, k) ==
  LET f == k.family
      Fail(e) == Rx!OtherCall(s, e) /\ sent' = NoDatagram
  IN  \/ /\ \E e \in Refusals(s, p) : Fail(e)
         /\ UNCHANGED <<dfTag, status>>
      \/ /\ Refusals(s, p) = {} /\ f \notin Stacks
         /\ status' = "noStack"
         /\ sent' = NoDatagram
         /\ UNCHANGED <<rxVars, dfTag>>
      \/ /\ Refusals(s, p) = {} /\ f \in Stacks
         /\ \/ sent' = Datagram(s, p, d, k) /\ UNCHANGED rxVars
            \/ k.addr = AnyAddr /\ Fail("NOROUTETOHOST")
         /\ dfTag' = [dfTag EXCEPT ![p] = DontFragmentTag(s, p, f)]
         /\ UNCHANGED status

(* Both DoSendTo: a socket without an end point of the family is bound     *)
(* first, before it is asked whether it may send at all.                   *)
DoSendTo(s, p, d) ==
  LET f == PathFamily(d) IN
  \E k \in HeldOrBound(s, f) :
    \/ /\ k # NoEndPoint
       /\ IF k = m_endPoint[s][f]
          THEN UNCHANGED <<demux, m_endPoint>>
          ELSE TakeEndPoint(s, f, k)
       /\ Transmit(s, p, d, k)
       /\ UNCHANGED <<flagVars, m_boundnetdevice>>
    \/ /\ k = NoEndPoint
       /\ FinishBindFails(m_endPoint[s])
       /\ Silent
       /\ UNCHANGED <<bindVars, flagVars>>
    \/ /\ k = NoEndPoint
       /\ ~FinishBindFails(m_endPoint[s])
       /\ Stop("notBound")

Listen(s) == Calling("Listen") /\ Refuse(s, "OPNOTSUPP")

(* Connect records the peer; no packet is exchanged.                       *)
Connect(s, d) ==
  /\ Calling("Connect")
  /\ IF d.type = "Other"
     THEN UNCHANGED <<m_connected, m_defaultAddress>>
     ELSE /\ m_connected' = [m_connected EXCEPT ![s] = TRUE]
          /\ m_defaultAddress' = [m_defaultAddress EXCEPT ![s] = d]
  /\ Silent
  /\ UNCHANGED <<bindVars, m_shutdownSend, m_mtuDiscover>>

(* Send and DoSend: the binding DoSend would do is never reached, as the   *)
(* default address is kept without its port and matches neither type.      *)
Send(s, p) ==
  /\ Calling("Send")
  /\ \/ ~m_connected[s] /\ Refuse(s, "NOTCONN")
     \/ m_connected[s] /\ m_shutdownSend[s] /\ Refuse(s, "SHUTDOWN")
     \/ m_connected[s] /\ ~m_shutdownSend[s] /\ DoSendTo(s, p, m_defaultAddress[s])

(* SendTo looks neither at m_connected nor at m_shutdownSend itself.       *)
SendTo(s, p, d) ==
  /\ Calling("SendTo")
  /\ \/ d.type # "Other" /\ DoSendTo(s, p, d)
     \/ d.type = "Other" /\ Silent /\ UNCHANGED <<bindVars, flagVars>>

GetPeerName(s) ==
  /\ Calling("GetPeerName")
  /\ ~m_connected[s]
  /\ Refuse(s, "NOTCONN")

SetMtuDiscover(s, discover) ==
  /\ Calling("SetMtuDiscover")
  /\ m_mtuDiscover' = [m_mtuDiscover EXCEPT ![s] = discover]
  /\ Silent
  /\ UNCHANGED <<bindVars, m_shutdownSend, m_connected, m_defaultAddress>>

(* The application drops its packet objects and makes new ones.            *)
NewPacket(p) ==
  /\ Calling("NewPacket")
  /\ dfTag' = [dfTag EXCEPT ![p] = "none"]
  /\ sent' = NoDatagram
  /\ UNCHANGED <<rxVars, bindVars, flagVars, status>>

-------------------------------------------------------------------------------
(***************************************************************************)
(* Receiving.                                                              *)
(***************************************************************************)
Receiving ==
  /\ sent' = NoDatagram
  /\ UNCHANGED <<bindVars, flagVars, dfTag, status>>

(* The socket takes datagram d and tells the application.                  *)
Accepts(s, d) == ~m_shutdownRecv[s] /\ Rx!Fits(s, d)

(* External: a datagram the protocol demultiplexed to an end point goes up *)
(* through its receive callback.  Whether the end point is enabled was     *)
(* looked at before, when the protocol searched the table.                 *)
EndPointForwardUp(k, d) ==
  /\ status = "running"
  /\ Len(m_deliveryQueue[demux[k].rxCallback]) < MaxQueue
  /\ Rx!ForwardUp(demux[k].rxCallback, d)
  /\ Receiving

Recv(s, maxSize) == Calling("Recv") /\ Rx!Recv(s, maxSize) /\ Receiving

SetRcvBufSize(s, size) ==
  Calling("SetRcvBufSize") /\ Rx!SetRcvBufSize(s, size) /\ Receiving

-------------------------------------------------------------------------------
(***************************************************************************)
(* Disposing of the protocol.                                              *)
(***************************************************************************)
DoDispose ==
  /\ Calling("DoDispose")
  /\ status' = "disposing"
  /\ sent' = NoDatagram
  /\ UNCHANGED <<rxVars, bindVars, flagVars, dfTag>>

(* Mutant of Destroyed: the destroy callback was never set.                *)
DestroyedSilently(k) == m_endPoint

(* Destroy and Destroy6: the callback of end point k clears the pointer of *)
(* the socket it was hooked to, whatever that points to by now.            *)
Destroyed(k) ==
  [s \in Sockets |-> [f \in Families |->
     IF f = k.family /\ s = demux[k].destroyCallback
     THEN NoEndPoint
     ELSE m_endPoint[s][f]]]

(* The IPv4 demultiplexer is deleted before the IPv6 one, each with its    *)
(* end points one by one.                                                  *)
DeleteEndPoint(k) ==
  /\ status = "disposing"
  /\ k.family = "v4" \/ \A j \in DOMAIN demux : j.family = "v6"
  /\ demux' = Without(demux, {k})
  /\ m_endPoint' = Destroyed(k)
  /\ sent' = NoDatagram
  /\ UNCHANGED <<rxVars, flagVars, m_boundnetdevice, dfTag, status>>

EndDispose ==
  /\ status = "disposing"
  /\ DOMAIN demux = {}
  /\ Stop("disposed")

SocketCall(s) ==
  \/ \E f \in Families : Bind(s, f)
  \/ \E b \in Binds : BindAddress(s, b.family, b.addr, b.port)
  \/ BindInvalid(s)
  \/ BindToNetDevice(s)
  \/ ShutdownSend(s)
  \/ ShutdownRecv(s)
  \/ Close(s)
  \/ Listen(s)
  \/ GetPeerName(s)
  \/ \E d \in Dests : Connect(s, d)
  \/ \E p \in Packets : Send(s, p)
  \/ \E p \in Packets, d \in Dests : SendTo(s, p, d)
  \/ \E discover \in BOOLEAN : SetMtuDiscover(s, discover)
  \/ \E n \in ReadSizes : Recv(s, n)
  \/ \E n \in BufSizes : SetRcvBufSize(s, n)

Next ==
  \/ \E s \in Sockets : SocketCall(s)
  \/ \E p \in Packets : NewPacket(p)
  \/ \E k \in DOMAIN demux, d \in Datagrams : EndPointForwardUp(k, d)
  \/ DoDispose
  \/ \E k \in DOMAIN demux : DeleteEndPoint(k)
  \/ EndDispose

Spec == Init /\ [][Next]_vars

-------------------------------------------------------------------------------
(***************************************************************************)
(* Properties.                                                             *)
(***************************************************************************)
EndPointStates ==
  [rxCallback : Sockets \cup {NoSocket},
   destroyCallback : Sockets \cup {NoSocket},
   rxEnabled : BOOLEAN, device : BOOLEAN]

(* Pointers are null or point at end points; a deleted end point is gone   *)
(* from its table (rudp-socket-impl.h:210-231).                            *)
TypeOK ==
  /\ Rx!TypeOK
  /\ DOMAIN demux \subseteq EndPoints
  /\ demux \in [DOMAIN demux -> EndPointStates]
  /\ m_endPoint \in [Sockets -> [Families -> EndPoints \cup {NoEndPoint}]]
  /\ m_shutdownSend \in [Sockets -> BOOLEAN]
  /\ m_connected \in [Sockets -> BOOLEAN]
  /\ m_defaultAddress \in [Sockets -> Dests \cup {NoDest}]
  /\ m_mtuDiscover \in [Sockets -> BOOLEAN]
  /\ m_boundnetdevice \in [Sockets -> BOOLEAN]
  /\ dfTag \in [Packets -> {"none", "on", "off"}]
  /\ sent = NoDatagram \/ (sent.sock \in Sockets /\ sent.endPoint \in EndPoints)
  /\ status \in {"running", "disposing", "disposed", "notBound", "noStack"}

(* No pointer of a socket ever dangles or is shared: whatever binds,       *)
(* rebinds, failed allocations, closes and the disposal of the protocol    *)
(* came before, an end point a socket points to is in its family's table   *)
(* and calls back into that socket, to deliver and when it is destroyed    *)
(* (rudp-socket-impl.cc:170-226, rudp-l4-protocol.cc:133-152).             *)
EndPointOwnership ==
  \A s \in Sockets, f \in Families :
    LET k == m_endPoint[s][f] IN
    k # NoEndPoint =>
      /\ k \in DOMAIN demux
      /\ k.family = f
      /\ demux[k].rxCallback = s
      /\ demux[k].destroyCallback = s

(* No end point outlives the socket's hold on it: the ports in use are     *)
(* those of the pointers.  True of an application that never binds a bound *)
(* socket again; Bind(address) claims to enforce that with its assertion   *)
(* "Endpoint already allocated" (rudp-socket-impl.cc:251, 280).            *)
NoOrphans ==
  \A k \in DOMAIN demux : \E s \in Sockets : m_endPoint[s][k.family] = k

(* "Send no longer allowed" (rudp-socket-impl.h:222): nothing leaves a     *)
(* socket shut down for sending or closed, by Send or by SendTo, though    *)
(* SendTo binds such a socket again before it refuses.                     *)
NoSendAfterShutdown ==
  sent # NoDatagram => ~m_shutdownSend[sent.sock]

(* The calls of the whole socket are, for its receive side, the steps      *)
(* RudpSocketRx allows: binding, sending, closing and disposing never      *)
(* touch the queue, the counter or the limit, and shutting is for good.    *)
ReceiveSide == Rx!Spec

(* Who an end point delivers to, as an owner of EndPointTable.             *)
OwnerOf(k) == IF k \in DOMAIN demux THEN demux[k].rxCallback ELSE NoSocket

Table == INSTANCE EndPointTable WITH
  Slots <- EndPoints, Owners <- Sockets, Free <- NoSocket,
  owner <- [k \in EndPoints |-> OwnerOf(k)],
  closing <- status \in {"disposing", "disposed"}

(* A port passes from one socket to another only through being free: each  *)
(* call takes end points nobody has and gives back none but its own        *)
(* socket's, a second Bind, a failed one and closing included, until the   *)
(* protocol is disposed of (rudp-socket-impl.cc:184-315, 341-355,          *)
(* 826-855, rudp-l4-protocol.cc:133-152).                                  *)
EndPointsChangeHands == Table!TableSpec

(* "We need to keep track of whether we are connected to an IPv4 or IPv6   *)
(* lower layer and call the appropriate one" (rudp-l4-protocol.cc:108-111):*)
(* a socket that sends to IPv4 addresses, mapped ones among them, never    *)
(* needs the IPv6 layer.  With the layer of the destination missing the    *)
(* claim is not kept: a null pointer is followed.                          *)
LowerLayerThere == status # "noStack"

-------------------------------------------------------------------------------
(***************************************************************************)
(* Claims of the code's comments and assertions that it does not keep.     *)
(***************************************************************************)
(* NS_ASSERT (m_endPoint != 0) after a successful Bind, and its likes      *)
(* (rudp-socket-impl.cc:496, 608, 839, 850).                               *)
BoundAfterBind == status # "notBound"

(* "If enabled, every outgoing ip packet will have the DF flag set."       *)
(* (rudp-socket.cc:53)                                                     *)
DontFragmentHonoured ==
  sent # NoDatagram /\ sent.endPoint.family = "v4" =>
    (m_mtuDiscover[sent.sock] => sent.df)

(* "Endpoint already allocated" (rudp-socket-impl.cc:280): binding an IPv6 *)
(* address never allocates a second end point for a socket that has one.   *)
BoundOnce ==
  \A j, k \in DOMAIN demux :
    /\ j.family = k.family
    /\ demux[j].destroyCallback = demux[k].destroyCallback
    => j = k

(* "We must respect the maximum size of an IP datagram (65535 bytes -      *)
(* headers)" (rudp-socket-impl.cc:688-689); an IPv4 header is 20 bytes.    *)
FitsIpDatagram ==
  sent # NoDatagram /\ sent.endPoint.family = "v4" =>
    sent.size + 20 <= 65535

===============================================================================
