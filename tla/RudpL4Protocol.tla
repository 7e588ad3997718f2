---------------------------- MODULE RudpL4Protocol ----------------------------
(***************************************************************************)
(* RudpL4Protocol on one node, composed with the sockets it creates        *)
(* (RudpSocketImpl): datagrams looked up in the end point tables and       *)
(* handed to every match in a loop, ICMP errors handed back to a sender,   *)
(* the list m_sockets, and the references that decide when a socket is     *)
(* destroyed.                                                              *)
(*                                                                         *)
(* Receive calls into the application from the middle of its loop          *)
(* (NotifyDataRecv), so the loop is several steps here: the application    *)
(* may make any call while it is called back, on any socket it holds, and  *)
(* the rest of the loop goes on with the end points found before.          *)
(*                                                                         *)
(* An IPv4-mapped IPv6 address is written as the IPv4 address it maps.     *)
(***************************************************************************)
EXTENDS RudpSocketImpl

CONSTANTS
  Group,         \* a multicast or broadcast IPv4 address
  PktInfo,       \* the sockets on which the application set RecvPktInfo
  MaxInFlight,   \* bound: datagrams the network may still report on
  NoArrival,     \* arrival, before any datagram
  NoReport       \* icmpTo, when the last step reported nothing

\* What arrives: the IP version it came by, its destination, what its checksum
\* says, the interface it came in by, and whether its source is a mapped
\* address.
ASSUME ArrivalsAssumption ==
  Datagrams \subseteq
    [size : Nat, family : Families, dst : {d.dst : d \in Datagrams},
     port : {d.port : d \in Datagrams}, checksumOk : BOOLEAN,
     interface : {"device", "other"}, mapped : BOOLEAN]
ASSUME GroupAssumption == Group \notin LocalAddrs \cup {AnyAddr}

VARIABLES
  life,       \* of each socket object: "none", "live" or "destroyed"
  m_sockets,
  held,       \* the sockets the application has a pointer to
  arrival,    \* the datagram Receive last took in
  todo,       \* the end points Receive found and has not come to yet
  freed,      \* those of them that were deleted since
  callback,   \* the socket whose NotifyDataRecv runs
  rxStatus,   \* what the last step's Receive found, or "none"
  inFlight,   \* datagrams sent that the network may report an error on
  icmpTo,     \* the error the last step reported: whose, and to whom
  crash       \* "none", or why the program stopped in this module's code

loopVars == <<arrival, todo, freed, callback>>
lifeVars == <<life, m_sockets, held>>
nodeVars == <<vars, lifeVars, loopVars, rxStatus, inFlight, icmpTo, crash>>

NodeInit ==
  /\ Init
  /\ life = [s \in Sockets |-> "none"]
  /\ m_sockets = {}
  /\ held = {}
  /\ arrival = NoArrival
  /\ todo = {}
  /\ freed = {}
  /\ callback = NoSocket
  /\ rxStatus = "none"
  /\ inFlight = {}
  /\ icmpTo = NoReport
  /\ crash = "none"

(* No handler is at work.                                                  *)
Idle == crash = "none" /\ todo = {} /\ callback = NoSocket

(* The application runs between events, and inside its callback.           *)
ApplicationRuns == crash = "none" /\ (todo = {} \/ callback # NoSocket)

(* A step that is neither an arrival nor a report.                         *)
Quiet == rxStatus' = "none" /\ icmpTo' = NoReport

(* What Receive worked with is gone once it has returned.                  *)
Kept(v, over) == IF Idle THEN over ELSE v
ReceiveGoesOn ==
  /\ arrival' = Kept(arrival, NoArrival)
  /\ freed' = Kept(freed, {})
  /\ UNCHANGED <<todo, callback>>

-------------------------------------------------------------------------------
(***************************************************************************)
(* Sockets: created, called, forgotten and destroyed.                      *)
(***************************************************************************)
CreateSocket(s) ==
  /\ Calling("CreateSocket")
  /\ ApplicationRuns
  /\ life[s] = "none"
  /\ life' = [life EXCEPT ![s] = "live"]
  /\ m_sockets' = m_sockets \cup {s}
  /\ held' = held \cup {s}
  /\ Quiet
  /\ ReceiveGoesOn
  /\ UNCHANGED <<vars, inFlight, crash>>

(* The application drops its pointer.                                      *)
Release(s) ==
  /\ "Release" \in Calls
  /\ ApplicationRuns
  /\ s \in held
  /\ held' = held \ {s}
  /\ Quiet
  /\ ReceiveGoesOn
  /\ UNCHANGED <<vars, life, m_sockets, inFlight, crash>>

(* What the network may come back to: the addresses of a datagram sent.    *)
Quotable(d) == [sock |-> d.sock, endPoint |-> d.endPoint]

(* A call on a socket; NotifyDataRecv hands its own to the application.    *)
ApplicationCall(s) ==
  /\ ApplicationRuns
  /\ s \in held \cup {callback}
  /\ SocketCall(s)
  /\ freed' = freed \cup (todo \cap (DOMAIN demux \ DOMAIN demux'))
  /\ \/ UNCHANGED inFlight
     \/ /\ sent' # NoDatagram /\ Cardinality(inFlight) < MaxInFlight
        /\ inFlight' = inFlight \cup {Quotable(sent')}
  /\ Quiet
  /\ arrival' = Kept(arrival, NoArrival)
  /\ UNCHANGED <<lifeVars, todo, callback, crash>>

(* A socket lives while it is in the list, the application or a callback   *)
(* under way has a pointer to it, or an end point has callbacks into it.   *)
Referenced(s) ==
  \/ s \in m_sockets \cup held
  \/ s = callback
  \/ \E k \in DOMAIN demux : demux[k].destroyCallback = s

(* The destructor, as the last pointer goes: one that found an end point   *)
(* would give it back to tables that are gone.                             *)
Destruct(s) ==
  /\ life[s] = "live"
  /\ ~Referenced(s)
  /\ life' = [life EXCEPT ![s] = "destroyed"]
  /\ crash' = IF \A f \in Families : m_endPoint[s][f] = NoEndPoint
              THEN crash
              ELSE "destructor"
  /\ Quiet
  /\ UNCHANGED <<vars, m_sockets, held, loopVars, inFlight>>

-------------------------------------------------------------------------------
(***************************************************************************)
(* Receiving.                                                              *)
(***************************************************************************)
(* Mutants of Lookup: the port not looked at, the device not looked at,    *)
(* and both tables searched.                                               *)
LookupAnyPort(d) ==
  {k \in DOMAIN demux : k.family = d.family /\ demux[k].rxEnabled
                        /\ k.addr \in {d.dst, AnyAddr}}

LookupAnyDevice(d) ==
  {k \in DOMAIN demux : k.family = d.family /\ k.port = d.port
                        /\ demux[k].rxEnabled /\ k.addr \in {d.dst, AnyAddr}}

LookupBothTables(d) ==
  {k \in DOMAIN demux : k.port = d.port /\ demux[k].rxEnabled
                        /\ (d.dst = Group \/ k.addr \in {d.dst, AnyAddr})}

(* External: both demultiplexers' Lookup.  End points disabled, or of      *)
(* another device, are skipped; the address bound exactly is preferred to  *)
(* the wildcard, and a datagram to a group reaches them all.               *)
Lookup(d) ==
  LET candidates == {k \in DOMAIN demux :
                       /\ k.family = d.family /\ k.port = d.port
                       /\ demux[k].rxEnabled
                       /\ demux[k].device => d.interface = "device"}
      exact == {k \in candidates : k.addr = d.dst}
      wildcard == {k \in candidates : k.addr = AnyAddr}
  IN  IF d.dst = Group /\ d.family = "v4" THEN candidates
      ELSE IF exact # {} THEN exact
      ELSE wildcard

(* An IPv4 datagram shown to the IPv6 end points: the addresses are mapped *)
(* ones, so the checksum no longer agrees, and the interface is null.      *)
AsMapped(d) ==
  [d EXCEPT !.family = "v6", !.mapped = TRUE, !.checksumOk = FALSE,
            !.interface = "none"]

(* Mutant of FallsBack: the fallback forgotten.                            *)
NeverFallsBack(d) == FALSE

FallsBack(d) == d.family = "v4" /\ Lookup(d) = {} /\ "v6" \in Stacks

Corrupt(d) == ~d.checksumOk /\ ~(d.family = "v6" /\ d.mapped)

(* Both Receive, up to the loop.  Bound: the queues of the sockets found   *)
(* have room.                                                              *)
Receive(d) ==
  LET shown == IF FallsBack(d) THEN AsMapped(d) ELSE d IN
  /\ Calling("Receive")
  /\ Idle
  /\ arrival' = d
  /\ freed' = {}
  /\ \/ /\ Corrupt(d) \/ Corrupt(shown)
        /\ rxStatus' = "checksum"
        /\ todo' = {}
     \/ /\ ~Corrupt(d) /\ ~Corrupt(shown) /\ Lookup(shown) = {}
        /\ rxStatus' = "unreachable"
        /\ todo' = {}
     \/ /\ ~Corrupt(d) /\ ~Corrupt(shown) /\ Lookup(shown) # {}
        /\ \A k \in Lookup(shown) :
             Len(m_deliveryQueue[demux[k].rxCallback]) < MaxQueue
        /\ rxStatus' = "ok"
        /\ todo' = Lookup(shown)
  /\ icmpTo' = NoReport
  /\ UNCHANGED <<vars, lifeVars, callback, inFlight, crash>>

(* With RecvPktInfo on, ForwardUp6 asks the interface for its device.      *)
NeedsInterface(k) ==
  LET s == demux[k].rxCallback IN ~m_shutdownRecv[s] /\ s \in PktInfo

NullInterface(k) == k.family = "v6" /\ arrival.family = "v4"

(* Mutant of Remaining: the loop left after its first match.               *)
NoneRemaining(k) == {}

Remaining(k) == todo \ {k}

(* One turn of the loop.  The list holds plain pointers: one deleted since *)
(* the lookup is still followed.                                           *)
ForwardNext(k) ==
  /\ status = "running" /\ crash = "none" /\ callback = NoSocket
  /\ todo' = Remaining(k)
  /\ \/ /\ k \in freed
        /\ crash' = "freed"
        /\ UNCHANGED <<vars, callback>>
     \/ /\ k \notin freed /\ NeedsInterface(k) /\ NullInterface(k)
        /\ crash' = "nullInterface"
        /\ UNCHANGED <<vars, callback>>
     \/ /\ k \notin freed /\ ~(NeedsInterface(k) /\ NullInterface(k))
        /\ EndPointForwardUp(k, arrival)
        /\ callback' = IF Accepts(demux[k].rxCallback, arrival)
                       THEN demux[k].rxCallback
                       ELSE NoSocket
        /\ UNCHANGED crash
  /\ Quiet
  /\ UNCHANGED <<lifeVars, arrival, freed, inFlight>>

(* NotifyDataRecv comes back.                                              *)
CallbackReturn ==
  /\ crash = "none" /\ callback # NoSocket
  /\ callback' = NoSocket
  /\ Quiet
  /\ UNCHANGED <<vars, lifeVars, arrival, todo, freed, inFlight, crash>>

-------------------------------------------------------------------------------
(***************************************************************************)
(* ICMP errors.  The eight bytes of payload an error quotes hold the ports *)
(* of the datagram it is about.                                            *)
(***************************************************************************)
(* Mutant of SimpleLookup: the table of the other IP version.              *)
SimpleLookupOther(x) ==
  {k \in DOMAIN demux : k.family # x.endPoint.family /\ k.port = x.endPoint.port}

(* External: both demultiplexers' SimpleLookup.  No end point here has a   *)
(* peer, so none matches exactly: of those on the port, one with the       *)
(* fewest wildcards is taken.                                              *)
SimpleLookup(x) ==
  LET onPort == {k \in DOMAIN demux :
                   k.family = x.endPoint.family /\ k.port = x.endPoint.port}
      bound == {k \in onPort : k.addr # AnyAddr}
  IN  IF bound # {} THEN bound ELSE onPort

(* ForwardIcmp and ForwardIcmp6 hand the report to the application.        *)
ForwardIcmp(x, s) == icmpTo' = [about |-> x, to |-> s]

ReceiveIcmp(x) ==
  /\ Calling("ReceiveIcmp")
  /\ Idle
  /\ inFlight' = inFlight \ {x}
  /\ \/ SimpleLookup(x) = {} /\ icmpTo' = NoReport
     \/ \E k \in SimpleLookup(x) : ForwardIcmp(x, demux[k].rxCallback)
  /\ rxStatus' = "none"
  /\ ReceiveGoesOn
  /\ UNCHANGED <<vars, lifeVars, crash>>

-------------------------------------------------------------------------------
(***************************************************************************)
(* Disposing.                                                              *)
(***************************************************************************)
(* Mutant of SocketsKept: the list left as it is.                          *)
AllSocketsKept == m_sockets

SocketsKept == {}

(* The list of sockets goes first, then the tables, end point by end       *)
(* point, while only their callbacks keep the sockets alive.               *)
DisposeOfProtocol ==
  /\ Idle
  /\ DoDispose
  /\ m_sockets' = SocketsKept
  /\ Quiet
  /\ ReceiveGoesOn
  /\ UNCHANGED <<life, held, inFlight, crash>>

DisposeStep ==
  /\ Idle
  /\ EndDispose \/ \E k \in DOMAIN demux : DeleteEndPoint(k)
  /\ Quiet
  /\ UNCHANGED <<lifeVars, loopVars, inFlight, crash>>

-------------------------------------------------------------------------------
(* A pointer that goes takes the socket with it at once.                   *)
Settled == \A s \in Sockets : life[s] = "live" => Referenced(s)

(* The steps of a handler already begun.                                   *)
HandlerStep ==
  \/ \E s \in Sockets : Destruct(s)
  \/ Settled /\ \E k \in todo : ForwardNext(k)
  \/ Settled /\ CallbackReturn
  \/ Settled /\ DisposeStep

ApplicationStep ==
  \/ \E s \in Sockets : CreateSocket(s) \/ Release(s) \/ ApplicationCall(s)
  \/ \E p \in Packets :
       /\ ApplicationRuns /\ NewPacket(p)
       /\ Quiet
       /\ ReceiveGoesOn
       /\ UNCHANGED <<lifeVars, inFlight, crash>>

NodeNext ==
  \/ HandlerStep
  \/ Settled /\ ApplicationStep
  \/ Settled /\ \E d \in Datagrams : Receive(d)
  \/ Settled /\ \E x \in inFlight : ReceiveIcmp(x)
  \/ Settled /\ DisposeOfProtocol

NodeSpec == NodeInit /\ [][NodeNext]_nodeVars

(* The simulator runs an event to its end before the next one: a loop or a *)
(* disposal that has begun goes on, if the application's callbacks return. *)
FairNodeSpec == NodeSpec /\ WF_nodeVars(HandlerStep)

-------------------------------------------------------------------------------
(***************************************************************************)
(* Properties.                                                             *)
(***************************************************************************)
(* Every variable of the protocol stays in its type; what is left of the   *)
(* loop are end points, deleted ones among them only if they are in freed  *)
(* (rudp-l4-protocol.cc:362-369).                                          *)
NodeTypeOK ==
  /\ TypeOK
  /\ life \in [Sockets -> {"none", "live", "destroyed"}]
  /\ m_sockets \subseteq Sockets /\ held \subseteq Sockets
  /\ arrival \in Datagrams \cup {NoArrival}
  /\ todo \ freed \subseteq DOMAIN demux /\ todo \cup freed \subseteq EndPoints
  /\ callback \in Sockets \cup {NoSocket}
  /\ rxStatus \in {"none", "ok", "checksum", "unreachable"}
  /\ inFlight \subseteq [sock : Sockets, endPoint : EndPoints]
  /\ icmpTo = NoReport \/ (icmpTo.about.sock \in Sockets /\ icmpTo.to \in Sockets)
  /\ crash \in {"none", "freed", "nullInterface", "destructor"}

(* An application that never binds a bound socket again may do to a socket *)
(* what it likes in that socket's own NotifyDataRecv, close it included:   *)
(* no end point the loop has still to come to is deleted by it             *)
(* (rudp-l4-protocol.cc:362-369, 403-407, rudp-socket-impl.cc:898).        *)
OwnSocketMayBeClosed ==
  [][callback # NoSocket /\ m_endPoint'[callback] # m_endPoint[callback]
       => freed' = freed]_nodeVars

(* RX_ENDPOINT_UNREACH is said, and an intact datagram refused, only when  *)
(* no socket that still receives and is not tied to a device holds an end  *)
(* point for its port and address, the IPv6 end points counting for IPv4   *)
(* datagrams as well (rudp-l4-protocol.cc:332-360, 386-402).               *)
OpenPortsAnswer ==
  rxStatus \in {"checksum", "unreachable"} /\ arrival.checksumOk =>
    \A s \in Sockets, f \in Families :
      LET k == m_endPoint[s][f] IN
      /\ k # NoEndPoint
      /\ k.port = arrival.port /\ k.addr \in {arrival.dst, AnyAddr}
      /\ f = arrival.family \/ (arrival.family = "v4" /\ "v6" \in Stacks)
      => m_shutdownRecv[s] \/ m_boundnetdevice[s]

(* What an open socket has queued was sent to it: it still holds the end   *)
(* point the datagram came through, since nothing but closing gives one up *)
(* unless bound sockets are bound again (rudp-l4-protocol.cc:337-340,      *)
(* 395-398, rudp-socket-impl.cc:184-200, 892-899).                         *)
QueuedWasAddressed ==
  \A s \in Sockets : status = "running" /\ ~m_shutdownRecv[s] =>
    \A i \in DOMAIN m_deliveryQueue[s] : \E f \in Families :
      LET d == m_deliveryQueue[s][i]
          k == m_endPoint[s][f]
      IN  /\ k # NoEndPoint
          /\ k.port = d.port /\ (k.addr \in {d.dst, AnyAddr} \/ d.dst = Group)
          /\ f = d.family \/ d.family = "v4"

(* A datagram that came in by another interface than a socket's device is  *)
(* not demultiplexed to the socket, whichever of binding it to an address  *)
(* and to the device came first, and not queued by it unless it was sent   *)
(* to a group: a loop over several end points goes on with those found     *)
(* before a callback bound a socket to its device.  As long as the ports   *)
(* last (rudp-socket-impl.cc:826-855, rudp-l4-protocol.cc:332-369).        *)
OnlyFromItsDevice ==
  [][\A s \in Sockets : m_boundnetdevice[s] =>
       /\ (\E k \in todo' \ todo : demux[k].rxCallback = s) /\ ~m_shutdownRecv[s]
            => arrival'.interface = "device"
       /\ Len(m_deliveryQueue'[s]) > Len(m_deliveryQueue[s]) /\ arrival.dst # Group
            => arrival.interface = "device"]_nodeVars

(* One datagram is handed to a socket once at most, though the socket may  *)
(* have an end point in either table, the loop may have many end points to *)
(* come to, and callbacks bind, shut and close sockets in between: no two  *)
(* of what the loop has left deliver to one socket, and none to the one    *)
(* whose NotifyDataRecv runs (rudp-l4-protocol.cc:337-369, 391-407).       *)
HeardAtMostOnce ==
  LET left == todo \ freed IN
  /\ \A j, k \in left : demux[j].rxCallback = demux[k].rxCallback => j = k
  /\ \A k \in left : demux[k].rxCallback # callback

(* An ICMP error about a datagram is told to the socket that sent it while *)
(* that socket alone has the port, and never to one that does not have it, *)
(* though the sender may have closed and another socket taken the port     *)
(* since (rudp-l4-protocol.cc:259-311).                                    *)
IcmpFindsSender ==
  icmpTo # NoReport =>
    LET x == icmpTo.about
        k == x.endPoint
        onPort == {j \in DOMAIN demux : j.family = k.family /\ j.port = k.port}
    IN  /\ onPort = {k} /\ m_endPoint[x.sock][k.family] = k => icmpTo.to = x.sock
        /\ \E j \in onPort : m_endPoint[icmpTo.to][k.family] = j

(* What Lookup is given of an answer to end point k, sent to the node's    *)
(* address dst and come in by interface i.                                 *)
AnswerTo(k, dst, i) ==
  [family |-> k.family, dst |-> dst, port |-> k.port, interface |-> i]

(* Answers to a datagram find the socket that sent it and no other, for as *)
(* long as it holds the end point it sent from and receives: whether it    *)
(* was bound by hand, by sending or to its device, or the port was another *)
(* socket's before.  Two things take answers away from it: its device, by  *)
(* which they must come, and, if it is bound to no address, an end point   *)
(* bound to the very address and port they are sent to, which Lookup       *)
(* prefers (rudp-socket-impl.cc:544-545, 565-566, 641-642, 661-662,        *)
(* rudp-l4-protocol.cc:337-340, 395-398).                                  *)
AnswersFindSender ==
  \A x \in inFlight, dst \in LocalAddrs, i \in {"device", "other"} :
    LET k == x.endPoint
        exact == [k EXCEPT !.addr = dst]
    IN  /\ m_endPoint[x.sock][k.family] = k /\ ~m_shutdownRecv[x.sock]
        /\ m_boundnetdevice[x.sock] => i = "device"
        /\ k = exact \/ (k.addr = AnyAddr /\ exact \notin DOMAIN demux)
        => /\ Lookup(AnswerTo(k, dst, i)) = {k}
           /\ demux[k].rxCallback = x.sock

(* "this function is called AFTER UdpSocketImpl::Destroy or                *)
(* UdpSocketImpl::Destroy6" (rudp-socket-impl.cc:97-101): whatever order   *)
(* pointers to a socket are dropped in, by the application, m_sockets and  *)
(* the end points deleted one by one, its destructor finds both end point  *)
(* pointers cleared.                                                       *)
DestructorFindsNoEndPoint == crash # "destructor"

(* Disposing of the protocol frees every socket the application has let    *)
(* go: the end points' callbacks, which point back at the sockets, do not  *)
(* keep them (rudp-l4-protocol.cc:133-152, rudp-socket-impl.cc:170-226).   *)
DisposalFrees ==
  \A s \in Sockets :
    (status \in {"disposing", "disposed"} /\ life[s] = "live" /\ s \notin held)
      ~> (life[s] = "destroyed")

Stopped == crash # "none" \/ status # "running"

(* What socket s says of datagram d: it takes it, or traces that it drops it. *)
HeardOf(s, d) == [kind : {"data", "drop"}, sock : {s}, datagram : {d}]

(* Every socket Receive found an end point of gets the datagram or traces  *)
(* that it drops it, whatever the application does in the callbacks that   *)
(* come before, unless it shuts that socket or the program stops           *)
(* (rudp-l4-protocol.cc:362-369, 403-407).                                 *)
MatchedSocketsHear ==
  \A s \in Sockets :
    (\E k \in todo \ freed : demux[k].rxCallback = s)
      ~> \/ rxOut \in HeardOf(s, arrival)
         \/ m_shutdownRecv[s]
         \/ Stopped

(* What MatchedSocketsHear rests on, step by step: an end point goes from  *)
(* the loop's list only as its socket hears of the datagram, or when its   *)
(* socket is shut, and then by its own socket's Close and no other call    *)
(* (rudp-l4-protocol.cc:362-369, 403-407, rudp-socket-impl.cc:341-355).    *)
LoopSkipsNone ==
  [][\A k \in todo \ freed :
       LET s == demux[k].rxCallback IN
       k \notin todo' \ freed' =>
         \/ m_shutdownRecv'[s]
         \/ Stopped'
         \/ rxOut' \in HeardOf(s, arrival)]_nodeVars

===============================================================================
