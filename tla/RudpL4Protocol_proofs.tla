------------------------ MODULE RudpL4Protocol_proofs ------------------------
(***************************************************************************)
(* The node: its calls are calls of RudpSocketImpl, so what is proved      *)
(* there holds here; destructors find no end point; open ports answer; a   *)
(* socket may be closed in its own callback; ICMP errors find the sender;  *)
(* answers find the sender; what is queued was sent to the socket that     *)
(* queued it, once, and by its device; and the loop of Receive skips       *)
(* nobody.                                                                 *)
(***************************************************************************)
EXTENDS RudpL4Protocol, RudpSocketImpl_proofs

(* While Receive is in its loop there is a datagram, and what is left of   *)
(* the list is in a table unless it was deleted since.                     *)
LoopInv ==
  /\ todo # {} => arrival \in Datagrams
  /\ todo \ freed \subseteq DOMAIN demux

LEMMA LoopInit == NodeInit => LoopInv
  BY DEF NodeInit, LoopInv

LEMMA LookupFinds ==
  ASSUME NEW d
  PROVE  Lookup(d) \subseteq DOMAIN demux
  BY DEF Lookup

(* Steps of the application and of others that leave the tables alone.     *)
LEMMA LoopGoesOn ==
  ASSUME LoopInv, ReceiveGoesOn, UNCHANGED demux
  PROVE  LoopInv'
<1>1. todo' = todo /\ (todo # {} => arrival' = arrival /\ freed' = freed)
  BY DEF ReceiveGoesOn, Kept, Idle
<1> QED BY <1>1 DEF LoopInv

LEMMA LoopStep ==
  ASSUME LoopInv, [NodeNext]_nodeVars
  PROVE  LoopInv'
<1>1. CASE UNCHANGED <<demux, arrival, todo, freed>>
  BY <1>1 DEF LoopInv
<1>2. CASE UNCHANGED nodeVars
  BY <1>1, <1>2 DEF nodeVars, vars, bindVars, loopVars
<1>3. ASSUME NEW s \in Sockets, Destruct(s)
      PROVE  LoopInv'
  BY <1>1, <1>3 DEF Destruct, vars, bindVars, loopVars
<1>4. ASSUME NEW k \in todo, ForwardNext(k)
      PROVE  LoopInv'
  <2>1. UNCHANGED <<demux, arrival, freed>> /\ todo' \subseteq todo
    BY <1>4 DEF ForwardNext, Remaining, EndPointForwardUp, Receiving, vars,
       bindVars
  <2> QED BY <1>4, <2>1 DEF LoopInv
<1>5. ASSUME CallbackReturn
      PROVE  LoopInv'
  BY <1>1, <1>5 DEF CallbackReturn, vars, bindVars
<1>6. ASSUME DisposeStep
      PROVE  LoopInv'
  BY <1>6 DEF DisposeStep, Idle, LoopInv, loopVars
<1>7. ASSUME NEW s \in Sockets, CreateSocket(s) \/ Release(s)
      PROVE  LoopInv'
  BY <1>7, LoopGoesOn DEF CreateSocket, Release, vars, bindVars
<1>8. ASSUME NEW s \in Sockets, ApplicationCall(s)
      PROVE  LoopInv'
  <2>1. /\ todo' = todo
        /\ todo # {} => arrival' = arrival
        /\ freed' = freed \cup (todo \cap (DOMAIN demux \ DOMAIN demux'))
    BY <1>8 DEF ApplicationCall, Kept, Idle
  <2> QED BY <2>1 DEF LoopInv
<1>9. ASSUME NEW p \in Packets, NewPacket(p), ReceiveGoesOn
      PROVE  LoopInv'
  BY <1>9, LoopGoesOn DEF NewPacket, bindVars
<1>10. ASSUME NEW d \in Datagrams, Receive(d)
       PROVE  LoopInv'
  <2>1. /\ arrival' = d /\ freed' = {} /\ UNCHANGED demux
        /\ todo' = {} \/ \E shown : todo' = Lookup(shown)
    BY <1>10 DEF Receive, vars, bindVars
  <2> QED BY <2>1, LookupFinds DEF LoopInv
<1>11. ASSUME NEW x \in inFlight, ReceiveIcmp(x)
       PROVE  LoopInv'
  BY <1>11, LoopGoesOn DEF ReceiveIcmp, vars, bindVars
<1>12. ASSUME DisposeOfProtocol
       PROVE  LoopInv'
  BY <1>12, LoopGoesOn DEF DisposeOfProtocol, DoDispose, bindVars
<1> QED
  BY <1>2, <1>3, <1>4, <1>5, <1>6, <1>7, <1>8, <1>9, <1>10, <1>11, <1>12
     DEF NodeNext, HandlerStep, ApplicationStep

-------------------------------------------------------------------------------
(***************************************************************************)
(* The node's steps are steps of its sockets.                              *)
(***************************************************************************)
LEMMA NodeStepIsSocketStep ==
  ASSUME LoopInv, [NodeNext]_nodeVars
  PROVE  [Next]_vars
<1>1. ASSUME UNCHANGED nodeVars
      PROVE  UNCHANGED vars
  BY <1>1 DEF nodeVars
<1>2. ASSUME NEW s \in Sockets, Destruct(s) \/ CreateSocket(s) \/ Release(s)
      PROVE  UNCHANGED vars
  BY <1>2 DEF Destruct, CreateSocket, Release
<1>3. ASSUME NEW k \in todo, ForwardNext(k)
      PROVE  [Next]_vars
  <2>1. CASE UNCHANGED vars
    BY <2>1
  <2>2. CASE k \notin freed /\ EndPointForwardUp(k, arrival)
    <3>1. k \in DOMAIN demux /\ arrival \in Datagrams
      BY <1>3, <2>2 DEF LoopInv
    <3> QED BY <2>2, <3>1 DEF Next
  <2> QED BY <1>3, <2>1, <2>2 DEF ForwardNext
<1>4. ASSUME CallbackReturn
      PROVE  UNCHANGED vars
  BY <1>4 DEF CallbackReturn
<1>5. ASSUME DisposeStep
      PROVE  Next
  BY <1>5 DEF DisposeStep, Next
<1>6. ASSUME NEW s \in Sockets, ApplicationCall(s)
      PROVE  Next
  BY <1>6 DEF ApplicationCall, Next
<1>7. ASSUME NEW p \in Packets, NewPacket(p)
      PROVE  Next
  BY <1>7 DEF Next
<1>8. ASSUME NEW d \in Datagrams, Receive(d)
      PROVE  UNCHANGED vars
  BY <1>8 DEF Receive
<1>9. ASSUME NEW x \in inFlight, ReceiveIcmp(x)
      PROVE  UNCHANGED vars
  BY <1>9 DEF ReceiveIcmp
<1>10. ASSUME DisposeOfProtocol
       PROVE  Next
  BY <1>10 DEF DisposeOfProtocol, Next
<1> QED
  BY <1>1, <1>2, <1>3, <1>4, <1>5, <1>6, <1>7, <1>8, <1>9, <1>10
     DEF NodeNext, HandlerStep, ApplicationStep

(* Whatever the protocol does around them, the loop of Receive with its    *)
(* callbacks and the stepwise disposal included, the sockets of a node     *)
(* make only the steps RudpSocketImpl allows, so its invariants are the    *)
(* node's (rudp-l4-protocol.cc:133-409).                                   *)
THEOREM NodeImplementsSockets == NodeSpec => Spec
<1>1. NodeInit => Init
  BY DEF NodeInit
<1>2. LoopInv /\ [NodeNext]_nodeVars => LoopInv'
  BY LoopStep
<1>3. LoopInv /\ [NodeNext]_nodeVars => [Next]_vars
  BY NodeStepIsSocketStep
<1> QED BY <1>1, <1>2, <1>3, LoopInit, PTL DEF NodeSpec, Spec

-------------------------------------------------------------------------------
(***************************************************************************)
(* Destruction.                                                            *)
(***************************************************************************)
LEMMA DestructorStep ==
  ASSUME OwnInv, DestructorFindsNoEndPoint, [NodeNext]_nodeVars
  PROVE  DestructorFindsNoEndPoint'
<1>1. ASSUME NEW s \in Sockets, Destruct(s)
      PROVE  crash' = crash
  <2>1. ASSUME NEW f \in Families, m_endPoint[s][f] # NoEndPoint
        PROVE  Referenced(s)
    <3>1. /\ m_endPoint[s][f] \in DOMAIN demux
          /\ demux[m_endPoint[s][f]].destroyCallback = s
      BY <2>1 DEF OwnInv, Owned
    <3> QED BY <3>1 DEF Referenced
  <2> QED BY <1>1, <2>1 DEF Destruct
<1>2. ASSUME NEW k \in todo, ForwardNext(k)
      PROVE  crash' \in {crash, "freed", "nullInterface"}
  BY <1>2 DEF ForwardNext
<1>3. ASSUME \/ CallbackReturn \/ DisposeStep \/ DisposeOfProtocol
             \/ \E s \in Sockets :
                  CreateSocket(s) \/ Release(s) \/ ApplicationCall(s)
             \/ \E d \in Datagrams : Receive(d)
             \/ \E x \in inFlight : ReceiveIcmp(x)
             \/ UNCHANGED nodeVars
      PROVE  crash' = crash
  BY <1>3 DEF CallbackReturn, DisposeStep, DisposeOfProtocol, CreateSocket,
     Release, ApplicationCall, Receive, ReceiveIcmp, nodeVars
<1> QED
  BY <1>1, <1>2, <1>3
     DEF NodeNext, HandlerStep, ApplicationStep, DestructorFindsNoEndPoint

(* The comment in the destructor is right for every sequence of calls,     *)
(* rebinding included: an end point a socket points to holds a callback    *)
(* that keeps the socket, so the last reference goes only once both        *)
(* pointers are cleared (rudp-socket-impl.cc:97-101).                      *)
THEOREM DestructorsFindNoEndPoint == NodeSpec => []DestructorFindsNoEndPoint
<1>1. OwnInv /\ [Next]_vars => OwnInv'
  BY OwnInvStep
<1>2. OwnInv /\ DestructorFindsNoEndPoint /\ [NodeNext]_nodeVars
        => DestructorFindsNoEndPoint'
  BY DestructorStep
<1>3. NodeInit => DestructorFindsNoEndPoint
  BY DEF NodeInit, DestructorFindsNoEndPoint
<1> QED
  BY <1>1, <1>2, <1>3, NodeImplementsSockets, OwnInvInit, PTL DEF NodeSpec, Spec

-------------------------------------------------------------------------------
(***************************************************************************)
(* Open ports answer.                                                      *)
(***************************************************************************)
(* An end point a socket points to is disabled only if the socket is shut, *)
(* and tied to a device only if the socket is.                             *)
OpenInv ==
  \A s \in Sockets, f \in Families :
    LET k == m_endPoint[s][f] IN
    k # NoEndPoint =>
      /\ demux[k].rxEnabled \/ m_shutdownRecv[s]
      /\ demux[k].device => m_boundnetdevice[s]

(* The two flags of a socket that OpenInv speaks of are never cleared.      *)
FlagsInv ==
  /\ m_shutdownRecv \in [Sockets -> BOOLEAN]
  /\ m_boundnetdevice \in [Sockets -> BOOLEAN]

FlagsGrow ==
  \A s \in Sockets :
    /\ m_shutdownRecv[s] => m_shutdownRecv'[s]
    /\ m_boundnetdevice[s] => m_boundnetdevice'[s]

LEMMA FlagsStep ==
  ASSUME FlagsInv, [Next]_vars
  PROVE  FlagsInv' /\ FlagsGrow
<1> DEFINE Shuts(s) == m_shutdownRecv' = [m_shutdownRecv EXCEPT ![s] = TRUE]
           Ties(s) == m_boundnetdevice' = [m_boundnetdevice EXCEPT ![s] = TRUE]
<1>1. CASE UNCHANGED <<m_shutdownRecv, m_boundnetdevice>>
  BY <1>1 DEF FlagsInv, FlagsGrow
<1>2. ASSUME NEW s \in Sockets, Shuts(s), UNCHANGED m_boundnetdevice
      PROVE  FlagsInv' /\ FlagsGrow
  BY <1>2 DEF FlagsInv, FlagsGrow
<1>3. ASSUME NEW s \in Sockets, Ties(s), UNCHANGED m_shutdownRecv
      PROVE  FlagsInv' /\ FlagsGrow
  BY <1>3 DEF FlagsInv, FlagsGrow
<1>4. ASSUME NEW s \in Sockets, ShutdownRecv(s) \/ Close(s)
      PROVE  FlagsInv' /\ FlagsGrow
  BY <1>1, <1>2, <1>4 DEF ShutdownRecv, Close, Refuse, Rx!OtherCall,
     Rx!StopReceiving, bindVars
<1>5. ASSUME NEW s \in Sockets, BindToNetDevice(s)
      PROVE  FlagsInv' /\ FlagsGrow
  BY <1>1, <1>3, <1>5 DEF BindToNetDevice, Silent, Stop, rxVars, bindVars
<1>6. ASSUME NEW s \in Sockets, NEW p \in Packets,
             Send(s, p) \/ \E d \in Dests : SendTo(s, p, d)
      PROVE  UNCHANGED <<m_shutdownRecv, m_boundnetdevice>>
  <2>1. ASSUME NEW d, DoSendTo(s, p, d)
        PROVE  UNCHANGED <<m_shutdownRecv, m_boundnetdevice>>
    BY <2>1 DEF DoSendTo, Transmit, Rx!OtherCall, Silent, Stop, rxVars, bindVars
  <2> QED BY <1>6, <2>1 DEF Send, SendTo, Refuse, Rx!OtherCall, Silent,
          rxVars, bindVars
<1>7. ASSUME NEW s \in Sockets,
             \/ \E f \in Families : Bind(s, f)
             \/ \E b \in Binds : BindAddress(s, b.family, b.addr, b.port)
             \/ BindInvalid(s) \/ ShutdownSend(s) \/ Listen(s) \/ GetPeerName(s)
             \/ \E d \in Dests : Connect(s, d)
             \/ \E discover \in BOOLEAN : SetMtuDiscover(s, discover)
             \/ \E n \in ReadSizes : Recv(s, n)
             \/ \E n \in BufSizes : SetRcvBufSize(s, n)
      PROVE  UNCHANGED <<m_shutdownRecv, m_boundnetdevice>>
  BY <1>7 DEF Bind, BindAddress, BindInvalid, ShutdownSend, Listen, GetPeerName,
     Connect, SetMtuDiscover, Recv, SetRcvBufSize, Rx!Recv, Rx!SetRcvBufSize,
     Refuse, Rx!OtherCall, Silent, Receiving, rxVars, bindVars
<1>8. ASSUME \/ \E p \in Packets : NewPacket(p)
             \/ \E k \in DOMAIN demux, d \in Datagrams : EndPointForwardUp(k, d)
             \/ DoDispose \/ EndDispose
             \/ \E k \in DOMAIN demux : DeleteEndPoint(k)
             \/ UNCHANGED vars
      PROVE  UNCHANGED <<m_shutdownRecv, m_boundnetdevice>>
  BY <1>8 DEF NewPacket, EndPointForwardUp, Receiving, Rx!ForwardUp, Rx!vars,
     DoDispose, EndDispose, DeleteEndPoint, Stop, rxVars, bindVars, vars
<1> QED
  BY <1>1, <1>4, <1>5, <1>6, <1>7, <1>8 DEF Next, SocketCall

(* A step that leaves each entry pointed to as it was, or within OpenInv.   *)
LEMMA OpenKept ==
  ASSUME OpenInv, FlagsGrow,
         \A s \in Sockets, f \in Families :
           LET k == m_endPoint'[s][f] IN
           k # NoEndPoint =>
             \/ /\ k = m_endPoint[s][f]
                /\ demux'[k].rxEnabled = demux[k].rxEnabled
                /\ demux'[k].device = demux[k].device
             \/ /\ demux'[k].rxEnabled \/ m_shutdownRecv'[s]
                /\ demux'[k].device => m_boundnetdevice'[s]
  PROVE  OpenInv'
  BY DEF OpenInv, FlagsGrow

LEMMA HookedFlags ==
  ASSUME NEW table, NEW new, new \cap DOMAIN table = {},
         \A k \in DOMAIN table : table[k] \in EndPointStates,
         NEW s \in Sockets, NEW mine
  PROVE  LET after == Hooked(With(table, new), s, mine) IN
         /\ \A k \in DOMAIN table :
              /\ after[k].rxEnabled = table[k].rxEnabled
              /\ after[k].device = table[k].device
         /\ \A k \in new \ {NoEndPoint} :
              after[k].rxEnabled /\ ~after[k].device
<1> DEFINE wide == With(table, new)
           after == Hooked(wide, s, mine)
<1>1. ASSUME NEW e \in EndPointStates
      PROVE  Hook(e, s).rxEnabled = e.rxEnabled /\ Hook(e, s).device = e.device
  BY DEF Hook, EndPointStates
<1>2. /\ DOMAIN wide = DOMAIN table \cup (new \ {NoEndPoint})
      /\ \A k \in DOMAIN table : wide[k] = table[k]
      /\ \A k \in new \ {NoEndPoint} : wide[k] = Fresh
  BY DEF With
<1>3. \A k \in DOMAIN wide :
        /\ after[k].rxEnabled = wide[k].rxEnabled
        /\ after[k].device = wide[k].device
  BY <1>1, <1>2, FreshState DEF Hooked
<1>4. Fresh.rxEnabled /\ ~Fresh.device
  BY DEF Fresh
<1> QED BY <1>2, <1>3, <1>4

LEMMA TakeOpens ==
  ASSUME OwnInv, OpenInv, NEW s \in Sockets, NEW f \in Families,
         NEW a \in LocalAddrs \cup {AnyAddr}, NEW port \in Ports \cup {0},
         NEW k \in Allocate(f, a, port), TakeEndPoint(s, f, k),
         FlagsGrow
  PROVE  OpenInv'
<1>1. m_endPoint \in [Sockets -> [Families -> EndPoints \cup {NoEndPoint}]]
  BY DEF OwnInv, Owned
<1>2. m_endPoint' = [m_endPoint EXCEPT ![s] = [m_endPoint[s] EXCEPT ![f] = k]]
  BY DEF TakeEndPoint, Rebound
<1>3. {k} \cap DOMAIN demux = {}
  <2>1. CASE k = NoEndPoint
    BY <2>1, EndPointsAssumption DEF OwnInv, Owned
  <2>2. CASE k # NoEndPoint
    BY <2>2, AllocateFacts
  <2> QED BY <2>1, <2>2
<1>4. /\ \A j \in DOMAIN demux :
           /\ demux'[j].rxEnabled = demux[j].rxEnabled
           /\ demux'[j].device = demux[j].device
      /\ k # NoEndPoint => demux'[k].rxEnabled /\ ~demux'[k].device
  BY <1>3, HookedFlags DEF TakeEndPoint, OwnInv, Owned
<1>5. ASSUME NEW t \in Sockets, NEW g \in Families,
             m_endPoint'[t][g] # NoEndPoint
      PROVE  \/ m_endPoint'[t][g] = m_endPoint[t][g]
             \/ m_endPoint'[t][g] = k
  BY <1>1, <1>2
<1>6. ASSUME NEW t \in Sockets, NEW g \in Families,
             m_endPoint[t][g] # NoEndPoint
      PROVE  m_endPoint[t][g] \in DOMAIN demux
  BY <1>6 DEF OwnInv, Owned
<1> QED BY <1>4, <1>5, <1>6, OpenKept

LEMMA BindAddressOpens ==
  ASSUME OwnInv, OpenInv, NEW s \in Sockets, NEW f \in Families,
         NEW a \in LocalAddrs \cup {AnyAddr}, NEW port \in Ports \cup {0},
         BindAddress(s, f, a, port), FlagsGrow
  PROVE  OpenInv'
<1>1. PICK k \in Allocate(f, a, port) :
        \/ /\ m_endPoint' = [m_endPoint EXCEPT ![s] = Rebound(s, f, NoEndPoint)]
           /\ UNCHANGED demux
        \/ TakeEndPoint(s, f, k)
  BY DEF BindAddress
<1>2. CASE TakeEndPoint(s, f, k)
  BY <1>2, TakeOpens
<1>3. CASE /\ m_endPoint' = [m_endPoint EXCEPT ![s] = Rebound(s, f, NoEndPoint)]
           /\ UNCHANGED demux
  <2>1. m_endPoint \in [Sockets -> [Families -> EndPoints \cup {NoEndPoint}]]
    BY DEF OwnInv, Owned
  <2>2. \A t \in Sockets, g \in Families :
          m_endPoint'[t][g] \in {m_endPoint[t][g], NoEndPoint}
    BY <1>3, <2>1 DEF Rebound
  <2> QED BY <1>3, <2>2, OpenKept
<1> QED BY <1>1, <1>2, <1>3

LEMMA ShutdownRecvOpens ==
  ASSUME OwnInv, OpenInv, NEW s \in Sockets, ShutdownRecv(s), FlagsInv,
         FlagsGrow
  PROVE  OpenInv'
<1>1. /\ m_shutdownRecv' = [m_shutdownRecv EXCEPT ![s] = TRUE]
      /\ UNCHANGED <<m_boundnetdevice, m_endPoint>>
      /\ \A k \in DOMAIN demux :
           demux'[k] = IF \E f \in Families : m_endPoint[s][f] = k
                       THEN [demux[k] EXCEPT !.rxEnabled = FALSE]
                       ELSE demux[k]
  BY DEF ShutdownRecv, Rx!StopReceiving
<1>2. \A t \in Sockets :
        m_shutdownRecv'[t] = IF t = s THEN TRUE ELSE m_shutdownRecv[t]
  BY <1>1 DEF FlagsInv
<1>3. ASSUME NEW t \in Sockets, NEW f \in Families,
             m_endPoint[t][f] # NoEndPoint
      PROVE  LET k == m_endPoint[t][f] IN
             /\ demux'[k].device = demux[k].device
             /\ t # s => demux'[k] = demux[k]
  <2> DEFINE k == m_endPoint[t][f]
  <2>1. k \in DOMAIN demux /\ demux[k] \in EndPointStates
    BY <1>3 DEF OwnInv, Owned
  <2>2. demux'[k].device = demux[k].device
    BY <1>1, <2>1 DEF EndPointStates
  <2>3. ASSUME NEW g \in Families, m_endPoint[s][g] = k
        PROVE  t = s
    BY <1>3, <2>3 DEF OwnInv, Owned
  <2>4. t # s => demux'[k] = demux[k]
    BY <1>1, <2>1, <2>3
  <2> QED BY <2>2, <2>4
<1>4. ASSUME NEW t \in Sockets, NEW f \in Families,
             m_endPoint[t][f] # NoEndPoint
      PROVE  LET k == m_endPoint[t][f] IN
             /\ demux'[k].rxEnabled \/ m_shutdownRecv'[t]
             /\ demux'[k].device => m_boundnetdevice'[t]
  <2>1. t = s => m_shutdownRecv'[t]
    BY <1>2
  <2>2. t # s => demux'[m_endPoint[t][f]].rxEnabled \/ m_shutdownRecv'[t]
    BY <1>3, <1>4 DEF OpenInv, FlagsGrow
  <2>3. demux'[m_endPoint[t][f]].device => m_boundnetdevice'[t]
    BY <1>3, <1>4 DEF OpenInv, FlagsGrow
  <2> QED BY <2>1, <2>2, <2>3
<1> QED BY <1>1, <1>4 DEF OpenInv

LEMMA CloseOpens ==
  ASSUME OwnInv, OpenInv, NEW s \in Sockets, Close(s), FlagsGrow
  PROVE  OpenInv'
<1>1. CASE UNCHANGED <<demux, m_endPoint>>
  BY <1>1, OpenKept
<1>2. CASE DeallocateEndPoint(s)
  <2>1. m_endPoint \in [Sockets -> [Families -> EndPoints \cup {NoEndPoint}]]
    BY DEF OwnInv, Owned
  <2>2. /\ m_endPoint' = [m_endPoint EXCEPT ![s] = [f \in Families |-> NoEndPoint]]
        /\ \A k \in DOMAIN demux :
             (\A f \in Families : m_endPoint[s][f] # k) => demux'[k] = demux[k]
    BY <1>2 DEF DeallocateEndPoint, Without
  <2>3. ASSUME NEW t \in Sockets, NEW f \in Families,
               m_endPoint'[t][f] # NoEndPoint
        PROVE  /\ m_endPoint'[t][f] = m_endPoint[t][f]
               /\ demux'[m_endPoint[t][f]] = demux[m_endPoint[t][f]]
    <3>1. t # s /\ m_endPoint'[t][f] = m_endPoint[t][f]
      BY <2>1, <2>2, <2>3
    <3>2. m_endPoint[t][f] \in DOMAIN demux
      BY <2>3, <3>1 DEF OwnInv, Owned
    <3>3. \A g \in Families : m_endPoint[s][g] # m_endPoint[t][f]
      BY <2>3, <3>1 DEF OwnInv, Owned
    <3> QED BY <2>2, <3>1, <3>2, <3>3
  <2> QED BY <2>3, OpenKept
<1> QED BY <1>1, <1>2 DEF Close, Refuse, bindVars

LEMMA DoSendToOpens ==
  ASSUME OwnInv, OpenInv, NEW s \in Sockets, NEW p, NEW d, DoSendTo(s, p, d),
         FlagsGrow
  PROVE  OpenInv'
<1> DEFINE f == PathFamily(d)
<1>1. f \in Families
  BY DEF PathFamily, Families
<1>2. CASE UNCHANGED <<demux, m_endPoint>>
  BY <1>2, OpenKept
<1>3. CASE ~(UNCHANGED <<demux, m_endPoint>>)
  <2>1. PICK k \in HeldOrBound(s, f) :
          k # m_endPoint[s][f] /\ TakeEndPoint(s, f, k)
    BY <1>3 DEF DoSendTo, Stop, bindVars
  <2>2. k \in Allocate(f, AnyAddr, 0)
    BY <2>1 DEF HeldOrBound
  <2> QED BY <1>1, <2>1, <2>2, TakeOpens
<1> QED BY <1>2, <1>3

LEMMA DeleteOpens ==
  ASSUME OwnInv, OpenInv, NEW k \in DOMAIN demux, DeleteEndPoint(k), FlagsGrow
  PROVE  OpenInv'
<1>1. /\ \A j \in DOMAIN demux \ {k} : demux'[j] = demux[j]
      /\ \A t \in Sockets, f \in Families :
           m_endPoint'[t][f] = IF f = k.family /\ t = demux[k].destroyCallback
                               THEN NoEndPoint
                               ELSE m_endPoint[t][f]
  BY DEF DeleteEndPoint, Destroyed, Without
<1>2. ASSUME NEW t \in Sockets, NEW f \in Families,
             m_endPoint'[t][f] # NoEndPoint
      PROVE  /\ m_endPoint'[t][f] = m_endPoint[t][f]
             /\ demux'[m_endPoint[t][f]] = demux[m_endPoint[t][f]]
  <2>1. m_endPoint'[t][f] = m_endPoint[t][f]
    BY <1>1, <1>2
  <2>2. m_endPoint[t][f] \in DOMAIN demux \ {k}
    BY <1>1, <1>2, <2>1 DEF OwnInv, Owned
  <2> QED BY <1>1, <2>1, <2>2
<1> QED BY <1>2, OpenKept

LEMMA HookedStates ==
  ASSUME NEW table, NEW new, \A k \in DOMAIN table : table[k] \in EndPointStates,
         NEW s \in Sockets, NEW mine
  PROVE  LET after == Hooked(With(table, new), s, mine) IN
         \A k \in DOMAIN after : after[k] \in EndPointStates
<1> DEFINE wide == With(table, new)
           after == Hooked(wide, s, mine)
<1>1. \A k \in DOMAIN wide : wide[k] \in EndPointStates
  BY FreshState DEF With
<1> HIDE DEF wide
<1>2. /\ DOMAIN after = DOMAIN wide
      /\ \A k \in DOMAIN wide : after[k] = wide[k] \/ after[k] = Hook(wide[k], s)
  BY DEF Hooked
<1> HIDE DEF after
<1>3. \A k \in DOMAIN after : after[k] \in EndPointStates
  BY <1>1, <1>2, HookedState
<1> QED BY <1>3 DEF after, wide

LEMMA DeviceOpens ==
  ASSUME OwnInv, OpenInv, NEW s \in Sockets, BindToNetDevice(s), FlagsInv,
         FlagsGrow
  PROVE  OpenInv'
<1>1. CASE UNCHANGED <<demux, m_endPoint>>
  BY <1>1, OpenKept
<1>2. CASE ~(UNCHANGED <<demux, m_endPoint>>)
  <2>1. "v4" \in Families /\ "v6" \in Families
    BY DEF Families
  <2>2. PICK k4 \in HeldOrBound(s, "v4"), k6 \in HeldOrBound(s, "v6") :
          LET both == [Rebound(s, "v4", k4) EXCEPT !["v6"] = k6]
              table == Hooked(With(demux, {k4, k6}), s, both)
          IN  /\ k4 # NoEndPoint /\ k6 # NoEndPoint
              /\ m_boundnetdevice' = [m_boundnetdevice EXCEPT ![s] = TRUE]
              /\ m_endPoint' = [m_endPoint EXCEPT ![s] = both]
              /\ demux' = [k \in DOMAIN table |->
                             IF k \in {k4, k6}
                             THEN [table[k] EXCEPT !.device = TRUE]
                             ELSE table[k]]
    BY <1>2 DEF BindToNetDevice, Silent, Stop, bindVars
  <2> DEFINE new == {k4, k6} \ DOMAIN demux
             both == [Rebound(s, "v4", k4) EXCEPT !["v6"] = k6]
             table == Hooked(With(demux, {k4, k6}), s, both)
  <2>3. m_endPoint \in [Sockets -> [Families -> EndPoints \cup {NoEndPoint}]]
    BY DEF OwnInv, Owned
  <2>4. ASSUME NEW f \in Families, NEW k \in HeldOrBound(s, f), k # NoEndPoint
        PROVE  k = m_endPoint[s][f] \/ k \notin DOMAIN demux
    <3>1. CASE m_endPoint[s][f] # NoEndPoint
      BY <3>1, <2>4 DEF HeldOrBound
    <3>2. CASE m_endPoint[s][f] = NoEndPoint
      <4>1. k \in Allocate(f, AnyAddr, 0)
        BY <3>2, <2>4 DEF HeldOrBound
      <4> QED BY <4>1, <2>4, AllocateFacts
    <3> QED BY <3>1, <3>2
  <2>5. With(demux, {k4, k6}) = With(demux, new)
    BY DEF With
  <2>6. DOMAIN table = DOMAIN demux \cup ({k4, k6} \ {NoEndPoint})
    BY DEF Hooked, With
  <2>7. /\ \A k \in DOMAIN demux :
             /\ table[k].rxEnabled = demux[k].rxEnabled
             /\ table[k].device = demux[k].device
        /\ \A k \in {k4, k6} \ DOMAIN demux : table[k].rxEnabled
    <3>1. \A k \in DOMAIN demux : demux[k] \in EndPointStates
      BY DEF OwnInv, Owned
    <3>2. k4 # NoEndPoint /\ k6 # NoEndPoint
      BY <2>2
    <3> HIDE DEF both
    <3>3. table = Hooked(With(demux, new), s, both)
      BY <2>5
    <3>4. new \cap DOMAIN demux = {}
      OBVIOUS
    <3> HIDE DEF table, new
    <3>5. /\ \A k \in DOMAIN demux :
                /\ table[k].rxEnabled = demux[k].rxEnabled
                /\ table[k].device = demux[k].device
          /\ \A k \in new \ {NoEndPoint} : table[k].rxEnabled
      BY <3>1, <3>3, <3>4, HookedFlags
    <3> QED BY <3>2, <3>5 DEF new
  <2>8. /\ m_boundnetdevice' = [m_boundnetdevice EXCEPT ![s] = TRUE]
        /\ m_endPoint' = [m_endPoint EXCEPT ![s] = both]
        /\ \A k \in DOMAIN table :
             demux'[k] = IF k \in {k4, k6}
                         THEN [table[k] EXCEPT !.device = TRUE]
                         ELSE table[k]
    BY <2>2
  <2>9. ASSUME NEW k \in DOMAIN table
        PROVE  demux'[k].rxEnabled = table[k].rxEnabled
    <3>1. \A j \in DOMAIN demux : demux[j] \in EndPointStates
      BY DEF OwnInv, Owned
    <3> HIDE DEF both
    <3>2. table[k] \in EndPointStates
      BY <3>1, HookedStates
    <3> QED BY <2>8, <3>2 DEF EndPointStates
  <2>10. both = [f \in Families |-> IF f = "v4" THEN k4 ELSE k6]
    BY <2>3 DEF Rebound, Families
  <2> HIDE DEF table, both
  <2>11. ASSUME NEW t \in Sockets, NEW f \in Families,
                m_endPoint'[t][f] # NoEndPoint
         PROVE  LET k == m_endPoint'[t][f] IN
                \/ /\ k = m_endPoint[t][f]
                   /\ demux'[k].rxEnabled = demux[k].rxEnabled
                   /\ demux'[k].device = demux[k].device
                \/ /\ demux'[k].rxEnabled \/ m_shutdownRecv'[t]
                   /\ demux'[k].device => m_boundnetdevice'[t]
    <3> DEFINE k == m_endPoint'[t][f]
    <3>1. CASE t = s
      <4>1. k \in {k4, k6} /\ k = both[f]
        BY <2>3, <2>8, <2>10, <3>1 DEF Families
      <4>2. k \in HeldOrBound(s, f)
        BY <2>10, <4>1 DEF Families
      <4>3. m_boundnetdevice'[t]
        BY <2>8, <3>1 DEF FlagsInv
      <4>4. demux'[k].rxEnabled = table[k].rxEnabled
        BY <2>2, <2>6, <2>9, <4>1
      <4>5. CASE k \in DOMAIN demux
        <5>1. k = m_endPoint[s][f]
          BY <2>4, <2>11, <4>2, <4>5
        <5>2. demux[k].rxEnabled \/ m_shutdownRecv'[s]
          BY <2>11, <5>1 DEF OpenInv, FlagsGrow
        <5> QED BY <2>7, <3>1, <4>3, <4>4, <4>5, <5>2
      <4>6. CASE k \notin DOMAIN demux
        BY <2>7, <4>1, <4>3, <4>4, <4>6
      <4> QED BY <4>5, <4>6
    <3>2. CASE t # s
      <4>1. k = m_endPoint[t][f]
        BY <2>3, <2>8, <3>2
      <4>2. k \in DOMAIN demux /\ demux[k].rxCallback = t
        BY <2>11, <4>1 DEF OwnInv, Owned
      <4>3. ASSUME NEW g \in Families, k = m_endPoint[s][g]
            PROVE  FALSE
        BY <2>11, <3>2, <4>2, <4>3 DEF OwnInv, Owned
      <4>4. k \notin {k4, k6}
        BY <2>1, <2>2, <2>4, <4>2, <4>3
      <4>5. demux'[k] = table[k]
        BY <2>6, <2>8, <4>2, <4>4
      <4> QED BY <2>7, <4>1, <4>2, <4>5
    <3> QED BY <3>1, <3>2
  <2> QED BY <2>11, OpenKept
<1> QED BY <1>1, <1>2

LEMMA OpenStep ==
  ASSUME OwnInv, FlagsInv, OpenInv, [Next]_vars
  PROVE  OpenInv'
<1>1. FlagsGrow
  BY FlagsStep
<1>2. CASE UNCHANGED <<demux, m_endPoint>>
  BY <1>1, <1>2, OpenKept
<1>3. ASSUME NEW s \in Sockets, NEW f \in Families, Bind(s, f)
      PROVE  OpenInv'
  <2>1. PICK k \in Allocate(f, AnyAddr, 0) : TakeEndPoint(s, f, k)
    BY <1>3 DEF Bind
  <2> QED BY <1>1, <2>1, TakeOpens
<1>4. ASSUME NEW s \in Sockets, NEW b \in Binds,
             BindAddress(s, b.family, b.addr, b.port)
      PROVE  OpenInv'
  BY <1>1, <1>4, BindsFacts, BindAddressOpens
<1>5. ASSUME NEW s \in Sockets,
             BindToNetDevice(s) \/ ShutdownRecv(s) \/ Close(s)
      PROVE  OpenInv'
  BY <1>1, <1>5, DeviceOpens, ShutdownRecvOpens, CloseOpens
<1>6. ASSUME NEW s \in Sockets, NEW p \in Packets, Send(s, p)
      PROVE  OpenInv'
  BY <1>1, <1>2, <1>6, DoSendToOpens DEF Send, Refuse, bindVars
<1>7. ASSUME NEW s \in Sockets, NEW p \in Packets, NEW d \in Dests,
             SendTo(s, p, d)
      PROVE  OpenInv'
  BY <1>1, <1>2, <1>7, DoSendToOpens DEF SendTo, bindVars
<1>8. ASSUME NEW s \in Sockets,
             \/ BindInvalid(s) \/ ShutdownSend(s) \/ Listen(s) \/ GetPeerName(s)
             \/ \E d \in Dests : Connect(s, d)
             \/ \E discover \in BOOLEAN : SetMtuDiscover(s, discover)
             \/ \E n \in ReadSizes : Recv(s, n)
             \/ \E n \in BufSizes : SetRcvBufSize(s, n)
      PROVE  UNCHANGED <<demux, m_endPoint>>
  BY <1>8 DEF BindInvalid, ShutdownSend, Listen, GetPeerName, Connect,
     SetMtuDiscover, Recv, SetRcvBufSize, Refuse, Receiving, bindVars
<1>9. ASSUME \/ \E p \in Packets : NewPacket(p)
             \/ \E k \in DOMAIN demux, d \in Datagrams : EndPointForwardUp(k, d)
             \/ DoDispose \/ EndDispose
             \/ UNCHANGED vars
      PROVE  UNCHANGED <<demux, m_endPoint>>
  BY <1>9 DEF NewPacket, EndPointForwardUp, Receiving, DoDispose, EndDispose,
     Stop, bindVars, vars
<1>10. ASSUME NEW k \in DOMAIN demux, DeleteEndPoint(k)
       PROVE  OpenInv'
  BY <1>1, <1>10, DeleteOpens
<1> QED
  BY <1>2, <1>3, <1>4, <1>5, <1>6, <1>7, <1>8, <1>9, <1>10 DEF Next, SocketCall

(* The lookup finds something if an open end point on the port listens to  *)
(* the address.                                                            *)
LEMMA LookupMeets ==
  ASSUME NEW d, NEW k \in DOMAIN demux,
         k.family = d.family, k.port = d.port, k.addr \in {d.dst, AnyAddr},
         demux[k].rxEnabled, ~demux[k].device
  PROVE  Lookup(d) # {}
<1> DEFINE candidates == {j \in DOMAIN demux :
                            /\ j.family = d.family /\ j.port = d.port
                            /\ demux[j].rxEnabled
                            /\ demux[j].device => d.interface = "device"}
           exact == {j \in candidates : j.addr = d.dst}
           wildcard == {j \in candidates : j.addr = AnyAddr}
<1>1. k \in candidates /\ (k \in exact \/ k \in wildcard)
  OBVIOUS
<1>2. Lookup(d) = IF d.dst = Group /\ d.family = "v4" THEN candidates
                  ELSE IF exact # {} THEN exact
                  ELSE wildcard
  BY DEF Lookup
<1> HIDE DEF candidates, exact, wildcard
<1> QED BY <1>1, <1>2

LEMMA ReceiveAnswers ==
  ASSUME OwnInv, OpenInv, NEW d \in Datagrams, Receive(d)
  PROVE  OpenPortsAnswer'
<1> SUFFICES ASSUME rxStatus' \in {"checksum", "unreachable"}, d.checksumOk,
                    NEW s \in Sockets, NEW f \in Families,
                    m_endPoint[s][f] # NoEndPoint,
                    m_endPoint[s][f].port = d.port,
                    m_endPoint[s][f].addr \in {d.dst, AnyAddr},
                    f = d.family \/ (d.family = "v4" /\ "v6" \in Stacks),
                    ~m_shutdownRecv[s], ~m_boundnetdevice[s]
             PROVE  FALSE
  <2>1. arrival' = d /\ UNCHANGED <<m_endPoint, m_shutdownRecv, m_boundnetdevice>>
    BY DEF Receive, vars, rxVars, bindVars
  <2> QED BY <2>1 DEF OpenPortsAnswer
<1> DEFINE k == m_endPoint[s][f]
           shown == IF FallsBack(d) THEN AsMapped(d) ELSE d
<1>1. /\ k \in DOMAIN demux /\ k.family = f
      /\ demux[k].rxEnabled /\ ~demux[k].device
  BY DEF OwnInv, Owned, OpenInv
<1>2. /\ AsMapped(d).family = "v6" /\ AsMapped(d).mapped
      /\ AsMapped(d).port = d.port /\ AsMapped(d).dst = d.dst
  BY ArrivalsAssumption DEF AsMapped
<1>3. ~Corrupt(d) /\ ~Corrupt(shown)
  BY <1>2 DEF Corrupt
<1>4. Lookup(shown) # {}
  <2>1. CASE f = d.family
    <3>1. Lookup(d) # {}
      BY <1>1, <2>1, LookupMeets
    <3> QED BY <3>1 DEF FallsBack
  <2>2. CASE f # d.family
    <3>1. f = "v6" /\ d.family = "v4" /\ "v6" \in Stacks
      BY <2>2 DEF Families
    <3>2. Lookup(AsMapped(d)) # {}
      BY <1>1, <1>2, <3>1, LookupMeets
    <3>3. CASE Lookup(d) = {}
      BY <3>1, <3>2, <3>3 DEF FallsBack
    <3>4. CASE Lookup(d) # {}
      BY <3>4 DEF FallsBack
    <3> QED BY <3>3, <3>4
  <2> QED BY <2>1, <2>2
<1> QED BY <1>3, <1>4 DEF Receive

LEMMA AnswerStep ==
  ASSUME OwnInv, OpenInv, OpenPortsAnswer, [NodeNext]_nodeVars
  PROVE  OpenPortsAnswer'
<1>1. CASE UNCHANGED nodeVars
  BY <1>1 DEF OpenPortsAnswer, nodeVars, vars, rxVars, bindVars, loopVars
<1>2. CASE rxStatus' = "none"
  BY <1>2 DEF OpenPortsAnswer
<1>3. ASSUME NEW d \in Datagrams, Receive(d)
      PROVE  OpenPortsAnswer'
  BY <1>3, ReceiveAnswers
<1>4. ASSUME HandlerStep \/ ApplicationStep \/ DisposeOfProtocol
             \/ \E x \in inFlight : ReceiveIcmp(x)
      PROVE  rxStatus' = "none"
  BY <1>4 DEF HandlerStep, Destruct, ForwardNext, CallbackReturn, DisposeStep,
     ApplicationStep, CreateSocket, Release, ApplicationCall, DisposeOfProtocol,
     ReceiveIcmp, Quiet
<1> QED BY <1>1, <1>2, <1>3, <1>4 DEF NodeNext

(* Whatever was bound, shut, closed or tied to a device before, and from   *)
(* inside which callback, RX_ENDPOINT_UNREACH is never said of a port that *)
(* an open socket answers for, the fallback to the IPv6 end points         *)
(* included (rudp-l4-protocol.cc:332-360, 386-402).                        *)
THEOREM OpenPortsAlwaysAnswer == NodeSpec => []OpenPortsAnswer
<1>1. OwnInv /\ [Next]_vars => OwnInv'
  BY OwnInvStep
<1>2. FlagsInv /\ [Next]_vars => FlagsInv'
  BY FlagsStep
<1>3. OwnInv /\ FlagsInv /\ OpenInv /\ [Next]_vars => OpenInv'
  BY OpenStep
<1>4. OwnInv /\ OpenInv /\ OpenPortsAnswer /\ [NodeNext]_nodeVars
        => OpenPortsAnswer'
  BY AnswerStep
<1>5. Init => FlagsInv /\ OpenInv
  BY DEF Init, Rx!Init, FlagsInv, OpenInv
<1>6. NodeInit => OpenPortsAnswer
  BY DEF NodeInit, OpenPortsAnswer
<1> QED
  BY <1>1, <1>2, <1>3, <1>4, <1>5, <1>6, NodeImplementsSockets, OwnInvInit, PTL
     DEF NodeSpec, Spec

-------------------------------------------------------------------------------
(***************************************************************************)
(* Closing a socket in its own callback.                                   *)
(***************************************************************************)
(* A call on s leaves the pointers of the others alone, points s at what   *)
(* it held, at nothing or at what was just allocated, and deletes nothing  *)
(* but what s held.                                                        *)
TouchesOwn(s) ==
  /\ \A t \in Sockets \ {s} : m_endPoint'[t] = m_endPoint[t]
  /\ \A f \in Families : \/ m_endPoint'[s][f] = m_endPoint[s][f]
                         \/ m_endPoint'[s][f] \notin DOMAIN demux
  /\ \A k \in DOMAIN demux \ DOMAIN demux' :
       \E f \in Families : m_endPoint[s][f] = k

LEMMA TakeTouchesOwn ==
  ASSUME OwnInv, NEW s \in Sockets, NEW f \in Families,
         NEW a \in LocalAddrs \cup {AnyAddr}, NEW port \in Ports \cup {0},
         NEW k \in Allocate(f, a, port), TakeEndPoint(s, f, k)
  PROVE  TouchesOwn(s)
<1>1. m_endPoint \in [Sockets -> [Families -> EndPoints \cup {NoEndPoint}]]
  BY DEF OwnInv, Owned
<1>2. m_endPoint' = [m_endPoint EXCEPT ![s] = [m_endPoint[s] EXCEPT ![f] = k]]
  BY DEF TakeEndPoint, Rebound
<1>3. DOMAIN demux' = DOMAIN demux \cup ({k} \ {NoEndPoint})
  BY DEF TakeEndPoint, Hooked, With
<1>4. k \notin DOMAIN demux
  <2>1. CASE k = NoEndPoint
    BY <2>1, EndPointsAssumption DEF OwnInv, Owned
  <2>2. CASE k # NoEndPoint
    BY <2>2, AllocateFacts
  <2> QED BY <2>1, <2>2
<1> QED BY <1>1, <1>2, <1>3, <1>4 DEF TouchesOwn

LEMMA BindAddressTouchesOwn ==
  ASSUME OwnInv, NEW s \in Sockets, NEW f \in Families,
         NEW a \in LocalAddrs \cup {AnyAddr}, NEW port \in Ports \cup {0},
         BindAddress(s, f, a, port)
  PROVE  TouchesOwn(s)
<1>1. PICK k \in Allocate(f, a, port) :
        \/ /\ m_endPoint' = [m_endPoint EXCEPT ![s] = Rebound(s, f, NoEndPoint)]
           /\ UNCHANGED demux
        \/ TakeEndPoint(s, f, k)
  BY DEF BindAddress
<1>2. CASE /\ m_endPoint' = [m_endPoint EXCEPT ![s] = Rebound(s, f, NoEndPoint)]
           /\ UNCHANGED demux
  <2>1. m_endPoint \in [Sockets -> [Families -> EndPoints \cup {NoEndPoint}]]
    BY DEF OwnInv, Owned
  <2>2. NoEndPoint \notin DOMAIN demux
    BY EndPointsAssumption DEF OwnInv, Owned
  <2> QED BY <1>2, <2>1, <2>2 DEF TouchesOwn, Rebound
<1> QED BY <1>1, <1>2, TakeTouchesOwn

LEMMA DeviceTouchesOwn ==
  ASSUME OwnInv, NEW s \in Sockets, BindToNetDevice(s)
  PROVE  TouchesOwn(s)
<1>1. CASE UNCHANGED <<demux, m_endPoint>>
  BY <1>1 DEF TouchesOwn
<1>2. CASE ~(UNCHANGED <<demux, m_endPoint>>)
  <2>1. "v4" \in Families /\ "v6" \in Families
    BY DEF Families
  <2>2. m_endPoint \in [Sockets -> [Families -> EndPoints \cup {NoEndPoint}]]
    BY DEF OwnInv, Owned
  <2>3. PICK k4 \in HeldOrBound(s, "v4"), k6 \in HeldOrBound(s, "v6") :
          /\ k4 # NoEndPoint /\ k6 # NoEndPoint
          /\ m_endPoint' =
               [m_endPoint EXCEPT
                  ![s] = [[m_endPoint[s] EXCEPT !["v4"] = k4] EXCEPT !["v6"] = k6]]
          /\ DOMAIN demux' = DOMAIN demux \cup ({k4, k6} \ {NoEndPoint})
    BY <1>2 DEF BindToNetDevice, Silent, Stop, bindVars, Rebound, Hooked, With
  <2>4. ASSUME NEW f \in Families, NEW k \in HeldOrBound(s, f), k # NoEndPoint
        PROVE  k = m_endPoint[s][f] \/ k \notin DOMAIN demux
    <3>1. CASE m_endPoint[s][f] # NoEndPoint
      BY <3>1, <2>4 DEF HeldOrBound
    <3>2. CASE m_endPoint[s][f] = NoEndPoint
      <4>1. k \in Allocate(f, AnyAddr, 0)
        BY <3>2, <2>4 DEF HeldOrBound
      <4> QED BY <4>1, <2>4, AllocateFacts
    <3> QED BY <3>1, <3>2
  <2>5. ASSUME NEW f \in Families
        PROVE  \/ m_endPoint'[s][f] = m_endPoint[s][f]
               \/ m_endPoint'[s][f] \notin DOMAIN demux
    BY <2>1, <2>2, <2>3, <2>4 DEF Families
  <2>6. \A t \in Sockets \ {s} : m_endPoint'[t] = m_endPoint[t]
    BY <2>2, <2>3
  <2> QED BY <2>3, <2>5, <2>6 DEF TouchesOwn
<1> QED BY <1>1, <1>2

LEMMA CloseTouchesOwn ==
  ASSUME OwnInv, NEW s \in Sockets, Close(s)
  PROVE  TouchesOwn(s)
<1>1. CASE UNCHANGED <<demux, m_endPoint>>
  BY <1>1 DEF TouchesOwn
<1>2. CASE DeallocateEndPoint(s)
  <2>1. m_endPoint \in [Sockets -> [Families -> EndPoints \cup {NoEndPoint}]]
    BY DEF OwnInv, Owned
  <2>2. NoEndPoint \notin DOMAIN demux
    BY EndPointsAssumption DEF OwnInv, Owned
  <2>3. /\ m_endPoint' = [m_endPoint EXCEPT ![s] = [f \in Families |-> NoEndPoint]]
        /\ DOMAIN demux' = DOMAIN demux \ {m_endPoint[s][f] : f \in Families}
    BY <1>2 DEF DeallocateEndPoint, Without
  <2> QED BY <2>1, <2>2, <2>3 DEF TouchesOwn
<1> QED BY <1>1, <1>2 DEF Close, Refuse, bindVars

LEMMA DoSendToTouchesOwn ==
  ASSUME OwnInv, NEW s \in Sockets, NEW p, NEW d, DoSendTo(s, p, d)
  PROVE  TouchesOwn(s)
<1> DEFINE f == PathFamily(d)
<1>1. f \in Families
  BY DEF PathFamily, Families
<1>2. CASE UNCHANGED <<demux, m_endPoint>>
  BY <1>2 DEF TouchesOwn
<1>3. CASE ~(UNCHANGED <<demux, m_endPoint>>)
  <2>1. PICK k \in HeldOrBound(s, f) :
          k # m_endPoint[s][f] /\ TakeEndPoint(s, f, k)
    BY <1>3 DEF DoSendTo, Stop, bindVars
  <2>2. k \in Allocate(f, AnyAddr, 0)
    BY <2>1 DEF HeldOrBound
  <2> QED BY <1>1, <2>1, <2>2, TakeTouchesOwn
<1> QED BY <1>2, <1>3

LEMMA SocketCallTouchesOwn ==
  ASSUME OwnInv, NEW s \in Sockets, SocketCall(s)
  PROVE  TouchesOwn(s)
<1>1. CASE UNCHANGED <<demux, m_endPoint>>
  BY <1>1 DEF TouchesOwn
<1>2. ASSUME NEW f \in Families, Bind(s, f)
      PROVE  TouchesOwn(s)
  <2>1. PICK k \in Allocate(f, AnyAddr, 0) : TakeEndPoint(s, f, k)
    BY <1>2 DEF Bind
  <2> QED BY <2>1, TakeTouchesOwn
<1>3. ASSUME NEW b \in Binds, BindAddress(s, b.family, b.addr, b.port)
      PROVE  TouchesOwn(s)
  BY <1>3, BindsFacts, BindAddressTouchesOwn
<1>4. ASSUME NEW p \in Packets, Send(s, p) \/ \E d \in Dests : SendTo(s, p, d)
      PROVE  TouchesOwn(s)
  BY <1>1, <1>4, DoSendToTouchesOwn DEF Send, SendTo, Refuse, bindVars
<1>5. ASSUME \/ BindInvalid(s) \/ ShutdownSend(s) \/ Listen(s) \/ GetPeerName(s)
             \/ \E d \in Dests : Connect(s, d)
             \/ \E discover \in BOOLEAN : SetMtuDiscover(s, discover)
             \/ \E n \in ReadSizes : Recv(s, n)
             \/ \E n \in BufSizes : SetRcvBufSize(s, n)
      PROVE  UNCHANGED <<demux, m_endPoint>>
  BY <1>5 DEF BindInvalid, ShutdownSend, Listen, GetPeerName, Connect,
     SetMtuDiscover, Recv, SetRcvBufSize, Refuse, Receiving, bindVars
<1>6. ASSUME ShutdownRecv(s)
      PROVE  TouchesOwn(s)
  BY <1>6 DEF ShutdownRecv, TouchesOwn
<1> QED
  BY <1>1, <1>2, <1>3, <1>4, <1>5, <1>6, DeviceTouchesOwn, CloseTouchesOwn
     DEF SocketCall

(* What the loop has still to come to is of one family, and none of it is  *)
(* an end point of the socket whose callback runs.                         *)
CallbackInv ==
  /\ \A j, k \in todo : j.family = k.family
  /\ callback # NoSocket =>
       /\ callback \in Sockets
       /\ \A f \in Families : m_endPoint[callback][f] \notin todo \ freed

LEMMA ForwardNextCallback ==
  ASSUME OwnInv, NoOrphans, LoopInv, CallbackInv, NEW k \in todo, ForwardNext(k)
  PROVE  CallbackInv'
<1>1. /\ todo' = todo \ {k} /\ freed' = freed /\ m_endPoint' = m_endPoint
      /\ \/ callback' = NoSocket
         \/ k \notin freed /\ callback' = demux[k].rxCallback
  BY DEF ForwardNext, Remaining, EndPointForwardUp, Receiving, vars, bindVars
<1>2. CASE callback' = NoSocket
  BY <1>1, <1>2 DEF CallbackInv
<1>3. CASE k \notin freed /\ callback' = demux[k].rxCallback
  <2>1. k \in DOMAIN demux
    BY <1>3 DEF LoopInv
  <2>2. k # NoEndPoint /\ k.family \in Families
    BY <2>1, EndPointsAssumption DEF OwnInv, Owned, EndPoints
  <2>3. PICK s \in Sockets : m_endPoint[s][k.family] = k
    BY <2>1 DEF NoOrphans
  <2>4. callback' = s
    BY <1>3, <2>2, <2>3 DEF OwnInv, Owned
  <2>5. ASSUME NEW f \in Families, m_endPoint[s][f] \in todo \ freed
        PROVE  m_endPoint[s][f] = k
    <3>1. m_endPoint[s][f] \in DOMAIN demux
      BY <2>5 DEF LoopInv
    <3>2. m_endPoint[s][f] # NoEndPoint
      BY <3>1, EndPointsAssumption DEF OwnInv, Owned
    <3>3. m_endPoint[s][f].family = f
      BY <3>2 DEF OwnInv, Owned
    <3> QED BY <2>3, <2>5, <3>3 DEF CallbackInv
  <2> QED BY <1>1, <2>4, <2>5 DEF CallbackInv
<1> QED BY <1>1, <1>2, <1>3

LEMMA ApplicationCallCallback ==
  ASSUME OwnInv, LoopInv, CallbackInv, NEW s \in Sockets, ApplicationCall(s)
  PROVE  CallbackInv'
<1>1. TouchesOwn(s)
  BY SocketCallTouchesOwn DEF ApplicationCall
<1>2. UNCHANGED <<todo, callback>> /\ freed \subseteq freed'
  BY DEF ApplicationCall
<1>3. ASSUME callback # NoSocket, NEW f \in Families
      PROVE  m_endPoint'[callback][f] \notin todo' \ freed'
  <2>1. \/ m_endPoint'[callback][f] = m_endPoint[callback][f]
        \/ m_endPoint'[callback][f] \notin DOMAIN demux
    BY <1>1, <1>3 DEF TouchesOwn, CallbackInv
  <2> QED BY <1>2, <1>3, <2>1 DEF LoopInv, CallbackInv
<1> QED BY <1>2, <1>3 DEF CallbackInv

(* Steps that leave the pointers alone, and steps between events.          *)
LEMMA CallbackGoesOn ==
  ASSUME CallbackInv, ReceiveGoesOn, UNCHANGED m_endPoint \/ callback = NoSocket
  PROVE  CallbackInv'
<1>1. todo' = todo /\ callback' = callback
  BY DEF ReceiveGoesOn
<1>2. callback # NoSocket => freed' = freed /\ m_endPoint' = m_endPoint
  BY DEF ReceiveGoesOn, Kept, Idle
<1> QED BY <1>1, <1>2 DEF CallbackInv

LEMMA CallbackStep ==
  ASSUME OwnInv, NoOrphans, LoopInv, CallbackInv, [NodeNext]_nodeVars
  PROVE  CallbackInv'
<1>1. CASE UNCHANGED <<m_endPoint, todo, freed, callback>>
  BY <1>1 DEF CallbackInv
<1>2. ASSUME UNCHANGED nodeVars \/ \E s \in Sockets : Destruct(s)
      PROVE  UNCHANGED <<m_endPoint, todo, freed, callback>>
  BY <1>2 DEF nodeVars, Destruct, vars, bindVars, loopVars
<1>3. ASSUME CallbackReturn
      PROVE  CallbackInv'
  BY <1>3 DEF CallbackReturn, CallbackInv
<1>4. ASSUME DisposeStep
      PROVE  CallbackInv'
  BY <1>4 DEF DisposeStep, Idle, loopVars, CallbackInv
<1>5. ASSUME \/ \E s \in Sockets : CreateSocket(s) \/ Release(s)
             \/ \E p \in Packets : NewPacket(p) /\ ReceiveGoesOn
             \/ \E x \in inFlight : ReceiveIcmp(x)
             \/ DisposeOfProtocol
      PROVE  CallbackInv'
  BY <1>5, CallbackGoesOn DEF CreateSocket, Release, NewPacket, ReceiveIcmp,
     DisposeOfProtocol, DoDispose, vars, bindVars
<1>6. ASSUME NEW d \in Datagrams, Receive(d)
      PROVE  CallbackInv'
  <2>1. ASSUME NEW e, NEW j \in Lookup(e)
        PROVE  j.family = e.family
    BY <2>1 DEF Lookup
  <2>2. /\ callback' = NoSocket
        /\ todo' = {} \/ \E e : todo' = Lookup(e)
    BY <1>6 DEF Receive, Idle
  <2> QED BY <2>1, <2>2 DEF CallbackInv
<1> QED
  BY <1>1, <1>2, <1>3, <1>4, <1>5, <1>6, ForwardNextCallback,
     ApplicationCallCallback
     DEF NodeNext, HandlerStep, ApplicationStep

LEMMA OwnCloseStep ==
  ASSUME OwnInv, LoopInv, CallbackInv, [NodeNext]_nodeVars,
         callback # NoSocket, m_endPoint'[callback] # m_endPoint[callback]
  PROVE  freed' = freed
<1>1. ASSUME NEW s \in Sockets, ApplicationCall(s)
      PROVE  freed' = freed
  <2>1. TouchesOwn(s)
    BY <1>1, SocketCallTouchesOwn DEF ApplicationCall
  <2>2. s = callback
    BY <2>1 DEF TouchesOwn, CallbackInv
  <2>3. freed' = freed \cup (todo \cap (DOMAIN demux \ DOMAIN demux'))
    BY <1>1 DEF ApplicationCall
  <2>4. ASSUME NEW k \in DOMAIN demux \ DOMAIN demux'
        PROVE  k \notin todo \ freed
    BY <2>1, <2>2 DEF TouchesOwn, CallbackInv
  <2> QED BY <2>3, <2>4
<1>2. ASSUME \/ UNCHANGED nodeVars
             \/ \E s \in Sockets :
                  Destruct(s) \/ CreateSocket(s) \/ Release(s)
             \/ \E p \in Packets : NewPacket(p)
             \/ CallbackReturn
      PROVE  UNCHANGED m_endPoint
  BY <1>2 DEF nodeVars, Destruct, CreateSocket, Release, NewPacket,
     CallbackReturn, vars, bindVars
<1>3. ASSUME \/ \E k \in todo : ForwardNext(k)
             \/ \E d \in Datagrams : Receive(d)
             \/ \E x \in inFlight : ReceiveIcmp(x)
             \/ DisposeStep \/ DisposeOfProtocol
      PROVE  FALSE
  BY <1>3 DEF ForwardNext, Receive, ReceiveIcmp, DisposeStep, DisposeOfProtocol,
     Idle
<1> QED
  BY <1>1, <1>2, <1>3 DEF NodeNext, HandlerStep, ApplicationStep

(* In its own NotifyDataRecv an application may close the socket, and bind *)
(* it again, without a dangling pointer in Receive's loop: no end point    *)
(* still to come is deleted, however many sockets matched and whatever was *)
(* done to others in the callbacks before, if no bound socket is ever      *)
(* bound again (rudp-l4-protocol.cc:362-369, 403-407).                     *)
THEOREM OwnSocketCloses ==
  ASSUME Rebinds = {}
  PROVE  NodeSpec => OwnSocketMayBeClosed
<1>1. OwnInv /\ [Next]_vars => OwnInv'
  BY OwnInvStep
<1>2. OwnInv /\ NoOrphans /\ [Next]_vars => NoOrphans'
  BY OrphansStep
<1>3. LoopInv /\ [NodeNext]_nodeVars => LoopInv'
  BY LoopStep
<1>4. OwnInv /\ NoOrphans /\ LoopInv /\ CallbackInv /\ [NodeNext]_nodeVars
        => CallbackInv'
  BY CallbackStep
<1>5. NodeInit => NoOrphans /\ CallbackInv
  BY DEF NodeInit, Init, NoOrphans, CallbackInv
<1>6. OwnInv /\ LoopInv /\ CallbackInv /\ [NodeNext]_nodeVars
        => [callback # NoSocket /\ m_endPoint'[callback] # m_endPoint[callback]
              => freed' = freed]_nodeVars
  BY OwnCloseStep
<1>7. NodeInit => OwnInv
  BY OwnInvInit DEF NodeInit
<1> QED
  BY <1>1, <1>2, <1>3, <1>4, <1>5, <1>6, <1>7, LoopInit, NodeStepIsSocketStep, PTL
     DEF NodeSpec, OwnSocketMayBeClosed

-------------------------------------------------------------------------------
(***************************************************************************)
(* ICMP errors.                                                            *)
(***************************************************************************)
(* What the network reports on was sent by a socket.                       *)
InFlightInv == \A x \in inFlight : x.sock \in Sockets

LEMMA InFlightStep ==
  ASSUME OwnInv, LoopInv, SentBySender, InFlightInv, [NodeNext]_nodeVars
  PROVE  InFlightInv'
<1>1. CASE inFlight' \subseteq inFlight
  BY <1>1 DEF InFlightInv
<1>2. ASSUME NEW s \in Sockets, ApplicationCall(s)
      PROVE  InFlightInv'
  <2>1. SentBySender'
    BY SentStep, NodeStepIsSocketStep
  <2>2. \/ inFlight' = inFlight
        \/ sent' # NoDatagram /\ inFlight' = inFlight \cup {Quotable(sent')}
    BY <1>2 DEF ApplicationCall
  <2> QED BY <2>1, <2>2 DEF InFlightInv, SentBySender, Quotable
<1>3. ASSUME \/ \E s \in Sockets : Destruct(s) \/ CreateSocket(s) \/ Release(s)
             \/ \E k \in todo : ForwardNext(k)
             \/ \E d \in Datagrams : Receive(d)
             \/ \E x \in inFlight : ReceiveIcmp(x)
             \/ CallbackReturn \/ DisposeStep \/ DisposeOfProtocol
             \/ UNCHANGED nodeVars
      PROVE  inFlight' \subseteq inFlight
  BY <1>3 DEF Destruct, CreateSocket, Release, ForwardNext, Receive, ReceiveIcmp,
     CallbackReturn, DisposeStep, DisposeOfProtocol, nodeVars
<1> QED BY <1>1, <1>2, <1>3 DEF NodeNext, HandlerStep, ApplicationStep

LEMMA IcmpFinds ==
  ASSUME OwnInv, NoOrphans, InFlightInv, NEW x \in inFlight, ReceiveIcmp(x)
  PROVE  IcmpFindsSender'
<1> DEFINE onPort == {j \in DOMAIN demux : /\ j.family = x.endPoint.family
                                          /\ j.port = x.endPoint.port}
<1>1. UNCHANGED <<demux, m_endPoint>>
  BY DEF ReceiveIcmp, vars, bindVars
<1>2. CASE icmpTo' = NoReport
  BY <1>2 DEF IcmpFindsSender
<1>3. ASSUME NEW k \in SimpleLookup(x), ForwardIcmp(x, demux[k].rxCallback)
      PROVE  IcmpFindsSender'
  <2>1. icmpTo'.about = x /\ icmpTo'.to = demux[k].rxCallback
    BY <1>3 DEF ForwardIcmp
  <2>2. k \in onPort /\ k \in DOMAIN demux
    BY DEF SimpleLookup
  <2>3. k # NoEndPoint /\ k.family \in Families
    BY <2>2, EndPointsAssumption DEF OwnInv, Owned, EndPoints
  <2>4. PICK t \in Sockets : m_endPoint[t][k.family] = k
    BY <2>2 DEF NoOrphans
  <2>5. demux[k].rxCallback = t
    BY <2>3, <2>4 DEF OwnInv, Owned
  <2>6. \E j \in onPort : m_endPoint[icmpTo'.to][x.endPoint.family] = j
    BY <2>1, <2>2, <2>4, <2>5
  <2>7. ASSUME onPort = {x.endPoint},
               m_endPoint[x.sock][x.endPoint.family] = x.endPoint
        PROVE  icmpTo'.to = x.sock
    <3>1. k = x.endPoint
      BY <2>2, <2>7
    <3>2. x.sock \in Sockets
      BY DEF InFlightInv
    <3>3. demux[k].rxCallback = x.sock
      BY <2>3, <2>7, <3>1, <3>2 DEF OwnInv, Owned
    <3> QED BY <2>1, <3>3
  <2> QED BY <1>1, <2>1, <2>6, <2>7 DEF IcmpFindsSender
<1> QED BY <1>2, <1>3 DEF ReceiveIcmp

LEMMA IcmpStep ==
  ASSUME OwnInv, NoOrphans, InFlightInv, IcmpFindsSender, [NodeNext]_nodeVars
  PROVE  IcmpFindsSender'
<1>1. CASE UNCHANGED nodeVars
  BY <1>1 DEF IcmpFindsSender, nodeVars, vars, bindVars
<1>2. CASE icmpTo' = NoReport
  BY <1>2 DEF IcmpFindsSender
<1>3. ASSUME HandlerStep \/ ApplicationStep \/ DisposeOfProtocol
             \/ \E d \in Datagrams : Receive(d)
      PROVE  icmpTo' = NoReport
  BY <1>3 DEF HandlerStep, Destruct, ForwardNext, CallbackReturn, DisposeStep,
     ApplicationStep, CreateSocket, Release, ApplicationCall, DisposeOfProtocol,
     Receive, Quiet
<1> QED BY <1>1, <1>2, <1>3, IcmpFinds DEF NodeNext

(* Of an application that never binds a bound socket again, every ICMP     *)
(* error reaches a socket that has the port it names, and the one that     *)
(* sent the datagram while that socket alone has it, whatever was closed   *)
(* and bound between the two (rudp-l4-protocol.cc:259-311).                *)
THEOREM IcmpErrorsFindSender ==
  ASSUME Rebinds = {}
  PROVE  NodeSpec => []IcmpFindsSender
<1>1. OwnInv /\ [Next]_vars => OwnInv'
  BY OwnInvStep
<1>2. OwnInv /\ NoOrphans /\ [Next]_vars => NoOrphans'
  BY OrphansStep
<1>3. OwnInv /\ SentBySender /\ [Next]_vars => SentBySender'
  BY SentStep
<1>4. OwnInv /\ LoopInv /\ SentBySender /\ InFlightInv /\ [NodeNext]_nodeVars
        => InFlightInv'
  BY InFlightStep
<1>5. OwnInv /\ NoOrphans /\ InFlightInv /\ IcmpFindsSender
        /\ [NodeNext]_nodeVars => IcmpFindsSender'
  BY IcmpStep
<1>6. NodeInit => NoOrphans /\ InFlightInv /\ IcmpFindsSender
  BY DEF NodeInit, Init, NoOrphans, InFlightInv, IcmpFindsSender
<1>7. LoopInv /\ [NodeNext]_nodeVars => LoopInv' /\ [Next]_vars
  BY LoopStep, NodeStepIsSocketStep
<1>8. NodeInit => OwnInv /\ SentBySender
  BY OwnInvInit, SentInit DEF NodeInit
<1> QED
  BY <1>1, <1>2, <1>3, <1>4, <1>5, <1>6, <1>7, <1>8, LoopInit, PTL DEF NodeSpec

-------------------------------------------------------------------------------
(***************************************************************************)
(* What is queued.                                                         *)
(***************************************************************************)
(* End point k is one datagram d was sent to.                              *)
SentTo(k, d) ==
  /\ k.port = d.port /\ (k.addr \in {d.dst, AnyAddr} \/ d.dst = Group)
  /\ k.family = d.family \/ d.family = "v4"

(* So is what the loop has still to come to.                               *)
MatchInv == \A k \in todo \ freed : SentTo(k, arrival)

(* QueuedWasAddressed, in terms of SentTo.                                 *)
QueuedInv ==
  \A s \in Sockets : status = "running" /\ ~m_shutdownRecv[s] =>
    \A i \in DOMAIN m_deliveryQueue[s] : \E f \in Families :
      /\ m_endPoint[s][f] # NoEndPoint
      /\ SentTo(m_endPoint[s][f], m_deliveryQueue[s][i])

LEMMA QueuedInvMeans ==
  ASSUME OwnInv, QueuedInv
  PROVE  QueuedWasAddressed
<1> SUFFICES ASSUME NEW s \in Sockets, status = "running", ~m_shutdownRecv[s],
                    NEW i \in DOMAIN m_deliveryQueue[s]
             PROVE  \E f \in Families :
                      LET d == m_deliveryQueue[s][i]
                          k == m_endPoint[s][f]
                      IN  /\ k # NoEndPoint
                          /\ k.port = d.port
                          /\ k.addr \in {d.dst, AnyAddr} \/ d.dst = Group
                          /\ f = d.family \/ d.family = "v4"
  BY DEF QueuedWasAddressed
<1>1. PICK f \in Families :
        /\ m_endPoint[s][f] # NoEndPoint
        /\ SentTo(m_endPoint[s][f], m_deliveryQueue[s][i])
  BY DEF QueuedInv
<1>2. m_endPoint[s][f].family = f
  BY <1>1 DEF OwnInv, Owned
<1> QED BY <1>1, <1>2 DEF SentTo

(* The lookups find end points the datagram was sent to, the fallback to   *)
(* the IPv6 ones included.                                                 *)
LEMMA LookupMatches ==
  ASSUME NEW d \in Datagrams, NEW k \in Lookup(d) \cup Lookup(AsMapped(d)),
         FallsBack(d) \/ k \in Lookup(d)
  PROVE  SentTo(k, d)
<1>1. CASE k \in Lookup(d)
  BY <1>1 DEF Lookup, SentTo
<1>2. CASE FallsBack(d) /\ k \in Lookup(AsMapped(d))
  <2>1. AsMapped(d).port = d.port /\ AsMapped(d).dst = d.dst
    BY ArrivalsAssumption DEF AsMapped
  <2>2. k.port = AsMapped(d).port /\ (k.addr \in {AsMapped(d).dst, AnyAddr}
                                        \/ AsMapped(d).dst = Group)
    BY <1>2 DEF Lookup
  <2>3. d.family = "v4"
    BY <1>2 DEF FallsBack
  <2> QED BY <2>1, <2>2, <2>3 DEF SentTo
<1> QED BY <1>1, <1>2

LEMMA MatchStep ==
  ASSUME MatchInv, [NodeNext]_nodeVars
  PROVE  MatchInv'
<1>1. ASSUME todo' \ freed' \subseteq todo \ freed,
             todo' # {} => arrival' = arrival
      PROVE  MatchInv'
  BY <1>1 DEF MatchInv, SentTo
<1>2. ASSUME UNCHANGED <<arrival, todo>>, freed \subseteq freed'
      PROVE  MatchInv'
  BY <1>1, <1>2
<1>3. ASSUME ReceiveGoesOn
      PROVE  MatchInv'
  <2>1. todo' = todo /\ (todo # {} => arrival' = arrival /\ freed' = freed)
    BY <1>3 DEF ReceiveGoesOn, Kept, Idle
  <2> QED BY <1>1, <2>1
<1>4. ASSUME UNCHANGED nodeVars \/ DisposeStep \/ \E s \in Sockets : Destruct(s)
      PROVE  MatchInv'
  BY <1>2, <1>4 DEF nodeVars, DisposeStep, Destruct, loopVars
<1>5. ASSUME CallbackReturn \/ \E k \in todo : ForwardNext(k)
      PROVE  MatchInv'
  BY <1>1, <1>5 DEF CallbackReturn, ForwardNext, Remaining
<1>6. ASSUME NEW s \in Sockets, ApplicationCall(s)
      PROVE  MatchInv'
  <2>1. /\ todo' = todo /\ freed \subseteq freed'
        /\ todo # {} => arrival' = arrival
    BY <1>6 DEF ApplicationCall, Kept, Idle
  <2> QED BY <1>1, <2>1
<1>7. ASSUME NEW d \in Datagrams, Receive(d)
      PROVE  MatchInv'
  <2>1. /\ arrival' = d
        /\ \/ todo' = {}
           \/ todo' = IF FallsBack(d) THEN Lookup(AsMapped(d)) ELSE Lookup(d)
    BY <1>7 DEF Receive
  <2> SUFFICES ASSUME NEW k \in todo'
               PROVE  SentTo(k, d)
    BY <2>1 DEF MatchInv, SentTo
  <2> QED BY <2>1, LookupMatches
<1> QED
  BY <1>3, <1>4, <1>5, <1>6, <1>7 DEF NodeNext, HandlerStep, ApplicationStep,
     CreateSocket, Release, ReceiveIcmp, DisposeOfProtocol

(* A call takes datagrams off the head of a queue, or none.                *)
QueuesShrink ==
  \A t \in Sockets :
    /\ Len(m_deliveryQueue'[t]) <= Len(m_deliveryQueue[t])
    /\ \A i \in DOMAIN m_deliveryQueue'[t] :
         \E j \in DOMAIN m_deliveryQueue[t] :
           m_deliveryQueue'[t][i] = m_deliveryQueue[t][j]

LEMMA QueuesAlone ==
  ASSUME Rx!TypeOK, UNCHANGED m_deliveryQueue
  PROVE  QueuesShrink
<1>1. \A t \in Sockets : Len(m_deliveryQueue[t]) \in Nat
  BY DEF Rx!TypeOK
<1> QED BY <1>1 DEF QueuesShrink

LEMMA RecvShrinks ==
  ASSUME Rx!TypeOK, NEW s \in Sockets, NEW n, Rx!Recv(s, n)
  PROVE  QueuesShrink
<1>1. CASE UNCHANGED m_deliveryQueue
  BY <1>1, QueuesAlone
<1>2. CASE /\ m_deliveryQueue[s] # <<>>
           /\ m_deliveryQueue' = [m_deliveryQueue EXCEPT ![s] = Tail(@)]
  <2> DEFINE q == m_deliveryQueue[s]
  <2>1. q \in Seq(Datagrams) /\ q # <<>>
    BY <1>2 DEF Rx!TypeOK
  <2>2. ASSUME NEW i \in DOMAIN Tail(q)
        PROVE  i + 1 \in DOMAIN q /\ Tail(q)[i] = q[i + 1]
    BY <2>1, <2>2
  <2>3. m_deliveryQueue \in [Sockets -> Seq(Datagrams)]
    BY DEF Rx!TypeOK
  <2>4. m_deliveryQueue'[s] = Tail(q)
    BY <1>2, <2>3
  <2>5. \A t \in Sockets \ {s} : m_deliveryQueue'[t] = m_deliveryQueue[t]
    BY <1>2, <2>3
  <2> HIDE DEF q
  <2>6. \A i \in DOMAIN m_deliveryQueue'[s] :
          \E j \in DOMAIN q : m_deliveryQueue'[s][i] = q[j]
    BY <2>2, <2>4
  <2>7. Len(m_deliveryQueue'[s]) <= Len(q)
    BY <2>1, <2>4
  <2>8. \A t \in Sockets : Len(m_deliveryQueue[t]) \in Nat
    BY DEF Rx!TypeOK
  <2> QED BY <2>5, <2>6, <2>7, <2>8 DEF QueuesShrink, q
<1> QED BY <1>1, <1>2 DEF Rx!Recv

LEMMA CallsShrinkQueues ==
  ASSUME Rx!TypeOK, NEW s \in Sockets, SocketCall(s)
  PROVE  QueuesShrink
<1>1. CASE UNCHANGED m_deliveryQueue
  BY <1>1, QueuesAlone
<1>2. ASSUME NEW n \in ReadSizes, Recv(s, n)
      PROVE  QueuesShrink
  BY <1>2, RecvShrinks DEF Recv
<1>3. ASSUME NEW p \in Packets, NEW d, DoSendTo(s, p, d)
      PROVE  UNCHANGED m_deliveryQueue
  BY <1>3 DEF DoSendTo, Transmit, Rx!OtherCall, Silent, Stop, rxVars
<1>4. ASSUME NEW p \in Packets, Send(s, p) \/ \E d \in Dests : SendTo(s, p, d)
      PROVE  UNCHANGED m_deliveryQueue
  BY <1>3, <1>4 DEF Send, SendTo, Refuse, Rx!OtherCall, Silent, rxVars
<1>5. ASSUME \/ \E f \in Families : Bind(s, f)
             \/ \E b \in Binds : BindAddress(s, b.family, b.addr, b.port)
             \/ BindInvalid(s) \/ BindToNetDevice(s)
             \/ ShutdownSend(s) \/ ShutdownRecv(s) \/ Close(s)
             \/ Listen(s) \/ GetPeerName(s)
             \/ \E d \in Dests : Connect(s, d)
             \/ \E discover \in BOOLEAN : SetMtuDiscover(s, discover)
             \/ \E n \in BufSizes : SetRcvBufSize(s, n)
      PROVE  UNCHANGED m_deliveryQueue
  BY <1>5 DEF Bind, BindAddress, BindInvalid, BindToNetDevice, ShutdownSend,
     ShutdownRecv, Close, Listen, GetPeerName, Connect, SetMtuDiscover,
     SetRcvBufSize, Rx!SetRcvBufSize, Rx!StopReceiving, Rx!OtherCall, Refuse,
     Silent, Stop, rxVars
<1> QED BY <1>1, <1>2, <1>4, <1>5 DEF SocketCall

(* An arrival is queued at the one socket its end point delivers to.       *)
LEMMA ArrivalQueues ==
  ASSUME Rx!TypeOK, NEW k, demux[k].rxCallback \in Sockets, NEW d \in Datagrams,
         EndPointForwardUp(k, d), NEW t \in Sockets,
         NEW i \in DOMAIN m_deliveryQueue'[t]
  PROVE  \/ \E j \in DOMAIN m_deliveryQueue[t] :
              m_deliveryQueue'[t][i] = m_deliveryQueue[t][j]
         \/ t = demux[k].rxCallback /\ m_deliveryQueue'[t][i] = d
<1> DEFINE s == demux[k].rxCallback
<1>1. CASE UNCHANGED m_deliveryQueue
  BY <1>1
<1>2. CASE m_deliveryQueue' = [m_deliveryQueue EXCEPT ![s] = Append(@, d)]
  <2>1. m_deliveryQueue \in [Sockets -> Seq(Datagrams)]
    BY DEF Rx!TypeOK
  <2>2. CASE t # s
    BY <1>2, <2>1, <2>2
  <2>3. CASE t = s
    <3>1. m_deliveryQueue[t] \in Seq(Datagrams)
      BY <2>1
    <3>2. m_deliveryQueue'[t] = Append(m_deliveryQueue[t], d)
      BY <1>2, <2>1, <2>3
    <3> HIDE DEF s
    <3>3. i \in DOMAIN Append(m_deliveryQueue[t], d)
      BY <3>2
    <3>4. \/ /\ i \in DOMAIN m_deliveryQueue[t]
             /\ Append(m_deliveryQueue[t], d)[i] = m_deliveryQueue[t][i]
          \/ Append(m_deliveryQueue[t], d)[i] = d
      BY <3>1, <3>3
    <3> QED BY <2>3, <3>2, <3>4 DEF s
  <2> QED BY <2>2, <2>3
<1> QED BY <1>1, <1>2 DEF EndPointForwardUp, Rx!ForwardUp, Rx!vars

LEMMA StillRunning ==
  ASSUME [Next]_vars, status' = "running"
  PROVE  status = "running"
<1>1. CASE UNCHANGED vars
  BY <1>1 DEF vars
<1>2. ASSUME NEW s \in Sockets, SocketCall(s)
      PROVE  status = "running"
  BY <1>2 DEF SocketCall, Bind, BindAddress, BindInvalid, BindToNetDevice,
     ShutdownSend, ShutdownRecv, Close, Listen, GetPeerName, Connect, Send,
     SendTo, SetMtuDiscover, Recv, SetRcvBufSize, Calling
<1>3. ASSUME \/ \E p \in Packets : NewPacket(p)
             \/ \E k \in DOMAIN demux, d \in Datagrams : EndPointForwardUp(k, d)
             \/ DoDispose
             \/ \E k \in DOMAIN demux : DeleteEndPoint(k)
             \/ EndDispose
      PROVE  status = "running"
  BY <1>3 DEF NewPacket, EndPointForwardUp, DoDispose, DeleteEndPoint, EndDispose,
     Stop, Calling
<1> QED BY <1>1, <1>2, <1>3 DEF Next

LEMMA QueuedStep ==
  ASSUME Rebinds = {}, OwnInv, NoOrphans, Rx!TypeOK, FlagsInv, LoopInv, MatchInv,
         QueuedInv, [NodeNext]_nodeVars
  PROVE  QueuedInv'
<1>1. [Next]_vars
  BY NodeStepIsSocketStep
<1> SUFFICES ASSUME NEW t \in Sockets, status' = "running", ~m_shutdownRecv'[t],
                    NEW i \in DOMAIN m_deliveryQueue'[t]
             PROVE  \E f \in Families :
                      /\ m_endPoint'[t][f] # NoEndPoint
                      /\ SentTo(m_endPoint'[t][f], m_deliveryQueue'[t][i])
  BY DEF QueuedInv, SentTo
<1>2. status = "running" /\ ~m_shutdownRecv[t]
  BY <1>1, StillRunning, FlagsStep DEF FlagsGrow
<1>3. PointersKept(t)
  BY <1>1, OpenOrShutKeepPointers DEF NotClosing, FlagsInv
<1>4. ASSUME NEW j \in DOMAIN m_deliveryQueue[t],
             m_deliveryQueue'[t][i] = m_deliveryQueue[t][j]
      PROVE  \E f \in Families :
               /\ m_endPoint'[t][f] # NoEndPoint
               /\ SentTo(m_endPoint'[t][f], m_deliveryQueue'[t][i])
  <2>1. PICK f \in Families :
          /\ m_endPoint[t][f] # NoEndPoint
          /\ SentTo(m_endPoint[t][f], m_deliveryQueue[t][j])
    BY <1>2 DEF QueuedInv
  <2>2. m_endPoint'[t][f] = m_endPoint[t][f]
    BY <1>3, <2>1 DEF PointersKept
  <2> QED BY <1>4, <2>1, <2>2
<1>5. ASSUME QueuesShrink
      PROVE  \E f \in Families :
               /\ m_endPoint'[t][f] # NoEndPoint
               /\ SentTo(m_endPoint'[t][f], m_deliveryQueue'[t][i])
  BY <1>4, <1>5 DEF QueuesShrink
<1>6. ASSUME NEW s \in Sockets, ApplicationCall(s)
      PROVE  QueuesShrink
  BY <1>6, CallsShrinkQueues DEF ApplicationCall
<1>7. ASSUME NEW k \in todo, ForwardNext(k)
      PROVE  \E f \in Families :
               /\ m_endPoint'[t][f] # NoEndPoint
               /\ SentTo(m_endPoint'[t][f], m_deliveryQueue'[t][i])
  <2>1. CASE UNCHANGED vars
    BY <1>5, <2>1, QueuesAlone DEF vars, rxVars
  <2>2. CASE k \notin freed /\ EndPointForwardUp(k, arrival)
    <3>1. k \in DOMAIN demux /\ arrival \in Datagrams /\ SentTo(k, arrival)
      BY <1>7, <2>2 DEF LoopInv, MatchInv
    <3>2. k # NoEndPoint /\ k.family \in Families
      BY <3>1, EndPointsAssumption DEF OwnInv, Owned, EndPoints
    <3>3. PICK s \in Sockets : m_endPoint[s][k.family] = k
      BY <3>1 DEF NoOrphans
    <3>4. demux[k].rxCallback = s
      BY <3>2, <3>3 DEF OwnInv, Owned
    <3>5. m_endPoint' = m_endPoint
      BY <2>2 DEF EndPointForwardUp, Receiving, bindVars
    <3>6. \/ \E j \in DOMAIN m_deliveryQueue[t] :
               m_deliveryQueue'[t][i] = m_deliveryQueue[t][j]
          \/ t = s /\ m_deliveryQueue'[t][i] = arrival
      BY <2>2, <3>1, <3>4, ArrivalQueues
    <3>7. CASE t = s /\ m_deliveryQueue'[t][i] = arrival
      BY <3>1, <3>2, <3>3, <3>5, <3>7
    <3> QED BY <1>4, <3>6, <3>7
  <2> QED BY <1>7, <2>1, <2>2 DEF ForwardNext
<1>8. ASSUME \/ UNCHANGED nodeVars
             \/ \E s \in Sockets : Destruct(s) \/ CreateSocket(s) \/ Release(s)
             \/ \E p \in Packets : NewPacket(p)
             \/ CallbackReturn \/ DisposeStep \/ DisposeOfProtocol
             \/ \E d \in Datagrams : Receive(d)
             \/ \E x \in inFlight : ReceiveIcmp(x)
      PROVE  QueuesShrink
  <2>1. UNCHANGED m_deliveryQueue
    BY <1>8 DEF nodeVars, Destruct, CreateSocket, Release, NewPacket,
       CallbackReturn, DisposeStep, DisposeOfProtocol, DoDispose, EndDispose,
       DeleteEndPoint, Stop, Receive, ReceiveIcmp, vars, rxVars
  <2> QED BY <2>1, QueuesAlone
<1> QED
  BY <1>5, <1>6, <1>7, <1>8 DEF NodeNext, HandlerStep, ApplicationStep

(* What is proved of the sockets, as invariants of the node.               *)
LEMMA NodeSockets ==
  NodeSpec => [](OwnInv /\ HookInv /\ SentBySender /\ FlagTypes /\ Rx!TypeOK
                   /\ LoopInv)
<1>1. OwnInv /\ [Next]_vars => OwnInv'
  BY OwnInvStep
<1>2. OwnInv /\ HookInv /\ [Next]_vars => HookInv'
  BY HookStep
<1>3. OwnInv /\ SentBySender /\ [Next]_vars => SentBySender'
  BY SentStep
<1>4. OwnInv /\ FlagTypes /\ ConnectedInv /\ [Next]_vars => FlagTypes' /\ ConnectedInv'
  BY FlagStep
<1>5. HookInv /\ Rx!TypeOK /\ [Next]_vars => Rx!TypeOK'
  BY ReceiveSideStep, ReceiveTyped
<1>6. LoopInv /\ [NodeNext]_nodeVars => LoopInv' /\ [Next]_vars
  BY LoopStep, NodeStepIsSocketStep
<1>7. NodeInit => /\ OwnInv /\ HookInv /\ SentBySender
                  /\ FlagTypes /\ ConnectedInv /\ Rx!TypeOK
  BY OwnInvInit, SentInit, FlagInit, ReceiveInit DEF NodeInit, Init, HookInv
<1> QED
  BY <1>1, <1>2, <1>3, <1>4, <1>5, <1>6, <1>7, LoopInit, PTL DEF NodeSpec

(* An open socket has queued only what was sent to an end point it still   *)
(* holds, the fallback from IPv4 to IPv6 end points and callbacks that     *)
(* close and bind sockets within the loop included, if no bound socket is  *)
(* ever bound again (rudp-l4-protocol.cc:332-369, 386-407).                *)
THEOREM QueuedIsAddressed ==
  ASSUME Rebinds = {}
  PROVE  NodeSpec => []QueuedWasAddressed
<1>1. OwnInv /\ NoOrphans /\ [Next]_vars => NoOrphans'
  BY OrphansStep
<1>2. Rx!TypeOK /\ FlagTypes => FlagsInv
  BY DEF Rx!TypeOK, FlagTypes, FlagsInv
<1>3. MatchInv /\ [NodeNext]_nodeVars => MatchInv'
  BY MatchStep
<1>4. OwnInv /\ NoOrphans /\ Rx!TypeOK /\ FlagsInv /\ LoopInv /\ MatchInv
        /\ QueuedInv /\ [NodeNext]_nodeVars => QueuedInv'
  BY QueuedStep
<1>5. NodeInit => NoOrphans /\ MatchInv /\ QueuedInv
  BY DEF NodeInit, Init, Rx!Init, NoOrphans, MatchInv, QueuedInv
<1>6. LoopInv /\ [NodeNext]_nodeVars => [Next]_vars
  BY NodeStepIsSocketStep
<1>7. OwnInv /\ QueuedInv => QueuedWasAddressed
  BY QueuedInvMeans
<1> QED
  BY <1>1, <1>2, <1>3, <1>4, <1>5, <1>6, <1>7, NodeSockets, PTL DEF NodeSpec

-------------------------------------------------------------------------------
(***************************************************************************)
(* Types.                                                                  *)
(***************************************************************************)
NodeTypes ==
  /\ life \in [Sockets -> {"none", "live", "destroyed"}]
  /\ m_sockets \subseteq Sockets /\ held \subseteq Sockets
  /\ arrival \in Datagrams \cup {NoArrival}
  /\ todo \cup freed \subseteq EndPoints
  /\ callback \in Sockets \cup {NoSocket}
  /\ rxStatus \in {"none", "ok", "checksum", "unreachable"}
  /\ inFlight \subseteq [sock : Sockets, endPoint : EndPoints]
  /\ icmpTo = NoReport \/ (icmpTo.about.sock \in Sockets /\ icmpTo.to \in Sockets)
  /\ crash \in {"none", "freed", "nullInterface", "destructor"}

LEMMA NodeTypesStep ==
  ASSUME OwnInv, HookInv, SentBySender, LoopInv, NodeTypes, [NodeNext]_nodeVars
  PROVE  NodeTypes'
<1>1. DOMAIN demux \subseteq EndPoints
  BY DEF OwnInv, Owned
<1>2. ASSUME Quiet \/ UNCHANGED <<rxStatus, icmpTo>>
      PROVE  /\ rxStatus' \in {"none", "ok", "checksum", "unreachable"}
             /\ icmpTo' = NoReport \/ (/\ icmpTo'.about.sock \in Sockets
                                       /\ icmpTo'.to \in Sockets)
  BY <1>2 DEF Quiet, NodeTypes
<1>3. ASSUME ReceiveGoesOn
      PROVE  /\ arrival' \in Datagrams \cup {NoArrival}
             /\ todo' \cup freed' \subseteq EndPoints
             /\ callback' \in Sockets \cup {NoSocket}
  BY <1>3 DEF ReceiveGoesOn, Kept, NodeTypes
<1>4. CASE UNCHANGED nodeVars
  BY <1>4 DEF nodeVars, lifeVars, loopVars, NodeTypes
<1>5. ASSUME NEW s \in Sockets, CreateSocket(s) \/ Release(s)
      PROVE  NodeTypes'
  <2>1. /\ life' \in [Sockets -> {"none", "live", "destroyed"}]
        /\ m_sockets' \subseteq Sockets /\ held' \subseteq Sockets
    BY <1>5 DEF CreateSocket, Release, NodeTypes
  <2>2. Quiet /\ ReceiveGoesOn /\ UNCHANGED <<inFlight, crash>>
    BY <1>5 DEF CreateSocket, Release
  <2> QED BY <1>2, <1>3, <2>1, <2>2 DEF NodeTypes
<1>6. ASSUME NEW s \in Sockets, ApplicationCall(s)
      PROVE  NodeTypes'
  <2>1. SentBySender'
    BY SentStep, NodeStepIsSocketStep
  <2>2. OwnInv'
    BY OwnInvStep, NodeStepIsSocketStep
  <2>3. sent' # NoDatagram => Quotable(sent') \in [sock : Sockets, endPoint : EndPoints]
    <3> SUFFICES ASSUME sent' # NoDatagram
                 PROVE  sent'.sock \in Sockets /\ sent'.endPoint \in EndPoints
      BY DEF Quotable
    <3>1. /\ sent'.sock \in Sockets /\ sent'.endPoint # NoEndPoint
          /\ sent'.endPoint.family \in Families
          /\ m_endPoint'[sent'.sock][sent'.endPoint.family] = sent'.endPoint
      BY <2>1 DEF SentBySender
    <3>2. m_endPoint' \in [Sockets -> [Families -> EndPoints \cup {NoEndPoint}]]
      BY <2>2 DEF OwnInv, Owned
    <3> QED BY <3>1, <3>2
  <2>4. inFlight' \subseteq [sock : Sockets, endPoint : EndPoints]
    BY <1>6, <2>3 DEF ApplicationCall, NodeTypes
  <2>5. /\ freed' \subseteq freed \cup DOMAIN demux
        /\ arrival' \in {arrival, NoArrival}
        /\ Quiet /\ UNCHANGED <<lifeVars, todo, callback, crash>>
    BY <1>6 DEF ApplicationCall, Kept
  <2> QED BY <1>1, <1>2, <2>4, <2>5 DEF NodeTypes, lifeVars
<1>7. ASSUME NEW s \in Sockets, Destruct(s)
      PROVE  NodeTypes'
  BY <1>2, <1>7 DEF Destruct, NodeTypes, loopVars
<1>8. ASSUME NEW k \in todo, ForwardNext(k)
      PROVE  NodeTypes'
  <2>1. /\ todo' \subseteq todo /\ Quiet
        /\ crash' \in {crash, "freed", "nullInterface"}
        /\ UNCHANGED <<lifeVars, arrival, freed, inFlight>>
    BY <1>8 DEF ForwardNext, Remaining
  <2>2. callback' \in Sockets \cup {NoSocket}
    BY <1>8 DEF ForwardNext, LoopInv, HookInv, NodeTypes
  <2> QED BY <1>2, <2>1, <2>2 DEF NodeTypes, lifeVars
<1>9. ASSUME CallbackReturn \/ DisposeStep
      PROVE  NodeTypes'
  <2>1. /\ Quiet /\ UNCHANGED <<lifeVars, arrival, todo, freed, inFlight, crash>>
        /\ callback' \in {callback, NoSocket}
    BY <1>9 DEF CallbackReturn, DisposeStep, loopVars
  <2> QED BY <1>2, <2>1 DEF NodeTypes, lifeVars
<1>10. ASSUME Quiet, ReceiveGoesOn, UNCHANGED <<lifeVars, inFlight, crash>>
       PROVE  NodeTypes'
  BY <1>2, <1>3, <1>10 DEF NodeTypes, lifeVars
<1>11. ASSUME NEW d \in Datagrams, Receive(d)
       PROVE  NodeTypes'
  <2>1. todo' = {} \/ \E shown : todo' = Lookup(shown)
    BY <1>11 DEF Receive
  <2>2. todo' \subseteq EndPoints
    BY <1>1, <2>1, LookupFinds
  <2>3. /\ arrival' = d /\ freed' = {} /\ icmpTo' = NoReport
        /\ rxStatus' \in {"ok", "checksum", "unreachable"}
        /\ UNCHANGED <<lifeVars, callback, inFlight, crash>>
    BY <1>11 DEF Receive
  <2> QED BY <2>2, <2>3 DEF NodeTypes, lifeVars
<1>12. ASSUME NEW x \in inFlight, ReceiveIcmp(x)
       PROVE  NodeTypes'
  <2>1. x.sock \in Sockets
    BY DEF NodeTypes
  <2>2. \A k \in SimpleLookup(x) : demux[k].rxCallback \in Sockets
    BY DEF SimpleLookup, HookInv
  <2>3. icmpTo' = NoReport \/ (/\ icmpTo'.about.sock \in Sockets
                               /\ icmpTo'.to \in Sockets)
    BY <1>12, <2>1, <2>2 DEF ReceiveIcmp, ForwardIcmp
  <2>4. /\ inFlight' \subseteq inFlight /\ rxStatus' = "none" /\ ReceiveGoesOn
        /\ UNCHANGED <<lifeVars, crash>>
    BY <1>12 DEF ReceiveIcmp
  <2> QED BY <1>3, <2>3, <2>4 DEF NodeTypes, lifeVars
<1>13. ASSUME DisposeOfProtocol
       PROVE  NodeTypes'
  <2>1. /\ m_sockets' = {} /\ Quiet /\ ReceiveGoesOn
        /\ UNCHANGED <<life, held, inFlight, crash>>
    BY <1>13 DEF DisposeOfProtocol, SocketsKept
  <2> QED BY <1>2, <1>3, <2>1 DEF NodeTypes
<1> QED
  BY <1>4, <1>5, <1>6, <1>7, <1>8, <1>9, <1>10, <1>11, <1>12, <1>13
     DEF NodeNext, HandlerStep, ApplicationStep

(* Every variable of the node stays in its type; what is left of a loop    *)
(* under way is in a table unless it was deleted since                     *)
(* (rudp-l4-protocol.cc:362-369).                                          *)
THEOREM NodeTypeCorrect == NodeSpec => []NodeTypeOK
<1>1. OwnInv /\ HookInv /\ SentBySender /\ LoopInv /\ NodeTypes
        /\ [NodeNext]_nodeVars => NodeTypes'
  BY NodeTypesStep
<1>2. NodeInit => NodeTypes
  BY DEF NodeInit, NodeTypes
<1>3. TypeOK /\ LoopInv /\ NodeTypes => NodeTypeOK
  BY DEF LoopInv, NodeTypes, NodeTypeOK
<1> QED
  BY <1>1, <1>2, <1>3, NodeSockets, NodeImplementsSockets, TypeCorrect, PTL
     DEF NodeSpec

-------------------------------------------------------------------------------
(***************************************************************************)
(* Answers.                                                                *)
(***************************************************************************)
(* The lookup finds an open end point alone if it is bound to the address, *)
(* or to none while no other is bound to that address and the port.        *)
LEMMA LookupFindsOnly ==
  ASSUME OwnInv, NEW k \in DOMAIN demux, NEW dst, NEW i,
         dst # Group, demux[k].rxEnabled, demux[k].device => i = "device",
         \/ k.addr = dst
         \/ k.addr = AnyAddr /\ [k EXCEPT !.addr = dst] \notin DOMAIN demux
  PROVE  Lookup(AnswerTo(k, dst, i)) = {k}
<1> DEFINE d == AnswerTo(k, dst, i)
           candidates == {j \in DOMAIN demux :
                            /\ j.family = d.family /\ j.port = d.port
                            /\ demux[j].rxEnabled
                            /\ demux[j].device => d.interface = "device"}
           exact == {j \in candidates : j.addr = d.dst}
           wildcard == {j \in candidates : j.addr = AnyAddr}
<1>1. d.family = k.family /\ d.port = k.port /\ d.dst = dst /\ d.interface = i
  BY DEF AnswerTo
<1>2. Lookup(d) = IF exact # {} THEN exact ELSE wildcard
  BY <1>1 DEF Lookup
<1>3. \A j \in DOMAIN demux : j \in EndPoints
  BY DEF OwnInv, Owned
<1>4. k \in candidates
  BY <1>1
<1>5. \A j \in candidates : j.addr = k.addr => j = k
  BY <1>1, <1>3 DEF EndPoints
<1>6. CASE k.addr = dst
  <2>1. exact = {k}
    BY <1>1, <1>4, <1>5, <1>6
  <2> QED BY <1>2, <2>1
<1>7. CASE k.addr = AnyAddr /\ [k EXCEPT !.addr = dst] \notin DOMAIN demux
  <2>1. ASSUME NEW j \in exact
        PROVE  FALSE
    <3>1. j = [k EXCEPT !.addr = dst]
      BY <1>1, <1>3 DEF EndPoints
    <3> QED BY <1>7, <3>1
  <2>2. wildcard = {k}
    BY <1>4, <1>5, <1>7
  <2> QED BY <1>2, <2>1, <2>2
<1> QED BY <1>6, <1>7

LEMMA AnswersFound ==
  ASSUME OwnInv, OpenInv, NodeTypes
  PROVE  AnswersFindSender
<1> SUFFICES ASSUME NEW x \in inFlight, NEW dst \in LocalAddrs,
                    NEW i \in {"device", "other"},
                    m_endPoint[x.sock][x.endPoint.family] = x.endPoint,
                    ~m_shutdownRecv[x.sock],
                    m_boundnetdevice[x.sock] => i = "device",
                    LET k == x.endPoint
                        exact == [k EXCEPT !.addr = dst]
                    IN  k = exact \/ (k.addr = AnyAddr /\ exact \notin DOMAIN demux)
             PROVE  /\ Lookup(AnswerTo(x.endPoint, dst, i)) = {x.endPoint}
                    /\ demux[x.endPoint].rxCallback = x.sock
  BY DEF AnswersFindSender
<1> DEFINE k == x.endPoint
<1>1. x.sock \in Sockets /\ k \in EndPoints
  BY DEF NodeTypes
<1>2. k # NoEndPoint /\ k.family \in Families
  BY <1>1, EndPointsAssumption DEF EndPoints
<1>3. k \in DOMAIN demux /\ demux[k].rxCallback = x.sock
  BY <1>1, <1>2 DEF OwnInv, Owned
<1>4. demux[k].rxEnabled /\ (demux[k].device => i = "device")
  BY <1>1, <1>2 DEF OpenInv
<1>5. dst # Group
  BY GroupAssumption
<1>6. k = [k EXCEPT !.addr = dst] => k.addr = dst
  BY <1>1 DEF EndPoints
<1> QED BY <1>3, <1>4, <1>5, <1>6, LookupFindsOnly

(* For every number of sockets, addresses and ports, rebinding included,   *)
(* an answer to a datagram finds the socket that sent it, as long as that  *)
(* socket receives, has kept the end point it sent from, and no end point  *)
(* is bound to the very address the answer comes to                        *)
(* (rudp-socket-impl.cc:544-545, 565-566, 641-642, 661-662,                *)
(* rudp-l4-protocol.cc:337-340, 395-398).                                  *)
THEOREM AnswersAlwaysFindSender == NodeSpec => []AnswersFindSender
<1>1. Rx!TypeOK /\ FlagTypes => FlagsInv
  BY DEF Rx!TypeOK, FlagTypes, FlagsInv
<1>2. OwnInv /\ FlagsInv /\ OpenInv /\ [Next]_vars => OpenInv'
  BY OpenStep
<1>3. LoopInv /\ [NodeNext]_nodeVars => [Next]_vars
  BY NodeStepIsSocketStep
<1>4. OwnInv /\ HookInv /\ SentBySender /\ LoopInv /\ NodeTypes
        /\ [NodeNext]_nodeVars => NodeTypes'
  BY NodeTypesStep
<1>5. NodeInit => OpenInv /\ NodeTypes
  BY DEF NodeInit, Init, OpenInv, NodeTypes
<1>6. OwnInv /\ OpenInv /\ NodeTypes => AnswersFindSender
  BY AnswersFound
<1> QED
  BY <1>1, <1>2, <1>3, <1>4, <1>5, <1>6, NodeSockets, PTL DEF NodeSpec

-------------------------------------------------------------------------------
(***************************************************************************)
(* One datagram, one socket, once.                                         *)
(***************************************************************************)
LEMMA OnceInv ==
  ASSUME OwnInv, NoOrphans, LoopInv, CallbackInv
  PROVE  HeardAtMostOnce
<1>1. ASSUME NEW k \in todo \ freed
      PROVE  \E s \in Sockets : /\ m_endPoint[s][k.family] = k
                                /\ demux[k].rxCallback = s
  <2>1. k \in DOMAIN demux
    BY DEF LoopInv
  <2>2. k # NoEndPoint /\ k.family \in Families
    BY <2>1, EndPointsAssumption DEF OwnInv, Owned, EndPoints
  <2>3. PICK s \in Sockets : m_endPoint[s][k.family] = k
    BY <2>1 DEF NoOrphans
  <2> QED BY <2>2, <2>3 DEF OwnInv, Owned
<1>2. ASSUME NEW j \in todo \ freed, NEW k \in todo \ freed,
             demux[j].rxCallback = demux[k].rxCallback
      PROVE  j = k
  <2>1. j.family = k.family
    BY DEF CallbackInv
  <2> QED BY <1>1, <1>2, <2>1
<1>3. ASSUME NEW k \in todo \ freed
      PROVE  demux[k].rxCallback # callback
  <2>1. PICK s \in Sockets : /\ m_endPoint[s][k.family] = k
                             /\ demux[k].rxCallback = s
    BY <1>1
  <2>2. k \in DOMAIN demux
    BY DEF LoopInv
  <2>3. k.family \in Families
    BY <2>2 DEF OwnInv, Owned, EndPoints
  <2> QED BY <2>1, <2>3, SocketsAssumption DEF CallbackInv
<1> QED BY <1>2, <1>3 DEF HeardAtMostOnce

(* However many end points a datagram meets, in whichever table, and       *)
(* whatever the callbacks close, shut or bind meanwhile, no socket is      *)
(* handed it twice, if no bound socket is ever bound again                 *)
(* (rudp-l4-protocol.cc:337-369, 391-407).                                 *)
THEOREM NobodyHearsTwice ==
  ASSUME Rebinds = {}
  PROVE  NodeSpec => []HeardAtMostOnce
<1>1. OwnInv /\ NoOrphans /\ [Next]_vars => NoOrphans'
  BY OrphansStep
<1>2. OwnInv /\ NoOrphans /\ LoopInv /\ CallbackInv /\ [NodeNext]_nodeVars
        => CallbackInv'
  BY CallbackStep
<1>3. NodeInit => NoOrphans /\ CallbackInv
  BY DEF NodeInit, Init, NoOrphans, CallbackInv
<1>4. LoopInv /\ [NodeNext]_nodeVars => [Next]_vars
  BY NodeStepIsSocketStep
<1>5. OwnInv /\ NoOrphans /\ LoopInv /\ CallbackInv => HeardAtMostOnce
  BY OnceInv
<1> QED BY <1>1, <1>2, <1>3, <1>4, <1>5, NodeSockets, PTL DEF NodeSpec

-------------------------------------------------------------------------------
(***************************************************************************)
(* Nobody is skipped.                                                      *)
(***************************************************************************)
(* An end point goes only by Close, which shuts the socket it is called on.*)
LEMMA GoneByClose ==
  ASSUME OwnInv, FlagsInv, NEW t \in Sockets, SocketCall(t),
         NEW k \in DOMAIN demux \ DOMAIN demux'
  PROVE  Close(t) /\ m_shutdownRecv'[t] /\ demux[k].rxCallback = t
<1>1. ~\E f \in Families : Bind(t, f)
  BY DEF Bind, TakeEndPoint, Hooked, With
<1>2. ASSUME NEW f, NEW a, NEW port, BindAddress(t, f, a, port)
      PROVE  FALSE
  <2>1. PICK j : demux' = demux \/ TakeEndPoint(t, f, j)
    BY <1>2 DEF BindAddress
  <2>2. DOMAIN demux \subseteq DOMAIN demux'
    BY <2>1 DEF TakeEndPoint, Hooked, With
  <2> QED BY <2>2
<1>3. ~BindToNetDevice(t)
  <2>1. BindToNetDevice(t) =>
          \/ UNCHANGED demux
          \/ \E k4, k6, both :
               DOMAIN demux' = DOMAIN Hooked(With(demux, {k4, k6}), t, both)
    BY DEF BindToNetDevice, Silent, Stop, bindVars
  <2> QED BY <2>1 DEF Hooked, With
<1>4. ASSUME NEW p \in Packets, Send(t, p) \/ \E d \in Dests : SendTo(t, p, d)
      PROVE  FALSE
  <2>1. ASSUME NEW d, DoSendTo(t, p, d)
        PROVE  FALSE
    BY <2>1 DEF DoSendTo, TakeEndPoint, Hooked, With, Stop, bindVars
  <2> QED BY <1>4, <2>1 DEF Send, SendTo, Refuse, bindVars
<1>5. ASSUME \/ BindInvalid(t) \/ ShutdownSend(t) \/ ShutdownRecv(t)
             \/ Listen(t) \/ GetPeerName(t)
             \/ \E d \in Dests : Connect(t, d)
             \/ \E discover \in BOOLEAN : SetMtuDiscover(t, discover)
             \/ \E n \in ReadSizes : Recv(t, n)
             \/ \E n \in BufSizes : SetRcvBufSize(t, n)
      PROVE  FALSE
  BY <1>5 DEF BindInvalid, ShutdownSend, ShutdownRecv, Listen, GetPeerName,
     Connect, SetMtuDiscover, Recv, SetRcvBufSize, Refuse, Receiving, bindVars
<1>6. Close(t)
  BY <1>1, <1>2, <1>3, <1>4, <1>5 DEF SocketCall
<1>7. m_shutdownRecv'[t]
  BY <1>6 DEF Close, Rx!StopReceiving, FlagsInv, Refuse, bindVars
<1>8. PICK f \in Families : m_endPoint[t][f] = k
  BY SocketCallTouchesOwn DEF TouchesOwn
<1>9. demux[k].rxCallback = t
  BY <1>8, EndPointsAssumption DEF OwnInv, Owned
<1> QED BY <1>6, <1>7, <1>9

LEMMA SkipsNoneStep ==
  ASSUME OwnInv, HookInv, FlagsInv, LoopInv, [NodeNext]_nodeVars,
         NEW k \in todo \ freed, k \notin todo' \ freed'
  PROVE  LET s == demux[k].rxCallback IN
         m_shutdownRecv'[s] \/ Stopped' \/ rxOut' \in HeardOf(s, arrival)
<1> DEFINE s == demux[k].rxCallback
<1>1. k \in DOMAIN demux
  BY DEF LoopInv
<1>2. ASSUME NEW j \in todo, ForwardNext(j)
      PROVE  m_shutdownRecv'[s] \/ Stopped' \/ rxOut' \in HeardOf(s, arrival)
  <2>1. j = k
    BY <1>2 DEF ForwardNext, Remaining
  <2>2. CASE crash' = "nullInterface"
    BY <2>2 DEF Stopped
  <2>3. CASE EndPointForwardUp(k, arrival)
    BY <2>3 DEF EndPointForwardUp, Rx!ForwardUp, Rx!vars, HeardOf
  <2> QED BY <1>2, <2>1, <2>2, <2>3 DEF ForwardNext
<1>3. ASSUME NEW t \in Sockets, ApplicationCall(t)
      PROVE  m_shutdownRecv'[s]
  <2>1. k \in DOMAIN demux \ DOMAIN demux'
    BY <1>1, <1>3 DEF ApplicationCall
  <2> QED BY <1>3, <2>1, GoneByClose DEF ApplicationCall
<1>4. ~ReceiveGoesOn
  BY DEF ReceiveGoesOn, Kept, Idle
<1>5. ~UNCHANGED <<todo, freed>>
  OBVIOUS
<1>6. ~Idle
  BY DEF Idle
<1> QED
  BY <1>2, <1>3, <1>4, <1>5, <1>6
     DEF NodeNext, HandlerStep, ApplicationStep, Destruct, CallbackReturn,
         DisposeStep, CreateSocket, Release, Receive, ReceiveIcmp,
         DisposeOfProtocol, nodeVars, loopVars

(* The loop of Receive passes over no socket it found: each is handed the  *)
(* datagram in its turn unless it is shut or the program stops, and what   *)
(* goes from the tables in the meantime was closed by its own socket,      *)
(* whoever is called back and whatever is bound again                      *)
(* (rudp-l4-protocol.cc:362-369, 403-407).                                 *)
THEOREM NobodySkipped == NodeSpec => LoopSkipsNone
<1>1. Rx!TypeOK /\ FlagTypes => FlagsInv
  BY DEF Rx!TypeOK, FlagTypes, FlagsInv
<1>2. OwnInv /\ HookInv /\ FlagsInv /\ LoopInv /\ [NodeNext]_nodeVars
        => [\A k \in todo \ freed :
              LET s == demux[k].rxCallback IN
              k \notin todo' \ freed' =>
                \/ m_shutdownRecv'[s]
                \/ Stopped'
                \/ rxOut' \in HeardOf(s, arrival)]_nodeVars
  BY SkipsNoneStep
<1> QED BY <1>1, <1>2, NodeSockets, PTL DEF NodeSpec, LoopSkipsNone

-------------------------------------------------------------------------------
(***************************************************************************)
(* Sockets bound to a device.                                              *)
(***************************************************************************)
(* What ties an end point to a device is there to stay: hooking, disabling *)
(* and deleting others leave it, and nothing unties one.                   *)
DevicesStay ==
  \A k \in DOMAIN demux :
    demux[k].device => k \notin DOMAIN demux' \/ demux'[k].device

LEMMA TakeStays ==
  ASSUME OwnInv, NEW s \in Sockets, NEW f \in Families,
         NEW a \in LocalAddrs \cup {AnyAddr}, NEW port \in Ports \cup {0},
         NEW k \in Allocate(f, a, port), TakeEndPoint(s, f, k)
  PROVE  DevicesStay
<1>1. {k} \cap DOMAIN demux = {}
  <2>1. CASE k = NoEndPoint
    BY <2>1, EndPointsAssumption DEF OwnInv, Owned
  <2>2. CASE k # NoEndPoint
    BY <2>2, AllocateFacts
  <2> QED BY <2>1, <2>2
<1>2. \A j \in DOMAIN demux : demux'[j].device = demux[j].device
  BY <1>1, HookedFlags DEF TakeEndPoint, OwnInv, Owned
<1> QED BY <1>2 DEF DevicesStay

(* BindToNetDevice ties both end points of its socket, which has both.     *)
BothTied(s) ==
  /\ \A t \in Sockets \ {s} : m_boundnetdevice'[t] = m_boundnetdevice[t]
  /\ \A f \in Families :
       m_endPoint'[s][f] # NoEndPoint /\ demux'[m_endPoint'[s][f]].device

LEMMA DeviceTies ==
  ASSUME EnoughPorts, OwnInv, NoOrphans, FlagsInv, NEW s \in Sockets,
         BindToNetDevice(s)
  PROVE  DevicesStay /\ BothTied(s)
<1>1. "v4" \in Families /\ "v6" \in Families
  BY DEF Families
<1>2. PICK k4 \in HeldOrBound(s, "v4"), k6 \in HeldOrBound(s, "v6") :
        LET both == [Rebound(s, "v4", k4) EXCEPT !["v6"] = k6]
            table == Hooked(With(demux, {k4, k6}), s, both)
        IN  /\ m_boundnetdevice' = [m_boundnetdevice EXCEPT ![s] = TRUE]
            /\ m_endPoint' = [m_endPoint EXCEPT ![s] = both]
            /\ demux' = [k \in DOMAIN table |->
                           IF k \in {k4, k6}
                           THEN [table[k] EXCEPT !.device = TRUE]
                           ELSE table[k]]
  <2>1. \A f \in Families : NoEndPoint \notin HeldOrBound(s, f)
    BY HeldNotNull
  <2>2. m_endPoint \in [Sockets -> [Families -> EndPoints \cup {NoEndPoint}]]
    BY DEF OwnInv, Owned
  <2>3. ASSUME NEW k4 \in HeldOrBound(s, "v4")
        PROVE  ~FinishBindFails(Rebound(s, "v4", k4))
    BY <1>1, <2>1, <2>2, <2>3 DEF FinishBindFails, Rebound
  <2> QED BY <1>1, <2>1, <2>3 DEF BindToNetDevice
<1> DEFINE new == {k4, k6} \ DOMAIN demux
           both == [Rebound(s, "v4", k4) EXCEPT !["v6"] = k6]
           table == Hooked(With(demux, {k4, k6}), s, both)
<1>3. m_endPoint \in [Sockets -> [Families -> EndPoints \cup {NoEndPoint}]]
  BY DEF OwnInv, Owned
<1>4. k4 # NoEndPoint /\ k6 # NoEndPoint
  BY <1>1, HeldNotNull
<1>5. both = [f \in Families |-> IF f = "v4" THEN k4 ELSE k6]
  BY <1>3 DEF Rebound, Families
<1>6. DOMAIN table = DOMAIN demux \cup {k4, k6}
  BY <1>4 DEF Hooked, With
<1>7. /\ m_boundnetdevice' = [m_boundnetdevice EXCEPT ![s] = TRUE]
      /\ m_endPoint' = [m_endPoint EXCEPT ![s] = both]
      /\ \A k \in DOMAIN table :
           demux'[k] = IF k \in {k4, k6}
                       THEN [table[k] EXCEPT !.device = TRUE]
                       ELSE table[k]
  BY <1>2
<1>8. With(demux, {k4, k6}) = With(demux, new)
  BY DEF With
<1> HIDE DEF both
<1>9. \A k \in DOMAIN demux : demux[k] \in EndPointStates
  BY DEF OwnInv, Owned
<1>10. \A k \in DOMAIN table : table[k] \in EndPointStates
  BY <1>9, HookedStates
<1>11. \A k \in DOMAIN demux : table[k].device = demux[k].device
  <2>1. new \cap DOMAIN demux = {}
    OBVIOUS
  <2>2. table = Hooked(With(demux, new), s, both)
    BY <1>8
  <2> HIDE DEF table, new
  <2> QED BY <1>9, <2>1, <2>2, HookedFlags
<1> HIDE DEF table
<1>12. \A k \in DOMAIN table :
         demux'[k].device = (k \in {k4, k6} \/ table[k].device)
  BY <1>7, <1>10 DEF EndPointStates
<1>13. DevicesStay
  BY <1>6, <1>11, <1>12 DEF DevicesStay
<1>14. \A f \in Families : m_endPoint'[s][f] \in {k4, k6}
  BY <1>3, <1>5, <1>7
<1>15. BothTied(s)
  BY <1>4, <1>6, <1>7, <1>12, <1>14 DEF BothTied, FlagsInv
<1> QED BY <1>13, <1>15

LEMMA DevicesStayStep ==
  ASSUME EnoughPorts, OwnInv, NoOrphans, FlagsInv, [Next]_vars
  PROVE  DevicesStay
<1>1. CASE UNCHANGED demux
  BY <1>1 DEF DevicesStay
<1>2. ASSUME NEW s \in Sockets, NEW f \in Families, Bind(s, f)
      PROVE  DevicesStay
  <2>1. PICK k \in Allocate(f, AnyAddr, 0) : TakeEndPoint(s, f, k)
    BY <1>2 DEF Bind
  <2> QED BY <2>1, TakeStays
<1>3. ASSUME NEW s \in Sockets, NEW b \in Binds,
             BindAddress(s, b.family, b.addr, b.port)
      PROVE  DevicesStay
  <2>1. \/ UNCHANGED demux
        \/ \E k \in Allocate(b.family, b.addr, b.port) :
             TakeEndPoint(s, b.family, k)
    BY <1>3 DEF BindAddress
  <2> QED BY <1>1, <2>1, BindsFacts, TakeStays
<1>4. ASSUME NEW s \in Sockets, NEW p, NEW d, DoSendTo(s, p, d)
      PROVE  DevicesStay
  <2>1. CASE demux' # demux
    <3>1. PathFamily(d) \in Families
      BY DEF PathFamily, Families
    <3>2. PICK k \in HeldOrBound(s, PathFamily(d)) :
            k # m_endPoint[s][PathFamily(d)] /\ TakeEndPoint(s, PathFamily(d), k)
      BY <1>4, <2>1 DEF DoSendTo, Stop, bindVars
    <3>3. k \in Allocate(PathFamily(d), AnyAddr, 0)
      BY <3>2 DEF HeldOrBound
    <3> QED BY <3>1, <3>2, <3>3, TakeStays
  <2> QED BY <1>1, <2>1
<1>5. ASSUME NEW s \in Sockets, NEW p \in Packets,
             Send(s, p) \/ \E d \in Dests : SendTo(s, p, d)
      PROVE  DevicesStay
  BY <1>1, <1>4, <1>5 DEF Send, SendTo, Refuse, bindVars
<1>6. ASSUME NEW s \in Sockets, ShutdownRecv(s)
      PROVE  DevicesStay
  <2>1. \A k \in DOMAIN demux :
          demux'[k] = demux[k] \/ demux'[k] = [demux[k] EXCEPT !.rxEnabled = FALSE]
    BY <1>6 DEF ShutdownRecv
  <2>2. \A k \in DOMAIN demux : demux[k] \in EndPointStates
    BY DEF OwnInv, Owned
  <2> QED BY <2>1, <2>2 DEF DevicesStay, EndPointStates
<1>7. ASSUME \/ \E s \in Sockets : Close(s)
             \/ \E k \in DOMAIN demux : DeleteEndPoint(k)
      PROVE  DevicesStay
  <2>1. UNCHANGED demux \/ \E gone : demux' = Without(demux, gone)
    BY <1>7 DEF Close, DeallocateEndPoint, DeleteEndPoint, Refuse, bindVars
  <2> QED BY <1>1, <2>1 DEF Without, DevicesStay
<1>8. ASSUME NEW s \in Sockets,
             \/ BindInvalid(s) \/ ShutdownSend(s) \/ Listen(s) \/ GetPeerName(s)
             \/ \E d \in Dests : Connect(s, d)
             \/ \E discover \in BOOLEAN : SetMtuDiscover(s, discover)
             \/ \E n \in ReadSizes : Recv(s, n)
             \/ \E n \in BufSizes : SetRcvBufSize(s, n)
      PROVE  UNCHANGED demux
  BY <1>8 DEF BindInvalid, ShutdownSend, Listen, GetPeerName, Connect,
     SetMtuDiscover, Recv, SetRcvBufSize, Refuse, Receiving, bindVars
<1>9. ASSUME \/ \E p \in Packets : NewPacket(p)
             \/ \E k \in DOMAIN demux, d \in Datagrams : EndPointForwardUp(k, d)
             \/ DoDispose \/ EndDispose
             \/ UNCHANGED vars
      PROVE  UNCHANGED demux
  BY <1>9 DEF NewPacket, EndPointForwardUp, Receiving, DoDispose, EndDispose,
     Stop, bindVars, vars
<1> QED
  BY <1>1, <1>2, <1>3, <1>5, <1>6, <1>7, <1>8, <1>9, DeviceTies
     DEF Next, SocketCall

(* An open socket that is bound to a device has an end point in either     *)
(* table, and both are tied to the device.                                 *)
DeviceInv ==
  \A s \in Sockets : status = "running" /\ m_boundnetdevice[s] /\ ~m_shutdownRecv[s] =>
    \A f \in Families :
      m_endPoint[s][f] # NoEndPoint /\ demux[m_endPoint[s][f]].device

LEMMA DeviceStep ==
  ASSUME Rebinds = {}, EnoughPorts, OwnInv, NoOrphans, FlagsInv, DeviceInv,
         [Next]_vars
  PROVE  DeviceInv'
<1> SUFFICES ASSUME NEW t \in Sockets, status' = "running", ~m_shutdownRecv'[t],
                    m_boundnetdevice'[t], NEW f \in Families
             PROVE  /\ m_endPoint'[t][f] # NoEndPoint
                    /\ demux'[m_endPoint'[t][f]].device
  BY DEF DeviceInv
<1>1. status = "running" /\ ~m_shutdownRecv[t]
  BY StillRunning, FlagsStep DEF FlagsGrow
<1>2. CASE m_boundnetdevice[t]
  <2>1. PointersKept(t)
    BY OpenOrShutKeepPointers DEF NotClosing, FlagsInv
  <2>2. m_endPoint[t][f] # NoEndPoint /\ demux[m_endPoint[t][f]].device
    BY <1>1, <1>2 DEF DeviceInv
  <2>3. m_endPoint'[t][f] = m_endPoint[t][f]
    BY <2>1, <2>2 DEF PointersKept
  <2>4. m_endPoint[t][f] \in DOMAIN demux
    BY <2>2 DEF OwnInv, Owned
  <2>5. OwnInv'
    BY OwnInvStep
  <2>6. m_endPoint'[t][f] \in DOMAIN demux'
    BY <2>2, <2>3, <2>5 DEF OwnInv, Owned
  <2>7. DevicesStay
    BY DevicesStayStep
  <2> QED BY <2>2, <2>3, <2>4, <2>6, <2>7 DEF DevicesStay
<1>3. CASE ~m_boundnetdevice[t]
  <2>1. ASSUME NEW s \in Sockets, BindToNetDevice(s)
        PROVE  BothTied(t)
    BY <1>3, <2>1, DeviceTies DEF BothTied
  <2>2. ASSUME NEW s \in Sockets, SocketCall(s), ~BindToNetDevice(s)
        PROVE  UNCHANGED m_boundnetdevice
    <3>1. ASSUME NEW p, NEW d, DoSendTo(s, p, d)
          PROVE  UNCHANGED m_boundnetdevice
      BY <3>1 DEF DoSendTo, Stop, bindVars
    <3> QED BY <2>2, <3>1 DEF SocketCall, Bind, BindAddress, BindInvalid,
            ShutdownSend, ShutdownRecv, Close, Listen, GetPeerName, Connect, Send,
            SendTo, SetMtuDiscover, Recv, SetRcvBufSize, Refuse, Receiving, bindVars
  <2>3. ASSUME \/ \E p \in Packets : NewPacket(p)
               \/ \E k \in DOMAIN demux, d \in Datagrams : EndPointForwardUp(k, d)
               \/ DoDispose \/ EndDispose
               \/ \E k \in DOMAIN demux : DeleteEndPoint(k)
               \/ UNCHANGED vars
        PROVE  UNCHANGED m_boundnetdevice
    BY <2>3 DEF NewPacket, EndPointForwardUp, Receiving, DoDispose, EndDispose,
       DeleteEndPoint, Stop, bindVars, vars
  <2>4. BothTied(t)
    BY <1>3, <2>1, <2>2, <2>3 DEF Next
  <2> QED BY <2>4 DEF BothTied
<1> QED BY <1>2, <1>3

(* While the loop of a datagram that was not sent to a group has something *)
(* left, nobody is called back, one end point is left, and if that is tied *)
(* to a device the datagram came in by it.                                 *)
SoleInv ==
  todo # {} /\ arrival.dst # Group =>
    /\ callback = NoSocket
    /\ \A j, k \in todo : j = k
    /\ \A k \in todo : demux[k].device => arrival.interface = "device"

(* Only a group is looked up in more than one end point.                   *)
LEMMA LookupSole ==
  ASSUME OwnInv, NEW d, d.dst # Group, NEW j \in Lookup(d), NEW k \in Lookup(d)
  PROVE  j = k
<1> DEFINE candidates == {i \in DOMAIN demux :
                            /\ i.family = d.family /\ i.port = d.port
                            /\ demux[i].rxEnabled
                            /\ demux[i].device => d.interface = "device"}
           exact == {i \in candidates : i.addr = d.dst}
           wildcard == {i \in candidates : i.addr = AnyAddr}
<1>1. Lookup(d) = IF exact # {} THEN exact ELSE wildcard
  BY DEF Lookup
<1>2. /\ j.family = k.family /\ j.port = k.port /\ j.addr = k.addr
      /\ j \in DOMAIN demux /\ k \in DOMAIN demux
  <2>1. \A i \in exact : /\ i.family = d.family /\ i.port = d.port
                         /\ i.addr = d.dst /\ i \in DOMAIN demux
    OBVIOUS
  <2>2. \A i \in wildcard : /\ i.family = d.family /\ i.port = d.port
                            /\ i.addr = AnyAddr /\ i \in DOMAIN demux
    OBVIOUS
  <2> HIDE DEF exact, wildcard
  <2>3. CASE exact # {}
    BY <1>1, <2>1, <2>3
  <2>4. CASE exact = {}
    BY <1>1, <2>2, <2>4
  <2> QED BY <2>3, <2>4
<1>3. j \in EndPoints /\ k \in EndPoints
  BY <1>2 DEF OwnInv, Owned
<1> QED BY <1>2, <1>3 DEF EndPoints

(* An end point tied to a device is found for what came in by it only: not *)
(* for an IPv4 datagram shown to the IPv6 end points.                      *)
LEMMA LookupDevice ==
  ASSUME NEW d \in Datagrams,
         NEW k, k \in IF FallsBack(d) THEN Lookup(AsMapped(d)) ELSE Lookup(d),
         demux[k].device
  PROVE  d.interface = "device"
<1>1. ASSUME NEW e, k \in Lookup(e)
      PROVE  e.interface = "device"
  BY <1>1 DEF Lookup
<1>2. AsMapped(d).interface = "none"
  BY ArrivalsAssumption DEF AsMapped
<1> QED BY <1>1, <1>2

LEMMA SoleStep ==
  ASSUME OwnInv, SoleInv, [NodeNext]_nodeVars
  PROVE  SoleInv'
<1>1. ASSUME UNCHANGED <<todo, callback>>,
             todo # {} => UNCHANGED <<demux, arrival>>
      PROVE  SoleInv'
  BY <1>1 DEF SoleInv
<1>2. ASSUME ReceiveGoesOn, UNCHANGED demux
      PROVE  SoleInv'
  <2>1. UNCHANGED <<todo, callback>> /\ (todo # {} => arrival' = arrival)
    BY <1>2 DEF ReceiveGoesOn, Kept, Idle
  <2> QED BY <1>1, <1>2, <2>1
<1>3. ASSUME \/ UNCHANGED nodeVars
             \/ \E s \in Sockets : Destruct(s)
      PROVE  SoleInv'
  BY <1>1, <1>3 DEF nodeVars, Destruct, vars, bindVars, loopVars
<1>4. ASSUME DisposeStep
      PROVE  SoleInv'
  BY <1>1, <1>4 DEF DisposeStep, Idle, loopVars
<1>5. ASSUME NEW k \in todo, ForwardNext(k)
      PROVE  SoleInv'
  <2>1. todo' = todo \ {k} /\ UNCHANGED arrival
    BY <1>5 DEF ForwardNext, Remaining
  <2> QED BY <2>1 DEF SoleInv
<1>6. ASSUME CallbackReturn
      PROVE  SoleInv'
  BY <1>6 DEF CallbackReturn, SoleInv, vars, bindVars
<1>7. ASSUME NEW s \in Sockets, ApplicationCall(s)
      PROVE  SoleInv'
  BY <1>7 DEF ApplicationCall, ApplicationRuns, Kept, Idle, SoleInv
<1>8. ASSUME \/ \E s \in Sockets : CreateSocket(s)
             \/ \E s \in Sockets : Release(s)
             \/ \E p \in Packets : NewPacket(p) /\ ReceiveGoesOn
             \/ \E x \in inFlight : ReceiveIcmp(x)
             \/ DisposeOfProtocol
      PROVE  SoleInv'
  BY <1>2, <1>8 DEF CreateSocket, Release, NewPacket, ReceiveIcmp,
     DisposeOfProtocol, DoDispose, vars, bindVars
<1>9. ASSUME NEW d \in Datagrams, Receive(d)
      PROVE  SoleInv'
  <2> DEFINE found == IF FallsBack(d) THEN Lookup(AsMapped(d)) ELSE Lookup(d)
  <2>1. /\ arrival' = d /\ callback' = NoSocket /\ UNCHANGED demux
        /\ todo' \in {{}, found}
    BY <1>9 DEF Receive, Idle, vars, bindVars
  <2>2. AsMapped(d).dst = d.dst
    BY ArrivalsAssumption DEF AsMapped
  <2>3. ASSUME d.dst # Group, NEW j \in found, NEW k \in found
        PROVE  j = k
    BY <2>2, <2>3, LookupSole
  <2>4. \A k \in found : demux[k].device => d.interface = "device"
    BY LookupDevice
  <2> HIDE DEF found
  <2> QED BY <2>1, <2>3, <2>4 DEF SoleInv
<1> QED
  BY <1>3, <1>4, <1>5, <1>6, <1>7, <1>8, <1>9
     DEF NodeNext, HandlerStep, ApplicationStep

(* An open socket bound to a device owns what delivers to it, so that is   *)
(* tied to the device.                                                     *)
LEMMA DeliversTied ==
  ASSUME OwnInv, NoOrphans, DeviceInv, status = "running",
         NEW s \in Sockets, m_boundnetdevice[s], ~m_shutdownRecv[s],
         NEW k \in DOMAIN demux, demux[k].rxCallback = s
  PROVE  demux[k].device
<1>1. k # NoEndPoint /\ k.family \in Families
  BY EndPointsAssumption DEF OwnInv, Owned, EndPoints
<1>2. PICK t \in Sockets : m_endPoint[t][k.family] = k
  BY DEF NoOrphans
<1>3. t = s
  BY <1>1, <1>2 DEF OwnInv, Owned
<1> QED BY <1>1, <1>2, <1>3 DEF DeviceInv

LEMMA OnlyDeviceStep ==
  ASSUME OwnInv, HookInv, NoOrphans, Rx!TypeOK, FlagsInv, LoopInv, DeviceInv,
         SoleInv, [NodeNext]_nodeVars, NEW s \in Sockets, m_boundnetdevice[s]
  PROVE  /\ (\E k \in todo' \ todo : demux[k].rxCallback = s) /\ ~m_shutdownRecv[s]
              => arrival'.interface = "device"
         /\ Len(m_deliveryQueue'[s]) > Len(m_deliveryQueue[s]) /\ arrival.dst # Group
              => arrival.interface = "device"
<1>1. ASSUME NEW d \in Datagrams, Receive(d), ~m_shutdownRecv[s],
             NEW k \in todo', demux[k].rxCallback = s
      PROVE  arrival'.interface = "device"
  <2>1. /\ arrival' = d /\ status = "running"
        /\ k \in IF FallsBack(d) THEN Lookup(AsMapped(d)) ELSE Lookup(d)
    BY <1>1 DEF Receive, Calling
  <2>2. k \in DOMAIN demux
    BY <2>1, LookupFinds
  <2>3. demux[k].device
    BY <1>1, <2>1, <2>2, DeliversTied
  <2> QED BY <2>1, <2>3, LookupDevice
<1>2. ASSUME \/ HandlerStep \/ ApplicationStep \/ DisposeOfProtocol
             \/ \E x \in inFlight : ReceiveIcmp(x)
             \/ UNCHANGED nodeVars
      PROVE  todo' \subseteq todo
  BY <1>2 DEF HandlerStep, ApplicationStep, Destruct, ForwardNext, Remaining,
     CallbackReturn, DisposeStep, CreateSocket, Release, ApplicationCall,
     DisposeOfProtocol, ReceiveIcmp, ReceiveGoesOn, nodeVars, loopVars
<1>3. ASSUME NEW k \in todo, ForwardNext(k), arrival.dst # Group,
             Len(m_deliveryQueue'[s]) > Len(m_deliveryQueue[s])
      PROVE  arrival.interface = "device"
  <2>1. Len(m_deliveryQueue[s]) \in Nat
    BY DEF Rx!TypeOK
  <2>2. m_deliveryQueue'[s] # m_deliveryQueue[s]
    BY <1>3, <2>1
  <2>3. k \notin freed /\ EndPointForwardUp(k, arrival)
    BY <1>3, <2>2 DEF ForwardNext, vars, rxVars
  <2>4. k \in DOMAIN demux /\ status = "running"
    BY <1>3, <2>3 DEF LoopInv, EndPointForwardUp
  <2>5. demux[k].rxCallback = s /\ ~m_shutdownRecv[s]
    BY <2>2, <2>3 DEF EndPointForwardUp, Rx!ForwardUp, Rx!vars, Rx!TypeOK
  <2>6. demux[k].device
    BY <2>4, <2>5, DeliversTied
  <2> QED BY <1>3, <2>6 DEF SoleInv
<1>4. ASSUME \/ UNCHANGED nodeVars
             \/ \E t \in Sockets : Destruct(t)
             \/ \E t \in Sockets : CreateSocket(t)
             \/ \E t \in Sockets : Release(t)
             \/ \E p \in Packets : NewPacket(p)
             \/ CallbackReturn \/ DisposeStep \/ DisposeOfProtocol
             \/ \E d \in Datagrams : Receive(d)
             \/ \E x \in inFlight : ReceiveIcmp(x)
      PROVE  UNCHANGED m_deliveryQueue
  BY <1>4 DEF nodeVars, Destruct, CreateSocket, Release, NewPacket,
     CallbackReturn, DisposeStep, DisposeOfProtocol, DoDispose, EndDispose,
     DeleteEndPoint, Stop, Receive, ReceiveIcmp, vars, rxVars
<1>5. ASSUME \/ UNCHANGED m_deliveryQueue
             \/ \E t \in Sockets : ApplicationCall(t)
      PROVE  ~(Len(m_deliveryQueue'[s]) > Len(m_deliveryQueue[s]))
  <2>1. QueuesShrink
    BY <1>5, QueuesAlone, CallsShrinkQueues DEF ApplicationCall
  <2>2. Len(m_deliveryQueue'[s]) <= Len(m_deliveryQueue[s])
    BY <2>1 DEF QueuesShrink
  <2>3. Rx!TypeOK'
    BY HookStep, ReceiveSideStep, ReceiveTyped, NodeStepIsSocketStep
  <2>4. Len(m_deliveryQueue[s]) \in Nat /\ Len(m_deliveryQueue'[s]) \in Nat
    BY <2>3 DEF Rx!TypeOK
  <2> QED BY <2>2, <2>4
<1>6. (\E k \in todo' \ todo : demux[k].rxCallback = s) /\ ~m_shutdownRecv[s]
        => arrival'.interface = "device"
  BY <1>1, <1>2 DEF NodeNext
<1>7. Len(m_deliveryQueue'[s]) > Len(m_deliveryQueue[s]) /\ arrival.dst # Group
        => arrival.interface = "device"
  BY <1>3, <1>4, <1>5 DEF NodeNext, HandlerStep, ApplicationStep
<1> QED BY <1>6, <1>7

(* While the ports last, and if no bound socket is bound again, a socket   *)
(* bound to a device is not found for a datagram that came in by another   *)
(* interface, whatever was bound first and in whichever callback, and      *)
(* hears none but those to a group (rudp-socket-impl.cc:826-855,           *)
(* rudp-l4-protocol.cc:332-369).                                           *)
THEOREM OnlyItsDeviceDelivers ==
  ASSUME Rebinds = {}, EnoughPorts
  PROVE  NodeSpec => OnlyFromItsDevice
<1>1. OwnInv /\ NoOrphans /\ [Next]_vars => NoOrphans'
  BY OrphansStep
<1>2. Rx!TypeOK /\ FlagTypes => FlagsInv
  BY DEF Rx!TypeOK, FlagTypes, FlagsInv
<1>3. LoopInv /\ [NodeNext]_nodeVars => [Next]_vars
  BY NodeStepIsSocketStep
<1>4. OwnInv /\ NoOrphans /\ FlagsInv /\ DeviceInv /\ [Next]_vars => DeviceInv'
  BY DeviceStep
<1>5. OwnInv /\ SoleInv /\ [NodeNext]_nodeVars => SoleInv'
  BY SoleStep
<1>6. NodeInit => NoOrphans /\ DeviceInv /\ SoleInv
  BY DEF NodeInit, Init, NoOrphans, DeviceInv, SoleInv
<1>7. OwnInv /\ HookInv /\ NoOrphans /\ Rx!TypeOK /\ FlagsInv /\ LoopInv
        /\ DeviceInv /\ SoleInv /\ [NodeNext]_nodeVars =>
        [\A s \in Sockets : m_boundnetdevice[s] =>
           /\ (\E k \in todo' \ todo : demux[k].rxCallback = s) /\ ~m_shutdownRecv[s]
                => arrival'.interface = "device"
           /\ Len(m_deliveryQueue'[s]) > Len(m_deliveryQueue[s]) /\ arrival.dst # Group
                => arrival.interface = "device"]_nodeVars
  BY OnlyDeviceStep
<1> QED
  BY <1>1, <1>2, <1>3, <1>4, <1>5, <1>6, <1>7, NodeSockets, PTL
     DEF NodeSpec, OnlyFromItsDevice

===============================================================================
