------------------------ MODULE RudpSocketImpl_proofs ------------------------
(***************************************************************************)
(* The sockets of a node, for every set of sockets, addresses and ports,   *)
(* with every call allowed: types, the ownership of end points, what may   *)
(* be sent and from where, and, of applications that bind no bound socket  *)
(* again, which end points are kept and which given back.                  *)
(***************************************************************************)
EXTENDS RudpSocketImpl, FiniteSetTheorems, TLAPS

(* The strengthening, of a table of end points and the sockets' pointers:  *)
(* both are what they look like, and each pointer is owned.                *)
Owned(table, held) ==
  /\ DOMAIN table \subseteq EndPoints
  /\ table = [k \in DOMAIN table |-> table[k]]
  /\ \A k \in DOMAIN table : table[k] \in EndPointStates
  /\ held \in [Sockets -> [Families -> EndPoints \cup {NoEndPoint}]]
  /\ \A s \in Sockets, f \in Families :
       held[s][f] # NoEndPoint =>
         /\ held[s][f] \in DOMAIN table
         /\ held[s][f].family = f
         /\ table[held[s][f]].rxCallback = s
         /\ table[held[s][f]].destroyCallback = s

OwnInv == Owned(demux, m_endPoint)

LEMMA OwnInvInit == Init => OwnInv
  BY DEF Init, OwnInv, Owned

LEMMA OwnInvMeans == OwnInv => EndPointOwnership
  BY DEF OwnInv, Owned, EndPointOwnership

-------------------------------------------------------------------------------
(***************************************************************************)
(* What the operators the handlers are built from do to ownership.         *)
(***************************************************************************)
(* An end point Allocate returns is new, and of the family asked for.      *)
LEMMA AllocateFacts ==
  ASSUME NEW f \in Families, NEW a \in LocalAddrs \cup {AnyAddr},
         NEW port \in Ports \cup {0}, NEW k \in Allocate(f, a, port),
         k # NoEndPoint
  PROVE  k \in EndPoints /\ k \notin DOMAIN demux /\ k.family = f
<1>1. CASE port = 0
  BY <1>1 DEF Allocate, Ephemeral
<1>2. CASE port # 0
  <2>1. [family |-> f, addr |-> a, port |-> port] \in EndPoints
    BY <1>2 DEF EndPoints
  <2>2. k \in {[family |-> f, addr |-> a, port |-> port]} \ DOMAIN demux
    BY <1>2 DEF Allocate
  <2> QED BY <2>1, <2>2
<1> QED BY <1>1, <1>2

LEMMA BindsFacts ==
  ASSUME NEW b \in Binds
  PROVE  /\ b.family \in Families
         /\ b.addr \in LocalAddrs \cup {AnyAddr}
         /\ b.port \in Ports \cup {0}
  BY BindsAssumption

(* A hooked entry is still an end point's state, with both callbacks.      *)
LEMMA HookedState ==
  ASSUME NEW e \in EndPointStates, NEW s \in Sockets
  PROVE  /\ Hook(e, s) \in EndPointStates
         /\ Hook(e, s).rxCallback = s
         /\ Hook(e, s).destroyCallback = s
  BY DEF EndPointStates, Hook

LEMMA FreshState == Fresh \in EndPointStates
  BY DEF Fresh, EndPointStates

(* FinishBind on a table extended by what was just allocated: mine is what *)
(* the socket points to afterwards, new what Allocate returned.            *)
LEMMA HookedKeeps ==
  ASSUME NEW table, NEW held, Owned(table, held), NEW s \in Sockets,
         NEW new, new \subseteq EndPoints \cup {NoEndPoint},
         new \cap DOMAIN table = {},
         NEW mine \in [Families -> EndPoints \cup {NoEndPoint}],
         \A f \in Families : \/ mine[f] = held[s][f]
                             \/ mine[f] \in new
                             \/ mine[f] = NoEndPoint,
         \A f \in Families : mine[f] # NoEndPoint => mine[f].family = f
  PROVE  Owned(Hooked(With(table, new), s, mine), [held EXCEPT ![s] = mine])
<1> DEFINE all == DOMAIN table \cup (new \ {NoEndPoint})
           wide == With(table, new)
           after == Hooked(wide, s, mine)
           heldAfter == [held EXCEPT ![s] = mine]
<1>1. /\ DOMAIN table \subseteq EndPoints
      /\ \A k \in DOMAIN table : table[k] \in EndPointStates
      /\ held \in [Sockets -> [Families -> EndPoints \cup {NoEndPoint}]]
  BY DEF Owned
<1>2. /\ DOMAIN wide = all
      /\ \A k \in DOMAIN table : wide[k] = table[k]
      /\ \A k \in all \ DOMAIN table : wide[k] = Fresh
  BY DEF With
<1>3. \A k \in all : wide[k] \in EndPointStates
  BY <1>1, <1>2, FreshState
<1> HIDE DEF wide
<1>4. /\ DOMAIN after = all
      /\ after = [k \in DOMAIN after |-> after[k]]
      /\ \A k \in all :
           /\ (\E f \in Families : mine[f] = k) => after[k] = Hook(wide[k], s)
           /\ ~(\E f \in Families : mine[f] = k) => after[k] = wide[k]
  BY <1>2 DEF Hooked
<1> HIDE DEF after
<1>5. \A k \in all : after[k] \in EndPointStates
  BY <1>3, <1>4, HookedState
<1>6. all \subseteq EndPoints
  BY <1>1
<1>7. heldAfter \in [Sockets -> [Families -> EndPoints \cup {NoEndPoint}]]
  BY <1>1
<1>8. ASSUME NEW t \in Sockets, NEW f \in Families,
             heldAfter[t][f] # NoEndPoint
      PROVE  /\ heldAfter[t][f] \in DOMAIN after
             /\ heldAfter[t][f].family = f
             /\ after[heldAfter[t][f]].rxCallback = t
             /\ after[heldAfter[t][f]].destroyCallback = t
  <2>1. CASE t = s
    <3>1. heldAfter[t][f] = mine[f]
      BY <1>1, <2>1
    <3>2. mine[f] \in all /\ mine[f].family = f
      BY <1>8, <3>1 DEF Owned
    <3>3. after[mine[f]] = Hook(wide[mine[f]], s)
      BY <1>4, <3>2
    <3>4. after[mine[f]].rxCallback = s /\ after[mine[f]].destroyCallback = s
      BY <1>3, <3>2, <3>3, HookedState
    <3> QED BY <1>4, <2>1, <3>1, <3>2, <3>4
  <2>2. CASE t # s
    <3> DEFINE k == held[t][f]
    <3>1. heldAfter[t][f] = k
      BY <1>1, <2>2
    <3>2. /\ k \in DOMAIN table
          /\ k.family = f
          /\ table[k].rxCallback = t
          /\ table[k].destroyCallback = t
      BY <1>8, <3>1 DEF Owned
    <3>3. ~\E g \in Families : mine[g] = k
      <4> SUFFICES ASSUME NEW g \in Families, mine[g] = k PROVE FALSE
        OBVIOUS
      <4>1. k # NoEndPoint /\ k \notin new
        BY <1>8, <3>1, <3>2
      <4>2. held[s][g] = k
        BY <4>1
      <4>3. table[k].rxCallback = s
        BY <4>1, <4>2 DEF Owned
      <4> QED BY <2>2, <3>2, <4>3
    <3>4. after[k] = table[k]
      BY <1>2, <1>4, <3>2, <3>3
    <3> QED BY <1>4, <3>1, <3>2, <3>4
  <2> QED BY <2>1, <2>2
<1> HIDE DEF heldAfter
<1>9. Owned(after, heldAfter)
  BY <1>4, <1>5, <1>6, <1>7, <1>8 DEF Owned
<1> QED BY <1>9 DEF after, heldAfter, wide

(* Flags of end points may change; pointers may be cleared.                *)
LEMMA FlagsKeep ==
  ASSUME NEW table, NEW held, Owned(table, held), NEW after,
         DOMAIN after = DOMAIN table,
         after = [k \in DOMAIN after |-> after[k]],
         \A k \in DOMAIN table :
           /\ after[k] \in EndPointStates
           /\ after[k].rxCallback = table[k].rxCallback
           /\ after[k].destroyCallback = table[k].destroyCallback
  PROVE  Owned(after, held)
  BY DEF Owned

LEMMA ClearKeeps ==
  ASSUME NEW table, NEW held, Owned(table, held),
         NEW s \in Sockets, NEW f \in Families
  PROVE  Owned(table, [held EXCEPT ![s] = [held[s] EXCEPT ![f] = NoEndPoint]])
<1> DEFINE after == [held EXCEPT ![s] = [held[s] EXCEPT ![f] = NoEndPoint]]
<1>1. held \in [Sockets -> [Families -> EndPoints \cup {NoEndPoint}]]
  BY DEF Owned
<1>2. after \in [Sockets -> [Families -> EndPoints \cup {NoEndPoint}]]
  BY <1>1
<1>3. \A t \in Sockets, g \in Families :
        after[t][g] = held[t][g] \/ after[t][g] = NoEndPoint
  BY <1>1
<1> HIDE DEF after
<1>4. Owned(table, after)
  BY <1>2, <1>3 DEF Owned
<1> QED BY <1>4 DEF after

-------------------------------------------------------------------------------
(***************************************************************************)
(* One lemma per operation that touches an end point.                      *)
(***************************************************************************)
LEMMA TakeKeeps ==
  ASSUME OwnInv, NEW s \in Sockets, NEW f \in Families,
         NEW a \in LocalAddrs \cup {AnyAddr}, NEW port \in Ports \cup {0},
         NEW k \in Allocate(f, a, port), TakeEndPoint(s, f, k)
  PROVE  OwnInv'
<1> DEFINE mine == Rebound(s, f, k)
<1>1. k = NoEndPoint \/ (k \in EndPoints /\ k \notin DOMAIN demux /\ k.family = f)
  BY AllocateFacts
<1>2. m_endPoint[s] \in [Families -> EndPoints \cup {NoEndPoint}]
  BY DEF OwnInv, Owned
<1>3. mine \in [Families -> EndPoints \cup {NoEndPoint}]
  BY <1>1, <1>2 DEF Rebound
<1>4. \A g \in Families : mine[g] = IF g = f THEN k ELSE m_endPoint[s][g]
  BY <1>2 DEF Rebound
<1>5. \A g \in Families : mine[g] # NoEndPoint => mine[g].family = g
  BY <1>1, <1>4 DEF OwnInv, Owned
<1>6. {k} \subseteq EndPoints \cup {NoEndPoint} /\ {k} \cap DOMAIN demux = {}
  BY <1>1, EndPointsAssumption DEF OwnInv, Owned
<1> HIDE DEF mine
<1>7. Owned(Hooked(With(demux, {k}), s, mine), [m_endPoint EXCEPT ![s] = mine])
  BY <1>3, <1>4, <1>5, <1>6, HookedKeeps DEF OwnInv
<1> QED BY <1>7 DEF TakeEndPoint, OwnInv, mine

LEMMA DeviceKeeps ==
  ASSUME OwnInv, NEW s \in Sockets, BindToNetDevice(s)
  PROVE  OwnInv'
<1>1. CASE UNCHANGED <<demux, m_endPoint>>
  BY <1>1 DEF OwnInv
<1>2. CASE ~(UNCHANGED <<demux, m_endPoint>>)
  <2>1. "v4" \in Families /\ "v6" \in Families
    BY DEF Families
  <2>2. PICK k4 \in HeldOrBound(s, "v4"), k6 \in HeldOrBound(s, "v6") :
          LET both == [Rebound(s, "v4", k4) EXCEPT !["v6"] = k6]
              table == Hooked(With(demux, {k4, k6}), s, both)
          IN  /\ k4 # NoEndPoint /\ k6 # NoEndPoint
              /\ m_endPoint' = [m_endPoint EXCEPT ![s] = both]
              /\ demux' = [k \in DOMAIN table |->
                             IF k \in {k4, k6}
                             THEN [table[k] EXCEPT !.device = TRUE]
                             ELSE table[k]]
    BY <1>2 DEF BindToNetDevice, Silent, Stop, bindVars
  <2> DEFINE new == {k4, k6} \ DOMAIN demux
             both == [Rebound(s, "v4", k4) EXCEPT !["v6"] = k6]
             table == Hooked(With(demux, {k4, k6}), s, both)
             heldAfter == [m_endPoint EXCEPT ![s] = both]
  <2>3. m_endPoint[s] \in [Families -> EndPoints \cup {NoEndPoint}]
    BY DEF OwnInv, Owned
  <2>4. ASSUME NEW f \in Families, NEW k \in HeldOrBound(s, f), k # NoEndPoint
        PROVE  /\ k \in EndPoints /\ k.family = f
               /\ k = m_endPoint[s][f] \/ k \notin DOMAIN demux
    <3>1. CASE m_endPoint[s][f] # NoEndPoint
      BY <3>1, <2>3, <2>4 DEF HeldOrBound, OwnInv, Owned
    <3>2. CASE m_endPoint[s][f] = NoEndPoint
      <4>1. k \in Allocate(f, AnyAddr, 0)
        BY <3>2, <2>4 DEF HeldOrBound
      <4> QED BY <4>1, <2>4, AllocateFacts
    <3> QED BY <3>1, <3>2
  <2>5. both["v4"] = k4 /\ both["v6"] = k6
    BY <2>1, <2>3 DEF Rebound
  <2>6. both \in [Families -> EndPoints \cup {NoEndPoint}]
    BY <2>1, <2>2, <2>3, <2>4 DEF Rebound
  <2>7. With(demux, {k4, k6}) = With(demux, new)
    BY DEF With
  <2>8. ASSUME NEW f \in Families
        PROVE  /\ both[f] = m_endPoint[s][f] \/ both[f] \in new
               /\ both[f] # NoEndPoint => both[f].family = f
    BY <2>1, <2>2, <2>4, <2>5 DEF Families
  <2>9. new \subseteq EndPoints \cup {NoEndPoint} /\ new \cap DOMAIN demux = {}
    BY <2>1, <2>2, <2>4
  <2> HIDE DEF new, both
  <2>10. Owned(Hooked(With(demux, new), s, both), heldAfter)
    BY <2>6, <2>8, <2>9, HookedKeeps DEF OwnInv
  <2>11. Owned(table, heldAfter)
    BY <2>7, <2>10
  <2> HIDE DEF table, heldAfter
  <2>12. /\ demux' = [k \in DOMAIN table |->
                        IF k \in {k4, k6}
                        THEN [table[k] EXCEPT !.device = TRUE]
                        ELSE table[k]]
         /\ m_endPoint' = heldAfter
    BY <2>2 DEF table, heldAfter, both
  <2>13. ASSUME NEW k \in DOMAIN table
         PROVE  /\ demux'[k] \in EndPointStates
                /\ demux'[k].rxCallback = table[k].rxCallback
                /\ demux'[k].destroyCallback = table[k].destroyCallback
    <3>1. table[k] \in EndPointStates
      BY <2>11 DEF Owned
    <3>2. demux'[k] = table[k] \/ demux'[k] = [table[k] EXCEPT !.device = TRUE]
      BY <2>12
    <3> QED BY <3>1, <3>2 DEF EndPointStates
  <2>14. DOMAIN demux' = DOMAIN table /\ demux' = [k \in DOMAIN demux' |-> demux'[k]]
    BY <2>12
  <2>15. Owned(demux', heldAfter)
    BY <2>11, <2>13, <2>14, FlagsKeep
  <2> QED BY <2>12, <2>15 DEF OwnInv
<1> QED BY <1>1, <1>2

LEMMA BindAddressKeeps ==
  ASSUME OwnInv, NEW s \in Sockets, NEW f \in Families,
         NEW a \in LocalAddrs \cup {AnyAddr}, NEW port \in Ports \cup {0},
         BindAddress(s, f, a, port)
  PROVE  OwnInv'
<1>1. PICK k \in Allocate(f, a, port) :
        \/ /\ k = NoEndPoint
           /\ m_endPoint' = [m_endPoint EXCEPT ![s] = Rebound(s, f, NoEndPoint)]
           /\ UNCHANGED demux
        \/ TakeEndPoint(s, f, k)
  BY DEF BindAddress
<1>2. CASE TakeEndPoint(s, f, k)
  BY <1>2, TakeKeeps
<1>3. CASE /\ m_endPoint' = [m_endPoint EXCEPT ![s] = Rebound(s, f, NoEndPoint)]
           /\ UNCHANGED demux
  BY <1>3, ClearKeeps DEF OwnInv, Rebound
<1> QED BY <1>1, <1>2, <1>3

LEMMA ShutdownRecvKeeps ==
  ASSUME OwnInv, NEW s \in Sockets, ShutdownRecv(s)
  PROVE  OwnInv'
<1>1. /\ DOMAIN demux' = DOMAIN demux
      /\ demux' = [k \in DOMAIN demux' |-> demux'[k]]
      /\ m_endPoint' = m_endPoint
      /\ \A k \in DOMAIN demux :
           demux'[k] = demux[k] \/ demux'[k] = [demux[k] EXCEPT !.rxEnabled = FALSE]
  BY DEF ShutdownRecv
<1>2. ASSUME NEW k \in DOMAIN demux
      PROVE  /\ demux'[k] \in EndPointStates
             /\ demux'[k].rxCallback = demux[k].rxCallback
             /\ demux'[k].destroyCallback = demux[k].destroyCallback
  <2>1. demux[k] \in EndPointStates
    BY DEF OwnInv, Owned
  <2> QED BY <1>1, <2>1 DEF EndPointStates
<1> QED BY <1>1, <1>2, FlagsKeep DEF OwnInv

LEMMA CloseKeeps ==
  ASSUME OwnInv, NEW s \in Sockets, Close(s)
  PROVE  OwnInv'
<1>1. CASE UNCHANGED <<demux, m_endPoint>>
  BY <1>1 DEF OwnInv
<1>2. CASE DeallocateEndPoint(s)
  <2> DEFINE gone == {m_endPoint[s][f] : f \in Families}
  <2>1. m_endPoint \in [Sockets -> [Families -> EndPoints \cup {NoEndPoint}]]
    BY DEF OwnInv, Owned
  <2>2. /\ DOMAIN demux' = DOMAIN demux \ gone
        /\ demux' = [k \in DOMAIN demux' |-> demux'[k]]
        /\ \A k \in DOMAIN demux' : demux'[k] = demux[k]
    BY <1>2 DEF DeallocateEndPoint, Without
  <2>3. m_endPoint' = [m_endPoint EXCEPT ![s] = [f \in Families |-> NoEndPoint]]
    BY <1>2 DEF DeallocateEndPoint
  <2>4. m_endPoint' \in [Sockets -> [Families -> EndPoints \cup {NoEndPoint}]]
    BY <2>1, <2>3
  <2>5. ASSUME NEW t \in Sockets, NEW f \in Families,
               m_endPoint'[t][f] # NoEndPoint
        PROVE  /\ m_endPoint'[t][f] \in DOMAIN demux'
               /\ m_endPoint'[t][f].family = f
               /\ demux'[m_endPoint'[t][f]].rxCallback = t
               /\ demux'[m_endPoint'[t][f]].destroyCallback = t
    <3>1. t # s /\ m_endPoint'[t][f] = m_endPoint[t][f]
      BY <2>1, <2>3, <2>5
    <3>2. /\ m_endPoint[t][f] \in DOMAIN demux
          /\ m_endPoint[t][f].family = f
          /\ demux[m_endPoint[t][f]].rxCallback = t
          /\ demux[m_endPoint[t][f]].destroyCallback = t
      BY <2>5, <3>1 DEF OwnInv, Owned
    <3>3. m_endPoint[t][f] \notin gone
      BY <2>5, <3>1, <3>2 DEF OwnInv, Owned
    <3> QED BY <2>2, <3>1, <3>2, <3>3
  <2>6. /\ DOMAIN demux' \subseteq EndPoints
        /\ \A k \in DOMAIN demux' : demux'[k] \in EndPointStates
    BY <2>2 DEF OwnInv, Owned
  <2> QED BY <2>2, <2>4, <2>5, <2>6 DEF OwnInv, Owned
<1> QED BY <1>1, <1>2 DEF Close, Refuse, bindVars

(* Deleting an end point clears the pointer at it, which is its owner's.    *)
LEMMA DeleteKeeps ==
  ASSUME OwnInv, NEW k \in DOMAIN demux, DeleteEndPoint(k)
  PROVE  OwnInv'
<1>1. m_endPoint \in [Sockets -> [Families -> EndPoints \cup {NoEndPoint}]]
  BY DEF OwnInv, Owned
<1>2. /\ DOMAIN demux' = DOMAIN demux \ {k}
      /\ demux' = [j \in DOMAIN demux' |-> demux'[j]]
      /\ \A j \in DOMAIN demux' : demux'[j] = demux[j]
  BY DEF DeleteEndPoint, Without
<1>3. \A s \in Sockets, f \in Families :
        m_endPoint'[s][f] = IF f = k.family /\ s = demux[k].destroyCallback
                            THEN NoEndPoint
                            ELSE m_endPoint[s][f]
  BY DEF DeleteEndPoint, Destroyed
<1>4. m_endPoint' \in [Sockets -> [Families -> EndPoints \cup {NoEndPoint}]]
  BY <1>1 DEF DeleteEndPoint, Destroyed
<1>5. ASSUME NEW t \in Sockets, NEW f \in Families,
             m_endPoint'[t][f] # NoEndPoint
      PROVE  /\ m_endPoint'[t][f] \in DOMAIN demux'
             /\ m_endPoint'[t][f].family = f
             /\ demux'[m_endPoint'[t][f]].rxCallback = t
             /\ demux'[m_endPoint'[t][f]].destroyCallback = t
  <2>1. m_endPoint'[t][f] = m_endPoint[t][f]
    BY <1>3, <1>5
  <2>2. /\ m_endPoint[t][f] \in DOMAIN demux
        /\ m_endPoint[t][f].family = f
        /\ demux[m_endPoint[t][f]].rxCallback = t
        /\ demux[m_endPoint[t][f]].destroyCallback = t
    BY <1>5, <2>1 DEF OwnInv, Owned
  <2>3. m_endPoint[t][f] # k
    BY <1>3, <1>5, <2>2
  <2> QED BY <1>2, <2>1, <2>2, <2>3
<1>6. /\ DOMAIN demux' \subseteq EndPoints
      /\ \A j \in DOMAIN demux' : demux'[j] \in EndPointStates
  BY <1>2 DEF OwnInv, Owned
<1> QED BY <1>2, <1>4, <1>5, <1>6 DEF OwnInv, Owned

LEMMA DoSendToKeeps ==
  ASSUME OwnInv, NEW s \in Sockets, NEW p, NEW d, DoSendTo(s, p, d)
  PROVE  OwnInv'
<1> DEFINE f == PathFamily(d)
<1>1. f \in Families
  BY DEF PathFamily, Families
<1>2. CASE UNCHANGED <<demux, m_endPoint>>
  BY <1>2 DEF OwnInv
<1>3. CASE ~(UNCHANGED <<demux, m_endPoint>>)
  <2>1. PICK k \in HeldOrBound(s, f) :
          k # m_endPoint[s][f] /\ TakeEndPoint(s, f, k)
    BY <1>3 DEF DoSendTo, Stop, bindVars
  <2>2. k \in Allocate(f, AnyAddr, 0)
    BY <2>1 DEF HeldOrBound
  <2> QED BY <1>1, <2>1, <2>2, TakeKeeps
<1> QED BY <1>2, <1>3

-------------------------------------------------------------------------------
LEMMA OwnInvStep ==
  ASSUME OwnInv, [Next]_vars
  PROVE  OwnInv'
<1>1. CASE UNCHANGED <<demux, m_endPoint>>
  BY <1>1 DEF OwnInv
<1>2. ASSUME NEW s \in Sockets, NEW f \in Families, Bind(s, f)
      PROVE  OwnInv'
  <2>1. PICK k \in Allocate(f, AnyAddr, 0) : TakeEndPoint(s, f, k)
    BY <1>2 DEF Bind
  <2> QED BY <2>1, TakeKeeps
<1>3. ASSUME NEW s \in Sockets, NEW p \in Packets, Send(s, p)
      PROVE  OwnInv'
  BY <1>1, <1>3, DoSendToKeeps DEF Send, Refuse, bindVars
<1>4. ASSUME NEW s \in Sockets, NEW p \in Packets, NEW d \in Dests,
             SendTo(s, p, d)
      PROVE  OwnInv'
  BY <1>1, <1>4, DoSendToKeeps DEF SendTo, bindVars
<1>5. ASSUME NEW s \in Sockets,
             \/ BindInvalid(s) \/ ShutdownSend(s) \/ Listen(s) \/ GetPeerName(s)
             \/ \E d \in Dests : Connect(s, d)
             \/ \E discover \in BOOLEAN : SetMtuDiscover(s, discover)
             \/ \E n \in ReadSizes : Recv(s, n)
             \/ \E n \in BufSizes : SetRcvBufSize(s, n)
      PROVE  UNCHANGED <<demux, m_endPoint>>
  BY <1>5 DEF BindInvalid, ShutdownSend, Listen, GetPeerName, Connect,
     SetMtuDiscover, Recv, SetRcvBufSize, Refuse, Receiving, bindVars
<1>6. ASSUME \/ \E p \in Packets : NewPacket(p)
             \/ \E k \in DOMAIN demux, d \in Datagrams : EndPointForwardUp(k, d)
             \/ DoDispose \/ EndDispose
             \/ UNCHANGED vars
      PROVE  UNCHANGED <<demux, m_endPoint>>
  BY <1>6 DEF NewPacket, EndPointForwardUp, Receiving, DoDispose, EndDispose,
     Stop, bindVars, vars
<1>7. ASSUME NEW s \in Sockets, NEW b \in Binds,
             BindAddress(s, b.family, b.addr, b.port)
      PROVE  OwnInv'
  BY <1>7, BindsFacts, BindAddressKeeps
<1>8. ASSUME NEW s \in Sockets,
             BindToNetDevice(s) \/ ShutdownRecv(s) \/ Close(s)
      PROVE  OwnInv'
  BY <1>8, DeviceKeeps, ShutdownRecvKeeps, CloseKeeps
<1>9. ASSUME NEW k \in DOMAIN demux, DeleteEndPoint(k)
      PROVE  OwnInv'
  BY <1>9, DeleteKeeps
<1> QED
  BY <1>1, <1>2, <1>3, <1>4, <1>5, <1>6, <1>7, <1>8, <1>9 DEF Next, SocketCall

(* Whatever sockets bind, rebind, send, shut and close in whatever order,  *)
(* no pointer of a socket dangles and no end point is shared: each pointer *)
(* is in its family's table with both callbacks into its own socket, until *)
(* disposing of the protocol clears them all (rudp-socket-impl.cc:170-315, *)
(* 341-355, rudp-l4-protocol.cc:133-152).                                  *)
THEOREM Ownership == Spec => []EndPointOwnership
<1>1. OwnInv /\ [Next]_vars => OwnInv'
  BY OwnInvStep
<1> QED BY <1>1, OwnInvInit, OwnInvMeans, PTL DEF Spec

-------------------------------------------------------------------------------
(***************************************************************************)
(* What is handed to the IP layer.                                         *)
(***************************************************************************)
(* The last step sent nothing, or a datagram of a socket that is not shut  *)
(* for sending, from an end point it holds.                                *)
SentBySender ==
  sent # NoDatagram =>
    /\ sent.sock \in Sockets
    /\ ~m_shutdownSend[sent.sock]
    /\ sent.endPoint # NoEndPoint
    /\ sent.endPoint.family \in Families
    /\ m_endPoint[sent.sock][sent.endPoint.family] = sent.endPoint

LEMMA DoSendToSends ==
  ASSUME OwnInv, NEW s \in Sockets, NEW p, NEW d, DoSendTo(s, p, d),
         sent' # NoDatagram
  PROVE  SentBySender'
<1> DEFINE f == PathFamily(d)
<1>1. f \in Families
  BY DEF PathFamily, Families
<1>2. PICK k \in HeldOrBound(s, f) :
        /\ k # NoEndPoint
        /\ IF k = m_endPoint[s][f]
           THEN UNCHANGED <<demux, m_endPoint>>
           ELSE TakeEndPoint(s, f, k)
        /\ Transmit(s, p, d, k)
        /\ UNCHANGED m_shutdownSend
  BY DEF DoSendTo, Silent, Stop, flagVars
<1>3. m_endPoint \in [Sockets -> [Families -> EndPoints \cup {NoEndPoint}]]
  BY DEF OwnInv, Owned
<1>4. k.family = f
  <2>1. CASE m_endPoint[s][f] # NoEndPoint
    BY <1>1, <1>2, <2>1 DEF HeldOrBound, OwnInv, Owned
  <2>2. CASE m_endPoint[s][f] = NoEndPoint
    <3>1. k \in Allocate(f, AnyAddr, 0)
      BY <1>2, <2>2 DEF HeldOrBound
    <3> QED BY <1>1, <1>2, <3>1, AllocateFacts
  <2> QED BY <2>1, <2>2
<1>5. m_endPoint'[s][f] = k
  BY <1>1, <1>2, <1>3 DEF TakeEndPoint, Rebound
<1>6. sent' = Datagram(s, p, d, k) /\ Refusals(s, p) = {}
  BY <1>2 DEF Transmit
<1>7. sent'.sock = s /\ sent'.endPoint = k
  BY <1>6 DEF Datagram
<1>8. ~m_shutdownSend[s]
  BY <1>6 DEF Refusals
<1> QED BY <1>1, <1>2, <1>4, <1>5, <1>7, <1>8 DEF SentBySender

LEMMA SentStep ==
  ASSUME OwnInv, SentBySender, [Next]_vars
  PROVE  SentBySender'
<1>1. CASE sent' = NoDatagram
  BY <1>1 DEF SentBySender
<1>2. CASE UNCHANGED vars
  BY <1>2 DEF SentBySender, vars, bindVars, flagVars
<1>3. ASSUME NEW s \in Sockets, NEW p \in Packets, Send(s, p)
      PROVE  SentBySender'
  BY <1>1, <1>3, DoSendToSends DEF Send, Refuse
<1>4. ASSUME NEW s \in Sockets, NEW p \in Packets, NEW d \in Dests,
             SendTo(s, p, d)
      PROVE  SentBySender'
  BY <1>1, <1>4, DoSendToSends DEF SendTo, Silent
<1>5. ASSUME NEW s \in Sockets,
             \/ \E f \in Families : Bind(s, f)
             \/ \E b \in Binds : BindAddress(s, b.family, b.addr, b.port)
             \/ BindInvalid(s) \/ BindToNetDevice(s)
             \/ ShutdownSend(s) \/ ShutdownRecv(s) \/ Close(s)
             \/ Listen(s) \/ GetPeerName(s)
             \/ \E d \in Dests : Connect(s, d)
             \/ \E discover \in BOOLEAN : SetMtuDiscover(s, discover)
             \/ \E n \in ReadSizes : Recv(s, n)
             \/ \E n \in BufSizes : SetRcvBufSize(s, n)
      PROVE  sent' = NoDatagram
  BY <1>5 DEF Bind, BindAddress, BindInvalid, BindToNetDevice, ShutdownSend,
     ShutdownRecv, Close, Listen, GetPeerName, Connect, SetMtuDiscover, Recv,
     SetRcvBufSize, Silent, Stop, Refuse, Receiving
<1>6. ASSUME \/ \E p \in Packets : NewPacket(p)
             \/ \E k \in DOMAIN demux, d \in Datagrams : EndPointForwardUp(k, d)
             \/ DoDispose \/ EndDispose
             \/ \E k \in DOMAIN demux : DeleteEndPoint(k)
      PROVE  sent' = NoDatagram
  BY <1>6 DEF NewPacket, EndPointForwardUp, Receiving, DoDispose, EndDispose,
     Stop, DeleteEndPoint
<1> QED BY <1>1, <1>2, <1>3, <1>4, <1>5, <1>6 DEF Next, SocketCall

LEMMA SentInit == Init => SentBySender
  BY DEF Init, SentBySender

(* "Send no longer allowed": a socket shut for sending or closed sends     *)
(* nothing, through Send or SendTo, not even after SendTo has bound it     *)
(* again (rudp-socket-impl.h:222, rudp-socket-impl.cc:489-502, 601-614).   *)
THEOREM ShutSocketsAreSilent == Spec => []NoSendAfterShutdown
<1>1. OwnInv /\ [Next]_vars => OwnInv'
  BY OwnInvStep
<1>2. OwnInv /\ SentBySender /\ [Next]_vars => SentBySender'
  BY SentStep
<1>3. SentBySender => NoSendAfterShutdown
  BY DEF SentBySender, NoSendAfterShutdown
<1> QED BY <1>1, <1>2, <1>3, OwnInvInit, SentInit, PTL DEF Spec

-------------------------------------------------------------------------------
(***************************************************************************)
(* Applications that never bind a bound socket again.                      *)
(***************************************************************************)
(* A step that keeps every pointer and hands each new end point to a       *)
(* socket leaves no orphan.                                                *)
LEMMA GrowthKeeps ==
  ASSUME OwnInv, NoOrphans,
         \A s \in Sockets, f \in Families :
           m_endPoint[s][f] # NoEndPoint => m_endPoint'[s][f] = m_endPoint[s][f],
         \A k \in DOMAIN demux' \ DOMAIN demux :
           \E s \in Sockets : m_endPoint'[s][k.family] = k
  PROVE  NoOrphans'
<1> SUFFICES ASSUME NEW k \in DOMAIN demux'
             PROVE  \E s \in Sockets : m_endPoint'[s][k.family] = k
  BY DEF NoOrphans
<1>1. CASE k \in DOMAIN demux
  <2>1. k \in EndPoints
    BY <1>1 DEF OwnInv, Owned
  <2>2. k # NoEndPoint /\ k.family \in Families
    BY <2>1, EndPointsAssumption DEF EndPoints
  <2>3. PICK s \in Sockets : m_endPoint[s][k.family] = k
    BY <1>1 DEF NoOrphans
  <2> QED BY <2>2, <2>3
<1>2. CASE k \notin DOMAIN demux
  BY <1>2
<1> QED BY <1>1, <1>2

LEMMA TakeOrphansNone ==
  ASSUME OwnInv, NoOrphans, NEW s \in Sockets, NEW f \in Families,
         m_endPoint[s][f] = NoEndPoint,
         NEW a \in LocalAddrs \cup {AnyAddr}, NEW port \in Ports \cup {0},
         NEW k \in Allocate(f, a, port), TakeEndPoint(s, f, k)
  PROVE  NoOrphans'
<1>1. m_endPoint \in [Sockets -> [Families -> EndPoints \cup {NoEndPoint}]]
  BY DEF OwnInv, Owned
<1>2. m_endPoint' = [m_endPoint EXCEPT ![s] = [m_endPoint[s] EXCEPT ![f] = k]]
  BY DEF TakeEndPoint, Rebound
<1>3. \A t \in Sockets, g \in Families :
        m_endPoint[t][g] # NoEndPoint => m_endPoint'[t][g] = m_endPoint[t][g]
  BY <1>1, <1>2
<1>4. DOMAIN demux' = DOMAIN demux \cup ({k} \ {NoEndPoint})
  BY DEF TakeEndPoint, Hooked, With
<1>5. ASSUME k # NoEndPoint
      PROVE  m_endPoint'[s][k.family] = k
  <2>1. k.family = f
    BY <1>5, AllocateFacts
  <2>2. m_endPoint'[s][f] = k
    BY <1>1, <1>2
  <2> QED BY <2>1, <2>2
<1> QED BY <1>3, <1>4, <1>5, GrowthKeeps

LEMMA DeviceOrphansNone ==
  ASSUME OwnInv, NoOrphans, NEW s \in Sockets, BindToNetDevice(s)
  PROVE  NoOrphans'
<1>1. CASE UNCHANGED <<demux, m_endPoint>>
  BY <1>1 DEF NoOrphans
<1>2. CASE ~(UNCHANGED <<demux, m_endPoint>>)
  <2>1. "v4" \in Families /\ "v6" \in Families
    BY DEF Families
  <2>2. m_endPoint \in [Sockets -> [Families -> EndPoints \cup {NoEndPoint}]]
    BY DEF OwnInv, Owned
  <2>3. PICK k4 \in HeldOrBound(s, "v4"), k6 \in HeldOrBound(s, "v6") :
          /\ k4 # NoEndPoint /\ k6 # NoEndPoint
          /\ m_endPoint' =
               [m_endPoint EXCEPT
                  ![s] = [[m_endPoint[s] EXCEPT !["v4"] = k4] EXCEPT !["v6"] = k6]]
          /\ DOMAIN demux' = DOMAIN demux \cup ({k4, k6} \ {NoEndPoint})
    <3>1. PICK k4 \in HeldOrBound(s, "v4"), k6 \in HeldOrBound(s, "v6") :
            LET both == [Rebound(s, "v4", k4) EXCEPT !["v6"] = k6]
            IN  /\ k4 # NoEndPoint /\ k6 # NoEndPoint
                /\ m_endPoint' = [m_endPoint EXCEPT ![s] = both]
                /\ DOMAIN demux' = DOMAIN Hooked(With(demux, {k4, k6}), s, both)
      BY <1>2 DEF BindToNetDevice, Silent, Stop, bindVars
    <3> QED BY <3>1 DEF Rebound, Hooked, With
  <2>4. m_endPoint'[s]["v4"] = k4 /\ m_endPoint'[s]["v6"] = k6
    BY <2>1, <2>2, <2>3
  <2>5. ASSUME NEW f \in Families, NEW k \in HeldOrBound(s, f), k # NoEndPoint
        PROVE  /\ k.family = f
               /\ m_endPoint[s][f] # NoEndPoint => k = m_endPoint[s][f]
    <3>1. CASE m_endPoint[s][f] # NoEndPoint
      BY <3>1, <2>2, <2>5 DEF HeldOrBound, OwnInv, Owned
    <3>2. CASE m_endPoint[s][f] = NoEndPoint
      <4>1. k \in Allocate(f, AnyAddr, 0)
        BY <3>2, <2>5 DEF HeldOrBound
      <4> QED BY <3>2, <4>1, <2>5, AllocateFacts
    <3> QED BY <3>1, <3>2
  <2>6. /\ k4.family = "v4"
        /\ m_endPoint[s]["v4"] # NoEndPoint => k4 = m_endPoint[s]["v4"]
        /\ k6.family = "v6"
        /\ m_endPoint[s]["v6"] # NoEndPoint => k6 = m_endPoint[s]["v6"]
    BY <2>1, <2>3, <2>5
  <2>7. ASSUME NEW t \in Sockets, NEW f \in Families,
               m_endPoint[t][f] # NoEndPoint
        PROVE  m_endPoint'[t][f] = m_endPoint[t][f]
    <3>1. CASE t = s
      BY <2>4, <2>6, <2>7, <3>1 DEF Families
    <3>2. CASE t # s
      BY <2>2, <2>3, <3>2
    <3> QED BY <3>1, <3>2
  <2>8. ASSUME NEW k \in DOMAIN demux' \ DOMAIN demux
        PROVE  \E t \in Sockets : m_endPoint'[t][k.family] = k
    BY <2>3, <2>4, <2>6, <2>8
  <2> QED BY <2>7, <2>8, GrowthKeeps
<1> QED BY <1>1, <1>2

LEMMA CloseOrphansNone ==
  ASSUME OwnInv, NoOrphans, NEW s \in Sockets, Close(s)
  PROVE  NoOrphans'
<1>1. CASE UNCHANGED <<demux, m_endPoint>>
  BY <1>1 DEF NoOrphans
<1>2. CASE DeallocateEndPoint(s)
  <2>1. m_endPoint \in [Sockets -> [Families -> EndPoints \cup {NoEndPoint}]]
    BY DEF OwnInv, Owned
  <2> SUFFICES ASSUME NEW k \in DOMAIN demux'
               PROVE  \E t \in Sockets : m_endPoint'[t][k.family] = k
    BY DEF NoOrphans
  <2>2. k \in DOMAIN demux /\ ~\E f \in Families : m_endPoint[s][f] = k
    BY <1>2 DEF DeallocateEndPoint, Without
  <2>3. k.family \in Families
    BY <2>2 DEF OwnInv, Owned, EndPoints
  <2>4. PICK t \in Sockets : m_endPoint[t][k.family] = k
    BY <2>2 DEF NoOrphans
  <2>5. t # s
    BY <2>2, <2>3, <2>4
  <2>6. m_endPoint'[t] = m_endPoint[t]
    BY <1>2, <2>1, <2>5 DEF DeallocateEndPoint
  <2> QED BY <2>4, <2>6
<1> QED BY <1>1, <1>2 DEF Close, Refuse, bindVars

LEMMA DoSendToOrphansNone ==
  ASSUME OwnInv, NoOrphans, NEW s \in Sockets, NEW p, NEW d, DoSendTo(s, p, d)
  PROVE  NoOrphans'
<1> DEFINE f == PathFamily(d)
<1>1. f \in Families
  BY DEF PathFamily, Families
<1>2. CASE UNCHANGED <<demux, m_endPoint>>
  BY <1>2 DEF NoOrphans
<1>3. CASE ~(UNCHANGED <<demux, m_endPoint>>)
  <2>1. PICK k \in HeldOrBound(s, f) :
          k # m_endPoint[s][f] /\ TakeEndPoint(s, f, k)
    BY <1>3 DEF DoSendTo, Stop, bindVars
  <2>2. m_endPoint[s][f] = NoEndPoint /\ k \in Allocate(f, AnyAddr, 0)
    BY <2>1 DEF HeldOrBound
  <2> QED BY <1>1, <2>1, <2>2, TakeOrphansNone
<1> QED BY <1>2, <1>3

LEMMA DeleteOrphansNone ==
  ASSUME OwnInv, NoOrphans, NEW k \in DOMAIN demux, DeleteEndPoint(k)
  PROVE  NoOrphans'
<1> SUFFICES ASSUME NEW j \in DOMAIN demux'
             PROVE  \E s \in Sockets : m_endPoint'[s][j.family] = j
  BY DEF NoOrphans
<1>1. j \in DOMAIN demux /\ j # k
  BY DEF DeleteEndPoint, Without
<1>2. /\ j \in EndPoints /\ k \in EndPoints
      /\ j.family \in Families /\ k.family \in Families
      /\ j # NoEndPoint /\ k # NoEndPoint
  BY <1>1, EndPointsAssumption DEF OwnInv, Owned, EndPoints
<1>3. PICK s \in Sockets : m_endPoint[s][j.family] = j
  BY <1>1 DEF NoOrphans
<1>4. PICK t \in Sockets : m_endPoint[t][k.family] = k
  BY DEF NoOrphans
<1>5. demux[k].destroyCallback = t
  BY <1>2, <1>4 DEF OwnInv, Owned
<1>6. ~(j.family = k.family /\ s = demux[k].destroyCallback)
  BY <1>1, <1>3, <1>4, <1>5
<1>7. m_endPoint'[s][j.family] = m_endPoint[s][j.family]
  BY <1>2, <1>6 DEF DeleteEndPoint, Destroyed
<1> QED BY <1>3, <1>7

LEMMA BindAddressOrphansNone ==
  ASSUME Rebinds = {}, OwnInv, NoOrphans, NEW s \in Sockets,
         NEW f \in Families, NEW a \in LocalAddrs \cup {AnyAddr},
         NEW port \in Ports \cup {0}, BindAddress(s, f, a, port)
  PROVE  NoOrphans'
<1>1. m_endPoint \in [Sockets -> [Families -> EndPoints \cup {NoEndPoint}]]
  BY DEF OwnInv, Owned
<1>2. m_endPoint[s][f] = NoEndPoint
  BY DEF BindAddress
<1>3. CASE \E k \in Allocate(f, a, port) : TakeEndPoint(s, f, k)
  BY <1>2, <1>3, TakeOrphansNone
<1>4. CASE /\ m_endPoint' = [m_endPoint EXCEPT ![s] = Rebound(s, f, NoEndPoint)]
           /\ UNCHANGED demux
  <2>1. m_endPoint' = m_endPoint
    BY <1>1, <1>2, <1>4 DEF Rebound
  <2> QED BY <1>4, <2>1 DEF NoOrphans
<1> QED BY <1>3, <1>4 DEF BindAddress

LEMMA OrphansStep ==
  ASSUME Rebinds = {}, OwnInv, NoOrphans, [Next]_vars
  PROVE  NoOrphans'
<1>1. CASE UNCHANGED <<demux, m_endPoint>>
  BY <1>1 DEF NoOrphans
<1>2. ASSUME NEW s \in Sockets, NEW f \in Families, Bind(s, f)
      PROVE  NoOrphans'
  <2>1. /\ m_endPoint[s][f] = NoEndPoint
        /\ \E k \in Allocate(f, AnyAddr, 0) : TakeEndPoint(s, f, k)
    BY <1>2 DEF Bind
  <2> QED BY <2>1, TakeOrphansNone
<1>3. ASSUME NEW s \in Sockets, NEW b \in Binds,
             BindAddress(s, b.family, b.addr, b.port)
      PROVE  NoOrphans'
  BY <1>3, BindsFacts, BindAddressOrphansNone
<1>4. ASSUME NEW s \in Sockets, ShutdownRecv(s)
      PROVE  NoOrphans'
  BY <1>4 DEF ShutdownRecv, NoOrphans
<1>5. ASSUME NEW s \in Sockets, BindToNetDevice(s) \/ Close(s)
      PROVE  NoOrphans'
  BY <1>5, DeviceOrphansNone, CloseOrphansNone
<1>6. ASSUME NEW s \in Sockets, NEW p \in Packets, Send(s, p)
      PROVE  NoOrphans'
  BY <1>1, <1>6, DoSendToOrphansNone DEF Send, Refuse, bindVars
<1>7. ASSUME NEW s \in Sockets, NEW p \in Packets, NEW d \in Dests,
             SendTo(s, p, d)
      PROVE  NoOrphans'
  BY <1>1, <1>7, DoSendToOrphansNone DEF SendTo, bindVars
<1>8. ASSUME NEW s \in Sockets,
             \/ BindInvalid(s) \/ ShutdownSend(s) \/ Listen(s) \/ GetPeerName(s)
             \/ \E d \in Dests : Connect(s, d)
             \/ \E discover \in BOOLEAN : SetMtuDiscover(s, discover)
             \/ \E n \in ReadSizes : Recv(s, n)
             \/ \E n \in BufSizes : SetRcvBufSize(s, n)
      PROVE  UNCHANGED <<demux, m_endPoint>>
  BY <1>8 DEF BindInvalid, ShutdownSend, Listen, GetPeerName, Connect,
     SetMtuDiscover, Recv, SetRcvBufSize, Refuse, Receiving, bindVars
<1>9. ASSUME \/ \E p \in Packets : NewPacket(p)
             \/ \E k \in DOMAIN demux, d \in Datagrams : EndPointForwardUp(k, d)
             \/ DoDispose \/ EndDispose
             \/ UNCHANGED vars
      PROVE  UNCHANGED <<demux, m_endPoint>>
  BY <1>9 DEF NewPacket, EndPointForwardUp, Receiving, DoDispose, EndDispose,
     Stop, bindVars, vars
<1>10. ASSUME NEW k \in DOMAIN demux, DeleteEndPoint(k)
       PROVE  NoOrphans'
  BY <1>10, DeleteOrphansNone
<1> QED
  BY <1>1, <1>2, <1>3, <1>4, <1>5, <1>6, <1>7, <1>8, <1>9, <1>10
     DEF Next, SocketCall

(* An application that never binds a bound socket again loses no port: at  *)
(* any time the end points allocated are those some socket points to, and  *)
(* a port is in use only while a socket holds it                           *)
(* (rudp-socket-impl.cc:184-242, 341-355).                                 *)
THEOREM NoPortIsLost ==
  ASSUME Rebinds = {}
  PROVE  Spec => []NoOrphans
<1>1. OwnInv /\ [Next]_vars => OwnInv'
  BY OwnInvStep
<1>2. OwnInv /\ NoOrphans /\ [Next]_vars => NoOrphans'
  BY OrphansStep
<1>3. Init => NoOrphans
  BY DEF Init, NoOrphans
<1> QED BY <1>1, <1>2, <1>3, OwnInvInit, PTL DEF Spec

-------------------------------------------------------------------------------
(***************************************************************************)
(* What keeps the pointers of a socket that are not null.                  *)
(***************************************************************************)
PointersKept(s) ==
  \A f \in Families :
    m_endPoint[s][f] # NoEndPoint => m_endPoint'[s][f] = m_endPoint[s][f]

LEMMA TakeKeepsPointers ==
  ASSUME OwnInv, NEW s \in Sockets, NEW f \in Families, NEW k,
         m_endPoint[s][f] = NoEndPoint,
         m_endPoint' = [m_endPoint EXCEPT ![s] = Rebound(s, f, k)],
         NEW t \in Sockets
  PROVE  PointersKept(t)
<1>1. m_endPoint \in [Sockets -> [Families -> EndPoints \cup {NoEndPoint}]]
  BY DEF OwnInv, Owned
<1> QED BY <1>1 DEF Rebound, PointersKept

LEMMA DeviceKeepsPointers ==
  ASSUME OwnInv, NEW s \in Sockets, BindToNetDevice(s), NEW t \in Sockets
  PROVE  PointersKept(t)
<1>1. CASE UNCHANGED m_endPoint
  BY <1>1 DEF PointersKept
<1>2. CASE m_endPoint' # m_endPoint
  <2>1. m_endPoint \in [Sockets -> [Families -> EndPoints \cup {NoEndPoint}]]
    BY DEF OwnInv, Owned
  <2>2. PICK k4 \in HeldOrBound(s, "v4"), k6 \in HeldOrBound(s, "v6") :
          m_endPoint' =
            [m_endPoint EXCEPT
               ![s] = [[m_endPoint[s] EXCEPT !["v4"] = k4] EXCEPT !["v6"] = k6]]
    BY <1>2 DEF BindToNetDevice, Stop, bindVars, Rebound
  <2>3. m_endPoint'[s]["v4"] = k4 /\ m_endPoint'[s]["v6"] = k6
    BY <2>1, <2>2 DEF Families
  <2>4. ASSUME NEW f \in Families, NEW k \in HeldOrBound(s, f),
               m_endPoint[s][f] # NoEndPoint
        PROVE  k = m_endPoint[s][f]
    BY <2>4 DEF HeldOrBound
  <2>5. PointersKept(s)
    BY <2>3, <2>4 DEF PointersKept, Families
  <2>6. t # s => m_endPoint'[t] = m_endPoint[t]
    BY <2>1, <2>2
  <2> QED BY <2>5, <2>6 DEF PointersKept
<1> QED BY <1>1, <1>2

LEMMA DoSendToKeepsPointers ==
  ASSUME OwnInv, NEW s \in Sockets, NEW p, NEW d, DoSendTo(s, p, d),
         NEW t \in Sockets
  PROVE  PointersKept(t)
<1> DEFINE f == PathFamily(d)
<1>1. f \in Families
  BY DEF PathFamily, Families
<1>2. CASE UNCHANGED m_endPoint
  BY <1>2 DEF PointersKept
<1>3. CASE m_endPoint' # m_endPoint
  <2>1. PICK k \in HeldOrBound(s, f) :
          k # m_endPoint[s][f] /\ TakeEndPoint(s, f, k)
    BY <1>3 DEF DoSendTo, Stop, bindVars
  <2>2. m_endPoint[s][f] = NoEndPoint
    BY <2>1 DEF HeldOrBound
  <2> QED BY <1>1, <2>1, <2>2, TakeKeepsPointers DEF TakeEndPoint
<1> QED BY <1>2, <1>3

(* Close gives back the end points of its own socket only, which it shuts, *)
(* and none of a socket already shut both ways.                            *)
NotClosing(t) ==
  \/ m_shutdownSend[t] /\ m_shutdownRecv[t]
  \/ m_shutdownRecv \in [Sockets -> BOOLEAN] /\ ~m_shutdownRecv'[t]

LEMMA CloseKeepsPointers ==
  ASSUME OwnInv, NEW s \in Sockets, Close(s), NEW t \in Sockets, NotClosing(t)
  PROVE  PointersKept(t)
<1>1. m_endPoint \in [Sockets -> [Families -> EndPoints \cup {NoEndPoint}]]
  BY DEF OwnInv, Owned
<1>2. CASE UNCHANGED m_endPoint
  BY <1>2 DEF PointersKept
<1>3. CASE DeallocateEndPoint(s) /\ t # s
  BY <1>1, <1>3 DEF DeallocateEndPoint, PointersKept
<1>4. UNCHANGED m_endPoint \/ (DeallocateEndPoint(s) /\ t # s)
  BY DEF Close, Refuse, bindVars, Rx!StopReceiving, NotClosing
<1> QED BY <1>2, <1>3, <1>4

LEMMA OpenOrShutKeepPointers ==
  ASSUME Rebinds = {}, OwnInv, [Next]_vars, NEW t \in Sockets,
         NotClosing(t), status' # "disposing"
  PROVE  PointersKept(t)
<1>1. CASE UNCHANGED m_endPoint
  BY <1>1 DEF PointersKept
<1>2. ASSUME NEW s \in Sockets, NEW f \in Families, Bind(s, f)
      PROVE  PointersKept(t)
  <2>1. /\ m_endPoint[s][f] = NoEndPoint
        /\ \E k \in Allocate(f, AnyAddr, 0) : TakeEndPoint(s, f, k)
    BY <1>2 DEF Bind
  <2> QED BY <2>1, TakeKeepsPointers DEF TakeEndPoint
<1>3. ASSUME NEW s \in Sockets, NEW b \in Binds,
             BindAddress(s, b.family, b.addr, b.port)
      PROVE  PointersKept(t)
  <2>1. b.family \in Families /\ m_endPoint[s][b.family] = NoEndPoint
    BY <1>3, BindsFacts DEF BindAddress
  <2>2. \E k : m_endPoint' = [m_endPoint EXCEPT ![s] = Rebound(s, b.family, k)]
    BY <1>3 DEF BindAddress, TakeEndPoint
  <2> QED BY <2>1, <2>2, TakeKeepsPointers
<1>4. ASSUME NEW s \in Sockets, BindToNetDevice(s) \/ Close(s)
      PROVE  PointersKept(t)
  BY <1>4, DeviceKeepsPointers, CloseKeepsPointers
<1>5. ASSUME NEW s \in Sockets,
             \/ \E p \in Packets : Send(s, p)
             \/ \E p \in Packets, d \in Dests : SendTo(s, p, d)
      PROVE  PointersKept(t)
  BY <1>1, <1>5, DoSendToKeepsPointers DEF Send, SendTo, Refuse, bindVars
<1>6. ASSUME NEW s \in Sockets,
             \/ BindInvalid(s) \/ ShutdownSend(s) \/ ShutdownRecv(s)
             \/ Listen(s) \/ GetPeerName(s)
             \/ \E d \in Dests : Connect(s, d)
             \/ \E discover \in BOOLEAN : SetMtuDiscover(s, discover)
             \/ \E n \in ReadSizes : Recv(s, n)
             \/ \E n \in BufSizes : SetRcvBufSize(s, n)
      PROVE  UNCHANGED m_endPoint
  BY <1>6 DEF BindInvalid, ShutdownSend, ShutdownRecv, Listen, GetPeerName,
     Connect, SetMtuDiscover, Recv, SetRcvBufSize, Refuse, Receiving, bindVars
<1>7. ASSUME \/ \E p \in Packets : NewPacket(p)
             \/ \E k \in DOMAIN demux, d \in Datagrams : EndPointForwardUp(k, d)
             \/ DoDispose \/ EndDispose
             \/ UNCHANGED vars
      PROVE  UNCHANGED m_endPoint
  BY <1>7 DEF NewPacket, EndPointForwardUp, Receiving, DoDispose, EndDispose,
     Stop, bindVars, vars
<1>8. ~\E k \in DOMAIN demux : DeleteEndPoint(k)
  BY DEF DeleteEndPoint
<1> QED
  BY <1>1, <1>2, <1>3, <1>4, <1>5, <1>6, <1>7, <1>8 DEF Next, SocketCall

-------------------------------------------------------------------------------
(***************************************************************************)
(* The receive side.                                                       *)
(***************************************************************************)
(* Every end point allocated delivers to a socket.                         *)
HookInv == \A k \in DOMAIN demux : demux[k].rxCallback \in Sockets

LEMMA HookedDelivers ==
  ASSUME NEW table, \A k \in DOMAIN table : table[k] \in EndPointStates,
         \A k \in DOMAIN table : table[k].rxCallback \in Sockets,
         NEW s \in Sockets, NEW new, NEW mine,
         \A k \in new \ {NoEndPoint} : \E f \in Families : mine[f] = k
  PROVE  LET after == Hooked(With(table, new), s, mine) IN
         \A k \in DOMAIN after :
           after[k] \in EndPointStates /\ after[k].rxCallback \in Sockets
<1> DEFINE wide == With(table, new)
           after == Hooked(wide, s, mine)
<1>1. /\ DOMAIN wide = DOMAIN table \cup (new \ {NoEndPoint})
      /\ \A k \in DOMAIN table : wide[k] = table[k]
      /\ \A k \in DOMAIN wide : wide[k] \in EndPointStates
  BY FreshState DEF With
<1>0. after = Hooked(wide, s, mine)
  OBVIOUS
<1> HIDE DEF wide
<1>2. /\ DOMAIN after = DOMAIN wide
      /\ \A k \in DOMAIN wide :
           /\ (\E f \in Families : mine[f] = k) => after[k] = Hook(wide[k], s)
           /\ ~(\E f \in Families : mine[f] = k) => after[k] = wide[k]
  BY <1>0 DEF Hooked
<1>3. ASSUME NEW k \in DOMAIN after
      PROVE  after[k] \in EndPointStates /\ after[k].rxCallback \in Sockets
  <2>1. CASE \E f \in Families : mine[f] = k
    BY <1>1, <1>2, <2>1, HookedState
  <2>2. CASE ~\E f \in Families : mine[f] = k
    BY <1>1, <1>2, <2>2
  <2> QED BY <2>1, <2>2
<1> QED BY <1>3 DEF after, wide

LEMMA TakeDelivers ==
  ASSUME OwnInv, HookInv, NEW s \in Sockets, NEW f \in Families, NEW k,
         TakeEndPoint(s, f, k)
  PROVE  HookInv'
<1> DEFINE mine == Rebound(s, f, k)
<1>1. mine[f] = k
  BY DEF Rebound, OwnInv, Owned
<1> HIDE DEF mine
<1>2. demux' = Hooked(With(demux, {k}), s, mine)
  BY DEF TakeEndPoint, mine
<1>3. /\ \A j \in DOMAIN demux : demux[j] \in EndPointStates
      /\ \A j \in DOMAIN demux : demux[j].rxCallback \in Sockets
      /\ \A j \in {k} \ {NoEndPoint} : \E g \in Families : mine[g] = j
  BY <1>1 DEF HookInv, OwnInv, Owned
<1>4. \A j \in DOMAIN demux' : demux'[j].rxCallback \in Sockets
  BY <1>2, <1>3, HookedDelivers
<1> QED BY <1>4 DEF HookInv

LEMMA DeviceDelivers ==
  ASSUME OwnInv, HookInv, NEW s \in Sockets, BindToNetDevice(s)
  PROVE  HookInv'
<1>1. CASE UNCHANGED demux
  BY <1>1 DEF HookInv
<1>2. CASE demux' # demux
  <2>1. PICK k4 \in HeldOrBound(s, "v4"), k6 \in HeldOrBound(s, "v6") :
          LET both == [Rebound(s, "v4", k4) EXCEPT !["v6"] = k6]
              table == Hooked(With(demux, {k4, k6}), s, both)
          IN  demux' = [k \in DOMAIN table |->
                          IF k \in {k4, k6}
                          THEN [table[k] EXCEPT !.device = TRUE]
                          ELSE table[k]]
    BY <1>2 DEF BindToNetDevice, Silent, Stop, bindVars
  <2> DEFINE both == [Rebound(s, "v4", k4) EXCEPT !["v6"] = k6]
             table == Hooked(With(demux, {k4, k6}), s, both)
  <2>2. "v4" \in Families /\ "v6" \in Families
    BY DEF Families
  <2>3. both["v4"] = k4 /\ both["v6"] = k6
    BY <2>2 DEF Rebound, OwnInv, Owned
  <2> HIDE DEF both
  <2>4. /\ \A j \in DOMAIN demux : demux[j] \in EndPointStates
        /\ \A j \in DOMAIN demux : demux[j].rxCallback \in Sockets
        /\ \A j \in {k4, k6} \ {NoEndPoint} : \E g \in Families : both[g] = j
    BY <2>2, <2>3 DEF HookInv, OwnInv, Owned
  <2>5. \A k \in DOMAIN table :
          table[k] \in EndPointStates /\ table[k].rxCallback \in Sockets
    BY <2>4, HookedDelivers
  <2> HIDE DEF table
  <2>6. demux' = [k \in DOMAIN table |->
                    IF k \in {k4, k6}
                    THEN [table[k] EXCEPT !.device = TRUE]
                    ELSE table[k]]
    BY <2>1 DEF table, both
  <2>7. ASSUME NEW k \in DOMAIN demux'
        PROVE  demux'[k].rxCallback \in Sockets
    BY <2>5, <2>6 DEF EndPointStates
  <2> QED BY <2>7 DEF HookInv
<1> QED BY <1>1, <1>2

LEMMA DoSendToDelivers ==
  ASSUME OwnInv, HookInv, NEW s \in Sockets, NEW p, NEW d, DoSendTo(s, p, d)
  PROVE  HookInv'
<1> DEFINE f == PathFamily(d)
<1>1. f \in Families
  BY DEF PathFamily, Families
<1>2. CASE UNCHANGED demux
  BY <1>2 DEF HookInv
<1>3. CASE demux' # demux
  <2>1. \E k : TakeEndPoint(s, f, k)
    BY <1>3 DEF DoSendTo, Stop, bindVars
  <2> QED BY <1>1, <2>1, TakeDelivers
<1> QED BY <1>2, <1>3

LEMMA HookStep ==
  ASSUME OwnInv, HookInv, [Next]_vars
  PROVE  HookInv'
<1>1. CASE UNCHANGED demux
  BY <1>1 DEF HookInv
<1>2. ASSUME NEW s \in Sockets, NEW f \in Families, Bind(s, f)
      PROVE  HookInv'
  <2>1. \E k : TakeEndPoint(s, f, k)
    BY <1>2 DEF Bind
  <2> QED BY <2>1, TakeDelivers
<1>3. ASSUME NEW s \in Sockets, NEW b \in Binds,
             BindAddress(s, b.family, b.addr, b.port)
      PROVE  HookInv'
  <2>1. UNCHANGED demux \/ \E k : TakeEndPoint(s, b.family, k)
    BY <1>3 DEF BindAddress
  <2> QED BY <1>1, <2>1, BindsFacts, TakeDelivers
<1>4. ASSUME NEW s \in Sockets, BindToNetDevice(s)
      PROVE  HookInv'
  BY <1>4, DeviceDelivers
<1>5. ASSUME NEW s \in Sockets, ShutdownRecv(s)
      PROVE  HookInv'
  <2>1. /\ DOMAIN demux' = DOMAIN demux
        /\ \A k \in DOMAIN demux :
             demux'[k] = demux[k] \/ demux'[k] = [demux[k] EXCEPT !.rxEnabled = FALSE]
    BY <1>5 DEF ShutdownRecv
  <2>2. ASSUME NEW k \in DOMAIN demux
        PROVE  demux'[k].rxCallback = demux[k].rxCallback
    <3>1. demux[k] \in EndPointStates
      BY DEF OwnInv, Owned
    <3> QED BY <2>1, <3>1 DEF EndPointStates
  <2> QED BY <2>1, <2>2 DEF HookInv
<1>6. ASSUME \/ \E s \in Sockets : Close(s)
             \/ \E k \in DOMAIN demux : DeleteEndPoint(k)
      PROVE  HookInv'
  <2>1. UNCHANGED demux \/ \E gone : demux' = Without(demux, gone)
    BY <1>6 DEF Close, DeallocateEndPoint, Refuse, bindVars, DeleteEndPoint
  <2> QED BY <1>1, <2>1 DEF Without, HookInv
<1>7. ASSUME NEW s \in Sockets, NEW p \in Packets,
             Send(s, p) \/ \E d \in Dests : SendTo(s, p, d)
      PROVE  HookInv'
  BY <1>1, <1>7, DoSendToDelivers DEF Send, SendTo, Refuse, bindVars
<1>8. ASSUME NEW s \in Sockets,
             \/ BindInvalid(s) \/ ShutdownSend(s) \/ Listen(s) \/ GetPeerName(s)
             \/ \E d \in Dests : Connect(s, d)
             \/ \E discover \in BOOLEAN : SetMtuDiscover(s, discover)
             \/ \E n \in ReadSizes : Recv(s, n)
             \/ \E n \in BufSizes : SetRcvBufSize(s, n)
      PROVE  UNCHANGED demux
  BY <1>8 DEF BindInvalid, ShutdownSend, Listen, GetPeerName, Connect,
     SetMtuDiscover, Recv, SetRcvBufSize, Refuse, Receiving, bindVars
<1>9. ASSUME \/ \E p \in Packets : NewPacket(p)
             \/ \E k \in DOMAIN demux, d \in Datagrams : EndPointForwardUp(k, d)
             \/ DoDispose \/ EndDispose
             \/ UNCHANGED vars
      PROVE  UNCHANGED demux
  BY <1>9 DEF NewPacket, EndPointForwardUp, Receiving, DoDispose, EndDispose,
     Stop, bindVars, vars
<1> QED
  BY <1>1, <1>2, <1>3, <1>4, <1>5, <1>6, <1>7, <1>8, <1>9 DEF Next, SocketCall

(* A handler sets m_errno to an error, is a handler of the receive side,   *)
(* or leaves the receive side alone.                                       *)
LEMMA DoSendToReceiveSide ==
  ASSUME NEW s \in Sockets, NEW p, NEW d, DoSendTo(s, p, d)
  PROVE  UNCHANGED rxVars \/ \E e \in Errnos : Rx!OtherCall(s, e)
<1>1. ASSUME NEW k, Transmit(s, p, d, k)
      PROVE  UNCHANGED rxVars \/ \E e \in Errnos : Rx!OtherCall(s, e)
  <2>1. Refusals(s, p) \cup {"NOROUTETOHOST"} \subseteq Errnos
    BY SocketErrnosAssumption DEF Refusals
  <2> QED BY <1>1, <2>1 DEF Transmit
<1> QED BY <1>1 DEF DoSendTo, Silent, Stop

LEMMA ReceiveSideStep ==
  ASSUME HookInv, [Next]_vars
  PROVE  [Rx!Next]_rxVars
<1>1. ASSUME NEW s \in Sockets, NEW e \in Errnos, Rx!OtherCall(s, e)
      PROVE  Rx!Next
  BY <1>1 DEF Rx!Next
<1>2. ASSUME NEW s \in Sockets, Rx!StopReceiving(s)
      PROVE  Rx!Next
  BY <1>2 DEF Rx!Next
<1>3. ASSUME NEW s \in Sockets,
             \/ BindInvalid(s) \/ Listen(s) \/ GetPeerName(s)
             \/ ShutdownRecv(s) \/ Close(s)
      PROVE  Rx!Next
  BY <1>1, <1>2, <1>3, SocketErrnosAssumption DEF BindInvalid, Listen,
     GetPeerName, ShutdownRecv, Close, Refuse
<1>4. ASSUME NEW s \in Sockets, NEW f, NEW a, NEW port, BindAddress(s, f, a, port)
      PROVE  [Rx!Next]_rxVars
  BY <1>1, <1>4, SocketErrnosAssumption DEF BindAddress
<1>5. ASSUME NEW s \in Sockets, NEW p \in Packets,
             Send(s, p) \/ \E d \in Dests : SendTo(s, p, d)
      PROVE  [Rx!Next]_rxVars
  BY <1>1, <1>5, DoSendToReceiveSide, SocketErrnosAssumption
     DEF Send, SendTo, Refuse, Silent
<1>6. ASSUME NEW s \in Sockets,
             \/ \E n \in ReadSizes : Recv(s, n)
             \/ \E n \in BufSizes : SetRcvBufSize(s, n)
      PROVE  Rx!Next
  BY <1>6 DEF Recv, SetRcvBufSize, Rx!Next
<1>7. ASSUME NEW k \in DOMAIN demux, NEW d \in Datagrams, EndPointForwardUp(k, d)
      PROVE  Rx!Next
  BY <1>7 DEF EndPointForwardUp, HookInv, Rx!Next
<1>8. ASSUME \/ \E s \in Sockets :
                  \/ \E f \in Families : Bind(s, f)
                  \/ BindToNetDevice(s) \/ ShutdownSend(s)
                  \/ \E d \in Dests : Connect(s, d)
                  \/ \E discover \in BOOLEAN : SetMtuDiscover(s, discover)
             \/ \E p \in Packets : NewPacket(p)
             \/ DoDispose \/ EndDispose
             \/ \E k \in DOMAIN demux : DeleteEndPoint(k)
             \/ UNCHANGED vars
      PROVE  UNCHANGED rxVars
  <2>1. CASE \E s \in Sockets : \E f \in Families : Bind(s, f)
    BY <2>1 DEF Bind, Silent
  <2>2. CASE \E s \in Sockets : BindToNetDevice(s)
    BY <2>2 DEF BindToNetDevice, Silent, Stop
  <2>3. CASE \E s \in Sockets : ShutdownSend(s)
    BY <2>3 DEF ShutdownSend, Silent
  <2>4. CASE \E s \in Sockets : \E d \in Dests : Connect(s, d)
    BY <2>4 DEF Connect, Silent
  <2>5. CASE \E s \in Sockets : \E discover \in BOOLEAN : SetMtuDiscover(s, discover)
    BY <2>5 DEF SetMtuDiscover, Silent
  <2>6. CASE \E p \in Packets : NewPacket(p)
    BY <2>6 DEF NewPacket, Silent
  <2>7. CASE DoDispose \/ EndDispose
    BY <2>7 DEF DoDispose, EndDispose, Stop
  <2>8. CASE \E k \in DOMAIN demux : DeleteEndPoint(k)
    BY <2>8 DEF DeleteEndPoint
  <2>9. CASE UNCHANGED vars
    BY <2>9 DEF vars
  <2> QED BY <1>8, <2>1, <2>2, <2>3, <2>4, <2>5, <2>6, <2>7, <2>8, <2>9
<1> QED
  BY <1>3, <1>4, <1>5, <1>6, <1>7, <1>8 DEF Next, SocketCall

(* Whatever the calls, the queue, the counter and the limit of each socket *)
(* change only as the receive side's own handlers change them, and every   *)
(* end point delivers to a socket: what RudpSocketRx promises is kept by   *)
(* the whole socket (rudp-socket-impl.cc:317-355, 726-778, 856-975).       *)
THEOREM ReceiveSideKept == Spec => ReceiveSide
<1>1. OwnInv /\ [Next]_vars => OwnInv'
  BY OwnInvStep
<1>2. OwnInv /\ HookInv /\ [Next]_vars => HookInv'
  BY HookStep
<1>3. HookInv /\ [Next]_vars => [Rx!Next]_(Rx!vars)
  BY ReceiveSideStep DEF rxVars, Rx!vars
<1>4. Init => HookInv /\ Rx!Init
  BY DEF Init, HookInv
<1> QED
  BY <1>1, <1>2, <1>3, <1>4, OwnInvInit, PTL DEF Spec, ReceiveSide, Rx!Spec

-------------------------------------------------------------------------------
(***************************************************************************)
(* Types.  Those of the receive side first: Rx!TypeOK is kept by the steps *)
(* of RudpSocketRx, and ReceiveSideStep makes every call one of them.      *)
(***************************************************************************)
LEMMA ForwardUpTyped ==
  ASSUME Rx!TypeOK, NEW s \in Sockets, NEW d \in Datagrams, Rx!ForwardUp(s, d)
  PROVE  Rx!TypeOK'
<1>1. CASE ~m_shutdownRecv[s] /\ Rx!Fits(s, d)
  <2>1. d.size \in Nat /\ m_rxAvailable[s] \in Nat
    BY ReceiveAssumption DEF Rx!TypeOK
  <2>2. (m_rxAvailable[s] + d.size) % Word \in 0..(Word - 1)
    BY <2>1, ReceiveAssumption
  <2>3. Append(m_deliveryQueue[s], d) \in Seq(Datagrams)
    BY DEF Rx!TypeOK
  <2>4. m_deliveryQueue' \in [Sockets -> Seq(Datagrams)]
    BY <1>1, <2>3 DEF Rx!TypeOK, Rx!ForwardUp
  <2>5. m_rxAvailable' \in [Sockets -> 0..(Word - 1)]
    BY <1>1, <2>2 DEF Rx!TypeOK, Rx!ForwardUp
  <2> QED BY <1>1, <2>4, <2>5 DEF Rx!TypeOK, Rx!ForwardUp, Rx!RxOuts
<1>2. CASE UNCHANGED <<m_deliveryQueue, m_rxAvailable, m_rcvBufSize,
                       m_shutdownRecv, m_errno>>
           /\ rxOut' \in Rx!RxOuts
  BY <1>2 DEF Rx!TypeOK, Rx!RxOuts
<1>3. Rx!TypeOK => rxOut \in Rx!RxOuts
  BY DEF Rx!TypeOK
<1> QED BY <1>1, <1>2, <1>3 DEF Rx!ForwardUp, Rx!vars, Rx!RxOuts

LEMMA RecvTyped ==
  ASSUME Rx!TypeOK, NEW s \in Sockets, NEW n \in ReadSizes, Rx!Recv(s, n)
  PROVE  Rx!TypeOK'
<1> DEFINE q == m_deliveryQueue[s]
<1>1. CASE q # <<>> /\ Head(q).size <= n
  <2>1. q \in Seq(Datagrams) /\ q # <<>>
    BY <1>1 DEF Rx!TypeOK
  <2>2. Head(q) \in Datagrams /\ Tail(q) \in Seq(Datagrams)
    BY <2>1
  <2>3. Rx!Released(s, n) \in 0..(Word - 1)
    BY <2>2, ReceiveAssumption DEF Rx!TypeOK, Rx!Released
  <2>4. /\ m_deliveryQueue' = [m_deliveryQueue EXCEPT ![s] = Tail(@)]
        /\ m_rxAvailable' = [m_rxAvailable EXCEPT ![s] = Rx!Released(s, n)]
        /\ rxOut' = [kind |-> "return", sock |-> s, datagram |-> Head(q)]
        /\ UNCHANGED <<m_rcvBufSize, m_shutdownRecv, m_errno>>
    BY <1>1, <2>2, ReceiveAssumption DEF Rx!Recv
  <2> QED BY <2>2, <2>3, <2>4 DEF Rx!TypeOK, Rx!RxOuts
<1>2. CASE /\ UNCHANGED <<m_deliveryQueue, m_rxAvailable, m_rcvBufSize,
                          m_shutdownRecv>>
           /\ rxOut' = [kind |-> "null", sock |-> s]
           /\ m_errno' \in [Sockets -> Errnos]
  BY <1>2 DEF Rx!TypeOK, Rx!RxOuts
<1>3. m_errno \in [Sockets -> Errnos] /\ "AGAIN" \in Errnos
  BY ReceiveAssumption DEF Rx!TypeOK
<1> QED BY <1>1, <1>2, <1>3 DEF Rx!Recv

LEMMA ReceiveTyped ==
  ASSUME Rx!TypeOK, [Rx!Next]_rxVars
  PROVE  Rx!TypeOK'
<1>1. CASE UNCHANGED rxVars
  BY <1>1 DEF rxVars, Rx!TypeOK, Rx!RxOuts
<1>2. ASSUME NEW s \in Sockets,
             \/ \E n \in BufSizes : Rx!SetRcvBufSize(s, n)
             \/ Rx!StopReceiving(s)
             \/ \E e \in Errnos : Rx!OtherCall(s, e)
      PROVE  Rx!TypeOK'
  BY <1>2 DEF Rx!SetRcvBufSize, Rx!StopReceiving, Rx!OtherCall, Rx!TypeOK, Rx!RxOuts
<1> QED BY <1>1, <1>2, ForwardUpTyped, RecvTyped DEF Rx!Next

(* The variables that only this module has; NoDest until Connect.          *)
FlagTypes ==
  /\ m_shutdownSend \in [Sockets -> BOOLEAN]
  /\ m_connected \in [Sockets -> BOOLEAN]
  /\ m_defaultAddress \in [Sockets -> Dests \cup {NoDest}]
  /\ m_mtuDiscover \in [Sockets -> BOOLEAN]
  /\ m_boundnetdevice \in [Sockets -> BOOLEAN]
  /\ dfTag \in [Packets -> {"none", "on", "off"}]
  /\ status \in {"running", "disposing", "disposed", "notBound", "noStack"}

(* A connected socket knows an address SendTo would take as well.          *)
Addressed == {d \in Dests : d.type # "Other"}
ConnectedInv == \A s \in Sockets : m_connected[s] => m_defaultAddress[s] \in Addressed

LEMMA DoSendToFamily ==
  ASSUME OwnInv, NEW s \in Sockets, NEW d, NEW k \in HeldOrBound(s, PathFamily(d)),
         k # NoEndPoint
  PROVE  k.family = PathFamily(d) /\ k.family \in Families
<1> DEFINE f == PathFamily(d)
<1>1. f \in Families
  BY DEF PathFamily, Families
<1>2. CASE m_endPoint[s][f] # NoEndPoint
  BY <1>1, <1>2 DEF HeldOrBound, OwnInv, Owned
<1>3. CASE m_endPoint[s][f] = NoEndPoint
  <2>1. k \in Allocate(f, AnyAddr, 0)
    BY <1>3 DEF HeldOrBound
  <2> QED BY <1>1, <2>1, AllocateFacts
<1> QED BY <1>1, <1>2, <1>3

LEMMA DoSendToTyped ==
  ASSUME OwnInv, FlagTypes, NEW s \in Sockets, NEW p \in Packets, NEW d,
         DoSendTo(s, p, d)
  PROVE  /\ UNCHANGED <<flagVars, m_boundnetdevice>>
         /\ dfTag' \in [Packets -> {"none", "on", "off"}]
         /\ status' \in {status, "noStack", "notBound"}
         /\ status' = "noStack" => status = "noStack" \/ PathFamily(d) \notin Stacks
<1>1. CASE \E k \in HeldOrBound(s, PathFamily(d)) :
             /\ k # NoEndPoint
             /\ Transmit(s, p, d, k)
             /\ UNCHANGED <<flagVars, m_boundnetdevice>>
  <2>1. PICK k \in HeldOrBound(s, PathFamily(d)) :
             /\ k # NoEndPoint
             /\ Transmit(s, p, d, k)
             /\ UNCHANGED <<flagVars, m_boundnetdevice>>
    BY <1>1
  <2>2. k.family = PathFamily(d) /\ k.family \in {"v4", "v6"}
    BY <2>1, DoSendToFamily DEF Families
  <2>3. DontFragmentTag(s, p, k.family) \in {"none", "on", "off"}
    <3>1. dfTag[p] \in {"none", "on", "off"}
      BY DEF FlagTypes
    <3>2. CASE k.family = "v6"
      BY <3>1, <3>2 DEF DontFragmentTag
    <3>3. CASE k.family = "v4" /\ dfTag[p] = "none"
      BY <3>3 DEF DontFragmentTag
    <3>4. CASE k.family = "v4" /\ dfTag[p] # "none"
      BY <3>4 DEF DontFragmentTag
    <3> QED BY <2>2, <3>2, <3>3, <3>4
  <2>4. \/ dfTag' = dfTag
        \/ dfTag' = [dfTag EXCEPT ![p] = DontFragmentTag(s, p, k.family)]
    BY <2>1 DEF Transmit
  <2>5. dfTag' \in [Packets -> {"none", "on", "off"}]
    BY <2>3, <2>4 DEF FlagTypes
  <2>6. \/ UNCHANGED status
        \/ status' = "noStack" /\ k.family \notin Stacks
    BY <2>1 DEF Transmit
  <2> QED BY <2>1, <2>2, <2>5, <2>6
<1>2. CASE Silent /\ UNCHANGED <<bindVars, flagVars>>
  BY <1>2 DEF Silent, bindVars, FlagTypes
<1>3. CASE Stop("notBound")
  BY <1>3 DEF Stop, bindVars, FlagTypes
<1> QED BY <1>1, <1>2, <1>3 DEF DoSendTo

(* Send goes to the address of a connected socket, SendTo to one the       *)
(* application names, and either is in Addressed.                          *)
LEMMA SendsAddressed ==
  ASSUME OwnInv, FlagTypes, ConnectedInv, NEW s \in Sockets, NEW p \in Packets,
         Send(s, p) \/ \E d \in Dests : SendTo(s, p, d)
  PROVE  \/ UNCHANGED <<flagVars, m_boundnetdevice, dfTag, status>>
         \/ \E d \in Addressed : DoSendTo(s, p, d)
<1>1. CASE \E d \in Dests : SendTo(s, p, d)
  BY <1>1 DEF SendTo, Silent, bindVars, Addressed
<1>2. CASE Send(s, p)
  BY <1>2 DEF Send, Refuse, bindVars, ConnectedInv
<1> QED BY <1>1, <1>2

LEMMA FlagStep ==
  ASSUME OwnInv, FlagTypes, ConnectedInv, [Next]_vars
  PROVE  /\ FlagTypes' /\ ConnectedInv'
         /\ (\A d \in Addressed : PathFamily(d) \in Stacks) /\ LowerLayerThere
              => LowerLayerThere'
<1>1. CASE UNCHANGED <<flagVars, m_boundnetdevice, dfTag, status>>
  BY <1>1 DEF flagVars, FlagTypes, ConnectedInv, LowerLayerThere
<1>2. ASSUME NEW s \in Sockets, NEW p \in Packets,
             Send(s, p) \/ \E d \in Dests : SendTo(s, p, d)
      PROVE  /\ FlagTypes' /\ ConnectedInv'
             /\ (\A d \in Addressed : PathFamily(d) \in Stacks) /\ LowerLayerThere
                  => LowerLayerThere'
  <2>1. ASSUME NEW d \in Addressed, DoSendTo(s, p, d)
        PROVE  /\ UNCHANGED <<flagVars, m_boundnetdevice>>
               /\ dfTag' \in [Packets -> {"none", "on", "off"}]
               /\ status' \in {status, "noStack", "notBound"}
               /\ status' = "noStack" =>
                    status = "noStack" \/ PathFamily(d) \notin Stacks
    BY <2>1, DoSendToTyped
  <2>2. CASE \E d \in Addressed : DoSendTo(s, p, d)
    BY <2>1, <2>2 DEF flagVars, FlagTypes, ConnectedInv, LowerLayerThere
  <2> QED BY <1>1, <1>2, <2>2, SendsAddressed
<1>3. ASSUME NEW s \in Sockets, NEW d \in Dests, Connect(s, d)
      PROVE  FlagTypes' /\ ConnectedInv' /\ UNCHANGED status
  <2>1. UNCHANGED <<m_shutdownSend, m_mtuDiscover, m_boundnetdevice, dfTag, status>>
    BY <1>3 DEF Connect, Silent, bindVars
  <2>2. CASE UNCHANGED <<m_connected, m_defaultAddress>>
    BY <2>1, <2>2 DEF FlagTypes, ConnectedInv
  <2>3. CASE /\ d \in Addressed
             /\ m_connected' = [m_connected EXCEPT ![s] = TRUE]
             /\ m_defaultAddress' = [m_defaultAddress EXCEPT ![s] = d]
    <3>1. FlagTypes'
      BY <2>1, <2>3 DEF FlagTypes
    <3>2. ConnectedInv'
      BY <2>3 DEF FlagTypes, ConnectedInv
    <3> QED BY <2>1, <3>1, <3>2
  <2> QED BY <1>3, <2>1, <2>2, <2>3 DEF Connect, Addressed
<1>4. ASSUME NEW s \in Sockets,
             \/ ShutdownSend(s) \/ Close(s)
             \/ \E discover \in BOOLEAN : SetMtuDiscover(s, discover)
      PROVE  FlagTypes' /\ ConnectedInv' /\ UNCHANGED status
  <2>1. CASE UNCHANGED <<flagVars, m_boundnetdevice, dfTag, status>>
    BY <1>1, <2>1
  <2>2. CASE /\ m_shutdownSend' = [m_shutdownSend EXCEPT ![s] = TRUE]
             /\ UNCHANGED <<m_connected, m_defaultAddress, m_mtuDiscover,
                            m_boundnetdevice, dfTag, status>>
    BY <2>2 DEF FlagTypes, ConnectedInv
  <2>3. ASSUME NEW discover \in BOOLEAN, SetMtuDiscover(s, discover)
        PROVE  FlagTypes' /\ ConnectedInv' /\ UNCHANGED status
    BY <2>3 DEF SetMtuDiscover, Silent, bindVars, FlagTypes, ConnectedInv
  <2> QED
    BY <1>4, <2>1, <2>2, <2>3 DEF ShutdownSend, Close, Refuse, Silent, bindVars
<1>5. ASSUME NEW s \in Sockets, BindToNetDevice(s)
      PROVE  FlagTypes' /\ ConnectedInv' /\ status' \in {status, "notBound"}
  <2>1. /\ UNCHANGED <<flagVars, dfTag>>
        /\ status' \in {status, "notBound"}
        /\ \/ m_boundnetdevice' = m_boundnetdevice
           \/ m_boundnetdevice' = [m_boundnetdevice EXCEPT ![s] = TRUE]
    BY <1>5 DEF BindToNetDevice, Silent, Stop, bindVars
  <2> QED BY <2>1 DEF flagVars, FlagTypes, ConnectedInv
<1>6. ASSUME NEW s \in Sockets,
             \/ \E f \in Families : Bind(s, f)
             \/ \E b \in Binds : BindAddress(s, b.family, b.addr, b.port)
             \/ BindInvalid(s) \/ ShutdownRecv(s) \/ Listen(s) \/ GetPeerName(s)
             \/ \E n \in ReadSizes : Recv(s, n)
             \/ \E n \in BufSizes : SetRcvBufSize(s, n)
      PROVE  UNCHANGED <<flagVars, m_boundnetdevice, dfTag, status>>
  BY <1>6 DEF Bind, BindAddress, BindInvalid, ShutdownRecv, Listen, GetPeerName,
     Recv, SetRcvBufSize, Silent, Refuse, Receiving, bindVars
<1>7. ASSUME \/ \E k \in DOMAIN demux, d \in Datagrams : EndPointForwardUp(k, d)
             \/ \E k \in DOMAIN demux : DeleteEndPoint(k)
             \/ UNCHANGED vars
      PROVE  UNCHANGED <<flagVars, m_boundnetdevice, dfTag, status>>
  BY <1>7 DEF EndPointForwardUp, DeleteEndPoint, Receiving, bindVars, vars
<1>8. ASSUME (\E p \in Packets : NewPacket(p)) \/ DoDispose \/ EndDispose
      PROVE  /\ FlagTypes' /\ ConnectedInv'
             /\ status' \in {status, "disposing", "disposed"}
  <2>1. CASE \E p \in Packets : NewPacket(p)
    BY <2>1 DEF NewPacket, bindVars, flagVars, FlagTypes, ConnectedInv
  <2>2. CASE DoDispose \/ EndDispose
    BY <2>2 DEF DoDispose, EndDispose, Stop, bindVars, flagVars, FlagTypes, ConnectedInv
  <2> QED BY <1>8, <2>1, <2>2
<1> QED
  BY <1>1, <1>2, <1>3, <1>4, <1>5, <1>6, <1>7, <1>8
     DEF Next, SocketCall, LowerLayerThere

LEMMA FlagInit == Init => FlagTypes /\ ConnectedInv
  BY DEF Init, FlagTypes, ConnectedInv

LEMMA ReceiveInit == Init => Rx!TypeOK
  BY ReceiveAssumption DEF Init, Rx!Init, Rx!TypeOK, Rx!RxOuts

(* Every variable of the sockets stays in its type, whatever the calls:    *)
(* pointers are null or end points, and the receive counter never leaves   *)
(* the range of a uint32_t (rudp-socket-impl.h:210-231).                   *)
THEOREM TypeCorrect == Spec => []TypeOK
<1>1. OwnInv /\ [Next]_vars => OwnInv'
  BY OwnInvStep
<1>2. OwnInv /\ HookInv /\ [Next]_vars => HookInv'
  BY HookStep
<1>3. OwnInv /\ SentBySender /\ [Next]_vars => SentBySender'
  BY SentStep
<1>4. OwnInv /\ FlagTypes /\ ConnectedInv /\ [Next]_vars => FlagTypes' /\ ConnectedInv'
  BY FlagStep
<1>5. HookInv /\ Rx!TypeOK /\ [Next]_vars => Rx!TypeOK'
  BY ReceiveSideStep, ReceiveTyped
<1>6. OwnInv /\ SentBySender /\ FlagTypes /\ Rx!TypeOK => TypeOK
  BY DEF OwnInv, Owned, SentBySender, FlagTypes, TypeOK
<1>7. Init => HookInv
  BY DEF Init, HookInv
<1> QED
  BY <1>1, <1>2, <1>3, <1>4, <1>5, <1>6, <1>7, OwnInvInit, SentInit, FlagInit,
     ReceiveInit, PTL DEF Spec

(* A node follows no null lower layer, by Send or by SendTo, if it has the *)
(* IPv4 layer or is never given an IPv4 address, mapped into IPv6 or not,  *)
(* and has the IPv6 layer or is never given an IPv6 address of another     *)
(* kind (rudp-l4-protocol.cc:108-111, rudp-socket-impl.cc:509-700).        *)
THEOREM LowerLayersSuffice ==
  ASSUME "v4" \in Stacks \/ \A d \in Dests : d.type # "Inet" /\ ~d.mapped,
         "v6" \in Stacks \/ \A d \in Dests : d.type = "Inet6" => d.mapped
  PROVE  Spec => []LowerLayerThere
<1>1. OwnInv /\ [Next]_vars => OwnInv'
  BY OwnInvStep
<1>2. OwnInv /\ FlagTypes /\ ConnectedInv /\ [Next]_vars => FlagTypes' /\ ConnectedInv'
  BY FlagStep
<1>3. \A d \in Addressed : PathFamily(d) \in Stacks
  BY DestsAssumption DEF Addressed, PathFamily
<1>4. OwnInv /\ FlagTypes /\ ConnectedInv /\ LowerLayerThere /\ [Next]_vars
        => LowerLayerThere'
  BY <1>3, FlagStep
<1>5. Init => LowerLayerThere
  BY DEF Init, LowerLayerThere
<1> QED BY <1>1, <1>2, <1>4, <1>5, OwnInvInit, FlagInit, PTL DEF Spec

-------------------------------------------------------------------------------
(***************************************************************************)
(* The ports last.                                                         *)
(***************************************************************************)
EnoughPorts ==
  /\ IsFiniteSet(Sockets) /\ IsFiniteSet(EphemeralPorts)
  /\ Cardinality(Sockets) <= Cardinality(EphemeralPorts)

(* Of as many ephemeral ports as sockets, one is left for a socket without *)
(* an end point: every other socket has at most one in the family, and     *)
(* what no socket has is not in the table.                                 *)
LEMMA PortsLast ==
  ASSUME EnoughPorts, OwnInv, NoOrphans, NEW s \in Sockets, NEW f \in Families,
         m_endPoint[s][f] = NoEndPoint
  PROVE  Ephemeral(f, AnyAddr) # {}
<1> SUFFICES ASSUME Ephemeral(f, AnyAddr) = {}
             PROVE  FALSE
  OBVIOUS
<1> DEFINE others == Sockets \ {s}
           Has(t, p) == m_endPoint[t][f] # NoEndPoint /\ m_endPoint[t][f].port = p
           holder == [p \in EphemeralPorts |-> CHOOSE t \in others : Has(t, p)]
<1>1. ASSUME NEW p \in EphemeralPorts
      PROVE  \E t \in others : Has(t, p)
  <2> DEFINE k == [family |-> f, addr |-> AnyAddr, port |-> p]
  <2>1. k \in EndPoints
    BY DEF EndPoints
  <2>2. PICK j \in DOMAIN demux : j.family = f /\ j.port = p
    BY <2>1 DEF Ephemeral
  <2>3. j # NoEndPoint
    BY EndPointsAssumption DEF OwnInv, Owned
  <2>4. PICK t \in Sockets : m_endPoint[t][f] = j
    BY <2>2 DEF NoOrphans
  <2> QED BY <2>2, <2>3, <2>4
<1> HIDE DEF Has
<1>2. \A p \in EphemeralPorts : holder[p] \in others /\ Has(holder[p], p)
  BY <1>1
<1>3. holder \in [EphemeralPorts -> others]
  BY <1>2
<1>4. /\ IsFiniteSet(others)
      /\ Cardinality(others) = Cardinality(Sockets) - 1
      /\ Cardinality(Sockets) \in Nat /\ Cardinality(EphemeralPorts) \in Nat
  BY FS_RemoveElement, FS_CardinalityType DEF EnoughPorts
<1>5. Cardinality(others) < Cardinality(EphemeralPorts)
  BY <1>4 DEF EnoughPorts
<1> HIDE DEF holder, others
<1>6. PICK p, q \in EphemeralPorts : p # q /\ holder[p] = holder[q]
  BY <1>3, <1>4, <1>5, FS_PigeonHole DEF EnoughPorts
<1> QED BY <1>2, <1>6 DEF Has

LEMMA HeldNotNull ==
  ASSUME EnoughPorts, OwnInv, NoOrphans, NEW s \in Sockets, NEW f \in Families
  PROVE  NoEndPoint \notin HeldOrBound(s, f)
<1>1. CASE m_endPoint[s][f] # NoEndPoint
  BY <1>1 DEF HeldOrBound
<1>2. CASE m_endPoint[s][f] = NoEndPoint
  <2>1. HeldOrBound(s, f) = Ephemeral(f, AnyAddr)
    BY <1>2, PortsLast DEF HeldOrBound, Allocate
  <2> QED BY <2>1, EndPointsAssumption DEF Ephemeral
<1> QED BY <1>1, <1>2

LEMMA BoundStep ==
  ASSUME EnoughPorts, OwnInv, NoOrphans, BoundAfterBind, [Next]_vars
  PROVE  BoundAfterBind'
<1>1. CASE UNCHANGED status
  BY <1>1 DEF BoundAfterBind
<1>2. ASSUME NEW s \in Sockets, NEW p \in Packets, NEW d, DoSendTo(s, p, d)
      PROVE  status' \in {status, "noStack"}
  <2>1. PathFamily(d) \in Families
    BY DEF PathFamily, Families
  <2> QED BY <1>2, <2>1, HeldNotNull DEF DoSendTo, Transmit
<1>3. ASSUME NEW s \in Sockets, BindToNetDevice(s)
      PROVE  UNCHANGED status
  <2>1. "v4" \in Families /\ "v6" \in Families
    BY DEF Families
  <2> QED BY <1>3, <2>1, HeldNotNull DEF BindToNetDevice, Silent
<1>4. ASSUME NEW s \in Sockets, NEW p \in Packets,
             Send(s, p) \/ \E d \in Dests : SendTo(s, p, d)
      PROVE  status' \in {status, "noStack"}
  BY <1>2, <1>4 DEF Send, SendTo, Refuse, Silent
<1>5. ASSUME NEW s \in Sockets,
             \/ \E f \in Families : Bind(s, f)
             \/ \E b \in Binds : BindAddress(s, b.family, b.addr, b.port)
             \/ BindInvalid(s) \/ ShutdownSend(s) \/ ShutdownRecv(s) \/ Close(s)
             \/ Listen(s) \/ GetPeerName(s)
             \/ \E d \in Dests : Connect(s, d)
             \/ \E discover \in BOOLEAN : SetMtuDiscover(s, discover)
             \/ \E n \in ReadSizes : Recv(s, n)
             \/ \E n \in BufSizes : SetRcvBufSize(s, n)
      PROVE  UNCHANGED status
  BY <1>5 DEF Bind, BindAddress, BindInvalid, ShutdownSend, ShutdownRecv, Close,
     Listen, GetPeerName, Connect, SetMtuDiscover, Recv, SetRcvBufSize, Silent,
     Refuse, Receiving
<1>6. ASSUME \/ \E p \in Packets : NewPacket(p)
             \/ \E k \in DOMAIN demux, d \in Datagrams : EndPointForwardUp(k, d)
             \/ \E k \in DOMAIN demux : DeleteEndPoint(k)
             \/ DoDispose \/ EndDispose
             \/ UNCHANGED vars
      PROVE  status' \in {status, "disposing", "disposed"}
  BY <1>6 DEF NewPacket, EndPointForwardUp, Receiving, DeleteEndPoint, DoDispose,
     EndDispose, Stop, vars
<1> QED BY <1>1, <1>3, <1>4, <1>5, <1>6 DEF Next, SocketCall, BoundAfterBind

(* When NS_ASSERT (m_endPoint != 0) and its likes may be relied on: the    *)
(* node has as many ephemeral ports as sockets, and no bound socket is     *)
(* bound again.  Then no Bind within SendTo, Send or BindToNetDevice comes *)
(* back without the end point it was called for, whatever was closed, shut *)
(* and bound by number before (rudp-socket-impl.cc:489-497, 601-609,       *)
(* 831-851).                                                               *)
THEOREM BindsSucceed ==
  ASSUME Rebinds = {}, EnoughPorts
  PROVE  Spec => []BoundAfterBind
<1>1. OwnInv /\ [Next]_vars => OwnInv'
  BY OwnInvStep
<1>2. OwnInv /\ NoOrphans /\ [Next]_vars => NoOrphans'
  BY OrphansStep
<1>3. OwnInv /\ NoOrphans /\ BoundAfterBind /\ [Next]_vars => BoundAfterBind'
  BY BoundStep
<1>4. Init => NoOrphans /\ BoundAfterBind
  BY DEF Init, NoOrphans, BoundAfterBind
<1> QED BY <1>1, <1>2, <1>3, <1>4, OwnInvInit, PTL DEF Spec

-------------------------------------------------------------------------------
(***************************************************************************)
(* End points change hands only through being free: RudpSocketImpl         *)
(* implements EndPointTable.                                               *)
(***************************************************************************)
(* What one call of socket s may do to an owner.                           *)
OwnersMove(s) ==
  \A k \in EndPoints :
    \/ OwnerOf(k)' = OwnerOf(k)
    \/ OwnerOf(k) = NoSocket /\ OwnerOf(k)' = s
    \/ OwnerOf(k) = s /\ OwnerOf(k)' = NoSocket

(* mine is what socket s holds once it has also taken the end points new.  *)
Taking(s, new, mine) ==
  /\ new \cap DOMAIN demux = {}
  /\ mine \in [Families -> EndPoints \cup {NoEndPoint}]
  /\ \A f \in Families : \/ mine[f] = m_endPoint[s][f]
                         \/ mine[f] \in new
                         \/ mine[f] = NoEndPoint
  /\ \A k \in new \ {NoEndPoint} : \E f \in Families : mine[f] = k

(* The table has the end points new besides, and they deliver to s.        *)
Grown(table, new, s) ==
  /\ DOMAIN table = DOMAIN demux \cup (new \ {NoEndPoint})
  /\ \A k \in DOMAIN table :
       /\ table[k] \in EndPointStates
       /\ k \in DOMAIN demux => table[k].rxCallback = demux[k].rxCallback
       /\ k \notin DOMAIN demux => table[k].rxCallback = s

(* FinishBind hooks what is new, and what delivers to the socket already.  *)
LEMMA HookedMoves ==
  ASSUME OwnInv, NEW s \in Sockets, NEW new, NEW mine, Taking(s, new, mine)
  PROVE  Grown(Hooked(With(demux, new), s, mine), new, s)
<1> DEFINE wide == With(demux, new)
           after == Hooked(wide, s, mine)
<1>1. /\ DOMAIN wide = DOMAIN demux \cup (new \ {NoEndPoint})
      /\ \A k \in DOMAIN demux : wide[k] = demux[k]
      /\ \A k \in DOMAIN wide : wide[k] \in EndPointStates
  BY FreshState DEF With, OwnInv, Owned
<1> HIDE DEF wide
<1>2. /\ DOMAIN after = DOMAIN wide
      /\ \A k \in DOMAIN wide :
           /\ (\E f \in Families : mine[f] = k) => after[k] = Hook(wide[k], s)
           /\ ~(\E f \in Families : mine[f] = k) => after[k] = wide[k]
  BY DEF Hooked
<1> HIDE DEF after
<1>3. ASSUME NEW k \in DOMAIN wide
      PROVE  /\ after[k] \in EndPointStates
             /\ k \in DOMAIN demux => after[k].rxCallback = demux[k].rxCallback
             /\ k \notin DOMAIN demux => after[k].rxCallback = s
  <2>1. CASE \E f \in Families : mine[f] = k
    <3>1. after[k] \in EndPointStates /\ after[k].rxCallback = s
      BY <1>1, <1>2, <2>1, HookedState
    <3>2. ASSUME k \in DOMAIN demux
          PROVE  demux[k].rxCallback = s
      <4>1. PICK f \in Families : mine[f] = k
        BY <2>1
      <4>2. k # NoEndPoint
        BY <3>2, EndPointsAssumption DEF OwnInv, Owned
      <4>3. m_endPoint[s][f] = k
        BY <3>2, <4>1, <4>2 DEF Taking
      <4> QED BY <4>2, <4>3 DEF OwnInv, Owned
    <3> QED BY <3>1, <3>2
  <2>2. CASE ~\E f \in Families : mine[f] = k
    BY <1>1, <1>2, <2>2 DEF Taking
  <2> QED BY <2>1, <2>2
<1>4. Grown(after, new, s)
  BY <1>1, <1>2, <1>3 DEF Grown
<1> QED BY <1>4 DEF after, wide

LEMMA GrowthMoves ==
  ASSUME OwnInv, NEW s \in Sockets, NEW new, Grown(demux', new, s)
  PROVE  OwnersMove(s)
  BY DEF OwnersMove, OwnerOf, Grown

LEMMA TakeMoves ==
  ASSUME OwnInv, NEW s \in Sockets, NEW f \in Families,
         NEW a \in LocalAddrs \cup {AnyAddr}, NEW port \in Ports \cup {0},
         NEW k \in Allocate(f, a, port), TakeEndPoint(s, f, k)
  PROVE  OwnersMove(s)
<1> DEFINE mine == Rebound(s, f, k)
<1>1. k = NoEndPoint \/ (k \in EndPoints /\ k \notin DOMAIN demux /\ k.family = f)
  BY AllocateFacts
<1>2. m_endPoint[s] \in [Families -> EndPoints \cup {NoEndPoint}]
  BY DEF OwnInv, Owned
<1>3. mine \in [Families -> EndPoints \cup {NoEndPoint}]
  BY <1>1, <1>2 DEF Rebound
<1>4. \A g \in Families : mine[g] = IF g = f THEN k ELSE m_endPoint[s][g]
  BY <1>2 DEF Rebound
<1>5. {k} \cap DOMAIN demux = {}
  BY <1>1, EndPointsAssumption DEF OwnInv, Owned
<1>6. demux' = Hooked(With(demux, {k}), s, mine)
  BY DEF TakeEndPoint
<1> HIDE DEF mine
<1>7. Taking(s, {k}, mine)
  BY <1>3, <1>4, <1>5 DEF Taking
<1>8. Grown(demux', {k}, s)
  BY <1>6, <1>7, HookedMoves
<1> QED BY <1>8, GrowthMoves

LEMMA DeviceMoves ==
  ASSUME OwnInv, NEW s \in Sockets, BindToNetDevice(s)
  PROVE  OwnersMove(s)
<1>1. CASE UNCHANGED demux
  BY <1>1 DEF OwnersMove, OwnerOf
<1>2. CASE demux' # demux
  <2>1. "v4" \in Families /\ "v6" \in Families
    BY DEF Families
  <2>2. PICK k4 \in HeldOrBound(s, "v4"), k6 \in HeldOrBound(s, "v6") :
          LET both == [Rebound(s, "v4", k4) EXCEPT !["v6"] = k6]
              table == Hooked(With(demux, {k4, k6}), s, both)
          IN  demux' = [k \in DOMAIN table |->
                          IF k \in {k4, k6}
                          THEN [table[k] EXCEPT !.device = TRUE]
                          ELSE table[k]]
    BY <1>2 DEF BindToNetDevice, Silent, Stop, bindVars
  <2> DEFINE new == {k4, k6} \ DOMAIN demux
             both == [Rebound(s, "v4", k4) EXCEPT !["v6"] = k6]
             table == Hooked(With(demux, {k4, k6}), s, both)
  <2>3. m_endPoint[s] \in [Families -> EndPoints \cup {NoEndPoint}]
    BY DEF OwnInv, Owned
  <2>4. ASSUME NEW f \in Families, NEW k \in HeldOrBound(s, f)
        PROVE  /\ k \in EndPoints \cup {NoEndPoint}
               /\ k = m_endPoint[s][f] \/ k \notin DOMAIN demux
    <3>1. CASE m_endPoint[s][f] # NoEndPoint
      BY <2>3, <2>4, <3>1 DEF HeldOrBound
    <3>2. CASE m_endPoint[s][f] = NoEndPoint /\ k # NoEndPoint
      <4>1. k \in Allocate(f, AnyAddr, 0)
        BY <2>4, <3>2 DEF HeldOrBound
      <4> QED BY <3>2, <4>1, AllocateFacts
    <3>3. CASE k = NoEndPoint
      BY <3>3, EndPointsAssumption DEF OwnInv, Owned
    <3> QED BY <3>1, <3>2, <3>3
  <2>5. With(demux, {k4, k6}) = With(demux, new)
    BY DEF With
  <2>6. both["v4"] = k4 /\ both["v6"] = k6
    BY <2>1, <2>3 DEF Rebound
  <2>7. both \in [Families -> EndPoints \cup {NoEndPoint}]
    BY <2>1, <2>3, <2>4 DEF Rebound
  <2> HIDE DEF both
  <2>8. Taking(s, new, both)
    BY <2>1, <2>4, <2>6, <2>7 DEF Taking, Families
  <2> HIDE DEF new
  <2>9. Grown(Hooked(With(demux, new), s, both), new, s)
    BY <2>8, HookedMoves
  <2>10. Grown(table, new, s)
    BY <2>5, <2>9 DEF both
  <2> HIDE DEF table
  <2>11. /\ DOMAIN demux' = DOMAIN table
         /\ \A k \in DOMAIN table :
              demux'[k] = table[k] \/ demux'[k] = [table[k] EXCEPT !.device = TRUE]
    BY <2>2 DEF table, both
  <2>12. \A k \in DOMAIN table : table[k] \in EndPointStates
    BY <2>10 DEF Grown
  <2>13. \A k \in DOMAIN table : /\ demux'[k] \in EndPointStates
                                /\ demux'[k].rxCallback = table[k].rxCallback
    BY <2>11, <2>12 DEF EndPointStates
  <2>14. Grown(demux', new, s)
    BY <2>10, <2>11, <2>13 DEF Grown
  <2> QED BY <2>14, GrowthMoves
<1> QED BY <1>1, <1>2

LEMMA DoSendToMoves ==
  ASSUME OwnInv, NEW s \in Sockets, NEW p, NEW d, DoSendTo(s, p, d)
  PROVE  OwnersMove(s)
<1> DEFINE f == PathFamily(d)
<1>1. f \in Families
  BY DEF PathFamily, Families
<1>2. CASE UNCHANGED demux
  BY <1>2 DEF OwnersMove, OwnerOf
<1>3. CASE demux' # demux
  <2>1. PICK k \in HeldOrBound(s, f) :
          k # m_endPoint[s][f] /\ TakeEndPoint(s, f, k)
    BY <1>3 DEF DoSendTo, Stop, bindVars
  <2>2. k \in Allocate(f, AnyAddr, 0)
    BY <2>1 DEF HeldOrBound
  <2> QED BY <1>1, <2>1, <2>2, TakeMoves
<1> QED BY <1>2, <1>3

(* What Close gives back delivers to its own socket.                       *)
LEMMA CloseMoves ==
  ASSUME OwnInv, NEW s \in Sockets, Close(s)
  PROVE  OwnersMove(s)
<1>1. CASE UNCHANGED demux
  BY <1>1 DEF OwnersMove, OwnerOf
<1>2. CASE DeallocateEndPoint(s)
  <2>1. /\ DOMAIN demux' \subseteq DOMAIN demux
        /\ \A k \in DOMAIN demux' : demux'[k] = demux[k]
        /\ \A k \in DOMAIN demux \ DOMAIN demux' :
             \E f \in Families : m_endPoint[s][f] = k
    BY <1>2 DEF DeallocateEndPoint, Without
  <2>2. \A k \in DOMAIN demux \ DOMAIN demux' : demux[k].rxCallback = s
    BY <2>1, EndPointsAssumption DEF OwnInv, Owned
  <2> QED BY <2>1, <2>2 DEF OwnersMove, OwnerOf
<1> QED BY <1>1, <1>2 DEF Close, Refuse, bindVars

LEMMA SocketCallMoves ==
  ASSUME OwnInv, NEW s \in Sockets, SocketCall(s)
  PROVE  OwnersMove(s)
<1>1. CASE UNCHANGED demux
  BY <1>1 DEF OwnersMove, OwnerOf
<1>2. ASSUME NEW f \in Families, Bind(s, f)
      PROVE  OwnersMove(s)
  <2>1. PICK k \in Allocate(f, AnyAddr, 0) : TakeEndPoint(s, f, k)
    BY <1>2 DEF Bind
  <2> QED BY <2>1, TakeMoves
<1>3. ASSUME NEW b \in Binds, BindAddress(s, b.family, b.addr, b.port)
      PROVE  OwnersMove(s)
  <2>1. /\ b.family \in Families
        /\ b.addr \in LocalAddrs \cup {AnyAddr}
        /\ b.port \in Ports \cup {0}
    BY BindsFacts
  <2>2. \/ UNCHANGED demux
        \/ \E k \in Allocate(b.family, b.addr, b.port) :
             TakeEndPoint(s, b.family, k)
    BY <1>3 DEF BindAddress
  <2> QED BY <1>1, <2>1, <2>2, TakeMoves
<1>4. ASSUME NEW p \in Packets, Send(s, p) \/ \E d \in Dests : SendTo(s, p, d)
      PROVE  OwnersMove(s)
  BY <1>1, <1>4, DoSendToMoves DEF Send, SendTo, Refuse, bindVars
<1>5. ASSUME ShutdownRecv(s)
      PROVE  OwnersMove(s)
  <2>1. /\ DOMAIN demux' = DOMAIN demux
        /\ \A k \in DOMAIN demux :
             demux'[k] = demux[k] \/ demux'[k] = [demux[k] EXCEPT !.rxEnabled = FALSE]
    BY <1>5 DEF ShutdownRecv
  <2>2. \A k \in DOMAIN demux : demux[k] \in EndPointStates
    BY DEF OwnInv, Owned
  <2>3. \A k \in DOMAIN demux : demux'[k].rxCallback = demux[k].rxCallback
    BY <2>1, <2>2 DEF EndPointStates
  <2> QED BY <2>1, <2>3 DEF OwnersMove, OwnerOf
<1>6. ASSUME \/ BindInvalid(s) \/ ShutdownSend(s) \/ Listen(s) \/ GetPeerName(s)
             \/ \E d \in Dests : Connect(s, d)
             \/ \E discover \in BOOLEAN : SetMtuDiscover(s, discover)
             \/ \E n \in ReadSizes : Recv(s, n)
             \/ \E n \in BufSizes : SetRcvBufSize(s, n)
      PROVE  UNCHANGED demux
  BY <1>6 DEF BindInvalid, ShutdownSend, Listen, GetPeerName, Connect,
     SetMtuDiscover, Recv, SetRcvBufSize, Refuse, Receiving, bindVars
<1> QED
  BY <1>1, <1>2, <1>3, <1>4, <1>5, <1>6, DeviceMoves, CloseMoves DEF SocketCall

(* No call comes while the protocol is disposed of, and none disposes.     *)
LEMMA SocketCallStatus ==
  ASSUME NEW s \in Sockets, SocketCall(s)
  PROVE  status = "running" /\ status' \in {"running", "notBound", "noStack"}
<1>1. status = "running"
  BY DEF SocketCall, Bind, BindAddress, BindInvalid, BindToNetDevice,
     ShutdownSend, ShutdownRecv, Close, Listen, GetPeerName, Connect, Send,
     SendTo, SetMtuDiscover, Recv, SetRcvBufSize, Calling
<1>2. ASSUME NEW p \in Packets, NEW d, DoSendTo(s, p, d)
      PROVE  status' \in {status, "notBound", "noStack"}
  BY <1>2 DEF DoSendTo, Transmit, Silent, Stop
<1>3. ASSUME NEW p \in Packets, Send(s, p) \/ \E d \in Dests : SendTo(s, p, d)
      PROVE  status' \in {status, "notBound", "noStack"}
  BY <1>2, <1>3 DEF Send, SendTo, Refuse, Silent
<1>4. ASSUME \/ \E f \in Families : Bind(s, f)
             \/ \E b \in Binds : BindAddress(s, b.family, b.addr, b.port)
             \/ BindInvalid(s) \/ BindToNetDevice(s)
             \/ ShutdownSend(s) \/ ShutdownRecv(s) \/ Close(s)
             \/ Listen(s) \/ GetPeerName(s)
             \/ \E d \in Dests : Connect(s, d)
             \/ \E discover \in BOOLEAN : SetMtuDiscover(s, discover)
             \/ \E n \in ReadSizes : Recv(s, n)
             \/ \E n \in BufSizes : SetRcvBufSize(s, n)
      PROVE  status' \in {status, "notBound"}
  BY <1>4 DEF Bind, BindAddress, BindInvalid, BindToNetDevice, ShutdownSend,
     ShutdownRecv, Close, Listen, GetPeerName, Connect, SetMtuDiscover, Recv,
     SetRcvBufSize, Silent, Stop, Refuse, Receiving
<1> QED BY <1>1, <1>3, <1>4 DEF SocketCall

LEMMA TableStep ==
  ASSUME OwnInv, HookInv, HookInv', [Next]_vars
  PROVE  [Table!TableNext]_(Table!tableVars)
<1> DEFINE owner == [k \in EndPoints |-> OwnerOf(k)]
<1>1. CASE UNCHANGED <<demux, status>>
  BY <1>1 DEF OwnerOf, Table!tableVars
<1>2. ASSUME NEW s \in Sockets, SocketCall(s)
      PROVE  Table!Use(s)
  <2>1. \A k \in EndPoints : OwnerOf(k)' \in Sockets \cup {NoSocket}
    BY DEF HookInv, OwnerOf
  <2>2. \A k \in EndPoints :
          OwnerOf(k)' # OwnerOf(k) => {OwnerOf(k), OwnerOf(k)'} = {s, NoSocket}
    BY <1>2, SocketCallMoves DEF OwnersMove
  <2>3. status = "running" /\ status' \in {"running", "notBound", "noStack"}
    BY <1>2, SocketCallStatus
  <2>4. owner' = [k \in EndPoints |-> OwnerOf(k)']
    OBVIOUS
  <2> QED BY <2>1, <2>2, <2>3, <2>4 DEF Table!Use
<1>3. ASSUME DoDispose
      PROVE  Table!StartClosing
  BY <1>3 DEF DoDispose, Calling, bindVars, OwnerOf, Table!StartClosing
<1>4. ASSUME NEW k \in DOMAIN demux, DeleteEndPoint(k)
      PROVE  Table!TakeAway(k)
  <2>1. /\ status = "disposing" /\ status' = "disposing"
        /\ DOMAIN demux' = DOMAIN demux \ {k}
        /\ \A j \in DOMAIN demux' : demux'[j] = demux[j]
    BY <1>4 DEF DeleteEndPoint, Without
  <2>2. k \in EndPoints
    BY DEF OwnInv, Owned
  <2>3. \A j \in EndPoints : OwnerOf(j)' = IF j = k THEN NoSocket ELSE OwnerOf(j)
    BY <2>1 DEF OwnerOf
  <2>4. owner' = [owner EXCEPT ![k] = NoSocket]
    BY <2>2, <2>3
  <2> QED BY <2>1, <2>4 DEF Table!TakeAway
<1>5. ASSUME EndDispose
      PROVE  UNCHANGED Table!tableVars
  BY <1>5 DEF EndDispose, Stop, bindVars, OwnerOf, Table!tableVars
<1>6. ASSUME \/ \E p \in Packets : NewPacket(p)
             \/ \E k \in DOMAIN demux, d \in Datagrams : EndPointForwardUp(k, d)
             \/ UNCHANGED vars
      PROVE  UNCHANGED <<demux, status>>
  BY <1>6 DEF NewPacket, EndPointForwardUp, Receiving, bindVars, vars
<1>7. DOMAIN demux \subseteq EndPoints
  BY DEF OwnInv, Owned
<1> QED
  BY <1>1, <1>2, <1>3, <1>4, <1>5, <1>6, <1>7 DEF Next, Table!TableNext

(* A port passes from one socket to another only through being free: a     *)
(* call takes end points nobody has and gives back none but its own        *)
(* socket's, binding bound sockets again and all failures included, and    *)
(* disposing takes them all away for good (rudp-socket-impl.cc:184-315,    *)
(* 341-355, 826-855, rudp-l4-protocol.cc:133-152).                         *)
THEOREM ImplementsEndPointTable == Spec => EndPointsChangeHands
<1>1. OwnInv /\ [Next]_vars => OwnInv'
  BY OwnInvStep
<1>2. OwnInv /\ HookInv /\ [Next]_vars => HookInv'
  BY HookStep
<1>3. OwnInv /\ HookInv /\ HookInv' /\ [Next]_vars
        => [Table!TableNext]_(Table!tableVars)
  BY TableStep
<1>4. Init => HookInv
  BY DEF Init, HookInv
<1>5. Init => Table!TableInit
  BY DEF Init, OwnerOf, Table!TableInit
<1> QED
  BY <1>1, <1>2, <1>3, <1>4, <1>5, OwnInvInit, PTL
     DEF Spec, EndPointsChangeHands, Table!TableSpec

===============================================================================
