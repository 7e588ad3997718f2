------------------------- MODULE RudpSocketRx_proofs -------------------------
(***************************************************************************)
(* Proofs about the receive side, for every set of sockets and datagrams,  *)
(* every word size and every set of limits.                                *)
(***************************************************************************)
EXTENDS RudpSocketRx, DatagramBytes_proofs

USE DEF RxOuts

(* A queue shortened by Tail: what is left of it, and where it sits.       *)
LEMMA TailFacts ==
  ASSUME NEW S, NEW q \in Seq(S), q # <<>>
  PROVE  /\ Head(q) \in S
         /\ Head(q) = q[1]
         /\ Tail(q) \in Seq(S)
         /\ Len(q) \in Nat \ {0}
         /\ Len(Tail(q)) = Len(q) - 1
         /\ \A i \in 1..(Len(q) - 1) : Tail(q)[i] = q[i + 1]
  OBVIOUS

(* What each receive handler does to its own types.                        *)
LEMMA TypeOKInit == Init => TypeOK
  BY WordAssumption, ErrnosAssumption DEF Init, TypeOK

LEMMA ForwardUpTyped ==
  ASSUME TypeOK, NEW s \in Sockets, NEW d \in Datagrams, ForwardUp(s, d)
  PROVE  TypeOK'
<1>1. CASE UNCHANGED vars
  BY <1>1 DEF TypeOK, vars
<1>2. CASE ~m_shutdownRecv[s] /\ Fits(s, d)
  <2>1. d.size \in Nat /\ m_rxAvailable[s] \in Nat
    BY SizeAssumption, WordAssumption DEF TypeOK
  <2>2. (m_rxAvailable[s] + d.size) % Word \in 0..(Word - 1)
    BY <2>1, WordAssumption
  <2>3. Append(m_deliveryQueue[s], d) \in Seq(Datagrams)
    BY DEF TypeOK
  <2>4. m_deliveryQueue' \in [Sockets -> Seq(Datagrams)]
    BY <1>2, <2>3 DEF TypeOK, ForwardUp
  <2>5. m_rxAvailable' \in [Sockets -> 0..(Word - 1)]
    BY <1>2, <2>2 DEF TypeOK, ForwardUp
  <2> QED BY <1>2, <2>4, <2>5 DEF TypeOK, ForwardUp
<1>3. CASE ~m_shutdownRecv[s] /\ ~Fits(s, d)
  BY <1>3 DEF TypeOK, ForwardUp
<1> QED BY <1>1, <1>2, <1>3 DEF ForwardUp

LEMMA RecvTyped ==
  ASSUME TypeOK, NEW s \in Sockets, NEW n \in ReadSizes, Recv(s, n)
  PROVE  TypeOK'
<1> DEFINE q == m_deliveryQueue[s]
<1>1. CASE UNCHANGED <<m_deliveryQueue, m_rxAvailable, m_rcvBufSize,
                       m_shutdownRecv>>
           /\ rxOut' = [kind |-> "null", sock |-> s]
           /\ m_errno' \in [Sockets -> Errnos]
  BY <1>1 DEF TypeOK
<1>2. m_errno \in [Sockets -> Errnos] /\ "AGAIN" \in Errnos
  BY ErrnosAssumption DEF TypeOK
<1>3. CASE q # <<>> /\ Head(q).size <= n
  <2>1. Head(q) \in Datagrams /\ Tail(q) \in Seq(Datagrams)
    BY <1>3, TailFacts DEF TypeOK
  <2>2. Released(s, n) \in 0..(Word - 1)
    BY <2>1, SizeAssumption, WordAssumption DEF TypeOK, Released
  <2>3. /\ m_deliveryQueue' = [m_deliveryQueue EXCEPT ![s] = Tail(@)]
        /\ m_rxAvailable' = [m_rxAvailable EXCEPT ![s] = Released(s, n)]
        /\ rxOut' = [kind |-> "return", sock |-> s, datagram |-> Head(q)]
        /\ UNCHANGED <<m_rcvBufSize, m_shutdownRecv, m_errno>>
    BY <1>3, ReadSizesAssumption, <2>1, SizeAssumption, WordAssumption DEF Recv
  <2> QED BY <2>1, <2>2, <2>3 DEF TypeOK
<1> QED BY <1>1, <1>2, <1>3 DEF Recv

-------------------------------------------------------------------------------
(***************************************************************************)
(* Accounting.  RxAccounting is not inductive alone: that the sum of the   *)
(* room test does not wrap rests on the counter being within some limit    *)
(* that was in force, which lowering the limit does not undo.              *)
(***************************************************************************)
Within == \A s \in Sockets : \E b \in BufSizes : m_rxAvailable[s] <= b

IInv == TypeOK /\ RxAccounting /\ Within

(* Sizes and limits are naturals, and under NoWrap an arrival never wraps. *)
LEMMA Naturals ==
  /\ \A d \in Datagrams : d.size \in Nat
  /\ \A b \in BufSizes : b \in Nat
  /\ ReadSizes \subseteq Nat
  /\ Word \in Nat
  BY SizeAssumption, BufSizesAssumption, ReadSizesAssumption, WordAssumption

LEMMA SumExact ==
  ASSUME NoWrap, IInv, NEW s \in Sockets, NEW d \in Datagrams
  PROVE  (m_rxAvailable[s] + d.size) % Word = m_rxAvailable[s] + d.size
<1>1. PICK b \in BufSizes : m_rxAvailable[s] <= b
  BY DEF IInv, Within
<1>2. b + d.size < Word
  BY DEF NoWrap
<1>3. m_rxAvailable[s] \in Nat /\ d.size \in Nat /\ b \in Nat /\ Word \in Nat
  BY Naturals DEF IInv, TypeOK
<1>4. m_rxAvailable[s] + d.size \in 0..(Word - 1)
  BY <1>1, <1>2, <1>3
<1> QED BY <1>3, <1>4

LEMMA ReleaseExact ==
  ASSUME IInv, NEW s \in Sockets, NEW n, m_deliveryQueue[s] # <<>>
  PROVE  /\ Released(s, n) = Bytes(Tail(m_deliveryQueue[s]))
         /\ Released(s, n) <= m_rxAvailable[s]
<1> DEFINE q == m_deliveryQueue[s]
<1>1. q \in Seq(Datagrams) /\ q # <<>>
  BY DEF IInv, TypeOK
<1>2. Head(q) \in Datagrams /\ Tail(q) \in Seq(Datagrams)
  BY <1>1, TailFacts
<1>3. m_rxAvailable[s] = Bytes(q) /\ m_rxAvailable[s] \in 0..(Word - 1)
  BY DEF IInv, TypeOK, RxAccounting
<1>4. Bytes(Tail(q)) \in Nat
  BY <1>2, Naturals, BytesNat
<1>5. Bytes(Tail(q)) = m_rxAvailable[s] - Head(q).size
  BY <1>1, <1>3, Naturals, BytesTail
<1>6. Head(q).size \in Nat
  BY <1>2, Naturals
<1>7. m_rxAvailable[s] - Head(q).size \in 0..(Word - 1)
  BY <1>3, <1>4, <1>5, <1>6, Naturals
<1>8. Released(s, n) = m_rxAvailable[s] - Head(q).size
  BY <1>7, Naturals DEF Released
<1> QED BY <1>3, <1>5, <1>6, <1>8

LEMMA IInvInit == Init => IInv
<1> SUFFICES ASSUME Init PROVE RxAccounting /\ Within
  BY TypeOKInit DEF IInv
<1>1. RxAccounting
  BY BytesEmpty DEF Init, RxAccounting
<1>2. PICK b \in BufSizes : b \in 0..(Word - 1)
  BY BufSizesAssumption
<1>3. Within
  BY <1>2, WordAssumption DEF Init, Within
<1> QED BY <1>1, <1>3

(* An accepted arrival: counter and queue grow by the same bytes.          *)
LEMMA AcceptKeepsIInv ==
  ASSUME NoWrap, IInv, NEW s \in Sockets, NEW d \in Datagrams, Fits(s, d),
         ~m_shutdownRecv[s], ForwardUp(s, d), ~(UNCHANGED vars)
  PROVE  RxAccounting' /\ Within'
<1>1. /\ m_deliveryQueue' = [m_deliveryQueue EXCEPT ![s] = Append(@, d)]
      /\ m_rxAvailable' = [m_rxAvailable EXCEPT ![s] = (@ + d.size) % Word]
      /\ m_rcvBufSize' = m_rcvBufSize
  BY DEF ForwardUp
<1>2. /\ m_deliveryQueue \in [Sockets -> Seq(Datagrams)]
      /\ m_rxAvailable \in [Sockets -> 0..(Word - 1)]
      /\ m_rcvBufSize \in [Sockets -> BufSizes]
  BY DEF IInv, TypeOK
<1>3. m_rxAvailable'[s] = m_rxAvailable[s] + d.size
  BY <1>1, <1>2, SumExact
<1>4. Bytes(Append(m_deliveryQueue[s], d)) = Bytes(m_deliveryQueue[s]) + d.size
  BY <1>2, Naturals, BytesAppend
<1>5. RxAccounting'
  BY <1>1, <1>2, <1>3, <1>4 DEF IInv, RxAccounting
<1>6. m_rxAvailable'[s] <= m_rcvBufSize[s]
  BY <1>1, <1>2 DEF Fits
<1>7. Within'
  BY <1>1, <1>2, <1>6 DEF IInv, Within
<1> QED BY <1>5, <1>7

(* A read: counter and queue shrink by the same bytes.                     *)
LEMMA RecvKeepsIInv ==
  ASSUME IInv, NEW s \in Sockets, NEW n \in ReadSizes, Recv(s, n)
  PROVE  RxAccounting' /\ Within'
<1>1. CASE UNCHANGED <<m_deliveryQueue, m_rxAvailable, m_rcvBufSize>>
  BY <1>1 DEF IInv, RxAccounting, Within
<1>2. CASE /\ m_deliveryQueue[s] # <<>>
           /\ m_deliveryQueue' = [m_deliveryQueue EXCEPT ![s] = Tail(@)]
           /\ m_rxAvailable' = [m_rxAvailable EXCEPT ![s] = Released(s, n)]
           /\ m_rcvBufSize' = m_rcvBufSize
  <2>1. /\ m_deliveryQueue \in [Sockets -> Seq(Datagrams)]
        /\ m_rxAvailable \in [Sockets -> 0..(Word - 1)]
    BY DEF IInv, TypeOK
  <2>2. /\ Released(s, n) = Bytes(Tail(m_deliveryQueue[s]))
        /\ Released(s, n) <= m_rxAvailable[s]
    BY <1>2, ReleaseExact
  <2>3. RxAccounting'
    BY <1>2, <2>1, <2>2 DEF IInv, RxAccounting
  <2>4. Released(s, n) \in Nat
    <3>1. Tail(m_deliveryQueue[s]) \in Seq(Datagrams)
      BY <1>2, <2>1, TailFacts
    <3> QED BY <2>2, <3>1, Naturals, BytesNat
  <2>5. ASSUME NEW t \in Sockets
        PROVE  \E b \in BufSizes : m_rxAvailable'[t] <= b
    <3>1. PICK b \in BufSizes : m_rxAvailable[t] <= b
      BY DEF IInv, Within
    <3>2. m_rxAvailable'[t] <= m_rxAvailable[t] /\ m_rxAvailable'[t] \in Nat
      BY <1>2, <2>1, <2>2, <2>4
    <3>3. m_rxAvailable'[t] <= b
      BY <2>1, <3>1, <3>2, Naturals
    <3> QED BY <3>3
  <2>6. Within'
    BY <2>5 DEF Within
  <2> QED BY <2>3, <2>6
<1> QED BY <1>1, <1>2 DEF Recv

(* Every other step leaves queue and counter alone.                        *)
LEMMA QuietKeepsIInv ==
  ASSUME IInv, UNCHANGED <<m_deliveryQueue, m_rxAvailable>>
  PROVE  RxAccounting' /\ Within'
  BY DEF IInv, RxAccounting, Within

LEMMA TypeOKStep == TypeOK /\ [Next]_vars => TypeOK'
<1> SUFFICES ASSUME TypeOK, [Next]_vars PROVE TypeOK'
  OBVIOUS
<1>1. CASE UNCHANGED vars
  BY <1>1 DEF TypeOK, vars
<1>2. ASSUME NEW s \in Sockets, NEW d \in Datagrams, ForwardUp(s, d)
      PROVE  TypeOK'
  BY <1>2, ForwardUpTyped
<1>3. ASSUME NEW s \in Sockets, NEW n \in ReadSizes, Recv(s, n)
      PROVE  TypeOK'
  BY <1>3, RecvTyped
<1>4. ASSUME NEW s \in Sockets, NEW n \in BufSizes, SetRcvBufSize(s, n)
      PROVE  TypeOK'
  BY <1>4 DEF TypeOK, SetRcvBufSize
<1>5. ASSUME NEW s \in Sockets, StopReceiving(s)
      PROVE  TypeOK'
  BY <1>5 DEF TypeOK, StopReceiving
<1>6. ASSUME NEW s \in Sockets, NEW e \in Errnos, OtherCall(s, e)
      PROVE  TypeOK'
  BY <1>6 DEF TypeOK, OtherCall
<1> QED BY <1>1, <1>2, <1>3, <1>4, <1>5, <1>6 DEF Next

LEMMA IInvStep ==
  ASSUME NoWrap, IInv, [Next]_vars
  PROVE  IInv'
<1>1. TypeOK'
  BY TypeOKStep DEF IInv
<1>2. CASE UNCHANGED vars
  BY <1>1, <1>2, QuietKeepsIInv DEF IInv, vars
<1>3. ASSUME NEW s \in Sockets, NEW d \in Datagrams, ForwardUp(s, d)
      PROVE  RxAccounting' /\ Within'
  <2>1. CASE UNCHANGED <<m_deliveryQueue, m_rxAvailable>>
    BY <2>1, QuietKeepsIInv
  <2>2. CASE ~(UNCHANGED <<m_deliveryQueue, m_rxAvailable>>)
    <3>1. ~m_shutdownRecv[s] /\ Fits(s, d) /\ ~(UNCHANGED vars)
      BY <1>3, <2>2 DEF ForwardUp, vars
    <3> QED BY <1>3, <3>1, AcceptKeepsIInv
  <2> QED BY <2>1, <2>2
<1>4. ASSUME NEW s \in Sockets, NEW n \in ReadSizes, Recv(s, n)
      PROVE  RxAccounting' /\ Within'
  BY <1>4, RecvKeepsIInv
<1>5. ASSUME NEW s \in Sockets, NEW n \in BufSizes, SetRcvBufSize(s, n)
      PROVE  RxAccounting' /\ Within'
  BY <1>5, QuietKeepsIInv DEF SetRcvBufSize
<1>6. ASSUME NEW s \in Sockets, StopReceiving(s)
      PROVE  RxAccounting' /\ Within'
  BY <1>6, QuietKeepsIInv DEF StopReceiving
<1>7. ASSUME NEW s \in Sockets, NEW e \in Errnos, OtherCall(s, e)
      PROVE  RxAccounting' /\ Within'
  BY <1>7, QuietKeepsIInv DEF OtherCall
<1> QED BY <1>1, <1>2, <1>3, <1>4, <1>5, <1>6, <1>7 DEF IInv, Next

(* The receive side's variables keep their types whatever handlers run in  *)
(* whatever order: the counter stays a uint32_t (rudp-socket-impl.h:226).  *)
THEOREM TypeCorrect == Spec => []TypeOK
  BY TypeOKInit, TypeOKStep, PTL DEF Spec

(* While no limit comes within one datagram of 2^32, the number            *)
(* GetRxAvailable answers is what walking the queue would find, after any  *)
(* history (rudp-socket-impl.cc:728-735, 892-899, 948-955, 746-750).       *)
THEOREM Accounting ==
  ASSUME NoWrap
  PROVE  Spec => []RxAccounting
<1>1. IInv /\ [Next]_vars => IInv'
  BY IInvStep
<1>2. IInv => RxAccounting
  BY DEF IInv
<1> QED BY <1>1, <1>2, IInvInit, PTL DEF Spec

-------------------------------------------------------------------------------
(***************************************************************************)
(* Refinement: the handlers, with their counter, are a buffer bounded by   *)
(* its real bytes.                                                         *)
(***************************************************************************)
LEMMA BufferBytes == \A q : Buffer!Bytes(q) = Bytes(q)
  BY DEF Buffer!Bytes, Bytes

LEMMA FitsMeans ==
  ASSUME NoWrap, IInv, NEW s \in Sockets, NEW d \in Datagrams
  PROVE  Fits(s, d) <=>
           Buffer!Bytes(m_deliveryQueue[s]) + d.size <= m_rcvBufSize[s]
<1>1. m_rxAvailable[s] = Bytes(m_deliveryQueue[s])
  BY DEF IInv, RxAccounting
<1> QED BY <1>1, SumExact, BufferBytes DEF Fits

LEMMA ForwardUpImplements ==
  ASSUME NoWrap, IInv, NEW s \in Sockets, NEW d \in Datagrams, ForwardUp(s, d)
  PROVE  Buffer!Store(s, d) \/ Buffer!Drop(s, d) \/ UNCHANGED Buffer!vars
<1> DEFINE open == [t \in Sockets |-> ~m_shutdownRecv[t]]
<1>1. CASE UNCHANGED vars
  BY <1>1 DEF vars, Buffer!vars
<1>2. CASE ~(UNCHANGED vars)
  <2>1. /\ open[s]
        /\ m_shutdownRecv' = m_shutdownRecv
        /\ m_rcvBufSize' = m_rcvBufSize
    BY <1>2 DEF ForwardUp
  <2>2. open' = open
    BY <2>1
  <2>3. CASE Fits(s, d)
    <3>1. Buffer!Bytes(m_deliveryQueue[s]) + d.size <= m_rcvBufSize[s]
      BY <2>3, FitsMeans
    <3>2. /\ m_deliveryQueue' = [m_deliveryQueue EXCEPT ![s] = Append(@, d)]
          /\ rxOut' = [kind |-> "data", sock |-> s, datagram |-> d]
      BY <1>2, <2>3 DEF ForwardUp
    <3> QED BY <2>1, <2>2, <3>1, <3>2 DEF Buffer!Store
  <2>4. CASE ~Fits(s, d)
    <3>1. Bytes(m_deliveryQueue[s]) \in Nat
      BY BytesNat, Naturals DEF IInv, TypeOK
    <3>2. m_rcvBufSize[s] \in Nat /\ d.size \in Nat
      BY Naturals DEF IInv, TypeOK
    <3>3. Buffer!Bytes(m_deliveryQueue[s]) + d.size > m_rcvBufSize[s]
      BY <2>4, <3>1, <3>2, FitsMeans, BufferBytes
    <3>4. /\ m_deliveryQueue' = m_deliveryQueue
          /\ rxOut' = [kind |-> "drop", sock |-> s, datagram |-> d]
      BY <1>2, <2>4 DEF ForwardUp
    <3> QED BY <2>1, <2>2, <3>3, <3>4 DEF Buffer!Drop
  <2> QED BY <2>3, <2>4
<1> QED BY <1>1, <1>2

LEMMA RecvImplements ==
  ASSUME IInv, NEW s \in Sockets, NEW n \in ReadSizes, Recv(s, n)
  PROVE  Buffer!Take(s, n) \/ Buffer!TakeNothing(s, n)
<1> DEFINE q == m_deliveryQueue[s]
<1>1. UNCHANGED <<m_rcvBufSize, [t \in Sockets |-> ~m_shutdownRecv[t]]>>
  BY DEF Recv
<1>2. CASE q # <<>> /\ Head(q).size <= n
  <2>1. Head(q).size \in Nat /\ n \in Nat
    BY <1>2, TailFacts, Naturals DEF IInv, TypeOK
  <2>2. /\ m_deliveryQueue' = [m_deliveryQueue EXCEPT ![s] = Tail(@)]
        /\ rxOut' = [kind |-> "return", sock |-> s, datagram |-> Head(q)]
    BY <1>2, <2>1 DEF Recv
  <2>3. Buffer!Take(s, n)
    BY <1>1, <1>2, <2>2 DEF Buffer!Take
  <2> QED BY <2>3
<1>3. CASE ~(q # <<>> /\ Head(q).size <= n)
  <2>1. q # <<>> => Head(q).size > n
    BY <1>3 DEF Recv
  <2>2. /\ m_deliveryQueue' = m_deliveryQueue
        /\ rxOut' = [kind |-> "null", sock |-> s]
    BY <1>3 DEF Recv
  <2>3. Buffer!TakeNothing(s, n)
    BY <1>1, <2>1, <2>2 DEF Buffer!TakeNothing
  <2> QED BY <2>3
<1> QED BY <1>2, <1>3

LEMMA StepImplements ==
  ASSUME NoWrap, IInv, [Next]_vars
  PROVE  [Buffer!Next]_(Buffer!vars)
<1> DEFINE open == [t \in Sockets |-> ~m_shutdownRecv[t]]
<1>1. CASE UNCHANGED vars
  BY <1>1 DEF vars, Buffer!vars
<1>2. ASSUME NEW s \in Sockets, NEW d \in Datagrams, ForwardUp(s, d)
      PROVE  [Buffer!Next]_(Buffer!vars)
  BY <1>2, ForwardUpImplements DEF Buffer!Next
<1>3. ASSUME NEW s \in Sockets, NEW n \in ReadSizes, Recv(s, n)
      PROVE  [Buffer!Next]_(Buffer!vars)
  BY <1>3, RecvImplements DEF Buffer!Next
<1>4. ASSUME NEW s \in Sockets, NEW n \in BufSizes, SetRcvBufSize(s, n)
      PROVE  [Buffer!Next]_(Buffer!vars)
  <2>1. Buffer!SetLimit(s, n)
    BY <1>4 DEF SetRcvBufSize, Buffer!SetLimit
  <2> QED BY <2>1 DEF Buffer!Next
<1>5. ASSUME NEW s \in Sockets, StopReceiving(s)
      PROVE  [Buffer!Next]_(Buffer!vars)
  <2>1. open' = [open EXCEPT ![s] = FALSE]
    BY <1>5 DEF IInv, TypeOK, StopReceiving
  <2>2. Buffer!Shut(s)
    BY <1>5, <2>1 DEF StopReceiving, Buffer!Shut
  <2> QED BY <2>2 DEF Buffer!Next
<1>6. ASSUME NEW s \in Sockets, NEW e \in Errnos, OtherCall(s, e)
      PROVE  [Buffer!Next]_(Buffer!vars)
  BY <1>6 DEF OtherCall, Buffer!vars
<1> QED BY <1>1, <1>2, <1>3, <1>4, <1>5, <1>6 DEF Next

LEMMA InitImplements == Init => Buffer!Init
<1> SUFFICES ASSUME Init PROVE Buffer!Init
  OBVIOUS
<1>1. [s \in Sockets |-> ~m_shutdownRecv[s]] = [s \in Sockets |-> TRUE]
  BY DEF Init
<1> QED BY <1>1 DEF Init, Buffer!Init

(* Under the same bound the receive side implements DatagramBuffer: in     *)
(* arrival order, each datagram once, and a datagram dropped exactly when  *)
(* it and the bytes really queued exceed the limit (rudp-socket-impl.cc:   *)
(* 857-968, 737-757).                                                      *)
THEOREM Refinement ==
  ASSUME NoWrap
  PROVE  Spec => ImplementsBuffer
<1>1. IInv /\ [Next]_vars => IInv'
  BY IInvStep
<1>2. IInv /\ [Next]_vars => [Buffer!Next]_(Buffer!vars)
  BY StepImplements
<1> QED
  BY <1>1, <1>2, IInvInit, InitImplements, PTL
  DEF Spec, Buffer!Spec, ImplementsBuffer

===============================================================================
