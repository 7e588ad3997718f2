----------------------------- MODULE RudpSocketRx -----------------------------
(***************************************************************************)
(* The receive side of RudpSocketImpl: the delivery queue filled by        *)
(* ForwardUp and ForwardUp6 and emptied by Recv and RecvFrom, the byte     *)
(* counter m_rxAvailable the code keeps beside it so as not to walk the    *)
(* queue, and the limit m_rcvBufSize, which the application may change at  *)
(* any time.  The counter is a uint32_t: its arithmetic is modulo Word,    *)
(* 2^32 in the code.                                                       *)
(*                                                                         *)
(* A datagram is a record with a field size; what else it carries is not   *)
(* looked at here.  The address RecvFrom reports travels with the datagram *)
(* as a tag, so Recv stands for both.                                      *)
(***************************************************************************)
EXTENDS DatagramBytes

CONSTANTS
  Sockets,    \* the sockets of one node
  Datagrams,  \* what may arrive: records with a field size
  Word,       \* the counters are unsigned integers below Word
  BufSizes,   \* the values the RcvBufSize attribute is given
  ReadSizes,  \* the maxSize arguments the application reads with
  Errnos,     \* the values m_errno takes
  Nothing,    \* rxOut before anything was said
  MaxQueue    \* bound: no datagram arrives at a queue this long

ASSUME WordAssumption == Word \in Nat \ {0}
ASSUME SizeAssumption == \A d \in Datagrams : d.size \in 0..(Word - 1)
ASSUME BufSizesAssumption == BufSizes # {} /\ BufSizes \subseteq 0..(Word - 1)
ASSUME ReadSizesAssumption == ReadSizes \subseteq 0..(Word - 1)
ASSUME ErrnosAssumption == {"NOTERROR", "AGAIN"} \subseteq Errnos
ASSUME MaxQueueAssumption == MaxQueue \in Nat

VARIABLES
  m_deliveryQueue,
  m_rxAvailable,
  m_rcvBufSize,
  m_shutdownRecv,
  m_errno,
  rxOut       \* what the last receive handler told the application: the
              \* NotifyDataRecv callback ("data"), the drop trace ("drop"),
              \* the packet Recv returned ("return") or its null ("null")

vars == <<m_deliveryQueue, m_rxAvailable, m_rcvBufSize, m_shutdownRecv,
          m_errno, rxOut>>

Init ==
  /\ m_deliveryQueue = [s \in Sockets |-> <<>>]
  /\ m_rxAvailable = [s \in Sockets |-> 0]
  /\ m_rcvBufSize \in [Sockets -> BufSizes]
  /\ m_shutdownRecv = [s \in Sockets |-> FALSE]
  /\ m_errno = [s \in Sockets |-> "NOTERROR"]
  /\ rxOut = Nothing

-------------------------------------------------------------------------------
(***************************************************************************)
(* Mutants: each stands for a plausible slip in the definition it replaces.*)
(***************************************************************************)
FitsStrictly(s, d) == (m_rxAvailable[s] + d.size) % Word < m_rcvBufSize[s]
ReleaseByRequest(s, n) == (m_rxAvailable[s] - n) % Word
ReleaseUnsigned(s, n) == m_rxAvailable[s] - n

-------------------------------------------------------------------------------
(* The room test of ForwardUp, in uint32_t arithmetic. *)
Fits(s, d) == (m_rxAvailable[s] + d.size) % Word <= m_rcvBufSize[s]

(***************************************************************************)
(* A datagram reaches the socket through an end point's receive callback.  *)
(* A socket shut down for reading ignores it, without a trace.             *)
(***************************************************************************)
ForwardUp(s, d) ==
  \/ m_shutdownRecv[s] /\ UNCHANGED vars
  \/ /\ ~m_shutdownRecv[s]
     /\ Fits(s, d)
     /\ m_deliveryQueue' = [m_deliveryQueue EXCEPT ![s] = Append(@, d)]
     /\ m_rxAvailable' = [m_rxAvailable EXCEPT ![s] = (@ + d.size) % Word]
     /\ rxOut' = [kind |-> "data", sock |-> s, datagram |-> d]
     /\ UNCHANGED <<m_rcvBufSize, m_shutdownRecv, m_errno>>
  \/ /\ ~m_shutdownRecv[s]
     /\ ~Fits(s, d)
     /\ rxOut' = [kind |-> "drop", sock |-> s, datagram |-> d]
     /\ UNCHANGED <<m_deliveryQueue, m_rxAvailable, m_rcvBufSize,
                    m_shutdownRecv, m_errno>>

(* The counter after a packet was popped; n is the size Recv was asked for. *)
Released(s, n) == (m_rxAvailable[s] - Head(m_deliveryQueue[s]).size) % Word

(***************************************************************************)
(* Recv returns null in two cases the caller cannot tell apart by its      *)
(* result: an empty queue, which sets m_errno, and a first packet larger   *)
(* than asked for, which stays where it is and leaves m_errno alone.       *)
(***************************************************************************)
Recv(s, maxSize) ==
  LET q == m_deliveryQueue[s] IN
  \/ /\ q = <<>>
     /\ m_errno' = [m_errno EXCEPT ![s] = "AGAIN"]
     /\ rxOut' = [kind |-> "null", sock |-> s]
     /\ UNCHANGED <<m_deliveryQueue, m_rxAvailable, m_rcvBufSize,
                    m_shutdownRecv>>
  \/ /\ q # <<>>
     /\ Head(q).size <= maxSize
     /\ m_deliveryQueue' = [m_deliveryQueue EXCEPT ![s] = Tail(@)]
     /\ m_rxAvailable' = [m_rxAvailable EXCEPT ![s] = Released(s, maxSize)]
     /\ rxOut' = [kind |-> "return", sock |-> s, datagram |-> Head(q)]
     /\ UNCHANGED <<m_rcvBufSize, m_shutdownRecv, m_errno>>
  \/ /\ q # <<>>
     /\ Head(q).size > maxSize
     /\ rxOut' = [kind |-> "null", sock |-> s]
     /\ UNCHANGED <<m_deliveryQueue, m_rxAvailable, m_rcvBufSize,
                    m_shutdownRecv, m_errno>>

(* The attribute may be lowered under a queue that already holds more. *)
SetRcvBufSize(s, size) ==
  /\ m_rcvBufSize' = [m_rcvBufSize EXCEPT ![s] = size]
  /\ UNCHANGED <<m_deliveryQueue, m_rxAvailable, m_shutdownRecv, m_errno, rxOut>>

(* ShutdownRecv and Close set the flag; neither touches the queue. *)
StopReceiving(s) ==
  /\ m_shutdownRecv' = [m_shutdownRecv EXCEPT ![s] = TRUE]
  /\ UNCHANGED <<m_deliveryQueue, m_rxAvailable, m_rcvBufSize, m_errno, rxOut>>

(* Environment: the calls of the socket's other parts only set m_errno. *)
OtherCall(s, e) ==
  /\ m_errno' = [m_errno EXCEPT ![s] = e]
  /\ UNCHANGED <<m_deliveryQueue, m_rxAvailable, m_rcvBufSize, m_shutdownRecv,
                 rxOut>>

Next ==
  \E s \in Sockets :
    \/ \E d \in Datagrams :
         Len(m_deliveryQueue[s]) < MaxQueue /\ ForwardUp(s, d)
    \/ \E n \in ReadSizes : Recv(s, n)
    \/ \E n \in BufSizes : SetRcvBufSize(s, n)
    \/ StopReceiving(s)
    \/ \E e \in Errnos : OtherCall(s, e)

Spec == Init /\ [][Next]_vars

-------------------------------------------------------------------------------
(***************************************************************************)
(* Properties.                                                             *)
(***************************************************************************)
RxOuts ==
  [kind : {"data", "drop", "return"}, sock : Sockets, datagram : Datagrams]
    \cup [kind : {"null"}, sock : Sockets] \cup {Nothing}

(* Every variable of the receive side stays in its type: queues hold       *)
(* datagrams and the counter never leaves the range of a uint32_t, however *)
(* calls and arrivals interleave (rudp-socket-impl.h:226-230).             *)
TypeOK ==
  /\ m_deliveryQueue \in [Sockets -> Seq(Datagrams)]
  /\ m_rxAvailable \in [Sockets -> 0..(Word - 1)]
  /\ m_rcvBufSize \in [Sockets -> BufSizes]
  /\ m_shutdownRecv \in [Sockets -> BOOLEAN]
  /\ m_errno \in [Sockets -> Errnos]
  /\ rxOut \in RxOuts

(* GetRxAvailable answers from the counter "to avoid walking the queue"    *)
(* (rudp-socket-impl.cc:732-733): whatever the history of arrivals, reads, *)
(* refused reads, drops and changes of the limit, a walk would find        *)
(* exactly that many bytes, so no read ever takes the counter below zero.  *)
RxAccounting ==
  \A s \in Sockets : m_rxAvailable[s] = Bytes(m_deliveryQueue[s])

(* The limits that leave the sum of ForwardUp's test below 2^32; the       *)
(* default, 131072, is one by a wide margin.                               *)
NoWrap == \A b \in BufSizes, d \in Datagrams : b + d.size < Word

(* The promise of the receive side: a FIFO bounded by its real bytes.      *)
Buffer ==
  INSTANCE DatagramBuffer WITH
    Limits <- BufSizes,
    contents <- m_deliveryQueue,
    limit <- m_rcvBufSize,
    open <- [s \in Sockets |-> ~m_shutdownRecv[s]],
    event <- rxOut

(* ForwardUp and Recv together implement that buffer: datagrams leave in   *)
(* arrival order, each once; one is dropped exactly when its bytes and     *)
(* those really queued exceed the limit in force when it arrives ("Drop    *)
(* RUDP packet due to receive buffer overflow", rudp-socket-impl.cc:63).   *)
ImplementsBuffer == Buffer!Spec

===============================================================================
