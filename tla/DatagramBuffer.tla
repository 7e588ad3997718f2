---------------------------- MODULE DatagramBuffer ----------------------------
(***************************************************************************)
(* What the receive side of an RUDP socket promises its application,       *)
(* stated without the byte counter the code keeps: every socket owns a     *)
(* FIFO of datagrams bounded in bytes.  A datagram offered to an open      *)
(* socket is stored exactly when the bytes then held stay within the limit *)
(* and is dropped, visibly, exactly when they would not.  RudpSocketRx is  *)
(* shown to implement this specification.                                  *)
(***************************************************************************)
EXTENDS DatagramBytes

CONSTANTS
  Sockets,    \* the sockets of the node
  Datagrams,  \* what may arrive: records with a field size
  Limits,     \* the limits, in bytes, the application may set
  ReadSizes,  \* the maxSize arguments the application reads with
  Nothing     \* the event of a buffer that has not spoken yet

VARIABLES
  contents,   \* the datagrams held, oldest first
  limit,      \* the most bytes an arrival may leave in the buffer
  open,       \* arrivals are still accepted
  event       \* the last thing the buffer told anybody

vars == <<contents, limit, open, event>>

Init ==
  /\ contents = [s \in Sockets |-> <<>>]
  /\ limit \in [Sockets -> Limits]
  /\ open = [s \in Sockets |-> TRUE]
  /\ event = Nothing

Store(s, d) ==
  /\ open[s]
  /\ Bytes(contents[s]) + d.size <= limit[s]
  /\ contents' = [contents EXCEPT ![s] = Append(@, d)]
  /\ event' = [kind |-> "data", sock |-> s, datagram |-> d]
  /\ UNCHANGED <<limit, open>>

Drop(s, d) ==
  /\ open[s]
  /\ Bytes(contents[s]) + d.size > limit[s]
  /\ event' = [kind |-> "drop", sock |-> s, datagram |-> d]
  /\ UNCHANGED <<contents, limit, open>>

Take(s, maxSize) ==
  /\ contents[s] # <<>>
  /\ Head(contents[s]).size <= maxSize
  /\ contents' = [contents EXCEPT ![s] = Tail(@)]
  /\ event' = [kind |-> "return", sock |-> s, datagram |-> Head(contents[s])]
  /\ UNCHANGED <<limit, open>>

TakeNothing(s, maxSize) ==
  /\ contents[s] # <<>> => Head(contents[s]).size > maxSize
  /\ event' = [kind |-> "null", sock |-> s]
  /\ UNCHANGED <<contents, limit, open>>

SetLimit(s, n) ==
  /\ limit' = [limit EXCEPT ![s] = n]
  /\ UNCHANGED <<contents, open, event>>

Shut(s) ==
  /\ open' = [open EXCEPT ![s] = FALSE]
  /\ UNCHANGED <<contents, limit, event>>

Next ==
  \E s \in Sockets :
    \/ \E d \in Datagrams : Store(s, d) \/ Drop(s, d)
    \/ \E n \in ReadSizes : Take(s, n) \/ TakeNothing(s, n)
    \/ \E n \in Limits : SetLimit(s, n)
    \/ Shut(s)

Spec == Init /\ [][Next]_vars

===============================================================================
