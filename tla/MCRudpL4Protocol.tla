--------------------------- MODULE MCRudpL4Protocol ---------------------------
(***************************************************************************)
(* TLC instances of RudpL4Protocol: a node with one local address, a few   *)
(* ports, and the datagrams that tell its lookups apart.                   *)
(***************************************************************************)
EXTENDS RudpL4Protocol, TLC

MCErrnos == {"NOTERROR", "AGAIN", "NOTCONN", "SHUTDOWN", "MSGSIZE",
             "NOROUTETOHOST", "BADF", "OPNOTSUPP", "ADDRINUSE",
             "ADDRNOTAVAIL", "INVAL"}

OnePacket == {[id |-> 1, size |-> 100]}
Inet == [type |-> "Inet", mapped |-> FALSE]
InetDest == {Inet}

CONSTANTS
  a,      \* the address applications bind to
  b,      \* another address of the node, to which only wildcards listen
  p1, p2  \* ports

Binding(f, addr) == [family |-> f, addr |-> addr, port |-> p1]
WildcardBinds == {Binding(f, AnyAddr) : f \in Families}
AddressBinds == WildcardBinds \cup {Binding("v4", a)}
OneBind == {Binding("v4", a)}

Arriving(family, dst, interface) ==
  [size |-> 1, family |-> family, dst |-> dst, port |-> p1, checksumOk |-> TRUE,
   interface |-> interface, mapped |-> FALSE]

EveryArrival ==
  {Arriving("v4", Group, "other"), Arriving("v4", a, "other"),
   [Arriving("v6", b, "other") EXCEPT !.port = p2],
   [Arriving("v4", a, "other") EXCEPT !.checksumOk = FALSE]}
DeviceDatagrams ==
  {Arriving("v4", b, i) : i \in {"device", "other"}}
     \cup {Arriving("v4", Group, "other")}

\* What the guards and the properties of node_ports read: not m_errno, nor what
\* the last step said, sent or found.
ReadByPorts ==
  <<m_deliveryQueue, m_rxAvailable, m_rcvBufSize, m_shutdownRecv, bindVars,
    flagVars, status, lifeVars, loopVars, inFlight, icmpTo, crash>>

SocketSymmetry == Permutations(Sockets)

===============================================================================
