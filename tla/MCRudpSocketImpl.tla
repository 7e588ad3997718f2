--------------------------- MODULE MCRudpSocketImpl ---------------------------
(***************************************************************************)
(* TLC instances of RudpSocketImpl.  The sizes around the limit on a       *)
(* datagram are the real ones.                                             *)
(***************************************************************************)
EXTENDS RudpSocketImpl, TLC

MCErrnos == {"NOTERROR", "AGAIN", "NOTCONN", "SHUTDOWN", "MSGSIZE",
             "NOROUTETOHOST", "BADF", "OPNOTSUPP", "ADDRINUSE",
             "ADDRNOTAVAIL", "INVAL"}

OnePacket == {[id |-> 1, size |-> 100]}
BoundaryPackets == {[id |-> 1, size |-> 65507], [id |-> 2, size |-> 65508]}

Inet == [type |-> "Inet", mapped |-> FALSE]
Inet6 == [type |-> "Inet6", mapped |-> FALSE]
Mapped == [type |-> "Inet6", mapped |-> TRUE]
Other == [type |-> "Other", mapped |-> FALSE]
V4Dests == {Inet, Mapped, Other}
InetDests == {Inet}
BothDests == {Inet, Inet6}

EveryBind == [family : Families, addr : LocalAddrs \cup {AnyAddr},
              port : Ports \cup {0}]

OneDatagram == {[id |-> 1, size |-> 1]}

\* Calls that take end points and give them back, and SendTo, which also may.
BindingCalls == {"Bind", "BindAddress", "BindInvalid", "BindToNetDevice",
                 "ShutdownSend", "ShutdownRecv", "Close", "SendTo", "DoDispose"}
SendingCalls == {"BindAddress", "BindInvalid", "ShutdownSend", "Close", "Listen", "Connect",
                 "Send", "SendTo", "GetPeerName", "SetMtuDiscover",
                 "NewPacket"}
ReceivingCalls == BindingCalls \cup {"Recv", "SetRcvBufSize"}
OneSocketCalls == SendingCalls \cup ReceivingCalls

SocketSymmetry == Permutations(Sockets)

===============================================================================
