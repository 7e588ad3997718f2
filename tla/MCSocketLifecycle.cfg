\* Two sockets, two ephemeral ports per family, one of which is also bound by
\* number.  The application never binds a bound socket again.
SPECIFICATION Spec
CHECK_DEADLOCK FALSE
CONSTANTS
  s1 = s1
  s2 = s2
  Sockets = {s1, s2}
  Datagrams = {}
  Word = 8
  BufSizes = {2}
  ReadSizes = {1}
  Errnos <- MCErrnos
  Nothing = Nothing
  MaxQueue = 0
  LocalAddrs = {}
  AnyAddr = AnyAddr
  Ports = {1}
  EphemeralPorts = {1, 2}
  Stacks = {"v4", "v6"}
  Packets <- OnePacket
  Dests <- InetDests
  Calls <- BindingCalls
  Binds <- EveryBind
  Rebinds = {}
  NoEndPoint = NoEndPoint
  NoSocket = NoSocket
  NoDest = NoDest
  NoDatagram = NoDatagram
SYMMETRY SocketSymmetry
INVARIANTS
  TypeOK
  NoOrphans
  BoundAfterBind
  NoSendAfterShutdown
PROPERTIES
  EndPointsChangeHands
