\* Two sockets that bind, send, close and take over each other's port, with or
\* without a device, while the network still reports errors on what they sent.
\* The application never binds a bound socket again.
SPECIFICATION NodeSpec
CHECK_DEADLOCK FALSE
CONSTANTS
  s1 = s1
  s2 = s2
  a = a
  b = b
  p1 = p1
  p2 = p2
  AnyAddr = AnyAddr
  Group = Group
  NoEndPoint = NoEndPoint
  NoSocket = NoSocket
  NoDest = NoDest
  NoDatagram = NoDatagram
  NoArrival = NoArrival
  NoReport = NoReport
  Nothing = Nothing
  Errnos <- MCErrnos
  Sockets = {s1, s2}
  Datagrams <- DeviceDatagrams
  Word = 8
  BufSizes = {2}
  ReadSizes = {1}
  MaxQueue = 1
  LocalAddrs = {a}
  Ports = {p1}
  EphemeralPorts = {p1, p2}
  Stacks = {"v4", "v6"}
  Packets <- OnePacket
  Dests <- InetDest
  Binds <- OneBind
  Rebinds = {}
  PktInfo = {}
  MaxInFlight = 1
  Calls = {"CreateSocket", "BindAddress", "BindToNetDevice", "Close", "SendTo", "Receive", "ReceiveIcmp"}
SYMMETRY SocketSymmetry
VIEW ReadByPorts
INVARIANTS
  IcmpFindsSender
  AnswersFindSender
PROPERTIES
  OnlyFromItsDevice
