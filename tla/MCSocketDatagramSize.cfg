\* The largest packet SendTo accepts.
SPECIFICATION Spec
CHECK_DEADLOCK FALSE
CONSTANTS
  s1 = s1
  Sockets = {s1}
  Datagrams = {}
  Word = 8
  BufSizes = {2}
  ReadSizes = {1}
  Errnos <- MCErrnos
  Nothing = Nothing
  MaxQueue = 0
  LocalAddrs = {}
  AnyAddr = AnyAddr
  Ports = {1}
  EphemeralPorts = {1, 2}
  Stacks = {"v4", "v6"}
  Packets <- BoundaryPackets
  Dests <- InetDests
  Calls = {"SendTo"}
  Binds <- EveryBind
  Rebinds = {}
  NoEndPoint = NoEndPoint
  NoSocket = NoSocket
  NoDest = NoDest
  NoDatagram = NoDatagram
INVARIANTS
  FitsIpDatagram
