\* Two sockets bound, bound again, closed and let go by the application in any
\* order, and the protocol disposed of at any time.
SPECIFICATION FairNodeSpec
CHECK_DEADLOCK FALSE
CONSTANTS
  s1 = s1
  s2 = s2
  a = a
  b = b
  p1 = p1
  p2 = p2
  AnyAddr = AnyAddr
  Group = Group
  NoEndPoint = NoEndPoint
  NoSocket = NoSocket
  NoDest = NoDest
  NoDatagram = NoDatagram
  NoArrival = NoArrival
  NoReport = NoReport
  Nothing = Nothing
  Errnos <- MCErrnos
  Sockets = {s1, s2}
  Datagrams = {}
  Word = 8
  BufSizes = {2}
  ReadSizes = {1}
  MaxQueue = 1
  LocalAddrs = {}
  Ports = {}
  EphemeralPorts = {p1, p2}
  Stacks = {"v4", "v6"}
  Packets = {}
  Dests = {}
  Binds = {}
  Rebinds = {"Bind"}
  PktInfo = {}
  MaxInFlight = 0
  Calls = {"CreateSocket", "Release", "Bind", "Close", "DoDispose"}
INVARIANTS
  EndPointOwnership
  DestructorFindsNoEndPoint
PROPERTIES
  DisposalFrees
