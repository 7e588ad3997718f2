\* Two sockets bound to one port, by wildcard or by address, in either family;
\* datagrams to a group, to the address, to another port, and a damaged one.  The
\* application binds, closes and shuts sockets at any time, callbacks included.
SPECIFICATION FairNodeSpec
CHECK_DEADLOCK FALSE
CONSTANTS
  s1 = s1
  s2 = s2
  a = a
  b = b
  p1 = p1
  p2 = p2
  AnyAddr = AnyAddr
  Group = Group
  NoEndPoint = NoEndPoint
  NoSocket = NoSocket
  NoDest = NoDest
  NoDatagram = NoDatagram
  NoArrival = NoArrival
  NoReport = NoReport
  Nothing = Nothing
  Errnos <- MCErrnos
  Sockets = {s1, s2}
  Datagrams <- EveryArrival
  Word = 8
  BufSizes = {1}
  ReadSizes = {1}
  MaxQueue = 1
  LocalAddrs = {a}
  Ports = {p1}
  EphemeralPorts = {}
  Stacks = {"v4", "v6"}
  Packets = {}
  Dests = {}
  Binds <- AddressBinds
  Rebinds = {}
  PktInfo = {s1}
  MaxInFlight = 0
  Calls = {"CreateSocket", "BindAddress", "ShutdownRecv", "Close", "Receive"}
INVARIANTS
  NodeTypeOK
  OpenPortsAnswer
  QueuedWasAddressed
  HeardAtMostOnce
PROPERTIES
  OwnSocketMayBeClosed
  LoopSkipsNone
  MatchedSocketsHear
