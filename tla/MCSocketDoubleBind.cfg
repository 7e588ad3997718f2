\* One socket, bound to an address again while it is bound.
SPECIFICATION Spec
CHECK_DEADLOCK FALSE
CONSTANTS
  s1 = s1
  Sockets = {s1}
  Datagrams = {}
  Word = 8
  BufSizes = {2}
  ReadSizes = {1}
  Errnos <- MCErrnos
  Nothing = Nothing
  MaxQueue = 0
  LocalAddrs = {}
  AnyAddr = AnyAddr
  Ports = {1, 2}
  EphemeralPorts = {}
  Stacks = {"v4", "v6"}
  Packets = {}
  Dests = {}
  Calls = {"BindAddress", "Close"}
  Binds <- EveryBind
  Rebinds = {"BindAddress"}
  NoEndPoint = NoEndPoint
  NoSocket = NoSocket
  NoDest = NoDest
  NoDatagram = NoDatagram
INVARIANTS
  BoundOnce
