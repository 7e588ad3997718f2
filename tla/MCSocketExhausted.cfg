\* One ephemeral port per family and two sockets.
SPECIFICATION Spec
CHECK_DEADLOCK FALSE
CONSTANTS
  s1 = s1
  s2 = s2
  Sockets = {s1, s2}
  Datagrams = {}
  Word = 8
  BufSizes = {2}
  ReadSizes = {1}
  Errnos <- MCErrnos
  Nothing = Nothing
  MaxQueue = 0
  LocalAddrs = {}
  AnyAddr = AnyAddr
  Ports = {}
  EphemeralPorts = {1}
  Stacks = {"v4", "v6"}
  Packets <- OnePacket
  Dests <- BothDests
  Calls = {"Bind", "SendTo"}
  Binds <- EveryBind
  Rebinds = {}
  NoEndPoint = NoEndPoint
  NoSocket = NoSocket
  NoDest = NoDest
  NoDatagram = NoDatagram
INVARIANTS
  BoundAfterBind
