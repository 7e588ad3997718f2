\* One socket on a node with IPv4 only, with every call there is: it sends to
\* IPv4 and mapped addresses, connected or not, around the largest size, and
\* receives while it binds, sends, shuts and closes.
SPECIFICATION Spec
CHECK_DEADLOCK FALSE
CONSTANTS
  a1 = a1
  s1 = s1
  Sockets = {s1}
  Datagrams <- OneDatagram
  Word = 8
  BufSizes = {1, 2}
  ReadSizes = {0, 1}
  Errnos <- MCErrnos
  Nothing = Nothing
  MaxQueue = 2
  LocalAddrs = {a1}
  AnyAddr = AnyAddr
  Ports = {1}
  EphemeralPorts = {1}
  Stacks = {"v4"}
  Packets <- BoundaryPackets
  Dests <- V4Dests
  Calls <- OneSocketCalls
  Binds <- EveryBind
  Rebinds = {}
  NoEndPoint = NoEndPoint
  NoSocket = NoSocket
  NoDest = NoDest
  NoDatagram = NoDatagram
INVARIANTS
  LowerLayerThere
  NoSendAfterShutdown
PROPERTIES
  ReceiveSide
