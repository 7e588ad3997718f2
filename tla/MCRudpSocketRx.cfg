\* Two limits, both far enough below Word for the room test not to wrap.
SPECIFICATION Spec
CONSTANTS
  s1 = s1
  Sockets = {s1}
  Datagrams <- MCDatagrams
  Word = 8
  BufSizes = {2, 4}
  ReadSizes = {0, 1, 2}
  Errnos <- MCErrnos
  Nothing = Nothing
  MaxQueue = 4
INVARIANTS
  TypeOK
  RxAccounting
PROPERTIES
  ImplementsBuffer
