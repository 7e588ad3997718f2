\* Every setter, with values at the edges of the fields and memory that held
\* junk; the packet is read into an object newly made or used before.
SPECIFICATION Spec
CONSTANTS
  h1 = h1
  Objects = {h1}
  PortValues = {7}
  Lengths <- EdgeLengths
  Sizes <- EdgeSizes
  Octets <- EdgeOctets
  Words <- EdgeWords
  Leftovers <- ZeroOrJunk
  Reused = {}
  NoWire = NoWire
  NoHeader = NoHeader
INVARIANTS
  TypeOK
  RoundTrip
  FirstWordSurvives
  ForwardedUnchanged
  PayloadLengthArrives
