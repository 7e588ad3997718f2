\* One protocol, one node and both IP layers, aggregated in every order, with
\* down targets set from outside at any time; two factories, so that a second
\* one could be made.
SPECIFICATION Spec
CHECK_DEADLOCK FALSE
CONSTANTS
  f1 = f1
  f2 = f2
  Factories = {f1, f2}
  Null = Null
SYMMETRY FactorySymmetry
INVARIANTS
  TypeOK
  OneFactory
  InsertedOnce
  WiredWhenComplete
  SocketsKnowTheirNode
