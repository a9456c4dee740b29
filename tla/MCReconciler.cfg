\* Two algorithms, one job of the one fills the node and so do two of the other.
CONSTANTS
  A = A
  B = B
  Algorithms = {A, B}
  Size <- Sizes
  MaxPerTick = 100
  Ids = {1, 2, 3}
  alg <- AlgOfTwo
  MinHot <- NoneHot
  Room = 2
  NodeSize = 2
  MaxRequests <- OneEach
  MaxChanges = 1
  MaxFaults = 0
SPECIFICATION FairSpec
INVARIANT TypeOK
PROPERTY Served
