\* One algorithm that wants one hot worker, one job in a pass, and one fault of any kind.
CONSTANTS
  A = A
  B = B
  Algorithms = {A}
  Size <- Sizes
  MaxPerTick = 1
  Ids = {1, 2}
  alg <- AlgOfOne
  MinHot <- OneHot
  Room = 4
  NodeSize = 4
  MaxRequests <- TwoEach
  MaxChanges = 1
  MaxFaults = 1
SPECIFICATION FairSpec
PROPERTY NoSurplus HotSettles
