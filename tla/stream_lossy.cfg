SPECIFICATION FairSpec
CONSTANTS
  Inits <- FewInits
  Samples <- FewSamples
  MaxSamples = 1
  MaxPresses = 3
  MaxTouches = 1
  MaxLost = 2
  MaxLag = 0
INVARIANTS
  StreamFits
PROPERTIES
  KeepsPromise
CHECK_DEADLOCK FALSE
