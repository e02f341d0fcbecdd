SPECIFICATION FairSpec
CONSTANTS
  Inits <- AllInits
  Samples <- AllSamples
  MaxSamples = 2
  MaxPresses = 1
  MaxTouches = 1
  MaxLost = 0
  MaxLag = 1
INVARIANTS
  TypeOK
PROPERTIES
  KeepsPromise
CHECK_DEADLOCK FALSE
