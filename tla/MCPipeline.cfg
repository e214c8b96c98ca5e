SPECIFICATION FairSpec
CONSTANTS
  NoAddr = NoAddr
  NoName = NoName
  Binaries <- SmallBinaries
  MaxAny = 2
  MaxCore = 4
INVARIANTS
  TypeOK
  StageInputs
  CallsLand
PROPERTIES
  KeepsPromise
  Termination
