SPECIFICATION Spec
CONSTANTS
  NoAddr = NoAddr
  NoName = NoName
  Binaries <- SmallBinaries
  MaxUnits = 3
  MaxSymbols = 2
  Targets = {10, 11, 14, 40}
  Entries = {10, 13, 30}
INVARIANTS
  TypeOK
  FunctionsTile
  CallTargetsAreFunctions
  FunctionsAreCfgInputs
