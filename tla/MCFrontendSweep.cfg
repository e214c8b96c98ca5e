SPECIFICATION Spec
CONSTANTS
  NoAddr = NoAddr
  NoName = NoName
  Binaries <- SmallBinaries
  MaxUnits = 2
  MaxSymbols = 0
  Targets = {10}
  Entries = {10}
INVARIANT
  EntireTextDisassembled
