SPECIFICATION Spec
CONSTANTS
  NoAddr = NoAddr
  Funcs <- JrcxzFuncs
  MaxInsns = 2
  Targets = {10}
INVARIANT
  JumpsEndBlocks
