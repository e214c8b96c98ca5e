SPECIFICATION Spec
CONSTANTS
  NoAddr = NoAddr
  Funcs <- SmallFuncs
  MaxInsns = 4
  Targets = {10, 11, 14, 30}
INVARIANTS
  TypeOK
  BlocksPartition
  StraightLine
  BlocksMaximal
  EdgesAreFlow
  TerminatorsMatchEdges
  EntryIsFirst
