SPECIFICATION MachineSpec
CONSTANTS
  NoAddr = NoAddr
  NoName = NoName
  Binaries <- SmallPrograms
  Inputs <- SomeInputs
  W = 6
  BitAnd <- Ands
  BitOr <- Ors
  BitXor <- Xors
  MaxSteps = 24
  Tolerated <- StackAndStore
INVARIANT SameEffect
