SPECIFICATION Spec
CONSTANTS
  NoAddr = NoAddr
  Cfgs <- SmallCfgs
  MaxAny = 1
  MaxCore = 1
INVARIANT
  LockIsAtomic
