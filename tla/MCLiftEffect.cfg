SPECIFICATION Spec
CONSTANTS
  NoAddr = NoAddr
  Cfgs <- LiftedCfgs
  MaxAny = 2
  MaxCore = 4
  W = 6
  BitAnd <- Ands
  BitOr <- Ors
  BitXor <- Xors
  Pairs <- SomePairs
INVARIANTS
  TypeOK
  SingleAssignment
  ReadsLatest
  EveryInsnLifted
PROPERTIES
  EffectKept
  DamageConfined
