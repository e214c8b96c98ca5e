SPECIFICATION Spec
CONSTANTS
  Programs <- SmallPrograms
  MaxCode = 1
  FuncNames <- SomeFuncNames
  OtherNames <- SomeOtherNames
INVARIANTS
  TypeOK
  CallsDeclared
  ExternsAgree
  CallsReachFunctions
  BodiesInAddressOrder
