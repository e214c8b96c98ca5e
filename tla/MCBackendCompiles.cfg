SPECIFICATION Spec
CONSTANTS
  Programs <- SmallPrograms
  MaxCode = 1
  FuncNames <- OneFuncName
  OtherNames <- OneOtherName
INVARIANT Compilable
