SPECIFICATION Spec
CONSTANTS
  Width = 8
  ShiftWidth = 3
INVARIANTS
  TypeOK
  UnsignedExact
  UnsignedBranchesExact
  SignedCompareExactButMin
  CompareConsistent
  ProductsExact
  BitsExact
  DivisionLaw
CHECK_DEADLOCK FALSE
