SPECIFICATION Spec
CONSTANTS
  Width = 8
  ShiftWidth = 3
INVARIANT SignedCompareExact
CHECK_DEADLOCK FALSE
