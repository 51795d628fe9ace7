SPECIFICATION PolledSpec
CONSTANT Modulus = 12
INVARIANTS
  TypeOK
  MatchAhead
PROPERTIES
  AlarmSpec
  KeepsRinging
