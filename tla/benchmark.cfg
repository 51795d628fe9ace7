SPECIFICATION Spec
CONSTANTS
  Modulus = 32
  NUMBER_OF_RUNS = 1
  HZ = 13
  Too_Small_Time = 1
  Mic_secs_Per_Second = 20
  ElapsedMax = 34
INVARIANTS
  TypeOK
  MeasurementExact
  FinalValues
PROPERTIES
  Reports
CHECK_DEADLOCK FALSE
