SPECIFICATION Spec
CONSTANT ByteSize = 4
INVARIANTS
  StoresHitTheirBytes
  LoadsReturnStored
