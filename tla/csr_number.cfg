SPECIFICATION ProgramSpec
CONSTANTS
  Modulus = 256
  NReg = 4
  Depth = 8
  ResetPC = 32
  NopWord = 51
  MemRegion <- MCMemRegion
  DevRegion <- MCDevRegion
  DevValues = {77}
  DontCare <- MCDontCare
  Decode <- MCDecode
  Alu <- MCAlu
  Flags <- MCFlags
  ReadLanes <- MCReadLanes
  BusWord <- MCBusWord
  EnabledLanes <- MCEnabledLanes
  Merge <- MCMerge
  Programs <- CsrReads
  InitRegs <- MCInitRegs
PROPERTY TohostIsCsr51e
