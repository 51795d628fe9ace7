SPECIFICATION ReleasedSpec
CONSTANTS
  Modulus = 256
  NReg = 4
  Depth = 16
  ResetPC = 64
  NopWord = 51
  CharSize = 4
  IrqSize = 16
  Newline = 2
  LineMax = 2
  InitTimer = {0, 9}
  MaxPresses = 2
  PollWord = 5
  AddWord = 6
  ClearWord = 4
  CountReg = 2
  DontCare = {0}
  MemRegion <- MCMemRegion
  DevRegion <- MCDevRegion
  TimerRegion <- MCTimerRegion
  TbmanRegion <- MCTbmanRegion
  TimerPort <- MCTimerPort
  DevValues <- MCDevValues
  Decode <- MCDecode
  Alu <- MCAlu
  Flags <- MCFlags
  ReadLanes <- MCReadLanes
  BusWord <- MCBusWord
  EnabledLanes <- MCEnabledLanes
  Merge <- MCMerge
  Programs <- MCPrograms
  InitRegs <- MCInitRegs
INVARIANTS
  SystemTypeOK
  ConsoleFaithful
  Polls
  PolledOnce
PROPERTIES
  MatchTakenByLoad
  ReleasedClean
  Finishes
CHECK_DEADLOCK FALSE
