SPECIFICATION Spec
CONSTANTS
  MinBE = 3
  MaxBE = 5
  MaxCSMABackoffs = 4
  MaxDraw = 6
  UnitBackoffPeriod = 10
  CcaSymbols = 4
  TurnaroundTime = 6
  AckWaitDuration = 27
  Frames <- MCFrames
  CapSymbols = 270
  BeaconSymbols = 23
  BeaconInterval = 480
  StopWhileDeferring = FALSE
  NONE = NONE
PROPERTY TransactionFitsMacCap
