SPECIFICATION Spec
CHECK_DEADLOCK FALSE
CONSTANTS
  p = p
  c1 = c1
  c2 = c2
  d = d
  PanC = p
  Coords = {c1, c2}
  Devices = {d}
  SdIndex <- MCSdIndex
  Boot <- TwoCoordsBoot
  Tables <- EmptyTables
  LateEntries = {}
  Callbacks = {"null"}
  Lossy = {c1, c2}
  FlagsAtStart <- ClearFlags
  NumChannels = 6
  SD = 768
  NumSuperframes = 2
  NumMultis = 2
  Base = 48
  Second = 3125
  Turnaround = 1
  BeaconLen = 6
  GackDelay = 9
  GackLen = 4
  EndEarly = 1
  StopTime = 6144
INVARIANT
  DelayIsPositive
