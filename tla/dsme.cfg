SPECIFICATION Spec
CHECK_DEADLOCK FALSE
CONSTANTS
  p = p
  c1 = c1
  c2 = c2
  d = d
  PanC = p
  Coords = {c1}
  Devices = {d}
  SdIndex <- MCSdIndex
  Boot <- MCBoot
  Tables <- MCTables
  LateEntries <- MCLate
  Callbacks = {"null", "report", "resync"}
  Lossy = {c1, d}
  FlagsAtStart <- MCFlags
  NumChannels = 6
  SD = 768
  NumSuperframes = 2
  NumMultis = 2
  Base = 48
  Second = 3125
  Turnaround = 1
  BeaconLen = 6
  GackDelay = 9
  GackLen = 4
  EndEarly = 1
  StopTime = 16384
INVARIANTS
  TypeOK
  DelayIsPositive
  BeaconFindsIdle
  BeaconInItsSlot
  OneGtsAtATime
  GtsInItsCell
  DeafOnlyAfterLastSlot
  SameHop
  GackHeard
  PeriodsAgree
  SuperframeIdxTracks
  LostCount
  LossInTime
PROPERTIES
  LossMeansMisses
