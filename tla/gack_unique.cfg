SPECIFICATION Spec
CONSTANTS
  d1 = d1
  d2 = d2
  Coord = c
  NONE = NONE
  Devices = {d1, d2}
  Addr <- MCAddr
  Hash <- InjectiveHash
  Cells <- MCCells
  GackSlots = {6}
  Policies = {"GROUP_ACK_ENHANCED"}
  Bitmaps = {{}}
  MaxSeq = 3
INVARIANT
  ConfirmedWasReceived
