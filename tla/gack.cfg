SPECIFICATION Spec
CONSTANTS
  d1 = d1
  d2 = d2
  Coord = c
  NONE = NONE
  Devices = {d1, d2}
  Addr <- MCAddr
  Hash <- MCHash
  Cells <- MCCells
  GackSlots = {6}
  Policies = {"GROUP_ACK_LEGACY", "GROUP_ACK_ENHANCED"}
  Bitmaps = {{}, {3}}
  MaxSeq = 2
INVARIANTS
  TypeOK
  BitPerPacket
  ConfirmedOnce
PROPERTIES
  ExactWithoutCollision
