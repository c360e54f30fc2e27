SPECIFICATION Spec
CONSTANTS
  p1 = p1
  p2 = p2
  p3 = p3
  pBig = pBig
  g1 = g1
  g2 = g2
  b = b
  d = d
  a = a
  k = k
  c11 = c11
  c12 = c12
  NONE = NONE
  Packets = {p1, p2, g1}
  Oversized = {}
  Signals = {b}
  Channels = {c11, c12}
  Tunable = {c11, c12}
  AckPackets = {}
  LongPackets = {p2}
  GtsPackets = {g1}
  Forwardable = {p1}
  Beacons = {b}
  AckSignals = {}
  GackSignals = {}
  CapChannel = c11
  Slots <- TxSlots
  Slotted = TRUE
  GroupAck = TRUE
  RxOnWhenIdle = TRUE
  ContinueFromCap = FALSE
  Forwarding = TRUE
  MaxTxQueueSize = 2
  MaxCSMABackoffs = 1
  Beyond = TRUE
PROPERTY ConfirmsWhatWasSent
CHECK_DEADLOCK FALSE
