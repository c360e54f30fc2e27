SPECIFICATION Spec
CONSTANTS
  p1 = p1
  p2 = p2
  p3 = p3
  pBig = pBig
  g1 = g1
  g2 = g2
  b = b
  d = d
  a = a
  k = k
  c11 = c11
  c12 = c12
  NONE = NONE
  Packets = {p1}
  Oversized = {}
  Signals = {d}
  Channels = {c11, c12}
  Tunable = {c11, c12}
  AckPackets = {}
  LongPackets = {}
  GtsPackets = {}
  Forwardable = {p1}
  Beacons = {}
  AckSignals = {}
  GackSignals = {}
  CapChannel = c11
  Slots = {}
  Slotted = FALSE
  GroupAck = FALSE
  RxOnWhenIdle = TRUE
  ContinueFromCap = TRUE
  Forwarding = FALSE
  MaxTxQueueSize = 2
  MaxCSMABackoffs = 1
  Beyond = TRUE
PROPERTY AccessFailureEnds
CHECK_DEADLOCK FALSE
