SPECIFICATION Spec
CONSTANTS
  p1 = p1
  p2 = p2
  p3 = p3
  pBig = pBig
  g1 = g1
  g2 = g2
  b = b
  d = d
  a = a
  k = k
  c11 = c11
  c12 = c12
  NONE = NONE
  Packets = {p1, p2, p3, pBig, g1, g2}
  Oversized = {pBig}
  Signals = {b, d, a, k}
  Channels = {c11, c12}
  Tunable = {c11, c12}
  AckPackets = {p3, g1}
  LongPackets = {p2}
  GtsPackets = {g1, g2}
  Forwardable = {p1, p3}
  Beacons = {b}
  AckSignals = {a}
  GackSignals = {k}
  CapChannel = c11
  Slots <- AllSlots
  Slotted = TRUE
  GroupAck = TRUE
  RxOnWhenIdle = TRUE
  ContinueFromCap = TRUE
  Forwarding = TRUE
  MaxTxQueueSize = 2
  MaxCSMABackoffs = 1
  Beyond = FALSE
INVARIANTS
  TypeOK
  NoAssertionFails
  OneRound
  SendsHeadOfQueue
  HopsBetweenFrames
  ChannelOfPeriod
PROPERTIES
  OrderlyConfirms
  SendingEnds
