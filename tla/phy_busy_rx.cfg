SPECIFICATION Spec
CONSTANTS
  p1 = p1
  pBig = pBig
  s1 = s1
  s2 = s2
  c11 = c11
  c12 = c12
  c27 = c27
  NONE = NONE
  Packets = {p1, pBig}
  Oversized = {pBig}
  Signals = {s1, s2}
  Channels = {c11, c12, c27}
  Tunable = {c11, c12}
  Requests <- MCRequests
  MaxStale = 1
  MaxNesting = 1
INVARIANT BusyRxMarksReception
CHECK_DEADLOCK FALSE
