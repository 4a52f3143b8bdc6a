SPECIFICATION MCSpec
CONSTANTS
  Consumers = {c1, c2}
  Messages = {m1, m2, m3}
  MaxInbound = 1
  MaxOutbound = 0
  Subscribers = {s1, s2, s3}
  Publishers = {q1}
  None = None
  MaxDelivery = 3
  MaxAttempts = 2
  p1 = p1
  p2 = p2
  m1 = m1
  m2 = m2
  m3 = m3
  Procs = {p1, p2}
  Msgs = {m1, m2, m3}
  MaxMarkers = 1
  Marker = Marker
  Torn = Torn
INVARIANTS
  BusInv
  NoMissedWakeup
  FifoNoLoss
  KeptInv
PROPERTIES
  ImplementsTranscript
  Served
CHECK_DEADLOCK FALSE
