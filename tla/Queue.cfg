SPECIFICATION FairSpec
CONSTANTS
  p1 = p1
  p2 = p2
  Packet <- Packets
  PQ_LEN = 4
  Gated = TRUE
INVARIANTS TypeOK OneThread NoLostWakeup
PROPERTIES FifoSpec Served
