CONSTANTS
  N = 2
  NQ = 3
  Modes = {"rtc", "pipeline"}
  MaxPkts = 4
  Flow <- MCFlow
  NoFlow = "none"
  Owner <- MCOwner
  Icmp = {3}
  Queue <- MCQueue
  Hashed <- MCHashed
  Burst = 2
  RingSize = 1
SPECIFICATION FairSpec
INVARIANTS Accounted FlowsInOrder
PROPERTIES PacketsGetOut
CHECK_DEADLOCK FALSE
