CONSTANTS
  MaxRs = 2
  InitRs = 1
  Good = {0}
  NPorts = 2
  Timeout = 1
  Interval = 1
  ReportGap = 1
  Rise = 1
  Fall = 2
  RingSize = 1
  Burst = 64
  MaxStep = 1
SPECIFICATION FairSpec
INVARIANTS PortsExact GoodStaysUp
PROPERTIES DeadGoesDown SnapshotFollows
