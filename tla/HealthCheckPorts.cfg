CONSTANTS
  MaxRs = 2
  InitRs = 2
  Good = {0}
  NPorts = 1
  Timeout = 2
  Interval = 2
  ReportGap = 1
  Rise = 1
  Fall = 2
  RingSize = 1
  Burst = 64
  MaxStep = 1
SPECIFICATION Spec
INVARIANTS GoodStaysUp
