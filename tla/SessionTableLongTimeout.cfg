SPECIFICATION Spec
CONSTANTS
  Clients = {c1, c2}
  Servers = {s1}
  NoKey = NoKey
  Timeouts = {1, 4}
  Capacity = 2
  WheelSlots = 4
  ExpireBudget = 4
  MaxLag = 2
  MaxTick = 10
  kNil = kNil
  kFree = kFree
INVARIANTS
  ExpiredAreRemoved
