SPECIFICATION FairSpec
CONSTANTS
  Clients = {c1, c2}
  Servers = {s1}
  NoKey = NoKey
  Timeouts = {1, 3}
  Capacity = 2
  WheelSlots = 8
  ExpireBudget = 1
  MaxLag = 2
  MaxTick = 10
  kNil = kNil
  kFree = kFree
INVARIANTS
  KeysExact
  FreeExact
  WheelExact
  ExpiredAreRemoved
PROPERTIES
  OverdueGoes
  ImplementsStore
