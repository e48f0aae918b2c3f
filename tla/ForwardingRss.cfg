CONSTANTS
  c1 = c1  c2 = c2  u1 = u1  a1 = a1  a2 = a2
  N = 2
  Clients = {c1, c2}
  TcpClients = {c1, c2}
  FlagSets = {{"SYN"}, {"ACK"}}
  FwdOwner <- MCSplitOwner
  Addrs = {a1}
  InitAddrs <- MCInitAddrs
  MaxRsId = 1
  MaxRsPerService = 2
  Mode = "NAT"
  NLips = 2
  NatPortMin = 3
  NatPortMax = 5
  Probes = 2
  RetByRss = TRUE
  RssOwner <- MCRssOwner
  Capacity = 2
  Timeout <- MCEqualTimeout
  Toa = TRUE
SPECIFICATION FairSpec
INVARIANTS ServerTuplesUnique ActiveExact
PROPERTIES DeletedDrains
