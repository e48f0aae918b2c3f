CONSTANTS
  c1 = c1  c2 = c2  u1 = u1  a1 = a1  a2 = a2
  N = 2
  Clients = {c1, u1}
  TcpClients = {c1}
  FlagSets = {{"SYN"}, {"ACK"}, {"FIN", "ACK"}, {"RST"}}
  FwdOwner <- MCFwdOwner
  Addrs = {a1, a2}
  InitAddrs <- MCInitAddrs
  MaxRsId = 2
  MaxRsPerService = 2
  Mode = "NAT"
  NLips = 1
  NatPortMin = 3
  NatPortMax = 4
  Probes = 1
  RetByRss = FALSE
  RssOwner <- MCRssOwner
  Capacity = 2
  Timeout <- MCTimeout
  Toa = FALSE
SPECIFICATION Spec
VIEW MCView
INVARIANTS IdKeepsAddress BothWaysOwned LifeMatchesState
PROPERTIES Sticky PublishedIsObeyed
