CONSTANTS
  g = g  c = c  s = s  r = r  toR = toR
  m1 = m1  m2 = m2
  Ips = {g, c, s, r}
  Macs = {m1, m2}
  NoMac = NoMac
  NoIp = NoIp
  OnLink = {g, c}
  Gateway = g
  Static = {s}
  Caches = {toR}
  ClientCaches = {}
  Dest <- MCDest
  Client <- MCClient
  MacsOf <- MCMacsOf
  StaticMac <- MCStaticMac
  Unasked = {s}
  Good = {c}
  Lossy = {g}
  Capacity = 4
  Reachable = 2
  Refresh = 1
  RequestGap = 1
  RefreshGap = 1
  MaxStep = 1
  RingSize = 1
  Burst = 1
SPECIFICATION FairSpec
INVARIANTS CacheFresh TableExact
PROPERTIES InUseStays NextHopFound
