CONSTANTS
  ServiceSections <- MCServiceSections
  MaxKey = 2
  W = 2
  Cases <- MCCases
  NewAddr <- MCNewAddr
  Mtu = 84
SPECIFICATION Spec
INVARIANTS NothingShadowed DispatchAgrees RewriteSound
CHECK_DEADLOCK FALSE
