SPECIFICATION KsSpec
CONSTANTS
  c1 = c1
  c2 = c2
  s1 = s1
  s2 = s2
  Clients = {c1, c2}
  Servers = {s1, s2}
  NoOne = NoOne
  Addrs <- TheAddrs
  ShakeLife = 1
  Timeouts = {1}
  MaxDials = 2
  MaxAllDials = 2
  MaxConv = 2
  MaxShakes = 2
INVARIANTS
  KsTypeOK
  AcceptedOnce
  OneConversation
  CpsWhole
  ConnectOnce
  FreshConv
  AcceptIgnored
PROPERTIES
  DialEnds
  Joined
CHECK_DEADLOCK FALSE
