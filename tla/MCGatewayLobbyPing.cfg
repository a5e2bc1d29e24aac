SPECIFICATION MCSpec
CONSTANTS
  Sids = {lobby}
  Base = lobby
  MaxClientId = 2
  MaxAge = 2
  Delays = {}
  Conns = {k1, k2}
  NoConn = NoConn
  Gateways = {g1}
  NoGateway = NoGateway
  MaxInFlight = 2
  MaxFaults = 1
SYMMETRY ConnSymmetry
INVARIANTS
  PingEchoed
CHECK_DEADLOCK FALSE
