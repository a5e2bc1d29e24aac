SPECIFICATION GlSpec
CONSTANTS
  Sids = {lobby}
  Base = lobby
  MaxClientId = 1
  MaxAge = 2
  Delays = {}
  Conns = {k1, k2}
  NoConn = NoConn
  Gateways = {g1}
  NoGateway = NoGateway
  MaxInFlight = 2
  MaxFaults = 2
PROPERTIES
  Recovers
CHECK_DEADLOCK FALSE
