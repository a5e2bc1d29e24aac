SPECIFICATION GwSpec
CONSTANTS
  Sids = {lobby, game}
  Base = lobby
  MaxClientId = 2
  MaxAge = 3
  Delays = {"now", "later"}
PROPERTIES
  DisconnectOnce
