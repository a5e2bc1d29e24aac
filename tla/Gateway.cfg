SPECIFICATION GwSpec
CONSTANTS
  Sids = {lobby, game}
  Base = lobby
  MaxClientId = 2
  MaxAge = 3
  Delays = {"now", "later"}
INVARIANTS
  GwTypeOK
  WhitelistTold
  RosterAgrees
  LiveAreRegistered
  EveryoneArmed
  OneConnectionEach
PROPERTIES
  DataFromOpened
  KickedDies
  PingResolved
