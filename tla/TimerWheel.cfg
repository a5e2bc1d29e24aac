SPECIFICATION TwSpec
CONSTANTS
  Timers = {t1, t2, t3, t4}
  NoTimer = NoTimer
  Slots = 4
INVARIANTS
  TwTypeOK
  ListsWhole
  NewestFirst
PROPERTIES
  DeadlinesKept
  WalkEnds
