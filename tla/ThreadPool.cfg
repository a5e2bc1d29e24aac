SPECIFICATION TpSpec
CONSTANTS
  Workers = {w1, w2, w3}
  Callers = {c1, c2}
  Jobs = {j1, j2, j3, j4}
  NoJob = NoJob
INVARIANTS
  TpTypeOK
  StartedInOrder
  NoLostWakeup
  Drained
PROPERTIES
  EveryJobRuns
  DtorReturns
CHECK_DEADLOCK FALSE
