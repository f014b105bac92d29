CONSTANTS
  None = None
  Tasks = {t1, t2, t3}
  Limit = 2
  Window = 2
  Resolution = 1
  MaxClock = 3
  MaxRetries = 2
  Cap = 2
  RetryAfters = {None, 3}
SPECIFICATION Spec
SYMMETRY TaskSymmetry
INVARIANTS
  TypeOK
  WindowRespected
  NoNeedlessSleep
  LockIsNeverStranded
  BackoffSchedule
  EveryRequestHasAPermit
