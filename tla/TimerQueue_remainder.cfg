SPECIFICATION Spec
CONSTANTS
  Timer = {t1, t2, t3}
  Time = {0, 1, 2, 3}
  MaxCalls = 5
  Nobody = Nobody
CHECK_DEADLOCK FALSE
INVARIANT
  PlannedInTime
