SPECIFICATION FairSpec
CONSTANTS
  Timer = {t1, t2}
  Time = {0, 1, 2}
  MaxCalls = 7
  Nobody = Nobody
CHECK_DEADLOCK FALSE
INVARIANTS
  TypeOK
  QueueSound
  AlarmSet
PROPERTY
  Expires
