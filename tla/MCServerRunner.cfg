SPECIFICATION FairSpec
CONSTANTS
  Tasks = {t1, t2}
  good = good
  bad = bad
  other = other
  Deployments = {good, bad, other}
  Face = {good, bad}
  Sound = {good, other}
  Free = Free
  None = None
  MaxCalls = 3
  MaxStarts = 2
INVARIANTS
  TypeOK
  AckedIsOffered
PROPERTIES
  AckedServed
  EveryCallReturns
  StaysPoisoned
CHECK_DEADLOCK FALSE
