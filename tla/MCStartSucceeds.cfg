SPECIFICATION Spec
CONSTANTS
  Tasks = {t1, t2}
  d1 = d1
  d2 = d2
  Deployments = {d1, d2}
  NameOf <- OneName
  Times = {1, 2}
  None = None
  Torn = Torn
  MaxCalls = 1
  MaxCrashes = 1
INVARIANTS
  StartSucceeds
CHECK_DEADLOCK FALSE
