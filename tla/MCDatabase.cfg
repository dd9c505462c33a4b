SPECIFICATION FairSpec
CONSTANTS
  Tasks = {t1, t2}
  d1 = d1
  d2 = d2
  Deployments = {d1, d2}
  NameOf <- OneName
  Times = {1, 2}
  None = None
  Torn = Torn
  MaxCalls = 3
  MaxCrashes = 2
INVARIANTS
  TypeOK
  InstancesHaveApps
  DurableOnceAcknowledged
  ServableUnlessFound
PROPERTIES
  InstancesSignalled
CHECK_DEADLOCK FALSE
