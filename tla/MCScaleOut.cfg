SPECIFICATION FairSpec
CONSTANTS
  NanosPerSecond = 1000
  SecondWeight = 4294
  Tasks = {t1, t2}
  Servers = {s1}
  Self = s1
  Deployments = {d1}
  Windows <- ShippedAndLoaded
  Free = Free
  Nil = Nil
  MaxServers = 1
  MaxWindows = 1
  MaxRestarts = 0
PROPERTIES
  ScaleOutFinishes
CHECK_DEADLOCK FALSE
