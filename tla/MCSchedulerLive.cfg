SPECIFICATION FairSpec
CONSTANTS
  NanosPerSecond = 1000
  SecondWeight = 4294
  Tasks = {t1, t2}
  Servers = {s1, s2}
  Self = s1
  Deployments = {d1}
  Windows <- Shipped
  Free = Free
  Nil = Nil
  MaxServers = 2
  MaxWindows = 1
  MaxRestarts = 0
PROPERTIES
  EveryCallReturns
