SPECIFICATION FairNodeSpec
CONSTANTS
  NanosPerSecond = 1000
  SecondWeight = 4294
  Tasks = {t1, t2}
  Servers = {s1}
  Self = s1
  MaxServers = 1
  MaxRestarts = 0
  good = good
  bad = bad
  Deployments = {good, bad}
  Windows <- ShippedAndLoaded
  Free = Free
  Nil = Nil
  MaxWindows = 1
  Face = {good, bad}
  Sound = {good}
  MaxCalls = 4
INVARIANTS
  NodeTypeOK
  ListedIsOffered
PROPERTIES
  AnsweredIsServed
  ComesToRest
CHECK_DEADLOCK FALSE
