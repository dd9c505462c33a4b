SPECIFICATION Spec
CONSTANTS
  NanosPerSecond = 1000
  SecondWeight = 4294
  Tasks = {t1, t2}
  Servers = {s1, s2}
  Self = s1
  Deployments = {d1, d2}
  Windows <- ShippedAndLoaded
  Free = Free
  Nil = Nil
  MaxServers = 2
  MaxWindows = 1
  MaxRestarts = 1
SYMMETRY Symmetry
INVARIANTS
  TypeOK
  OneInstanceEach
  SavedBeforeSpawned
  BlockedOnlyByOverload
PROPERTIES
  RefinesPlacement
  FrozenUntilRestart
  AnswerableOnceReported
CHECK_DEADLOCK FALSE
