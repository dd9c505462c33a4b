SPECIFICATION FairSpec
CONSTANTS
  NanosPerSecond = 10
  SecondWeight = 43
  NeededGauges = {"gpu", "vram"}
  PlistKeys = {"idle_ratio", "elapsed_ns", "timestamp"}
  Monitors = {m1, m2}
  Workers = 2
  PipeSize = 1
  Sources <- AllSources
  None = None
INVARIANTS
  TypeOK
  SaysWhatWasPrinted
  EndsOnlyForAReason
PROPERTIES
  FailedReporterFreesWorker
  KeepsReporting
  CallsHandled
CHECK_DEADLOCK FALSE
