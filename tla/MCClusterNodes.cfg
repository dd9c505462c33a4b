SPECIFICATION FairSpec
CONSTANTS
  a = a
  Nodes = {1, 2}
  Founder = 2
  Deployments = {a}
  None = None
  MaxStarts = 3
  MaxSpawns = 2
  MaxServices = 2
INVARIANTS
  TypeOK
  OneScheduler
  ReportersSurvive
PROPERTIES
  MembersGetKnown
  ServersCatchUp
CHECK_DEADLOCK FALSE
