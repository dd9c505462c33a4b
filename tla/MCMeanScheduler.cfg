SPECIFICATION Spec
CONSTANTS
  NanosPerSecond = 10
  SecondWeight = 43
  Servers = {1, 2, 3}
  MaxWindows = 2
INVARIANTS
  LoopMatchesChoices
