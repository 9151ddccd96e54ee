CONSTANTS
  Parts = {"divider", "loop", "control"}
  Nominal = 8
  Mod = 4
  Divisors <- SomeDivisors
  Latency = 2
  Entry = 2
  SetLimit = 5
  CyclesPerSecond = 2
  ReadLimit = 6
  Seconds = 7
  MaxCycles = 5
  MaxEdges = 1
  MaxSets = 1
  MaxSlews = 1
  SettledMax = 3
  HoldoverPulses = 2
  PpsTimeout = 3
  SlewTimeout = 5
  StartTimeout = 8
  HoldoverTimeout = 6
  CorrectionInterval = 2
  HistoryLength = 2
  HistoryInterval = 2
  HistoryLag = 1
  MaxFaults = 3
  MaxStray = 1
  Word = 16
  ProportionalDiv = 4
  IntegralDiv = 8
  IntegratorLimit = 8
  MaxEffort = 3
  FilterRange = 6
  ValidRange = 200
  FirstError <- Small
  ImpulseResponse <- Response
  OutputShift = 4
SPECIFICATION BothSpec
INVARIANTS TicksOwed  StampExact LockEarned
PROPERTIES LeavesHoldover   Converges
CHECK_DEADLOCK FALSE
