CONSTANTS
  N = 5
  H = 2
  S = 4
  AcqTol = 0
  PpsTol = 0
  CountMod = 4
  MaxFaults = 0
  LatencyOverlap = FALSE
  CycleMod = 7
  Window = 2
  TxDelay = 1
  MaxLag = 1
  QueueCap = 1
  Datagram = {1, 2}
  Kinds = {}
  GpsStatus = {"unlocked", "locked", "normal", "holdover"}
  PpsRace = FALSE
SPECIFICATION Spec
INVARIANTS SecondsRight
