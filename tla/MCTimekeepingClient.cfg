CONSTANTS
  N = 3
  H = 3
  S = 2
  AcqTol = 1
  PpsTol = 0
  CountMod = 1
  MaxFaults = 2
  LatencyOverlap = FALSE
  Datagram = {}
  MaxCall = 2
SPECIFICATION Spec
INVARIANTS TypeOK PhaseExact SecondsExact CurrentTimeExact
PROPERTIES PpsInLastCycle Resynchronises
