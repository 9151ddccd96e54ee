CONSTANTS
  SecondsPerDay = 4
  Builds = {"icm", "hp"}
  BufferSize = 12
  MaxHoldover = 1
  FirstSecond = 976
  LastSecond = 977
  MaxLost = 1
  AckAtTimeout = FALSE
  TodBuffer = 8
  Seconds = 2
  MaxGarbled = 1
SPECIFICATION Spec
INVARIANTS TimeRight
PROPERTIES AsksAgain 
CHECK_DEADLOCK FALSE
