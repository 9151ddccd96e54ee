CONSTANTS
  Parts = {"line", "flash"}
  ByteSize = 8
  MESSAGE_START = 7
  TOKEN = 6
  Bang = 5
  Noise = {0, 5, 7}
  SignOn <- SignOnBody
  Bodies <- SomeBodies
  MaxMessages = 3
  MaxNoise = 2
  CounterSize = 128
  MonitorChars = 10
  MonitorBangs = 3
  EepromPages = 2
  MaxKeys = 7
  AppEnd = 4
  ImageSize = 3
  Resets = {"external", "watchdog"}
  MaxResets = 1
  MaxLost = 1
  MaxLostAnswers = 1
  MaxSessions = 2
SPECIFICATION BothSpec
INVARIANTS OnlySent MonitorByHand ProgramExact
PROPERTIES LeavesBoot EachAnswered
CHECK_DEADLOCK FALSE
