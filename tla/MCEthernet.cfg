CONSTANTS
  Parts = {"sockets", "renewal", "mixed", "lookup", "receive", "send"}
  MAX_SOCK_NUM = 3
  Ports = {80, 81}
  PeerInHaste = FALSE
  Servers = {1}
  NoAddress = 0
  Leases <- SixSeconds
  DEFAULT_LEASE = 4
  Second = 2
  MillisSize = 28
  MaxGap = 4
  MaxInFlight = 1
  Horizon = 28
  TIMEOUT = 3
  RESPONSE_TIMEOUT = 1
  MaxTries = 2
  Names <- SomeNames
  Truth <- Known
  IntSize = 65536
  IdSize = 4
  PortCount = 2
  WAIT = 1
  MaxLife = 3
  MaxReplies = 1
  Lengths = {1, 2, 3}
  HEADER = 2
  RSIZE = 12
  SSIZE = 4
  Half = 4
  Sizes = {1, 2, 3}
  PointerSize = 8
  MaxPacket = 4
SPECIFICATION AllSpec
INVARIANTS UdpKept AddressGranted RenewsInTime  DatagramsApart SentIsWritten
PROPERTIES  EachHeard
CHECK_DEADLOCK FALSE
