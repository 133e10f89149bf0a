SPECIFICATION FairSpec
CONSTANTS
  A = A
  B = B
  Node = {A, B}
  NoNode = NoNode
  NoClient = NoClient
  Target <- TargetAB
  Dials <- NoDials
  ISN = 1
  HEADER_SIZE = 1
  MAX_DATA_SIZE = 5
  WINDOW_SIZE = 6
  MAX_TIMEOUTS = 1
  ARGS_RIGHT_TO_LEFT = FALSE
  InputSizes <- Mixed
  MaxInputs = 3
  Closers = {A}
  UserWaits = {"handshake", "input"}
  Faulty = {}
  MaxFaults = 0
  Slow = {"FIN_ACK"}
  MaxExpiries = 1
  PATIENT = FALSE
INVARIANTS NoTruncatedClose GracefulClose
PROPERTIES DisconnectReturns IsReliableStream
CHECK_DEADLOCK FALSE
