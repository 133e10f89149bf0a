SPECIFICATION FairSpec
CONSTANTS
  A = A
  B = B
  Node = {A, B}
  NoNode = NoNode
  NoClient = NoClient
  Target <- NoTargets
  Dials <- DialAB
  ISN = 1
  HEADER_SIZE = 1
  MAX_DATA_SIZE = 5
  WINDOW_SIZE = 6
  MAX_TIMEOUTS = 2
  ARGS_RIGHT_TO_LEFT = FALSE
  InputSizes <- Both
  MaxInputs = 2
  Closers = {}
  UserWaits = {"handshake", "input"}
  Faulty = {"SYN", "SYN_ACK", "ACK"}
  MaxFaults = 2
  Slow = {"SYN", "SYN_ACK", "DATA"}
  MaxExpiries = 6
  PATIENT = TRUE
PROPERTIES HandshakeEnds DialConnects
CHECK_DEADLOCK FALSE
