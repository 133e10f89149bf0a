SPECIFICATION FairSpec
CONSTANTS
  A = A
  B = B
  Node = {A, B}
  NoNode = NoNode
  NoClient = NoClient
  Target <- TargetAB
  Dials <- NoDials
  ISN = 1
  HEADER_SIZE = 1
  MAX_DATA_SIZE = 5
  WINDOW_SIZE = 6
  MAX_TIMEOUTS = 1
  ARGS_RIGHT_TO_LEFT = FALSE
  InputSizes <- Both
  MaxInputs = 1
  Closers = {A, B}
  UserWaits = {"handshake", "input"}
  Faulty = {}
  MaxFaults = 0
  Slow = {}
  MaxExpiries = 0
  PATIENT = FALSE
PROPERTY DisconnectReturns
CHECK_DEADLOCK FALSE
