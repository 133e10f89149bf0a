SPECIFICATION FairSpec
CONSTANTS
  A = A
  B = B
  Node = {A, B}
  NoNode = NoNode
  NoClient = NoClient
  Target <- TargetAB
  Dials <- NoDials
  ISN = 1
  HEADER_SIZE = 1
  MAX_DATA_SIZE = 5
  WINDOW_SIZE = 6
  MAX_TIMEOUTS = 2
  ARGS_RIGHT_TO_LEFT = FALSE
  InputSizes <- Filling
  MaxInputs = 2
  Closers = {}
  UserWaits = {"handshake", "input"}
  Faulty = {"DATA"}
  MaxFaults = 1
  Slow = {"DATA"}
  MaxExpiries = 1
  PATIENT = TRUE
PROPERTIES EventuallyDelivered
CHECK_DEADLOCK FALSE
