SPECIFICATION FairSpec
CONSTANTS
  A = A
  B = B
  Node = {A, B}
  NoNode = NoNode
  NoClient = NoClient
  Target <- TargetAB
  Dials <- NoDials
  ISN = 1
  HEADER_SIZE = 1
  MAX_DATA_SIZE = 5
  WINDOW_SIZE = 6
  MAX_TIMEOUTS = 1
  ARGS_RIGHT_TO_LEFT = FALSE
  InputSizes <- OnlyA
  MaxInputs = 3
  Closers = {}
  UserWaits = {}
  Faulty = {"DATA", "ACK", "sendto"}
  MaxFaults = 2
  Slow = {"DATA"}
  MaxExpiries = 1
  PATIENT = FALSE
INVARIANTS
  TypeOK StreamIntegrity AckWindow NothingForgotten NoUnderflow SenderReadsInBounds
CHECK_DEADLOCK FALSE
