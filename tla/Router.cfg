SPECIFICATION FairSpec
CONSTANTS
  NoPacket = NoPacket
  NoClient = NoClient
  Node <- MCNode
  IpBytes <- MCIpBytes
  Text <- MCText
  MaskKey <- MCMaskKey
  Requests <- MCRequests
  MAX_DATA_SIZE = 1000
  BUFFER_SIZE = 1024
  MaxInputs = 2
  MaxAsked = 2
  UserWaits <- MCWaits
  ARGS_RIGHT_TO_LEFT = FALSE
CHECK_DEADLOCK FALSE
INVARIANTS TypeOK ForwardedInOrder OnePerRequest
PROPERTIES LinksStay MessagesArrive SeenByBoth
