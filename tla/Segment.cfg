SPECIFICATION Spec
CONSTANTS
  NoSegment = NoSegment
  Outgoing <- MCOutgoing
  sendBuffer <- MCSendBuffer
  SourceIP <- MCSourceIP
  DestinationIP <- MCDestinationIP
  MaxSpoilt = 1
INVARIANTS SpoiltDropped IntactReceived
