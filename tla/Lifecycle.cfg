SPECIFICATION FairSpec
CONSTANTS
  Peer = {B}
  NoItem = NoItem
  MaxFrames = 1
  MaxDatagrams = 1
  FrameKinds <- AnyPacket
  DatagramKinds <- OnlyRequest
  OnlyUpgrades = TRUE
CHECK_DEADLOCK FALSE
INVARIANTS TypeOK NoThreadOutlives PeersTold
PROPERTIES PushersStoppedFirst StopReturns
