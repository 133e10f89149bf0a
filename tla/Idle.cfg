SPECIFICATION FairSpec
CONSTANTS
  Peer = {B}
  NoItem = NoItem
  MaxFrames = 1
  MaxDatagrams = 0
  FrameKinds <- AnyPacket
  DatagramKinds <- AnyPacket
  OnlyUpgrades = TRUE
CHECK_DEADLOCK FALSE
PROPERTIES BrowserHeard
