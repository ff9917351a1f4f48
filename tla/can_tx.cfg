SPECIFICATION FairSpec
CONSTANTS
  CAN_CNT = 2
  bus_lookup <- Swapped
  Forwarding <- BothWays
  Slots = 3
  Reserve = 2
  RxSlots = 1
  TransferPackets = 2
  PacketFrames = 2
INVARIANTS PausedMeansFull IdleMeansEmpty ReserveCovers
PROPERTY EndpointComesBack
