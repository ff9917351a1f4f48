SPECIFICATION Spec
CONSTANTS
  CAN_CNT = 2
  bus_lookup <- Swapped
  Forwarding <- BothWays
  Slots = 2
  Reserve = 2
  RxSlots = 1
  TransferPackets = 1
  PacketFrames = 2
INVARIANT FullMeansRefused
