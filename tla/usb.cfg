SPECIFICATION MCSpec
CONSTANTS
  p1 = p1
  p2 = p2
  Packet = {p1, p2}
  fifo_size = 4
  Sizes <- FdSizes
  MinSize = 5
  MaxSize = 69
  PacketSize = 64
  CounterValues = 6
  ChunkPackets = 4
  RecvPackets = 6
  SoftPackets = 4
INVARIANTS NothingStitched BufferFits
PROPERTIES IsFifo HealthyUnlessCut CutOnlyAtRecvSize
