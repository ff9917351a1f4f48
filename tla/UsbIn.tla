------------------------------- MODULE UsbIn -------------------------------
(***************************************************************************)
(* CAN messages on their way to the host: bulk endpoint 1 of the panda       *)
(* (usb_cb_ep1_in, panda/board/usb_protocol.h) and the host's side of it     *)
(* (can_receive and unpack_can_buffer, selfdrive/boardd/panda.cc).           *)
(*                                                                         *)
(* A transfer is a run of USB packets.  Each starts with a counter byte; the *)
(* rest is a stream of messages, cut wherever a packet is full.  Nothing but *)
(* the place of the cuts matters: a message is its size, and what waits in   *)
(* can_rx_q is any sequence of messages (CanRing is the queue).              *)
(***************************************************************************)
EXTENDS UsbStream

CONSTANTS
  CounterValues,  \* of the counter byte
  ChunkPackets,   \* MAX_EP1_CHUNK_PER_BULK_TRANSFER in packets
  RecvPackets     \* RECV_SIZE in packets

ASSUME InAssumption ==
  /\ ChunkPackets \in Nat
  /\ RecvPackets = ChunkPackets + 2
  /\ CounterValues \in Nat /\ RecvPackets <= CounterValues

VARIABLES
  ptr,            \* ep1_buffer: bytes of a message that did not fit
  counter,
  total_rx_size,  \* in packets: only full packets are counted
  fifo,           \* the packet the hardware holds for the host
  received,       \* by the host, in packets of this transfer
  malformed,      \* a packet of this transfer has the wrong counter
  comms_healthy,
  cut             \* a host died in the middle of the transfer going on

ep1Vars == <<ptr, counter, total_rx_size>>
inVars == <<ep1Vars, fifo, received, malformed, comms_healthy, cut>>

Empty == [len |-> 0, header |-> CounterValues]
Ep1Packet(len) == [len |-> len, header |-> counter]
PacketSet == [len: 0..PacketSize, header: 0..CounterValues]

InInit ==
  /\ ptr = 0 /\ counter = 0 /\ total_rx_size = 0
  /\ fifo = Empty
  /\ received = 0 /\ malformed = FALSE /\ comms_healthy = TRUE
  /\ cut = FALSE

\* Mutant: the counter goes on into the next transfer.
CountersAfterStale(pos) ==
  /\ counter' = (counter + 1) % CounterValues
  /\ total_rx_size' = IF pos = PacketSize THEN total_rx_size + 1 ELSE 0

\* A packet that is not full ends the transfer.
CountersAfter(pos) ==
  IF pos = PacketSize
    THEN /\ counter' = (counter + 1) % CounterValues
         /\ total_rx_size' = total_rx_size + 1
    ELSE counter' = 0 /\ total_rx_size' = 0

\* A packet of pos bytes; the counter byte alone is not sent.
Filled(pos, rest) ==
  /\ ptr' = rest
  /\ fifo' = Ep1Packet(IF pos = 1 THEN 0 ELSE pos)

AtLimit == total_rx_size > ChunkPackets

\* Mutant: a counter byte too many is left room for.
LeadShort == IF ptr < PacketSize - 1 THEN ptr ELSE PacketSize - 2
Lead == IF ptr < PacketSize THEN ptr ELSE PacketSize - 1

\* The host asks for a packet and none is ready.  What is left of the last
\* message comes first.  At the limit nothing follows it; else the queue runs
\* dry after n bytes, or the message after them is cut.
ep1_in ==
  LET rest == ptr - Lead
      start == 1 + Lead
      room == PacketSize - start
  IN /\ fifo = Empty
     /\ \/ /\ AtLimit
           /\ Filled(start, rest)
           /\ counter' = 0 /\ total_rx_size' = 0
        \/ /\ ~AtLimit
           /\ \E n \in Runs(room) :
                Filled(start + n, rest) /\ CountersAfter(start + n)
        \/ /\ ~AtLimit
           /\ \E n \in Runs(room), s \in Sizes :
                /\ n < room /\ s > room - n
                /\ Filled(PacketSize, s - (room - n))
                /\ CountersAfter(PacketSize)
     /\ UNCHANGED <<received, malformed, comms_healthy, cut>>

\* The host takes the packet.  A short packet or a full buffer ends the
\* transfer, and unpack_can_buffer looks at it if nothing went wrong before.
\* Left out: usb_bulk_read tries again after an error of libusb, which
\* overwrites what was received, and gives up early after a time-out.
HostReads ==
  LET bad == malformed \/ (fifo.len > 0 /\ fifo.header # received)
  IN /\ fifo # Empty
     /\ fifo' = Empty
     /\ \/ /\ fifo.len = PacketSize /\ received + 1 < RecvPackets
           /\ received' = received + 1 /\ malformed' = bad
           /\ UNCHANGED <<comms_healthy, cut>>
        \/ /\ fifo.len < PacketSize \/ received + 1 = RecvPackets
           /\ received' = 0 /\ malformed' = FALSE
           /\ comms_healthy' = (comms_healthy /\ ~bad)
           /\ cut' = (cut /\ fifo.len = PacketSize)
     /\ UNCHANGED ep1Vars

\* boardd dies and starts again; the panda does not notice.
HostRestarts ==
  /\ received' = 0 /\ malformed' = FALSE /\ comms_healthy' = TRUE
  /\ cut' = (cut \/ received > 0)
  /\ UNCHANGED <<ep1Vars, fifo>>

InNext == ep1_in \/ HostReads \/ HostRestarts

InSpec == InInit /\ [][InNext]_inVars

-----------------------------------------------------------------------------
(* Properties. *)

InTypeOK ==
  /\ ptr \in Nat
  /\ counter \in 0..(CounterValues - 1)
  /\ total_rx_size \in 0..(ChunkPackets + 1)
  /\ fifo \in PacketSet
  /\ received \in 0..(RecvPackets - 1)
  /\ malformed \in BOOLEAN /\ comms_healthy \in BOOLEAN /\ cut \in BOOLEAN

\* The host finds a packet out of place only in what is left of a transfer its
\* predecessor began: the counters of both sides agree over any number of
\* transfers, those that end at the limit included (usb_cb_ep1_in).
HealthyUnlessCut == [][comms_healthy /\ ~comms_healthy' => cut]_inVars

\* Between transfers no message is half sent, so unpack_can_buffer, which
\* starts at the first byte, never takes data for a header.
StartsWithMessage ==
  received = 0 /\ fifo = Empty /\ ~cut => ptr = 0 /\ counter = 0

\* With CAN FD messages the last packet of a full buffer may be full too: only
\* a transfer of RECV_SIZE bytes leaves the rest of a message to the next one.
CutOnlyAtRecvSize ==
  [][HostReads /\ received' = 0 /\ ~cut /\ ptr > 0
       => received + 1 = RecvPackets]_inVars
=============================================================================
