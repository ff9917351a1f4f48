------------------------------- MODULE CanTx -------------------------------
(***************************************************************************)
(* The way of a frame from the USB endpoint to the wire: bulk endpoint 3     *)
(* with its flow control (drivers/usb.h, usb_comms.h), the send queues and   *)
(* the mailbox of every bus (drivers/can_common.h, drivers/bxcan.h).         *)
(*                                                                         *)
(* Only how full a queue is matters here: CanRing shows that a queue is a    *)
(* first-in first-out buffer.  The contents of the USB packets are in        *)
(* UsbOut; here a packet is the frames it completes.  GMLAN is left out.     *)
(*                                                                         *)
(* No handler preempts another, but the CAN peripherals go on while one      *)
(* runs: the two loops of the handlers, over the frames of a USB packet and  *)
(* over the controllers, take a step for each turn.                          *)
(***************************************************************************)
EXTENDS Naturals

CONSTANTS
  CAN_CNT,           \* CAN controllers, each with its bus and its send queue
  bus_lookup,        \* the bus of each controller (the harness may swap two)
  Slots,             \* packets a send queue holds (fifo_size - 1)
  Reserve,           \* MAX_CAN_MSGS_PER_BULK_TRANSFER
  RxSlots,           \* packets the queue towards the host holds
  TransferPackets,   \* USB packets the endpoint takes before it must be armed again
  PacketFrames,      \* frames a USB packet completes at most
  Forwarding         \* pairs of buses the forward hook may join

Buses == 0..(CAN_CNT - 1)

ASSUME TxAssumption ==
  /\ CAN_CNT \in Nat \ {0}
  /\ bus_lookup \in [Buses -> Buses]
  /\ \A c, d \in Buses : bus_lookup[c] = bus_lookup[d] => c = d
  /\ Slots \in Nat /\ Reserve \in 1..Slots
  /\ RxSlots \in Nat \ {0}
  /\ TransferPackets \in Nat \ {0}
  /\ PacketFrames \in Nat \ {0}
  /\ Forwarding \subseteq Buses \X Buses

VARIABLES
  txq,         \* packets in each send queue
  mailbox,     \* of each bus: empty, pending, or done (sent or aborted) and not
               \* looked at since
  can_rx_q,    \* packets waiting for the host
  live,        \* the buses on which something acknowledges a frame
  can_silent,
  nak,         \* endpoint 3 refuses packets
  outep3_processing,
  left,        \* USB packets the armed endpoint still takes
  used,        \* frames queued since the endpoint was armed, up to Reserve + 1;
               \* Reserve + 1 when it was armed without a look at the queues
  lost,        \* a frame of the host was dropped since then
  frames,      \* frames of the last USB packet that usb_cb_ep3_out has yet to send
  next_can     \* the controller can_init_all takes next; CAN_CNT when it is done

epVars == <<nak, outep3_processing, left>>
handlerVars == <<frames, next_can>>
vars == <<txq, mailbox, can_rx_q, live, can_silent, epVars, used, lost, handlerVars>>

MailboxStates == {"empty", "pending", "sent", "aborted"}
Overdrawn == Reserve + 1

AtMost(n, cap) == IF n > cap THEN cap ELSE n

TypeOK ==
  /\ txq \in [Buses -> 0..Slots]
  /\ mailbox \in [Buses -> MailboxStates]
  /\ can_rx_q \in 0..RxSlots
  /\ live \subseteq Buses
  /\ can_silent \in BOOLEAN
  /\ nak \in BOOLEAN /\ outep3_processing \in BOOLEAN
  /\ left \in 0..TransferPackets
  /\ used \in 0..Overdrawn
  /\ lost \in BOOLEAN
  /\ frames \in 0..PacketFrames
  /\ next_can \in 0..CAN_CNT

\* The host has just configured the device.
Init ==
  /\ txq = [b \in Buses |-> 0]
  /\ mailbox = [b \in Buses |-> "empty"]
  /\ can_rx_q = 0
  /\ live \in SUBSET Buses
  /\ can_silent = TRUE
  /\ nak = FALSE /\ outep3_processing = FALSE /\ left = TransferPackets
  /\ used = 0
  /\ lost = FALSE
  /\ frames = 0 /\ next_can = CAN_CNT

-----------------------------------------------------------------------------
(* The queues, as functions of a record t of what they change: the queues q,  *)
(* the mailboxes m, the packets r for the host, whether a frame was popped    *)
(* and the number of frames pushed and lost.                                  *)

Queues == [q |-> txq, m |-> mailbox, r |-> can_rx_q,
           popped |-> FALSE, pushed |-> 0, dropped |-> FALSE]

PushRx(t) == [t EXCEPT !.r = AtMost(@ + 1, RxSlots)]

PushTx(t, b) ==
  IF t.q[b] < Slots THEN [t EXCEPT !.q[b] = @ + 1, !.pushed = @ + 1]
                    ELSE [t EXCEPT !.dropped = TRUE, !.pushed = @ + 1]

\* Mutant: popping a frame does not wake the endpoint.
ProcessCanQuietly(t, b) ==
  IF t.m[b] # "pending" /\ t.q[b] > 0
    THEN [t EXCEPT !.m[b] = "pending", !.q[b] = @ - 1]
    ELSE [t EXCEPT !.m[b] = IF t.m[b] = "pending" THEN "pending" ELSE "empty"]

\* A mailbox that is free acknowledges what it sent and takes the next frame.
ProcessCan(t, b) ==
  LET acked == IF t.m[b] = "sent" THEN PushRx(t) ELSE t
  IN CASE t.m[b] = "pending" -> t
       [] t.m[b] # "pending" /\ t.q[b] > 0 ->
            [acked EXCEPT !.m[b] = "pending", !.q[b] = @ - 1, !.popped = TRUE]
       [] OTHER -> [acked EXCEPT !.m[b] = "empty"]

\* Mutant: the queued frame is left to the next interrupt of the mailbox.
CanSendQueuesOnly(t, f) == IF f.ok THEN PushTx(t, f.bus) ELSE PushRx(t)

\* A frame the safety hook accepts is queued and the mailbox looked at; any
\* other goes back to the host.
CanSend(t, f) ==
  IF f.ok THEN ProcessCan(PushTx(t, f.bus), f.bus) ELSE PushRx(t)

SetQueues(t) ==
  txq' = t.q /\ mailbox' = t.m /\ can_rx_q' = t.r

\* Mutant: one bus with room is enough.
MinSlotsFreeSomewhere(q) == \E b \in Buses : Slots - q[b] >= Reserve
MinSlotsFree(q) == \A b \in Buses : Slots - q[b] >= Reserve

Arm == nak' = FALSE /\ left' = TransferPackets /\ used' = 0 /\ lost' = FALSE

\* Mutant: nobody wakes the endpoint but the end of a transfer.
ResumeNever(q) == UNCHANGED <<nak, left, used, lost>>

\* usb_cb_ep3_out_complete outside a transfer.
ResumeIfPaused(q) ==
  IF MinSlotsFree(q) /\ nak /\ ~outep3_processing
    THEN Arm ELSE UNCHANGED <<nak, left, used, lost>>

\* What a handler leaves behind that may have popped a frame: popping wakes
\* the endpoint.
Handled(t, dropped) ==
  /\ SetQueues(t)
  /\ IF t.popped /\ MinSlotsFree(t.q) /\ nak /\ ~outep3_processing
       THEN Arm
       ELSE /\ used' = AtMost(used + t.pushed, Overdrawn)
            /\ lost' = (lost \/ dropped)
            /\ UNCHANGED <<nak, left>>

\* No handler runs, and the one that does so now is done in one step.
OneStep ==
  /\ frames = 0 /\ next_can = CAN_CNT
  /\ UNCHANGED handlerVars

-----------------------------------------------------------------------------
(* Handlers of the USB interrupt. *)

HostFrames == [bus: Buses, ok: BOOLEAN]

\* A packet of a bulk transfer with n frames.  A short packet, or the last one
\* the endpoint was armed for, ends the transfer: the endpoint refuses the next.
Ep3Out(n, short) ==
  /\ frames = 0 /\ next_can = CAN_CNT
  /\ ~nak
  /\ outep3_processing' = TRUE
  /\ left' = left - 1
  /\ nak' = (short \/ left = 1)
  /\ frames' = n
  /\ UNCHANGED <<txq, mailbox, can_rx_q, live, can_silent, used, lost, next_can>>

\* The handler sends the next frame of the packet.  In SILENT, the mode in
\* which can_silent is set, the hook refuses every frame.
Ep3Send ==
  /\ frames > 0 /\ frames' = frames - 1
  /\ \E f \in HostFrames :
       /\ f.ok => ~can_silent
       /\ LET t == CanSend(Queues, f) IN Handled(t, t.dropped)
  /\ UNCHANGED <<live, can_silent, outep3_processing, next_can>>

\* The transfer-complete interrupt of endpoint 3.
Ep3Complete ==
  /\ OneStep
  /\ nak /\ outep3_processing
  /\ outep3_processing' = FALSE
  /\ IF MinSlotsFree(txq) THEN Arm ELSE UNCHANGED <<nak, left, used, lost>>
  /\ UNCHANGED <<txq, mailbox, can_rx_q, live, can_silent>>

\* The host reads packets.
Ep1In(n) ==
  /\ OneStep
  /\ can_rx_q' = can_rx_q - n
  /\ UNCHANGED <<txq, mailbox, live, can_silent, epVars, used, lost>>

\* SET_CONFIGURATION arms the endpoint whatever the queues hold.
Configure ==
  /\ OneStep
  /\ nak' = FALSE /\ left' = TransferPackets
  /\ used' = Overdrawn /\ lost' = FALSE
  /\ UNCHANGED <<txq, mailbox, can_rx_q, live, can_silent, outep3_processing>>

\* Control request 0xf1: one send queue, or the queue towards the host.
ClearTx(b) ==
  /\ OneStep
  /\ txq' = [txq EXCEPT ![b] = 0]
  /\ ResumeIfPaused(txq')
  /\ UNCHANGED <<mailbox, can_rx_q, live, can_silent, outep3_processing>>
ClearRx ==
  /\ OneStep
  /\ can_rx_q' = 0
  /\ ResumeIfPaused(txq)
  /\ UNCHANGED <<txq, mailbox, live, can_silent, outep3_processing>>

\* set_safety_mode ends with can_init_all.
SetMode(silent) ==
  /\ frames = 0 /\ next_can = CAN_CNT
  /\ can_silent' = silent
  /\ next_can' = 0
  /\ UNCHANGED <<txq, mailbox, can_rx_q, live, epVars, used, lost, frames>>

\* can_init_all takes the controllers in turn: it empties the queue of the bus
\* with the controller's number and looks at the mailbox of the controller.
\* With a swapped harness these belong to two buses, and a frame of a queue
\* that is still to be emptied gets away.  Popping it frees a slot more, so one
\* look at the endpoint stands for the two of the code.
CanInit ==
  LET t == ProcessCan([Queues EXCEPT !.q[next_can] = 0], bus_lookup[next_can])
  IN /\ next_can < CAN_CNT /\ next_can' = next_can + 1
     /\ SetQueues(t)
     /\ ResumeIfPaused(t.q)
     /\ UNCHANGED <<live, can_silent, outep3_processing, frames>>

-----------------------------------------------------------------------------
(* Handlers of the CAN interrupts. *)

\* CANx_TX: the mailbox is done.
TxIrq(b) ==
  /\ OneStep
  /\ mailbox[b] \in {"sent", "aborted"}
  /\ Handled(ProcessCan(Queues, b), FALSE)
  /\ UNCHANGED <<live, can_silent, outep3_processing>>

\* CANx_RX0: a frame is passed on to another bus, or not, and to the host.
\* The hook of SILENT passes nothing on.
ForwardIrq(b) ==
  /\ OneStep
  /\ ~can_silent
  /\ \E to \in Buses :
       /\ <<b, to>> \in Forwarding
       /\ Handled(PushRx(ProcessCan(PushTx(Queues, to), to)), FALSE)
  /\ UNCHANGED <<live, can_silent, outep3_processing>>
KeepIrq ==
  /\ OneStep
  /\ Handled(PushRx(Queues), FALSE)
  /\ UNCHANGED <<live, can_silent, outep3_processing>>
RxIrq(b) == KeepIrq \/ ForwardIrq(b)

\* CANx_SCE asks for the pending frame to be aborted.
SceIrq(b) ==
  /\ OneStep
  /\ mailbox[b] = "pending"
  /\ mailbox' = [mailbox EXCEPT ![b] = "aborted"]
  /\ UNCHANGED <<txq, can_rx_q, live, can_silent, epVars, used, lost>>

-----------------------------------------------------------------------------
(* The bus. *)

\* A frame is sent when something acknowledges it and the peripheral may drive
\* the bus.
Transmit(b) ==
  /\ mailbox[b] = "pending" /\ b \in live /\ ~can_silent
  /\ mailbox' = [mailbox EXCEPT ![b] = "sent"]
  /\ UNCHANGED <<txq, can_rx_q, live, can_silent, epVars, used, lost, handlerVars>>

\* ECUs and transceivers wake and sleep.
BusWakes(b) ==
  /\ b \notin live
  /\ live' = live \cup {b}
  /\ UNCHANGED <<txq, mailbox, can_rx_q, can_silent, epVars, used, lost, handlerVars>>
BusSleeps(b) ==
  /\ b \in live
  /\ live' = live \ {b}
  /\ UNCHANGED <<txq, mailbox, can_rx_q, can_silent, epVars, used, lost, handlerVars>>

UsbNext ==
  \/ \E n \in 0..PacketFrames, short \in BOOLEAN : Ep3Out(n, short)
  \/ Ep3Send
  \/ Ep3Complete
  \/ \E n \in 1..can_rx_q : Ep1In(n)
  \/ Configure
  \/ \E b \in Buses : ClearTx(b)
  \/ ClearRx
  \/ \E silent \in BOOLEAN : SetMode(silent)
  \/ CanInit

BusNext ==
  \E b \in Buses :
    TxIrq(b) \/ RxIrq(b) \/ SceIrq(b) \/ Transmit(b) \/ BusWakes(b) \/ BusSleeps(b)

Next == UsbNext \/ BusNext

Spec == Init /\ [][Next]_vars

\* Handlers end, interrupts are taken even if others come first now and then,
\* and a frame on a bus that stays live gets its turn.
FairSpec ==
  /\ Spec
  /\ WF_vars(Ep3Send) /\ WF_vars(CanInit)
  /\ SF_vars(Ep3Complete)
  /\ \A b \in Buses : SF_vars(TxIrq(b)) /\ WF_vars(Transmit(b))

-----------------------------------------------------------------------------
(* Properties. *)

\* No lost wakeup: an endpoint that waits for room waits for a reason.  Every
\* way a slot becomes free (a mailbox, 0xf1, a mode change) must look at it.
PausedMeansFull == nak /\ ~outep3_processing => ~MinSlotsFree(txq)

\* No frame waits behind an idle mailbox: can_send has to look at it, because
\* no interrupt will come (process_can, can_init).
IdleMeansEmpty == \A b \in Buses : mailbox[b] = "empty" => txq[b] = 0

\* What the reserve is for: the host loses a frame to a full queue only if
\* more frames were queued since the endpoint was armed than were reserved,
\* counting forwarded frames, or the endpoint was armed without a look.
ReserveCovers == lost => used = Overdrawn

\* On buses that stay live the endpoint never refuses packets for ever, unless
\* frames are forwarded for ever and flood a queue.
BusesStayLive == <>[](live = Buses /\ ~can_silent)
ForwardingStops == <>[][\A b \in Buses : ~ForwardIrq(b)]_vars
EndpointComesBack == BusesStayLive /\ ForwardingStops => []<>~nak

\* What selfdrive/boardd/panda.cc (usb_bulk_write) says: a panda that is full refuses
\* packets, so a frame the endpoint took is not lost.
FullMeansRefused == ~lost
=============================================================================
