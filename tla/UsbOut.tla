------------------------------ MODULE UsbOut -------------------------------
(***************************************************************************)
(* CAN messages on their way to the panda: the host packs them into a bulk   *)
(* transfer (pack_can_buffer and usb_bulk_write, selfdrive/boardd/panda.cc)  *)
(* and the panda puts messages that span USB packets together again          *)
(* (usb_cb_ep3_out, panda/board/usb_protocol.h).                             *)
(*                                                                         *)
(* A transfer may stop after any packet: boardd gives up after 5 ms, starts  *)
(* over after an error, or dies.  As in UsbIn a message is its size and only *)
(* the place where packets cut it matters.                                   *)
(***************************************************************************)
EXTENDS UsbStream

CONSTANT SoftPackets   \* USB_TX_SOFT_LIMIT in packets: no message starts later

ASSUME OutAssumption == SoftPackets \in Nat \ {0}

VARIABLES
  sent,         \* host: packets of this transfer that went out
  owe,          \* host: bytes of the message the last of them cut
  ep3_buffer,   \* panda: the message it puts together
  stray         \* the panda took bytes of one message for another

outVars == <<sent, owe, ep3_buffer, stray>>

Fresh == [ptr |-> 0, tail_size |-> 0, counter |-> 0]

OutInit == sent = 0 /\ owe = 0 /\ ep3_buffer = Fresh /\ stray = FALSE

\* Mutant: a new stream only resets the counter.
AtStartKeepsTail == IF sent = 0 THEN [ep3_buffer EXCEPT !.counter = 0] ELSE ep3_buffer

\* The first packet of a stream resets the buffer.
AtStart == IF sent = 0 THEN Fresh ELSE ep3_buffer

\* Mutant: the part that is still missing is not counted down.
AppendedUncounted(b) == [b EXCEPT !.ptr = @ + Payload]

\* A packet in the middle of a message.
Appended(b) == [b EXCEPT !.ptr = @ + Payload, !.tail_size = @ - Payload]

\* The bytes the panda takes from the front of a packet for the message it has
\* begun.
Taken(b) ==
  CASE b.ptr = 0 -> 0
    [] b.ptr > 0 /\ b.tail_size <= Payload -> b.tail_size
    [] OTHER -> Payload

\* The panda's handler, for a packet that starts with lead bytes of a cut
\* message and ends with head bytes of one that still lacks rest.
ep3_out(lead, head, rest) ==
  LET b == AtStart
      c == [b EXCEPT !.counter = @ + 1]
  IN IF b.counter # sent
       THEN ep3_buffer' = b /\ UNCHANGED stray
       ELSE /\ ep3_buffer' = IF b.ptr > 0 /\ b.tail_size > Payload THEN Appended(c)
                             ELSE [c EXCEPT !.ptr = head, !.tail_size = rest]
            /\ stray' = (stray \/ Taken(b) # lead)

\* Nothing but a part of one message.
MiddlePacket ==
  /\ owe > Payload
  /\ ep3_out(Payload, 0, 0)
  /\ sent' = sent + 1 /\ owe' = owe - Payload

\* The rest of a message, whole messages, and the first part of another.
CutPacket ==
  \E n \in Runs(Payload - owe), s \in Sizes :
    LET head == Payload - owe - n IN
    /\ owe <= Payload /\ sent < SoftPackets
    /\ head > 0 /\ s > head
    /\ ep3_out(owe, head, s - head)
    /\ sent' = sent + 1 /\ owe' = s - head

\* The same without the first part of another: the packet is full.
FullPacket ==
  /\ owe <= Payload /\ sent + 1 < SoftPackets
  /\ Payload - owe \in Runs(Payload - owe)
  /\ ep3_out(owe, 0, 0)
  /\ sent' = sent + 1 /\ owe' = 0

\* The transfer ends with a whole message: there is no more to send, or as
\* much as a transfer may hold.
LastPacket ==
  /\ owe <= Payload
  /\ \E n \in Runs(Payload - owe) :
       /\ owe + n > 0
       /\ n = 0 \/ sent < SoftPackets
       /\ ep3_out(owe, 0, 0)
  /\ sent' = 0 /\ owe' = 0

\* The transfer stops in the middle.
StopTransfer == sent > 0 /\ sent' = 0 /\ owe' = 0 /\ UNCHANGED <<ep3_buffer, stray>>

OutNext == MiddlePacket \/ CutPacket \/ FullPacket \/ LastPacket \/ StopTransfer

OutSpec == OutInit /\ [][OutNext]_outVars

-----------------------------------------------------------------------------
(* Properties. *)

OutTypeOK ==
  /\ sent \in Nat /\ owe \in Nat
  /\ ep3_buffer \in [ptr: Nat, tail_size: Nat, counter: Nat]
  /\ stray \in BOOLEAN

\* Whatever transfers were cut before, no CAN message is put together from two
\* of them: the counters and the reset keep both sides in step.
NothingStitched == ~stray

\* The message being put together never outgrows ep3_buffer.data.
BufferFits == ep3_buffer.ptr + ep3_buffer.tail_size <= MaxSize
=============================================================================
