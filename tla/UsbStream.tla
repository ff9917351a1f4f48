----------------------------- MODULE UsbStream ------------------------------
(***************************************************************************)
(* A stream of CAN messages cut into USB packets, as the panda and boardd    *)
(* exchange it (usb_protocol.h, selfdrive/boardd/panda.cc).  Each packet has *)
(* a counter byte and Payload bytes of messages; messages are their sizes.   *)
(***************************************************************************)
EXTENDS Naturals

CONSTANTS
  Sizes,          \* of a message: CANPACKET_HEAD_SIZE and the data
  MinSize,        \* the smallest of them
  MaxSize,        \* the largest of them
  PacketSize      \* USBPACKET_MAX_SIZE

ASSUME SizesAssumption ==
  /\ MinSize \in Nat \ {0} /\ MaxSize \in Nat
  /\ Sizes \subseteq MinSize..MaxSize
  /\ MinSize..(2 * MinSize - 1) \subseteq Sizes
  /\ PacketSize \in Nat /\ PacketSize > 1

Payload == PacketSize - 1

\* The lengths a run of whole messages may have within room bytes: any, by
\* SizesAssumption, but one shorter than a message.
Runs(room) == {n \in 0..room : n = 0 \/ n >= MinSize}
=============================================================================
