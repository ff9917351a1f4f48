------------------------------- MODULE MCUsb --------------------------------
(***************************************************************************)
(* What carries the CAN messages between the host and the buses: UsbIn and   *)
(* UsbOut with the sizes of the code, five bytes of header and up to 64      *)
(* bytes of data (dlc_to_len), and CanRing with four elements and two        *)
(* packets, which has every position of the two pointers, the full and the   *)
(* empty ring at each, and any number of laps.  The parts share nothing, so  *)
(* each behaviour is one of the three.                                       *)
(***************************************************************************)
EXTENDS CanRing, UsbIn, UsbOut

CONSTANTS p1, p2

VARIABLE part

FdSizes == 5..13 \cup {17, 21, 25, 29, 37, 53, 69}

MCInit == Init /\ InInit /\ OutInit /\ part \in {"ring", "in", "out"}

MCNext ==
  \/ part = "ring" /\ Next /\ UNCHANGED <<inVars, outVars, part>>
  \/ part = "in" /\ InNext /\ UNCHANGED <<vars, outVars, part>>
  \/ part = "out" /\ OutNext /\ UNCHANGED <<vars, inVars, part>>

MCSpec == MCInit /\ [][MCNext]_<<vars, inVars, outVars, part>>
=============================================================================
