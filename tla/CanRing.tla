------------------------------ MODULE CanRing ------------------------------
(***************************************************************************)
(* The interrupt safe packet queue of the panda, drivers/can_common.h:      *)
(* can_pop, can_push, can_slots_empty and can_clear on a can_ring of        *)
(* fifo_size elements.  Each runs with the interrupts off, so it is one     *)
(* action.  can_clear's call of usb_cb_ep3_out_complete is in CanTx.        *)
(***************************************************************************)
EXTENDS Naturals, Sequences

CONSTANTS
  Packet,      \* the packets
  fifo_size    \* elements of the array (0x1A0 and 0x1000 in the code)

ASSUME RingAssumption ==
  /\ Packet # {}
  /\ fifo_size \in Nat \ {0, 1}

VARIABLES w_ptr, r_ptr, elems, answer

vars == <<w_ptr, r_ptr, elems, answer>>

Index == 0..(fifo_size - 1)

None == [call |-> "none"]
Accepted(ok) == [call |-> "push", ok |-> ok]
Popped(s) == [call |-> "pop", elem |-> s]
Room(n) == [call |-> "slots", n |-> n]

\* The array is zeroed memory: some packet.
Init ==
  /\ w_ptr = 0
  /\ r_ptr = 0
  /\ \E p \in Packet : elems = [i \in Index |-> p]
  /\ answer = None

NextIndex(i) == IF i + 1 = fifo_size THEN 0 ELSE i + 1

can_pop ==
  \/ /\ w_ptr # r_ptr
     /\ answer' = Popped(<<elems[r_ptr]>>)
     /\ r_ptr' = NextIndex(r_ptr)
     /\ UNCHANGED <<w_ptr, elems>>
  \/ /\ w_ptr = r_ptr
     /\ answer' = Popped(<< >>)
     /\ UNCHANGED <<w_ptr, r_ptr, elems>>

can_push(p) ==
  \/ /\ NextIndex(w_ptr) # r_ptr
     /\ elems' = [elems EXCEPT ![w_ptr] = p]
     /\ w_ptr' = NextIndex(w_ptr)
     /\ answer' = Accepted(TRUE)
     /\ UNCHANGED r_ptr
  \/ /\ NextIndex(w_ptr) = r_ptr
     /\ answer' = Accepted(FALSE)
     /\ UNCHANGED <<w_ptr, r_ptr, elems>>

\* Mutant: the branch for a wrapped ring is missing.
SlotsUnwrapped == fifo_size - 1 - w_ptr + r_ptr

\* No partial result is negative, so the unsigned arithmetic of the code is
\* that of the integers.
SlotsEmpty ==
  IF w_ptr >= r_ptr THEN fifo_size - 1 - w_ptr + r_ptr ELSE r_ptr - w_ptr - 1

can_slots_empty == answer' = Room(SlotsEmpty) /\ UNCHANGED <<w_ptr, r_ptr, elems>>

can_clear == w_ptr' = 0 /\ r_ptr' = 0 /\ answer' = None /\ UNCHANGED elems

Next == can_pop \/ (\E p \in Packet : can_push(p)) \/ can_slots_empty \/ can_clear

Spec == Init /\ [][Next]_vars

-----------------------------------------------------------------------------
(* Properties. *)

\* The packets of a ring with pointers w and r and elements e, oldest first.
Held(w, r) == IF w >= r THEN w - r ELSE fifo_size - r + w
Place(r, i) == IF r + i > fifo_size THEN r + i - 1 - fifo_size ELSE r + i - 1
PacketsOf(w, r, e) == [i \in 1..Held(w, r) |-> e[Place(r, i)]]
Contents == PacketsOf(w_ptr, r_ptr, elems)

\* Both pointers stay inside the array, whatever the order of the calls.
TypeOK ==
  /\ w_ptr \in Index
  /\ r_ptr \in Index
  /\ elems \in [Index -> Packet]

\* The ring is a first-in first-out buffer of fifo_size - 1 packets: no packet
\* is lost, doubled, reordered or overwritten over any number of wraps, a push
\* fails only when it is full and can_slots_empty counts exactly.
Fifo == INSTANCE CanFifo WITH Capacity <- fifo_size - 1, queue <- Contents
IsFifo == Fifo!FifoSpec
=============================================================================
