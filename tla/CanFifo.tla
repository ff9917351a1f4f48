------------------------------ MODULE CanFifo ------------------------------
(***************************************************************************)
(* What a queue of CAN packets promises: a bounded first-in first-out       *)
(* buffer that refuses a packet when it is full and tells truly how much    *)
(* room it has.                                                             *)
(***************************************************************************)
EXTENDS Naturals, Sequences

CONSTANTS Packet, Capacity

VARIABLES
  queue,   \* the packets, oldest first
  answer   \* what the last call returned

fifoVars == <<queue, answer>>

None == [call |-> "none"]
Accepted(ok) == [call |-> "push", ok |-> ok]
Popped(s) == [call |-> "pop", elem |-> s]   \* a sequence of at most one packet
Room(n) == [call |-> "slots", n |-> n]

FifoInit == queue = << >> /\ answer = None

FifoPush(p) ==
  /\ queue' = IF Len(queue) < Capacity THEN Append(queue, p) ELSE queue
  /\ answer' = Accepted(Len(queue) < Capacity)

FifoPop ==
  \/ queue = << >> /\ queue' = queue /\ answer' = Popped(<< >>)
  \/ queue # << >> /\ queue' = Tail(queue) /\ answer' = Popped(<<Head(queue)>>)

FifoSlots == queue' = queue /\ answer' = Room(Capacity - Len(queue))

FifoClear == queue' = << >> /\ answer' = None

FifoNext == (\E p \in Packet : FifoPush(p)) \/ FifoPop \/ FifoSlots \/ FifoClear

FifoSpec == FifoInit /\ [][FifoNext]_fifoVars
=============================================================================
