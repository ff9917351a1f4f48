---------------------------- MODULE CanTxProofs ----------------------------
(***************************************************************************)
(* The flow control of endpoint 3 for every number of buses and wiring of    *)
(* the harness, every size of the queues and every reserve.                  *)
(***************************************************************************)
EXTENDS CanTx, TLAPS

\* What was queued since the endpoint was armed is all that can fill the
\* reserve.
Budget == used < Overdrawn => \A b \in Buses : txq[b] <= Slots - Reserve + used

\* An endpoint that takes packets was armed for at least one more.
Armed == ~nak => left > 0

TxInv == TypeOK /\ PausedMeansFull /\ IdleMeansEmpty /\ ReserveCovers /\ Budget /\ Armed

LEMMA Sizing ==
  /\ Slots \in Nat /\ Reserve \in Nat /\ 1 <= Reserve /\ Reserve <= Slots
  /\ RxSlots \in Nat /\ RxSlots > 0 /\ TransferPackets \in Nat /\ TransferPackets > 0
  /\ PacketFrames \in Nat /\ CAN_CNT \in Nat /\ CAN_CNT > 0
  /\ Overdrawn \in Nat /\ Overdrawn = Reserve + 1
BY TxAssumption DEF Overdrawn

-----------------------------------------------------------------------------
(* What the operators on the queues do. *)

Records == [q: [Buses -> 0..Slots], m: [Buses -> MailboxStates], r: 0..RxSlots,
            popped: BOOLEAN, pushed: Nat, dropped: BOOLEAN]

\* A record a handler may leave: as many frames more in a queue as were pushed
\* at most, fewer only if one was popped, none behind an idle mailbox, and one
\* dropped only if it was pushed on a full queue.
Outcome(t) ==
  /\ t \in Records
  /\ \A b \in Buses : t.m[b] = "empty" => t.q[b] = 0
  /\ \A b \in Buses : t.q[b] <= txq[b] + t.pushed
  /\ ~t.popped => \A b \in Buses : txq[b] <= t.q[b]
  /\ t.dropped => t.pushed >= 1 /\ \E b \in Buses : txq[b] = Slots

LEMMA QueuesType ==
  ASSUME TypeOK PROVE Queues \in Records
BY DEF TypeOK, Queues, Records

LEMMA PushRxKeeps ==
  ASSUME NEW t \in Records
  PROVE  /\ PushRx(t) \in Records
         /\ PushRx(t).q = t.q /\ PushRx(t).m = t.m /\ PushRx(t).popped = t.popped
         /\ PushRx(t).pushed = t.pushed /\ PushRx(t).dropped = t.dropped
<1>1. AtMost(t.r + 1, RxSlots) \in 0..RxSlots
  BY Sizing DEF AtMost, Records
<1> QED BY <1>1 DEF PushRx, Records

LEMMA PushTxPushes ==
  ASSUME NEW t \in Records, NEW b \in Buses
  PROVE  /\ PushTx(t, b) \in Records
         /\ PushTx(t, b).m = t.m /\ PushTx(t, b).popped = t.popped
         /\ PushTx(t, b).pushed = t.pushed + 1
         /\ \A c \in Buses : t.q[c] <= PushTx(t, b).q[c] /\ PushTx(t, b).q[c] <= t.q[c] + 1
         /\ \A c \in Buses : c # b => PushTx(t, b).q[c] = t.q[c]
         /\ PushTx(t, b).dropped => t.dropped \/ t.q[b] = Slots
<1>1. t.q \in [Buses -> 0..Slots] /\ t.pushed \in Nat
  BY DEF Records
<1>2. CASE t.q[b] < Slots
  <2>1. PushTx(t, b) = [t EXCEPT !.q = [t.q EXCEPT ![b] = @ + 1], !.pushed = @ + 1]
    BY <1>2 DEF PushTx, Records
  <2>2. [t.q EXCEPT ![b] = @ + 1] \in [Buses -> 0..Slots]
    BY <1>1, <1>2, Sizing
  <2> DEFINE q == [t.q EXCEPT ![b] = @ + 1]
  <2>3. PushTx(t, b) = [q |-> q, m |-> t.m, r |-> t.r, popped |-> t.popped,
                        pushed |-> t.pushed + 1, dropped |-> t.dropped]
    BY <2>1 DEF Records
  <2>4. PushTx(t, b) \in Records
    <3> HIDE DEF q
    <3> QED BY <1>1, <2>2, <2>3 DEF Records, q
  <2>5. \A c \in Buses : /\ t.q[c] <= PushTx(t, b).q[c]
                         /\ PushTx(t, b).q[c] <= t.q[c] + 1
                         /\ c # b => PushTx(t, b).q[c] = t.q[c]
    BY <1>1, <2>3, Sizing
  <2> QED BY <2>3, <2>4, <2>5
<1>3. CASE ~(t.q[b] < Slots)
  <2>1. PushTx(t, b) = [t EXCEPT !.dropped = TRUE, !.pushed = @ + 1]
    BY <1>3 DEF PushTx
  <2>2. t.q[b] = Slots
    BY <1>1, <1>3, Sizing
  <2>3. PushTx(t, b) = [q |-> t.q, m |-> t.m, r |-> t.r, popped |-> t.popped,
                        pushed |-> t.pushed + 1, dropped |-> TRUE]
    BY <2>1 DEF Records
  <2>5. PushTx(t, b) \in Records
    BY <1>1, <2>3 DEF Records
  <2>4. \A c \in Buses : t.q[c] <= t.q[c] /\ t.q[c] <= t.q[c] + 1
    BY <1>1, Sizing
  <2> QED BY <2>2, <2>3, <2>4, <2>5
<1> QED BY <1>2, <1>3

LEMMA ProcessCanPops ==
  ASSUME NEW t \in Records, NEW b \in Buses
  PROVE  /\ ProcessCan(t, b) \in Records
         /\ ProcessCan(t, b).pushed = t.pushed /\ ProcessCan(t, b).dropped = t.dropped
         /\ \A c \in Buses : ProcessCan(t, b).q[c] <= t.q[c]
         /\ \A c \in Buses : c # b => /\ ProcessCan(t, b).q[c] = t.q[c]
                                      /\ ProcessCan(t, b).m[c] = t.m[c]
         /\ ProcessCan(t, b).m[b] = "empty" => ProcessCan(t, b).q[b] = 0
         /\ ~ProcessCan(t, b).popped => ~t.popped /\ ProcessCan(t, b).q = t.q
<1> DEFINE acked == IF t.m[b] = "sent" THEN PushRx(t) ELSE t
<1>1. /\ acked \in Records /\ acked.q = t.q /\ acked.m = t.m
      /\ acked.popped = t.popped /\ acked.pushed = t.pushed /\ acked.dropped = t.dropped
  BY PushRxKeeps
<1>2. /\ t.q \in [Buses -> 0..Slots] /\ t.m \in [Buses -> MailboxStates]
      /\ t.popped \in BOOLEAN
  BY DEF Records
<1>3. CASE t.m[b] = "pending"
  <2>1. ProcessCan(t, b) = t
    BY <1>3 DEF ProcessCan
  <2> QED BY <1>2, <1>3, <2>1, Sizing
<1>4. CASE t.m[b] # "pending" /\ t.q[b] > 0
  <2>1. ProcessCan(t, b) = [acked EXCEPT !.m[b] = "pending", !.q[b] = @ - 1, !.popped = TRUE]
    BY <1>4 DEF ProcessCan
  <2> HIDE DEF acked
  <2>2. ProcessCan(t, b) = [acked EXCEPT !.m = [t.m EXCEPT ![b] = "pending"],
                                         !.q = [t.q EXCEPT ![b] = @ - 1],
                                         !.popped = TRUE]
    BY <1>1, <2>1 DEF Records
  <2>3. /\ [t.m EXCEPT ![b] = "pending"] \in [Buses -> MailboxStates]
        /\ [t.q EXCEPT ![b] = @ - 1] \in [Buses -> 0..Slots]
    BY <1>2, <1>4, Sizing DEF MailboxStates
  <2>4. /\ ProcessCan(t, b) \in Records
        /\ ProcessCan(t, b).pushed = t.pushed /\ ProcessCan(t, b).dropped = t.dropped
        /\ ProcessCan(t, b).popped = TRUE
    BY <1>1, <2>2, <2>3 DEF Records
  <2>5. /\ ProcessCan(t, b).m = [t.m EXCEPT ![b] = "pending"]
        /\ ProcessCan(t, b).q = [t.q EXCEPT ![b] = @ - 1]
    BY <1>1, <2>2 DEF Records
  <2> QED BY <1>2, <1>4, <2>4, <2>5, Sizing
<1>5. CASE t.m[b] # "pending" /\ ~(t.q[b] > 0)
  <2>1. ProcessCan(t, b) = [acked EXCEPT !.m[b] = "empty"]
    BY <1>5 DEF ProcessCan
  <2> HIDE DEF acked
  <2>2. ProcessCan(t, b) = [acked EXCEPT !.m = [t.m EXCEPT ![b] = "empty"]]
    BY <1>1, <2>1 DEF Records
  <2>3. [t.m EXCEPT ![b] = "empty"] \in [Buses -> MailboxStates]
    BY <1>2 DEF MailboxStates
  <2>4. /\ ProcessCan(t, b) \in Records
        /\ ProcessCan(t, b).pushed = t.pushed /\ ProcessCan(t, b).dropped = t.dropped
        /\ ProcessCan(t, b).popped = t.popped /\ ProcessCan(t, b).q = t.q
        /\ ProcessCan(t, b).m = [t.m EXCEPT ![b] = "empty"]
    BY <1>1, <2>2, <2>3 DEF Records
  <2>5. t.q[b] = 0
    BY <1>2, <1>5, Sizing
  <2> QED BY <1>2, <2>4, <2>5, Sizing
<1> QED BY <1>3, <1>4, <1>5

LEMMA ProcessCanOutcome ==
  ASSUME TypeOK, IdleMeansEmpty, NEW b \in Buses
  PROVE  Outcome(ProcessCan(Queues, b))
<1> DEFINE t == ProcessCan(Queues, b)
<1>1. Queues \in Records
  BY QueuesType
<1>2. /\ Queues.q = txq /\ Queues.m = mailbox /\ Queues.popped = FALSE
      /\ Queues.pushed = 0 /\ Queues.dropped = FALSE
  BY DEF Queues
<1>3. txq \in [Buses -> 0..Slots]
  BY DEF TypeOK
<1>4. /\ t \in Records /\ t.pushed = 0 /\ t.dropped = FALSE
      /\ \A c \in Buses : t.q[c] <= txq[c]
      /\ \A c \in Buses : c # b => t.q[c] = txq[c] /\ t.m[c] = mailbox[c]
      /\ t.m[b] = "empty" => t.q[b] = 0
      /\ ~t.popped => t.q = txq
  BY <1>1, <1>2, ProcessCanPops
<1> HIDE DEF t
<1>5. \A c \in Buses : t.m[c] = "empty" => t.q[c] = 0
  BY <1>4 DEF IdleMeansEmpty
<1>6. \A c \in Buses : t.q[c] <= txq[c] + t.pushed
  BY <1>3, <1>4, Sizing
<1>7. ~t.popped => \A c \in Buses : txq[c] <= t.q[c]
  BY <1>3, <1>4, Sizing
<1> QED BY <1>4, <1>5, <1>6, <1>7 DEF Outcome, t

LEMMA PushOutcome ==
  ASSUME TypeOK, IdleMeansEmpty, NEW b \in Buses
  PROVE  Outcome(ProcessCan(PushTx(Queues, b), b))
<1> DEFINE u == PushTx(Queues, b)
           t == ProcessCan(u, b)
<1>1. Queues \in Records
  BY QueuesType
<1>2. /\ Queues.q = txq /\ Queues.m = mailbox /\ Queues.popped = FALSE
      /\ Queues.pushed = 0 /\ Queues.dropped = FALSE
  BY DEF Queues
<1>3. txq \in [Buses -> 0..Slots]
  BY DEF TypeOK
<1>4. /\ u \in Records /\ u.m = mailbox /\ u.popped = FALSE /\ u.pushed = 1
      /\ \A c \in Buses : txq[c] <= u.q[c] /\ u.q[c] <= txq[c] + 1
      /\ \A c \in Buses : c # b => u.q[c] = txq[c]
      /\ u.dropped => txq[b] = Slots
  BY <1>1, <1>2, PushTxPushes
<1> HIDE DEF u
<1>5. /\ t \in Records /\ t.pushed = 1 /\ t.dropped = u.dropped
      /\ \A c \in Buses : t.q[c] <= u.q[c]
      /\ \A c \in Buses : c # b => t.q[c] = u.q[c] /\ t.m[c] = u.m[c]
      /\ t.m[b] = "empty" => t.q[b] = 0
      /\ ~t.popped => t.q = u.q
  BY <1>4, ProcessCanPops
<1> HIDE DEF t
<1>6. \A c \in Buses : t.m[c] = "empty" => t.q[c] = 0
  BY <1>4, <1>5 DEF IdleMeansEmpty
<1>7. t.q \in [Buses -> 0..Slots] /\ u.q \in [Buses -> 0..Slots]
  BY <1>4, <1>5 DEF Records
<1>8. \A c \in Buses : t.q[c] <= txq[c] + 1
  BY <1>3, <1>4, <1>5, <1>7, Sizing
<1>9. ~t.popped => \A c \in Buses : txq[c] <= t.q[c]
  BY <1>4, <1>5
<1>10. t.dropped => t.pushed >= 1 /\ \E c \in Buses : txq[c] = Slots
  BY <1>4, <1>5
<1> QED BY <1>5, <1>6, <1>8, <1>9, <1>10 DEF Outcome, t, u

\* A packet for the host changes nothing an outcome is about.
LEMMA PushRxOutcome ==
  ASSUME NEW t, Outcome(t)
  PROVE  Outcome(PushRx(t))
<1>1. t \in Records
  BY DEF Outcome
<1>2. /\ PushRx(t) \in Records
      /\ PushRx(t).q = t.q /\ PushRx(t).m = t.m /\ PushRx(t).popped = t.popped
      /\ PushRx(t).pushed = t.pushed /\ PushRx(t).dropped = t.dropped
  BY <1>1, PushRxKeeps
<1> QED BY <1>2 DEF Outcome

LEMMA QueuesOutcome ==
  ASSUME TypeOK, IdleMeansEmpty
  PROVE  Outcome(Queues)
<1>1. Queues \in Records
  BY QueuesType
<1>2. /\ Queues.q = txq /\ Queues.m = mailbox /\ Queues.popped = FALSE
      /\ Queues.pushed = 0 /\ Queues.dropped = FALSE
  BY DEF Queues
<1>3. \A c \in Buses : txq[c] <= txq[c] + 0 /\ txq[c] <= txq[c]
  BY Sizing DEF TypeOK
<1> QED BY <1>1, <1>2, <1>3 DEF Outcome, IdleMeansEmpty

LEMMA CanSendOutcome ==
  ASSUME TypeOK, IdleMeansEmpty, NEW f \in HostFrames
  PROVE  Outcome(CanSend(Queues, f))
<1>1. f.bus \in Buses
  BY DEF HostFrames
<1>2. CASE f.ok
  BY <1>1, <1>2, PushOutcome DEF CanSend
<1>3. CASE ~f.ok
  BY <1>3, QueuesOutcome, PushRxOutcome DEF CanSend
<1> QED BY <1>2, <1>3

-----------------------------------------------------------------------------
(* The two ways a handler leaves the queues and the endpoint. *)

\* Arming the endpoint, with room in every queue, settles everything about it.
LEMMA Armament ==
  ASSUME txq' \in [Buses -> 0..Slots], MinSlotsFree(txq'), Arm
  PROVE  /\ nak' \in BOOLEAN /\ lost' \in BOOLEAN
         /\ left' \in 0..TransferPackets /\ used' \in 0..Overdrawn
         /\ PausedMeansFull' /\ ReserveCovers' /\ Budget' /\ Armed'
<1>1. nak' = FALSE /\ lost' = FALSE /\ left' = TransferPackets /\ used' = 0
  BY DEF Arm
<1>2. left' \in 0..TransferPackets /\ used' \in 0..Overdrawn /\ left' > 0
  BY <1>1, Sizing
<1>3. \A b \in Buses : txq'[b] <= Slots - Reserve + used'
  BY <1>1, Sizing DEF MinSlotsFree
<1> QED BY <1>1, <1>2, <1>3 DEF PausedMeansFull, ReserveCovers, Budget, Armed

LEMMA Handling ==
  ASSUME TxInv, NEW t, Outcome(t), NEW dropped \in BOOLEAN, dropped => t.dropped,
         Handled(t, dropped),
         UNCHANGED <<live, can_silent, outep3_processing>>,
         frames' \in 0..PacketFrames, next_can' \in 0..CAN_CNT
  PROVE  TxInv'
<1> USE DEF TxInv
<1>1. /\ txq' = t.q /\ mailbox' = t.m /\ can_rx_q' = t.r
      /\ t.q \in [Buses -> 0..Slots] /\ t.m \in [Buses -> MailboxStates]
      /\ t.r \in 0..RxSlots /\ t.pushed \in Nat
  BY DEF Handled, SetQueues, Outcome, Records
<1>2. IdleMeansEmpty'
  BY <1>1 DEF Outcome, IdleMeansEmpty
<1>3. /\ nak' \in BOOLEAN /\ lost' \in BOOLEAN
      /\ left' \in 0..TransferPackets /\ used' \in 0..Overdrawn
      /\ PausedMeansFull' /\ ReserveCovers' /\ Budget' /\ Armed'
  <2>1. CASE t.popped /\ MinSlotsFree(t.q) /\ nak /\ ~outep3_processing
    BY <1>1, <2>1, Armament DEF Handled
  <2>2. CASE ~(t.popped /\ MinSlotsFree(t.q) /\ nak /\ ~outep3_processing)
    <3>1. /\ used' = AtMost(used + t.pushed, Overdrawn)
          /\ lost' = (lost \/ dropped)
          /\ nak' = nak /\ left' = left
      BY <2>2 DEF Handled
    <3>2. /\ used \in 0..Overdrawn /\ left \in 0..TransferPackets
          /\ nak \in BOOLEAN /\ lost \in BOOLEAN
          /\ txq \in [Buses -> 0..Slots]
      BY DEF TypeOK
    <3>3. /\ used' \in 0..Overdrawn
          /\ used = Overdrawn => used' = Overdrawn
          /\ used' < Overdrawn => used < Overdrawn /\ used' = used + t.pushed
          /\ used + t.pushed >= Overdrawn => used' = Overdrawn
      BY <1>1, <3>1, <3>2, Sizing DEF AtMost
    <3>4. lost' \in BOOLEAN
      BY <3>1, <3>2
    <3>5. Armed'
      BY <3>1 DEF Armed
    <3>6. Budget'
      <4> SUFFICES ASSUME used' < Overdrawn, NEW b \in Buses
                   PROVE  txq'[b] <= Slots - Reserve + used'
        BY DEF Budget
      <4>1. txq[b] <= Slots - Reserve + used /\ used' = used + t.pushed
        BY <3>3 DEF Budget
      <4>2. t.q[b] <= txq[b] + t.pushed
        BY DEF Outcome
      <4> QED BY <1>1, <3>2, <4>1, <4>2, Sizing
    <3>7. t.dropped => used' = Overdrawn
      <4> SUFFICES ASSUME t.dropped, used < Overdrawn PROVE used' = Overdrawn
        BY <3>2, <3>3, Sizing
      <4>1. PICK b \in Buses : t.pushed >= 1 /\ txq[b] = Slots
        BY DEF Outcome
      <4>2. txq[b] <= Slots - Reserve + used
        BY DEF Budget
      <4> QED BY <1>1, <3>2, <3>3, <4>1, <4>2, Sizing
    <3>8. ReserveCovers'
      <4>1. lost' => lost \/ t.dropped
        BY <3>1
      <4> QED BY <3>3, <3>7, <4>1 DEF ReserveCovers
    <3>9. PausedMeansFull'
      <4> SUFFICES ASSUME nak, ~outep3_processing, MinSlotsFree(t.q) PROVE FALSE
        BY <1>1, <3>1 DEF PausedMeansFull
      <4>1. \A b \in Buses : txq[b] <= t.q[b]
        BY <2>2 DEF Outcome
      <4>2. MinSlotsFree(txq)
        BY <1>1, <3>2, <4>1, Sizing DEF MinSlotsFree
      <4> QED BY <4>2 DEF PausedMeansFull
    <3> QED BY <3>1, <3>2, <3>3, <3>4, <3>5, <3>6, <3>8, <3>9
  <2> QED BY <2>1, <2>2
<1> QED BY <1>1, <1>2, <1>3 DEF TypeOK

\* A handler that takes frames out of the queues without queueing any.
LEMMA Resuming ==
  ASSUME TxInv,
         txq' \in [Buses -> 0..Slots], \A b \in Buses : txq'[b] <= txq[b],
         mailbox' \in [Buses -> MailboxStates], can_rx_q' \in 0..RxSlots,
         IdleMeansEmpty', ResumeIfPaused(txq'),
         live' = live, can_silent' \in BOOLEAN, outep3_processing' = outep3_processing,
         frames' \in 0..PacketFrames, next_can' \in 0..CAN_CNT
  PROVE  TxInv'
<1> USE DEF TxInv
<1>1. /\ nak' \in BOOLEAN /\ lost' \in BOOLEAN
      /\ left' \in 0..TransferPackets /\ used' \in 0..Overdrawn
      /\ PausedMeansFull' /\ ReserveCovers' /\ Budget' /\ Armed'
  <2>1. CASE MinSlotsFree(txq') /\ nak /\ ~outep3_processing
    BY <2>1, Armament DEF ResumeIfPaused
  <2>2. CASE ~(MinSlotsFree(txq') /\ nak /\ ~outep3_processing)
    <3>1. nak' = nak /\ left' = left /\ used' = used /\ lost' = lost
      BY <2>2 DEF ResumeIfPaused
    <3>2. /\ used \in 0..Overdrawn /\ left \in 0..TransferPackets
          /\ nak \in BOOLEAN /\ lost \in BOOLEAN
          /\ txq \in [Buses -> 0..Slots]
      BY DEF TypeOK
    <3>3. Budget'
      <4> SUFFICES ASSUME used < Overdrawn, NEW b \in Buses
                   PROVE  txq'[b] <= Slots - Reserve + used
        BY <3>1 DEF Budget
      <4>1. txq[b] <= Slots - Reserve + used
        BY DEF Budget
      <4> QED BY <3>2, <4>1, Sizing
    <3>4. PausedMeansFull'
      BY <2>2, <3>1 DEF PausedMeansFull
    <3> QED BY <3>1, <3>2, <3>3, <3>4 DEF ReserveCovers, Armed
  <2> QED BY <2>1, <2>2
<1> QED BY <1>1 DEF TypeOK

-----------------------------------------------------------------------------
(* The invariant. *)

LEMMA TxInit == Init => TxInv
<1> SUFFICES ASSUME Init PROVE TxInv
  OBVIOUS
<1>1. TypeOK
  <2>1. /\ txq \in [Buses -> 0..Slots] /\ can_rx_q \in 0..RxSlots
        /\ left \in 0..TransferPackets /\ used \in 0..Overdrawn
        /\ frames \in 0..PacketFrames /\ next_can \in 0..CAN_CNT
    BY Sizing DEF Init
  <2>2. mailbox \in [Buses -> MailboxStates] /\ live \subseteq Buses
    BY DEF Init, MailboxStates
  <2> QED BY <2>1, <2>2 DEF Init, TypeOK
<1>2. Budget
  BY Sizing DEF Init, Budget
<1>3. Armed
  BY Sizing DEF Init, Armed
<1> QED BY <1>1, <1>2, <1>3
        DEF Init, TxInv, PausedMeansFull, IdleMeansEmpty, ReserveCovers

\* What happens on a bus concerns the mailbox at most.
LEMMA BusSteps ==
  ASSUME TxInv, NEW b \in Buses,
         SceIrq(b) \/ Transmit(b) \/ BusWakes(b) \/ BusSleeps(b)
  PROVE  TxInv'
<1>1. /\ UNCHANGED <<txq, can_rx_q, can_silent, epVars, used, lost>>
      /\ UNCHANGED handlerVars
  BY DEF SceIrq, Transmit, BusWakes, BusSleeps, OneStep
<1>2. live' \subseteq Buses
  BY DEF TxInv, TypeOK, SceIrq, Transmit, BusWakes, BusSleeps
<1>3. /\ mailbox' \in [Buses -> MailboxStates]
      /\ \A c \in Buses : mailbox'[c] = "empty" => mailbox[c] = "empty"
  BY DEF TxInv, TypeOK, SceIrq, Transmit, BusWakes, BusSleeps, MailboxStates
<1>4. TypeOK'
  BY <1>1, <1>2, <1>3 DEF TxInv, TypeOK, epVars, handlerVars
<1>5. IdleMeansEmpty'
  BY <1>1, <1>3 DEF TxInv, IdleMeansEmpty
<1> QED BY <1>1, <1>4, <1>5
        DEF TxInv, PausedMeansFull, MinSlotsFree, ReserveCovers, Budget, Armed, epVars

LEMMA CanInitStep ==
  ASSUME TxInv, CanInit
  PROVE  TxInv'
<1> DEFINE u == [Queues EXCEPT !.q[next_can] = 0]
           b == bus_lookup[next_can]
           t == ProcessCan(u, b)
<1>1. /\ next_can < CAN_CNT /\ next_can' = next_can + 1
      /\ txq' = t.q /\ mailbox' = t.m /\ can_rx_q' = t.r
      /\ ResumeIfPaused(t.q)
      /\ UNCHANGED <<live, can_silent, outep3_processing, frames>>
  BY DEF CanInit, SetQueues
<1>2. /\ next_can \in 0..CAN_CNT /\ frames \in 0..PacketFrames /\ can_silent \in BOOLEAN
      /\ txq \in [Buses -> 0..Slots] /\ mailbox \in [Buses -> MailboxStates]
      /\ can_rx_q \in 0..RxSlots
  BY DEF TxInv, TypeOK
<1>3. next_can \in Buses /\ next_can' \in 0..CAN_CNT
  BY <1>1, <1>2, Sizing DEF Buses
<1>4. b \in Buses
  BY <1>3, TxAssumption
<1> DEFINE q == [txq EXCEPT ![next_can] = 0]
<1>5. u = [q |-> q, m |-> mailbox, r |-> can_rx_q,
           popped |-> FALSE, pushed |-> 0, dropped |-> FALSE]
  <2>1. Queues.q = txq
    BY DEF Queues
  <2>2. u = [Queues EXCEPT !.q = q]
    BY <2>1 DEF Queues
  <2> HIDE DEF q, u
  <2> QED BY <2>2 DEF Queues
<1>6. q \in [Buses -> 0..Slots]
  <2>1. txq \in [Buses -> 0..Slots] /\ 0 \in 0..Slots
    BY <1>2, Sizing
  <2> QED BY <2>1
<1>7. u \in Records
  <2> HIDE DEF q, u
  <2> QED BY <1>2, <1>5, <1>6 DEF Records
<1>8. /\ u.m = mailbox /\ \A c \in Buses : u.q[c] = IF c = next_can THEN 0 ELSE txq[c]
  BY <1>2, <1>5
<1> HIDE DEF u, b, q
<1>9. /\ t \in Records
      /\ \A c \in Buses : t.q[c] <= u.q[c]
      /\ \A c \in Buses : c # b => t.q[c] = u.q[c] /\ t.m[c] = u.m[c]
      /\ t.m[b] = "empty" => t.q[b] = 0
  BY <1>4, <1>7, ProcessCanPops
<1> HIDE DEF t
<1>10. /\ t.q \in [Buses -> 0..Slots] /\ t.m \in [Buses -> MailboxStates]
       /\ t.r \in 0..RxSlots
  BY <1>9 DEF Records
<1>11. \A c \in Buses : t.q[c] <= txq[c]
  BY <1>2, <1>8, <1>9, <1>10, Sizing
<1>12. \A c \in Buses : t.m[c] = "empty" => t.q[c] = 0
  BY <1>8, <1>9 DEF TxInv, IdleMeansEmpty
<1>13. IdleMeansEmpty'
  BY <1>1, <1>12 DEF IdleMeansEmpty
<1> QED BY <1>1, <1>2, <1>3, <1>10, <1>11, <1>13, Resuming

\* The endpoint takes a packet, and its interrupts.
LEMMA EndpointSteps ==
  ASSUME TxInv,
         \/ \E n \in 0..PacketFrames, short \in BOOLEAN : Ep3Out(n, short)
         \/ Ep3Complete
         \/ Configure
  PROVE  TxInv'
<1> USE DEF TxInv
<1>1. CASE \E n \in 0..PacketFrames, short \in BOOLEAN : Ep3Out(n, short)
  <2>1. PICK n \in 0..PacketFrames, short \in BOOLEAN : Ep3Out(n, short)
    BY <1>1
  <2>2. left \in 0..TransferPackets /\ left > 0
    BY <2>1 DEF Ep3Out, TypeOK, Armed
  <2>3. left' = left - 1 /\ nak' = (short \/ left = 1) /\ nak' \in BOOLEAN
    BY <2>1 DEF Ep3Out
  <2>4. left' \in 0..TransferPackets
    BY <2>2, <2>3, Sizing
  <2>5. left # 1 => left' > 0
    BY <2>2, <2>3, Sizing
  <2>6. Armed'
    BY <2>3, <2>5 DEF Armed
  <2>7. TypeOK'
    BY <2>1, <2>3, <2>4 DEF Ep3Out, TypeOK
  <2>8. PausedMeansFull' /\ IdleMeansEmpty' /\ ReserveCovers' /\ Budget'
    BY <2>1 DEF Ep3Out, PausedMeansFull, IdleMeansEmpty, ReserveCovers, Budget
  <2> QED BY <2>6, <2>7, <2>8
<1>2. CASE Ep3Complete
  <2>1. /\ UNCHANGED <<txq, mailbox, can_rx_q, live, can_silent>>
        /\ UNCHANGED handlerVars
        /\ outep3_processing' = FALSE
    BY <1>2 DEF Ep3Complete, OneStep
  <2>2. IdleMeansEmpty'
    BY <2>1 DEF IdleMeansEmpty
  <2>3. CASE MinSlotsFree(txq)
    <3>1. Arm /\ MinSlotsFree(txq') /\ txq' \in [Buses -> 0..Slots]
      BY <1>2, <2>1, <2>3 DEF Ep3Complete, TypeOK
    <3> QED BY <2>1, <2>2, <3>1, Armament DEF TypeOK, handlerVars
  <2>4. CASE ~MinSlotsFree(txq)
    <3>1. UNCHANGED <<nak, left, used, lost>>
      BY <1>2, <2>4 DEF Ep3Complete
    <3>2. PausedMeansFull'
      BY <2>1, <2>4 DEF PausedMeansFull
    <3> QED BY <2>1, <2>2, <3>1, <3>2 DEF TypeOK, handlerVars, ReserveCovers, Budget, Armed
  <2> QED BY <2>3, <2>4
<1>3. CASE Configure
  <2>1. /\ UNCHANGED <<txq, mailbox, can_rx_q, live, can_silent, outep3_processing>>
        /\ UNCHANGED handlerVars
        /\ nak' = FALSE /\ left' = TransferPackets /\ used' = Overdrawn /\ lost' = FALSE
    BY <1>3 DEF Configure, OneStep
  <2>2. left' \in 0..TransferPackets /\ used' \in 0..Overdrawn /\ left' > 0 /\ ~(used' < Overdrawn)
    BY <2>1, Sizing
  <2>3. TypeOK'
    BY <2>1, <2>2 DEF TypeOK, handlerVars
  <2> QED BY <2>1, <2>2, <2>3
          DEF PausedMeansFull, IdleMeansEmpty, ReserveCovers, Budget, Armed
<1> QED BY <1>1, <1>2, <1>3

LEMMA TxNext == TxInv /\ [Next]_vars => TxInv'
<1> SUFFICES ASSUME TxInv, [Next]_vars PROVE TxInv'
  OBVIOUS
<1> USE DEF TxInv
<1>t. /\ frames \in 0..PacketFrames /\ next_can \in 0..CAN_CNT
      /\ can_silent \in BOOLEAN /\ can_rx_q \in 0..RxSlots
      /\ txq \in [Buses -> 0..Slots] /\ mailbox \in [Buses -> MailboxStates]
  BY DEF TypeOK
<1>1. CASE UNCHANGED vars
  BY <1>1 DEF vars, epVars, handlerVars, TypeOK, PausedMeansFull, MinSlotsFree,
              IdleMeansEmpty, ReserveCovers, Budget, Armed
<1>2. CASE \E n \in 0..PacketFrames, short \in BOOLEAN : Ep3Out(n, short)
  BY <1>2, EndpointSteps
<1>3. CASE Ep3Send
  <2>1. PICK f \in HostFrames : Handled(CanSend(Queues, f), CanSend(Queues, f).dropped)
    BY <1>3 DEF Ep3Send
  <2> DEFINE t == CanSend(Queues, f)
  <2>2. Outcome(t)
    BY CanSendOutcome
  <2>3. t.dropped \in BOOLEAN
    BY <2>2 DEF Outcome, Records
  <2>4. frames' \in 0..PacketFrames
    BY <1>3, <1>t, Sizing DEF Ep3Send
  <2>5. next_can' \in 0..CAN_CNT /\ UNCHANGED <<live, can_silent, outep3_processing>>
    BY <1>3, <1>t DEF Ep3Send
  <2> HIDE DEF t
  <2> QED BY <2>1, <2>2, <2>3, <2>4, <2>5, Handling DEF t
<1>4. CASE Ep3Complete
  BY <1>4, EndpointSteps
<1>5. CASE \E n \in 1..can_rx_q : Ep1In(n)
  <2>1. PICK n \in 1..can_rx_q : Ep1In(n)
    BY <1>5
  <2>2. can_rx_q' \in 0..RxSlots
    BY <1>t, <2>1, Sizing DEF Ep1In
  <2>3. /\ UNCHANGED <<txq, mailbox, live, can_silent, epVars, used, lost>>
        /\ UNCHANGED handlerVars
    BY <2>1 DEF Ep1In, OneStep
  <2>4. TypeOK'
    BY <2>2, <2>3 DEF TypeOK, epVars, handlerVars
  <2> QED BY <2>3, <2>4 DEF epVars, PausedMeansFull, MinSlotsFree, IdleMeansEmpty,
                            ReserveCovers, Budget, Armed
<1>6. CASE Configure
  BY <1>6, EndpointSteps
<1>7. CASE \E b \in Buses : ClearTx(b)
  <2>1. PICK b \in Buses : ClearTx(b)
    BY <1>7
  <2>2. txq' = [txq EXCEPT ![b] = 0]
    BY <2>1 DEF ClearTx
  <2>3. txq' \in [Buses -> 0..Slots] /\ \A c \in Buses : txq'[c] <= txq[c]
    BY <1>t, <2>2, Sizing
  <2>4. /\ UNCHANGED <<mailbox, can_rx_q, live, can_silent, outep3_processing>>
        /\ UNCHANGED handlerVars /\ ResumeIfPaused(txq')
    BY <2>1 DEF ClearTx, OneStep
  <2>5. IdleMeansEmpty'
    BY <1>t, <2>2, <2>4 DEF IdleMeansEmpty
  <2> QED BY <1>t, <2>3, <2>4, <2>5, Resuming DEF handlerVars
<1>8. CASE ClearRx
  <2>1. /\ UNCHANGED <<txq, mailbox, live, can_silent, outep3_processing>>
        /\ UNCHANGED handlerVars /\ ResumeIfPaused(txq') /\ can_rx_q' = 0
    BY <1>8 DEF ClearRx, OneStep
  <2>2. can_rx_q' \in 0..RxSlots /\ \A c \in Buses : txq'[c] <= txq[c]
    BY <1>t, <2>1, Sizing
  <2>3. IdleMeansEmpty'
    BY <2>1 DEF IdleMeansEmpty
  <2> QED BY <1>t, <2>1, <2>2, <2>3, Resuming DEF handlerVars
<1>9. CASE \E silent \in BOOLEAN : SetMode(silent)
  <2>1. PICK silent \in BOOLEAN : SetMode(silent)
    BY <1>9
  <2>2. 0 \in 0..CAN_CNT
    BY Sizing
  <2>3. TypeOK'
    BY <2>1, <2>2 DEF SetMode, TypeOK, epVars
  <2> QED BY <2>1, <2>3 DEF SetMode, epVars, PausedMeansFull, MinSlotsFree, IdleMeansEmpty,
                            ReserveCovers, Budget, Armed
<1>10. CASE CanInit
  BY <1>10, CanInitStep
<1>11. ASSUME NEW b \in Buses, TxIrq(b) PROVE TxInv'
  <2>1. Handled(ProcessCan(Queues, b), FALSE)
    BY <1>11 DEF TxIrq
  <2>2. Outcome(ProcessCan(Queues, b))
    BY ProcessCanOutcome
  <2>3. UNCHANGED <<live, can_silent, outep3_processing>> /\ UNCHANGED handlerVars
    BY <1>11 DEF TxIrq, OneStep
  <2> QED BY <1>t, <2>1, <2>2, <2>3, Handling DEF handlerVars
<1>12. ASSUME NEW b \in Buses, ForwardIrq(b) PROVE TxInv'
  <2>1. PICK to \in Buses : Handled(PushRx(ProcessCan(PushTx(Queues, to), to)), FALSE)
    BY <1>12 DEF ForwardIrq
  <2>2. Outcome(PushRx(ProcessCan(PushTx(Queues, to), to)))
    BY PushOutcome, PushRxOutcome
  <2>3. UNCHANGED <<live, can_silent, outep3_processing>> /\ UNCHANGED handlerVars
    BY <1>12 DEF ForwardIrq, OneStep
  <2> QED BY <1>t, <2>1, <2>2, <2>3, Handling DEF handlerVars
<1>13. CASE KeepIrq
  <2>1. Outcome(PushRx(Queues))
    BY QueuesOutcome, PushRxOutcome
  <2>2. /\ UNCHANGED <<live, can_silent, outep3_processing>> /\ UNCHANGED handlerVars
        /\ Handled(PushRx(Queues), FALSE)
    BY <1>13 DEF KeepIrq, OneStep
  <2> QED BY <1>t, <2>1, <2>2, Handling DEF handlerVars
<1>14. ASSUME NEW b \in Buses,
              SceIrq(b) \/ Transmit(b) \/ BusWakes(b) \/ BusSleeps(b)
       PROVE  TxInv'
  BY <1>14, BusSteps
<1>15. CASE UsbNext
  BY <1>2, <1>3, <1>4, <1>5, <1>6, <1>7, <1>8, <1>9, <1>10, <1>15 DEF UsbNext
<1>16. CASE BusNext
  BY <1>11, <1>12, <1>13, <1>14, <1>16 DEF BusNext, RxIrq
<1> QED BY <1>1, <1>15, <1>16 DEF Next

LEMMA TxInvariant == Spec => []TxInv
BY TxInit, TxNext, PTL DEF Spec

\* The types are right, and an endpoint that waits for room has a queue without
\* it: no wake-up is lost (usb_outep3_resume_if_paused).
THEOREM FlowControl == Spec => [](TypeOK /\ PausedMeansFull)
<1>1. TxInv => TypeOK /\ PausedMeansFull
  BY DEF TxInv
<1> QED BY <1>1, TxInvariant, PTL

\* No frame waits behind an idle mailbox, whichever of can_send, process_can and
\* can_init ran last (process_can).
THEOREM NoFrameLeftBehind == Spec => []IdleMeansEmpty
<1>1. TxInv => IdleMeansEmpty
  BY DEF TxInv
<1> QED BY <1>1, TxInvariant, PTL

\* The reserve of slots covers what it is for, whatever its size and the number
\* of buses: a frame of the host is lost only to an endpoint armed without a look
\* or to frames forwarded meanwhile (can_tx_check_min_slots_free).
THEOREM ReserveSuffices == Spec => []ReserveCovers
<1>1. TxInv => ReserveCovers
  BY DEF TxInv
<1> QED BY <1>1, TxInvariant, PTL
=============================================================================
