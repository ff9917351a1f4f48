----------------------------- MODULE UsbProofs ------------------------------
(***************************************************************************)
(* What holds of the carriers of the CAN messages: the panda's packet queue, *)
(* for every size of its array and every set of packets, and the two         *)
(* directions of the USB stream, for every set of message sizes, every       *)
(* packet size and every range of the counter byte.                          *)
(***************************************************************************)
EXTENDS CanRing, UsbIn, UsbOut, SequenceTheorems, TLAPS

-----------------------------------------------------------------------------
(* The packet queue is a first-in first-out buffer.                          *)

LEMMA Size == fifo_size \in Nat /\ fifo_size >= 2
BY RingAssumption

LEMMA NextIndexType ==
  ASSUME NEW i \in Index
  PROVE  NextIndex(i) \in Index
BY Size DEF Index, NextIndex

LEMMA InitType == Init => TypeOK
BY Size DEF Init, TypeOK, Index

LEMMA NextType == TypeOK /\ [Next]_vars => TypeOK'
<1> SUFFICES ASSUME TypeOK, [Next]_vars PROVE TypeOK'
  OBVIOUS
<1>1. CASE can_pop
  BY <1>1, NextIndexType DEF can_pop, TypeOK
<1>2. ASSUME NEW p \in Packet, can_push(p) PROVE TypeOK'
  BY <1>2, NextIndexType DEF can_push, TypeOK
<1>3. CASE can_slots_empty \/ UNCHANGED vars
  BY <1>3 DEF can_slots_empty, vars, TypeOK
<1>4. CASE can_clear
  BY <1>4, Size DEF can_clear, TypeOK, Index
<1> QED
  BY <1>1, <1>2, <1>3, <1>4 DEF Next

\* The pointers never leave the array (can_pop, can_push, can_clear).
THEOREM RingTypes == Spec => []TypeOK
BY InitType, NextType, PTL DEF Spec

-----------------------------------------------------------------------------
(* The packets of a ring as a sequence. *)

LEMMA HeldType ==
  ASSUME NEW w \in Index, NEW r \in Index
  PROVE  Held(w, r) \in 0..(fifo_size - 1)
BY Size DEF Index, Held

LEMMA PlaceType ==
  ASSUME NEW w \in Index, NEW r \in Index, NEW i \in 1..Held(w, r)
  PROVE  Place(r, i) \in Index
BY Size, HeldType DEF Index, Place

LEMMA PacketsType ==
  ASSUME NEW w \in Index, NEW r \in Index, NEW e \in [Index -> Packet]
  PROVE  /\ PacketsOf(w, r, e) \in Seq(Packet)
         /\ Len(PacketsOf(w, r, e)) = Held(w, r)
         /\ \A i \in 1..Held(w, r) : PacketsOf(w, r, e)[i] = e[Place(r, i)]
<1>1. Held(w, r) \in Nat
  BY HeldType, Size
<1>2. \A i \in 1..Held(w, r) : e[Place(r, i)] \in Packet
  BY PlaceType
<1>3. PacketsOf(w, r, e) \in [1..Held(w, r) -> Packet]
  BY <1>2 DEF PacketsOf
<1>4. PacketsOf(w, r, e) \in Seq(Packet)
  BY <1>1, <1>3, SeqDef
<1> QED
  BY <1>1, <1>3, <1>4, LenProperties DEF PacketsOf

\* A push finds room exactly when fewer than fifo_size - 1 packets are held.
LEMMA FullIsFull ==
  ASSUME NEW w \in Index, NEW r \in Index
  PROVE  NextIndex(w) # r <=> Held(w, r) < fifo_size - 1
BY Size DEF Index, NextIndex, Held

\* Writing behind the last packet appends.
LEMMA PushAppends ==
  ASSUME NEW w \in Index, NEW r \in Index, NEW e \in [Index -> Packet],
         NEW p \in Packet, NextIndex(w) # r
  PROVE  PacketsOf(NextIndex(w), r, [e EXCEPT ![w] = p]) = Append(PacketsOf(w, r, e), p)
<1> DEFINE e2 == [e EXCEPT ![w] = p]
           s == PacketsOf(w, r, e)
           t == PacketsOf(NextIndex(w), r, e2)
<1>1. NextIndex(w) \in Index /\ e2 \in [Index -> Packet]
  BY NextIndexType
<1>2. /\ Held(w, r) \in Nat
      /\ Held(NextIndex(w), r) = Held(w, r) + 1
  BY Size DEF Index, NextIndex, Held
<1>3. /\ s \in Seq(Packet) /\ Len(s) = Held(w, r)
      /\ \A i \in 1..Held(w, r) : s[i] = e[Place(r, i)]
  BY PacketsType
<1>4. /\ t \in Seq(Packet) /\ Len(t) = Held(w, r) + 1
      /\ \A i \in 1..(Held(w, r) + 1) : t[i] = e2[Place(r, i)]
  <2> HIDE DEF e2
  <2>1. /\ t \in Seq(Packet) /\ Len(t) = Held(NextIndex(w), r)
        /\ \A i \in 1..Held(NextIndex(w), r) : t[i] = e2[Place(r, i)]
    BY <1>1, PacketsType
  <2> QED
    BY <1>2, <2>1
<1>5. \A i \in 1..Held(w, r) : Place(r, i) \in Index /\ Place(r, i) # w
  BY Size DEF Index, Held, Place
<1>6. Place(r, Held(w, r) + 1) = w
  BY Size DEF Index, Held, Place
<1>7. \A i \in 1..Held(w, r) : t[i] = s[i]
  <2> SUFFICES ASSUME NEW i \in 1..Held(w, r) PROVE t[i] = s[i]
    OBVIOUS
  <2>1. i \in 1..(Held(w, r) + 1)
    BY <1>2
  <2>2. e2[Place(r, i)] = e[Place(r, i)]
    BY <1>5
  <2> HIDE DEF e2, s, t
  <2> QED
    BY <1>3, <1>4, <2>1, <2>2
<1>8. t[Held(w, r) + 1] = p
  <2>1. e2[w] = p
    OBVIOUS
  <2>2. Held(w, r) + 1 \in 1..(Held(w, r) + 1)
    BY <1>2
  <2> HIDE DEF e2, t
  <2> QED
    BY <1>4, <1>6, <2>1, <2>2
<1>9. /\ Append(s, p) \in Seq(Packet) /\ Len(Append(s, p)) = Held(w, r) + 1
      /\ Append(s, p)[Held(w, r) + 1] = p
      /\ \A i \in 1..Held(w, r) : Append(s, p)[i] = s[i]
  BY <1>2, <1>3, AppendProperties
<1>10. \A i \in 1..Len(t) : t[i] = Append(s, p)[i]
  <2> HIDE DEF s, t
  <2> QED
    BY <1>2, <1>4, <1>7, <1>8, <1>9
<1> QED
  BY <1>4, <1>9, <1>10, SeqEqual

\* Moving the read pointer drops the oldest packet.
LEMMA PopDropsHead ==
  ASSUME NEW w \in Index, NEW r \in Index, NEW e \in [Index -> Packet], w # r
  PROVE  /\ PacketsOf(w, r, e) # << >>
         /\ Head(PacketsOf(w, r, e)) = e[r]
         /\ PacketsOf(w, NextIndex(r), e) = Tail(PacketsOf(w, r, e))
<1> DEFINE s == PacketsOf(w, r, e)
           t == PacketsOf(w, NextIndex(r), e)
<1>1. NextIndex(r) \in Index
  BY NextIndexType
<1>2. /\ Held(w, r) \in Nat /\ Held(w, r) > 0
      /\ Held(w, NextIndex(r)) = Held(w, r) - 1
  BY Size DEF Index, NextIndex, Held
<1>3. /\ s \in Seq(Packet) /\ Len(s) = Held(w, r)
      /\ \A i \in 1..Held(w, r) : s[i] = e[Place(r, i)]
  BY PacketsType
<1>4. s # << >>
  BY <1>2, <1>3
<1>5. Head(s) = e[r]
  <2>1. Place(r, 1) = r
    BY Size DEF Index, Place
  <2>2. Head(s) = s[1]
    BY <1>3, <1>4
  <2> QED
    BY <1>2, <1>3, <2>1, <2>2
<1>6. /\ t \in Seq(Packet) /\ Len(t) = Held(w, r) - 1
      /\ \A i \in 1..(Held(w, r) - 1) : t[i] = e[Place(NextIndex(r), i)]
  <2>1. /\ t \in Seq(Packet) /\ Len(t) = Held(w, NextIndex(r))
        /\ \A i \in 1..Held(w, NextIndex(r)) : t[i] = e[Place(NextIndex(r), i)]
    BY <1>1, PacketsType
  <2> QED
    BY <1>2, <2>1
<1>7. \A i \in 1..(Held(w, r) - 1) : Place(NextIndex(r), i) = Place(r, i + 1)
  BY Size DEF Index, Held, NextIndex, Place
<1>8. /\ Tail(s) \in Seq(Packet) /\ Len(Tail(s)) = Held(w, r) - 1
      /\ \A i \in 1..(Held(w, r) - 1) : Tail(s)[i] = s[i + 1]
  BY <1>3, <1>4, HeadTailProperties
<1>9. \A i \in 1..(Held(w, r) - 1) : s[i + 1] = e[Place(r, i + 1)]
  BY <1>2, <1>3
<1>10. \A i \in 1..Len(t) : t[i] = Tail(s)[i]
  BY <1>2, <1>6, <1>7, <1>8, <1>9
<1> QED
  BY <1>4, <1>5, <1>6, <1>8, <1>10, SeqEqual

\* A ring with equal pointers is empty.
LEMMA EmptyRing ==
  ASSUME NEW r \in Index, NEW e \in [Index -> Packet]
  PROVE  PacketsOf(r, r, e) = << >>
<1>1. Held(r, r) = 0
  BY DEF Index, Held
<1> QED
  BY <1>1, PacketsType, EmptySeq

-----------------------------------------------------------------------------
(* The ring implements the buffer. *)

LEMMA InitIsFifo == Init => Fifo!FifoInit
<1> SUFFICES ASSUME Init PROVE Fifo!FifoInit
  OBVIOUS
<1>1. TypeOK
  BY InitType
<1>2. Contents = << >>
  BY <1>1, EmptyRing DEF Init, TypeOK, Contents
<1> QED
  BY <1>2 DEF Init, Fifo!FifoInit, None, Fifo!None

LEMMA PopIsFifo == ASSUME TypeOK, can_pop PROVE Fifo!FifoPop
<1>1. CASE w_ptr # r_ptr
  <2>1. /\ answer' = Popped(<<elems[r_ptr]>>) /\ r_ptr' = NextIndex(r_ptr)
        /\ w_ptr' = w_ptr /\ elems' = elems
    BY <1>1 DEF can_pop
  <2>2. /\ Contents # << >> /\ Head(Contents) = elems[r_ptr]
        /\ Contents' = Tail(Contents)
    BY <1>1, <2>1, PopDropsHead DEF TypeOK, Contents
  <2> QED
    BY <2>1, <2>2 DEF Fifo!FifoPop, Popped, Fifo!Popped
<1>2. CASE w_ptr = r_ptr
  <2>1. answer' = Popped(<< >>) /\ w_ptr' = w_ptr /\ r_ptr' = r_ptr /\ elems' = elems
    BY <1>2 DEF can_pop
  <2>2. Contents = << >> /\ Contents' = Contents
    BY <1>2, <2>1, EmptyRing DEF TypeOK, Contents
  <2> QED
    BY <2>1, <2>2 DEF Fifo!FifoPop, Popped, Fifo!Popped
<1> QED
  BY <1>1, <1>2

LEMMA PushIsFifo ==
  ASSUME TypeOK, NEW p \in Packet, can_push(p)
  PROVE  Fifo!FifoPush(p)
<1>1. Len(Contents) = Held(w_ptr, r_ptr)
  BY PacketsType DEF TypeOK, Contents
<1>2. (NextIndex(w_ptr) # r_ptr) <=> Len(Contents) < fifo_size - 1
  BY <1>1, FullIsFull DEF TypeOK
<1>3. CASE NextIndex(w_ptr) # r_ptr
  <2>1. /\ elems' = [elems EXCEPT ![w_ptr] = p] /\ w_ptr' = NextIndex(w_ptr)
        /\ r_ptr' = r_ptr /\ answer' = Accepted(TRUE)
    BY <1>3 DEF can_push
  <2>2. Contents' = Append(Contents, p)
    BY <1>3, <2>1, PushAppends DEF TypeOK, Contents
  <2>3. (Len(Contents) < fifo_size - 1) = TRUE
    BY <1>2, <1>3
  <2> QED
    BY <2>1, <2>2, <2>3 DEF Fifo!FifoPush, Accepted, Fifo!Accepted
<1>4. CASE NextIndex(w_ptr) = r_ptr
  <2>1. /\ elems' = elems /\ w_ptr' = w_ptr /\ r_ptr' = r_ptr
        /\ answer' = Accepted(FALSE)
    BY <1>4 DEF can_push
  <2>2. Contents' = Contents
    BY <2>1 DEF Contents
  <2>3. (Len(Contents) < fifo_size - 1) = FALSE
    BY <1>2, <1>4
  <2> QED
    BY <2>1, <2>2, <2>3 DEF Fifo!FifoPush, Accepted, Fifo!Accepted
<1> QED
  BY <1>3, <1>4

LEMMA SlotsIsFifo == ASSUME TypeOK, can_slots_empty PROVE Fifo!FifoSlots
<1>1. Len(Contents) = Held(w_ptr, r_ptr)
  BY PacketsType DEF TypeOK, Contents
<1>2. SlotsEmpty = (fifo_size - 1) - Held(w_ptr, r_ptr)
  BY Size DEF TypeOK, Index, SlotsEmpty, Held
<1>3. Contents' = Contents /\ answer' = Room(SlotsEmpty)
  BY DEF can_slots_empty, Contents
<1> QED
  BY <1>1, <1>2, <1>3 DEF Fifo!FifoSlots, Room, Fifo!Room

LEMMA ClearIsFifo == ASSUME TypeOK, can_clear PROVE Fifo!FifoClear
<1>1. w_ptr' = 0 /\ r_ptr' = 0 /\ elems' = elems /\ answer' = None
  BY DEF can_clear
<1>2. 0 \in Index
  BY Size DEF Index
<1>3. Contents' = << >>
  BY <1>1, <1>2, EmptyRing DEF TypeOK, Contents
<1> QED
  BY <1>1, <1>3 DEF Fifo!FifoClear, None, Fifo!None

\* Whatever the order of pushes, pops, counts and clears, and however often
\* the pointers wrap: packets come out in the order they went in, none twice,
\* a push is refused only by a full ring, and can_slots_empty is exact.
THEOREM RingIsFifo == Spec => IsFifo
<1>1. TypeOK /\ [Next]_vars => [Fifo!FifoNext]_(Fifo!fifoVars)
  <2> SUFFICES ASSUME TypeOK, [Next]_vars
               PROVE  Fifo!FifoNext \/ UNCHANGED Fifo!fifoVars
    OBVIOUS
  <2>1. CASE can_pop
    BY <2>1, PopIsFifo DEF Fifo!FifoNext
  <2>2. ASSUME NEW p \in Packet, can_push(p) PROVE Fifo!FifoNext
    BY <2>2, PushIsFifo DEF Fifo!FifoNext
  <2>3. CASE can_slots_empty
    BY <2>3, SlotsIsFifo DEF Fifo!FifoNext
  <2>4. CASE can_clear
    BY <2>4, ClearIsFifo DEF Fifo!FifoNext
  <2>5. CASE UNCHANGED vars
    BY <2>5 DEF vars, Fifo!fifoVars, Contents
  <2> QED
    BY <2>1, <2>2, <2>3, <2>4, <2>5 DEF Next
<1> QED
  BY <1>1, InitIsFifo, RingTypes, PTL DEF Spec, IsFifo, Fifo!FifoSpec

-----------------------------------------------------------------------------
(* To the host: the counters agree, and without CAN FD no transfer leaves    *)
(* half a message behind.                                                    *)

Full == fifo.len = PacketSize

\* While no transfer was cut: what the panda has counted is what the host has
\* received, and the packet under way.  A full packet has followed the limit
\* only if it fills the host's buffer.
CountersInStep ==
  /\ ~malformed
  /\ fifo = Empty => counter = received /\ total_rx_size = received
  /\ fifo # Empty => fifo.header = received
  /\ fifo # Empty /\ Full =>
       \/ counter = received + 1 /\ total_rx_size = received + 1
       \/ counter = 0 /\ total_rx_size = 0 /\ received + 1 = RecvPackets

\* A short packet ends the transfer on the panda's side whoever reads it.
ShortEnds ==
  fifo # Empty /\ ~Full => counter = 0 /\ total_rx_size = 0

InInv == InTypeOK /\ ShortEnds /\ (~cut => CountersInStep)

LEMMA Sizing ==
  /\ PacketSize \in Nat /\ PacketSize > 1
  /\ ChunkPackets \in Nat /\ CounterValues \in Nat
  /\ RecvPackets = ChunkPackets + 2 /\ RecvPackets <= CounterValues
  BY SizesAssumption, InAssumption

\* The counter byte does not overflow before the limit.
LEMMA NoOverflow ==
  ASSUME NEW n \in Nat, n <= ChunkPackets
  PROVE  (n + 1) % CounterValues = n + 1
<1>1. n + 1 < CounterValues
  BY Sizing
<1> QED BY <1>1, Sizing

LEMMA CounterType ==
  ASSUME NEW n \in Nat
  PROVE  (n + 1) % CounterValues \in 0..(CounterValues - 1)
  BY Sizing

\* The packets ep1_in makes: of at most PacketSize bytes and with the counter
\* as their header; after a full one the counters go on unless the limit was
\* reached, after a short one they start again.
LEMMA Ep1Makes ==
  ASSUME InTypeOK, ep1_in
  PROVE  /\ fifo = Empty /\ fifo' \in PacketSet /\ fifo' # Empty
         /\ fifo'.header = counter
         /\ \/ /\ fifo'.len = PacketSize /\ ~AtLimit
               /\ counter' = (counter + 1) % CounterValues
               /\ total_rx_size' = total_rx_size + 1
            \/ /\ fifo'.len = PacketSize /\ AtLimit
               /\ counter' = 0 /\ total_rx_size' = 0
            \/ /\ fifo'.len < PacketSize
               /\ counter' = 0 /\ total_rx_size' = 0
         /\ ptr' \in Nat
<1> DEFINE rest == ptr - Lead
           start == 1 + Lead
           room == PacketSize - start
<1>1. /\ Lead \in Nat /\ Lead <= ptr /\ Lead < PacketSize /\ rest \in Nat
      /\ start \in 1..PacketSize /\ room \in Nat /\ start + room = PacketSize
  BY Sizing DEF Lead, InTypeOK
<1>2. \A len \in 0..PacketSize : Ep1Packet(len) \in PacketSet /\ Ep1Packet(len) # Empty
                                 /\ Ep1Packet(len).len = len /\ Ep1Packet(len).header = counter
  BY Sizing DEF InTypeOK, Ep1Packet, PacketSet, Empty
<1>3. fifo = Empty
  BY DEF ep1_in
<1>4. ASSUME AtLimit, Filled(start, rest), counter' = 0, total_rx_size' = 0
      PROVE  /\ fifo' = Ep1Packet(IF start = 1 THEN 0 ELSE start)
             /\ ptr' = rest
  BY <1>4 DEF Filled
<1>5. ASSUME NEW n \in Runs(room), Filled(start + n, rest), CountersAfter(start + n)
      PROVE  /\ fifo' = Ep1Packet(IF start + n = 1 THEN 0 ELSE start + n)
             /\ ptr' = rest /\ start + n \in 1..PacketSize
             /\ CountersAfter(start + n)
  BY <1>5, <1>1, Sizing DEF Filled, Runs
<1>6. ASSUME NEW n \in Runs(room), NEW s \in Sizes, n < room, s > room - n,
             Filled(PacketSize, s - (room - n)), CountersAfter(PacketSize)
      PROVE  /\ fifo' = Ep1Packet(PacketSize)
             /\ ptr' \in Nat
  <2>1. s \in Nat /\ n \in Nat
    BY SizesAssumption, <1>1 DEF Runs
  <2> QED BY <1>6, <2>1, <1>1, Sizing DEF Filled
<1>7. CASE AtLimit /\ Filled(start, rest) /\ counter' = 0 /\ total_rx_size' = 0
  <2> DEFINE len == IF start = 1 THEN 0 ELSE start
  <2>1. len \in 0..PacketSize
    BY <1>1, Sizing
  <2>2. fifo' = Ep1Packet(len) /\ ptr' \in Nat
    BY <1>7, <1>4, <1>1
  <2>3. len = PacketSize \/ len < PacketSize
    BY <2>1, Sizing
  <2> HIDE DEF len, rest, start, room
  <2> QED BY <1>2, <1>3, <1>7, <2>1, <2>2, <2>3
<1>8. CASE ~AtLimit /\ \E n \in Runs(room) :
             Filled(start + n, rest) /\ CountersAfter(start + n)
  <2>1. PICK n \in Runs(room) : Filled(start + n, rest) /\ CountersAfter(start + n)
    BY <1>8
  <2> DEFINE len == IF start + n = 1 THEN 0 ELSE start + n
  <2>2. /\ fifo' = Ep1Packet(len) /\ ptr' \in Nat
        /\ start + n \in 1..PacketSize /\ CountersAfter(start + n)
    BY <2>1, <1>5, <1>1
  <2>3. len \in 0..PacketSize
    BY <2>2, Sizing
  <2>4. CASE start + n = PacketSize
    <3>1. len = PacketSize
      BY <2>4, Sizing
    <3>2. /\ counter' = (counter + 1) % CounterValues
          /\ total_rx_size' = total_rx_size + 1
      BY <2>2, <2>4 DEF CountersAfter
    <3> HIDE DEF len, rest, start, room
    <3> QED BY <1>2, <1>3, <1>8, <2>2, <2>3, <3>1, <3>2
  <2>5. CASE start + n # PacketSize
    <3>1. len < PacketSize
      BY <2>2, <2>5, Sizing
    <3>2. counter' = 0 /\ total_rx_size' = 0
      BY <2>2, <2>5 DEF CountersAfter
    <3> HIDE DEF len, rest, start, room
    <3> QED BY <1>2, <1>3, <2>2, <2>3, <3>1, <3>2
  <2> QED BY <2>4, <2>5
<1>9. CASE ~AtLimit /\ \E n \in Runs(room), s \in Sizes :
             /\ n < room /\ s > room - n
             /\ Filled(PacketSize, s - (room - n))
             /\ CountersAfter(PacketSize)
  <2>1. fifo' = Ep1Packet(PacketSize) /\ ptr' \in Nat /\ CountersAfter(PacketSize)
    BY <1>9, <1>6
  <2>2. /\ counter' = (counter + 1) % CounterValues
        /\ total_rx_size' = total_rx_size + 1
    BY <2>1 DEF CountersAfter
  <2>3. PacketSize \in 0..PacketSize
    BY Sizing
  <2> HIDE DEF rest, start, room
  <2> QED BY <1>2, <1>3, <1>9, <2>1, <2>2, <2>3
<1> QED BY <1>7, <1>8, <1>9 DEF ep1_in

LEMMA InInitInv == InInit => InInv
<1> SUFFICES ASSUME InInit PROVE InInv
  OBVIOUS
<1>1. InTypeOK
  <2>1. /\ 0 \in 0..(CounterValues - 1) /\ 0 \in 0..(ChunkPackets + 1)
        /\ 0 \in 0..(RecvPackets - 1) /\ 0 \in Nat
        /\ Empty \in PacketSet
    BY Sizing DEF Empty, PacketSet
  <2> QED BY <2>1 DEF InInit, InTypeOK
<1>2. ShortEnds /\ CountersInStep
  BY DEF InInit, ShortEnds, CountersInStep
<1> QED BY <1>1, <1>2 DEF InInv

LEMMA Ep1KeepsInv == InInv /\ ep1_in => InInv'
<1> SUFFICES ASSUME InInv, ep1_in PROVE InInv'
  OBVIOUS
<1>1. UNCHANGED <<received, malformed, comms_healthy, cut>>
  BY DEF ep1_in
<1>2. /\ fifo = Empty /\ fifo' \in PacketSet /\ fifo' # Empty
      /\ fifo'.header = counter /\ ptr' \in Nat
  BY Ep1Makes DEF InInv
<1>3. counter \in Nat /\ total_rx_size \in Nat
  BY DEF InInv, InTypeOK
<1>4. CASE /\ fifo'.len = PacketSize /\ ~AtLimit
           /\ counter' = (counter + 1) % CounterValues
           /\ total_rx_size' = total_rx_size + 1
  <2>1. total_rx_size' \in 0..(ChunkPackets + 1)
    BY <1>3, <1>4, Sizing DEF AtLimit
  <2>2. counter' \in 0..(CounterValues - 1)
    BY <1>3, <1>4, CounterType
  <2>3. InTypeOK'
    BY <1>1, <1>2, <2>1, <2>2 DEF InInv, InTypeOK
  <2>4. ShortEnds'
    BY <1>4 DEF ShortEnds, Full
  <2>5. ASSUME ~cut' PROVE CountersInStep'
    <3>1. CountersInStep
      BY <1>1, <2>5 DEF InInv
    <3>2. counter = received /\ total_rx_size = received /\ ~malformed
      BY <1>2, <3>1 DEF CountersInStep
    <3>3. counter' = received + 1 /\ total_rx_size' = received + 1
      BY <1>3, <1>4, <3>2, NoOverflow, Sizing DEF AtLimit
    <3> QED BY <1>1, <1>2, <3>2, <3>3 DEF CountersInStep
  <2> QED BY <2>3, <2>4, <2>5 DEF InInv
<1>5. CASE /\ fifo'.len = PacketSize /\ AtLimit
           /\ counter' = 0 /\ total_rx_size' = 0
  <2>1. InTypeOK'
    BY <1>1, <1>2, <1>5, Sizing DEF InInv, InTypeOK
  <2>2. ShortEnds'
    BY <1>5 DEF ShortEnds, Full
  <2>3. ASSUME ~cut' PROVE CountersInStep'
    <3>1. CountersInStep
      BY <1>1, <2>3 DEF InInv
    <3>2. counter = received /\ total_rx_size = received /\ ~malformed
      BY <1>2, <3>1 DEF CountersInStep
    <3>3. received + 1 = RecvPackets
      BY <1>5, <3>2, Sizing DEF AtLimit, InInv, InTypeOK
    <3> QED BY <1>1, <1>2, <1>5, <3>2, <3>3 DEF CountersInStep
  <2> QED BY <2>1, <2>2, <2>3 DEF InInv
<1>6. CASE fifo'.len < PacketSize /\ counter' = 0 /\ total_rx_size' = 0
  <2>1. InTypeOK'
    BY <1>1, <1>2, <1>6, Sizing DEF InInv, InTypeOK
  <2>2. ShortEnds'
    BY <1>6 DEF ShortEnds
  <2>3. ~Full'
    BY <1>6, <2>1, Sizing DEF InTypeOK, PacketSet, Full
  <2>4. ASSUME ~cut' PROVE CountersInStep'
    <3>1. CountersInStep
      BY <1>1, <2>4 DEF InInv
    <3>2. counter = received /\ ~malformed
      BY <1>2, <3>1 DEF CountersInStep
    <3> QED BY <1>1, <1>2, <2>3, <3>2 DEF CountersInStep
  <2> QED BY <2>1, <2>2, <2>4 DEF InInv
<1> QED BY <1>4, <1>5, <1>6, Ep1Makes DEF InInv

\* In step, no packet is out of place.
LEMMA NothingBad ==
  ASSUME InInv, ~cut, fifo # Empty
  PROVE  ~(malformed \/ (fifo.len > 0 /\ fifo.header # received))
  BY DEF InInv, CountersInStep

LEMMA ReadsKeepsInv == InInv /\ HostReads => InInv'
<1> SUFFICES ASSUME InInv, HostReads PROVE InInv'
  OBVIOUS
<1> DEFINE bad == malformed \/ (fifo.len > 0 /\ fifo.header # received)
<1>1. fifo # Empty /\ fifo' = Empty /\ UNCHANGED <<ptr, counter, total_rx_size>>
  BY DEF HostReads, ep1Vars
<1>2. fifo \in PacketSet /\ received \in 0..(RecvPackets - 1) /\ bad \in BOOLEAN
  BY DEF InInv, InTypeOK
<1>3. Empty \in PacketSet
  BY Sizing DEF Empty, PacketSet
<1>4. CASE /\ Full /\ received + 1 < RecvPackets
           /\ received' = received + 1 /\ malformed' = bad
           /\ UNCHANGED <<comms_healthy, cut>>
  <2>1. received' \in 0..(RecvPackets - 1)
    BY <1>2, <1>4, Sizing
  <2>2. InTypeOK'
    BY <1>1, <1>2, <1>3, <1>4, <2>1 DEF InInv, InTypeOK
  <2>3. ASSUME ~cut' PROVE CountersInStep'
    <3>1. CountersInStep /\ ~bad
      BY <1>1, <1>4, <2>3, NothingBad DEF InInv
    <3>2. counter = received + 1 /\ total_rx_size = received + 1
      BY <1>1, <1>2, <1>4, <3>1, Sizing DEF CountersInStep
    <3> QED BY <1>1, <1>4, <3>1, <3>2 DEF CountersInStep
  <2> QED BY <1>1, <2>2, <2>3 DEF InInv, ShortEnds
<1>5. CASE /\ ~Full \/ received + 1 = RecvPackets
           /\ received' = 0 /\ malformed' = FALSE
           /\ comms_healthy' = (comms_healthy /\ ~bad)
           /\ cut' = (cut /\ Full)
  <2>1. received' \in 0..(RecvPackets - 1)
    BY <1>5, Sizing
  <2>2. comms_healthy' \in BOOLEAN /\ cut' \in BOOLEAN /\ malformed' \in BOOLEAN
    BY <1>5
  <2>3. InTypeOK'
    BY <1>1, <1>3, <2>1, <2>2 DEF InInv, InTypeOK
  <2>4. ASSUME ~cut' PROVE CountersInStep'
    <3>1. counter = 0 /\ total_rx_size = 0
      <4>1. CASE ~Full
        BY <1>1, <4>1 DEF InInv, ShortEnds
      <4>2. CASE Full
        <5>1. CountersInStep
          BY <1>5, <2>4, <4>2 DEF InInv
        <5>2. counter \in 0..(CounterValues - 1) /\ total_rx_size \in 0..(ChunkPackets + 1)
          BY DEF InInv, InTypeOK
        <5> QED BY <1>1, <1>2, <1>5, <4>2, <5>1, <5>2, Sizing DEF CountersInStep
      <4> QED BY <4>1, <4>2
    <3> QED BY <1>1, <1>5, <3>1 DEF CountersInStep
  <2> QED BY <1>1, <2>3, <2>4 DEF InInv, ShortEnds
<1>6. fifo.len < PacketSize <=> ~Full
  BY <1>2, Sizing DEF PacketSet, Full
<1> HIDE DEF bad
<1> QED BY <1>4, <1>5, <1>6 DEF HostReads, bad, Full

LEMMA RestartsKeepsInv == InInv /\ HostRestarts => InInv'
<1> SUFFICES ASSUME InInv, HostRestarts PROVE InInv'
  OBVIOUS
<1>1. /\ UNCHANGED <<ptr, counter, total_rx_size, fifo>>
      /\ received' = 0 /\ malformed' = FALSE /\ comms_healthy' = TRUE
      /\ cut' = (cut \/ received > 0)
  BY DEF HostRestarts, ep1Vars
<1>2. InTypeOK'
  <2>1. received' \in 0..(RecvPackets - 1)
    BY <1>1, Sizing
  <2>2. comms_healthy' \in BOOLEAN /\ cut' \in BOOLEAN /\ malformed' \in BOOLEAN
    BY <1>1
  <2> QED BY <1>1, <2>1, <2>2 DEF InInv, InTypeOK
<1>3. ASSUME ~cut' PROVE CountersInStep'
  <2>1. ~cut /\ ~(received > 0)
    BY <1>1, <1>3
  <2>2. received \in Nat
    BY Sizing DEF InInv, InTypeOK
  <2>3. received = 0
    BY <2>1, <2>2
  <2>4. CountersInStep
    BY <2>1 DEF InInv
  <2> QED BY <1>1, <2>3, <2>4 DEF CountersInStep, Full
<1> QED BY <1>1, <1>2, <1>3 DEF InInv, ShortEnds, Full

LEMMA InNextInv == InInv /\ [InNext]_inVars => InInv'
<1>1. InInv /\ UNCHANGED inVars => InInv'
  BY DEF inVars, ep1Vars, InInv, InTypeOK, ShortEnds, CountersInStep, Full
<1> QED BY <1>1, Ep1KeepsInv, ReadsKeepsInv, RestartsKeepsInv DEF InNext

\* The state of both sides is always one of those InTypeOK names: the counter
\* byte never wraps in the middle of a transfer.
THEOREM InTypes == InSpec => []InTypeOK
<1>1. InInv => InTypeOK
  BY DEF InInv
<1> QED BY <1>1, InInitInv, InNextInv, PTL DEF InSpec

\* A host finds a packet out of place only in the rest of a transfer its
\* predecessor began (usb_cb_ep1_in, unpack_can_buffer).
THEOREM CountersAgree == InSpec => HealthyUnlessCut
<1> DEFINE Step == comms_healthy /\ ~comms_healthy' => cut
<1>1. InInv /\ [InNext]_inVars => [Step]_inVars
  <2> SUFFICES ASSUME InInv, InNext PROVE Step
    OBVIOUS
  <2>1. CASE ep1_in
    BY <2>1 DEF ep1_in
  <2>2. CASE HostReads
    BY <2>2, NothingBad DEF HostReads
  <2>3. CASE HostRestarts
    BY <2>3 DEF HostRestarts
  <2> QED BY <2>1, <2>2, <2>3 DEF InNext
<1> QED BY <1>1, InInitInv, InNextInv, PTL DEF InSpec, HealthyUnlessCut

\* A packet that is not full leaves nothing of a message behind.
ShortLeavesNothing == fifo # Empty /\ ~Full => ptr = 0

LEMMA ShortIsLast ==
  ASSUME InTypeOK, ep1_in, fifo'.len < PacketSize
  PROVE  ptr' = 0
<1>1. /\ ptr \in Nat /\ Lead \in Nat
      /\ Lead = ptr \/ Lead = PacketSize - 1
  BY Sizing DEF InTypeOK, Lead
<1>2. ASSUME NEW n \in Nat, Filled(1 + Lead + n, ptr - Lead)
      PROVE  ptr' = 0
  <2>1. fifo'.len = (IF 1 + Lead + n = 1 THEN 0 ELSE 1 + Lead + n)
    BY <1>2 DEF Filled, Ep1Packet
  <2>2. Lead # PacketSize - 1
    BY <1>1, <2>1, Sizing
  <2> QED BY <1>1, <1>2, <2>2 DEF Filled
<1>3. ASSUME NEW rest, Filled(PacketSize, rest) PROVE FALSE
  <2>1. fifo'.len = PacketSize
    BY <1>3, Sizing DEF Filled, Ep1Packet
  <2> QED BY <2>1, Sizing
<1>4. \/ Filled(1 + Lead, ptr - Lead)
      \/ \E n \in Runs(PacketSize - (1 + Lead)) : Filled(1 + Lead + n, ptr - Lead)
      \/ \E rest : Filled(PacketSize, rest)
  BY DEF ep1_in
<1>5. ASSUME Filled(1 + Lead, ptr - Lead) PROVE ptr' = 0
  <2>1. 1 + Lead = 1 + Lead + 0
    BY <1>1
  <2> QED BY <1>2, <1>5, <2>1
<1>6. \A n \in Runs(PacketSize - (1 + Lead)) : n \in Nat
  BY <1>1, Sizing DEF Runs
<1> QED BY <1>2, <1>3, <1>4, <1>5, <1>6

LEMMA ShortNext ==
  InInv /\ InInv' /\ ShortLeavesNothing /\ [InNext]_inVars => ShortLeavesNothing'
<1> SUFFICES ASSUME InInv, InInv', ShortLeavesNothing, [InNext]_inVars
             PROVE  ShortLeavesNothing'
  OBVIOUS
<1>1. CASE ep1_in
  <2>1. InTypeOK /\ fifo' \in PacketSet
    BY DEF InInv, InTypeOK
  <2>2. ~Full' => fifo'.len < PacketSize
    BY <2>1, Sizing DEF PacketSet, Full
  <2> QED BY <1>1, <2>1, <2>2, ShortIsLast DEF ShortLeavesNothing
<1>2. CASE HostReads
  BY <1>2 DEF HostReads, ShortLeavesNothing
<1>3. CASE UNCHANGED <<ptr, fifo>>
  BY <1>3 DEF ShortLeavesNothing, Full
<1> QED BY <1>1, <1>2, <1>3 DEF InNext, HostRestarts, ep1Vars, inVars

\* Whatever the sizes of the messages, only a transfer that fills the host's
\* buffer ends inside one.
THEOREM CutsAtTheEnd == InSpec => CutOnlyAtRecvSize
<1> DEFINE Step == HostReads /\ received' = 0 /\ ~cut /\ ptr > 0
                     => received + 1 = RecvPackets
<1>1. InInit => ShortLeavesNothing
  BY DEF InInit, ShortLeavesNothing
<1>2. InInv /\ ShortLeavesNothing /\ [InNext]_inVars => [Step]_inVars
  <2> SUFFICES ASSUME InInv, ShortLeavesNothing, HostReads, received' = 0, ptr > 0
               PROVE  received + 1 = RecvPackets
    OBVIOUS
  <2>1. fifo # Empty /\ received \in Nat
    BY Sizing DEF HostReads, InInv, InTypeOK
  <2>2. ~(ptr = 0)
    OBVIOUS
  <2>3. Full
    BY <2>1, <2>2 DEF ShortLeavesNothing
  <2>4. ~(fifo.len < PacketSize)
    BY <2>3, Sizing DEF Full
  <2>5. \/ received' = received + 1
        \/ received + 1 = RecvPackets
    BY <2>4 DEF HostReads
  <2> QED BY <2>1, <2>5
<1> QED BY <1>1, <1>2, ShortNext, InInitInv, InNextInv, PTL DEF InSpec, CutOnlyAtRecvSize

-----------------------------------------------------------------------------
(* Without CAN FD: no message is longer than the payload of a packet. *)

Classical == \A s \in Sizes : s < PacketSize

\* What is left of a message always leaves room in the next packet, so the
\* packet at the limit is short, and a short packet leaves nothing.
Clean ==
  /\ ptr < PacketSize - 1
  /\ fifo # Empty /\ ~Full => ptr = 0
  /\ ~cut /\ fifo # Empty /\ Full => counter = received + 1
  /\ ~cut /\ fifo = Empty /\ received = 0 => ptr = 0

LEMMA MakesClean ==
  ASSUME Classical, InTypeOK, ptr < PacketSize - 1, ep1_in
  PROVE  /\ ptr' < PacketSize - 1
         /\ \/ fifo'.len < PacketSize /\ ptr' = 0
            \/ ~AtLimit
<1>1. ptr \in Nat /\ Lead = ptr
  BY Sizing DEF InTypeOK, Lead
<1>2. ASSUME AtLimit, Filled(1 + Lead, ptr - Lead)
      PROVE  fifo'.len < PacketSize /\ ptr' = 0
  <2>1. (IF 1 + Lead = 1 THEN 0 ELSE 1 + Lead) < PacketSize /\ ptr - Lead = 0
    BY <1>1, Sizing
  <2> QED BY <1>2, <2>1 DEF Filled, Ep1Packet
<1>3. ASSUME NEW len, Filled(len, ptr - Lead)
      PROVE  ptr' < PacketSize - 1
  BY <1>1, <1>3, Sizing DEF Filled
<1>4. ASSUME NEW n \in Runs(PacketSize - (1 + Lead)), NEW s \in Sizes,
             n < PacketSize - (1 + Lead), s > PacketSize - (1 + Lead) - n,
             Filled(PacketSize, s - (PacketSize - (1 + Lead) - n))
      PROVE  ptr' < PacketSize - 1
  <2>1. s \in Nat /\ n \in Nat /\ s < PacketSize
    BY SizesAssumption, <1>1, Sizing DEF Runs, Classical
  <2> QED BY <1>1, <1>4, <2>1, Sizing DEF Filled
<1>6. CASE AtLimit
  <2>1. Filled(1 + Lead, ptr - Lead)
    BY <1>6 DEF ep1_in
  <2> QED BY <1>2, <1>3, <1>6, <2>1
<1>7. CASE ~AtLimit
  <2>1. \/ \E n \in Runs(PacketSize - (1 + Lead)) : Filled(1 + Lead + n, ptr - Lead)
        \/ \E n \in Runs(PacketSize - (1 + Lead)), s \in Sizes :
             /\ n < PacketSize - (1 + Lead) /\ s > PacketSize - (1 + Lead) - n
             /\ Filled(PacketSize, s - (PacketSize - (1 + Lead) - n))
    BY <1>7 DEF ep1_in
  <2> QED BY <1>3, <1>4, <1>7, <2>1
<1> QED BY <1>6, <1>7

LEMMA CleanStep == Classical /\ InInv /\ InInv' /\ Clean /\ [InNext]_inVars => Clean'
<1> SUFFICES ASSUME Classical, InInv, InInv', Clean, [InNext]_inVars PROVE Clean'
  OBVIOUS
<1>1. CASE ep1_in
  <2>1. InTypeOK /\ ptr < PacketSize - 1 /\ UNCHANGED <<cut, received>>
    BY <1>1 DEF InInv, Clean, ep1_in
  <2>2. ptr' < PacketSize - 1 /\ fifo' # Empty /\ fifo' \in PacketSet /\ fifo = Empty
    BY <1>1, <2>1, MakesClean, Ep1Makes
  <2>3. ~Full' => ptr' = 0
    <3>1. fifo'.len < PacketSize \/ fifo'.len = PacketSize
      BY <2>2, Sizing DEF PacketSet
    <3> QED BY <1>1, <2>1, <3>1, ShortIsLast DEF Full
  <2>4. ASSUME ~cut', Full' PROVE counter' = received' + 1
    <3>1. ~(fifo'.len < PacketSize)
      BY <2>4, Sizing DEF Full
    <3>2. ~AtLimit
      BY <1>1, <2>1, <3>1, MakesClean
    <3>3. counter' = (counter + 1) % CounterValues
      BY <1>1, <2>1, <3>1, <3>2, Ep1Makes
    <3>4. counter = received /\ total_rx_size = received
      BY <2>1, <2>2, <2>4 DEF InInv, CountersInStep
    <3>5. counter \in Nat /\ counter <= ChunkPackets
      BY <3>2, <3>4, Sizing DEF AtLimit, InInv, InTypeOK
    <3> QED BY <2>1, <3>3, <3>4, <3>5, NoOverflow
  <2> QED BY <2>2, <2>3, <2>4 DEF Clean
<1>2. CASE HostReads
  <2>1. /\ fifo # Empty /\ fifo' = Empty /\ UNCHANGED <<ptr, counter>>
    BY <1>2 DEF HostReads, ep1Vars
  <2>2. ASSUME ~cut', received' = 0 PROVE ptr' = 0
    <3>1. CASE ~Full
      BY <2>1, <3>1 DEF Clean
    <3>2. CASE Full /\ received + 1 < RecvPackets /\ received' = received + 1
      BY <2>2, <3>2, Sizing DEF InInv, InTypeOK
    <3>3. CASE Full /\ received + 1 = RecvPackets /\ cut' = (cut /\ fifo.len = PacketSize)
      <4>1. ~cut
        BY <2>2, <3>3 DEF Full
      <4>2. counter = received + 1 /\ CountersInStep
        BY <2>1, <3>3, <4>1 DEF Clean, InInv
      <4>3. total_rx_size = received + 1
        <5>1. received \in Nat
          BY Sizing DEF InInv, InTypeOK
        <5>2. ~(counter = 0)
          BY <4>2, <5>1
        <5>3. Full /\ CountersInStep /\ fifo # Empty
          BY <2>1, <3>3, <4>2
        <5> QED BY <5>2, <5>3 DEF CountersInStep
      <4>4. total_rx_size \in 0..(ChunkPackets + 1)
        BY DEF InInv, InTypeOK
      <4> QED BY <3>3, <4>3, <4>4, Sizing
    <3>4. Full => \/ received + 1 < RecvPackets /\ received' = received + 1
                  \/ received + 1 = RecvPackets /\ cut' = (cut /\ fifo.len = PacketSize)
      <4>1. Full => ~(fifo.len < PacketSize)
        BY Sizing DEF Full
      <4> QED BY <1>2, <4>1 DEF HostReads
    <3> QED BY <3>1, <3>2, <3>3, <3>4
  <2> QED BY <2>1, <2>2 DEF Clean
<1>3. CASE HostRestarts
  <2>1. /\ UNCHANGED <<ptr, counter, fifo>> /\ received' = 0
        /\ cut' = (cut \/ received > 0)
    BY <1>3 DEF HostRestarts, ep1Vars
  <2>2. received \in Nat
    BY Sizing DEF InInv, InTypeOK
  <2>3. ASSUME ~cut' PROVE ~cut /\ received = received'
    <3>1. ~cut /\ ~(received > 0)
      BY <2>1, <2>3
    <3> QED BY <2>1, <2>2, <3>1
  <2> QED BY <2>1, <2>3 DEF Clean, Full
<1>4. CASE UNCHANGED inVars
  BY <1>4 DEF inVars, ep1Vars, Clean, Full
<1> QED BY <1>1, <1>2, <1>3, <1>4 DEF InNext

\* Without CAN FD a transfer never ends inside a message, at the limit no less
\* than when the queue runs dry (usb_cb_ep1_in).
THEOREM StartsClean ==
  ASSUME Classical
  PROVE  InSpec => []StartsWithMessage
<1>1. InInit => Clean
  BY Sizing DEF InInit, Clean
<1>2. InInv /\ Clean => StartsWithMessage
  BY DEF InInv, CountersInStep, Clean, StartsWithMessage
<1>3. InInv /\ InInv' /\ Clean /\ [InNext]_inVars => Clean'
  BY CleanStep
<1> QED BY <1>1, <1>2, <1>3, InInitInv, InNextInv, PTL DEF InSpec

-----------------------------------------------------------------------------
(* To the panda: the bytes of a cut message are counted alike on both sides. *)

\* In the middle of a transfer the panda has counted the packets sent and
\* knows how many bytes of the cut message are missing; between transfers its
\* buffer may hold anything that fits.
BytesInStep ==
  /\ sent = 0 => owe = 0
  /\ sent > 0 =>
       /\ ep3_buffer.counter = sent
       /\ owe > 0 => ep3_buffer.ptr > 0 /\ ep3_buffer.tail_size = owe
       /\ owe = 0 => ep3_buffer.ptr = 0

OutInv == OutTypeOK /\ NothingStitched /\ BufferFits /\ BytesInStep

\* The payload is a positive number of bytes (USBPACKET_MAX_SIZE less the counter).
LEMMA PayloadPositive == Payload \in Nat /\ Payload > 0
  BY SizesAssumption DEF Payload

\* The buffer after the reset of a new stream is in step with the host, so the
\* packet is accepted and the panda takes exactly the bytes of the cut message
\* (the front half of usb_cb_ep3_out).
LEMMA StartFits ==
  ASSUME OutInv
  PROVE  /\ AtStart \in [ptr: Nat, tail_size: Nat, counter: Nat]
         /\ AtStart.counter = sent
         /\ AtStart.ptr + AtStart.tail_size <= MaxSize
         /\ owe > 0 => AtStart.ptr > 0 /\ AtStart.tail_size = owe
         /\ owe = 0 => AtStart.ptr = 0
<1>1. CASE sent = 0
  BY <1>1, SizesAssumption DEF OutInv, OutTypeOK, BufferFits, BytesInStep, AtStart, Fresh
<1>2. CASE sent > 0
  BY <1>2 DEF OutInv, OutTypeOK, BufferFits, BytesInStep, AtStart, Fresh
<1>3. sent \in Nat
  BY DEF OutInv, OutTypeOK
<1> QED BY <1>1, <1>2, <1>3

\* What the handler makes of a packet that starts with the last bytes of the
\* cut message and ends with head bytes of one that lacks rest.
LEMMA HandlesEnd ==
  ASSUME OutInv, owe <= Payload, NEW head \in Nat, NEW rest \in Nat,
         head + rest <= MaxSize, ep3_out(owe, head, rest)
  PROVE  /\ ep3_buffer' \in [ptr: Nat, tail_size: Nat, counter: Nat]
         /\ ep3_buffer'.ptr = head /\ ep3_buffer'.tail_size = rest
         /\ ep3_buffer'.counter = sent + 1
         /\ ~stray' /\ stray' \in BOOLEAN
<1> DEFINE b == AtStart
           c == [b EXCEPT !.counter = @ + 1]
<1>1. /\ b \in [ptr: Nat, tail_size: Nat, counter: Nat]
      /\ b.counter = sent
      /\ owe > 0 => b.ptr > 0 /\ b.tail_size = owe
      /\ owe = 0 => b.ptr = 0
  BY StartFits
<1>2. owe \in Nat /\ sent \in Nat /\ ~stray
  BY DEF OutInv, OutTypeOK, NothingStitched
<1>3. /\ ep3_buffer' = IF b.ptr > 0 /\ b.tail_size > Payload THEN Appended(c)
                       ELSE [c EXCEPT !.ptr = head, !.tail_size = rest]
      /\ stray' = (stray \/ Taken(b) # owe)
  BY <1>1 DEF ep3_out
<1> HIDE DEF b
<1>4. ~(b.ptr > 0 /\ b.tail_size > Payload)
  BY <1>1, <1>2, PayloadPositive
<1>5. Taken(b) = owe
  BY <1>1, <1>2, PayloadPositive DEF Taken
<1>6. ep3_buffer' = [c EXCEPT !.ptr = head, !.tail_size = rest]
  BY <1>3, <1>4
<1>7. ep3_buffer' = [ptr |-> head, tail_size |-> rest, counter |-> sent + 1]
  BY <1>1, <1>6
<1>8. ~stray' /\ stray' \in BOOLEAN
  BY <1>2, <1>3, <1>5
<1> QED BY <1>2, <1>7, <1>8

\* The handler in the middle of a message counts what is still missing.
LEMMA HandlesMiddle ==
  ASSUME OutInv, owe > Payload, ep3_out(Payload, 0, 0)
  PROVE  /\ ep3_buffer' \in [ptr: Nat, tail_size: Nat, counter: Nat]
         /\ ep3_buffer'.ptr > 0 /\ ep3_buffer'.tail_size = owe - Payload
         /\ ep3_buffer'.ptr + ep3_buffer'.tail_size <= MaxSize
         /\ ep3_buffer'.counter = sent + 1
         /\ ~stray' /\ stray' \in BOOLEAN
<1> DEFINE b == AtStart
           c == [b EXCEPT !.counter = @ + 1]
<1>1. /\ b \in [ptr: Nat, tail_size: Nat, counter: Nat]
      /\ b.counter = sent
      /\ b.ptr + b.tail_size <= MaxSize
      /\ owe > 0 => b.ptr > 0 /\ b.tail_size = owe
  BY StartFits
<1>2. owe \in Nat /\ sent \in Nat /\ ~stray
  BY DEF OutInv, OutTypeOK, NothingStitched
<1>3. /\ ep3_buffer' = IF b.ptr > 0 /\ b.tail_size > Payload THEN Appended(c)
                       ELSE [c EXCEPT !.ptr = 0, !.tail_size = 0]
      /\ stray' = (stray \/ Taken(b) # Payload)
  BY <1>1 DEF ep3_out
<1> HIDE DEF b
<1>4. b.ptr > 0 /\ b.tail_size > Payload /\ b.tail_size = owe
  BY <1>1, <1>2, PayloadPositive
<1>5. Taken(b) = Payload
  BY <1>1, <1>4, PayloadPositive DEF Taken
<1>6. ep3_buffer' = [ptr |-> b.ptr + Payload, tail_size |-> owe - Payload,
                     counter |-> sent + 1]
  BY <1>1, <1>3, <1>4 DEF Appended
<1>7. ~stray' /\ stray' \in BOOLEAN
  BY <1>2, <1>3, <1>5
<1> QED BY <1>1, <1>2, <1>4, <1>6, <1>7, PayloadPositive, SizesAssumption

\* Every step keeps the panda in step with the host.
LEMMA OutNextInv == OutInv /\ [OutNext]_outVars => OutInv'
<1> SUFFICES ASSUME OutInv, [OutNext]_outVars PROVE OutInv'
  OBVIOUS
<1>0. owe \in Nat /\ sent \in Nat
  BY DEF OutInv, OutTypeOK
<1>1. CASE MiddlePacket
  <2>1. ep3_out(Payload, 0, 0) /\ owe > Payload
    BY <1>1 DEF MiddlePacket
  <2>2. sent' = sent + 1 /\ owe' = owe - Payload
    BY <1>1 DEF MiddlePacket
  <2> QED BY <1>0, <2>1, <2>2, HandlesMiddle, PayloadPositive
          DEF OutInv, OutTypeOK, NothingStitched, BufferFits, BytesInStep
<1>2. CASE CutPacket
  <2>1. PICK n \in Runs(Payload - owe), s \in Sizes :
          /\ owe <= Payload
          /\ Payload - owe - n > 0 /\ s > Payload - owe - n
          /\ ep3_out(owe, Payload - owe - n, s - (Payload - owe - n))
          /\ sent' = sent + 1 /\ owe' = s - (Payload - owe - n)
    BY <1>2 DEF CutPacket
  <2> DEFINE head == Payload - owe - n
             rest == s - head
  <2>2. /\ head \in Nat /\ rest \in Nat /\ head > 0 /\ rest > 0
        /\ head + rest <= MaxSize
    BY <1>0, <2>1, PayloadPositive, SizesAssumption DEF Runs
  <2>3. /\ owe <= Payload /\ ep3_out(owe, head, rest)
        /\ sent' = sent + 1 /\ owe' = rest
    BY <2>1
  <2> HIDE DEF head, rest
  <2>4. /\ ep3_buffer' \in [ptr: Nat, tail_size: Nat, counter: Nat]
        /\ ep3_buffer'.ptr = head /\ ep3_buffer'.tail_size = rest
        /\ ep3_buffer'.counter = sent + 1
    BY <2>2, <2>3, HandlesEnd
  <2>5. ~stray' /\ stray' \in BOOLEAN
    BY <2>2, <2>3, HandlesEnd
  <2>6. sent' \in Nat /\ owe' \in Nat /\ BufferFits' /\ BytesInStep'
    BY <1>0, <2>2, <2>3, <2>4 DEF BufferFits, BytesInStep
  <2> QED BY <2>4, <2>5, <2>6 DEF OutInv, OutTypeOK, NothingStitched
<1>3. CASE FullPacket
  <2>1. ep3_out(owe, 0, 0) /\ owe <= Payload /\ sent' = sent + 1 /\ owe' = 0
    BY <1>3 DEF FullPacket
  <2> QED BY <1>0, <2>1, HandlesEnd, SizesAssumption
          DEF OutInv, OutTypeOK, NothingStitched, BufferFits, BytesInStep
<1>4. CASE LastPacket
  <2>1. ep3_out(owe, 0, 0) /\ owe <= Payload /\ sent' = 0 /\ owe' = 0
    BY <1>4 DEF LastPacket
  <2> QED BY <1>0, <2>1, HandlesEnd, SizesAssumption
          DEF OutInv, OutTypeOK, NothingStitched, BufferFits, BytesInStep
<1>5. CASE StopTransfer
  BY <1>5 DEF StopTransfer, OutInv, OutTypeOK, NothingStitched, BufferFits, BytesInStep
<1>6. CASE UNCHANGED outVars
  BY <1>6 DEF outVars, OutInv, OutTypeOK, NothingStitched, BufferFits, BytesInStep
<1> QED BY <1>1, <1>2, <1>3, <1>4, <1>5, <1>6 DEF OutNext

LEMMA OutInvariant == OutSpec => []OutInv
<1>1. OutInit => OutInv
  <2> SUFFICES ASSUME OutInit PROVE OutInv
    OBVIOUS
  <2>1. sent = 0 /\ owe = 0
        /\ ep3_buffer = [ptr |-> 0, tail_size |-> 0, counter |-> 0]
    BY DEF OutInit, Fresh
  <2>2. ~stray /\ stray \in BOOLEAN
    BY DEF OutInit
  <2>3. BufferFits /\ BytesInStep
    BY <2>1, SizesAssumption DEF BufferFits, BytesInStep
  <2> QED BY <2>1, <2>2, <2>3 DEF OutInv, OutTypeOK, NothingStitched
<1> QED BY <1>1, OutNextInv, PTL DEF OutSpec

\* No message is put together from two transfers, whatever the sizes and wherever
\* transfers are cut (usb_cb_ep3_out).
THEOREM OutSafe == OutSpec => [](OutTypeOK /\ NothingStitched)
<1>1. OutInv => OutTypeOK /\ NothingStitched
  BY DEF OutInv
<1> QED BY <1>1, OutInvariant, PTL

\* No message outgrows the buffer it is put together in (usb_cb_ep3_out).
THEOREM BufferSuffices == OutSpec => []BufferFits
<1>1. OutInv => BufferFits
  BY DEF OutInv
<1> QED BY <1>1, OutInvariant, PTL
=============================================================================
