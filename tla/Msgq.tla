-------------------------------- MODULE Msgq --------------------------------
(* cereal/messaging/msgq.cc: a lock-free queue in shared memory. One process  *)
(* publishes, several read. The publisher never waits: it takes a reader out  *)
(* of its way by clearing the reader's valid flag before it overwrites what   *)
(* the reader may be looking at. A step is one access to shared memory; the   *)
(* accesses are sequentially consistent (they are std::atomic, and            *)
(* __sync_synchronize surrounds the copies).                                  *)
EXTENDS Integers, FiniteSets

CONSTANTS
  Readers,       \* reader processes
  NoReader,      \* the uid 0
  NUM_READERS,   \* slots
  Size,          \* length of the ring in words of 8 bytes
  MsgSizes,      \* sizes of messages in words
  Conflate,      \* what readers may set read_conflate to
  MaxMsgs,       \* bound on messages started
  MaxRestarts    \* bound on restarts of processes

ASSUME MsgqAssumption ==
  /\ NoReader \notin Readers /\ Conflate \subseteq BOOLEAN
  /\ NUM_READERS \in Nat \ {0} /\ MsgSizes \subseteq Nat \ {0}
  /\ MaxMsgs \in Nat /\ MaxRestarts \in Nat
  /\ Size \in Nat \ {0} /\ \A n \in MsgSizes : 3 * (n + 1) <= Size   \* the assert in msgq_msg_send

VARIABLES
  num_readers, write_pointer, read_pointers, read_valids, read_uids,
  data,          \* the ring
  pub,           \* the publisher's program counter and locals
  rd,            \* every reader's
  started,       \* messages started, which numbers them
  restarts,
  published, last, lost   \* history, as in MsgBus

shared == <<num_readers, write_pointer, read_pointers, read_valids, read_uids, data>>
history == <<published, last, lost>>
vars == <<shared, pub, rd, started, restarts, history>>

Slots == 0 .. NUM_READERS - 1
\* A pointer never gets so far that the tag of a wrap-around does not fit behind it.
Pointers == [cycles : 0 .. MaxMsgs, ptr : 0 .. Size - 1]
Start == [cycles |-> 0, ptr |-> 0]

\* A word of the ring: a size tag (part 0) or the part-th word of message id.
WrapTag == -1
Tag(n) == [id |-> 0, part |-> 0, n |-> n]
Word(m, k, n) == [id |-> m, part |-> k, n |-> n]
Words == [id : {0}, part : {0}, n : MsgSizes \union {0, WrapTag}]
           \union [id : 1 .. MaxMsgs, part : 1 .. Size, n : MsgSizes]

\* A reader that does not own a place in the ring: what is copied in got.
Torn == -1
NoMsg == 0

PubIdle == [pc |-> "idle", n |-> 0, i |-> 0, size |-> 0, wp |-> Start]
RdNew(c) == [pc |-> "subscribe", conflate |-> c, id |-> 0, rp |-> Start, wp |-> Start,
             size |-> 0, part |-> 1, got |-> NoMsg]

Init ==
  /\ num_readers = 0 /\ write_pointer = Start
  /\ read_pointers = [s \in Slots |-> Start]
  /\ read_valids = [s \in Slots |-> FALSE]
  /\ read_uids = [s \in Slots |-> NoReader]
  /\ data = [w \in 0 .. Size - 1 |-> Tag(0)]
  /\ pub = PubIdle
  /\ \E c \in [Readers -> Conflate] : rd = [r \in Readers |-> RdNew(c[r])]
  /\ started = 0 /\ restarts = 0
  /\ published = {}
  /\ last = [r \in Readers |-> 0]
  /\ lost = [r \in Readers |-> FALSE]

-----------------------------------------------------------------------------
(* The publisher: msgq_msg_send. *)

PubGoto(pc) == pub' = [pub EXCEPT !.pc = pc, !.i = 0]

\* Mutant: no room is left for the tag.
MustWrapTight(wp, n) == Size - wp - (n + 1) < 0

\* remaining_space: always leave room for the tag of the next wrap-around.
MustWrap(wp, n) == Size - wp - (n + 1) - 1 <= 0

Area(p) == p.wp.ptr .. p.wp.ptr + p.size     \* what the message will occupy

\* The readers the wrap-around leaves behind, and those in the area that will
\* be written.
Beyond(rp) == rp.ptr > pub.wp.ptr /\ rp.cycles # pub.wp.cycles
\* Mutant: only readers at the start of the area are in the way.
InAreaStart(rp) == rp.ptr = pub.wp.ptr /\ rp.cycles # pub.wp.cycles

InArea(rp) == rp.ptr \in Area(pub) /\ rp.cycles # pub.wp.cycles
InTheWay(rp) == IF pub.pc = "wrap_scan" THEN Beyond(rp) ELSE InArea(rp)

Send(n) ==
  /\ pub.pc = "idle" /\ started < MaxMsgs
  /\ started' = started + 1
  /\ pub' = [pc |-> IF MustWrap(write_pointer.ptr, n) THEN "tag" ELSE "scan",
             n |-> num_readers, i |-> 0, size |-> n, wp |-> write_pointer]
  /\ UNCHANGED <<shared, rd, restarts, history>>

WriteWrapTag ==
  /\ pub.pc = "tag"
  /\ data' = [data EXCEPT ![pub.wp.ptr] = Tag(WrapTag)]
  /\ PubGoto("wrap_scan")
  /\ UNCHANGED <<num_readers, write_pointer, read_pointers, read_valids, read_uids, rd,
                 started, restarts, history>>

Scanning == pub.pc \in {"wrap_scan", "scan"} /\ pub.i < pub.n

\* Readers with this slot that have loaded the write pointer for a reset and
\* not stored it: the scan looks at a pointer they are about to replace.
Overtaken == {r \in Readers : /\ rd[r].pc = "reset_store" /\ rd[r].id = pub.i
                              /\ InTheWay(rd[r].wp)}

LoadReadPointer ==
  /\ Scanning
  /\ lost' = [r \in Readers |-> lost[r] \/ r \in Overtaken]
  /\ pub' = IF InTheWay(read_pointers[pub.i])
            THEN [pub EXCEPT !.pc = IF @ = "scan" THEN "invalidate" ELSE "wrap_invalidate"]
            ELSE [pub EXCEPT !.i = @ + 1]
  /\ UNCHANGED <<shared, rd, started, restarts, published, last>>

Invalidate ==
  /\ pub.pc \in {"invalidate", "wrap_invalidate"}
  /\ read_valids' = [read_valids EXCEPT ![pub.i] = FALSE]
  /\ pub' = [pub EXCEPT !.i = @ + 1, !.pc = IF @ = "invalidate" THEN "scan" ELSE "wrap_scan"]
  /\ UNCHANGED <<num_readers, write_pointer, read_pointers, read_uids, data, rd, started,
                 restarts, history>>

WrapAround ==
  /\ pub.pc = "wrap_scan" /\ ~Scanning
  /\ write_pointer' = [cycles |-> pub.wp.cycles + 1, ptr |-> 0]
  /\ pub' = [pub EXCEPT !.pc = "scan", !.i = 0, !.wp = write_pointer']
  /\ UNCHANGED <<num_readers, read_pointers, read_valids, read_uids, data, rd, started,
                 restarts, history>>

WriteSize ==
  /\ pub.pc = "scan" /\ ~Scanning
  /\ data' = [data EXCEPT ![pub.wp.ptr] = Tag(pub.size)]
  /\ pub' = [pub EXCEPT !.pc = "copy", !.i = 1]
  /\ UNCHANGED <<num_readers, write_pointer, read_pointers, read_valids, read_uids, rd,
                 started, restarts, history>>

WriteWord ==
  /\ pub.pc = "copy" /\ pub.i <= pub.size
  /\ data' = [data EXCEPT ![pub.wp.ptr + pub.i] = Word(started, pub.i, pub.size)]
  /\ pub' = [pub EXCEPT !.i = @ + 1]
  /\ UNCHANGED <<num_readers, write_pointer, read_pointers, read_valids, read_uids, rd,
                 started, restarts, history>>

PublishMsg ==
  /\ pub.pc = "copy" /\ pub.i > pub.size
  /\ write_pointer' = [pub.wp EXCEPT !.ptr = @ + pub.size + 1]
  /\ published' = published \union {started}
  /\ pub' = PubIdle
  /\ UNCHANGED <<num_readers, read_pointers, read_valids, read_uids, data, rd, started,
                 restarts, last, lost>>

\* The publisher dies anywhere and starts again: msgq_init_publisher. No reader
\* keeps its slot.
RestartPublisher ==
  /\ restarts < MaxRestarts
  /\ restarts' = restarts + 1
  /\ pub' = [PubIdle EXCEPT !.pc = "init"]
  /\ UNCHANGED <<shared, rd, started, history>>

Everyone == [r \in Readers |-> TRUE]

ForgetReaders ==
  /\ pub.pc = "init"
  /\ num_readers' = 0
  /\ lost' = Everyone
  /\ PubGoto("init_valid")
  /\ UNCHANGED <<write_pointer, read_pointers, read_valids, read_uids, data, rd, started,
                 restarts, published, last>>

ForgetValid ==
  /\ pub.pc = "init_valid"
  /\ read_valids' = [read_valids EXCEPT ![pub.i] = FALSE]
  /\ pub' = [pub EXCEPT !.pc = "init_uid"]
  /\ UNCHANGED <<num_readers, write_pointer, read_pointers, read_uids, data, rd, started,
                 restarts, history>>

ForgetUid ==
  /\ pub.pc = "init_uid"
  /\ read_uids' = [read_uids EXCEPT ![pub.i] = NoReader]
  /\ pub' = IF pub.i = NUM_READERS - 1 THEN PubIdle
            ELSE [pub EXCEPT !.pc = "init_valid", !.i = @ + 1]
  /\ UNCHANGED <<num_readers, write_pointer, read_pointers, read_valids, data, rd, started,
                 restarts, history>>

PubStep ==
  \/ WriteWrapTag \/ LoadReadPointer \/ Invalidate \/ WrapAround
  \/ WriteSize \/ WriteWord \/ PublishMsg
  \/ ForgetReaders \/ ForgetValid \/ ForgetUid

-----------------------------------------------------------------------------
(* A reader: msgq_init_subscriber, msgq_reset_reader, msgq_msg_ready and      *)
(* msgq_msg_recv. Between calls pc is "idle", which is where recv starts;     *)
(* `goto start` goes to "start". msgq_msg_ready is recv as far as LoadWrite;   *)
(* a call of it leaves behind what recv has done by then.                     *)

Goto(r, pc) == rd' = [rd EXCEPT ![r].pc = pc]

\* Whoever stores into a slot disturbs the other processes that use it.
Disturbed(r) == [q \in Readers |-> lost[q] \/ (q # r /\ rd[q].id = rd[r].id)]

\* The process may die anywhere and be started again, with a new uid.
RestartReader(r) ==
  /\ restarts < MaxRestarts
  /\ restarts' = restarts + 1
  /\ \E c \in Conflate : rd' = [rd EXCEPT ![r] = RdNew(c)]
  /\ UNCHANGED <<shared, pub, started, history>>

\* The compare and swap that takes a slot. One that fails starts over, which is
\* the same as one step later.
TakeSlot(r) ==
  /\ rd[r].pc = "subscribe" /\ num_readers < NUM_READERS
  /\ num_readers' = num_readers + 1
  /\ rd' = [rd EXCEPT ![r].pc = "own_valid", ![r].id = num_readers]
  /\ UNCHANGED <<write_pointer, read_pointers, read_valids, read_uids, data, pub, started,
                 restarts, history>>

EvictAll(r) ==
  /\ rd[r].pc = "subscribe" /\ num_readers >= NUM_READERS
  /\ num_readers' = 0
  /\ lost' = Everyone
  /\ rd' = [rd EXCEPT ![r].pc = "evict_valid", ![r].id = 0]
  /\ UNCHANGED <<write_pointer, read_pointers, read_valids, read_uids, data, pub, started,
                 restarts, published, last>>

EvictValid(r) ==
  /\ rd[r].pc = "evict_valid"
  /\ read_valids' = [read_valids EXCEPT ![rd[r].id] = FALSE]
  /\ Goto(r, "evict_uid")
  /\ UNCHANGED <<num_readers, write_pointer, read_pointers, read_uids, data, pub, started,
                 restarts, history>>

EvictUid(r) ==
  /\ rd[r].pc = "evict_uid"
  /\ read_uids' = [read_uids EXCEPT ![rd[r].id] = NoReader]
  /\ lost' = Disturbed(r)
  /\ rd' = IF rd[r].id = NUM_READERS - 1 THEN [rd EXCEPT ![r] = RdNew(@.conflate)]
           ELSE [rd EXCEPT ![r].pc = "evict_valid", ![r].id = @ + 1]
  /\ UNCHANGED <<num_readers, write_pointer, read_pointers, read_valids, data, pub, started,
                 restarts, published, last>>

OwnValid(r) ==
  /\ rd[r].pc = "own_valid"
  /\ read_valids' = [read_valids EXCEPT ![rd[r].id] = FALSE]
  /\ Goto(r, "own_pointer")
  /\ UNCHANGED <<num_readers, write_pointer, read_pointers, read_uids, data, pub, started,
                 restarts, history>>

OwnPointer(r) ==
  /\ rd[r].pc = "own_pointer"
  /\ read_pointers' = [read_pointers EXCEPT ![rd[r].id] = Start]
  /\ lost' = Disturbed(r)
  /\ Goto(r, "own_uid")
  /\ UNCHANGED <<num_readers, write_pointer, read_valids, read_uids, data, pub, started,
                 restarts, published, last>>

OwnUid(r) ==
  /\ rd[r].pc = "own_uid"
  /\ read_uids' = [read_uids EXCEPT ![rd[r].id] = r]
  /\ lost' = Disturbed(r)
  /\ Goto(r, "reset")
  /\ UNCHANGED <<num_readers, write_pointer, read_pointers, read_valids, data, pub, started,
                 restarts, published, last>>

ResetValid(r) ==
  /\ rd[r].pc = "reset"
  /\ read_valids' = [read_valids EXCEPT ![rd[r].id] = TRUE]
  /\ lost' = Disturbed(r)
  /\ Goto(r, "reset_load")
  /\ UNCHANGED <<num_readers, write_pointer, read_pointers, read_uids, data, pub, started,
                 restarts, published, last>>

\* The publisher knows of this reader and no one else uses its slot.
Registered(r) == rd[r].id < num_readers /\ read_uids[rd[r].id] = r

Newest == IF published = {} THEN 0 ELSE CHOOSE m \in published : \A k \in published : k <= m

ResetLoad(r) ==
  /\ rd[r].pc = "reset_load"
  /\ rd' = [rd EXCEPT ![r].pc = "reset_store", ![r].wp = write_pointer]
  /\ IF Registered(r)
     THEN /\ lost' = [lost EXCEPT ![r] = FALSE]
          /\ last' = [last EXCEPT ![r] = Newest]
     ELSE UNCHANGED <<lost, last>>
  /\ UNCHANGED <<shared, pub, started, restarts, published>>

\* Mutant: the pointer stays where the subscription has put it.
ResetStoreNever(r) ==
  /\ rd[r].pc = "reset_store"
  /\ rd' = [rd EXCEPT ![r].pc = "start", ![r].wp = Start]
  /\ UNCHANGED <<shared, pub, started, restarts, history>>

ResetStore(r) ==
  /\ rd[r].pc = "reset_store"
  /\ read_pointers' = [read_pointers EXCEPT ![rd[r].id] = rd[r].wp]
  /\ lost' = Disturbed(r)
  /\ rd' = [rd EXCEPT ![r].pc = "start", ![r].wp = Start]
  /\ UNCHANGED <<num_readers, write_pointer, read_valids, read_uids, data, pub, started,
                 restarts, published, last>>

CheckUid(r) ==
  /\ rd[r].pc \in {"idle", "start"}
  /\ Goto(r, IF read_uids[rd[r].id] = r THEN "check_valid" ELSE "subscribe")
  /\ UNCHANGED <<shared, pub, started, restarts, history>>

CheckValid(r) ==
  /\ rd[r].pc = "check_valid"
  /\ Goto(r, IF read_valids[rd[r].id] THEN "load_read" ELSE "reset")
  /\ UNCHANGED <<shared, pub, started, restarts, history>>

LoadRead(r) ==
  /\ rd[r].pc = "load_read"
  /\ rd' = [rd EXCEPT ![r].pc = "load_write", ![r].rp = read_pointers[rd[r].id]]
  /\ UNCHANGED <<shared, pub, started, restarts, history>>

\* Nothing new: the cycles are not compared.
LoadWrite(r) ==
  /\ rd[r].pc = "load_write"
  /\ rd' = IF rd[r].rp.ptr = write_pointer.ptr
           THEN [rd EXCEPT ![r].pc = "idle", ![r].rp = Start]
           ELSE [rd EXCEPT ![r].pc = "load_size", ![r].wp = write_pointer]
  /\ UNCHANGED <<shared, pub, started, restarts, history>>

\* A word of a message taken for a size may be any number. The code's asserts
\* (0 < size < q->size) end the process for most; here it always ends, which is
\* the same for a reader with its footing: it never gets so far (SizeIsSize).
SizeAt(p) == IF data[p].part = 0 THEN data[p].n ELSE 0

LoadSize(r) ==
  /\ rd[r].pc = "load_size"
  /\ rd' = [rd EXCEPT ![r].pc = "check_size", ![r].size = SizeAt(rd[r].rp.ptr)]
  /\ UNCHANGED <<shared, pub, started, restarts, history>>

NextPointer(l) == [l.rp EXCEPT !.ptr = @ + 1 + l.size]

\* Mutant: the size is believed before the valid flag is looked at again.
AfterSizeUnchecked(r) ==
  LET l == rd[r] IN
  IF l.size = WrapTag THEN "wrap"
  ELSE IF l.size = 0 THEN "dead"
  ELSE IF l.conflate /\ NextPointer(l).ptr # l.wp.ptr THEN "skip"
  ELSE "copy"

\* After the size: reset, wrap around, die on garbage, skip or copy.
AfterSize(r) ==
  LET l == rd[r] IN
  IF ~read_valids[l.id] THEN "reset"
  ELSE IF l.size = WrapTag THEN "wrap"
  ELSE IF l.size = 0 THEN "dead"
  ELSE IF l.conflate /\ NextPointer(l).ptr # l.wp.ptr THEN "skip"
  ELSE "copy"

Cleared(l, pc) == [l EXCEPT !.pc = pc, !.rp = Start, !.wp = Start, !.size = 0, !.part = 1,
                            !.got = NoMsg]

CheckSize(r) ==
  /\ rd[r].pc = "check_size"
  /\ LET pc == AfterSize(r) IN
     rd' = [rd EXCEPT ![r] =
              IF pc \in {"reset", "dead"} THEN Cleared(@, pc)
              ELSE [@ EXCEPT !.pc = pc, !.wp = Start]]
  /\ UNCHANGED <<shared, pub, started, restarts, history>>

StoreRead(r, p, pc) ==
  /\ read_pointers' = [read_pointers EXCEPT ![rd[r].id] = p]
  /\ lost' = Disturbed(r)
  /\ rd' = [rd EXCEPT ![r] = IF pc = "start" THEN Cleared(@, pc) ELSE
                               [@ EXCEPT !.pc = pc, !.rp = Start, !.size = 0]]
  /\ UNCHANGED <<num_readers, write_pointer, read_valids, read_uids, data, pub, started,
                 restarts, published, last>>

\* Mutant: the pointer stays in front of the tag.
WrapReadNever(r) ==
  /\ rd[r].pc = "wrap"
  /\ StoreRead(r, rd[r].rp, "start")

WrapRead(r) ==
  /\ rd[r].pc = "wrap"
  /\ StoreRead(r, [cycles |-> rd[r].rp.cycles + 1, ptr |-> 0], "start")

SkipMsg(r) ==
  /\ rd[r].pc = "skip"
  /\ StoreRead(r, NextPointer(rd[r]), "start")

\* One word of the copy; part is the word that comes next.
Copy(r) ==
  /\ rd[r].pc = "copy"
  /\ LET k == rd[r].part
         w == data[rd[r].rp.ptr + k]
         m == IF w.part = k /\ w.n = rd[r].size /\ (k = 1 \/ w.id = rd[r].got)
              THEN w.id ELSE Torn
     IN  rd' = [rd EXCEPT ![r].got = m, ![r].part = k + 1,
                          ![r].pc = IF k = rd[r].size THEN "store" ELSE "copy"]
  /\ UNCHANGED <<shared, pub, started, restarts, history>>

StorePointer(r) ==
  /\ rd[r].pc = "store"
  /\ StoreRead(r, NextPointer(rd[r]), "check_copy")

CheckCopy(r) ==
  /\ rd[r].pc = "check_copy"
  /\ IF read_valids[rd[r].id]
     THEN /\ last' = [last EXCEPT ![r] = rd[r].got]
          /\ rd' = [rd EXCEPT ![r] = Cleared(@, "idle")]
     ELSE /\ rd' = [rd EXCEPT ![r] = Cleared(@, "reset")]
          /\ UNCHANGED last
  /\ UNCHANGED <<shared, pub, started, restarts, published, lost>>

RecvStep(r) ==
  \/ TakeSlot(r) \/ EvictAll(r) \/ EvictValid(r) \/ EvictUid(r)
  \/ OwnValid(r) \/ OwnPointer(r) \/ OwnUid(r)
  \/ ResetValid(r) \/ ResetLoad(r) \/ ResetStore(r)
  \/ CheckUid(r) \/ CheckValid(r) \/ LoadRead(r) \/ LoadWrite(r)
  \/ LoadSize(r) \/ CheckSize(r) \/ WrapRead(r) \/ SkipMsg(r)
  \/ Copy(r) \/ StorePointer(r) \/ CheckCopy(r)

-----------------------------------------------------------------------------
Next ==
  \/ \E n \in MsgSizes : Send(n)
  \/ PubStep
  \/ RestartPublisher
  \/ \E r \in Readers : RecvStep(r) \/ RestartReader(r)

\* A process that runs goes on; the publisher need not send.
Fairness == WF_vars(PubStep) /\ \A r \in Readers : WF_vars(RecvStep(r))

Spec == Init /\ [][Next]_vars /\ Fairness

-----------------------------------------------------------------------------
TypeOK ==
  /\ num_readers \in 0 .. NUM_READERS
  /\ write_pointer \in Pointers
  /\ read_pointers \in [Slots -> Pointers]
  /\ read_valids \in [Slots -> BOOLEAN]
  /\ read_uids \in [Slots -> Readers \union {NoReader}]
  /\ data \in [0 .. Size - 1 -> Words]
  /\ last \in [Readers -> Torn .. MaxMsgs]
  /\ \A r \in Readers : rd[r].id \in Slots

\* The queue keeps the bus's promise: while a reader has its footing it is
\* given published messages, whole and in order, however the publisher laps it,
\* and other readers come, go and evict each other.
Bus == INSTANCE MsgBus
ImplementsBus == Bus!Spec

\* A reader with its footing never reads a word of a message as a size, which
\* its assert would answer by ending the process.
SizeIsSize ==
  \A r \in Readers : rd[r].pc = "dead" => lost[r]

\* At the end of the queue: the pointers agree, cycles included, and the newest
\* message was given (or looked for: a reset starts behind it); or the reader is
\* exactly a lap behind, which recv takes for the end. It stays there until the
\* next message clears its flag.
AtEnd(r) ==
  LET rp == read_pointers[rd[r].id] IN
  /\ rd[r].pc = "idle" /\ rp.ptr = write_pointer.ptr
  /\ \/ rp.cycles = write_pointer.cycles /\ (last[r] = Newest \/ lost[r])
     \/ rp.cycles + 1 = write_pointer.cycles

\* Where a reader that keeps calling comes to rest. A reader that read a word of
\* a message as a size has died.
AtRest(r) == AtEnd(r) \/ rd[r].pc = "dead"
=============================================================================
