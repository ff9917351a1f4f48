----------------------------- MODULE MsgqProofs -----------------------------
(***************************************************************************)
(* Theorems about the message queue (Msgq), for every number of readers and  *)
(* slots, every size of the ring and of messages, any number of restarts.      *)
(*                                                                         *)
(* The argument: the ring holds the messages of the current lap, one behind   *)
(* the other from word 0 up to the write pointer, and from there on what is    *)
(* left of earlier laps.  A reader with its footing stands at the start of a    *)
(* message of either part, and all that is ahead of it is newer than what it    *)
(* was given; the publisher clears its valid flag before it writes over the     *)
(* message it stands at.                                                      *)
(***************************************************************************)
EXTENDS Msgq, TLAPS

W == write_pointer

\* Words p .. p + n are a published message with its tag.
Whole(p) ==
  /\ data[p].part = 0 /\ data[p].n \in MsgSizes /\ p + data[p].n < Size
  /\ \A k \in 1 .. data[p].n : data[p + k] = Word(data[p + 1].id, k, data[p].n)
  /\ data[p + 1].id \in published
IsWrapTag(p) == data[p] = Tag(WrapTag)
IdAt(p) == data[p + 1].id
After(p) == p + 1 + data[p].n

\* The starts of the messages of this lap, with the end of the last one.
Lap(C) ==
  /\ C \subseteq 0 .. W.ptr /\ 0 \in C /\ W.ptr \in C
  /\ \A p \in C \ {W.ptr} : Whole(p) /\ After(p) \in C
  /\ \A p, q \in C \ {W.ptr} : p < q => IdAt(p) < IdAt(q)

\* The starts of messages that are left of earlier laps, with the tags that
\* ended those laps. One of them may stand where the next message will go.
Tail(T) ==
  /\ T \subseteq W.ptr .. Size - 1
  /\ \A p \in T :
       \/ IsWrapTag(p)
       \/ /\ Whole(p) /\ After(p) \in T
          /\ IsWrapTag(After(p)) \/ IdAt(p) < IdAt(After(p))
Older(C, T) == \A p \in T, x \in C \ {W.ptr} : IsWrapTag(p) \/ IdAt(p) < IdAt(x)
Layout(C, T) == Lap(C) /\ Tail(T) /\ Older(C, T)

\* A word that a reader may take for a size keeps it inside the ring.
TagsFit == \A p \in 0 .. Size - 1 : SizeAt(p) \in MsgSizes => p + 1 + SizeAt(p) < Size

-----------------------------------------------------------------------------
(* The publisher. *)

WrapPcs == {"tag", "wrap_scan", "wrap_invalidate"}
AreaPcs == {"scan", "invalidate", "copy"}
InitPcs == {"init", "init_valid", "init_uid"}
PubPcs == {"idle"} \union InitPcs \union WrapPcs \union AreaPcs
Publisher ==
  [pc : PubPcs, n : 0 .. NUM_READERS, i : Nat, size : MsgSizes \union {0}, wp : Pointers]

Publishing ==
  /\ W.cycles <= started
  /\ pub.pc \in WrapPcs \union AreaPcs =>
       pub.size \in MsgSizes /\ pub.wp = W /\ started \notin published /\ started > 0
  /\ pub.pc \in WrapPcs => MustWrap(W.ptr, pub.size) /\ W.cycles < started
  /\ pub.pc \in AreaPcs => ~MustWrap(W.ptr, pub.size)
  /\ pub.pc \in {"invalidate", "wrap_invalidate"} => pub.i < pub.n
  /\ pub.pc \in {"wrap_scan", "wrap_invalidate"} => IsWrapTag(W.ptr)
  /\ pub.pc \in InitPcs => pub.i \in Slots
Copying ==
  pub.pc = "copy" =>
    /\ pub.i \in 1 .. pub.size + 1
    /\ data[W.ptr] = Tag(pub.size)
    /\ \A k \in 1 .. pub.i - 1 : data[W.ptr + k] = Word(started, k, pub.size)
NewestKnown == published = {} \/ \E m \in published : \A k \in published : k <= m

-----------------------------------------------------------------------------
(* Any reader. *)

SizedPcs == {"check_size", "wrap", "skip", "copy", "store"}
LookPcs == {"load_size"} \union SizedPcs
FreshPcs == {"reset_store", "start", "idle", "check_valid", "load_read", "load_write"}
ReadPcs == FreshPcs \union LookPcs \union {"check_copy"}
EvictPcs == {"subscribe", "evict_valid", "evict_uid"}
RdPcs == ReadPcs \union EvictPcs
           \union {"own_valid", "own_pointer", "own_uid", "reset", "reset_load", "dead"}
Local ==
  [pc : RdPcs, conflate : BOOLEAN, id : Slots, rp : Pointers, wp : Pointers,
   size : MsgSizes \union {0, WrapTag}, part : Nat, got : Torn .. MaxMsgs]

\* A pointer of this lap is the start of one of its messages, whoever stored it.
PtrOK(C, p) ==
  /\ p \in Pointers /\ p.cycles <= W.cycles
  /\ p.cycles = W.cycles => p.ptr \in C

LocalOK(C, l) ==
  /\ l \in Local
  /\ PtrOK(C, l.rp) /\ PtrOK(C, l.wp)
  /\ l.pc = "load_size" /\ l.rp.cycles = W.cycles => l.rp.ptr # W.ptr
  /\ l.pc \in SizedPcs =>
       /\ l.rp.cycles = W.cycles => l.size \in MsgSizes /\ NextPointer(l).ptr \in C
       /\ l.size \in MsgSizes => NextPointer(l).ptr < Size
  /\ l.pc \in {"skip", "copy", "store"} => l.size \in MsgSizes
  /\ l.pc = "wrap" => l.size = WrapTag
  /\ l.pc = "copy" => l.part \in 1 .. l.size /\ (l.part = 1 <=> l.got = NoMsg)
  /\ l.pc \notin {"copy", "store", "check_copy"} => l.got = NoMsg /\ l.part = 1
HistoryOK(r) ==
  /\ rd[r].pc = "dead" => lost[r]
  /\ ~lost[r] => last[r] \in published \union {0}
  /\ ~lost[r] /\ rd[r].pc \notin EvictPcs => rd[r].id < num_readers

-----------------------------------------------------------------------------
(* A reader with its footing. *)

Footed(r) ==
  /\ ~lost[r] /\ rd[r].pc \in ReadPcs
  /\ rd[r].pc \in {"reset_store", "start", "idle"} => read_uids[rd[r].id] = r

\* All messages from word p on, in the order a reader comes to them, are newer
\* than message a.
CurAhead(C, a, p) == p \in C /\ \A x \in C \ {W.ptr} : p <= x => a < IdAt(x)
TailAhead(C, T, a, p) ==
  /\ p \in T /\ (IsWrapTag(p) \/ a < IdAt(p))
  /\ \A x \in C \ {W.ptr} : a < IdAt(x)
At(C, T, a, p) ==
  \/ CurAhead(C, a, p.ptr)
  \/ p.cycles # W.cycles /\ TailAhead(C, T, a, p.ptr)
Inside(C, T, a, p) ==
  \/ CurAhead(C, a, p.ptr) /\ p.ptr # W.ptr
  \/ p.cycles # W.cycles /\ TailAhead(C, T, a, p.ptr)

\* The pointer that is in the slot, or about to be; the newest message given, or
\* about to be.
SlotPtr(l, p) == IF l.pc = "reset_store" THEN l.wp ELSE p
Given(l, a) == IF l.pc = "check_copy" THEN l.got ELSE a

\* The reader has seen the size of message m and will find the whole of it.
Sees(C, T, l, a, m) ==
  /\ l.size \in MsgSizes
  /\ m \in published /\ a < m
  /\ \A k \in 1 .. l.size : data[l.rp.ptr + k] = Word(m, k, l.size)
  /\ At(C, T, m, NextPointer(l))
  /\ l.rp.ptr < W.ptr => NextPointer(l).ptr <= W.ptr
  /\ l.pc = "copy" => l.got \in {NoMsg, m}
  /\ l.pc = "store" => l.got = m
SeesWrap(C, T, l, a) ==
  /\ l.size = WrapTag /\ l.rp.cycles # W.cycles /\ l.rp.ptr \in T
  /\ \A x \in C \ {W.ptr} : a < IdAt(x)
Sighted(C, T, l, a, p) ==
  /\ At(C, T, Given(l, a), SlotPtr(l, p))
  /\ l.pc \in LookPcs => Inside(C, T, a, p)
  /\ l.pc \in SizedPcs => SeesWrap(C, T, l, a) \/ \E m \in published : Sees(C, T, l, a, m)
  /\ l.pc = "check_copy" => l.got \in published /\ a < l.got

\* Once the publisher has looked at a slot, or will not, its reader is not at
\* anything old in the area.
Scanned(s) == pub.pc \in {"scan", "invalidate"} /\ (s < pub.i \/ s >= pub.n)
TailFor(T, s) == IF Scanned(s) THEN T \ Area(pub) ELSE T
\* A reader that came after the publisher counted them has nothing to read.
Late(l, p) ==
  pub.pc \in WrapPcs /\ l.id >= pub.n => l.pc \in FreshPcs /\ SlotPtr(l, p) = W

Footing(C, T, r) ==
  Footed(r) =>
    LET l == rd[r]
        p == read_pointers[l.id]
    IN  /\ l.pc \in {"load_write"} \union LookPcs => l.rp = p
        /\ read_valids[l.id] => Sighted(C, TailFor(T, l.id), l, last[r], p) /\ Late(l, p)

-----------------------------------------------------------------------------
(* The inductive invariant. *)

Types ==
  /\ TypeOK
  /\ rd \in [Readers -> Local] /\ pub \in Publisher
  /\ lost \in [Readers -> BOOLEAN]
  /\ started \in 0 .. MaxMsgs /\ published \subseteq 1 .. started
ReadersOK(C, T) ==
  /\ \A s \in Slots : PtrOK(C, read_pointers[s])
  /\ \A r \in Readers : LocalOK(C, rd[r]) /\ HistoryOK(r) /\ Footing(C, T, r)
Ring(C, T) ==
  /\ Layout(C, T)
  /\ pub.pc = "copy" => T \intersect Area(pub) = {}
  /\ ReadersOK(C, T)
InvFor(C, T) ==
  /\ Types /\ TagsFit /\ Publishing /\ Copying /\ NewestKnown
  /\ Ring(C, T)
MsgqInv == \E C, T \in SUBSET (0 .. Size - 1) : InvFor(C, T)

LEMMA Sizing ==
  /\ MsgSizes \subseteq Nat \ {0} /\ Size \in Nat /\ Size > 0
  /\ \A n \in MsgSizes : 3 * (n + 1) <= Size
  /\ NUM_READERS \in Nat /\ NUM_READERS > 0 /\ MaxMsgs \in Nat
  /\ Conflate \subseteq BOOLEAN /\ NoReader \notin Readers
  /\ WrapTag = -1 /\ WrapTag \notin MsgSizes /\ 0 \notin MsgSizes
  /\ \A n \in MsgSizes : n \in Nat /\ n > 0
BY MsgqAssumption DEF WrapTag

LEMMA InitInv == Init => MsgqInv
<1> SUFFICES ASSUME Init PROVE MsgqInv
  OBVIOUS
<1> USE Sizing
<1>1. Start \in Pointers /\ PtrOK({0}, Start)
  BY DEF Init, Start, Pointers, PtrOK, W
<1>2. \A n \in {0} : Tag(n) \in Words
  BY DEF Tag, Words
<1>3. TypeOK
  BY <1>1, <1>2 DEF Init, TypeOK, RdNew, Slots, Torn
<1>4. \A r \in Readers : rd[r].pc = "subscribe" /\ LocalOK({0}, rd[r])
  BY <1>1 DEF Init, RdNew, LocalOK, Local, RdPcs, EvictPcs, Slots, Torn, NoMsg, SizedPcs
<1>5. rd \in [Readers -> Local]
  BY <1>4 DEF Init, LocalOK
<1>6. Types
  BY <1>1, <1>3, <1>5 DEF Init, Types, Publisher, PubIdle, PubPcs
<1>7. TagsFit /\ Publishing /\ Copying /\ NewestKnown
  BY DEF Init, TagsFit, SizeAt, Tag, Publishing, W, Start, PubIdle, WrapPcs, AreaPcs,
         InitPcs, Copying, NewestKnown
<1>8. Layout({0}, {})
  BY DEF Init, W, Start, Layout, Lap, Tail, Older
<1>9. \A r \in Readers : HistoryOK(r) /\ ~Footed(r)
  BY <1>4 DEF Init, HistoryOK, EvictPcs, Footed, ReadPcs, FreshPcs, LookPcs, SizedPcs
<1>10. Ring({0}, {})
  BY <1>1, <1>4, <1>8, <1>9 DEF Init, PubIdle, Ring, ReadersOK, Footing
<1>11. {0} \in SUBSET (0 .. Size - 1) /\ {} \in SUBSET (0 .. Size - 1)
  OBVIOUS
<1> QED BY <1>6, <1>7, <1>10, <1>11 DEF MsgqInv, InvFor

-----------------------------------------------------------------------------
(* What a step keeps that leaves the ring alone, or also the publisher. *)

LEMMA SameLayout ==
  ASSUME UNCHANGED <<write_pointer, data, published>>,
         NEW C, NEW T, Layout(C, T)
  PROVE  Layout(C, T)'
BY DEF Layout, Lap, Tail, Older, Whole, After, IdAt, IsWrapTag, W

LEMMA SamePtr ==
  ASSUME UNCHANGED write_pointer, NEW C, NEW p, PtrOK(C, p)
  PROVE  PtrOK(C, p)'
BY DEF PtrOK, W

LEMMA SameLocal ==
  ASSUME UNCHANGED write_pointer, NEW C, NEW l, LocalOK(C, l)
  PROVE  LocalOK(C, l)'
BY DEF LocalOK, PtrOK, W

LEMMA SameSight ==
  ASSUME UNCHANGED <<write_pointer, data, published>>,
         NEW C, NEW T, NEW l, NEW a, NEW p, Sighted(C, T, l, a, p)
  PROVE  Sighted(C, T, l, a, p)'
BY DEF Sighted, At, Inside, CurAhead, TailAhead, Sees, SeesWrap, IdAt, IsWrapTag, W

LEMMA SameScan ==
  ASSUME UNCHANGED pub, NEW T, NEW s
  PROVE  TailFor(T, s)' = TailFor(T, s)
BY DEF TailFor, Scanned, Area

LEMMA SameLate ==
  ASSUME UNCHANGED <<pub, write_pointer>>, NEW l, NEW p, Late(l, p)
  PROVE  Late(l, p)'
BY DEF Late, W

LEMMA SamePublisher ==
  ASSUME UNCHANGED <<write_pointer, data, pub, started, published>>,
         TagsFit, Publishing, Copying, NewestKnown
  PROVE  TagsFit' /\ Publishing' /\ Copying' /\ NewestKnown'
<1>1. TagsFit'
  BY DEF TagsFit, SizeAt
<1>2. Publishing'
  BY DEF Publishing, IsWrapTag, W
<1>3. Copying'
  BY DEF Copying, W
<1> QED BY <1>1, <1>2, <1>3 DEF NewestKnown

\* What another process may do to reader q without taking its footing.
Undisturbed(q) ==
  /\ num_readers <= num_readers'
  /\ LET s == rd[q].id IN
       /\ read_pointers'[s] = read_pointers[s]
       /\ read_valids'[s] => read_valids[s]
       /\ read_uids'[s] = q => read_uids[s] = q
Bystander(q) ==
  /\ rd'[q] = rd[q] /\ last'[q] = last[q]
  /\ lost[q] => lost'[q]
  /\ lost'[q] \/ Undisturbed(q)

LEMMA BystanderKeeps ==
  ASSUME UNCHANGED <<write_pointer, data, pub, published>>,
         NEW C, NEW T, NEW q \in Readers, Bystander(q),
         rd[q].id \in Slots, num_readers \in Nat, num_readers' \in Nat,
         lost \in [Readers -> BOOLEAN], lost' \in [Readers -> BOOLEAN],
         HistoryOK(q), Footing(C, T, q)
  PROVE  HistoryOK(q)' /\ Footing(C, T, q)'
<1>1. rd[q].id \in Nat
  BY Sizing DEF Slots
<1>2. HistoryOK(q)'
  BY <1>1 DEF HistoryOK, Bystander, Undisturbed
<1>3. ASSUME Footed(q)'
      PROVE  /\ Footed(q) /\ Undisturbed(q)
  BY <1>3 DEF Footed, Bystander, Undisturbed
<1>4. ASSUME Footed(q)', read_valids'[rd[q].id]
      PROVE  /\ Sighted(C, TailFor(T, rd[q].id), rd[q], last[q], read_pointers[rd[q].id])'
             /\ Late(rd[q], read_pointers[rd[q].id])'
  <2>1. read_valids[rd[q].id] /\ read_pointers'[rd[q].id] = read_pointers[rd[q].id]
    BY <1>3, <1>4 DEF Undisturbed
  <2>2. /\ Sighted(C, TailFor(T, rd[q].id), rd[q], last[q], read_pointers[rd[q].id])
        /\ Late(rd[q], read_pointers[rd[q].id])
    BY <1>3, <1>4, <2>1 DEF Footing
  <2>3. TailFor(T, rd[q].id)' = TailFor(T, rd[q].id)
    BY SameScan DEF Bystander
  <2> QED BY <2>1, <2>2, <2>3, SameSight, SameLate DEF Bystander
<1>5. Footing(C, T, q)'
  <2> SUFFICES ASSUME Footed(q)' PROVE Footing(C, T, q)'
    BY DEF Footing
  <2>1. rd'[q].pc \in {"load_write"} \union LookPcs => rd'[q].rp = read_pointers'[rd'[q].id]
    BY <1>3 DEF Footing, Bystander, Undisturbed
  <2>2. rd'[q] = rd[q]
    BY DEF Bystander
  <2> QED BY <1>4, <2>1, <2>2 DEF Footing
<1> QED BY <1>2, <1>5

-----------------------------------------------------------------------------
(* The steps of a reader. *)

LEMMA ReaderStep ==
  ASSUME NEW C, NEW T, InvFor(C, T), NEW r \in Readers,
         UNCHANGED <<write_pointer, data, pub, started, published>>,
         NEW l, rd' = [rd EXCEPT ![r] = l], LocalOK(C, l),
         num_readers' \in 0 .. NUM_READERS,
         read_pointers' \in [Slots -> Pointers],
         \A s \in Slots : PtrOK(C, read_pointers'[s]),
         read_valids' \in [Slots -> BOOLEAN],
         read_uids' \in [Slots -> Readers \union {NoReader}],
         last' \in [Readers -> Torn .. MaxMsgs],
         lost' \in [Readers -> BOOLEAN],
         \A q \in Readers \ {r} :
           /\ last'[q] = last[q]
           /\ lost[q] => lost'[q]
           /\ lost'[q] \/ Undisturbed(q),
         HistoryOK(r)', Footing(C, T, r)'
  PROVE  InvFor(C, T)'
<1>1. Types /\ Ring(C, T)
  BY DEF InvFor
<1>2. l \in Local
  BY DEF LocalOK
<1>3. rd' \in [Readers -> Local] /\ rd'[r] = l /\ \A q \in Readers \ {r} : rd'[q] = rd[q]
  BY <1>1, <1>2 DEF Types
<1>4. \A q \in Readers : rd'[q].id \in Slots
  BY <1>3 DEF Local
<1>5. Types'
  BY <1>1, <1>3, <1>4 DEF Types, TypeOK
<1>6. Layout(C, T)' /\ (pub.pc = "copy" => T \intersect Area(pub) = {})'
  BY <1>1, SameLayout DEF Ring
<1>7. \A s \in Slots : PtrOK(C, read_pointers[s])'
  BY DEF PtrOK, W
<1>8. ASSUME NEW q \in Readers
      PROVE  LocalOK(C, rd[q])'
  BY <1>1, <1>3, SameLocal DEF Ring, ReadersOK
<1>9. ASSUME NEW q \in Readers
      PROVE  HistoryOK(q)' /\ Footing(C, T, q)'
  <2>1. CASE q = r
    BY <2>1
  <2>2. CASE q # r
    <3>1. HistoryOK(q) /\ Footing(C, T, q)
      BY <1>1 DEF Ring, ReadersOK
    <3>2. Bystander(q)
      BY <1>3, <2>2 DEF Bystander
    <3>3. rd[q].id \in Slots /\ num_readers \in Nat /\ num_readers' \in Nat
          /\ lost \in [Readers -> BOOLEAN]
      BY <1>1, Sizing DEF Types, TypeOK
    <3> QED BY <3>1, <3>2, <3>3, BystanderKeeps
  <2> QED BY <2>1, <2>2
<1>10. Ring(C, T)'
  BY <1>6, <1>7, <1>8, <1>9 DEF Ring, ReadersOK
<1>11. TagsFit' /\ Publishing' /\ Copying' /\ NewestKnown'
  BY SamePublisher DEF InvFor
<1> QED BY <1>5, <1>10, <1>11 DEF InvFor

\* What the invariant says of reader r and of all it uses.
Known(C, T, r) ==
  /\ num_readers \in 0 .. NUM_READERS /\ W \in Pointers /\ 0 \in C
  /\ read_pointers \in [Slots -> Pointers]
  /\ \A s \in Slots : PtrOK(C, read_pointers[s])
  /\ read_valids \in [Slots -> BOOLEAN]
  /\ read_uids \in [Slots -> Readers \union {NoReader}]
  /\ last \in [Readers -> Torn .. MaxMsgs]
  /\ lost \in [Readers -> BOOLEAN]
  /\ rd \in [Readers -> Local] /\ rd[r] \in Local /\ rd[r].id \in Slots
  /\ LocalOK(C, rd[r]) /\ PtrOK(C, rd[r].rp) /\ PtrOK(C, rd[r].wp)
  /\ rd[r].pc \notin {"copy", "store", "check_copy"} => rd[r].got = NoMsg /\ rd[r].part = 1
  /\ HistoryOK(r) /\ Footing(C, T, r)
  /\ PtrOK(C, Start) /\ PtrOK(C, W) /\ Start \in Pointers /\ 0 \in Slots

LEMMA ReaderKnown ==
  ASSUME NEW C, NEW T, InvFor(C, T), NEW r \in Readers
  PROVE  Known(C, T, r)
<1>1. Types /\ Ring(C, T)
  BY DEF InvFor
<1>2. W \in Pointers /\ 0 \in C /\ W.ptr \in C
  BY <1>1 DEF Types, TypeOK, W, Ring, Layout, Lap
<1>3. PtrOK(C, Start) /\ PtrOK(C, W) /\ Start \in Pointers /\ 0 \in Slots
  BY <1>2, Sizing DEF PtrOK, Start, Pointers, Slots
<1>4. LocalOK(C, rd[r]) /\ HistoryOK(r) /\ Footing(C, T, r)
  BY <1>1 DEF Ring, ReadersOK
<1> QED BY <1>1, <1>2, <1>3, <1>4 DEF Known, Types, TypeOK, Ring, ReadersOK, W, LocalOK

\* A step that leaves the shared memory and the other readers alone.
LEMMA OthersKeep ==
  ASSUME UNCHANGED <<num_readers, read_pointers, read_valids, read_uids>>, num_readers \in Nat,
         NEW q
  PROVE  Undisturbed(q)
BY DEF Undisturbed

LEMMA DisturbedType ==
  ASSUME NEW r \in Readers, lost \in [Readers -> BOOLEAN], lost' = Disturbed(r)
  PROVE  /\ lost' \in [Readers -> BOOLEAN] /\ lost'[r] = lost[r]
         /\ \A q \in Readers \ {r} :
              /\ lost[q] => lost'[q]
              /\ ~lost'[q] => rd[q].id # rd[r].id
BY DEF Disturbed

\* Steps on the way to a slot and to its reset: nothing is known of the place in
\* the ring yet.
OutsidePcs == RdPcs \ ReadPcs

LEMMA OutsideLocal ==
  ASSUME NEW C, NEW l, l \in Local, PtrOK(C, l.rp), PtrOK(C, l.wp), l.got = NoMsg, l.part = 1,
         l.pc \notin LookPcs
  PROVE  LocalOK(C, l)
BY DEF LocalOK, LookPcs, SizedPcs

LEMMA OutsideFooting ==
  ASSUME NEW C, NEW T, NEW r, rd'[r].pc \in OutsidePcs
  PROVE  Footing(C, T, r)'
BY DEF Footing, Footed, OutsidePcs

LEMMA NewLocal ==
  ASSUME NEW c \in BOOLEAN, Start \in Pointers, 0 \in Slots
  PROVE  /\ RdNew(c) \in Local /\ RdNew(c).pc = "subscribe"
         /\ RdNew(c).rp = Start /\ RdNew(c).wp = Start /\ RdNew(c).got = NoMsg /\ RdNew(c).part = 1
BY Sizing DEF RdNew, Local, RdPcs, EvictPcs, NoMsg, Torn

LEMMA OutsideStep ==
  ASSUME NEW C, NEW T, InvFor(C, T), NEW r \in Readers,
         UNCHANGED <<write_pointer, data, pub, started, published, last>>,
         NEW l \in Local, rd' = [rd EXCEPT ![r] = l],
         PtrOK(C, l.rp), PtrOK(C, l.wp), l.got = NoMsg, l.part = 1, l.pc \in OutsidePcs \ {"dead"},
         num_readers' \in 0 .. NUM_READERS,
         read_pointers' \in [Slots -> Pointers],
         \A s \in Slots : PtrOK(C, read_pointers'[s]),
         read_valids' \in [Slots -> BOOLEAN],
         read_uids' \in [Slots -> Readers \union {NoReader}],
         lost' \in [Readers -> BOOLEAN],
         \A q \in Readers \ {r} :
           /\ lost[q] => lost'[q]
           /\ lost'[q] \/ Undisturbed(q),
         ~lost'[r] => ~lost[r] /\ (l.pc \in EvictPcs \/ l.id < num_readers')
  PROVE  InvFor(C, T)'
<1>k. Known(C, T, r)
  BY ReaderKnown
<1>1. rd'[r] = l
  BY <1>k DEF Known
<1>2. LocalOK(C, l)
  BY OutsideLocal DEF OutsidePcs, ReadPcs
<1>3. HistoryOK(r)'
  BY <1>k, <1>1 DEF Known, HistoryOK
<1>4. Footing(C, T, r)'
  BY <1>1, OutsideFooting
<1>5. last' \in [Readers -> Torn .. MaxMsgs] /\ \A q \in Readers : last'[q] = last[q]
  BY <1>k DEF Known
<1> QED BY <1>2, <1>3, <1>4, <1>5, ReaderStep

LEMMA TakeSlotStep ==
  ASSUME NEW C, NEW T, InvFor(C, T), NEW r \in Readers, TakeSlot(r)
  PROVE  InvFor(C, T)'
<1> DEFINE l == [rd[r] EXCEPT !.pc = "own_valid", !.id = num_readers]
<1>k. Known(C, T, r)
  BY ReaderKnown
<1>1. /\ num_readers \in Slots /\ num_readers' = num_readers + 1
      /\ num_readers' \in 0 .. NUM_READERS
  BY <1>k, Sizing DEF Known, TakeSlot, Slots
<1>2. rd' = [rd EXCEPT ![r] = l]
  BY <1>k DEF Known, TakeSlot
<1>3. /\ l \in Local /\ l.rp = rd[r].rp /\ l.wp = rd[r].wp /\ l.got = NoMsg /\ l.part = 1
      /\ l.pc = "own_valid" /\ l.id = num_readers
  BY <1>k, <1>1 DEF Known, Local, RdPcs, TakeSlot
<1> HIDE DEF l
<1>4. l.pc \in OutsidePcs \ {"dead"} /\ l.id < num_readers'
  BY <1>1, <1>3, Sizing DEF OutsidePcs, RdPcs, ReadPcs, FreshPcs, LookPcs, SizedPcs, Slots
<1>5. \A q \in Readers : Undisturbed(q)
  BY <1>k, <1>1, Sizing DEF Known, Undisturbed, TakeSlot
<1>6. UNCHANGED <<write_pointer, data, pub, started, published, last, lost, read_pointers,
                  read_valids, read_uids>>
  BY DEF TakeSlot, history
<1> QED BY <1>k, <1>1, <1>2, <1>3, <1>4, <1>5, <1>6, OutsideStep DEF Known

LEMMA EvictAllStep ==
  ASSUME NEW C, NEW T, InvFor(C, T), NEW r \in Readers, EvictAll(r)
  PROVE  InvFor(C, T)'
<1> DEFINE l == [rd[r] EXCEPT !.pc = "evict_valid", !.id = 0]
<1>k. Known(C, T, r)
  BY ReaderKnown
<1>1. rd' = [rd EXCEPT ![r] = l]
  BY <1>k DEF Known, EvictAll
<1>2. /\ l \in Local /\ l.rp = rd[r].rp /\ l.wp = rd[r].wp
      /\ l.got = NoMsg /\ l.part = 1 /\ l.pc = "evict_valid"
  BY <1>k DEF Known, Local, RdPcs, EvictPcs, EvictAll
<1> HIDE DEF l
<1>3. l.pc \in OutsidePcs \ {"dead"}
  BY <1>2 DEF OutsidePcs, RdPcs, EvictPcs, ReadPcs, FreshPcs, LookPcs, SizedPcs
<1>4. lost' \in [Readers -> BOOLEAN] /\ \A q \in Readers : lost'[q]
  BY DEF EvictAll, Everyone
<1>5. num_readers' \in 0 .. NUM_READERS
  BY Sizing DEF EvictAll
<1>6. UNCHANGED <<write_pointer, data, pub, started, published, last, read_pointers,
                  read_valids, read_uids>>
  BY DEF EvictAll
<1> QED BY <1>k, <1>1, <1>2, <1>3, <1>4, <1>5, <1>6, OutsideStep DEF Known

LEMMA EvictValidStep ==
  ASSUME NEW C, NEW T, InvFor(C, T), NEW r \in Readers, EvictValid(r)
  PROVE  InvFor(C, T)'
<1> DEFINE l == [rd[r] EXCEPT !.pc = "evict_uid"]
<1>k. Known(C, T, r)
  BY ReaderKnown
<1>1. rd' = [rd EXCEPT ![r] = l]
  BY <1>k DEF Known, EvictValid, Goto
<1>2. /\ l \in Local /\ l.rp = rd[r].rp /\ l.wp = rd[r].wp
      /\ l.got = NoMsg /\ l.part = 1 /\ l.pc = "evict_uid"
  BY <1>k DEF Known, Local, RdPcs, EvictPcs, EvictValid
<1> HIDE DEF l
<1>3. l.pc \in OutsidePcs \ {"dead"} /\ l.pc \in EvictPcs
  BY <1>2 DEF OutsidePcs, RdPcs, EvictPcs, ReadPcs, FreshPcs, LookPcs, SizedPcs
<1>4. \A q \in Readers : Undisturbed(q)
  BY <1>k, Sizing DEF Known, Undisturbed, EvictValid
<1>5. read_valids' \in [Slots -> BOOLEAN]
  BY <1>k DEF Known, EvictValid
<1> QED BY <1>k, <1>1, <1>2, <1>3, <1>4, <1>5, OutsideStep DEF Known, EvictValid, history

LEMMA EvictUidStep ==
  ASSUME NEW C, NEW T, InvFor(C, T), NEW r \in Readers, EvictUid(r)
  PROVE  InvFor(C, T)'
<1> DEFINE l == IF rd[r].id = NUM_READERS - 1 THEN RdNew(rd[r].conflate)
                ELSE [rd[r] EXCEPT !.pc = "evict_valid", !.id = @ + 1]
<1>k. Known(C, T, r)
  BY ReaderKnown
<1>1. rd' = [rd EXCEPT ![r] = l]
  BY <1>k DEF Known, EvictUid
<1>2. /\ l \in Local /\ PtrOK(C, l.rp) /\ PtrOK(C, l.wp)
      /\ l.got = NoMsg /\ l.part = 1 /\ l.pc \in {"subscribe", "evict_valid"}
  <2>1. CASE rd[r].id = NUM_READERS - 1
    <3>1. l = RdNew(rd[r].conflate)
      BY <2>1
    <3>2. rd[r].conflate \in BOOLEAN
      BY <1>k DEF Known, Local
    <3>3. RdNew(rd[r].conflate) \in Local
      BY <1>k, <3>2, NewLocal DEF Known
    <3> QED BY <1>k, <3>1, <3>3 DEF Known, RdNew
  <2>2. CASE rd[r].id # NUM_READERS - 1
    <3>1. rd[r].id + 1 \in Slots
      BY <1>k, <2>2, Sizing DEF Known, Slots
    <3> QED BY <1>k, <2>2, <3>1 DEF Known, Local, RdPcs, EvictPcs, EvictUid
  <2> QED BY <2>1, <2>2
<1> HIDE DEF l
<1>3. l.pc \in OutsidePcs \ {"dead"} /\ l.pc \in EvictPcs
  BY <1>2 DEF OutsidePcs, RdPcs, EvictPcs, ReadPcs, FreshPcs, LookPcs, SizedPcs
<1>4. /\ lost' \in [Readers -> BOOLEAN] /\ lost'[r] = lost[r]
      /\ \A q \in Readers \ {r} :
           /\ lost[q] => lost'[q]
           /\ ~lost'[q] => rd[q].id # rd[r].id
  BY <1>k, DisturbedType DEF Known, EvictUid
<1>5. \A q \in Readers \ {r} : lost'[q] \/ Undisturbed(q)
  BY <1>k, <1>4, Sizing DEF Known, Undisturbed, EvictUid
<1>6. read_uids' \in [Slots -> Readers \union {NoReader}]
  BY <1>k DEF Known, EvictUid
<1> QED BY <1>k, <1>1, <1>2, <1>3, <1>4, <1>5, <1>6, OutsideStep DEF Known, EvictUid

LEMMA OwnValidStep ==
  ASSUME NEW C, NEW T, InvFor(C, T), NEW r \in Readers, OwnValid(r)
  PROVE  InvFor(C, T)'
<1> DEFINE l == [rd[r] EXCEPT !.pc = "own_pointer"]
<1>k. Known(C, T, r)
  BY ReaderKnown
<1>1. rd' = [rd EXCEPT ![r] = l] /\ rd[r].pc = "own_valid"
  BY <1>k DEF Known, OwnValid, Goto
<1>2. /\ l \in Local /\ l.rp = rd[r].rp /\ l.wp = rd[r].wp /\ l.got = NoMsg /\ l.part = 1
      /\ l.pc = "own_pointer" /\ l.id = rd[r].id
  BY <1>k, <1>1 DEF Known, Local, RdPcs
<1> HIDE DEF l
<1>3. l.pc \in OutsidePcs \ {"dead"} /\ (~lost[r] => l.id < num_readers)
  BY <1>k, <1>1, <1>2
     DEF Known, HistoryOK, OutsidePcs, RdPcs, EvictPcs, ReadPcs, FreshPcs, LookPcs, SizedPcs
<1>4. lost' = lost
  BY DEF OwnValid, history
<1>5. \A q \in Readers : Undisturbed(q)
  BY <1>k, Sizing DEF Known, Undisturbed, OwnValid
<1>6. read_valids' \in [Slots -> BOOLEAN]
  BY <1>k DEF Known, OwnValid
<1> QED BY <1>k, <1>1, <1>2, <1>3, <1>4, <1>5, <1>6, OutsideStep DEF Known, OwnValid, history

LEMMA OwnPointerStep ==
  ASSUME NEW C, NEW T, InvFor(C, T), NEW r \in Readers, OwnPointer(r)
  PROVE  InvFor(C, T)'
<1> DEFINE l == [rd[r] EXCEPT !.pc = "own_uid"]
<1>k. Known(C, T, r)
  BY ReaderKnown
<1>1. rd' = [rd EXCEPT ![r] = l] /\ rd[r].pc = "own_pointer"
  BY <1>k DEF Known, OwnPointer, Goto
<1>2. /\ l \in Local /\ l.rp = rd[r].rp /\ l.wp = rd[r].wp /\ l.got = NoMsg /\ l.part = 1
      /\ l.pc = "own_uid" /\ l.id = rd[r].id
  BY <1>k, <1>1 DEF Known, Local, RdPcs
<1> HIDE DEF l
<1>3. l.pc \in OutsidePcs \ {"dead"} /\ (~lost[r] => l.id < num_readers)
  BY <1>k, <1>1, <1>2
     DEF Known, HistoryOK, OutsidePcs, RdPcs, EvictPcs, ReadPcs, FreshPcs, LookPcs, SizedPcs
<1>4. /\ lost' \in [Readers -> BOOLEAN] /\ lost'[r] = lost[r]
      /\ \A q \in Readers \ {r} :
           /\ lost[q] => lost'[q]
           /\ ~lost'[q] => rd[q].id # rd[r].id
  BY <1>k, DisturbedType DEF Known, OwnPointer
<1>5. \A q \in Readers \ {r} : lost'[q] \/ Undisturbed(q)
  BY <1>k, <1>4, Sizing DEF Known, Undisturbed, OwnPointer
<1>6. /\ read_pointers' \in [Slots -> Pointers]
      /\ \A s \in Slots : PtrOK(C, read_pointers'[s])
  BY <1>k DEF Known, OwnPointer, PtrOK
<1> QED BY <1>k, <1>1, <1>2, <1>3, <1>4, <1>5, <1>6, OutsideStep DEF Known, OwnPointer

LEMMA OwnUidStep ==
  ASSUME NEW C, NEW T, InvFor(C, T), NEW r \in Readers, OwnUid(r)
  PROVE  InvFor(C, T)'
<1> DEFINE l == [rd[r] EXCEPT !.pc = "reset"]
<1>k. Known(C, T, r)
  BY ReaderKnown
<1>1. rd' = [rd EXCEPT ![r] = l] /\ rd[r].pc = "own_uid"
  BY <1>k DEF Known, OwnUid, Goto
<1>2. /\ l \in Local /\ l.rp = rd[r].rp /\ l.wp = rd[r].wp /\ l.got = NoMsg /\ l.part = 1
      /\ l.pc = "reset" /\ l.id = rd[r].id
  BY <1>k, <1>1 DEF Known, Local, RdPcs
<1> HIDE DEF l
<1>3. l.pc \in OutsidePcs \ {"dead"} /\ (~lost[r] => l.id < num_readers)
  BY <1>k, <1>1, <1>2
     DEF Known, HistoryOK, OutsidePcs, RdPcs, EvictPcs, ReadPcs, FreshPcs, LookPcs, SizedPcs
<1>4. /\ lost' \in [Readers -> BOOLEAN] /\ lost'[r] = lost[r]
      /\ \A q \in Readers \ {r} :
           /\ lost[q] => lost'[q]
           /\ ~lost'[q] => rd[q].id # rd[r].id
  BY <1>k, DisturbedType DEF Known, OwnUid
<1>5. \A q \in Readers \ {r} : lost'[q] \/ Undisturbed(q)
  BY <1>k, <1>4, Sizing DEF Known, Undisturbed, OwnUid
<1>6. read_uids' \in [Slots -> Readers \union {NoReader}]
  BY <1>k DEF Known, OwnUid
<1> QED BY <1>k, <1>1, <1>2, <1>3, <1>4, <1>5, <1>6, OutsideStep DEF Known, OwnUid

LEMMA ResetValidStep ==
  ASSUME NEW C, NEW T, InvFor(C, T), NEW r \in Readers, ResetValid(r)
  PROVE  InvFor(C, T)'
<1> DEFINE l == [rd[r] EXCEPT !.pc = "reset_load"]
<1>k. Known(C, T, r)
  BY ReaderKnown
<1>1. rd' = [rd EXCEPT ![r] = l] /\ rd[r].pc = "reset"
  BY <1>k DEF Known, ResetValid, Goto
<1>2. /\ l \in Local /\ l.rp = rd[r].rp /\ l.wp = rd[r].wp /\ l.got = NoMsg /\ l.part = 1
      /\ l.pc = "reset_load" /\ l.id = rd[r].id
  BY <1>k, <1>1 DEF Known, Local, RdPcs
<1> HIDE DEF l
<1>3. l.pc \in OutsidePcs \ {"dead"} /\ (~lost[r] => l.id < num_readers)
  BY <1>k, <1>1, <1>2
     DEF Known, HistoryOK, OutsidePcs, RdPcs, EvictPcs, ReadPcs, FreshPcs, LookPcs, SizedPcs
<1>4. /\ lost' \in [Readers -> BOOLEAN] /\ lost'[r] = lost[r]
      /\ \A q \in Readers \ {r} :
           /\ lost[q] => lost'[q]
           /\ ~lost'[q] => rd[q].id # rd[r].id
  BY <1>k, DisturbedType DEF Known, ResetValid
<1>5. \A q \in Readers \ {r} : lost'[q] \/ Undisturbed(q)
  BY <1>k, <1>4, Sizing DEF Known, Undisturbed, ResetValid
<1>6. read_valids' \in [Slots -> BOOLEAN]
  BY <1>k DEF Known, ResetValid
<1> QED BY <1>k, <1>1, <1>2, <1>3, <1>4, <1>5, <1>6, OutsideStep DEF Known, ResetValid

LEMMA RestartReaderStep ==
  ASSUME NEW C, NEW T, InvFor(C, T), NEW r \in Readers, RestartReader(r)
  PROVE  InvFor(C, T)'
<1>k. Known(C, T, r)
  BY ReaderKnown
<1>1. PICK c \in Conflate : rd' = [rd EXCEPT ![r] = RdNew(c)]
  BY DEF RestartReader
<1> DEFINE l == RdNew(c)
<1>2. /\ l \in Local /\ PtrOK(C, l.rp) /\ PtrOK(C, l.wp)
      /\ l.got = NoMsg /\ l.part = 1 /\ l.pc = "subscribe"
  <2>1. c \in BOOLEAN
    BY Sizing
  <2> QED BY <1>k, <2>1, NewLocal DEF Known
<1>3. rd' = [rd EXCEPT ![r] = l]
  BY <1>1
<1> HIDE DEF l
<1>4. l.pc \in OutsidePcs \ {"dead"} /\ l.pc \in EvictPcs
  BY <1>2 DEF OutsidePcs, RdPcs, EvictPcs, ReadPcs, FreshPcs, LookPcs, SizedPcs
<1>5. \A q \in Readers : Undisturbed(q)
  BY <1>k, Sizing DEF Known, Undisturbed, RestartReader, shared
<1> QED BY <1>k, <1>2, <1>3, <1>4, <1>5, OutsideStep DEF Known, RestartReader, shared, history

-----------------------------------------------------------------------------
(* The steps of a reader that has a place in the ring. *)

\* What is left of the tail once the publisher has looked is still a tail.
LEMMA TailForLayout ==
  ASSUME Types, Publishing, NEW C, NEW T, Layout(C, T), NEW s
  PROVE  Layout(C, TailFor(T, s))
<1>1. CASE ~Scanned(s)
  BY <1>1 DEF TailFor
<1>2. CASE Scanned(s)
  <2>1. pub.wp = W /\ pub.size \in Nat /\ W.ptr \in Nat /\ pub.size \in MsgSizes
    <3>1. pub.pc \in AreaPcs
      BY <1>2 DEF Scanned, AreaPcs
    <3>2. W.ptr \in Nat
      <4>1. W \in Pointers
        BY DEF Types, TypeOK, W
      <4> QED BY <4>1, Sizing DEF Pointers
    <3>3. pub.wp = W /\ pub.size \in MsgSizes
      BY <3>1 DEF Publishing
    <3>4. pub.size \in Nat
      BY <3>3, Sizing
    <3> QED BY <3>2, <3>3, <3>4
  <2> DEFINE T2 == T \ Area(pub)
  <2>2. ASSUME NEW p \in T2, ~IsWrapTag(p)
        PROVE  Whole(p) /\ After(p) \in T2
    <3>1. Whole(p) /\ After(p) \in T /\ T \subseteq W.ptr .. Size - 1
      BY <2>2 DEF Layout, Tail
    <3>2. p \in Nat /\ p > W.ptr + pub.size
      BY <2>1, <2>2, <3>1, Sizing DEF Area
    <3>3. After(p) \in Nat /\ After(p) > p
      <4>1. data[p].n \in Nat
        BY <3>1, Sizing DEF Whole
      <4> QED BY <3>2, <4>1 DEF After
    <3> QED BY <2>1, <3>1, <3>2, <3>3, Sizing DEF Area
  <2>3. Tail(T2)
    BY <2>2 DEF Layout, Tail
  <2>4. Older(C, T2)
    BY DEF Layout, Older
  <2> QED BY <1>2, <2>3, <2>4 DEF Layout, TailFor
<1> QED BY <1>1, <1>2

\* A reader that was given an older message is behind the same messages.
LEMMA AtWeaken ==
  ASSUME Types, NEW C, NEW T, Layout(C, T), NEW a \in Int, NEW m \in Int, a <= m,
         NEW p, At(C, T, m, p)
  PROVE  At(C, T, a, p)
<1>p. published \subseteq Int
  BY DEF Types
<1>1. \A x \in C \ {W.ptr} : IdAt(x) \in Int
  BY <1>p DEF Layout, Lap, Whole, IdAt
<1>2. \A x \in T : IsWrapTag(x) \/ IdAt(x) \in Int
  BY <1>p DEF Layout, Tail, Whole, IdAt
<1> QED BY <1>1, <1>2 DEF At, CurAhead, TailAhead

LEMMA NewestType ==
  ASSUME Types, NewestKnown
  PROVE  /\ Newest \in published \union {0} /\ Newest \in 0 .. MaxMsgs
         /\ \A k \in published : k <= Newest
<1>1. \A k \in published : k \in 0 .. MaxMsgs
  BY Sizing DEF Types
<1>2. CASE published = {}
  BY <1>2, Sizing DEF Newest
<1>3. CASE published # {}
  <2>1. \E m \in published : \A k \in published : k <= m
    BY <1>3 DEF NewestKnown
  <2>2. Newest \in published /\ \A k \in published : k <= Newest
    BY <1>3, <2>1 DEF Newest
  <2> QED BY <1>1, <2>2
<1> QED BY <1>2, <1>3

\* After a step of r that leaves the ring and the publisher alone it is enough to
\* look at what r then holds.
LEMMA FootingAfter ==
  ASSUME NEW C, NEW T, NEW r, UNCHANGED <<write_pointer, data, pub, published>>,
         NEW l, rd'[r] = l, NEW a, last'[r] = a,
         NEW p, read_pointers'[l.id] = p,
         Footed(r)' => (l.pc \in {"load_write"} \union LookPcs => l.rp = p),
         Footed(r)' /\ read_valids'[l.id] =>
           Sighted(C, TailFor(T, l.id), l, a, p) /\ Late(l, p)
  PROVE  Footing(C, T, r)'
<1>1. ASSUME Footed(r)', read_valids'[l.id]
      PROVE  Sighted(C, TailFor(T, l.id), l, a, p)' /\ Late(l, p)'
  BY <1>1, SameScan, SameSight, SameLate
<1> QED BY <1>1 DEF Footing

LEMMA ResetLoadStep ==
  ASSUME NEW C, NEW T, InvFor(C, T), NEW r \in Readers, ResetLoad(r)
  PROVE  InvFor(C, T)'
<1> DEFINE l == [rd[r] EXCEPT !.pc = "reset_store", !.wp = write_pointer]
<1>k. Known(C, T, r)
  BY ReaderKnown
<1>1. rd' = [rd EXCEPT ![r] = l] /\ rd'[r] = l /\ rd[r].pc = "reset_load"
  BY <1>k DEF Known, ResetLoad
<1>2. /\ l \in Local /\ l.rp = rd[r].rp /\ l.wp = W /\ l.got = NoMsg /\ l.part = 1
      /\ l.pc = "reset_store" /\ l.id = rd[r].id
  BY <1>k, <1>1 DEF Known, Local, RdPcs, ReadPcs, FreshPcs, W
<1> HIDE DEF l
<1>3. LocalOK(C, l)
  BY <1>k, <1>2, OutsideLocal DEF Known, LookPcs, SizedPcs
<1>4. Newest \in published \union {0} /\ Newest \in 0 .. MaxMsgs
  BY NewestType DEF InvFor
<1>5. UNCHANGED <<num_readers, read_pointers, read_valids, read_uids, write_pointer, data,
                  pub, started, published>>
  BY DEF ResetLoad, shared
<1>6. /\ lost' \in [Readers -> BOOLEAN] /\ last' \in [Readers -> Torn .. MaxMsgs]
      /\ \A q \in Readers \ {r} : lost'[q] = lost[q] /\ last'[q] = last[q]
  <2>1. Newest \in Torn .. MaxMsgs
    BY <1>4, Sizing DEF Torn
  <2>2. last' \in {last, [last EXCEPT ![r] = Newest]}
        /\ lost' \in {lost, [lost EXCEPT ![r] = FALSE]}
    BY DEF ResetLoad
  <2> QED BY <1>k, <2>1, <2>2 DEF Known
<1>7. \A q \in Readers : Undisturbed(q)
  BY <1>k, <1>5, OthersKeep, Sizing DEF Known
<1>8. HistoryOK(r)' /\ Footing(C, T, r)'
  <2>1. CASE Registered(r)
    <3>1. ~lost'[r] /\ last'[r] = Newest /\ rd[r].id < num_readers
      BY <1>k, <2>1 DEF ResetLoad, Registered, Known
    <3>2. HistoryOK(r)'
      BY <1>1, <1>2, <1>4, <1>5, <3>1 DEF HistoryOK
    <3>3. CurAhead(C, Newest, W.ptr)
      <4>1. W.ptr \in C /\ C \subseteq 0 .. W.ptr /\ W.ptr \in Nat
        BY <1>k DEF InvFor, Ring, Layout, Lap, Known, Pointers
      <4> QED BY <4>1 DEF CurAhead
    <3>4. Sighted(C, TailFor(T, l.id), l, Newest, read_pointers'[l.id])
      BY <1>2, <3>3 DEF Sighted, At, Given, SlotPtr, LookPcs, SizedPcs
    <3>5. Late(l, read_pointers'[l.id])
      BY <1>2 DEF Late, SlotPtr, FreshPcs
    <3>6. l.pc \notin {"load_write"} \union LookPcs
      BY <1>2 DEF LookPcs, SizedPcs
    <3> DEFINE p == read_pointers'[l.id]
    <3>7. Sighted(C, TailFor(T, l.id), l, Newest, p) /\ Late(l, p)
      BY <3>4, <3>5
    <3> HIDE DEF p
    <3>8. last'[r] = Newest
      BY <3>1
    <3>9. Footing(C, T, r)'
      BY <1>1, <1>5, <3>6, <3>7, <3>8, FootingAfter DEF p
    <3> QED BY <3>2, <3>9
  <2>2. CASE ~Registered(r)
    <3>1. lost' = lost /\ last' = last
      BY <2>2 DEF ResetLoad
    <3>2. HistoryOK(r)'
      BY <1>k, <1>1, <1>2, <1>5, <3>1 DEF HistoryOK, Known, EvictPcs
    <3>3. ~Footed(r)'
      BY <1>k, <1>1, <1>2, <1>5, <2>2, <3>1 DEF HistoryOK, Known, EvictPcs, Footed, Registered
    <3> QED BY <3>2, <3>3 DEF Footing
  <2> QED BY <2>1, <2>2
<1> QED BY <1>k, <1>1, <1>3, <1>5, <1>6, <1>7, <1>8, ReaderStep DEF Known

LEMMA ResetStoreStep ==
  ASSUME NEW C, NEW T, InvFor(C, T), NEW r \in Readers, ResetStore(r)
  PROVE  InvFor(C, T)'
<1> DEFINE l == [rd[r] EXCEPT !.pc = "start", !.wp = Start]
<1>k. Known(C, T, r)
  BY ReaderKnown
<1>1. rd' = [rd EXCEPT ![r] = l] /\ rd'[r] = l /\ rd[r].pc = "reset_store"
  BY <1>k DEF Known, ResetStore
<1>2. /\ l \in Local /\ l.rp = rd[r].rp /\ l.wp = Start /\ l.got = NoMsg /\ l.part = 1
      /\ l.pc = "start" /\ l.id = rd[r].id
  BY <1>k, <1>1 DEF Known, Local, RdPcs, ReadPcs, FreshPcs
<1> HIDE DEF l
<1>3. LocalOK(C, l)
  BY <1>k, <1>2, OutsideLocal DEF Known, LookPcs, SizedPcs
<1>4. UNCHANGED <<num_readers, read_valids, read_uids, write_pointer, data, pub, started,
                  published, last>>
  BY DEF ResetStore
<1>5. /\ read_pointers' \in [Slots -> Pointers] /\ read_pointers'[l.id] = rd[r].wp
      /\ \A s \in Slots : PtrOK(C, read_pointers'[s])
      /\ \A s \in Slots \ {rd[r].id} : read_pointers'[s] = read_pointers[s]
  BY <1>k, <1>2 DEF Known, ResetStore, PtrOK
<1>6. /\ lost' \in [Readers -> BOOLEAN] /\ lost'[r] = lost[r]
      /\ \A q \in Readers \ {r} :
           /\ lost[q] => lost'[q]
           /\ ~lost'[q] => rd[q].id # rd[r].id
  BY <1>k, DisturbedType DEF Known, ResetStore
<1>7. \A q \in Readers \ {r} : lost'[q] \/ Undisturbed(q)
  BY <1>k, <1>4, <1>5, <1>6, Sizing DEF Known, Undisturbed, Local
<1>8. HistoryOK(r)'
  BY <1>k, <1>1, <1>2, <1>4, <1>6 DEF Known, HistoryOK, EvictPcs
<1>9. Footing(C, T, r)'
  <2> DEFINE p == read_pointers'[l.id]
             a == last[r]
  <2>1. ASSUME Footed(r)', read_valids'[l.id]
        PROVE  Sighted(C, TailFor(T, l.id), l, a, p) /\ Late(l, p)
    <3>1. Footed(r) /\ read_valids[rd[r].id]
      BY <1>1, <1>2, <1>4, <1>6, <2>1 DEF Footed, ReadPcs, FreshPcs
    <3>2. /\ Sighted(C, TailFor(T, l.id), rd[r], a, read_pointers[l.id])
          /\ Late(rd[r], read_pointers[l.id])
      BY <1>k, <1>2, <3>1 DEF Known, Footing
    <3>3. Given(l, a) = a /\ SlotPtr(l, p) = SlotPtr(rd[r], read_pointers[l.id])
          /\ Given(rd[r], a) = a
      BY <1>1, <1>2, <1>5 DEF Given, SlotPtr
    <3> QED BY <1>1, <1>2, <3>2, <3>3 DEF Sighted, Late, LookPcs, SizedPcs, FreshPcs
  <2> HIDE DEF p, a
  <2>2. l.pc \notin {"load_write"} \union LookPcs
    BY <1>2 DEF LookPcs, SizedPcs
  <2> QED BY <1>1, <1>4, <2>1, <2>2, FootingAfter DEF p, a
<1> QED BY <1>k, <1>1, <1>3, <1>4, <1>5, <1>6, <1>7, <1>8, <1>9, ReaderStep DEF Known

\* A step of r that changes nothing but its own variables.
LEMMA PrivateStep ==
  ASSUME NEW C, NEW T, InvFor(C, T), NEW r \in Readers,
         UNCHANGED <<num_readers, read_pointers, read_valids, read_uids, write_pointer, data,
                     pub, started, published, last, lost>>,
         rd[r].pc \notin EvictPcs \union {"dead"},
         NEW l, rd' = [rd EXCEPT ![r] = l], LocalOK(C, l), l.id = rd[r].id,
         NEW p, read_pointers[l.id] = p,
         ~lost[r] => l.pc # "dead",
         l.pc \in ReadPcs =>
           /\ rd[r].pc \in ReadPcs
           /\ rd[r].pc \in {"start", "idle"} => read_uids[l.id] = r
           /\ rd[r].pc # "reset_store",
         Footed(r) => (l.pc \in {"load_write"} \union LookPcs => l.rp = p),
         \A T2 : (/\ Footed(r) /\ l.pc \in ReadPcs /\ T2 = TailFor(T, l.id)
                 /\ read_valids[l.id]
                 /\ Sighted(C, T2, rd[r], last[r], p) /\ Late(rd[r], p))
           => Sighted(C, T2, l, last[r], p) /\ Late(l, p)
  PROVE  InvFor(C, T)'
<1>k. Known(C, T, r)
  BY ReaderKnown
<1>1. rd'[r] = l
  BY <1>k DEF Known
<1>2. \A q \in Readers : Undisturbed(q)
  BY <1>k, OthersKeep, Sizing DEF Known
<1>3. HistoryOK(r)'
  BY <1>k, <1>1 DEF Known, HistoryOK
<1>4. Footing(C, T, r)'
  <2>1. ASSUME Footed(r)'
        PROVE  Footed(r) /\ l.pc \in ReadPcs
    BY <1>1, <2>1 DEF Footed
  <2>2. ASSUME Footed(r)', read_valids'[l.id]
        PROVE  Sighted(C, TailFor(T, l.id), l, last[r], p) /\ Late(l, p)
    <3>1. Sighted(C, TailFor(T, l.id), rd[r], last[r], p) /\ Late(rd[r], p)
      BY <1>k, <2>1, <2>2 DEF Known, Footing
    <3> QED BY <2>1, <2>2, <3>1
  <2> DEFINE a == last[r]
  <2>3. last'[r] = a /\ read_pointers'[l.id] = p
    OBVIOUS
  <2>4. Footed(r)' /\ read_valids'[l.id] =>
          Sighted(C, TailFor(T, l.id), l, a, p) /\ Late(l, p)
    BY <2>2
  <2> HIDE DEF a
  <2> QED BY <1>1, <2>1, <2>3, <2>4, FootingAfter
<1>5. last' \in [Readers -> Torn .. MaxMsgs] /\ lost' \in [Readers -> BOOLEAN]
      /\ num_readers' \in 0 .. NUM_READERS
      /\ read_pointers' \in [Slots -> Pointers]
      /\ read_valids' \in [Slots -> BOOLEAN]
      /\ read_uids' \in [Slots -> Readers \union {NoReader}]
      /\ \A s \in Slots : PtrOK(C, read_pointers'[s])
  BY <1>k DEF Known
<1> QED BY <1>2, <1>3, <1>4, <1>5, ReaderStep

LEMMA CheckUidStep ==
  ASSUME NEW C, NEW T, InvFor(C, T), NEW r \in Readers, CheckUid(r)
  PROVE  InvFor(C, T)'
<1> DEFINE l == [rd[r] EXCEPT !.pc = IF read_uids[rd[r].id] = r THEN "check_valid"
                                      ELSE "subscribe"]
           p == read_pointers[rd[r].id]
<1>k. Known(C, T, r)
  BY ReaderKnown
<1>1. rd' = [rd EXCEPT ![r] = l] /\ rd[r].pc \in {"idle", "start"}
  BY <1>k DEF Known, CheckUid, Goto
<1>2. /\ l \in Local /\ l.rp = rd[r].rp /\ l.wp = rd[r].wp
      /\ l.got = NoMsg /\ l.part = 1 /\ l.id = rd[r].id
      /\ l.pc = IF read_uids[rd[r].id] = r THEN "check_valid" ELSE "subscribe"
  BY <1>k, <1>1 DEF Known, Local, RdPcs, ReadPcs, FreshPcs, EvictPcs
<1> HIDE DEF l
<1>3. LocalOK(C, l)
  BY <1>k, <1>2, OutsideLocal DEF Known, LookPcs, SizedPcs
<1>4. UNCHANGED <<num_readers, read_pointers, read_valids, read_uids, write_pointer, data,
                  pub, started, published, last, lost>>
  BY DEF CheckUid, shared, history
<1>5. /\ l.pc \in ReadPcs => l.pc = "check_valid" /\ read_uids[l.id] = r
      /\ rd[r].pc \in ReadPcs /\ l.pc # "dead" /\ l.pc \notin {"load_write"} \union LookPcs
      /\ rd[r].pc \notin EvictPcs \union {"dead", "reset_store"}
  BY <1>1, <1>2 DEF ReadPcs, FreshPcs, LookPcs, SizedPcs, EvictPcs
<1>6. ASSUME NEW T2, l.pc \in ReadPcs, Sighted(C, T2, rd[r], last[r], p), Late(rd[r], p)
      PROVE  Sighted(C, T2, l, last[r], p) /\ Late(l, p)
  BY <1>1, <1>2, <1>5, <1>6 DEF Sighted, Late, LookPcs, SizedPcs, FreshPcs, Given, SlotPtr
<1>7. p = read_pointers[l.id]
  BY <1>2
<1> HIDE DEF p
<1> QED BY <1>1, <1>2, <1>3, <1>4, <1>5, <1>6, <1>7, PrivateStep

LEMMA CheckValidStep ==
  ASSUME NEW C, NEW T, InvFor(C, T), NEW r \in Readers, CheckValid(r)
  PROVE  InvFor(C, T)'
<1> DEFINE l == [rd[r] EXCEPT !.pc = IF read_valids[rd[r].id] THEN "load_read" ELSE "reset"]
           p == read_pointers[rd[r].id]
<1>k. Known(C, T, r)
  BY ReaderKnown
<1>1. rd' = [rd EXCEPT ![r] = l] /\ rd[r].pc = "check_valid"
  BY <1>k DEF Known, CheckValid, Goto
<1>2. /\ l \in Local /\ l.rp = rd[r].rp /\ l.wp = rd[r].wp
      /\ l.got = NoMsg /\ l.part = 1 /\ l.id = rd[r].id
      /\ l.pc \in {"load_read", "reset"}
  BY <1>k, <1>1 DEF Known, Local, RdPcs, ReadPcs, FreshPcs
<1> HIDE DEF l
<1>3. LocalOK(C, l)
  BY <1>k, <1>2, OutsideLocal DEF Known, LookPcs, SizedPcs
<1>4. UNCHANGED <<num_readers, read_pointers, read_valids, read_uids, write_pointer, data,
                  pub, started, published, last, lost>>
  BY DEF CheckValid, shared, history
<1>5. /\ l.pc \in ReadPcs => l.pc = "load_read"
      /\ rd[r].pc \in ReadPcs /\ l.pc # "dead" /\ l.pc \notin {"load_write"} \union LookPcs
      /\ rd[r].pc \notin EvictPcs \union {"dead", "reset_store", "start", "idle"}
  BY <1>1, <1>2 DEF ReadPcs, FreshPcs, LookPcs, SizedPcs, EvictPcs
<1>6. ASSUME NEW T2, l.pc \in ReadPcs, Sighted(C, T2, rd[r], last[r], p), Late(rd[r], p)
      PROVE  Sighted(C, T2, l, last[r], p) /\ Late(l, p)
  BY <1>1, <1>2, <1>5, <1>6 DEF Sighted, Late, LookPcs, SizedPcs, FreshPcs, Given, SlotPtr
<1>7. p = read_pointers[l.id]
  BY <1>2
<1> HIDE DEF p
<1> QED BY <1>1, <1>2, <1>3, <1>4, <1>5, <1>6, <1>7, PrivateStep

LEMMA LoadReadStep ==
  ASSUME NEW C, NEW T, InvFor(C, T), NEW r \in Readers, LoadRead(r)
  PROVE  InvFor(C, T)'
<1> DEFINE p == read_pointers[rd[r].id]
           l == [rd[r] EXCEPT !.pc = "load_write", !.rp = p]
<1>k. Known(C, T, r)
  BY ReaderKnown
<1>p. p \in Pointers /\ PtrOK(C, p)
  BY <1>k DEF Known
<1>1. rd' = [rd EXCEPT ![r] = l] /\ rd[r].pc = "load_read"
  BY <1>k DEF Known, LoadRead
<1>2. /\ l \in Local /\ l.rp = p /\ l.wp = rd[r].wp
      /\ l.got = NoMsg /\ l.part = 1 /\ l.id = rd[r].id
      /\ l.pc = "load_write"
  BY <1>k, <1>p, <1>1 DEF Known, Local, RdPcs, ReadPcs, FreshPcs
<1> HIDE DEF l
<1>3. LocalOK(C, l)
  BY <1>k, <1>p, <1>2, OutsideLocal DEF Known, LookPcs, SizedPcs
<1>4. UNCHANGED <<num_readers, read_pointers, read_valids, read_uids, write_pointer, data,
                  pub, started, published, last, lost>>
  BY DEF LoadRead, shared, history
<1>5. /\ rd[r].pc \in ReadPcs /\ l.pc # "dead"
      /\ rd[r].pc \notin EvictPcs \union {"dead", "reset_store", "start", "idle"}
  BY <1>1, <1>2 DEF ReadPcs, FreshPcs, EvictPcs
<1>6. ASSUME NEW T2, Sighted(C, T2, rd[r], last[r], p), Late(rd[r], p)
      PROVE  Sighted(C, T2, l, last[r], p) /\ Late(l, p)
  BY <1>1, <1>2, <1>6 DEF Sighted, Late, LookPcs, SizedPcs, FreshPcs, Given, SlotPtr
<1>7. p = read_pointers[l.id]
  BY <1>2
<1> HIDE DEF p
<1> QED BY <1>1, <1>2, <1>3, <1>4, <1>5, <1>6, <1>7, PrivateStep

LEMMA LoadWriteStep ==
  ASSUME NEW C, NEW T, InvFor(C, T), NEW r \in Readers, LoadWrite(r)
  PROVE  InvFor(C, T)'
<1> DEFINE p == read_pointers[rd[r].id]
           Same == rd[r].rp.ptr = W.ptr
           l == IF Same THEN [rd[r] EXCEPT !.pc = "idle", !.rp = Start]
                ELSE [rd[r] EXCEPT !.pc = "load_size", !.wp = W]
<1>k. Known(C, T, r)
  BY ReaderKnown
<1>1. rd' = [rd EXCEPT ![r] = l] /\ rd[r].pc = "load_write"
  BY <1>k DEF Known, LoadWrite, W
<1>2. /\ l \in Local /\ l.got = NoMsg /\ l.part = 1 /\ l.id = rd[r].id
      /\ l.pc = IF Same THEN "idle" ELSE "load_size"
      /\ l.rp = IF Same THEN Start ELSE rd[r].rp
      /\ l.wp = IF Same THEN rd[r].wp ELSE W
  BY <1>k, <1>1 DEF Known, Local, RdPcs, ReadPcs, FreshPcs, LookPcs
<1> HIDE DEF l
<1>3. LocalOK(C, l)
  BY <1>k, <1>2 DEF Known, LocalOK, LookPcs, SizedPcs
<1>4. UNCHANGED <<num_readers, read_pointers, read_valids, read_uids, write_pointer, data,
                  pub, started, published, last, lost>>
  BY DEF LoadWrite, shared, history
<1>5. /\ rd[r].pc \in ReadPcs /\ l.pc # "dead"
      /\ rd[r].pc \notin EvictPcs \union {"dead", "reset_store", "start", "idle"}
  BY <1>1, <1>2 DEF ReadPcs, FreshPcs, EvictPcs
<1>6. Footed(r) => rd[r].rp = p
  BY <1>k, <1>1 DEF Known, Footing
<1>7. Footed(r) => (l.pc \in {"load_write"} \union LookPcs => l.rp = p)
  BY <1>2, <1>6 DEF LookPcs, SizedPcs
<1>8. ASSUME NEW T2, Footed(r), Sighted(C, T2, rd[r], last[r], p), Late(rd[r], p)
      PROVE  Sighted(C, T2, l, last[r], p) /\ Late(l, p)
  <2>1. At(C, T2, last[r], p)
    BY <1>1, <1>8 DEF Sighted, Given, SlotPtr
  <2>2. CASE Same
    BY <1>1, <1>2, <1>8, <2>1, <2>2
       DEF Sighted, Late, LookPcs, SizedPcs, FreshPcs, Given, SlotPtr
  <2>3. CASE ~Same
    <3>1. p.ptr # W.ptr
      BY <1>6, <1>8, <2>3
    <3>2. Inside(C, T2, last[r], p)
      BY <2>1, <3>1 DEF At, Inside
    <3>3. Sighted(C, T2, l, last[r], p)
      BY <1>2, <2>1, <2>3, <3>2 DEF Sighted, SizedPcs, Given, SlotPtr
    <3>4. Late(l, p)
      BY <1>1, <1>2, <1>8, <2>3, <3>1 DEF Late, FreshPcs, SlotPtr
    <3> QED BY <3>3, <3>4
  <2> QED BY <2>2, <2>3
<1>9. p = read_pointers[l.id]
  BY <1>2
<1> HIDE DEF p, Same
<1> QED BY <1>1, <1>2, <1>3, <1>4, <1>5, <1>7, <1>8, <1>9, PrivateStep

LEMMA NextType ==
  ASSUME NEW l \in Local
  PROVE  /\ NextPointer(l).cycles = l.rp.cycles
         /\ NextPointer(l).ptr = l.rp.ptr + 1 + l.size
         /\ NextPointer(l) = [cycles |-> l.rp.cycles, ptr |-> l.rp.ptr + 1 + l.size]
         /\ l.rp.ptr \in Nat /\ l.rp.ptr < Size /\ l.rp.cycles \in 0 .. MaxMsgs
<1>1. l.rp \in Pointers
  BY DEF Local
<1> QED BY <1>1, Sizing DEF NextPointer, Pointers

\* A word at which a message of the lap or of the tail starts.
LEMMA WholeSize ==
  ASSUME Types, NEW p, Whole(p)
  PROVE  /\ SizeAt(p) = data[p].n /\ SizeAt(p) \in MsgSizes
         /\ After(p) = p + 1 + SizeAt(p)
         /\ IdAt(p) \in published /\ IdAt(p) \in Nat
         /\ \A k \in 1 .. SizeAt(p) : data[p + k] = Word(IdAt(p), k, SizeAt(p))
<1>1. SizeAt(p) = data[p].n
  BY DEF Whole, SizeAt
<1>2. IdAt(p) \in published
  BY DEF Whole, IdAt
<1>3. IdAt(p) \in Nat
  <2>1. published \subseteq 1 .. started
    BY DEF Types
  <2>2. started \in Nat
    BY Sizing DEF Types
  <2>3. IdAt(p) \in 1 .. started
    BY <1>2, <2>1
  <2> QED BY <2>2, <2>3
<1> QED BY <1>1, <1>2, <1>3 DEF Whole, After, IdAt

LEMMA SizeSeen ==
  ASSUME Types, NEW C, NEW T, Layout(C, T), W.ptr \in Nat,
         NEW l \in Local, NEW a, NEW p, l.rp = p,
         l.size = SizeAt(p.ptr), l.pc = "check_size", Inside(C, T, a, p)
  PROVE  SeesWrap(C, T, l, a) \/ \E m \in published : Sees(C, T, l, a, m)
<1> DEFINE q == p.ptr
<1>n. /\ NextPointer(l).cycles = p.cycles /\ NextPointer(l).ptr = q + 1 + SizeAt(q)
      /\ q \in Nat
  BY NextType
<1>1. CASE CurAhead(C, a, q) /\ q # W.ptr
  <2>1. Whole(q) /\ After(q) \in C /\ a < IdAt(q)
    BY <1>n, <1>1 DEF Layout, Lap, CurAhead
  <2>2. /\ l.size \in MsgSizes /\ NextPointer(l).ptr = After(q)
        /\ IdAt(q) \in published
        /\ \A k \in 1 .. l.size : data[q + k] = Word(IdAt(q), k, l.size)
    BY <1>n, <2>1, WholeSize
  <2>3. After(q) > q /\ After(q) \in Nat /\ After(q) <= W.ptr
    <3>1. SizeAt(q) \in Nat
      BY <2>2, Sizing
    <3> QED BY <1>n, <2>1, <2>2, <3>1 DEF Layout, Lap
  <2>4. CurAhead(C, IdAt(q), After(q))
    <3>1. ASSUME NEW x \in C \ {W.ptr}, After(q) <= x
          PROVE  IdAt(q) < IdAt(x)
      <4>1. x \in Nat /\ q \in C \ {W.ptr}
        BY <1>1 DEF Layout, Lap, CurAhead
      <4>2. q < x
        BY <1>n, <2>3, <3>1, <4>1
      <4> QED BY <3>1, <4>1, <4>2 DEF Layout, Lap
    <3> QED BY <2>1, <3>1 DEF CurAhead
  <2>5. Sees(C, T, l, a, IdAt(q))
    BY <2>1, <2>2, <2>3, <2>4 DEF Sees, At
  <2> QED BY <2>2, <2>5
<1>2. CASE p.cycles # W.cycles /\ TailAhead(C, T, a, q) /\ IsWrapTag(q)
  <2>1. SizeAt(q) = WrapTag
    BY <1>2 DEF IsWrapTag, SizeAt, Tag
  <2> QED BY <1>2, <2>1 DEF SeesWrap, TailAhead
<1>3. CASE p.cycles # W.cycles /\ TailAhead(C, T, a, q) /\ ~IsWrapTag(q)
  <2>1. /\ Whole(q) /\ After(q) \in T /\ a < IdAt(q)
        /\ IsWrapTag(After(q)) \/ IdAt(q) < IdAt(After(q))
        /\ \A x \in C \ {W.ptr} : IdAt(q) < IdAt(x)
        /\ q \in W.ptr .. Size - 1
    BY <1>3 DEF Layout, Tail, Older, TailAhead
  <2>2. /\ l.size \in MsgSizes /\ NextPointer(l).ptr = After(q)
        /\ IdAt(q) \in published
        /\ \A k \in 1 .. l.size : data[q + k] = Word(IdAt(q), k, l.size)
    BY <1>n, <2>1, WholeSize
  <2>3. At(C, T, IdAt(q), NextPointer(l))
    BY <1>n, <1>3, <2>1, <2>2 DEF At, TailAhead
  <2>4. ~(q < W.ptr)
    BY <1>n, <2>1
  <2>5. Sees(C, T, l, a, IdAt(q))
    BY <2>1, <2>2, <2>3, <2>4 DEF Sees
  <2> QED BY <2>2, <2>5
<1> QED BY <1>1, <1>2, <1>3 DEF Inside

LEMMA LoadSizeStep ==
  ASSUME NEW C, NEW T, InvFor(C, T), NEW r \in Readers, LoadSize(r)
  PROVE  InvFor(C, T)'
<1> DEFINE p == read_pointers[rd[r].id]
           l == [rd[r] EXCEPT !.pc = "check_size", !.size = SizeAt(rd[r].rp.ptr)]
<1>k. Known(C, T, r)
  BY ReaderKnown
<1>t. Types /\ Layout(C, T) /\ TagsFit /\ Publishing
  BY DEF InvFor, Ring
<1>1. rd' = [rd EXCEPT ![r] = l] /\ rd[r].pc = "load_size"
  BY <1>k DEF Known, LoadSize
<1>s. /\ SizeAt(rd[r].rp.ptr) \in MsgSizes \union {0, WrapTag}
      /\ rd[r].rp.ptr \in 0 .. Size - 1
  <2>1. rd[r].rp.ptr \in 0 .. Size - 1
    BY <1>k DEF Known, PtrOK, Pointers
  <2>2. data[rd[r].rp.ptr] \in Words
    BY <1>t, <2>1 DEF Types, TypeOK
  <2>3. SizeAt(rd[r].rp.ptr) \in MsgSizes \union {0, WrapTag}
    BY <2>2 DEF Words, SizeAt
  <2> QED BY <2>1, <2>3
<1>2. /\ l \in Local /\ l.rp = rd[r].rp /\ l.wp = rd[r].wp
      /\ l.got = NoMsg /\ l.part = 1 /\ l.id = rd[r].id
      /\ l.pc = "check_size" /\ l.size = SizeAt(l.rp.ptr)
  BY <1>k, <1>1, <1>s DEF Known, Local, RdPcs, ReadPcs, LookPcs, SizedPcs
<1> HIDE DEF l
<1>n. NextPointer(l).ptr = l.rp.ptr + 1 + l.size /\ l.rp.ptr \in 0 .. Size - 1
  BY <1>s, <1>2, NextType
<1>3. LocalOK(C, l)
  <2>1. l.size \in MsgSizes => NextPointer(l).ptr < Size
    BY <1>2, <1>n, <1>t DEF TagsFit
  <2>2. ASSUME l.rp.cycles = W.cycles
        PROVE  l.size \in MsgSizes /\ NextPointer(l).ptr \in C
    <3>1. l.rp.ptr \in C \ {W.ptr}
      BY <1>k, <1>1, <1>2, <2>2 DEF Known, PtrOK, LocalOK
    <3>2. Whole(l.rp.ptr) /\ After(l.rp.ptr) \in C
      BY <1>t, <3>1 DEF Layout, Lap
    <3> QED BY <1>t, <1>2, <1>n, <3>2, WholeSize
  <2> QED BY <1>k, <1>2, <2>1, <2>2 DEF Known, LocalOK
<1>4. UNCHANGED <<num_readers, read_pointers, read_valids, read_uids, write_pointer, data,
                  pub, started, published, last, lost>>
  BY DEF LoadSize, shared, history
<1>5. /\ rd[r].pc \in ReadPcs /\ l.pc # "dead"
      /\ rd[r].pc \notin EvictPcs \union {"dead", "reset_store", "start", "idle"}
  BY <1>1, <1>2 DEF ReadPcs, FreshPcs, LookPcs, EvictPcs
<1>6. Footed(r) => l.rp = p
  BY <1>k, <1>1, <1>2 DEF Known, Footing, LookPcs
<1>7. ASSUME NEW T2, T2 = TailFor(T, l.id), Footed(r), Sighted(C, T2, rd[r], last[r], p),
             Late(rd[r], p)
      PROVE  Sighted(C, T2, l, last[r], p) /\ Late(l, p)
  <2>1. At(C, T2, last[r], p) /\ Inside(C, T2, last[r], p)
    BY <1>1, <1>7 DEF Sighted, Given, SlotPtr, LookPcs
  <2>2. Layout(C, T2)
    BY <1>t, <1>7, TailForLayout
  <2>3. W.ptr \in Nat
    BY <1>k, Sizing DEF Known, Pointers
  <2>4. SeesWrap(C, T2, l, last[r]) \/ \E m \in published : Sees(C, T2, l, last[r], m)
    BY <1>t, <1>2, <1>6, <1>7, <2>1, <2>2, <2>3, SizeSeen
  <2>5. Sighted(C, T2, l, last[r], p)
    BY <1>2, <2>1, <2>4 DEF Sighted, Given, SlotPtr
  <2>6. Late(l, p)
    BY <1>1, <1>2, <1>7 DEF Late, FreshPcs
  <2> QED BY <2>5, <2>6
<1>8. p = read_pointers[l.id]
  BY <1>2
<1> HIDE DEF p
<1> QED BY <1>1, <1>2, <1>3, <1>4, <1>5, <1>6, <1>7, <1>8, PrivateStep

\* Once the size is known its reader only looks at the valid flag again.
LEMMA CheckSizeStep ==
  ASSUME NEW C, NEW T, InvFor(C, T), NEW r \in Readers, CheckSize(r)
  PROVE  InvFor(C, T)'
<1> DEFINE p == read_pointers[rd[r].id]
           pc == AfterSize(r)
           l == IF pc \in {"reset", "dead"} THEN Cleared(rd[r], pc)
                ELSE [rd[r] EXCEPT !.pc = pc, !.wp = Start]
<1>k. Known(C, T, r)
  BY ReaderKnown
<1>1. rd' = [rd EXCEPT ![r] = l] /\ rd[r].pc = "check_size"
  BY <1>k DEF Known, CheckSize
<1>s. rd[r].size \in MsgSizes \union {0, WrapTag}
  BY <1>k DEF Known, Local
<1>c. \/ pc = "reset" /\ ~read_valids[rd[r].id]
      \/ pc = "wrap" /\ rd[r].size = WrapTag /\ read_valids[rd[r].id]
      \/ pc = "dead" /\ rd[r].size = 0 /\ read_valids[rd[r].id]
      \/ pc \in {"skip", "copy"} /\ rd[r].size \in MsgSizes /\ read_valids[rd[r].id]
  BY <1>s, Sizing DEF AfterSize
<1> HIDE DEF pc
<1>2. /\ l \in Local /\ l.got = NoMsg /\ l.part = 1 /\ l.id = rd[r].id /\ l.pc = pc /\ l.wp = Start
      /\ l.rp = IF pc \in {"reset", "dead"} THEN Start ELSE rd[r].rp
      /\ pc \notin {"reset", "dead"} => l.size = rd[r].size
  <2>1. pc \in RdPcs
    BY <1>c DEF RdPcs, ReadPcs, LookPcs, SizedPcs
  <2>2. NoMsg \in Torn .. MaxMsgs
    BY Sizing DEF NoMsg, Torn
  <2>3. CASE pc \in {"reset", "dead"}
    BY <1>k, <2>1, <2>2, <2>3 DEF Known, Local, Cleared
  <2>4. CASE pc \notin {"reset", "dead"}
    BY <1>k, <1>1, <2>1, <2>4 DEF Known, Local
  <2> QED BY <2>3, <2>4
<1> HIDE DEF l
<1>3. LocalOK(C, l)
  <2>1. CASE pc \in {"reset", "dead"}
    BY <1>k, <1>2, <2>1, OutsideLocal DEF Known, LookPcs, SizedPcs
  <2>2. CASE pc \in {"wrap", "skip", "copy"}
    <3>1. NextPointer(l).ptr = NextPointer(rd[r]).ptr
      BY <1>k, <1>2, <2>2, NextType DEF Known
    <3>2. l.pc = "copy" => l.part \in 1 .. l.size /\ (l.part = 1 <=> l.got = NoMsg)
      <4>1. ASSUME l.pc = "copy" PROVE l.size \in Nat /\ l.size > 0
        <5>1. l.size = rd[r].size /\ rd[r].size \in MsgSizes
          BY <1>c, <1>2, <4>1
        <5> QED BY <5>1, Sizing
      <4>2. l.part = 1 /\ l.got = NoMsg
        BY <1>2
      <4>3. l.pc = "copy" => 1 \in 1 .. l.size
        BY <4>1
      <4> QED BY <4>2, <4>3
    <3> QED BY <1>k, <1>1, <1>c, <1>2, <2>2, <3>1, <3>2 DEF Known, LocalOK, SizedPcs
  <2> QED BY <1>c, <2>1, <2>2
<1>4. UNCHANGED <<num_readers, read_pointers, read_valids, read_uids, write_pointer, data,
                  pub, started, published, last, lost>>
  BY DEF CheckSize, shared, history
<1>5. /\ rd[r].pc \in ReadPcs
      /\ rd[r].pc \notin EvictPcs \union {"dead", "reset_store", "start", "idle"}
  BY <1>1 DEF ReadPcs, FreshPcs, LookPcs, SizedPcs, EvictPcs
<1>6. Footed(r) => rd[r].rp = p
  BY <1>k, <1>1 DEF Known, Footing, LookPcs, SizedPcs
<1>7. Footed(r) => (l.pc \in {"load_write"} \union LookPcs => l.rp = p)
  BY <1>2, <1>6 DEF LookPcs, SizedPcs
<1>8. ~lost[r] => l.pc # "dead"
  <2> SUFFICES ASSUME ~lost[r], pc = "dead" PROVE FALSE
    BY <1>2
  <2>1. Footed(r) /\ read_valids[rd[r].id] /\ rd[r].size = 0
    BY <1>1, <1>5, <1>c DEF Footed
  <2>2. Sighted(C, TailFor(T, rd[r].id), rd[r], last[r], p)
    BY <1>k, <2>1 DEF Known, Footing
  <2>3. rd[r].size \in MsgSizes \/ rd[r].size = WrapTag
    BY <1>1, <2>2 DEF Sighted, SizedPcs, Sees, SeesWrap
  <2> QED BY <2>1, <2>3, Sizing
<1>9. ASSUME NEW T2, l.pc \in ReadPcs, Sighted(C, T2, rd[r], last[r], p), Late(rd[r], p)
      PROVE  Sighted(C, T2, l, last[r], p) /\ Late(l, p)
  <2>1. pc \in {"wrap", "skip", "copy"}
    BY <1>2, <1>9, <1>c DEF ReadPcs, FreshPcs, LookPcs, SizedPcs
  <2>2. /\ l.rp = rd[r].rp /\ l.size = rd[r].size /\ NextPointer(l) = NextPointer(rd[r])
    BY <1>k, <1>2, <2>1, NextType DEF Known
  <2>3. /\ At(C, T2, last[r], p) /\ Inside(C, T2, last[r], p)
        /\ SeesWrap(C, T2, rd[r], last[r]) \/ \E m \in published : Sees(C, T2, rd[r], last[r], m)
    BY <1>1, <1>9 DEF Sighted, Given, SlotPtr, LookPcs, SizedPcs
  <2>4. SeesWrap(C, T2, l, last[r]) \/ \E m \in published : Sees(C, T2, l, last[r], m)
    BY <1>2, <2>1, <2>2, <2>3 DEF SeesWrap, Sees
  <2>5. Sighted(C, T2, l, last[r], p)
    BY <1>2, <2>1, <2>3, <2>4 DEF Sighted, Given, SlotPtr
  <2>6. Late(l, p)
    BY <1>1, <1>2, <1>9 DEF Late, FreshPcs
  <2> QED BY <2>5, <2>6
<1>10. p = read_pointers[l.id]
  BY <1>2
<1> HIDE DEF p
<1> QED BY <1>1, <1>2, <1>3, <1>4, <1>5, <1>7, <1>8, <1>9, <1>10, PrivateStep

LEMMA CopyStep ==
  ASSUME NEW C, NEW T, InvFor(C, T), NEW r \in Readers, Copy(r)
  PROVE  InvFor(C, T)'
<1> DEFINE p == read_pointers[rd[r].id]
           k == rd[r].part
           w == data[rd[r].rp.ptr + k]
           m == IF w.part = k /\ w.n = rd[r].size /\ (k = 1 \/ w.id = rd[r].got)
                THEN w.id ELSE Torn
           l == [rd[r] EXCEPT !.got = m, !.part = k + 1,
                              !.pc = IF k = rd[r].size THEN "store" ELSE "copy"]
<1>k. Known(C, T, r)
  BY ReaderKnown
<1>1. rd' = [rd EXCEPT ![r] = l] /\ rd[r].pc = "copy"
  BY <1>k DEF Known, Copy
<1>s. /\ rd[r].size \in MsgSizes /\ rd[r].size \in Nat /\ rd[r].size > 0
      /\ k \in 1 .. rd[r].size /\ (k = 1 <=> rd[r].got = NoMsg)
      /\ NextPointer(rd[r]).ptr < Size
  BY <1>k, <1>1, Sizing DEF Known, LocalOK, SizedPcs
<1>w. w \in Words
  <2>1. /\ NextPointer(rd[r]).ptr = rd[r].rp.ptr + 1 + rd[r].size
        /\ rd[r].rp.ptr \in Nat
    BY <1>k, NextType DEF Known
  <2>2. rd[r].rp.ptr + k \in 0 .. Size - 1
    BY <1>s, <2>1, Sizing
  <2> QED BY <2>2 DEF InvFor, Types, TypeOK
<1> HIDE DEF k
<1>m. m \in Torn .. MaxMsgs /\ m # NoMsg
  <2>1. w.part = k => w.id \in 1 .. MaxMsgs
    BY <1>w, <1>s DEF Words
  <2> QED BY <2>1, Sizing DEF Torn, NoMsg
<1> HIDE DEF m
<1>2. /\ l \in Local /\ l.got = m /\ l.part = k + 1 /\ l.id = rd[r].id /\ l.wp = rd[r].wp
      /\ l.rp = rd[r].rp /\ l.size = rd[r].size
      /\ l.pc = IF k = rd[r].size THEN "store" ELSE "copy"
  <2>1. k \in Nat /\ k + 1 \in Nat
    BY <1>s
  <2> QED BY <1>k, <1>m, <2>1 DEF Known, Local, RdPcs, ReadPcs, LookPcs, SizedPcs
<1> HIDE DEF l
<1>n. NextPointer(l) = NextPointer(rd[r])
  BY <1>k, <1>2, NextType DEF Known
<1>3. LocalOK(C, l)
  BY <1>k, <1>1, <1>s, <1>m, <1>2, <1>n DEF Known, LocalOK, SizedPcs
<1>4. UNCHANGED <<num_readers, read_pointers, read_valids, read_uids, write_pointer, data,
                  pub, started, published, last, lost>>
  BY DEF Copy, shared, history
<1>5. /\ rd[r].pc \in ReadPcs /\ l.pc # "dead"
      /\ rd[r].pc \notin EvictPcs \union {"dead", "reset_store", "start", "idle"}
  BY <1>1, <1>2 DEF ReadPcs, FreshPcs, LookPcs, SizedPcs, EvictPcs
<1>6. Footed(r) => l.rp = p
  BY <1>k, <1>1, <1>2 DEF Known, Footing, LookPcs, SizedPcs
<1>7. ASSUME NEW T2, Sighted(C, T2, rd[r], last[r], p), Late(rd[r], p)
      PROVE  Sighted(C, T2, l, last[r], p) /\ Late(l, p)
  <2>1. /\ At(C, T2, last[r], p) /\ Inside(C, T2, last[r], p)
        /\ SeesWrap(C, T2, rd[r], last[r]) \/ \E x \in published : Sees(C, T2, rd[r], last[r], x)
    BY <1>1, <1>7 DEF Sighted, Given, SlotPtr, LookPcs, SizedPcs
  <2>2. PICK x \in published : Sees(C, T2, rd[r], last[r], x)
    BY <1>s, <2>1, Sizing DEF SeesWrap
  <2>3. m = x
    <3>1. w = Word(x, k, rd[r].size)
      BY <1>s, <2>2 DEF Sees
    <3>2. k = 1 \/ rd[r].got = x
      BY <1>1, <1>s, <2>2 DEF Sees
    <3>3. w.part = k /\ w.n = rd[r].size /\ w.id = x
      BY <3>1 DEF Word
    <3> QED BY <3>2, <3>3 DEF m
  <2>4. Sees(C, T2, l, last[r], x)
    BY <1>2, <1>n, <2>2, <2>3 DEF Sees
  <2>5. Sighted(C, T2, l, last[r], p)
    BY <1>2, <2>1, <2>4 DEF Sighted, Given, SlotPtr, LookPcs, SizedPcs
  <2>6. Late(l, p)
    BY <1>1, <1>2, <1>7 DEF Late, FreshPcs
  <2> QED BY <2>5, <2>6
<1>8. p = read_pointers[l.id]
  BY <1>2
<1> HIDE DEF p
<1> QED BY <1>1, <1>2, <1>3, <1>4, <1>5, <1>6, <1>7, <1>8, PrivateStep

\* A reader moves its pointer past what it has seen.
LEMMA StoreReadStep ==
  ASSUME NEW C, NEW T, InvFor(C, T), NEW r \in Readers,
         NEW p, PtrOK(C, p), NEW pc, StoreRead(r, p, pc),
         \/ pc = "start" /\ rd[r].pc \in {"wrap", "skip"}
         \/ pc = "check_copy" /\ rd[r].pc = "store",
         NEW a, a = IF pc = "check_copy" THEN rd[r].got ELSE last[r],
         \A T2 : Layout(C, T2) /\ Sighted(C, T2, rd[r], last[r], read_pointers[rd[r].id])
           => /\ At(C, T2, a, p)
              /\ pc = "check_copy" => rd[r].got \in published /\ last[r] < rd[r].got
  PROVE  InvFor(C, T)'
<1> DEFINE l == IF pc = "start" THEN Cleared(rd[r], pc)
                ELSE [rd[r] EXCEPT !.pc = pc, !.rp = Start, !.size = 0]
<1>k. Known(C, T, r)
  BY ReaderKnown
<1>1. rd' = [rd EXCEPT ![r] = l] /\ rd'[r] = l
  BY <1>k DEF Known, StoreRead
<1>2. /\ l \in Local /\ l.rp = Start /\ l.id = rd[r].id /\ l.size = 0 /\ PtrOK(C, l.wp)
      /\ l.pc = pc /\ (pc = "start" => l.got = NoMsg /\ l.part = 1) /\ (pc = "check_copy" => l.got = rd[r].got)
  <2>1. NoMsg \in Torn .. MaxMsgs
    BY Sizing DEF NoMsg, Torn
  <2>2. CASE pc = "start"
    BY <1>k, <2>1, <2>2 DEF Known, Local, RdPcs, ReadPcs, FreshPcs, Cleared
  <2>3. CASE pc = "check_copy"
    BY <1>k, <2>3 DEF Known, Local, RdPcs, ReadPcs
  <2> QED BY <2>2, <2>3
<1> HIDE DEF l
<1>3. LocalOK(C, l)
  BY <1>k, <1>2 DEF Known, LocalOK, LookPcs, SizedPcs
<1>4. UNCHANGED <<num_readers, read_valids, read_uids, write_pointer, data, pub, started,
                  published, last>>
  BY DEF StoreRead
<1>5. /\ read_pointers' \in [Slots -> Pointers] /\ read_pointers'[l.id] = p
      /\ \A s \in Slots : PtrOK(C, read_pointers'[s])
      /\ \A s \in Slots \ {rd[r].id} : read_pointers'[s] = read_pointers[s]
  BY <1>k, <1>2 DEF Known, StoreRead, PtrOK
<1>6. /\ lost' \in [Readers -> BOOLEAN] /\ lost'[r] = lost[r]
      /\ \A q \in Readers \ {r} :
           /\ lost[q] => lost'[q]
           /\ ~lost'[q] => rd[q].id # rd[r].id
  BY <1>k, DisturbedType DEF Known, StoreRead
<1>7. \A q \in Readers \ {r} : lost'[q] \/ Undisturbed(q)
  BY <1>k, <1>4, <1>5, <1>6, Sizing DEF Known, Undisturbed, Local
<1>8. HistoryOK(r)'
  BY <1>k, <1>1, <1>2, <1>4, <1>6 DEF Known, HistoryOK, EvictPcs
<1>9. Footing(C, T, r)'
  <2> DEFINE b == last[r]
  <2>1. ASSUME Footed(r)', read_valids'[l.id]
        PROVE  Sighted(C, TailFor(T, l.id), l, b, p) /\ Late(l, p)
    <3>1. Footed(r) /\ read_valids[rd[r].id]
      BY <1>1, <1>2, <1>4, <1>6, <2>1 DEF Footed, ReadPcs, FreshPcs, LookPcs, SizedPcs
    <3>2. /\ Sighted(C, TailFor(T, l.id), rd[r], b, read_pointers[l.id])
          /\ Late(rd[r], read_pointers[l.id])
      BY <1>k, <1>2, <3>1 DEF Known, Footing
    <3>3. Layout(C, TailFor(T, l.id))
      BY TailForLayout DEF InvFor, Ring
    <3>4. /\ At(C, TailFor(T, l.id), a, p)
          /\ pc = "check_copy" => rd[r].got \in published /\ b < rd[r].got
      BY <1>2, <3>2, <3>3
    <3>5. Given(l, b) = a /\ SlotPtr(l, p) = p
      BY <1>2 DEF Given, SlotPtr
    <3>6. Sighted(C, TailFor(T, l.id), l, b, p)
      BY <1>2, <3>4, <3>5 DEF Sighted, LookPcs, SizedPcs
    <3>7. Late(l, p)
      BY <1>2, <3>2 DEF Late, FreshPcs
    <3> QED BY <3>6, <3>7
  <2> HIDE DEF b
  <2>2. l.pc \notin {"load_write"} \union LookPcs
    BY <1>2 DEF LookPcs, SizedPcs
  <2>3. last'[r] = b
    BY <1>4 DEF b
  <2> QED BY <1>1, <1>4, <1>5, <2>1, <2>2, <2>3, FootingAfter
<1> QED BY <1>k, <1>1, <1>3, <1>4, <1>5, <1>6, <1>7, <1>8, <1>9, ReaderStep DEF Known

LEMMA WrapReadStep ==
  ASSUME NEW C, NEW T, InvFor(C, T), NEW r \in Readers, WrapRead(r)
  PROVE  InvFor(C, T)'
<1> DEFINE p == [cycles |-> rd[r].rp.cycles + 1, ptr |-> 0]
           a == last[r]
<1>k. Known(C, T, r)
  BY ReaderKnown
<1>1. rd[r].pc = "wrap" /\ StoreRead(r, p, "start")
  BY DEF WrapRead
<1>2. rd[r].size = WrapTag
  BY <1>k, <1>1 DEF Known, LocalOK
<1>3. PtrOK(C, p)
  <2>1. rd[r].rp.cycles # W.cycles
    BY <1>k, <1>1, <1>2, Sizing DEF Known, LocalOK, SizedPcs
  <2>2. rd[r].rp.cycles \in 0 .. MaxMsgs /\ W.cycles \in 0 .. MaxMsgs
        /\ rd[r].rp.cycles <= W.cycles
    BY <1>k DEF Known, PtrOK, Pointers
  <2>3. p \in Pointers
    BY <2>1, <2>2, Sizing DEF Pointers
  <2> QED BY <1>k, <2>1, <2>2, <2>3, Sizing DEF Known, PtrOK
<1>4. ASSUME NEW T2, Sighted(C, T2, rd[r], last[r], read_pointers[rd[r].id])
      PROVE  At(C, T2, a, p)
  <2>1. SeesWrap(C, T2, rd[r], last[r])
    BY <1>1, <1>2, <1>4, Sizing DEF Sighted, SizedPcs, Sees
  <2> QED BY <1>k, <2>1 DEF Known, SeesWrap, At, CurAhead
<1> HIDE DEF p
<1>5. a = IF "start" = "check_copy" THEN rd[r].got ELSE last[r]
  OBVIOUS
<1> HIDE DEF a
<1> QED BY <1>1, <1>3, <1>4, <1>5, StoreReadStep

\* Where a reader goes that has seen the size of a message.
LEMMA NextPtrOK ==
  ASSUME NEW C, NEW T, InvFor(C, T), NEW r \in Readers, rd[r].pc \in {"skip", "store"}
  PROVE  PtrOK(C, NextPointer(rd[r])) /\ rd[r].size \in MsgSizes
<1>k. Known(C, T, r)
  BY ReaderKnown
<1>1. /\ rd[r].size \in MsgSizes /\ NextPointer(rd[r]).ptr < Size
      /\ rd[r].rp.cycles = W.cycles => NextPointer(rd[r]).ptr \in C
  BY <1>k DEF Known, LocalOK, SizedPcs
<1>2. /\ NextPointer(rd[r]) = [cycles |-> rd[r].rp.cycles, ptr |-> rd[r].rp.ptr + 1 + rd[r].size]
      /\ rd[r].rp.ptr \in Nat /\ rd[r].rp.cycles \in 0 .. MaxMsgs
  BY <1>k, NextType DEF Known
<1>3. rd[r].size \in Nat
  BY <1>1, Sizing
<1>4. NextPointer(rd[r]) \in Pointers
  BY <1>1, <1>2, <1>3, Sizing DEF Pointers
<1>5. rd[r].rp.cycles <= W.cycles
  BY <1>k DEF Known, PtrOK
<1> QED BY <1>1, <1>2, <1>4, <1>5 DEF PtrOK

LEMMA SkipMsgStep ==
  ASSUME NEW C, NEW T, InvFor(C, T), NEW r \in Readers, SkipMsg(r)
  PROVE  InvFor(C, T)'
<1> DEFINE p == NextPointer(rd[r])
           a == last[r]
<1>k. Known(C, T, r)
  BY ReaderKnown
<1>1. rd[r].pc = "skip" /\ StoreRead(r, p, "start")
  BY DEF SkipMsg
<1>2. PtrOK(C, p) /\ rd[r].size \in MsgSizes
  BY <1>1, NextPtrOK
<1>3. ASSUME NEW T2, Layout(C, T2), Sighted(C, T2, rd[r], last[r], read_pointers[rd[r].id])
      PROVE  At(C, T2, a, p)
  <2>1. PICK m \in published : Sees(C, T2, rd[r], last[r], m)
    BY <1>1, <1>2, <1>3, Sizing DEF Sighted, SizedPcs, SeesWrap
  <2>2. At(C, T2, m, p) /\ a < m
    BY <2>1 DEF Sees
  <2>3. a \in Int /\ m \in Int
    <3>1. published \subseteq 1 .. started
      BY DEF InvFor, Types
    <3> QED BY <1>k, <3>1 DEF Known
  <2> HIDE DEF p, a
  <2> QED BY <1>3, <2>2, <2>3, AtWeaken DEF InvFor
<1> HIDE DEF p
<1>4. a = IF "start" = "check_copy" THEN rd[r].got ELSE last[r]
  OBVIOUS
<1> HIDE DEF a
<1> QED BY <1>1, <1>2, <1>3, <1>4, StoreReadStep

LEMMA StorePointerStep ==
  ASSUME NEW C, NEW T, InvFor(C, T), NEW r \in Readers, StorePointer(r)
  PROVE  InvFor(C, T)'
<1> DEFINE p == NextPointer(rd[r])
           a == rd[r].got
<1>1. rd[r].pc = "store" /\ StoreRead(r, p, "check_copy")
  BY DEF StorePointer
<1>2. PtrOK(C, p) /\ rd[r].size \in MsgSizes
  BY <1>1, NextPtrOK
<1>3. ASSUME NEW T2, Sighted(C, T2, rd[r], last[r], read_pointers[rd[r].id])
      PROVE  At(C, T2, a, p) /\ rd[r].got \in published /\ last[r] < rd[r].got
  <2>1. PICK m \in published : Sees(C, T2, rd[r], last[r], m)
    BY <1>1, <1>2, <1>3, Sizing DEF Sighted, SizedPcs, SeesWrap
  <2> QED BY <1>1, <2>1 DEF Sees
<1> HIDE DEF p
<1>4. a = IF "check_copy" = "check_copy" THEN rd[r].got ELSE last[r]
  OBVIOUS
<1> HIDE DEF a
<1> QED BY <1>1, <1>2, <1>3, <1>4, StoreReadStep

LEMMA CheckCopyStep ==
  ASSUME NEW C, NEW T, InvFor(C, T), NEW r \in Readers, CheckCopy(r)
  PROVE  InvFor(C, T)'
<1> DEFINE valid == read_valids[rd[r].id]
           l == Cleared(rd[r], IF valid THEN "idle" ELSE "reset")
           a == IF valid THEN rd[r].got ELSE last[r]
           p == read_pointers[rd[r].id]
<1>k. Known(C, T, r)
  BY ReaderKnown
<1>1. /\ rd' = [rd EXCEPT ![r] = l] /\ rd'[r] = l /\ rd[r].pc = "check_copy"
      /\ last'[r] = a /\ \A q \in Readers \ {r} : last'[q] = last[q]
      /\ last' \in [Readers -> Torn .. MaxMsgs]
  BY <1>k DEF Known, CheckCopy, Local
<1>2. /\ l \in Local /\ l.rp = Start /\ l.wp = Start
      /\ l.got = NoMsg /\ l.part = 1 /\ l.id = rd[r].id
      /\ l.pc = IF valid THEN "idle" ELSE "reset"
  <2>1. NoMsg \in Torn .. MaxMsgs
    BY Sizing DEF NoMsg, Torn
  <2> QED BY <1>k, <2>1 DEF Known, Local, RdPcs, ReadPcs, FreshPcs, Cleared
<1> HIDE DEF l
<1>3. LocalOK(C, l)
  BY <1>k, <1>2, OutsideLocal DEF Known, LookPcs, SizedPcs
<1>4. UNCHANGED <<num_readers, read_pointers, read_valids, read_uids, write_pointer, data,
                  pub, started, published, lost>>
  BY DEF CheckCopy, shared
<1>5. \A q \in Readers : Undisturbed(q)
  BY <1>k, <1>4, OthersKeep, Sizing DEF Known
<1>6. ASSUME ~lost[r], valid
      PROVE  /\ Sighted(C, TailFor(T, l.id), rd[r], last[r], p) /\ Late(rd[r], p)
             /\ rd[r].got \in published
  <2>1. Footed(r)
    BY <1>1, <1>6 DEF Footed, ReadPcs
  <2> QED BY <1>k, <1>1, <1>2, <1>6, <2>1 DEF Known, Footing, Sighted
<1>7. HistoryOK(r)'
  BY <1>k, <1>1, <1>2, <1>4, <1>6 DEF Known, HistoryOK, EvictPcs
<1>8. Footing(C, T, r)'
  <2>1. ASSUME Footed(r)', read_valids'[l.id]
        PROVE  Sighted(C, TailFor(T, l.id), l, a, p) /\ Late(l, p)
    <3>1. ~lost[r] /\ valid
      BY <1>1, <1>2, <1>4, <2>1 DEF Footed
    <3>2. /\ Sighted(C, TailFor(T, l.id), rd[r], last[r], p) /\ Late(rd[r], p)
      BY <1>6, <3>1
    <3>3. At(C, TailFor(T, l.id), a, p)
      BY <1>1, <3>1, <3>2 DEF Sighted, Given, SlotPtr
    <3>4. Sighted(C, TailFor(T, l.id), l, a, p)
      BY <1>2, <3>1, <3>3 DEF Sighted, Given, SlotPtr, LookPcs, SizedPcs
    <3>5. Late(l, p)
      BY <1>1, <1>2, <3>2 DEF Late, FreshPcs
    <3> QED BY <3>4, <3>5
  <2>2. l.pc \notin {"load_write"} \union LookPcs
    BY <1>2 DEF LookPcs, SizedPcs
  <2>3. read_pointers'[l.id] = p
    BY <1>2, <1>4
  <2> HIDE DEF a, p
  <2> QED BY <1>1, <1>4, <2>1, <2>2, <2>3, FootingAfter
<1> HIDE DEF a
<1>9. /\ num_readers' \in 0 .. NUM_READERS /\ read_pointers' \in [Slots -> Pointers]
      /\ read_valids' \in [Slots -> BOOLEAN] /\ lost' \in [Readers -> BOOLEAN]
      /\ read_uids' \in [Slots -> Readers \union {NoReader}]
      /\ \A s \in Slots : PtrOK(C, read_pointers'[s])
      /\ \A q \in Readers : lost[q] => lost'[q]
  BY <1>k, <1>4 DEF Known
<1> QED BY <1>1, <1>3, <1>4, <1>5, <1>7, <1>8, <1>9, ReaderStep

LEMMA ReaderNext ==
  ASSUME NEW C, NEW T, InvFor(C, T), NEW r \in Readers, RecvStep(r) \/ RestartReader(r)
  PROVE  InvFor(C, T)'
BY TakeSlotStep, EvictAllStep, EvictValidStep, EvictUidStep, OwnValidStep, OwnPointerStep,
   OwnUidStep, ResetValidStep, ResetLoadStep, ResetStoreStep, CheckUidStep, CheckValidStep,
   LoadReadStep, LoadWriteStep, LoadSizeStep, CheckSizeStep, WrapReadStep, SkipMsgStep,
   CopyStep, StorePointerStep, CheckCopyStep, RestartReaderStep DEF RecvStep

-----------------------------------------------------------------------------
(* The steps of the publisher. *)

\* No step of the publisher touches a reader's variables or its pointer; what it
\* does to the ring and to the flags has to leave those in sight where they were.
LEMMA PublisherStep ==
  ASSUME NEW C, NEW T, InvFor(C, T), NEW C2, NEW T2,
         UNCHANGED <<read_pointers, rd, last>>,
         num_readers' \in 0 .. NUM_READERS, write_pointer' \in Pointers,
         read_valids' \in [Slots -> BOOLEAN],
         read_uids' \in [Slots -> Readers \union {NoReader}],
         data' \in [0 .. Size - 1 -> Words], lost' \in [Readers -> BOOLEAN],
         pub' \in Publisher, started' \in 0 .. MaxMsgs,
         published' \subseteq 1 .. started', published \subseteq published',
         TagsFit', Publishing', Copying', NewestKnown', Layout(C2, T2)',
         (pub.pc = "copy" => T2 \intersect Area(pub) = {})',
         \A s \in Slots : PtrOK(C2, read_pointers[s])',
         \A r \in Readers : LocalOK(C2, rd[r])',
         \A r \in Readers : (lost[r] => lost'[r]) /\ (lost'[r] \/ Undisturbed(r)),
         \A r \in Readers :
           /\ Footed(r) /\ ~lost'[r] /\ read_valids'[rd[r].id]
           /\ rd[r].pc \in {"load_write"} \union LookPcs => rd[r].rp = read_pointers[rd[r].id]
           /\ Sighted(C, TailFor(T, rd[r].id), rd[r], last[r], read_pointers[rd[r].id])
           /\ Late(rd[r], read_pointers[rd[r].id])
           => /\ Sighted(C2, TailFor(T2, rd[r].id), rd[r], last[r], read_pointers[rd[r].id])'
              /\ Late(rd[r], read_pointers[rd[r].id])'
  PROVE  InvFor(C2, T2)'
<1>1. Types'
  BY DEF InvFor, Types, TypeOK
<1>2. ASSUME NEW r \in Readers
      PROVE  HistoryOK(r)' /\ Footing(C2, T2, r)'
  <2>k. Known(C, T, r)
    BY ReaderKnown
  <2>1. HistoryOK(r)'
    <3>1. rd[r].id \in Nat /\ num_readers \in Nat
      BY <2>k, Sizing DEF Known, Slots
    <3> QED BY <2>k, <3>1 DEF Known, HistoryOK, Undisturbed
  <2>2. ASSUME Footed(r)'
        PROVE  Footed(r) /\ ~lost'[r] /\ Undisturbed(r)
    BY <2>2 DEF Footed, Undisturbed
  <2>3. ASSUME Footed(r)', read_valids'[rd[r].id]
        PROVE  /\ Sighted(C2, TailFor(T2, rd[r].id), rd[r], last[r], read_pointers[rd[r].id])'
               /\ Late(rd[r], read_pointers[rd[r].id])'
    <3>1. Footed(r) /\ ~lost'[r] /\ read_valids[rd[r].id]
      BY <2>2, <2>3 DEF Undisturbed
    <3>2. /\ rd[r].pc \in {"load_write"} \union LookPcs => rd[r].rp = read_pointers[rd[r].id]
          /\ Sighted(C, TailFor(T, rd[r].id), rd[r], last[r], read_pointers[rd[r].id])
          /\ Late(rd[r], read_pointers[rd[r].id])
      BY <2>k, <3>1 DEF Known, Footing
    <3> QED BY <2>3, <3>1, <3>2
  <2>4. Footing(C2, T2, r)'
    <3> SUFFICES ASSUME Footed(r)' PROVE Footing(C2, T2, r)'
      BY DEF Footing
    <3>1. Footed(r)
      BY <2>2
    <3>2. rd'[r].pc \in {"load_write"} \union LookPcs => rd'[r].rp = read_pointers'[rd'[r].id]
      BY <2>k, <3>1 DEF Known, Footing
    <3> QED BY <2>3, <3>2 DEF Footing
  <2> QED BY <2>1, <2>4
<1>3. Ring(C2, T2)'
  BY <1>2 DEF Ring, ReadersOK
<1> QED BY <1>1, <1>3 DEF InvFor

\* What the invariant says of the publisher and the ring.
PubKnown(C, T) ==
  /\ num_readers \in 0 .. NUM_READERS /\ W \in Pointers
  /\ W.ptr \in Nat /\ W.ptr < Size /\ W.cycles \in 0 .. MaxMsgs
  /\ read_pointers \in [Slots -> Pointers]
  /\ read_valids \in [Slots -> BOOLEAN]
  /\ read_uids \in [Slots -> Readers \union {NoReader}]
  /\ data \in [0 .. Size - 1 -> Words]
  /\ lost \in [Readers -> BOOLEAN] /\ started \in 0 .. MaxMsgs
  /\ published \subseteq 1 .. started
  /\ pub \in Publisher /\ pub.pc \in PubPcs /\ pub.i \in Nat /\ pub.n \in 0 .. NUM_READERS
  /\ pub.size \in MsgSizes \union {0} /\ pub.wp \in Pointers
  /\ Layout(C, T) /\ W.ptr \in C /\ 0 \in C
  /\ TagsFit /\ Publishing /\ Copying /\ NewestKnown
  /\ pub.pc = "copy" => T \intersect Area(pub) = {}
  /\ \A s \in Slots : PtrOK(C, read_pointers[s])
  /\ \A r \in Readers : LocalOK(C, rd[r]) /\ HistoryOK(r) /\ rd[r].id \in Slots

LEMMA PublisherKnown ==
  ASSUME NEW C, NEW T, InvFor(C, T)
  PROVE  PubKnown(C, T)
<1>1. Types /\ Ring(C, T) /\ TagsFit /\ Publishing /\ Copying /\ NewestKnown
  BY DEF InvFor
<1>2. W \in Pointers
  BY <1>1 DEF Types, TypeOK, W
<1>3. W.ptr \in Nat /\ W.ptr < Size /\ W.cycles \in 0 .. MaxMsgs
  BY <1>2, Sizing DEF Pointers
<1>4. pub \in Publisher /\ pub.pc \in PubPcs /\ pub.i \in Nat /\ pub.n \in 0 .. NUM_READERS
      /\ pub.size \in MsgSizes \union {0} /\ pub.wp \in Pointers
  BY <1>1 DEF Types, Publisher
<1>5. Layout(C, T) /\ W.ptr \in C /\ 0 \in C
      /\ \A s \in Slots : PtrOK(C, read_pointers[s])
      /\ \A r \in Readers : LocalOK(C, rd[r]) /\ HistoryOK(r)
  BY <1>1 DEF Ring, Layout, Lap, ReadersOK
<1>6. pub.pc = "copy" => T \intersect Area(pub) = {}
  BY <1>1 DEF Ring
<1> QED BY <1>1, <1>2, <1>3, <1>4, <1>5, <1>6 DEF PubKnown, Types, TypeOK, W

\* Steps that write neither to the ring nor to the write pointer.
LEMMA RingKept ==
  ASSUME NEW C, NEW T, InvFor(C, T),
         UNCHANGED <<read_pointers, rd, last, write_pointer, data, published>>,
         num_readers' \in 0 .. NUM_READERS,
         read_valids' \in [Slots -> BOOLEAN],
         read_uids' \in [Slots -> Readers \union {NoReader}],
         lost' \in [Readers -> BOOLEAN],
         pub' \in Publisher, pub'.pc # "copy",
         started' \in 0 .. MaxMsgs, started <= started',
         Publishing',
         \A r \in Readers : (lost[r] => lost'[r]) /\ (lost'[r] \/ Undisturbed(r)),
         \A r \in Readers :
           /\ Footed(r) /\ ~lost'[r] /\ read_valids'[rd[r].id]
           /\ rd[r].pc \in {"load_write"} \union LookPcs => rd[r].rp = read_pointers[rd[r].id]
           /\ Sighted(C, TailFor(T, rd[r].id), rd[r], last[r], read_pointers[rd[r].id])
           /\ Late(rd[r], read_pointers[rd[r].id])
           => /\ \A T2 : T2 = TailFor(T, rd[r].id)' =>
                   Sighted(C, T2, rd[r], last[r], read_pointers[rd[r].id])
              /\ Late(rd[r], read_pointers[rd[r].id])'
  PROVE  InvFor(C, T)'
<1>k. PubKnown(C, T)
  BY PublisherKnown
<1>1. published' \subseteq 1 .. started' /\ published \subseteq published'
  BY <1>k DEF PubKnown
<1>2. TagsFit' /\ Copying' /\ NewestKnown' /\ Layout(C, T)'
  BY <1>k, SameLayout DEF PubKnown, TagsFit, SizeAt, Copying, NewestKnown
<1>3. \A s \in Slots : PtrOK(C, read_pointers[s])'
  BY <1>k DEF PubKnown, PtrOK, W
<1>4. \A r \in Readers : LocalOK(C, rd[r])'
  BY <1>k, SameLocal DEF PubKnown
<1>5. ASSUME NEW r \in Readers,
             Footed(r) /\ ~lost'[r] /\ read_valids'[rd[r].id],
             rd[r].pc \in {"load_write"} \union LookPcs => rd[r].rp = read_pointers[rd[r].id],
             Sighted(C, TailFor(T, rd[r].id), rd[r], last[r], read_pointers[rd[r].id]),
             Late(rd[r], read_pointers[rd[r].id])
      PROVE  /\ Sighted(C, TailFor(T, rd[r].id), rd[r], last[r], read_pointers[rd[r].id])'
             /\ Late(rd[r], read_pointers[rd[r].id])'
  <2>1. PICK l, a, p, T2 : /\ l = rd[r] /\ a = last[r] /\ p = read_pointers[rd[r].id]
                           /\ T2 = TailFor(T, rd[r].id)'
    OBVIOUS
  <2>2. Sighted(C, T2, l, a, p) /\ Late(rd[r], read_pointers[rd[r].id])'
    BY <1>5, <2>1
  <2>3. Sighted(C, T2, l, a, p)'
    BY <2>2, SameSight
  <2>4. l = rd'[r] /\ a = last'[r] /\ p = read_pointers'[rd'[r].id]
    BY <2>1
  <2> QED BY <2>1, <2>2, <2>3, <2>4
<1> QED BY <1>k, <1>1, <1>2, <1>3, <1>4, <1>5, PublisherStep DEF PubKnown, W

LEMMA SendStep ==
  ASSUME NEW C, NEW T, InvFor(C, T), NEW n \in MsgSizes, Send(n)
  PROVE  InvFor(C, T)'
<1>k. PubKnown(C, T)
  BY PublisherKnown
<1>1. /\ pub.pc = "idle" /\ started < MaxMsgs /\ started' = started + 1
      /\ pub' = [pc |-> IF MustWrap(W.ptr, n) THEN "tag" ELSE "scan",
                 n |-> num_readers, i |-> 0, size |-> n, wp |-> W]
      /\ UNCHANGED <<num_readers, read_pointers, read_valids, read_uids, rd, last, lost,
                     write_pointer, data, published>>
  BY DEF Send, shared, history, W
<1>2. started' \in 0 .. MaxMsgs /\ started <= started' /\ started' > 0 /\ W.cycles < started'
      /\ started' \notin published
  <2>1. W.cycles <= started
    BY <1>k DEF PubKnown, Publishing
  <2> QED BY <1>k, <1>1, <2>1, Sizing DEF PubKnown
<1>3. pub' \in Publisher /\ pub'.pc # "copy"
  BY <1>k, <1>1 DEF PubKnown, Publisher, PubPcs, WrapPcs, AreaPcs
<1>4. Publishing'
  <2>1. W' = W
    BY <1>1 DEF W
  <2>2. pub'.pc = IF MustWrap(W.ptr, n) THEN "tag" ELSE "scan"
    BY <1>1
  <2>3. pub'.size = n /\ pub'.wp = W /\ published' = published
    BY <1>1
  <2>4. W.cycles <= started'
    BY <1>k, <1>2 DEF PubKnown
  <2>5. MustWrap(W.ptr, pub.size)' <=> MustWrap(W.ptr, n)
    BY <2>1, <2>3 DEF MustWrap
  <2>6. CASE MustWrap(W.ptr, n)
    <3>1. pub'.pc = "tag"
      BY <2>2, <2>6
    <3> QED BY <1>2, <2>1, <2>3, <2>4, <2>5, <2>6, <3>1
            DEF Publishing, WrapPcs, AreaPcs, InitPcs
  <2>7. CASE ~MustWrap(W.ptr, n)
    <3>1. pub'.pc = "scan"
      BY <2>2, <2>7
    <3> QED BY <1>2, <2>1, <2>3, <2>4, <2>5, <2>7, <3>1
            DEF Publishing, WrapPcs, AreaPcs, InitPcs
  <2> QED BY <2>6, <2>7
<1>5. ASSUME NEW r \in Readers, Footed(r), Late(rd[r], read_pointers[rd[r].id])
      PROVE  /\ TailFor(T, rd[r].id)' = TailFor(T, rd[r].id)
             /\ Late(rd[r], read_pointers[rd[r].id])'
  <2>1. rd[r].id < num_readers /\ rd[r].id \in Nat /\ num_readers \in Nat
    <3>1. ~lost[r] /\ rd[r].pc \notin EvictPcs
      BY <1>5 DEF Footed, EvictPcs, ReadPcs, FreshPcs, LookPcs, SizedPcs
    <3>2. HistoryOK(r) /\ rd[r].id \in Slots /\ num_readers \in Nat
      BY <1>k, Sizing DEF PubKnown
    <3> QED BY <3>1, <3>2, Sizing DEF HistoryOK, Slots
  <2>2. ~Scanned(rd[r].id) /\ ~Scanned(rd[r].id)'
    BY <1>1, <2>1 DEF Scanned
  <2>3. ~(rd[r].id >= pub'.n)
    BY <1>1, <2>1
  <2> QED BY <1>1, <2>2, <2>3 DEF TailFor, Late
<1>6. \A r \in Readers : Undisturbed(r)
  BY <1>k, <1>1, OthersKeep, Sizing DEF PubKnown
<1> QED BY <1>k, <1>1, <1>2, <1>3, <1>4, <1>5, <1>6, RingKept DEF PubKnown

\* What a reader that is not in the area sees once its part of the tail is gone.
LEMMA SightCleared ==
  ASSUME NEW C, NEW T, Layout(C, T), W.ptr \in Nat, pub.wp = W, pub.size \in Nat,
         NEW l \in Local, NEW a, NEW p \in Pointers,
         ~InArea(SlotPtr(l, p)), l.pc \in LookPcs => l.rp = p,
         l.size \in MsgSizes => l.size \in Nat,
         Sighted(C, T, l, a, p)
  PROVE  Sighted(C, T \ Area(pub), l, a, p)
<1> DEFINE T2 == T \ Area(pub)
<1>n. /\ NextPointer(l).cycles = l.rp.cycles /\ NextPointer(l).ptr = l.rp.ptr + 1 + l.size
      /\ l.rp.ptr \in Nat
  BY NextType
<1>1. ASSUME NEW b, NEW q, q.cycles # W.cycles => q.ptr \notin Area(pub)
      PROVE  /\ At(C, T, b, q) => At(C, T2, b, q)
             /\ Inside(C, T, b, q) => Inside(C, T2, b, q)
  BY <1>1 DEF At, Inside, TailAhead
<1>2. At(C, T2, Given(l, a), SlotPtr(l, p))
  BY <1>1 DEF Sighted, InArea
<1>3. ASSUME l.pc \in LookPcs
      PROVE  /\ Inside(C, T2, a, p)
             /\ l.rp = p /\ (p.cycles # W.cycles => p.ptr \notin Area(pub))
  <2>1. SlotPtr(l, p) = p
    BY <1>3 DEF SlotPtr, LookPcs, SizedPcs
  <2>2. l.rp = p /\ (p.cycles # W.cycles => p.ptr \notin Area(pub))
    BY <1>3, <2>1 DEF InArea
  <2> QED BY <1>1, <1>3, <2>2 DEF Sighted
<1>4. ASSUME l.pc \in SizedPcs
      PROVE  SeesWrap(C, T2, l, a) \/ \E m \in published : Sees(C, T2, l, a, m)
  <2>1. l.pc \in LookPcs
    BY <1>4 DEF LookPcs
  <2>2. CASE SeesWrap(C, T, l, a)
    BY <1>3, <2>1, <2>2 DEF SeesWrap
  <2>3. ASSUME NEW m \in published, Sees(C, T, l, a, m)
        PROVE  Sees(C, T2, l, a, m)
    <3> DEFINE next == NextPointer(l)
    <3>1. At(C, T, m, next) /\ (l.rp.ptr < W.ptr => next.ptr <= W.ptr) /\ l.size \in Nat
      BY <2>3 DEF Sees
    <3>2. C \subseteq 0 .. W.ptr /\ W.ptr \in C /\ T \subseteq W.ptr .. Size - 1
      BY DEF Layout, Lap, Tail
    <3>3. At(C, T2, m, next)
      <4>1. CASE next.cycles # W.cycles /\ next.ptr \in Area(pub) /\ TailAhead(C, T, m, next.ptr)
        <5>1. next.ptr >= W.ptr /\ next.ptr <= W.ptr + pub.size /\ l.rp.ptr < next.ptr
          BY <1>n, <3>1, <4>1 DEF Area
        <5>2. l.rp.ptr \notin W.ptr .. W.ptr + pub.size
          BY <1>3, <1>n, <2>1, <4>1 DEF Area
        <5>3. l.rp.ptr < W.ptr
          BY <1>n, <5>1, <5>2, <3>1
        <5>4. next.ptr = W.ptr
          BY <1>n, <3>1, <5>1, <5>3
        <5>5. CurAhead(C, m, next.ptr)
          BY <3>2, <5>4 DEF CurAhead
        <5> QED BY <5>5 DEF At
      <4>2. CASE CurAhead(C, m, next.ptr)
        BY <4>2 DEF At
      <4>3. CASE next.cycles # W.cycles => next.ptr \notin Area(pub)
        BY <1>1, <3>1, <4>3
      <4> QED BY <3>1, <4>1, <4>2, <4>3 DEF At
    <3> QED BY <2>3, <3>3 DEF Sees
  <2>4. SeesWrap(C, T, l, a) \/ \E m \in published : Sees(C, T, l, a, m)
    BY <1>4 DEF Sighted
  <2> QED BY <2>2, <2>3, <2>4
<1> QED BY <1>2, <1>3, <1>4 DEF Sighted

LEMMA LoadReadPointerStep ==
  ASSUME NEW C, NEW T, InvFor(C, T), LoadReadPointer
  PROVE  InvFor(C, T)'
<1> DEFINE hit == InTheWay(read_pointers[pub.i])
<1>k. PubKnown(C, T)
  BY PublisherKnown
<1>1. /\ pub.pc \in {"wrap_scan", "scan"} /\ pub.i < pub.n
      /\ pub' = IF hit THEN [pub EXCEPT !.pc = IF @ = "scan" THEN "invalidate" ELSE "wrap_invalidate"]
                ELSE [pub EXCEPT !.i = @ + 1]
      /\ lost' = [r \in Readers |-> lost[r] \/ r \in Overtaken]
      /\ UNCHANGED <<num_readers, read_pointers, read_valids, read_uids, rd, last,
                     write_pointer, data, published, started>>
  BY DEF LoadReadPointer, Scanning, shared
<1>h. hit = IF pub.pc = "wrap_scan" THEN Beyond(read_pointers[pub.i]) ELSE InArea(read_pointers[pub.i])
  BY DEF InTheWay
<1>o. \A r \in Readers : r \in Overtaken <=>
        /\ rd[r].pc = "reset_store" /\ rd[r].id = pub.i
        /\ IF pub.pc = "wrap_scan" THEN Beyond(rd[r].wp) ELSE InArea(rd[r].wp)
  BY DEF Overtaken, InTheWay
<1> HIDE DEF hit
<1>2. /\ pub'.n = pub.n /\ pub'.size = pub.size /\ pub'.wp = pub.wp /\ pub' \in Publisher
      /\ pub'.pc # "copy" /\ pub'.i \in Nat
      /\ pub.pc = "scan" => pub'.pc \in {"scan", "invalidate"}
      /\ pub.pc = "wrap_scan" => pub'.pc \in {"wrap_scan", "wrap_invalidate"}
      /\ pub'.pc \in {"invalidate", "wrap_invalidate"} => pub'.i = pub.i
      /\ pub'.i = pub.i \/ (pub'.i = pub.i + 1 /\ ~hit)
  BY <1>k, <1>1 DEF PubKnown, Publisher, PubPcs, WrapPcs, AreaPcs
<1>3. Publishing'
  <2>1. W' = W
    BY <1>1 DEF W
  <2>2. MustWrap(W.ptr, pub.size)' <=> MustWrap(W.ptr, pub.size)
    BY <1>2, <2>1 DEF MustWrap
  <2>3. IsWrapTag(W.ptr)' <=> IsWrapTag(W.ptr)
    BY <1>1, <2>1 DEF IsWrapTag
  <2>4. Publishing
    BY <1>k DEF PubKnown
  <2>5. CASE pub.pc = "scan"
    BY <1>1, <1>2, <2>1, <2>2, <2>4, <2>5 DEF Publishing, WrapPcs, AreaPcs, InitPcs
  <2>6. CASE pub.pc = "wrap_scan"
    BY <1>1, <1>2, <2>1, <2>2, <2>3, <2>4, <2>6 DEF Publishing, WrapPcs, AreaPcs, InitPcs
  <2> QED BY <1>1, <2>5, <2>6
<1>4. lost' \in [Readers -> BOOLEAN] /\ \A r \in Readers : lost[r] => lost'[r]
  BY <1>k, <1>1 DEF PubKnown
<1>5. \A r \in Readers : Undisturbed(r)
  BY <1>k, <1>1, OthersKeep, Sizing DEF PubKnown
<1>6. ASSUME NEW r \in Readers, ~lost'[r],
             rd[r].pc \in {"load_write"} \union LookPcs => rd[r].rp = read_pointers[rd[r].id],
             Sighted(C, TailFor(T, rd[r].id), rd[r], last[r], read_pointers[rd[r].id]),
             Late(rd[r], read_pointers[rd[r].id]),
             NEW T2, T2 = TailFor(T, rd[r].id)'
      PROVE  /\ Sighted(C, T2, rd[r], last[r], read_pointers[rd[r].id])
             /\ Late(rd[r], read_pointers[rd[r].id])'
  <2> DEFINE s == rd[r].id
  <2>i. s \in Nat /\ pub.i \in Nat /\ pub.n \in Nat
    BY <1>k, Sizing DEF PubKnown, Slots
  <2>1. CASE pub.pc = "wrap_scan"
    <3>1. ~Scanned(s) /\ ~Scanned(s)'
      BY <1>2, <2>1 DEF Scanned
    <3>2. T2 = TailFor(T, s)
      BY <1>6, <3>1 DEF TailFor
    <3>3. Late(rd[r], read_pointers[rd[r].id])'
      BY <1>1, <1>2, <1>6, <2>1 DEF Late, WrapPcs, W, SlotPtr
    <3> QED BY <1>6, <3>2, <3>3
  <2>2. CASE pub.pc = "scan"
    <3>a. pub'.pc \in {"scan", "invalidate"} /\ Area(pub') = Area(pub)
      BY <1>2, <2>2 DEF Area
    <3>l. Late(rd[r], read_pointers[rd[r].id])'
      BY <3>a DEF Late, WrapPcs
    <3>1. CASE Scanned(s)' <=> Scanned(s)
      <4>1. T2 = TailFor(T, s)
        BY <1>6, <3>1, <3>a DEF TailFor
      <4> QED BY <1>6, <3>l, <4>1
    <3>2. CASE ~(Scanned(s)' <=> Scanned(s))
      <4>1. s = pub.i /\ ~hit /\ ~Scanned(s) /\ Scanned(s)'
        BY <1>1, <1>2, <2>i, <2>2, <3>2, <3>a DEF Scanned
      <4>2. T2 = T \ Area(pub) /\ TailFor(T, s) = T
        BY <1>6, <4>1, <3>a DEF TailFor
      <4>3. ~InArea(SlotPtr(rd[r], read_pointers[s]))
        BY <1>1, <1>6, <1>h, <1>o, <2>2, <4>1 DEF SlotPtr
      <4>4. pub.wp = W /\ pub.size \in MsgSizes
        BY <1>k, <2>2 DEF PubKnown, Publishing, AreaPcs
      <4>5. pub.size \in Nat /\ (rd[r].size \in MsgSizes => rd[r].size \in Nat)
        BY <4>4, Sizing
      <4>6. rd[r] \in Local /\ read_pointers[s] \in Pointers /\ W.ptr \in Nat /\ Layout(C, T)
        BY <1>k DEF PubKnown, LocalOK
      <4>7. Sighted(C, T, rd[r], last[r], read_pointers[s])
        BY <1>6, <4>2
      <4>8. rd[r].pc \in LookPcs => rd[r].rp = read_pointers[s]
        BY <1>6
      <4> DEFINE l == rd[r]
                 a == last[r]
                 p == read_pointers[s]
      <4>9. l \in Local /\ p \in Pointers /\ ~InArea(SlotPtr(l, p)) /\ Sighted(C, T, l, a, p)
            /\ (l.pc \in LookPcs => l.rp = p) /\ (l.size \in MsgSizes => l.size \in Nat)
        BY <4>3, <4>5, <4>6, <4>7, <4>8
      <4> HIDE DEF l, a, p
      <4>10. Sighted(C, T \ Area(pub), l, a, p)
        BY <4>4, <4>5, <4>6, <4>9, SightCleared
      <4> QED BY <3>l, <4>2, <4>10 DEF l, a, p
    <3> QED BY <3>1, <3>2
  <2> QED BY <1>1, <2>1, <2>2
<1>7. UNCHANGED <<read_pointers, rd, last, write_pointer, data, published>>
      /\ started' \in 0 .. MaxMsgs /\ started <= started'
      /\ num_readers' \in 0 .. NUM_READERS
      /\ read_valids' \in [Slots -> BOOLEAN]
      /\ read_uids' \in [Slots -> Readers \union {NoReader}]
  BY <1>k, <1>1, Sizing DEF PubKnown
<1> QED BY <1>2, <1>3, <1>4, <1>5, <1>6, <1>7, RingKept

LEMMA InvalidateStep ==
  ASSUME NEW C, NEW T, InvFor(C, T), Invalidate
  PROVE  InvFor(C, T)'
<1>k. PubKnown(C, T)
  BY PublisherKnown
<1>1. /\ pub.pc \in {"invalidate", "wrap_invalidate"}
      /\ read_valids' = [read_valids EXCEPT ![pub.i] = FALSE]
      /\ pub' = [pub EXCEPT !.i = @ + 1,
                            !.pc = IF @ = "invalidate" THEN "scan" ELSE "wrap_scan"]
      /\ UNCHANGED <<num_readers, read_pointers, read_uids, rd, last, lost, write_pointer,
                     data, published, started>>
  BY DEF Invalidate, history
<1>2. /\ pub'.n = pub.n /\ pub'.size = pub.size /\ pub'.wp = pub.wp /\ pub' \in Publisher
      /\ pub'.pc # "copy" /\ pub'.i = pub.i + 1
      /\ pub'.pc = IF pub.pc = "invalidate" THEN "scan" ELSE "wrap_scan"
  <2>1. pub \in Publisher /\ pub.i + 1 \in Nat
    BY <1>k DEF PubKnown
  <2>2. CASE pub.pc = "invalidate"
    <3>1. pub' = [pub EXCEPT !.i = @ + 1, !.pc = "scan"]
      BY <1>1, <2>1, <2>2 DEF Publisher
    <3> QED BY <2>1, <2>2, <3>1 DEF Publisher, PubPcs, AreaPcs
  <2>3. CASE pub.pc = "wrap_invalidate"
    <3>1. pub' = [pub EXCEPT !.i = @ + 1, !.pc = "wrap_scan"]
      BY <1>1, <2>1, <2>3 DEF Publisher
    <3> QED BY <2>1, <2>3, <3>1 DEF Publisher, PubPcs, WrapPcs
  <2> QED BY <1>1, <2>2, <2>3
<1>3. Publishing'
  <2>1. W' = W
    BY <1>1 DEF W
  <2>2. MustWrap(W.ptr, pub.size)' <=> MustWrap(W.ptr, pub.size)
    BY <1>2, <2>1 DEF MustWrap
  <2>3. IsWrapTag(W.ptr)' <=> IsWrapTag(W.ptr)
    BY <1>1, <2>1 DEF IsWrapTag
  <2>4. Publishing
    BY <1>k DEF PubKnown
  <2>5. CASE pub.pc = "invalidate"
    BY <1>1, <1>2, <2>1, <2>2, <2>4, <2>5 DEF Publishing, WrapPcs, AreaPcs, InitPcs
  <2>6. CASE pub.pc = "wrap_invalidate"
    BY <1>1, <1>2, <2>1, <2>2, <2>3, <2>4, <2>6 DEF Publishing, WrapPcs, AreaPcs, InitPcs
  <2> QED BY <1>1, <2>5, <2>6
<1>4. /\ read_valids' \in [Slots -> BOOLEAN] /\ (pub.i \in Slots => ~read_valids'[pub.i])
      /\ \A s \in Slots : read_valids'[s] => read_valids[s]
  BY <1>k, <1>1 DEF PubKnown
<1>5. \A r \in Readers : Undisturbed(r)
  <2>1. ASSUME NEW r \in Readers
        PROVE  Undisturbed(r)
    <3>1. rd[r].id \in Slots /\ num_readers \in Nat
      BY <1>k, Sizing DEF PubKnown
    <3> QED BY <1>1, <1>4, <3>1 DEF Undisturbed
  <2> QED BY <2>1
<1>6. ASSUME NEW r \in Readers, read_valids'[rd[r].id],
             Sighted(C, TailFor(T, rd[r].id), rd[r], last[r], read_pointers[rd[r].id]),
             Late(rd[r], read_pointers[rd[r].id]),
             NEW T2, T2 = TailFor(T, rd[r].id)'
      PROVE  /\ Sighted(C, T2, rd[r], last[r], read_pointers[rd[r].id])
             /\ Late(rd[r], read_pointers[rd[r].id])'
  <2> DEFINE s == rd[r].id
  <2>i. s \in Nat /\ pub.i \in Nat /\ pub.n \in Nat /\ s \in Slots
    BY <1>k, Sizing DEF PubKnown, Slots
  <2>1. s # pub.i /\ rd' = rd
    BY <1>1, <1>4, <1>6, <2>i
  <2>2. Scanned(s)' <=> Scanned(s)
    BY <1>1, <1>2, <2>1, <2>i DEF Scanned
  <2>3. Area(pub)' = Area(pub)
    BY <1>2 DEF Area
  <2>4. T2 = TailFor(T, s)
    BY <1>6, <2>1, <2>2, <2>3 DEF TailFor
  <2>5. Late(rd[r], read_pointers[rd[r].id])'
    BY <1>1, <1>2, <1>6 DEF Late, WrapPcs, W, SlotPtr
  <2> QED BY <1>6, <2>4, <2>5
<1>7. UNCHANGED <<read_pointers, rd, last, write_pointer, data, published>>
      /\ started' \in 0 .. MaxMsgs /\ started <= started'
      /\ num_readers' \in 0 .. NUM_READERS
      /\ read_uids' \in [Slots -> Readers \union {NoReader}]
      /\ lost' \in [Readers -> BOOLEAN] /\ \A r \in Readers : lost[r] => lost'[r]
  BY <1>k, <1>1, Sizing DEF PubKnown
<1> QED BY <1>2, <1>3, <1>4, <1>5, <1>6, <1>7, RingKept

\* With more of the tail left a reader sees no less.
LEMMA SightGrows ==
  ASSUME NEW C, NEW T2, NEW T, T2 \subseteq T, NEW l, NEW a, NEW p, Sighted(C, T2, l, a, p)
  PROVE  Sighted(C, T, l, a, p)
BY DEF Sighted, At, Inside, TailAhead, Sees, SeesWrap

\* A publisher that starts over, until it is idle again.
LEMMA StartingOver ==
  ASSUME NEW C, NEW T, InvFor(C, T),
         UNCHANGED <<read_pointers, rd, last, write_pointer, data, published, started>>,
         num_readers' \in 0 .. NUM_READERS,
         read_valids' \in [Slots -> BOOLEAN],
         read_uids' \in [Slots -> Readers \union {NoReader}],
         lost' \in [Readers -> BOOLEAN],
         pub' \in Publisher, pub'.pc \in InitPcs \union {"idle"},
         pub'.pc # "idle" => pub'.i \in Slots,
         \A r \in Readers : (lost[r] => lost'[r]) /\ (lost'[r] \/ Undisturbed(r))
  PROVE  InvFor(C, T)'
<1>k. PubKnown(C, T)
  BY PublisherKnown
<1>1. Publishing'
  <2>1. W' = W /\ W.cycles <= started
    BY <1>k DEF W, PubKnown, Publishing
  <2> QED BY <2>1 DEF Publishing, WrapPcs, AreaPcs, InitPcs
<1>2. ASSUME NEW r \in Readers,
             Sighted(C, TailFor(T, rd[r].id), rd[r], last[r], read_pointers[rd[r].id]),
             NEW T2, T2 = TailFor(T, rd[r].id)'
      PROVE  /\ Sighted(C, T2, rd[r], last[r], read_pointers[rd[r].id])
             /\ Late(rd[r], read_pointers[rd[r].id])'
  <2>1. T2 = T /\ TailFor(T, rd[r].id) \subseteq T
    BY <1>2 DEF TailFor, Scanned, InitPcs
  <2>2. Late(rd[r], read_pointers[rd[r].id])'
    BY DEF Late, WrapPcs, InitPcs
  <2>3. PICK l, a, p, T3 : /\ l = rd[r] /\ a = last[r] /\ p = read_pointers[rd[r].id]
                           /\ T3 = TailFor(T, rd[r].id)
    OBVIOUS
  <2>4. Sighted(C, T, l, a, p)
    BY <1>2, <2>1, <2>3, SightGrows
  <2> QED BY <2>1, <2>2, <2>3, <2>4
<1>3. started' \in 0 .. MaxMsgs /\ started <= started' /\ pub'.pc # "copy"
  BY <1>k, Sizing DEF PubKnown, InitPcs
<1> QED BY <1>1, <1>2, <1>3, RingKept

LEMMA RestartPublisherStep ==
  ASSUME NEW C, NEW T, InvFor(C, T), RestartPublisher
  PROVE  InvFor(C, T)'
<1>k. PubKnown(C, T)
  BY PublisherKnown
<1>1. /\ UNCHANGED <<num_readers, write_pointer, read_pointers, read_valids, read_uids, data,
                     rd, started, published, last, lost>>
      /\ pub' = [PubIdle EXCEPT !.pc = "init"]
  BY DEF RestartPublisher, shared, history
<1>2. Start \in Pointers /\ 0 \in Slots
  BY Sizing DEF Start, Pointers, Slots
<1>3. pub' \in Publisher /\ pub'.pc = "init" /\ pub'.i = 0
  BY <1>1, <1>2, Sizing DEF PubIdle, Publisher, PubPcs, InitPcs
<1>4. \A r \in Readers : Undisturbed(r)
  BY <1>k, <1>1, OthersKeep, Sizing DEF PubKnown
<1> QED BY <1>k, <1>1, <1>2, <1>3, <1>4, StartingOver DEF PubKnown, InitPcs

LEMMA ForgetReadersStep ==
  ASSUME NEW C, NEW T, InvFor(C, T), ForgetReaders
  PROVE  InvFor(C, T)'
<1>k. PubKnown(C, T)
  BY PublisherKnown
<1>1. /\ UNCHANGED <<write_pointer, read_pointers, read_valids, read_uids, data,
                     rd, started, published, last>>
      /\ num_readers' = 0 /\ pub' = [pub EXCEPT !.pc = "init_valid", !.i = 0]
      /\ lost' \in [Readers -> BOOLEAN] /\ \A r \in Readers : lost'[r]
  BY DEF ForgetReaders, PubGoto, Everyone
<1>2. pub' \in Publisher /\ pub'.pc = "init_valid" /\ pub'.i = 0
  BY <1>k, <1>1 DEF PubKnown, Publisher, PubPcs, InitPcs
<1>3. 0 \in 0 .. NUM_READERS /\ 0 \in Slots
  BY Sizing DEF Slots
<1> QED BY <1>k, <1>1, <1>2, <1>3, StartingOver DEF PubKnown, InitPcs

LEMMA ForgetValidStep ==
  ASSUME NEW C, NEW T, InvFor(C, T), ForgetValid
  PROVE  InvFor(C, T)'
<1>k. PubKnown(C, T)
  BY PublisherKnown
<1>1. /\ UNCHANGED <<num_readers, write_pointer, read_pointers, read_uids, data,
                     rd, started, published, last, lost>>
      /\ pub.pc = "init_valid" /\ pub' = [pub EXCEPT !.pc = "init_uid"]
      /\ read_valids' = [read_valids EXCEPT ![pub.i] = FALSE]
  BY DEF ForgetValid, history
<1>2. pub' \in Publisher /\ pub'.pc = "init_uid" /\ pub'.i = pub.i
  BY <1>k, <1>1 DEF PubKnown, Publisher, PubPcs, InitPcs
<1>3. pub.i \in Slots
  BY <1>k, <1>1 DEF PubKnown, Publishing, InitPcs
<1>4. /\ read_valids' \in [Slots -> BOOLEAN]
      /\ \A r \in Readers : Undisturbed(r)
  <2>1. read_valids \in [Slots -> BOOLEAN]
    BY <1>k DEF PubKnown
  <2>2. /\ read_valids' \in [Slots -> BOOLEAN]
        /\ \A s \in Slots : read_valids'[s] => read_valids[s]
    BY <1>1, <2>1
  <2>3. ASSUME NEW r \in Readers
        PROVE  Undisturbed(r)
    <3>1. rd[r].id \in Slots /\ num_readers \in Nat
      BY <1>k, Sizing DEF PubKnown
    <3> QED BY <1>1, <2>2, <3>1 DEF Undisturbed
  <2> QED BY <2>2, <2>3
<1> QED BY <1>k, <1>1, <1>2, <1>3, <1>4, StartingOver DEF PubKnown, InitPcs

LEMMA ForgetUidStep ==
  ASSUME NEW C, NEW T, InvFor(C, T), ForgetUid
  PROVE  InvFor(C, T)'
<1>k. PubKnown(C, T)
  BY PublisherKnown
<1>1. /\ UNCHANGED <<num_readers, write_pointer, read_pointers, read_valids, data,
                     rd, started, published, last, lost>>
      /\ pub.pc = "init_uid"
      /\ pub' = IF pub.i = NUM_READERS - 1 THEN PubIdle
                ELSE [pub EXCEPT !.pc = "init_valid", !.i = @ + 1]
      /\ read_uids' = [read_uids EXCEPT ![pub.i] = NoReader]
  BY DEF ForgetUid, history
<1>2. pub.i \in Slots
  BY <1>k, <1>1 DEF PubKnown, Publishing, InitPcs
<1>3. pub' \in Publisher /\ pub'.pc \in {"idle", "init_valid"} /\ (pub'.pc # "idle" => pub'.i \in Slots)
  <2>1. CASE pub.i = NUM_READERS - 1
    <3>1. Start \in Pointers /\ 0 \in 0 .. NUM_READERS
      BY Sizing DEF Start, Pointers
    <3> QED BY <1>1, <2>1, <3>1 DEF PubIdle, Publisher, PubPcs
  <2>2. CASE pub.i # NUM_READERS - 1
    <3>1. pub' = [pub EXCEPT !.pc = "init_valid", !.i = @ + 1]
      BY <1>1, <2>2
    <3>2. pub.i + 1 \in Slots /\ pub.i + 1 \in Nat
      BY <1>2, <2>2, Sizing DEF Slots
    <3> QED BY <1>k, <3>1, <3>2 DEF PubKnown, Publisher, PubPcs, InitPcs
  <2> QED BY <2>1, <2>2
<1>4. /\ read_uids' \in [Slots -> Readers \union {NoReader}]
      /\ \A r \in Readers : Undisturbed(r)
  <2>1. read_uids \in [Slots -> Readers \union {NoReader}]
    BY <1>k DEF PubKnown
  <2>2. read_uids' \in [Slots -> Readers \union {NoReader}]
    BY <1>1, <2>1
  <2>3. ASSUME NEW r \in Readers
        PROVE  Undisturbed(r)
    <3>1. rd[r].id \in Slots /\ num_readers \in Nat
      BY <1>k, Sizing DEF PubKnown
    <3>2. read_uids'[rd[r].id] \in {read_uids[rd[r].id], NoReader}
      BY <1>1, <2>1, <3>1
    <3>3. r # NoReader
      BY Sizing
    <3> QED BY <1>1, <3>1, <3>2, <3>3 DEF Undisturbed
  <2> QED BY <2>2, <2>3
<1> QED BY <1>k, <1>1, <1>3, <1>4, StartingOver DEF PubKnown, InitPcs

LEMMA WholeKept ==
  ASSUME NEW p \in Nat, Whole(p), published \subseteq published', data'[p] = data[p],
         \A k \in 1 .. data[p].n : data'[p + k] = data[p + k]
  PROVE  Whole(p)' /\ After(p)' = After(p) /\ IdAt(p)' = IdAt(p)
<1>1. data[p].n \in Nat /\ data[p].n >= 1
  <2>1. data[p].n \in MsgSizes
    BY DEF Whole
  <2>2. PICK n \in MsgSizes : n = data[p].n
    BY <2>1
  <2>3. n \in Nat /\ n > 0
    BY Sizing
  <2>4. n >= 1
    BY <2>3
  <2> QED BY <2>2, <2>3, <2>4
<1>2. data'[p + 1] = data[p + 1]
  BY <1>1
<1> QED BY <1>2 DEF Whole, After, IdAt

\* A word is written behind the lap. What is left of the tail lies behind that
\* word, or the word is the tag that the tail begins with.
Writes(T, y, v) ==
  /\ data' = [data EXCEPT ![y] = v]
  /\ \A p \in T : p > y \/ (p = y /\ v = Tag(WrapTag))

LEMMA LapKept ==
  ASSUME UNCHANGED write_pointer, published \subseteq published', NEW C, Lap(C), W.ptr \in Nat,
         \A x \in 0 .. W.ptr - 1 : data'[x] = data[x]
  PROVE  Lap(C)' /\ \A x \in C \ {W.ptr} : IdAt(x)' = IdAt(x)
<1>0. W' = W
  BY DEF W
<1>1. ASSUME NEW x \in C \ {W.ptr}
      PROVE  Whole(x)' /\ After(x)' = After(x) /\ IdAt(x)' = IdAt(x)
  <2>1. x \in Nat /\ x < W.ptr /\ Whole(x) /\ After(x) <= W.ptr
    <3>1. x \in 0 .. W.ptr /\ x # W.ptr /\ Whole(x) /\ After(x) \in 0 .. W.ptr
      BY DEF Lap
    <3> QED BY <3>1
  <2>2. data[x].n \in Nat
    BY <2>1, Sizing DEF Whole
  <2>3. data'[x] = data[x]
    BY <2>1
  <2>4. ASSUME NEW k \in 1 .. data[x].n
        PROVE  data'[x + k] = data[x + k]
    BY <2>1, <2>2 DEF After
  <2> QED BY <2>1, <2>3, <2>4, WholeKept
<1> QED BY <1>0, <1>1 DEF Lap

LEMMA LayoutKept ==
  ASSUME UNCHANGED <<write_pointer, published>>, data \in [0 .. Size - 1 -> Words],
         NEW C, NEW T, Layout(C, T), NEW y \in Nat, NEW v, Writes(T, y, v),
         W.ptr \in Nat, W.ptr < Size, y >= W.ptr
  PROVE  /\ Layout(C, T)'
         /\ \A x \in C \ {W.ptr} : IdAt(x)' = IdAt(x)
         /\ \A x \in T : IsWrapTag(x)' \/ (~IsWrapTag(x) /\ IdAt(x)' = IdAt(x))
<1>0. W' = W
  BY DEF W
<1>1. \A x \in 0 .. Size - 1 : x # y => data'[x] = data[x]
  BY DEF Writes
<1>2. Lap(C)' /\ \A x \in C \ {W.ptr} : IdAt(x)' = IdAt(x)
  <2>1. \A x \in 0 .. W.ptr - 1 : data'[x] = data[x]
    BY <1>1, Sizing
  <2> QED BY <2>1, LapKept DEF Layout
<1>3. ASSUME NEW x \in T
      PROVE  \/ IsWrapTag(x)'
             \/ /\ Whole(x) /\ Whole(x)' /\ After(x)' = After(x) /\ IdAt(x)' = IdAt(x)
                /\ ~IsWrapTag(x) /\ After(x) \in T /\ After(x) > x
                /\ IsWrapTag(After(x)) \/ IdAt(x) < IdAt(After(x))
  <2>1. x \in Nat /\ x < Size /\ x \in 0 .. Size - 1
    BY Sizing DEF Layout, Tail
  <2>2. CASE x = y
    BY <2>1, <2>2 DEF Writes, IsWrapTag
  <2>3. CASE x > y /\ IsWrapTag(x)
    BY <1>1, <2>1, <2>3 DEF IsWrapTag
  <2>4. CASE x > y /\ ~IsWrapTag(x)
    <3>1. Whole(x) /\ After(x) \in T /\ (IsWrapTag(After(x)) \/ IdAt(x) < IdAt(After(x)))
      BY <2>4 DEF Layout, Tail
    <3>2. data[x].n \in Nat /\ x + data[x].n < Size /\ data[x].n > 0
      BY <3>1, Sizing DEF Whole
    <3>3. data'[x] = data[x] /\ \A k \in 1 .. data[x].n : data'[x + k] = data[x + k]
      BY <1>1, <2>1, <2>4, <3>2, Sizing
    <3>4. Whole(x)' /\ After(x)' = After(x) /\ IdAt(x)' = IdAt(x)
      BY <2>1, <3>1, <3>3, WholeKept
    <3>5. After(x) > x
      BY <2>1, <3>2 DEF After
    <3> QED BY <2>4, <3>1, <3>4, <3>5
  <2> QED BY <2>2, <2>3, <2>4 DEF Writes
<1>4. \A x \in T : IsWrapTag(x)' \/ (~IsWrapTag(x) /\ IdAt(x)' = IdAt(x))
  BY <1>3
<1>5. Tail(T)'
  <2>1. T \subseteq W.ptr .. Size - 1
    BY DEF Layout, Tail
  <2>2. ASSUME NEW x \in T, ~IsWrapTag(x)'
        PROVE  /\ Whole(x)' /\ After(x)' \in T
               /\ IsWrapTag(After(x))' \/ IdAt(x)' < IdAt(After(x))'
    <3>1. /\ Whole(x)' /\ After(x)' = After(x) /\ After(x) \in T /\ IdAt(x)' = IdAt(x)
          /\ IsWrapTag(After(x)) \/ IdAt(x) < IdAt(After(x))
      BY <1>3, <2>2
    <3>2. PICK z : z = After(x) /\ z \in T
      BY <3>1
    <3>3. IsWrapTag(z)' \/ (~IsWrapTag(z) /\ IdAt(z)' = IdAt(z))
      BY <1>4, <3>2
    <3>4. After(x)' = z
      BY <3>1, <3>2
    <3> QED BY <3>1, <3>2, <3>3, <3>4 DEF IsWrapTag, IdAt
  <2> QED BY <1>0, <2>1, <2>2 DEF Tail
<1>6. Older(C, T)'
  BY <1>0, <1>2, <1>4 DEF Layout, Older
<1> QED BY <1>2, <1>4, <1>5, <1>6 DEF Layout

LEMMA SightKept ==
  ASSUME UNCHANGED <<write_pointer, published>>, data \in [0 .. Size - 1 -> Words],
         NEW C, NEW T, Layout(C, T), NEW y \in Nat, NEW v, Writes(T, y, v),
         W.ptr \in Nat, W.ptr < Size, y >= W.ptr,
         NEW l \in Local, NEW a, NEW p, l.pc \in LookPcs => l.rp = p, Sighted(C, T, l, a, p)
  PROVE  Sighted(C, T, l, a, p)'
<1>0. W' = W
  BY DEF W
<1>1. /\ \A x \in C \ {W.ptr} : IdAt(x)' = IdAt(x)
      /\ \A x \in T : IsWrapTag(x)' \/ (~IsWrapTag(x) /\ IdAt(x)' = IdAt(x))
  BY LayoutKept
<1>2. \A b, q : CurAhead(C, b, q) => CurAhead(C, b, q)'
  BY <1>0, <1>1 DEF CurAhead
<1>3. \A b, q : TailAhead(C, T, b, q) => TailAhead(C, T, b, q)'
  BY <1>0, <1>1 DEF TailAhead
<1>4. \A b, q : At(C, T, b, q) => At(C, T, b, q)'
  BY <1>0, <1>2, <1>3 DEF At
<1>5. \A b, q : Inside(C, T, b, q) => Inside(C, T, b, q)'
  BY <1>0, <1>2, <1>3 DEF Inside
<1>6. SeesWrap(C, T, l, a) => SeesWrap(C, T, l, a)'
  BY <1>0, <1>1 DEF SeesWrap
<1>7. ASSUME l.pc \in SizedPcs, NEW m \in published, Sees(C, T, l, a, m)
      PROVE  Sees(C, T, l, a, m)'
  <2>1. l.rp = p /\ Inside(C, T, a, p)
    BY <1>7 DEF Sighted, LookPcs
  <2>2. /\ NextPointer(l).ptr = l.rp.ptr + 1 + l.size /\ l.rp.ptr \in Nat
        /\ l.size \in MsgSizes /\ l.size \in Nat
    BY <1>7, NextType, Sizing DEF Sees
  <2>3. \/ l.rp.ptr < W.ptr /\ NextPointer(l).ptr <= W.ptr
        \/ l.rp.ptr >= y
    <3>1. l.rp.ptr \in C \ {W.ptr} \/ l.rp.ptr \in T
      BY <2>1 DEF Inside, CurAhead, TailAhead
    <3>2. l.rp.ptr \in C \ {W.ptr} => l.rp.ptr < W.ptr
      BY DEF Layout, Lap
    <3>3. l.rp.ptr \in T => l.rp.ptr >= y
      BY <2>2 DEF Writes
    <3> QED BY <1>7, <3>1, <3>2, <3>3 DEF Sees
  <2>4. ASSUME NEW k \in 1 .. l.size
        PROVE  data'[l.rp.ptr + k] = data[l.rp.ptr + k]
    <3>1. l.rp.ptr + k # y /\ l.rp.ptr + k \in Nat /\ l.rp.ptr + k < NextPointer(l).ptr
      BY <2>2, <2>3
    <3>2. NextPointer(l).ptr \in C \union T
      BY <1>7 DEF Sees, At, CurAhead, TailAhead
    <3>3. NextPointer(l).ptr \in Nat /\ NextPointer(l).ptr < Size
      <4>1. C \subseteq 0 .. W.ptr /\ T \subseteq W.ptr .. Size - 1
        BY DEF Layout, Lap, Tail
      <4>2. NextPointer(l).ptr \in 0 .. W.ptr \/ NextPointer(l).ptr \in W.ptr .. Size - 1
        BY <3>2, <4>1
      <4> QED BY <4>2, Sizing
    <3> QED BY <3>1, <3>3, Sizing DEF Writes
  <2>5. \A k \in 1 .. l.size : data'[l.rp.ptr + k] = Word(m, k, l.size)
    BY <1>7, <2>4 DEF Sees
  <2>6. At(C, T, m, NextPointer(l))'
    BY <1>4, <1>7 DEF Sees
  <2> QED BY <1>0, <1>7, <2>5, <2>6 DEF Sees
<1> QED BY <1>4, <1>5, <1>6, <1>7 DEF Sighted

LEMMA WriteStep ==
  ASSUME NEW C, NEW T, InvFor(C, T), NEW T2, Layout(C, T2),
         UNCHANGED <<num_readers, write_pointer, read_pointers, read_valids, read_uids, rd,
                     started, published, last, lost>>,
         NEW y \in 0 .. Size - 1, y >= W.ptr, NEW v \in Words, Writes(T2, y, v),
         v.part = 0 /\ v.n \in MsgSizes => y + 1 + v.n < Size,
         pub' \in Publisher, Publishing', Copying',
         (pub.pc = "copy" => T2 \intersect Area(pub) = {})',
         \A s \in Slots : TailFor(T, s) = T2 /\ TailFor(T2, s)' = T2,
         \A l, p : Late(l, p) => Late(l, p)'
  PROVE  InvFor(C, T2)'
<1>k. PubKnown(C, T)
  BY PublisherKnown
<1>1. data \in [0 .. Size - 1 -> Words] /\ data' \in [0 .. Size - 1 -> Words]
      /\ W.ptr \in Nat /\ W.ptr < Size /\ y \in Nat
  BY <1>k DEF PubKnown, Writes
<1>2. TagsFit'
  <2>1. ASSUME NEW p \in 0 .. Size - 1, SizeAt(p)' \in MsgSizes
        PROVE  p + 1 + SizeAt(p)' < Size
    <3>1. CASE p = y
      <4>1. data'[p] = v
        BY <1>1, <3>1 DEF Writes
      <4> QED BY <2>1, <3>1, <4>1, Sizing DEF SizeAt
    <3>2. CASE p # y
      <4>1. data'[p] = data[p]
        BY <1>1, <3>2 DEF Writes
      <4>2. SizeAt(p)' = SizeAt(p)
        BY <4>1 DEF SizeAt
      <4>3. TagsFit
        BY <1>k DEF PubKnown
      <4> QED BY <2>1, <4>2, <4>3 DEF TagsFit
    <3> QED BY <3>1, <3>2
  <2> QED BY <2>1 DEF TagsFit
<1>3. Layout(C, T2)'
  BY <1>1, LayoutKept
<1>4. (\A s \in Slots : PtrOK(C, read_pointers[s])') /\ NewestKnown'
  BY <1>k DEF PubKnown, PtrOK, W, NewestKnown
<1>5. \A r \in Readers : LocalOK(C, rd[r])'
  BY <1>k, SameLocal DEF PubKnown
<1>6. ASSUME NEW r \in Readers,
             rd[r].pc \in {"load_write"} \union LookPcs => rd[r].rp = read_pointers[rd[r].id],
             Sighted(C, TailFor(T, rd[r].id), rd[r], last[r], read_pointers[rd[r].id]),
             Late(rd[r], read_pointers[rd[r].id])
      PROVE  /\ Sighted(C, TailFor(T2, rd[r].id), rd[r], last[r], read_pointers[rd[r].id])'
             /\ Late(rd[r], read_pointers[rd[r].id])'
  <2>1. rd[r].id \in Slots /\ rd[r] \in Local
    BY <1>k DEF PubKnown, LocalOK
  <2>2. PICK l, a, p, s : /\ l = rd[r] /\ a = last[r] /\ p = read_pointers[rd[r].id]
                          /\ s = rd[r].id
    OBVIOUS
  <2>3. TailFor(T, s) = T2 /\ TailFor(T2, s)' = T2
    BY <2>1, <2>2
  <2>4. Sighted(C, T2, l, a, p) /\ l \in Local /\ (l.pc \in LookPcs => l.rp = p) /\ Late(l, p)
    BY <1>6, <2>1, <2>2, <2>3
  <2>5. Sighted(C, T2, l, a, p)' /\ Late(l, p)'
    BY <1>1, <2>4, SightKept
  <2>6. l = rd'[r] /\ a = last'[r] /\ p = read_pointers'[rd'[r].id] /\ s = rd'[r].id
    BY <2>2
  <2> QED BY <2>3, <2>5, <2>6
<1>7. \A r \in Readers : Undisturbed(r)
  BY <1>k, OthersKeep, Sizing DEF PubKnown
<1>8. /\ num_readers' \in 0 .. NUM_READERS /\ write_pointer' \in Pointers
      /\ read_valids' \in [Slots -> BOOLEAN]
      /\ read_uids' \in [Slots -> Readers \union {NoReader}]
      /\ lost' \in [Readers -> BOOLEAN] /\ started' \in 0 .. MaxMsgs
      /\ published' \subseteq 1 .. started' /\ published \subseteq published'
      /\ \A r \in Readers : lost[r] => lost'[r]
  BY <1>k DEF PubKnown, W
<1> QED BY <1>1, <1>2, <1>3, <1>4, <1>5, <1>6, <1>7, <1>8, PublisherStep

LEMMA WriteWrapTagStep ==
  ASSUME NEW C, NEW T, InvFor(C, T), WriteWrapTag
  PROVE  InvFor(C, T)'
<1> DEFINE y == W.ptr
           v == Tag(WrapTag)
<1>k. PubKnown(C, T)
  BY PublisherKnown
<1>0. Publishing
  BY <1>k DEF PubKnown
<1>1. /\ pub.pc = "tag" /\ pub.wp = W /\ data' = [data EXCEPT ![y] = v]
      /\ pub' = [pub EXCEPT !.pc = "wrap_scan", !.i = 0]
      /\ UNCHANGED <<num_readers, write_pointer, read_pointers, read_valids, read_uids, rd,
                     started, published, last, lost>>
  BY <1>0 DEF WriteWrapTag, PubGoto, history, Publishing, WrapPcs
<1>2. /\ pub' \in Publisher /\ pub'.pc = "wrap_scan" /\ pub'.size = pub.size /\ pub'.wp = pub.wp
      /\ pub'.n = pub.n
  BY <1>k, <1>1 DEF PubKnown, Publisher, PubPcs, WrapPcs
<1>3. y \in 0 .. Size - 1 /\ y >= W.ptr /\ v \in Words /\ v.part = 0 /\ v.n \notin MsgSizes
  BY <1>k, Sizing DEF PubKnown, Words, Tag
<1>4. W' = W /\ IsWrapTag(W.ptr)'
  <2>1. data'[y] = v
    BY <1>k, <1>1, <1>3 DEF PubKnown
  <2> QED BY <1>1, <2>1 DEF W, IsWrapTag
<1>5. Publishing' /\ Copying'
  <2>1. MustWrap(W.ptr, pub.size)' <=> MustWrap(W.ptr, pub.size)
    BY <1>2, <1>4 DEF MustWrap
  <2> QED BY <1>0, <1>1, <1>2, <1>4, <2>1
          DEF Publishing, Copying, WrapPcs, AreaPcs, InitPcs
<1>6. Writes(T, y, v)
  <2>1. \A p \in T : p >= y /\ p \in Nat
    BY <1>k DEF PubKnown, Layout, Tail
  <2> QED BY <1>1, <1>k, <2>1 DEF Writes, PubKnown
<1>7. \A s \in Slots : TailFor(T, s) = T /\ TailFor(T, s)' = T
  BY <1>1, <1>2 DEF TailFor, Scanned
<1>8. \A l, p : Late(l, p) => Late(l, p)'
  BY <1>1, <1>2, <1>4 DEF Late, WrapPcs
<1>9. Layout(C, T) /\ pub'.pc # "copy"
  BY <1>k, <1>2 DEF PubKnown
<1> HIDE DEF y, v
<1> QED BY <1>1, <1>2, <1>3, <1>5, <1>6, <1>7, <1>8, <1>9, WriteStep

\* There is room for the message and for the next tag.
LEMMA Room ==
  ASSUME NEW C, NEW T, PubKnown(C, T), pub.pc \in AreaPcs
  PROVE  /\ pub.wp = W /\ pub.size \in MsgSizes /\ pub.size \in Nat /\ pub.size > 0
         /\ W.ptr + pub.size + 2 < Size /\ started \in 1 .. MaxMsgs /\ started \notin published
<1>1. /\ pub.wp = W /\ pub.size \in MsgSizes /\ ~MustWrap(W.ptr, pub.size)
      /\ started \notin published /\ started > 0
  BY DEF PubKnown, Publishing
<1>2. pub.size \in Nat /\ pub.size > 0 /\ Size \in Nat /\ W.ptr \in Nat /\ started \in 0 .. MaxMsgs
  BY <1>1, Sizing DEF PubKnown
<1> QED BY <1>1, <1>2, Sizing DEF MustWrap

LEMMA WriteSizeStep ==
  ASSUME NEW C, NEW T, InvFor(C, T), WriteSize
  PROVE  InvFor(C, T \ Area(pub))'
<1> DEFINE y == W.ptr
           v == Tag(pub.size)
           T2 == T \ Area(pub)
<1>k. PubKnown(C, T)
  BY PublisherKnown
<1>0. Publishing
  BY <1>k DEF PubKnown
<1>r. /\ pub.wp = W /\ pub.size \in MsgSizes /\ pub.size \in Nat /\ pub.size > 0 /\ pub.pc = "scan"
      /\ W.ptr + pub.size + 2 < Size /\ started \in 1 .. MaxMsgs /\ started \notin published
  BY <1>k, Room DEF WriteSize, AreaPcs
<1>1. /\ ~(pub.i < pub.n) /\ data' = [data EXCEPT ![y] = v]
      /\ pub' = [pub EXCEPT !.pc = "copy", !.i = 1]
      /\ UNCHANGED <<num_readers, write_pointer, read_pointers, read_valids, read_uids, rd,
                     started, published, last, lost>>
  BY <1>r DEF WriteSize, Scanning, history
<1>2. /\ pub' \in Publisher /\ pub'.pc = "copy" /\ pub'.size = pub.size /\ pub'.wp = pub.wp
      /\ pub'.i = 1
  BY <1>k, <1>1 DEF PubKnown, Publisher, PubPcs, AreaPcs
<1>3. y \in 0 .. Size - 1 /\ y >= W.ptr /\ v \in Words /\ v.part = 0 /\ v.n = pub.size
      /\ y + 1 + v.n < Size
  <2>1. v \in Words /\ v.part = 0 /\ v.n = pub.size
    BY <1>r DEF Words, Tag
  <2>2. W.ptr \in Nat
    BY <1>k DEF PubKnown
  <2> QED BY <1>r, <2>1, <2>2, Sizing
<1>4. W' = W /\ data'[W.ptr] = v /\ Area(pub)' = Area(pub)
  BY <1>k, <1>1, <1>2, <1>3 DEF PubKnown, W, Area
<1>5. Publishing' /\ Copying'
  <2>1. MustWrap(W.ptr, pub.size)' <=> MustWrap(W.ptr, pub.size)
    BY <1>2, <1>4 DEF MustWrap
  <2>2. Publishing'
    BY <1>0, <1>1, <1>r, <1>2, <1>4, <2>1 DEF Publishing, WrapPcs, AreaPcs, InitPcs
  <2>3. Copying'
    <3>1. pub'.i \in 1 .. pub'.size + 1 /\ pub'.i - 1 = 0
      BY <1>r, <1>2
    <3>2. \A k \in 1 .. pub'.i - 1 : FALSE
      BY <3>1
    <3> QED BY <1>2, <1>4, <3>1, <3>2 DEF Copying
  <2> QED BY <2>2, <2>3
<1>s. \A s \in Slots : TailFor(T, s) = T2 /\ Scanned(s)
  <2>1. pub.i \in Nat /\ pub.n \in Nat
    BY <1>k, Sizing DEF PubKnown
  <2>2. \A s \in Slots : Scanned(s)
    BY <1>r, <1>1, <2>1, Sizing DEF Scanned, Slots
  <2> QED BY <2>2 DEF TailFor
<1>6. Layout(C, T2)
  <2>1. 0 \in Slots /\ Types /\ Layout(C, T)
    BY <1>k, Sizing DEF Slots, InvFor, PubKnown
  <2> QED BY <1>0, <1>s, <2>1, TailForLayout
<1>7. Writes(T2, y, v)
  <2>1. ASSUME NEW p \in T2
        PROVE  p > y
    <3>1. p \in W.ptr .. Size - 1 /\ p \notin W.ptr .. W.ptr + pub.size
      BY <1>k, <1>r DEF PubKnown, Layout, Tail, Area
    <3> QED BY <1>k, <1>r, <3>1, Sizing DEF PubKnown
  <2> QED BY <1>1, <2>1 DEF Writes
<1>8. \A s \in Slots : TailFor(T2, s)' = T2
  BY <1>2, <1>4 DEF TailFor, Scanned
<1>9. \A l, p : Late(l, p)'
  BY <1>2 DEF Late, WrapPcs
<1>10. (pub.pc = "copy" => T2 \intersect Area(pub) = {})'
  BY <1>4
<1>11. T2' = T2
  BY <1>4
<1> HIDE DEF y, v
<1>12. PICK T3 : T3 = T2
  OBVIOUS
<1>13. InvFor(C, T3)'
  <2> HIDE DEF T2
  <2>1. /\ Layout(C, T3) /\ Writes(T3, y, v)
        /\ \A s \in Slots : TailFor(T, s) = T3 /\ TailFor(T3, s)' = T3
        /\ (pub.pc = "copy" => T3 \intersect Area(pub) = {})'
    BY <1>6, <1>7, <1>8, <1>s, <1>10, <1>11, <1>12
  <2> QED BY <1>1, <1>2, <1>3, <1>5, <1>9, <2>1, WriteStep
<1> QED BY <1>11, <1>12, <1>13

LEMMA WriteWordStep ==
  ASSUME NEW C, NEW T, InvFor(C, T), WriteWord
  PROVE  InvFor(C, T)'
<1> DEFINE y == W.ptr + pub.i
           v == Word(started, pub.i, pub.size)
<1>k. PubKnown(C, T)
  BY PublisherKnown
<1>0. Publishing /\ Copying
  BY <1>k DEF PubKnown
<1>r. /\ pub.wp = W /\ pub.size \in MsgSizes /\ pub.size \in Nat /\ pub.size > 0 /\ pub.pc = "copy"
      /\ W.ptr + pub.size + 2 < Size /\ started \in 1 .. MaxMsgs
  BY <1>k, Room DEF WriteWord, AreaPcs
<1>i. pub.i \in 1 .. pub.size /\ pub.i \in Nat /\ W.ptr \in Nat
  BY <1>k, <1>0, <1>r DEF PubKnown, Copying, WriteWord
<1>1. /\ data' = [data EXCEPT ![y] = v] /\ pub' = [pub EXCEPT !.i = @ + 1]
      /\ UNCHANGED <<num_readers, write_pointer, read_pointers, read_valids, read_uids, rd,
                     started, published, last, lost>>
  BY <1>r DEF WriteWord, history
<1>2. /\ pub' \in Publisher /\ pub'.pc = "copy" /\ pub'.size = pub.size /\ pub'.wp = pub.wp
      /\ pub'.i = pub.i + 1
  BY <1>k, <1>r, <1>1 DEF PubKnown, Publisher
<1>3. y \in 0 .. Size - 1 /\ y > W.ptr /\ v \in Words /\ v.part = pub.i /\ pub.i # 0
  <2>1. y \in 0 .. Size - 1 /\ y > W.ptr /\ pub.i \in 1 .. Size /\ pub.i # 0
    BY <1>r, <1>i, Sizing
  <2> QED BY <1>r, <2>1 DEF Words, Word
<1>4. /\ W' = W /\ Area(pub)' = Area(pub) /\ data'[y] = v
      /\ \A x \in 0 .. Size - 1 : x # y => data'[x] = data[x]
  BY <1>k, <1>1, <1>2, <1>3 DEF PubKnown, W, Area
<1>5. Publishing' /\ Copying'
  <2>1. MustWrap(W.ptr, pub.size)' <=> MustWrap(W.ptr, pub.size)
    BY <1>2, <1>4 DEF MustWrap
  <2>2. Publishing'
    BY <1>0, <1>1, <1>r, <1>2, <1>4, <2>1 DEF Publishing, WrapPcs, AreaPcs, InitPcs
  <2>3. Copying'
    <3>1. pub'.i \in 1 .. pub'.size + 1 /\ pub'.i - 1 = pub.i
      BY <1>r, <1>i, <1>2
    <3>2. data'[W.ptr] = Tag(pub.size)
      BY <1>0, <1>r, <1>i, <1>4, Sizing DEF Copying
    <3>3. ASSUME NEW k \in 1 .. pub.i
          PROVE  data'[W.ptr + k] = Word(started, k, pub.size)
      <4>1. CASE k = pub.i
        BY <1>4, <4>1
      <4>2. CASE k # pub.i
        <5>1. k \in 1 .. pub.i - 1 /\ W.ptr + k \in 0 .. Size - 1 /\ W.ptr + k # y
          BY <1>r, <1>i, <4>2, Sizing
        <5> QED BY <1>0, <1>r, <1>4, <5>1 DEF Copying
      <4> QED BY <4>1, <4>2
    <3> QED BY <1>1, <1>2, <1>4, <3>1, <3>2, <3>3 DEF Copying
  <2> QED BY <2>2, <2>3
<1>6. Layout(C, T) /\ T \intersect Area(pub) = {}
  BY <1>k, <1>r DEF PubKnown
<1>7. Writes(T, y, v)
  <2>1. ASSUME NEW p \in T
        PROVE  p > y
    <3>1. p \in W.ptr .. Size - 1 /\ p \notin W.ptr .. W.ptr + pub.size
      BY <1>r, <1>6 DEF Layout, Tail, Area
    <3> QED BY <1>r, <1>i, <3>1, Sizing
  <2> QED BY <1>1, <2>1 DEF Writes
<1>8. \A s \in Slots : TailFor(T, s) = T /\ TailFor(T, s)' = T
  BY <1>r, <1>2 DEF TailFor, Scanned
<1>9. \A l, p : Late(l, p)'
  BY <1>2 DEF Late, WrapPcs
<1>10. (pub.pc = "copy" => T \intersect Area(pub) = {})'
  BY <1>4, <1>6
<1>11. y >= W.ptr /\ v.part # 0
  BY <1>i, <1>3
<1> HIDE DEF y, v
<1> QED BY <1>1, <1>2, <1>3, <1>5, <1>6, <1>7, <1>8, <1>9, <1>10, <1>11, WriteStep

\* What a reader sees once the lap it was in has become part of the tail.
LEMMA SightWrapped ==
  ASSUME UNCHANGED <<data, published>>, NEW C, NEW T, Layout(C, T), W.ptr \in Nat, 0 \in C,
         IsWrapTag(W.ptr), W'.cycles # W.cycles, W'.ptr = 0,
         NEW l \in Local, NEW a, NEW p, l.pc \in LookPcs => l.rp = p,
         p.cycles # W'.cycles, SlotPtr(l, p).cycles # W'.cycles,
         Sighted(C, T, l, a, p)
  PROVE  Sighted({0}, C \union T, l, a, p)'
<1> DEFINE T2 == C \union T
<1>1. \A x : IdAt(x)' = IdAt(x) /\ (IsWrapTag(x)' <=> IsWrapTag(x))
  BY DEF IdAt, IsWrapTag
<1>2. \A b, q : CurAhead(C, b, q) => TailAhead({0}, T2, b, q)'
  <2> SUFFICES ASSUME NEW b, NEW q, CurAhead(C, b, q)
               PROVE  TailAhead({0}, T2, b, q)'
    OBVIOUS
  <2>1. q \in C /\ q \in Nat
    BY DEF CurAhead, Layout, Lap
  <2>2. IsWrapTag(q) \/ b < IdAt(q)
    BY <2>1 DEF CurAhead
  <2> QED BY <1>1, <2>1, <2>2 DEF TailAhead
<1>3. \A b, q : TailAhead(C, T, b, q) => TailAhead({0}, T2, b, q)'
  BY <1>1 DEF TailAhead
<1>4. \A b, q : q.cycles # W'.cycles /\ (At(C, T, b, q) \/ Inside(C, T, b, q))
                  => At({0}, T2, b, q)' /\ Inside({0}, T2, b, q)'
  BY <1>2, <1>3 DEF At, Inside
<1>5. ASSUME l.pc \in LookPcs
      PROVE  Inside({0}, T2, a, p)' /\ l.rp.cycles # W'.cycles
  BY <1>4, <1>5 DEF Sighted
<1>6. ASSUME l.pc \in SizedPcs
      PROVE  SeesWrap({0}, T2, l, a)' \/ \E m \in published : Sees({0}, T2, l, a, m)'
  <2>1. l.rp.cycles # W'.cycles /\ NextPointer(l).cycles = l.rp.cycles /\ l.rp.ptr \in Nat
    BY <1>5, <1>6, NextType DEF LookPcs
  <2>2. SeesWrap(C, T, l, a) => SeesWrap({0}, T2, l, a)'
    BY <2>1 DEF SeesWrap
  <2>3. ASSUME NEW m \in published, Sees(C, T, l, a, m)
        PROVE  Sees({0}, T2, l, a, m)'
    <3>1. At({0}, T2, m, NextPointer(l))'
      BY <1>4, <2>1, <2>3 DEF Sees
    <3>2. ~(l.rp.ptr < W'.ptr)
      BY <2>1
    <3> QED BY <2>3, <3>1, <3>2 DEF Sees
  <2> QED BY <1>6, <2>2, <2>3 DEF Sighted
<1> QED BY <1>4, <1>5, <1>6 DEF Sighted

LEMMA WrapAroundStep ==
  ASSUME NEW C, NEW T, InvFor(C, T), WrapAround
  PROVE  InvFor({0}, C \union T)'
<1> DEFINE T2 == C \union T
<1>k. PubKnown(C, T)
  BY PublisherKnown
<1>0. Publishing
  BY <1>k DEF PubKnown
<1>1. /\ pub.pc = "wrap_scan" /\ ~(pub.i < pub.n)
      /\ W' = [cycles |-> pub.wp.cycles + 1, ptr |-> 0]
      /\ pub' = [pub EXCEPT !.pc = "scan", !.i = 0, !.wp = W']
      /\ UNCHANGED <<num_readers, read_pointers, read_valids, read_uids, data, rd,
                     started, published, last, lost>>
  BY DEF WrapAround, Scanning, history, W
<1>2. /\ pub.size \in MsgSizes /\ pub.wp = W /\ started \notin published /\ started > 0
      /\ MustWrap(W.ptr, pub.size) /\ W.cycles < started /\ IsWrapTag(W.ptr)
      /\ pub.size \in Nat /\ pub.size > 0 /\ 3 * (pub.size + 1) <= Size /\ Size \in Nat
  BY <1>0, <1>1, Sizing DEF Publishing, WrapPcs
<1>3. /\ W.cycles \in Nat /\ W'.cycles = W.cycles + 1 /\ W'.ptr = 0 /\ W' \in Pointers
      /\ W'.cycles <= started /\ W.ptr \in Nat
  <2>1. W.cycles \in Nat /\ W.ptr \in Nat /\ started \in Nat /\ started <= MaxMsgs
    BY <1>k, Sizing DEF PubKnown
  <2>2. W' = [cycles |-> W.cycles + 1, ptr |-> 0]
    BY <1>1, <1>2
  <2>3. W.cycles + 1 \in 0 .. MaxMsgs /\ W.cycles + 1 <= started /\ 0 \in 0 .. Size - 1
    BY <1>2, <2>1, Sizing
  <2> QED BY <2>1, <2>2, <2>3 DEF Pointers
<1>4. /\ pub' \in Publisher /\ pub'.pc = "scan" /\ pub'.i = 0 /\ pub'.size = pub.size
      /\ pub'.wp = W' /\ pub'.n = pub.n
  BY <1>k, <1>1, <1>3 DEF PubKnown, Publisher, PubPcs, AreaPcs
<1>5. Publishing' /\ Copying' /\ TagsFit' /\ NewestKnown'
  <2>1. ~MustWrap(0, pub.size)
    BY <1>2 DEF MustWrap
  <2>2. ~MustWrap(W.ptr, pub.size)'
    BY <1>3, <1>4, <2>1
  <2>3. W'.cycles <= started' /\ started' \notin published' /\ started' > 0
    BY <1>1, <1>2, <1>3
  <2>4. Publishing'
    BY <1>2, <1>4, <2>2, <2>3 DEF Publishing, WrapPcs, AreaPcs, InitPcs
  <2>5. TagsFit' /\ NewestKnown'
    BY <1>k, <1>1 DEF PubKnown, TagsFit, SizeAt, NewestKnown
  <2> QED BY <1>4, <2>4, <2>5 DEF Copying
<1>6. Layout({0}, T2)'
  <2>1. Layout(C, T)
    BY <1>k DEF PubKnown
  <2>2. C \subseteq 0 .. W.ptr /\ T \subseteq W.ptr .. Size - 1 /\ W.ptr < Size /\ W.ptr \in C
    BY <1>k, <2>1 DEF Layout, Lap, Tail, PubKnown
  <2>3. Lap({0})'
    BY <1>3 DEF Lap
  <2>4. ASSUME NEW x \in T2, ~IsWrapTag(x)
        PROVE  /\ Whole(x) /\ After(x) \in T2
               /\ IsWrapTag(After(x)) \/ IdAt(x) < IdAt(After(x))
    <3>1. CASE x \in T
      BY <2>1, <2>4, <3>1 DEF Layout, Tail
    <3>2. CASE x \in C
      <4>1. x # W.ptr
        BY <1>2, <2>4
      <4>2. Whole(x) /\ After(x) \in C
        BY <2>1, <3>2, <4>1 DEF Layout, Lap
      <4>3. CASE After(x) = W.ptr
        BY <1>2, <4>2, <4>3
      <4>4. CASE After(x) # W.ptr
        <5>1. x \in 0 .. W.ptr /\ data[x].n \in MsgSizes
          BY <2>2, <3>2, <4>2 DEF Whole
        <5>2. x < After(x)
          <6>1. data[x].n \in Nat /\ data[x].n > 0
            BY <5>1, Sizing
          <6>2. x \in Nat
            BY <1>3, <5>1
          <6> QED BY <6>1, <6>2 DEF After
        <5>3. IdAt(x) < IdAt(After(x))
          BY <2>1, <3>2, <4>1, <4>2, <4>4, <5>2 DEF Layout, Lap
        <5> QED BY <4>2, <5>3
      <4> QED BY <4>3, <4>4
    <3> QED BY <2>4, <3>1, <3>2
  <2>5. T2 \subseteq W'.ptr .. Size - 1
    <3>1. 0 .. W.ptr \subseteq 0 .. Size - 1 /\ W.ptr .. Size - 1 \subseteq 0 .. Size - 1
      BY <1>2, <1>3, <2>2
    <3> QED BY <1>3, <2>2, <3>1
  <2>6. Tail(T2)'
    BY <1>1, <2>4, <2>5 DEF Tail, Whole, After, IdAt, IsWrapTag
  <2>7. Older({0}, T2)'
    BY <1>3 DEF Older
  <2> QED BY <2>3, <2>6, <2>7 DEF Layout
<1>7. \A q : PtrOK(C, q) => PtrOK({0}, q)' /\ q.cycles # W'.cycles
  <2> SUFFICES ASSUME NEW q, PtrOK(C, q)
               PROVE  PtrOK({0}, q)' /\ q.cycles # W'.cycles
    OBVIOUS
  <2>1. q \in Pointers /\ q.cycles <= W.cycles /\ q.cycles \in Nat
    BY Sizing DEF PtrOK, Pointers
  <2> QED BY <1>3, <2>1 DEF PtrOK
<1>8. \A s \in Slots : PtrOK({0}, read_pointers[s])' /\ read_pointers[s].cycles # W'.cycles
  <2>1. \A s \in Slots : PtrOK(C, read_pointers[s])
    BY <1>k DEF PubKnown
  <2> QED BY <1>1, <1>7, <2>1
<1>9. ASSUME NEW r \in Readers
      PROVE  LocalOK({0}, rd[r])'
  <2>1. LocalOK(C, rd[r])
    BY <1>k DEF PubKnown
  <2>2. rd'[r] = rd[r]
    BY <1>1
  <2>3. /\ PtrOK({0}, rd[r].rp)' /\ PtrOK({0}, rd[r].wp)' /\ rd[r].rp.cycles # W'.cycles
    <3>1. PICK x, z : x = rd[r].rp /\ z = rd[r].wp
      OBVIOUS
    <3>2. PtrOK({0}, x)' /\ PtrOK({0}, z)' /\ x.cycles # W'.cycles
      BY <1>7, <2>1, <3>1 DEF LocalOK
    <3> QED BY <2>2, <3>1, <3>2
  <2>4. NextPointer(rd[r])' = NextPointer(rd[r])
    BY <2>2 DEF NextPointer
  <2> QED BY <2>1, <2>2, <2>3, <2>4 DEF LocalOK
<1>10. ASSUME NEW r \in Readers,
             rd[r].pc \in {"load_write"} \union LookPcs => rd[r].rp = read_pointers[rd[r].id],
             Sighted(C, TailFor(T, rd[r].id), rd[r], last[r], read_pointers[rd[r].id]),
             Late(rd[r], read_pointers[rd[r].id])
      PROVE  /\ Sighted({0}, TailFor(T2, rd[r].id), rd[r], last[r], read_pointers[rd[r].id])'
             /\ Late(rd[r], read_pointers[rd[r].id])'
  <2>0. Late(rd[r], read_pointers[rd[r].id])'
    BY <1>4 DEF Late, WrapPcs
  <2>1. PICK l, a, p, s : /\ l = rd[r] /\ a = last[r] /\ p = read_pointers[rd[r].id]
                          /\ s = rd[r].id
    OBVIOUS
  <2>2. TailFor(T, s) = T
    BY <1>1 DEF TailFor, Scanned
  <2>3. /\ Sighted(C, T, l, a, p) /\ l \in Local /\ (l.pc \in LookPcs => l.rp = p) /\ Late(l, p)
        /\ LocalOK(C, l) /\ s \in Slots /\ l.id = s
    BY <1>k, <1>10, <2>1, <2>2 DEF PubKnown, LocalOK
  <2>4. p.cycles # W'.cycles /\ l.wp.cycles # W'.cycles
    BY <1>7, <1>8, <2>1, <2>3 DEF LocalOK
  <2>5. Sighted({0}, T2, l, a, p)'
    <3>1. SlotPtr(l, p).cycles # W'.cycles
      BY <2>4 DEF SlotPtr
    <3>2. UNCHANGED <<data, published>> /\ Layout(C, T) /\ W.ptr \in Nat /\ 0 \in C
          /\ IsWrapTag(W.ptr) /\ W'.cycles # W.cycles /\ W'.ptr = 0
      BY <1>k, <1>1, <1>2, <1>3 DEF PubKnown
    <3> QED BY <2>3, <2>4, <3>1, <3>2, SightWrapped
  <2>6. Sighted({0}, TailFor(T2, s), l, a, p)'
    <3>1. CASE s < pub.n
      <4>1. ~Scanned(s)'
        BY <1>k, <1>4, <2>3, <3>1, Sizing DEF Scanned, PubKnown, Slots
      <4> QED BY <2>5, <4>1 DEF TailFor
    <3>2. CASE ~(s < pub.n)
      <4>1. s >= pub.n
        BY <1>k, <2>3, <3>2, Sizing DEF PubKnown, Slots
      <4>2. l.pc \in FreshPcs /\ SlotPtr(l, p) = W
        BY <1>1, <2>3, <4>1 DEF Late, WrapPcs
      <4>3. W.ptr \notin Area(pub)'
        <5>1. Area(pub)' = 0 .. pub.size
          BY <1>2, <1>3, <1>4 DEF Area
        <5>2. W.ptr > pub.size
          BY <1>2, <1>3 DEF MustWrap
        <5> QED BY <1>2, <1>3, <5>1, <5>2
      <4>4. W.ptr \in TailFor(T2, s)'
        BY <1>k, <4>3 DEF TailFor, PubKnown
      <4>5. data'[W.ptr] = Tag(WrapTag)
        BY <1>1, <1>2 DEF IsWrapTag
      <4>6. PICK z : z = W
        OBVIOUS
      <4>7. At({0}, TailFor(T2, s), Given(l, a), z)'
        <5>1. IsWrapTag(z.ptr)' /\ z.ptr \in TailFor(T2, s)' /\ z.cycles # W'.cycles
          BY <1>3, <4>4, <4>5, <4>6 DEF IsWrapTag
        <5> QED BY <1>3, <5>1 DEF At, TailAhead
      <4>8. SlotPtr(l, p) = z
        BY <4>2, <4>6
      <4> QED BY <4>2, <4>7, <4>8 DEF Sighted, FreshPcs, LookPcs, SizedPcs
    <3> QED BY <3>1, <3>2
  <2>7. l = rd'[r] /\ a = last'[r] /\ p = read_pointers'[rd'[r].id] /\ s = rd'[r].id
    BY <1>1, <2>1
  <2> QED BY <2>0, <2>6, <2>7
<1>11. \A r \in Readers : Undisturbed(r)
  BY <1>k, <1>1, OthersKeep, Sizing DEF PubKnown
<1>12. /\ num_readers' \in 0 .. NUM_READERS /\ write_pointer' \in Pointers
      /\ read_valids' \in [Slots -> BOOLEAN]
      /\ read_uids' \in [Slots -> Readers \union {NoReader}]
      /\ data' \in [0 .. Size - 1 -> Words]
      /\ lost' \in [Readers -> BOOLEAN] /\ started' \in 0 .. MaxMsgs
      /\ published' \subseteq 1 .. started' /\ published \subseteq published'
      /\ \A r \in Readers : lost[r] => lost'[r]
  BY <1>k, <1>1, <1>3 DEF PubKnown, W
<1>13. pub'.pc # "copy" /\ UNCHANGED <<read_pointers, rd, last>>
  BY <1>1, <1>4
<1>14. \A s \in Slots : PtrOK({0}, read_pointers[s])'
  BY <1>8
<1> QED BY <1>4, <1>5, <1>6, <1>9, <1>10, <1>11, <1>12, <1>13, <1>14, PublisherStep

\* The message that was written is the newest, and the lap goes on to its end.
LEMMA SightPublished ==
  ASSUME UNCHANGED data, NEW C, NEW T, Layout(C, T), W.ptr \in Nat,
         published' = published \union {started}, IdAt(W.ptr) = started,
         W'.cycles = W.cycles, NEW e \in Nat, W'.ptr = e, e > W.ptr,
         \A q \in T : q >= e,
         NEW l \in Local, NEW a, NEW p, l.pc \in LookPcs => l.rp = p,
         a < started, Given(l, a) < started, \A m \in published : m < started,
         Sighted(C, T, l, a, p)
  PROVE  Sighted(C \union {e}, T, l, a, p)'
<1> DEFINE C2 == C \union {e}
<1>0. C \subseteq 0 .. W.ptr
  BY DEF Layout, Lap
<1>1. \A x : IdAt(x)' = IdAt(x) /\ (IsWrapTag(x)' <=> IsWrapTag(x))
  BY DEF IdAt, IsWrapTag
<1>2. C2 \ {e} = C
  BY <1>0
<1>3. ASSUME NEW b, b < started, \A x \in C \ {W.ptr} : b < IdAt(x)
      PROVE  \A x \in C : b < IdAt(x)
  BY <1>3
<1>4. ASSUME NEW b, b < started, NEW q, CurAhead(C, b, q)
      PROVE  CurAhead(C2, b, q)'
  <2>1. q \in C
    BY <1>4 DEF CurAhead
  <2>2. \A x \in C : q <= x => b < IdAt(x)
    BY <1>4 DEF CurAhead
  <2>3. \A x \in C2 \ {e} : q <= x => b < IdAt(x)'
    BY <1>1, <1>2, <2>2
  <2> QED BY <2>1, <2>3 DEF CurAhead
<1>5. ASSUME NEW b, b < started, NEW q, TailAhead(C, T, b, q)
      PROVE  TailAhead(C2, T, b, q)'
  <2>1. \A x \in C : b < IdAt(x)
    BY <1>3, <1>5 DEF TailAhead
  <2>2. \A x \in C2 \ {e} : b < IdAt(x)'
    BY <1>1, <1>2, <2>1
  <2> QED BY <1>1, <1>5, <2>2 DEF TailAhead
<1>6. ASSUME NEW b, b < started, NEW q, At(C, T, b, q)
      PROVE  At(C2, T, b, q)'
  BY <1>4, <1>5, <1>6 DEF At
<1>7. ASSUME NEW b, b < started, NEW q, Inside(C, T, b, q)
      PROVE  Inside(C2, T, b, q)'
  <2>1. CASE CurAhead(C, b, q.ptr) /\ q.ptr # W.ptr
    <3>1. q.ptr \in C
      BY <2>1 DEF CurAhead
    <3>2. q.ptr # e
      BY <1>0, <3>1
    <3> QED BY <1>4, <1>7, <2>1, <3>2 DEF Inside
  <2>2. CASE q.cycles # W.cycles /\ TailAhead(C, T, b, q.ptr)
    BY <1>5, <1>7, <2>2 DEF Inside
  <2> QED BY <1>7, <2>1, <2>2 DEF Inside
<1>8. ASSUME l.pc \in SizedPcs
      PROVE  SeesWrap(C2, T, l, a)' \/ \E m \in published' : Sees(C2, T, l, a, m)'
  <2>1. l.rp = p /\ Inside(C, T, a, p) /\ l.rp.ptr \in Nat
    BY <1>8, NextType DEF LookPcs, Sighted
  <2>2. SeesWrap(C, T, l, a) => SeesWrap(C2, T, l, a)'
    <3> SUFFICES ASSUME SeesWrap(C, T, l, a) PROVE SeesWrap(C2, T, l, a)'
      OBVIOUS
    <3>1. \A x \in C : a < IdAt(x)
      BY <1>3 DEF SeesWrap
    <3>2. \A x \in C2 \ {e} : a < IdAt(x)'
      BY <1>1, <1>2, <3>1
    <3> QED BY <3>2 DEF SeesWrap
  <2>3. ASSUME NEW m \in published, Sees(C, T, l, a, m)
        PROVE  Sees(C2, T, l, a, m)'
    <3>1. At(C2, T, m, NextPointer(l))'
      BY <1>6, <2>3 DEF Sees
    <3>2. l.rp.ptr < e => l.rp.ptr < W.ptr
      <4>1. l.rp.ptr \in C \ {W.ptr} \/ l.rp.ptr \in T
        BY <2>1 DEF Inside, CurAhead, TailAhead
      <4>2. l.rp.ptr \in C \ {W.ptr} => l.rp.ptr < W.ptr
        <5>1. l.rp.ptr \in C \ {W.ptr} => l.rp.ptr \in 0 .. W.ptr /\ l.rp.ptr # W.ptr
          BY <1>0
        <5> QED BY <5>1
      <4>3. l.rp.ptr \in T => ~(l.rp.ptr < e)
        <5>1. l.rp.ptr \in T => l.rp.ptr >= e
          OBVIOUS
        <5> QED BY <2>1, <5>1
      <4> QED BY <4>1, <4>2, <4>3
    <3>3. l.rp.ptr < e => NextPointer(l).ptr <= e
      <4>1. NextPointer(l).ptr = l.rp.ptr + 1 + l.size /\ l.size \in Nat
        BY <2>3, NextType, Sizing DEF Sees
      <4> QED BY <2>1, <2>3, <3>2, <4>1 DEF Sees
    <3> QED BY <2>3, <3>1, <3>3 DEF Sees
  <2> QED BY <1>8, <2>2, <2>3 DEF Sighted
<1> QED BY <1>6, <1>7, <1>8 DEF Sighted

LEMMA PublishMsgStep ==
  ASSUME NEW C, NEW T, InvFor(C, T), PublishMsg,
         NEW w, w = W.ptr, NEW e, e = w + pub.size + 1
  PROVE  InvFor(C \union {e}, T)'
<1> DEFINE C2 == C \union {e}
<1>k. PubKnown(C, T)
  BY PublisherKnown
<1>0. Publishing /\ Copying /\ Layout(C, T) /\ T \intersect Area(pub) = {}
  BY <1>k DEF PubKnown, PublishMsg
<1>r. /\ pub.wp = W /\ pub.size \in MsgSizes /\ pub.size \in Nat /\ pub.size > 0 /\ pub.pc = "copy"
      /\ W.ptr + pub.size + 2 < Size /\ started \in 1 .. MaxMsgs /\ started \notin published
  BY <1>k, Room DEF PublishMsg, AreaPcs
<1>n. w \in Nat /\ Size \in Nat /\ w < Size /\ started \in Nat
  BY <1>k, Sizing DEF PubKnown
<1>i. pub.i - 1 = pub.size
  BY <1>0, <1>r DEF PublishMsg, Copying
<1>1. /\ W' = [pub.wp EXCEPT !.ptr = @ + pub.size + 1]
      /\ published' = published \union {started} /\ pub' = PubIdle
      /\ UNCHANGED <<num_readers, read_pointers, read_valids, read_uids, data, rd,
                     started, last, lost>>
  BY DEF PublishMsg, W
<1>2. /\ W'.cycles = W.cycles /\ W'.ptr = e /\ W' \in Pointers /\ e \in Nat /\ e > w
      /\ e \in 0 .. Size - 1
  <2>1. W \in Pointers
    BY <1>k DEF PubKnown
  <2>2. e \in 0 .. Size - 1 /\ e > w /\ e \in Nat
    BY <1>r, <1>n
  <2>3. W' = [W EXCEPT !.ptr = e]
    BY <1>r, <1>1, <1>n, <2>1 DEF Pointers
  <2> QED BY <2>1, <2>2, <2>3 DEF Pointers
<1>3. \A m \in published : m \in Nat /\ m < started
  BY <1>k, <1>r, <1>n DEF PubKnown
<1>4. Whole(w)' /\ After(w)' = e /\ IdAt(w) = started
  <2>1. data[w] = Tag(pub.size) /\ \A k \in 1 .. pub.size : data[w + k] = Word(started, k, pub.size)
    BY <1>0, <1>r, <1>i DEF Copying
  <2>2. data[w].part = 0 /\ data[w].n = pub.size
    BY <2>1 DEF Tag
  <2>3. data[w + 1] = Word(started, 1, pub.size)
    BY <1>r, <2>1
  <2>4. data[w + 1].id = started
    BY <2>3 DEF Word
  <2>5. w + data[w].n < Size
    BY <1>r, <1>n, <2>2
  <2>6. w + 1 + data[w].n = e
    BY <1>r, <1>n, <2>2
  <2> QED BY <1>1, <1>r, <2>1, <2>2, <2>4, <2>5, <2>6 DEF Whole, After, IdAt
<1>5. \A q \in T : q >= e /\ q \in Nat
  <2>1. \A q \in T : q \in w .. Size - 1 /\ q \notin w .. w + pub.size
    BY <1>0, <1>r DEF Layout, Tail, Area
  <2>2. \A q \in T : q \in Nat /\ q >= w /\ ~(q <= w + pub.size)
    BY <1>n, <1>r, <2>1
  <2> QED BY <1>n, <1>r, <2>2
<1>6. /\ C \subseteq 0 .. w /\ w \in C /\ C2 \ {e} = C
      /\ \A x \in C \ {w} : x \in Nat /\ x < w
  <2>1. C \subseteq 0 .. w /\ w \in C
    BY <1>0 DEF Layout, Lap
  <2>2. e \notin C
    BY <1>n, <1>2, <2>1
  <2>3. ASSUME NEW x \in C \ {w}
        PROVE  x \in Nat /\ x < w
    <3>1. x \in 0 .. w /\ x # w
      BY <2>1
    <3> QED BY <1>n, <3>1
  <2> QED BY <2>1, <2>2, <2>3
<1>7. ASSUME NEW x, Whole(x)
      PROVE  /\ Whole(x)' /\ After(x)' = After(x) /\ IdAt(x)' = IdAt(x)
             /\ IdAt(x) \in published
  BY <1>1, <1>7 DEF Whole, After, IdAt
<1>8. \A x : IdAt(x)' = IdAt(x) /\ (IsWrapTag(x)' <=> IsWrapTag(x)) /\ After(x)' = After(x)
  BY <1>1 DEF IdAt, IsWrapTag, After
<1>9. Layout(C2, T)'
  <2>1. ASSUME NEW x \in C
        PROVE  Whole(x)' /\ After(x)' \in C2 /\ (x # w => IdAt(x) \in published)
    <3>1. CASE x = w
      BY <1>4, <3>1
    <3>2. CASE x # w
      BY <1>0, <1>7, <3>2 DEF Layout, Lap
    <3> QED BY <3>1, <3>2
  <2>2. ASSUME NEW x \in C, NEW y \in C, x < y
        PROVE  IdAt(x)' < IdAt(y)'
    <3>1. x # w
      BY <1>6, <1>n, <2>2
    <3>2. CASE y = w
      BY <1>3, <1>4, <1>8, <2>1, <3>1, <3>2
    <3>3. CASE y # w
      BY <1>0, <1>8, <2>2, <3>1, <3>3 DEF Layout, Lap
    <3> QED BY <3>2, <3>3
  <2>3. C2 \subseteq 0 .. e /\ 0 \in C2 /\ e \in C2
    <3>1. 0 .. w \subseteq 0 .. e /\ e \in 0 .. e
      BY <1>n, <1>2
    <3> QED BY <1>k, <1>6, <3>1 DEF PubKnown
  <2>4. Lap(C2)'
    BY <1>2, <1>6, <2>1, <2>2, <2>3 DEF Lap
  <2>5. T \subseteq e .. Size - 1
    <3>1. \A q \in T : q \in w .. Size - 1
      BY <1>0, <1>r DEF Layout, Tail
    <3> QED BY <1>5, <1>2, <1>n, <3>1
  <2>6. ASSUME NEW x \in T, ~IsWrapTag(x)'
        PROVE  /\ Whole(x)' /\ After(x)' \in T /\ IdAt(x) \in published
               /\ IsWrapTag(After(x))' \/ IdAt(x)' < IdAt(After(x))'
    <3>1. /\ Whole(x) /\ After(x) \in T
          /\ IsWrapTag(After(x)) \/ IdAt(x) < IdAt(After(x))
      BY <1>0, <1>8, <2>6 DEF Layout, Tail
    <3>2. PICK z : z = After(x)
      OBVIOUS
    <3>3. After(x)' = z
      BY <1>8, <3>2
    <3>4. IsWrapTag(z)' \/ IdAt(x)' < IdAt(z)'
      BY <1>8, <3>1, <3>2
    <3>5. IsWrapTag(After(x))' \/ IdAt(x)' < IdAt(After(x))'
      BY <3>3, <3>4 DEF IsWrapTag, IdAt
    <3> QED BY <1>7, <3>1, <3>2, <3>3, <3>5
  <2>7. Tail(T)'
    BY <1>2, <2>5, <2>6 DEF Tail
  <2>8. ASSUME NEW x \in T, NEW y \in C, ~IsWrapTag(x)'
        PROVE  IdAt(x)' < IdAt(y)'
    <3>1. CASE y = w
      BY <1>3, <1>4, <1>8, <2>6, <2>8, <3>1
    <3>2. CASE y # w
      BY <1>0, <1>8, <2>8, <3>2 DEF Layout, Older
    <3> QED BY <3>1, <3>2
  <2>9. Older(C2, T)'
    BY <1>2, <1>6, <2>8 DEF Older
  <2> QED BY <2>4, <2>7, <2>9 DEF Layout
<1>10. \A q : PtrOK(C, q) => PtrOK(C2, q)'
  BY <1>2 DEF PtrOK
<1>11. \A s \in Slots : PtrOK(C2, read_pointers[s])'
  <2>1. \A s \in Slots : PtrOK(C, read_pointers[s])
    BY <1>k DEF PubKnown
  <2> QED BY <1>1, <1>10, <2>1
<1>12. ASSUME NEW r \in Readers
      PROVE  LocalOK(C2, rd[r])'
  <2>1. LocalOK(C, rd[r])
    BY <1>k DEF PubKnown
  <2>2. rd'[r] = rd[r]
    BY <1>1
  <2>3. PICK l : l = rd[r]
    OBVIOUS
  <2>4. l.rp.cycles = W.cycles => l.rp.ptr \in C /\ l.rp.ptr # e
    BY <1>n, <1>2, <1>6, <2>1, <2>3 DEF LocalOK, PtrOK
  <2>5. LocalOK(C2, l)'
    BY <1>2, <1>10, <2>1, <2>3, <2>4 DEF LocalOK
  <2> QED BY <2>2, <2>3, <2>5
<1>13. Publishing' /\ Copying' /\ TagsFit' /\ NewestKnown'
  <2>1. Publishing' /\ Copying'
    <3>1. pub'.pc = "idle" /\ W'.cycles <= started'
      BY <1>0, <1>1, <1>2 DEF PubIdle, Publishing
    <3> QED BY <3>1 DEF Publishing, Copying, WrapPcs, AreaPcs, InitPcs
  <2>2. TagsFit'
    BY <1>k, <1>1 DEF PubKnown, TagsFit, SizeAt
  <2>3. NewestKnown'
    <3>1. started \in published' /\ \A k \in published' : k <= started
      BY <1>1, <1>3, <1>n
    <3> QED BY <3>1 DEF NewestKnown
  <2> QED BY <2>1, <2>2, <2>3
<1>14. ASSUME NEW r \in Readers, ~lost'[r], Footed(r),
             rd[r].pc \in {"load_write"} \union LookPcs => rd[r].rp = read_pointers[rd[r].id],
             Sighted(C, TailFor(T, rd[r].id), rd[r], last[r], read_pointers[rd[r].id])
      PROVE  /\ Sighted(C2, TailFor(T, rd[r].id), rd[r], last[r], read_pointers[rd[r].id])'
             /\ Late(rd[r], read_pointers[rd[r].id])'
  <2>0. Late(rd[r], read_pointers[rd[r].id])'
    BY <1>1 DEF Late, WrapPcs, PubIdle
  <2>1. PICK l, a, p, s : /\ l = rd[r] /\ a = last[r] /\ p = read_pointers[rd[r].id]
                          /\ s = rd[r].id
    OBVIOUS
  <2>2. TailFor(T, s) = T /\ TailFor(T, s)' = T
    BY <1>1, <1>r DEF TailFor, Scanned, PubIdle
  <2>3. /\ Sighted(C, T, l, a, p) /\ l \in Local /\ (l.pc \in LookPcs => l.rp = p)
    BY <1>k, <1>14, <2>1, <2>2 DEF PubKnown, LocalOK
  <2>4. a < started /\ Given(l, a) < started
    <3>1. a \in published \union {0}
      BY <1>k, <1>1, <1>14, <2>1 DEF PubKnown, HistoryOK
    <3>2. a < started
      BY <1>3, <1>r, <1>n, <3>1
    <3>3. l.pc = "check_copy" => l.got \in published
      BY <2>3 DEF Sighted
    <3> QED BY <1>3, <3>2, <3>3 DEF Given
  <2>5. Sighted(C2, T, l, a, p)'
    BY <1>0, <1>1, <1>2, <1>3, <1>4, <1>5, <1>n, <2>3, <2>4, SightPublished
  <2>6. l = rd'[r] /\ a = last'[r] /\ p = read_pointers'[rd'[r].id] /\ s = rd'[r].id
    BY <1>1, <2>1
  <2> QED BY <2>0, <2>2, <2>5, <2>6
<1>15. \A r \in Readers : Undisturbed(r)
  BY <1>k, <1>1, OthersKeep, Sizing DEF PubKnown
<1>16. /\ num_readers' \in 0 .. NUM_READERS /\ write_pointer' \in Pointers
      /\ read_valids' \in [Slots -> BOOLEAN]
      /\ read_uids' \in [Slots -> Readers \union {NoReader}]
      /\ data' \in [0 .. Size - 1 -> Words]
      /\ lost' \in [Readers -> BOOLEAN] /\ started' \in 0 .. MaxMsgs
      /\ \A r \in Readers : lost[r] => lost'[r]
  BY <1>k, <1>1, <1>2 DEF PubKnown, W
<1>17. published' \subseteq 1 .. started' /\ published \subseteq published'
  <2>1. published \subseteq 1 .. started
    BY <1>k DEF PubKnown
  <2> QED BY <1>1, <1>r, <1>n, <2>1
<1>18. pub' \in Publisher /\ pub'.pc # "copy"
  <2>1. Start \in Pointers
    BY Sizing DEF Start, Pointers
  <2> QED BY <1>1, <2>1, Sizing DEF PubIdle, Publisher, PubPcs
<1> HIDE DEF C2
<1>19. InvFor(C2, T)'
  BY <1>1, <1>9, <1>11, <1>12, <1>13, <1>14, <1>15, <1>16, <1>17, <1>18, PublisherStep
<1> QED BY <1>19 DEF C2

-----------------------------------------------------------------------------
(* The invariant, and what follows from it. *)

LEMMA InvBounds ==
  ASSUME NEW C, NEW T, InvFor(C, T)
  PROVE  C \in SUBSET (0 .. Size - 1) /\ T \in SUBSET (0 .. Size - 1)
<1>k. PubKnown(C, T)
  BY PublisherKnown
<1>1. C \subseteq 0 .. W.ptr /\ T \subseteq W.ptr .. Size - 1
  BY <1>k DEF PubKnown, Layout, Lap, Tail
<1>2. 0 .. W.ptr \subseteq 0 .. Size - 1 /\ W.ptr .. Size - 1 \subseteq 0 .. Size - 1
  BY <1>k, Sizing DEF PubKnown
<1> QED BY <1>1, <1>2

LEMMA StutterStep ==
  ASSUME NEW C, NEW T, InvFor(C, T), UNCHANGED vars
  PROVE  InvFor(C, T)'
<1>k. PubKnown(C, T)
  BY PublisherKnown
<1>1. UNCHANGED <<num_readers, write_pointer, read_pointers, read_valids, read_uids, data, pub,
                  rd, started, published, last, lost>>
  BY DEF vars, shared, history
<1>2. Publishing' /\ Copying' /\ TagsFit' /\ NewestKnown' /\ Layout(C, T)'
  BY <1>k, <1>1, SamePublisher, SameLayout DEF PubKnown
<1>3. (\A s \in Slots : PtrOK(C, read_pointers[s])') /\ \A r \in Readers : LocalOK(C, rd[r])'
  BY <1>k, <1>1, SameLocal DEF PubKnown, PtrOK, W
<1>4. \A r \in Readers : Undisturbed(r)
  BY <1>k, <1>1, OthersKeep, Sizing DEF PubKnown
<1>5. (pub.pc = "copy" => T \intersect Area(pub) = {})'
  BY <1>k, <1>1 DEF PubKnown, Area
<1>6. ASSUME NEW r \in Readers,
             Sighted(C, TailFor(T, rd[r].id), rd[r], last[r], read_pointers[rd[r].id]),
             Late(rd[r], read_pointers[rd[r].id])
      PROVE  /\ Sighted(C, TailFor(T, rd[r].id), rd[r], last[r], read_pointers[rd[r].id])'
             /\ Late(rd[r], read_pointers[rd[r].id])'
  <2>1. PICK l, a, p, s, T2 : /\ l = rd[r] /\ a = last[r] /\ p = read_pointers[rd[r].id]
                              /\ s = rd[r].id /\ T2 = TailFor(T, s)
    OBVIOUS
  <2>2. TailFor(T, s)' = T2
    BY <1>1, <2>1, SameScan
  <2>3. Sighted(C, T2, l, a, p) /\ Late(l, p)
    BY <1>6, <2>1
  <2>4. Sighted(C, T2, l, a, p)' /\ Late(l, p)'
    BY <1>1, <2>3, SameSight, SameLate
  <2>5. l = rd'[r] /\ a = last'[r] /\ p = read_pointers'[rd'[r].id] /\ s = rd'[r].id
    BY <1>1, <2>1
  <2> QED BY <2>2, <2>4, <2>5
<1>7. /\ num_readers' \in 0 .. NUM_READERS /\ write_pointer' \in Pointers
      /\ read_valids' \in [Slots -> BOOLEAN]
      /\ read_uids' \in [Slots -> Readers \union {NoReader}]
      /\ data' \in [0 .. Size - 1 -> Words] /\ pub' \in Publisher
      /\ lost' \in [Readers -> BOOLEAN] /\ started' \in 0 .. MaxMsgs
      /\ published' \subseteq 1 .. started' /\ published \subseteq published'
      /\ \A r \in Readers : lost[r] => lost'[r]
  BY <1>k, <1>1 DEF PubKnown, W
<1> QED BY <1>1, <1>2, <1>3, <1>4, <1>5, <1>6, <1>7, PublisherStep

LEMMA NextInv == MsgqInv /\ [Next]_vars => MsgqInv'
<1> SUFFICES ASSUME MsgqInv, [Next]_vars PROVE MsgqInv'
  OBVIOUS
<1>1. PICK C, T : InvFor(C, T)
  BY DEF MsgqInv
<1>2. ASSUME NEW C2, NEW T2, InvFor(C2, T2)'
      PROVE  MsgqInv'
  <2>1. (C2 \in SUBSET (0 .. Size - 1) /\ T2 \in SUBSET (0 .. Size - 1))'
    <3>1. /\ W'.ptr \in Nat /\ W'.ptr < Size
          /\ C2 \subseteq 0 .. W'.ptr /\ T2 \subseteq W'.ptr .. Size - 1
      <4>1. Types' /\ Layout(C2, T2)'
        BY <1>2 DEF InvFor, Ring
      <4>2. W' \in Pointers
        BY <4>1 DEF Types, TypeOK, W
      <4>3. C2 \subseteq 0 .. W'.ptr /\ T2 \subseteq W'.ptr .. Size - 1
        BY <4>1 DEF Layout, Lap, Tail
      <4> QED BY <4>2, <4>3, Sizing DEF Pointers
    <3>2. 0 .. W'.ptr \subseteq 0 .. Size - 1 /\ W'.ptr .. Size - 1 \subseteq 0 .. Size - 1
      BY <3>1, Sizing
    <3> QED BY <3>1, <3>2
  <2> QED BY <1>2, <2>1 DEF MsgqInv
<1>3. ASSUME NEW n \in MsgSizes, Send(n)
      PROVE  MsgqInv'
  BY <1>1, <1>2, <1>3, SendStep
<1>4. ASSUME NEW r \in Readers, RecvStep(r) \/ RestartReader(r)
      PROVE  MsgqInv'
  BY <1>1, <1>2, <1>4, ReaderNext
<1>5. CASE PubStep
  <2>1. CASE WriteSize
    <3>1. InvFor(C, T \ Area(pub))'
      BY <1>1, <2>1, WriteSizeStep
    <3>2. PICK T2 : T2 = (T \ Area(pub))'
      OBVIOUS
    <3> QED BY <1>2, <3>1, <3>2
  <2>2. CASE WrapAround
    BY <1>1, <1>2, <2>2, WrapAroundStep
  <2>3. CASE PublishMsg
    <3>1. PICK w, e : w = W.ptr /\ e = w + pub.size + 1
      OBVIOUS
    <3> QED BY <1>1, <1>2, <2>3, <3>1, PublishMsgStep
  <2>4. CASE WriteWrapTag \/ LoadReadPointer \/ Invalidate \/ WriteWord
    BY <1>1, <1>2, <2>4, WriteWrapTagStep, LoadReadPointerStep, InvalidateStep, WriteWordStep
  <2>5. CASE ForgetReaders \/ ForgetValid \/ ForgetUid
    BY <1>1, <1>2, <2>5, ForgetReadersStep, ForgetValidStep, ForgetUidStep
  <2> QED BY <1>5, <2>1, <2>2, <2>3, <2>4, <2>5 DEF PubStep
<1>6. CASE RestartPublisher
  BY <1>1, <1>2, <1>6, RestartPublisherStep
<1>7. CASE UNCHANGED vars
  BY <1>1, <1>2, <1>7, StutterStep
<1> QED BY <1>3, <1>4, <1>5, <1>6, <1>7 DEF Next

LEMMA Invariance == Spec => []MsgqInv
BY InitInv, NextInv, PTL DEF Spec

\* The shared header, the slots, the words of the ring and every reader's slot
\* number stay in range, whatever steps are interleaved and whoever is restarted.
THEOREM QueueTypes == Spec => []TypeOK
<1>1. MsgqInv => TypeOK
  BY DEF MsgqInv, InvFor, Types
<1> QED BY <1>1, Invariance, PTL

\* A reader that has its footing never takes a word of a message for a size
\* (msgq_msg_recv asserts that the size it reads is not 0).
THEOREM SizesAreSizes == Spec => []SizeIsSize
<1>1. MsgqInv => SizeIsSize
  BY DEF MsgqInv, InvFor, Ring, ReadersOK, HistoryOK, SizeIsSize
<1> QED BY <1>1, Invariance, PTL

-----------------------------------------------------------------------------
(* The queue keeps the bus's promise. *)

\* A step that takes the footing of some readers and gives no one a message.
LEMMA LosesFooting ==
  ASSUME UNCHANGED <<published, last>>, NEW R \in SUBSET Readers,
         lost' = [q \in Readers |-> lost[q] \/ q \in R]
  PROVE  Bus!Next
BY DEF Bus!Next, Bus!LoseFooting

LEMMA ReaderRefines ==
  ASSUME MsgqInv, NEW r \in Readers, RecvStep(r) \/ RestartReader(r)
  PROVE  [Bus!Next]_(Bus!vars)
<1>0. PICK C, T : InvFor(C, T)
  BY DEF MsgqInv
<1>k. Known(C, T, r)
  BY <1>0, ReaderKnown
<1>1. CASE \/ TakeSlot(r) \/ EvictValid(r) \/ OwnValid(r) \/ CheckUid(r) \/ CheckValid(r)
           \/ LoadRead(r) \/ LoadWrite(r) \/ LoadSize(r) \/ CheckSize(r) \/ Copy(r)
           \/ RestartReader(r)
  <2>1. UNCHANGED history
    BY <1>1 DEF TakeSlot, EvictValid, OwnValid, CheckUid, CheckValid, LoadRead, LoadWrite,
       LoadSize, CheckSize, Copy, RestartReader
  <2> QED BY <2>1 DEF history, Bus!vars
<1>2. CASE \/ EvictUid(r) \/ OwnPointer(r) \/ OwnUid(r) \/ ResetValid(r) \/ ResetStore(r)
           \/ WrapRead(r) \/ SkipMsg(r) \/ StorePointer(r)
  <2> DEFINE R == {q \in Readers : q # r /\ rd[q].id = rd[r].id}
  <2>1. UNCHANGED <<published, last>> /\ lost' = Disturbed(r)
    BY <1>2 DEF EvictUid, OwnPointer, OwnUid, ResetValid, ResetStore, WrapRead, SkipMsg,
       StorePointer, StoreRead
  <2>2. lost' = [q \in Readers |-> lost[q] \/ q \in R]
    BY <2>1 DEF Disturbed
  <2>3. R \in SUBSET Readers
    OBVIOUS
  <2> HIDE DEF R
  <2> QED BY <2>1, <2>2, <2>3, LosesFooting
<1>3. CASE EvictAll(r)
  <2>1. UNCHANGED <<published, last>> /\ lost' = [q \in Readers |-> lost[q] \/ q \in Readers]
    BY <1>3 DEF EvictAll, Everyone
  <2> QED BY <2>1, LosesFooting
<1>4. CASE ResetLoad(r)
  <2>1. CASE Registered(r)
    <3>1. Newest = Bus!Newest
      BY DEF Newest, Bus!Newest
    <3>2. Bus!FindNewest(r)
      BY <1>4, <2>1, <3>1 DEF ResetLoad, Bus!FindNewest
    <3> QED BY <3>2 DEF Bus!Next
  <2>2. CASE ~Registered(r)
    BY <1>4, <2>2 DEF ResetLoad, Bus!vars
  <2> QED BY <2>1, <2>2
<1>5. CASE CheckCopy(r)
  <2>1. rd[r].pc = "check_copy" /\ UNCHANGED <<published, lost>>
    BY <1>5 DEF CheckCopy
  <2>2. CASE ~read_valids[rd[r].id]
    BY <1>5, <2>1, <2>2 DEF CheckCopy, Bus!vars
  <2>3. CASE read_valids[rd[r].id] /\ lost[r]
    <3>1. last' = [last EXCEPT ![r] = rd[r].got]
      BY <1>5, <2>3 DEF CheckCopy
    <3>2. last' = [last EXCEPT ![r] = last'[r]]
      BY <1>k, <3>1 DEF Known
    <3>3. Bus!DeliverAnything(r)
      BY <2>1, <2>3, <3>2 DEF Bus!DeliverAnything
    <3> QED BY <3>3 DEF Bus!Next
  <2>4. CASE read_valids[rd[r].id] /\ ~lost[r]
    <3>1. Footed(r)
      BY <2>1, <2>4 DEF Footed, ReadPcs
    <3>2. Sighted(C, TailFor(T, rd[r].id), rd[r], last[r], read_pointers[rd[r].id])
      BY <1>k, <2>4, <3>1 DEF Known, Footing
    <3>3. rd[r].got \in published /\ last[r] < rd[r].got
      BY <2>1, <3>2 DEF Sighted
    <3>4. Bus!Deliver(r)
      BY <1>5, <2>1, <2>4, <3>3 DEF CheckCopy, Bus!Deliver
    <3> QED BY <3>4 DEF Bus!Next
  <2> QED BY <1>k, <2>2, <2>3, <2>4
<1> QED BY <1>1, <1>2, <1>3, <1>4, <1>5 DEF RecvStep

LEMMA StepRefines == MsgqInv /\ [Next]_vars => [Bus!Next]_(Bus!vars)
<1> SUFFICES ASSUME MsgqInv, [Next]_vars PROVE [Bus!Next]_(Bus!vars)
  OBVIOUS
<1>0. PICK C, T : InvFor(C, T)
  BY DEF MsgqInv
<1>k. PubKnown(C, T) /\ Types /\ NewestKnown
  BY <1>0, PublisherKnown DEF InvFor
<1>1. CASE \/ \E n \in MsgSizes : Send(n)
           \/ WriteWrapTag \/ Invalidate \/ WrapAround \/ WriteSize \/ WriteWord
           \/ RestartPublisher \/ ForgetValid \/ ForgetUid
  <2>1. UNCHANGED history
    BY <1>1 DEF Send, WriteWrapTag, Invalidate, WrapAround, WriteSize, WriteWord,
       RestartPublisher, ForgetValid, ForgetUid
  <2> QED BY <2>1 DEF history, Bus!vars
<1>2. CASE LoadReadPointer
  <2>1. Overtaken \in SUBSET Readers /\ UNCHANGED <<published, last>>
        /\ lost' = [q \in Readers |-> lost[q] \/ q \in Overtaken]
    BY <1>2 DEF LoadReadPointer, Overtaken
  <2>2. PICK R : R = Overtaken
    OBVIOUS
  <2> QED BY <2>1, <2>2, LosesFooting
<1>3. CASE ForgetReaders
  <2>1. UNCHANGED <<published, last>> /\ lost' = [q \in Readers |-> lost[q] \/ q \in Readers]
    BY <1>3 DEF ForgetReaders, Everyone
  <2> QED BY <2>1, LosesFooting
<1>4. CASE PublishMsg
  <2>1. started \in Nat /\ started > 0 /\ started \notin published
        /\ \A m \in published : m \in Nat /\ m <= started
    <3>1. started \in Nat /\ published \subseteq 1 .. started
      BY <1>k, Sizing DEF PubKnown
    <3>2. started > 0 /\ started \notin published
      BY <1>k, <1>4 DEF PublishMsg, PubKnown, Publishing, AreaPcs
    <3> QED BY <3>1, <3>2
  <2>2. Newest \in published \union {0}
    BY <1>k, NewestType
  <2>3. Newest < started
    BY <2>1, <2>2
  <2>4. Newest = Bus!Newest
    BY DEF Newest, Bus!Newest
  <2>5. published' = published \union {started} /\ UNCHANGED <<last, lost>>
    BY <1>4 DEF PublishMsg
  <2>6. Bus!Publish
    BY <2>1, <2>3, <2>4, <2>5 DEF Bus!Publish
  <2> QED BY <2>6 DEF Bus!Next
<1>5. CASE UNCHANGED vars
  BY <1>5 DEF vars, history, Bus!vars
<1>6. ASSUME NEW r \in Readers, RecvStep(r) \/ RestartReader(r)
      PROVE  [Bus!Next]_(Bus!vars)
  BY <1>6, ReaderRefines
<1> QED BY <1>1, <1>2, <1>3, <1>4, <1>5, <1>6 DEF Next, PubStep

\* The queue implements the bus: what a reader with its footing is given was
\* published, whole, and is newer than what it was given before, for any number of
\* readers that come, go and evict each other, and of laps of the publisher.
THEOREM QueueImplementsBus == Spec => ImplementsBus
<1>1. Init => Bus!Init
  BY DEF Init, Bus!Init
<1> QED BY <1>1, Invariance, StepRefines, PTL DEF Spec, ImplementsBus, Bus!Spec
=============================================================================
