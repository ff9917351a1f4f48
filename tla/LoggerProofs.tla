---------------------------- MODULE LoggerProofs ----------------------------
(***************************************************************************)
(* What holds of the rotation for every number of cameras, handles and       *)
(* segments: a log is closed with its sentinel as the last message, and the  *)
(* cameras move on together when no more than a segment's frames are dropped *)
(* at once.                                                                  *)
(***************************************************************************)
EXTENDS Logger, FiniteSetTheorems, TLAPS

EncPcs == {"recv", "count", "wait", "open", "seal", "drop", "tear", "get", "encode", "done"}
MainPcs == {"poll", "again", "seal", "drop", "tear", "switch", "publish", "join", "ended"}

EncStates == [pc : EncPcs, frame : Nat, cur : Int, file : Int, lh : 0..Pool, to : {"get", "done"}]
MainStates == [pc : MainPcs, next : 0..Pool, drop : 0..Pool, to : {"switch", "ended"},
               then : {"poll", "again"}]

LoggerTypeOK ==
  /\ enc \in [Cams -> EncStates]
  /\ main \in MainStates
  /\ handle \in [Handles -> [refcnt : Nat, seg : Segments]]
  /\ log \in [Segments -> [tail : {"data", "end"}, shut : BOOLEAN]]
  /\ rot \in [segment : Segments, path : Segments, ready : Nat, part : Segments, cur : Handles]
  /\ sync \in [ready : SUBSET Cams, synced : SUBSET Cams, start : Nat]
  /\ exit \in BOOLEAN
  /\ past \in [timed : BOOLEAN, clash : BOOLEAN]

\* Where the logging thread is: with one log, or between two.
MainInOrder ==
  /\ main.pc \in {"poll", "again", "switch", "publish", "join"} => main.to = "switch"
  /\ main.pc \in {"seal", "drop", "tear"} => main.drop = rot.cur
  /\ LoggerBusy /\ main.to = "switch" => main.next \in Handles \ {rot.cur}
  /\ main.to = "ended" => \A c \in Cams : At(c, "done")
  /\ main.pc = "ended" => main.to = "ended"
  /\ main.pc = "again" \/ Rotating => ~exit

\* An encoder that uses or closes a handle has one; one that gets one has none.
EncInOrder(c) ==
  /\ At(c, "encode") \/ At(c, "seal") \/ At(c, "drop") \/ At(c, "tear") => enc[c].lh # 0
  /\ enc[c].cur # -1 /\ enc[c].pc \in {"recv", "count", "wait"} => enc[c].lh # 0
  /\ At(c, "get") \/ At(c, "done") => enc[c].lh = 0

\* Who holds a handle.
MainHas(h) ==
  \/ main.pc \in {"poll", "again", "publish", "join", "seal", "drop"} /\ h = rot.cur
  \/ LoggerBusy /\ main.to = "switch" /\ h = main.next
Has(c, h) == enc[c].lh = h /\ ~At(c, "tear")
Holders(h) == {c \in Cams : Has(c, h)}

\* The count of a handle is the number of its holders.
Counted(h) ==
  handle[h].refcnt = Cardinality(Holders(h)) + (IF MainHas(h) THEN 1 ELSE 0)

\* The lock of h is let go for the sentinel, or h has been let go.
Dropping(h) ==
  \/ main.pc = "drop" /\ main.drop = h
  \/ \E c \in Cams : At(c, "drop") /\ enc[c].lh = h

LastTail(h) == log[handle[h].seg].tail
IsShut(h) == log[handle[h].seg].shut

\* Until the count is down nobody but the last holder has the handle.
Closing(h) ==
  /\ Dropping(h) => handle[h].refcnt = 1 /\ LastTail(h) = "end"
  /\ Torn(h) => handle[h].refcnt = 0 /\ LastTail(h) = "end"

Live(h) == handle[h].refcnt > 0 \/ Torn(h)

\* Every log is written through one handle, and not after it was closed.
OneLogEach ==
  /\ \A g, h \in Handles : g # h /\ Live(g) /\ Live(h) => handle[g].seg # handle[h].seg
  /\ \A h \in Handles : handle[h].refcnt > 0 => ~IsShut(h)
  /\ \A h \in Handles : handle[h].seg <= rot.part
  /\ \A s \in Segments : s > rot.part => ~log[s].shut

HandlesInOrder ==
  /\ MainInOrder
  /\ \A c \in Cams : EncInOrder(c)
  /\ \A h \in Handles : Counted(h) /\ Closing(h)
  /\ OneLogEach

\* Nothing follows a clash.
LoggerInv == LoggerTypeOK /\ SentinelIsLast /\ (past.clash \/ HandlesInOrder)

-----------------------------------------------------------------------------
(* While no segment was rotated by time. *)

\* What the numbers of the segment are in each stage of a rotation.
Numbers ==
  /\ rot.part = rot.segment + (IF Rotating THEN 1 ELSE 0)
  /\ rot.path = rot.segment + (IF main.pc = "publish" THEN 1 ELSE 0)
  /\ handle[rot.cur].seg = rot.path
  /\ LoggerBusy /\ main.to = "switch" => handle[main.next].seg = rot.part

Waiting == {c \in Cams : At(c, "wait") /\ enc[c].cur = rot.segment}

\* The count of ready cameras is the number of those that wait, and all wait
\* while the log is rotated.
CountRight ==
  /\ ~exit => rot.ready = Cardinality(Waiting)
  /\ Rotating => Waiting = Cams

\* The agreement on the first frame.
StartAgreed ==
  /\ sync.synced # {} => sync.ready = Cams
  /\ \A c \in Cams :
       /\ c \in sync.synced <=> enc[c].cur # -1
       /\ c \in sync.ready \ sync.synced => enc[c].frame < sync.start
       /\ enc[c].cur = -1 => rot.segment = 0 /\ enc[c].lh = 0
                              /\ (At(c, "recv") \/ At(c, "done"))

InSegment(c) ==
  \/ enc[c].pc \in {"open", "get", "encode"}
  \/ enc[c].pc \in {"seal", "drop", "tear"} /\ enc[c].to = "get"
  \/ At(c, "recv") /\ ~exit

\* Where a camera that has begun is.
CameraRight(c) ==
  enc[c].cur # -1 =>
    /\ enc[c].cur \in Nat
    /\ enc[c].cur <= rot.segment
    /\ InSegment(c) \/ At(c, "count") => enc[c].cur = rot.segment
    /\ At(c, "wait") => rot.segment <= enc[c].cur + 1
    /\ ~At(c, "open") => enc[c].file = enc[c].cur
    /\ enc[c].lh # 0 /\ enc[c].pc \in {"recv", "count", "wait", "encode"} =>
         handle[enc[c].lh].seg = enc[c].cur
    /\ InSegment(c) =>
         /\ enc[c].frame < Boundary(c)
         /\ enc[c].cur > 0 => enc[c].frame >= Boundary(c) - PerSegment
    /\ At(c, "count") \/ At(c, "wait") =>
         enc[c].frame \in Boundary(c) .. Boundary(c) + PerSegment - 1

InStep ==
  /\ ~past.clash
  /\ Numbers /\ CountRight /\ StartAgreed
  /\ \A c \in Cams : CameraRight(c)

Together == past.timed \/ InStep

\* Fewer frames are dropped at once than a segment has.
DropsFit == \A k \in Steps : k <= PerSegment

-----------------------------------------------------------------------------
(* Types. *)

LEMMA Constants ==
  /\ PerSegment \in Nat /\ PerSegment > 0
  /\ MaxFrame \in Nat /\ LastSegment \in Nat
  /\ Pool \in Nat /\ 1 \in Handles /\ 0 \in Segments
  /\ Handles \subseteq 0..Pool
  BY LoggerAssumption DEF Handles, Segments

LEMMA EncSet ==
  ASSUME enc \in [Cams -> EncStates], NEW c \in Cams, NEW e \in EncStates,
         enc' = [enc EXCEPT ![c] = e]
  PROVE  /\ enc' \in [Cams -> EncStates]
         /\ enc'[c] = e
         /\ \A d \in Cams : d # c => enc'[d] = enc[d]
  OBVIOUS

LEMMA MainFields ==
  ASSUME main \in MainStates, NEW p \in MainPcs, NEW h \in 0..Pool
  PROVE  /\ [main EXCEPT !.pc = p] \in MainStates
         /\ [main EXCEPT !.pc = p, !.drop = h, !.to = "ended"] \in MainStates
  BY DEF MainStates

LEMMA Parts ==
  ASSUME LoggerTypeOK
  PROVE  /\ enc \in [Cams -> EncStates]
         /\ main \in MainStates
         /\ handle \in [Handles -> [refcnt : Nat, seg : Segments]]
         /\ log \in [Segments -> [tail : {"data", "end"}, shut : BOOLEAN]]
         /\ rot \in [segment : Segments, path : Segments, ready : Nat, part : Segments,
                     cur : Handles]
         /\ sync \in [ready : SUBSET Cams, synced : SUBSET Cams, start : Nat]
         /\ exit \in BOOLEAN
         /\ past \in [timed : BOOLEAN, clash : BOOLEAN]
  BY DEF LoggerTypeOK

LEMMA InitTypes == LoggerInit => LoggerTypeOK
<1> SUFFICES ASSUME LoggerInit PROVE LoggerTypeOK
  OBVIOUS
<1>1. PICK first \in [Cams -> 0..1] : enc = [c \in Cams |->
        [pc |-> "recv", frame |-> first[c], cur |-> -1, file |-> -1, lh |-> 0, to |-> "get"]]
  BY DEF LoggerInit
<1>2. enc \in [Cams -> EncStates]
  <2>1. \A c \in Cams : first[c] \in Nat
    OBVIOUS
  <2>2. \A c \in Cams : enc[c] \in EncStates
    BY <1>1, <2>1, Constants DEF EncStates, EncPcs
  <2> QED BY <1>1, <2>2
<1>3. main \in MainStates
  BY Constants DEF LoggerInit, MainStates, MainPcs
<1>4. handle \in [Handles -> [refcnt : Nat, seg : Segments]]
  BY Constants DEF LoggerInit
<1> QED BY <1>2, <1>3, <1>4, Constants DEF LoggerInit, LoggerTypeOK

LEMMA RecvTypes ==
  ASSUME LoggerTypeOK, NEW c \in Cams, NEW f \in 1..MaxFrame, Recv(c, f)
  PROVE  LoggerTypeOK'
<1>1. f \in Nat
  BY Constants
<1>2. enc[c] \in EncStates /\ rot.segment \in Int
  BY Parts, Constants DEF Segments
<1>3. sync' \in [ready : SUBSET Cams, synced : SUBSET Cams, start : Nat]
  <2>1. f + 2 \in Nat /\ sync.start \in Nat
    BY <1>1, Parts
  <2>2. Larger(sync.start, f + 2) \in Nat
    BY <2>1 DEF Larger
  <2>3. sync \in [ready : SUBSET Cams, synced : SUBSET Cams, start : Nat]
    BY Parts
  <2>4. /\ [sync EXCEPT !.start = Larger(sync.start, f + 2), !.ready = @ \cup {c}]
             \in [ready : SUBSET Cams, synced : SUBSET Cams, start : Nat]
        /\ [sync EXCEPT !.synced = @ \cup {c}]
             \in [ready : SUBSET Cams, synced : SUBSET Cams, start : Nat]
    BY <2>2, <2>3
  <2> QED BY <2>3, <2>4 DEF Recv, NotReady, TooEarly, Synced
<1>4. \E e \in EncStates : enc' = [enc EXCEPT ![c] = e]
  <2>1. CASE enc' = [enc EXCEPT ![c].frame = f]
    <3>1. [enc[c] EXCEPT !.frame = f] \in EncStates
      BY <1>1, <1>2 DEF EncStates, EncPcs
    <3>2. enc' = [enc EXCEPT ![c] = [enc[c] EXCEPT !.frame = f]]
      BY <2>1
    <3> QED BY <3>1, <3>2
  <2>2. CASE Follow(c, f)
    <3> DEFINE p == IF rot.segment > enc[c].cur THEN "open" ELSE "encode"
    <3>1. p \in EncPcs
      BY DEF EncPcs
    <3>2. [enc[c] EXCEPT !.frame = f, !.cur = rot.segment, !.pc = p] \in EncStates
      BY <1>1, <1>2, <3>1 DEF EncStates
    <3> QED BY <2>2, <3>2 DEF Follow
  <2>3. CASE enc' = [enc EXCEPT ![c] = [@ EXCEPT !.frame = f, !.pc = "count"]]
    <3>1. [enc[c] EXCEPT !.frame = f, !.pc = "count"] \in EncStates
      BY <1>1, <1>2 DEF EncStates, EncPcs
    <3> QED BY <2>3, <3>1
  <2> QED BY <2>1, <2>2, <2>3 DEF Recv, NotReady, TooEarly, Synced
<1> QED BY <1>3, <1>4, Parts DEF LoggerTypeOK, Recv
\* What the steps of an encoder set: an encoder's state, a handle's count, a log.
LEMMA EncoderSets ==
  ASSUME LoggerTypeOK, NEW c \in Cams, Encoder(c)
  PROVE  \E e \in EncStates : enc' = [enc EXCEPT ![c] = e]
<1>1. enc[c] \in EncStates
  BY Parts
<1>2. \A p \in EncPcs : [enc[c] EXCEPT !.pc = p] \in EncStates
  BY <1>1 DEF EncStates
<1>3. ASSUME NEW p \in EncPcs, Step(c, p)
      PROVE  \E e \in EncStates : enc' = [enc EXCEPT ![c] = e]
  <2>1. enc' = [enc EXCEPT ![c] = [enc[c] EXCEPT !.pc = p]]
    BY <1>3 DEF Step
  <2> QED BY <1>2, <2>1
<1>4. ASSUME Let(c)
      PROVE  \E e \in EncStates : enc' = [enc EXCEPT ![c] = e]
  <2>1. enc[c].to \in EncPcs
    BY <1>1 DEF EncStates, EncPcs
  <2>2. 0 \in 0..Pool
    BY Constants
  <2>3. [enc[c] EXCEPT !.pc = enc[c].to, !.lh = 0] \in EncStates
    BY <1>1, <2>1, <2>2 DEF EncStates
  <2> QED BY <1>4, <2>3 DEF Let
<1>5. CASE Count(c)
  BY <1>3, <1>5 DEF Count, EncPcs
<1>6. CASE Released(c)
  <2>1. CASE Follow(c, enc[c].frame)
    <3>1. rot.segment \in Int
      BY Parts, Constants DEF Segments
    <3> DEFINE p == IF rot.segment > enc[c].cur THEN "open" ELSE "encode"
    <3>2. p \in EncPcs
      BY DEF EncPcs
    <3>3. [enc[c] EXCEPT !.frame = enc[c].frame, !.cur = rot.segment, !.pc = p] \in EncStates
      BY <1>1, <3>1, <3>2 DEF EncStates
    <3> QED BY <2>1, <3>3 DEF Follow
  <2> QED BY <1>3, <1>6, <2>1 DEF Released, EncPcs
<1>7. CASE Open(c)
  <2>1. PICK f \in Int : enc' = [enc EXCEPT ![c] =
          [@ EXCEPT !.file = f, !.pc = IF enc[c].lh = 0 THEN "get" ELSE "seal"]]
    <3>1. rot.path \in Int /\ rot.part \in Int /\ Mixed \in Int
      BY Parts, Constants DEF Segments, Mixed
    <3> QED BY <1>7, <3>1 DEF Open
  <2> DEFINE p == IF enc[c].lh = 0 THEN "get" ELSE "seal"
  <2>2. p \in EncPcs
    BY DEF EncPcs
  <2>3. [enc[c] EXCEPT !.file = f, !.pc = p] \in EncStates
    BY <1>1, <2>2 DEF EncStates
  <2> QED BY <2>1, <2>3
<1>8. CASE Leave(c)
  <2> DEFINE p == IF enc[c].lh = 0 THEN "done" ELSE "seal"
  <2>1. p \in EncPcs
    BY DEF EncPcs
  <2>2. [enc[c] EXCEPT !.pc = p, !.to = "done"] \in EncStates
    BY <1>1, <2>1 DEF EncStates
  <2> QED BY <1>8, <2>2 DEF Leave
<1>9. CASE CloseHandle(c)
  BY <1>3, <1>4, <1>9 DEF CloseHandle, EncPcs
<1>10. CASE GetHandle(c)
  <2>1. rot.cur \in 0..Pool
    BY Parts, Constants
  <2>2. [enc[c] EXCEPT !.pc = "encode", !.lh = rot.cur] \in EncStates
    BY <1>1, <2>1 DEF EncStates, EncPcs
  <2> QED BY <1>10, <2>2 DEF GetHandle
<1>11. CASE Encode(c)
  BY <1>3, <1>11 DEF Encode, EncPcs
<1> QED BY <1>5, <1>6, <1>7, <1>8, <1>9, <1>10, <1>11 DEF Encoder
HandleStates == [refcnt : Nat, seg : Segments]
LogStates == [tail : {"data", "end"}, shut : BOOLEAN]

LEMMA WriteSets ==
  ASSUME LoggerTypeOK, NEW h \in Handles, NEW what \in {"data", "end"}, Write(h, what)
  PROVE  /\ log' \in [Segments -> LogStates]
         /\ log'[handle[h].seg].tail = what
         /\ \A s \in Segments : /\ (log'[s].shut <=> log[s].shut)
                                /\ s # handle[h].seg => log'[s] = log[s]
<1>1. log \in [Segments -> LogStates] /\ handle[h].seg \in Segments
  BY Parts DEF LogStates
<1>2. [log[handle[h].seg] EXCEPT !.tail = what] \in LogStates
  BY <1>1 DEF LogStates
<1>3. log' = [log EXCEPT ![handle[h].seg] = [log[handle[h].seg] EXCEPT !.tail = what]]
  BY DEF Write
<1> QED BY <1>1, <1>2, <1>3 DEF LogStates

LEMMA TearSets ==
  ASSUME LoggerTypeOK, NEW h \in Handles, Tear(h)
  PROVE  /\ log' \in [Segments -> LogStates]
         /\ \A s \in Segments : /\ log'[s].tail = log[s].tail
                                /\ (log'[s].shut <=> (log[s].shut \/ s = handle[h].seg))
<1>1. log \in [Segments -> LogStates] /\ handle[h].seg \in Segments
  BY Parts DEF LogStates
<1>2. [log[handle[h].seg] EXCEPT !.shut = TRUE] \in LogStates
  BY <1>1 DEF LogStates
<1>3. log' = [log EXCEPT ![handle[h].seg] = [log[handle[h].seg] EXCEPT !.shut = TRUE]]
  BY DEF Tear
<1> QED BY <1>1, <1>2, <1>3 DEF LogStates

LEMMA ReleaseSets ==
  ASSUME LoggerTypeOK, NEW h \in Handles, Release(h), handle[h].refcnt > 0
  PROVE  /\ handle' \in [Handles -> HandleStates]
         /\ handle'[h].refcnt = handle[h].refcnt - 1
         /\ \A g \in Handles : /\ handle'[g].seg = handle[g].seg
                               /\ g # h => handle'[g] = handle[g]
<1>1. handle \in [Handles -> HandleStates]
  BY Parts DEF HandleStates
<1>2. handle[h] \in HandleStates /\ handle[h].refcnt - 1 \in Nat
  BY <1>1 DEF HandleStates
<1>3. [handle[h] EXCEPT !.refcnt = @ - 1] \in HandleStates
  BY <1>2 DEF HandleStates
<1>4. handle' = [handle EXCEPT ![h] = [handle[h] EXCEPT !.refcnt = @ - 1]]
  BY DEF Release
<1> QED BY <1>1, <1>2, <1>3, <1>4 DEF HandleStates
-----------------------------------------------------------------------------
(* Holders and counts. *)

LEMMA HoldersFinite ==
  ASSUME NEW h PROVE IsFiniteSet(Holders(h)) /\ Cardinality(Holders(h)) \in Nat
<1>1. Holders(h) \in SUBSET Cams /\ IsFiniteSet(Cams)
  BY LoggerAssumption DEF Holders
<1>2. IsFiniteSet(Holders(h))
  BY <1>1, FS_Subset
<1> QED BY <1>2, FS_CardinalityType

LEMMA AtLeastOne ==
  ASSUME NEW h, NEW c \in Holders(h) PROVE Cardinality(Holders(h)) >= 1
<1>1. Cardinality(Holders(h)) # 0
  BY HoldersFinite, FS_EmptySet
<1> QED BY <1>1, HoldersFinite

LEMMA AtLeastTwo ==
  ASSUME NEW h, NEW c \in Holders(h), NEW d \in Holders(h), c # d
  PROVE  Cardinality(Holders(h)) >= 2
<1>1. Cardinality(Holders(h)) # 1
  <2> SUFFICES ASSUME Cardinality(Holders(h)) = 1 PROVE FALSE
    OBVIOUS
  <2>1. PICK x : Holders(h) = {x}
    BY HoldersFinite, FS_Singleton
  <2> QED BY <2>1
<1> QED BY <1>1, AtLeastOne, HoldersFinite

\* What the count of a handle says of its holders.
LEMMA Alone ==
  ASSUME LoggerTypeOK, NEW h \in Handles, Counted(h)
  PROVE  /\ \A c \in Cams : Has(c, h) => handle[h].refcnt > 0
         /\ MainHas(h) => handle[h].refcnt > 0
         /\ handle[h].refcnt <= 1 /\ MainHas(h) => \A c \in Cams : ~Has(c, h)
         /\ \A c \in Cams : handle[h].refcnt <= 1 /\ Has(c, h) =>
              ~MainHas(h) /\ \A d \in Cams : Has(d, h) => d = c
<1>1. \A c \in Cams : Has(c, h) <=> c \in Holders(h)
  BY DEF Holders
<1>2. Cardinality(Holders(h)) \in Nat
  BY HoldersFinite
<1>3. \A c \in Cams : Has(c, h) => Cardinality(Holders(h)) >= 1
  BY <1>1, AtLeastOne
<1>4. \A c, d \in Cams : Has(c, h) /\ Has(d, h) /\ c # d => Cardinality(Holders(h)) >= 2
  BY <1>1, AtLeastTwo
<1> QED BY <1>2, <1>3, <1>4 DEF Counted

-----------------------------------------------------------------------------
(* Steps by what they do to handles and logs. *)

LogsInOrder == SentinelIsLast /\ (\A h \in Handles : Closing(h)) /\ OneLogEach

SameHolders ==
  \A h \in Handles : Holders(h)' = Holders(h) /\ (MainHas(h)' <=> MainHas(h))

LEMMA SameCounts ==
  ASSUME SameHolders, handle' = handle, \A h \in Handles : Counted(h)
  PROVE  \A h \in Handles : Counted(h)'
  BY DEF SameHolders, Counted

LEMMA HandlesKept ==
  ASSUME LogsInOrder, UNCHANGED <<handle, log>>, rot.part' = rot.part,
         \A h \in Handles : (Dropping(h)' => Dropping(h)) /\ (Torn(h)' => Torn(h))
  PROVE  LogsInOrder'
<1>1. SentinelIsLast'
  BY DEF LogsInOrder, SentinelIsLast
<1>2. \A h \in Handles : Closing(h)'
  BY DEF LogsInOrder, Closing, LastTail
<1>3. OneLogEach'
  BY DEF LogsInOrder, OneLogEach, Live, IsShut
<1> QED BY <1>1, <1>2, <1>3 DEF LogsInOrder

LEMMA HandleWritten ==
  ASSUME LoggerTypeOK, LogsInOrder, handle' = handle, rot.part' = rot.part,
         NEW h \in Handles, NEW what \in {"data", "end"}, Write(h, what),
         handle[h].refcnt > 0, what = "data" => ~Dropping(h),
         \A g \in Handles :
           /\ Torn(g)' => Torn(g)
           /\ Dropping(g)' => Dropping(g) \/ (g = h /\ what = "end" /\ handle[h].refcnt = 1)
  PROVE  LogsInOrder'
<1>0. /\ handle \in [Handles -> [refcnt : Nat, seg : Segments]]
      /\ log \in [Segments -> [tail : {"data", "end"}, shut : BOOLEAN]]
      /\ log' \in [Segments -> [tail : {"data", "end"}, shut : BOOLEAN]]
  BY Parts, WriteSets DEF LogStates
<1>1. /\ log'[handle[h].seg].tail = what
      /\ \A s \in Segments : /\ (log'[s].shut <=> log[s].shut)
                             /\ s # handle[h].seg => log'[s] = log[s]
  BY WriteSets
<1>2. \A g \in Handles : handle[g].seg \in Segments /\ handle[g].refcnt \in Nat
  BY Parts
<1>3. ~log[handle[h].seg].shut
  BY DEF LogsInOrder, OneLogEach, IsShut
<1>4. SentinelIsLast'
  <2>1. ASSUME NEW s \in Segments, log'[s].shut PROVE log'[s].tail = "end"
    <3>1. s # handle[h].seg /\ log'[s] = log[s] /\ log[s].shut
      BY <1>0, <1>1, <1>2, <1>3, <2>1
    <3> QED BY <3>1 DEF LogsInOrder, SentinelIsLast
  <2> QED BY <2>1 DEF SentinelIsLast
<1>5. OneLogEach'
  <2>1. \A g \in Handles : Live(g)' => Live(g)
    BY <1>0 DEF Live
  <2>2. \A g \in Handles : (IsShut(g)' <=> IsShut(g))
    BY <1>0, <1>1, <1>2 DEF IsShut
  <2> QED BY <1>0, <1>1, <2>1, <2>2 DEF LogsInOrder, OneLogEach
<1>6. ASSUME NEW g \in Handles PROVE Closing(g)'
  <2>1. CASE g = h
    <3>1. ~Torn(h)
      BY DEF LogsInOrder, Closing
    <3>2. Dropping(h)' => handle[h].refcnt = 1 /\ what = "end"
      BY DEF LogsInOrder, Closing
    <3>3. LastTail(h)' = what
      BY <1>1 DEF LastTail
    <3> QED BY <2>1, <3>1, <3>2, <3>3 DEF Closing
  <2>2. CASE g # h
    <3>1. Closing(g)
      BY DEF LogsInOrder
    <3>2. Dropping(g) \/ Torn(g) => handle[g].seg # handle[h].seg
      BY <2>2, <3>1 DEF LogsInOrder, OneLogEach, Live, Closing
    <3>3. Dropping(g) \/ Torn(g) => LastTail(g)' = LastTail(g)
      BY <1>0, <1>1, <1>2, <3>2 DEF LastTail
    <3> QED BY <2>2, <3>1, <3>3 DEF Closing
  <2> QED BY <2>1, <2>2
<1> QED BY <1>4, <1>5, <1>6 DEF LogsInOrder
\* The count of h goes down.
LEMMA HandleLet ==
  ASSUME LoggerTypeOK, LogsInOrder, log' = log, rot.part' = rot.part,
         NEW h \in Handles, Release(h), handle[h].refcnt > 0,
         \A g \in Handles :
           /\ Dropping(g)' => Dropping(g) /\ g # h
           /\ Torn(g)' => Torn(g) \/ (g = h /\ handle[h].refcnt = 1 /\ LastTail(h) = "end")
  PROVE  LogsInOrder'
<1>0. /\ handle \in [Handles -> [refcnt : Nat, seg : Segments]]
      /\ log \in [Segments -> [tail : {"data", "end"}, shut : BOOLEAN]]
      /\ handle' \in [Handles -> [refcnt : Nat, seg : Segments]]
  BY Parts, ReleaseSets DEF HandleStates
<1>1. /\ handle'[h].refcnt = handle[h].refcnt - 1
      /\ \A g \in Handles : /\ handle'[g].seg = handle[g].seg
                            /\ g # h => handle'[g] = handle[g]
  BY ReleaseSets
<1>2. \A g \in Handles : handle[g].refcnt \in Nat
  BY Parts
<1>3. SentinelIsLast'
  BY DEF LogsInOrder, SentinelIsLast
<1>4. \A g \in Handles : LastTail(g)' = LastTail(g) /\ (IsShut(g)' <=> IsShut(g))
  BY <1>0, <1>1 DEF LastTail, IsShut
<1>5. \A g \in Handles : Closing(g)'
  <2>1. ~Torn(h)
    BY DEF LogsInOrder, Closing
  <2>2. \A g \in Handles : g # h => Closing(g)'
    BY <1>0, <1>1, <1>4 DEF LogsInOrder, Closing
  <2>3. Closing(h)'
    BY <1>1, <1>2, <1>4, <2>1 DEF Closing
  <2> QED BY <2>2, <2>3
<1>6. OneLogEach'
  <2>1. \A g \in Handles : Live(g)' => Live(g)
    BY <1>0, <1>1, <1>2 DEF Live
  <2>2. \A g \in Handles : handle'[g].refcnt > 0 => handle[g].refcnt > 0
    BY <1>0, <1>1, <1>2
  <2> QED BY <1>0, <1>1, <1>4, <2>1, <2>2 DEF LogsInOrder, OneLogEach
<1> QED BY <1>3, <1>5, <1>6 DEF LogsInOrder

\* The files of h are closed.
LEMMA HandleTorn ==
  ASSUME LoggerTypeOK, LogsInOrder, handle' = handle, rot.part' = rot.part,
         NEW h \in Handles, Tear(h), Torn(h),
         \A g \in Handles : (Dropping(g)' => Dropping(g)) /\ (Torn(g)' => Torn(g))
  PROVE  LogsInOrder'
<1>0. /\ handle \in [Handles -> [refcnt : Nat, seg : Segments]]
      /\ log \in [Segments -> [tail : {"data", "end"}, shut : BOOLEAN]]
      /\ log' \in [Segments -> [tail : {"data", "end"}, shut : BOOLEAN]]
  BY Parts, TearSets DEF LogStates
<1>1. \A s \in Segments : /\ log'[s].tail = log[s].tail
                          /\ (log'[s].shut <=> (log[s].shut \/ s = handle[h].seg))
  BY TearSets
<1>2. \A g \in Handles : handle[g].seg \in Segments
  BY Parts
<1>3. handle[h].refcnt = 0 /\ LastTail(h) = "end"
  BY DEF LogsInOrder, Closing
<1>4. SentinelIsLast'
  BY <1>1, <1>3 DEF LogsInOrder, SentinelIsLast, LastTail
<1>5. \A g \in Handles : LastTail(g)' = LastTail(g)
  BY <1>0, <1>1, <1>2 DEF LastTail
<1>6. \A g \in Handles : Closing(g)'
  BY <1>5 DEF LogsInOrder, Closing
<1>7. OneLogEach'
  <2>1. \A g \in Handles : Live(g)' => Live(g)
    BY <1>0 DEF Live
  <2>2. ASSUME NEW g \in Handles, handle[g].refcnt > 0 PROVE ~IsShut(g)'
    <3>1. g # h /\ Live(g) /\ Live(h)
      BY <1>0, <1>3, <2>2 DEF Live
    <3>2. handle[g].seg # handle[h].seg /\ ~IsShut(g)
      BY <2>2, <3>1 DEF LogsInOrder, OneLogEach
    <3> QED BY <1>0, <1>1, <1>2, <3>2 DEF IsShut
  <2>3. \A s \in Segments : s > rot.part => ~log'[s].shut
    <3>1. handle[h].seg <= rot.part /\ rot.part \in Int /\ handle[h].seg \in Int
      BY <1>2, Parts, Constants DEF LogsInOrder, OneLogEach, Segments
    <3> QED BY <1>0, <1>1, <3>1 DEF LogsInOrder, OneLogEach, Segments
  <2> QED BY <2>1, <2>2, <2>3 DEF LogsInOrder, OneLogEach
<1> QED BY <1>4, <1>6, <1>7 DEF LogsInOrder
-----------------------------------------------------------------------------
(* The steps of an encoder. *)

\* One encoder moves, and the logging thread does not.
Moves(c, e) ==
  /\ enc' = [enc EXCEPT ![c] = e]
  /\ UNCHANGED <<main, exit>> /\ rot'.part = rot.part /\ rot'.cur = rot.cur

LEMMA EncoderMoves ==
  ASSUME LoggerTypeOK, NEW c \in Cams, NEW e \in EncStates, Moves(c, e)
  PROVE  /\ \A h \in Handles :
              /\ Torn(h)' => Torn(h) \/ (e.pc = "tear" /\ e.lh = h)
              /\ Dropping(h)' => Dropping(h) \/ (e.pc = "drop" /\ e.lh = h)
              /\ Holders(h)' = IF e.lh = h /\ e.pc # "tear" THEN Holders(h) \cup {c}
                                                          ELSE Holders(h) \ {c}
              /\ MainHas(h)' <=> MainHas(h)
         /\ enc'[c] = e
         /\ \A d \in Cams : d # c => enc'[d] = enc[d]
<1>1. /\ enc'[c] = e
      /\ \A d \in Cams : d # c => enc'[d] = enc[d]
  BY EncSet, Parts DEF Moves
<1>2. ASSUME NEW h \in Handles
      PROVE  /\ Torn(h)' => Torn(h) \/ (e.pc = "tear" /\ e.lh = h)
             /\ Dropping(h)' => Dropping(h) \/ (e.pc = "drop" /\ e.lh = h)
             /\ Holders(h)' = IF e.lh = h /\ e.pc # "tear" THEN Holders(h) \cup {c}
                                                         ELSE Holders(h) \ {c}
             /\ MainHas(h)' <=> MainHas(h)
  <2>1. Torn(h)' => Torn(h) \/ (e.pc = "tear" /\ e.lh = h)
    BY <1>1 DEF Torn, At, Moves
  <2>2. Dropping(h)' => Dropping(h) \/ (e.pc = "drop" /\ e.lh = h)
    BY <1>1 DEF Dropping, At, Moves
  <2>3. Holders(h)' = IF e.lh = h /\ e.pc # "tear" THEN Holders(h) \cup {c}
                                               ELSE Holders(h) \ {c}
    BY <1>1 DEF Holders, Has, At
  <2>4. MainHas(h)' <=> MainHas(h)
    BY DEF MainHas, LoggerBusy, Moves
  <2> QED BY <2>1, <2>2, <2>3, <2>4
<1> QED BY <1>1, <1>2

LEMMA OrderMoves ==
  ASSUME LoggerTypeOK, NEW c \in Cams, NEW e \in EncStates, Moves(c, e), ~At(c, "done"),
         MainInOrder, \A d \in Cams : EncInOrder(d), EncInOrder(c)'
  PROVE  MainInOrder' /\ \A d \in Cams : EncInOrder(d)'
<1>1. enc'[c] = e /\ \A d \in Cams : d # c => enc'[d] = enc[d]
  BY EncoderMoves
<1>2. main' = main /\ exit' = exit /\ rot'.cur = rot.cur
  BY DEF Moves
<1>3. main.to # "ended"
  BY DEF MainInOrder
<1>4. MainInOrder'
  BY <1>2, <1>3 DEF MainInOrder, LoggerBusy, Rotating
<1>5. \A d \in Cams : d # c => EncInOrder(d)'
  BY <1>1 DEF EncInOrder, At
<1> QED BY <1>4, <1>5

\* A step of an encoder between two uses of its handle.
LEMMA QuietStep ==
  ASSUME LoggerTypeOK, HandlesInOrder, SentinelIsLast,
         NEW c \in Cams, NEW e \in EncStates, Moves(c, e), UNCHANGED <<handle, log>>,
         enc[c].pc \notin {"drop", "tear", "done"}, e.pc \notin {"drop", "tear"},
         e.lh = enc[c].lh, EncInOrder(c)'
  PROVE  HandlesInOrder' /\ SentinelIsLast'
<1>1. MainInOrder' /\ \A d \in Cams : EncInOrder(d)'
  BY OrderMoves DEF HandlesInOrder, At
<1>2. SameHolders
  BY EncoderMoves DEF SameHolders, Holders, Has, At
<1>3. \A h \in Handles : Counted(h)'
  BY <1>2, SameCounts DEF HandlesInOrder
<1>4. \A h \in Handles : (Dropping(h)' => Dropping(h)) /\ (Torn(h)' => Torn(h))
  BY EncoderMoves
<1>5. LogsInOrder'
  BY <1>4, HandlesKept DEF LogsInOrder, HandlesInOrder, Moves
<1> QED BY <1>1, <1>3, <1>5 DEF HandlesInOrder, LogsInOrder
LEMMA RecvSets ==
  ASSUME LoggerTypeOK, NEW c \in Cams, NEW f \in 1..MaxFrame, Recv(c, f)
  PROVE  /\ \E e \in EncStates : enc' = [enc EXCEPT ![c] = e]
         /\ enc'[c].lh = enc[c].lh
         /\ enc'[c].pc = "open"
            \/ (enc'[c].cur = enc[c].cur /\ enc'[c].pc \in {"recv", "count"}
                  /\ (enc'[c].pc = "count" => enc[c].cur >= 0))
            \/ (enc'[c].pc = "encode" /\ enc'[c].cur = rot.segment /\ rot.segment <= enc[c].cur)
<1>1. f \in Nat
  BY Constants
<1>2. enc[c] \in EncStates /\ rot.segment \in Int /\ enc \in [Cams -> EncStates]
  BY Parts, Constants DEF Segments
<1>3. CASE enc' = [enc EXCEPT ![c].frame = f]
  <2>1. [enc[c] EXCEPT !.frame = f] \in EncStates
    BY <1>1, <1>2 DEF EncStates, EncPcs
  <2>2. enc' = [enc EXCEPT ![c] = [enc[c] EXCEPT !.frame = f]]
    BY <1>3
  <2>3. enc'[c] = [enc[c] EXCEPT !.frame = f] /\ enc[c].pc = "recv"
    BY <1>2, <2>2 DEF Recv, At
  <2> QED BY <1>2, <2>1, <2>2, <2>3 DEF EncStates
<1>4. CASE Follow(c, f)
  <2> DEFINE p == IF rot.segment > enc[c].cur THEN "open" ELSE "encode"
  <2>1. p \in EncPcs
    BY DEF EncPcs
  <2>2. [enc[c] EXCEPT !.frame = f, !.cur = rot.segment, !.pc = p] \in EncStates
    BY <1>1, <1>2, <2>1 DEF EncStates
  <2>3. enc'[c] = [enc[c] EXCEPT !.frame = f, !.cur = rot.segment, !.pc = p]
    BY <1>2, <1>4 DEF Follow
  <2>4. enc'[c].lh = enc[c].lh /\ enc'[c].cur = rot.segment /\ enc'[c].pc = p
    BY <1>2, <2>3 DEF EncStates
  <2>5. enc[c].cur \in Int
    BY <1>2 DEF EncStates
  <2>6. p = "open" \/ (p = "encode" /\ rot.segment <= enc[c].cur)
    BY <1>2, <2>5
  <2> QED BY <1>4, <2>2, <2>4, <2>6 DEF Follow
<1>5. CASE enc' = [enc EXCEPT ![c] = [@ EXCEPT !.frame = f, !.pc = "count"]] /\ enc[c].cur >= 0
  <2>1. [enc[c] EXCEPT !.frame = f, !.pc = "count"] \in EncStates
    BY <1>1, <1>2 DEF EncStates, EncPcs
  <2>2. enc'[c] = [enc[c] EXCEPT !.frame = f, !.pc = "count"]
    BY <1>2, <1>5
  <2> QED BY <1>2, <1>5, <2>1, <2>2 DEF EncStates
<1> QED BY <1>3, <1>4, <1>5 DEF Recv, NotReady, TooEarly, Synced

LEMMA RecvKeeps ==
  ASSUME LoggerTypeOK, HandlesInOrder, SentinelIsLast,
         NEW c \in Cams, NEW f \in 1..MaxFrame, Recv(c, f)
  PROVE  HandlesInOrder' /\ SentinelIsLast'
<1>1. PICK e \in EncStates : enc' = [enc EXCEPT ![c] = e]
  BY RecvSets
<1>2. enc'[c] = e /\ enc[c].pc = "recv" /\ Moves(c, e) /\ UNCHANGED <<handle, log>>
  BY <1>1, EncSet, Parts DEF Recv, At, Moves
<1>3. /\ e.lh = enc[c].lh
      /\ e.pc = "open"
         \/ (e.cur = enc[c].cur /\ e.pc \in {"recv", "count"} /\ (e.pc = "count" => enc[c].cur >= 0))
         \/ (e.pc = "encode" /\ e.cur = rot.segment /\ rot.segment <= enc[c].cur)
  BY <1>2, RecvSets
<1>4. rot.segment \in Nat /\ enc[c].cur \in Int
  BY Parts, Constants DEF Segments, EncStates
<1>5. EncInOrder(c)
  BY DEF HandlesInOrder
<1>6. EncInOrder(c)'
  BY <1>2, <1>3, <1>4, <1>5 DEF EncInOrder, At
<1> QED BY <1>2, <1>3, <1>6, QuietStep
LEMMA CountKeeps ==
  ASSUME LoggerTypeOK, HandlesInOrder, SentinelIsLast, NEW c \in Cams, Count(c)
  PROVE  HandlesInOrder' /\ SentinelIsLast'
<1> DEFINE e == [enc[c] EXCEPT !.pc = "wait"]
<1>1. enc[c] \in EncStates /\ EncInOrder(c)
  BY Parts DEF HandlesInOrder
<1>2. e \in EncStates /\ e.lh = enc[c].lh /\ e.pc = "wait" /\ e.cur = enc[c].cur
  BY <1>1 DEF EncStates, EncPcs
<1>3. enc' = [enc EXCEPT ![c] = e] /\ enc[c].pc = "count"
  BY DEF Count, Step, At
<1>4. Moves(c, e) /\ UNCHANGED <<handle, log>>
  <2>1. rot'.part = rot.part /\ rot'.cur = rot.cur
    BY Parts DEF Count
  <2> QED BY <1>3, <2>1 DEF Count, Moves
<1>5. enc'[c] = e
  BY <1>2, <1>3, EncSet, Parts
<1> HIDE DEF e
<1>6. EncInOrder(c)'
  BY <1>1, <1>2, <1>3, <1>5 DEF EncInOrder, At
<1> QED BY <1>2, <1>3, <1>4, <1>6, QuietStep

LEMMA ReleasedKeeps ==
  ASSUME LoggerTypeOK, HandlesInOrder, SentinelIsLast, NEW c \in Cams, Released(c)
  PROVE  HandlesInOrder' /\ SentinelIsLast'
<1>1. enc[c] \in EncStates /\ EncInOrder(c) /\ rot.segment \in Int /\ enc[c].pc = "wait"
  BY Parts, Constants DEF HandlesInOrder, Segments, Released, At
<1>2. PICK e \in EncStates : /\ enc' = [enc EXCEPT ![c] = e]
                             /\ e.lh = enc[c].lh
                             /\ e.pc = "open" \/ (e.pc = "recv" /\ e.cur = enc[c].cur)
  <2>1. CASE rot.segment > enc[c].cur /\ Follow(c, enc[c].frame)
    <3> DEFINE e == [enc[c] EXCEPT !.frame = enc[c].frame, !.cur = rot.segment, !.pc = "open"]
    <3>1. e \in EncStates /\ e.lh = enc[c].lh /\ e.pc = "open"
      BY <1>1 DEF EncStates, EncPcs
    <3>2. enc' = [enc EXCEPT ![c] = e]
      BY <2>1 DEF Follow
    <3> QED BY <3>1, <3>2
  <2>2. CASE Step(c, "recv")
    <3> DEFINE e == [enc[c] EXCEPT !.pc = "recv"]
    <3>1. e \in EncStates /\ e.lh = enc[c].lh /\ e.pc = "recv" /\ e.cur = enc[c].cur
      BY <1>1 DEF EncStates, EncPcs
    <3>2. enc' = [enc EXCEPT ![c] = e]
      BY <2>2 DEF Step
    <3> QED BY <3>1, <3>2
  <2> QED BY <2>1, <2>2 DEF Released
<1>3. enc'[c] = e /\ Moves(c, e) /\ UNCHANGED <<handle, log>>
  BY <1>2, EncSet, Parts DEF Released, Moves
<1>4. EncInOrder(c)'
  BY <1>1, <1>2, <1>3 DEF EncInOrder, At
<1> QED BY <1>1, <1>2, <1>3, <1>4, QuietStep

LEMMA OpenKeeps ==
  ASSUME LoggerTypeOK, HandlesInOrder, SentinelIsLast, NEW c \in Cams, Open(c)
  PROVE  HandlesInOrder' /\ SentinelIsLast'
<1>1. enc[c] \in EncStates /\ enc[c].pc = "open"
  BY Parts DEF Open, At
<1>2. PICK e \in EncStates : /\ enc' = [enc EXCEPT ![c] = e]
                             /\ e.lh = enc[c].lh
                             /\ e.pc = IF e.lh = 0 THEN "get" ELSE "seal"
  <2>1. PICK f \in Int : enc' = [enc EXCEPT ![c] =
          [@ EXCEPT !.file = f, !.pc = IF enc[c].lh = 0 THEN "get" ELSE "seal"]]
    <3>1. rot.path \in Int /\ rot.part \in Int /\ Mixed \in Int
      BY Parts, Constants DEF Segments, Mixed
    <3> QED BY <3>1 DEF Open
  <2> DEFINE e == [enc[c] EXCEPT !.file = f, !.pc = IF enc[c].lh = 0 THEN "get" ELSE "seal"]
  <2>2. e \in EncStates /\ e.lh = enc[c].lh /\ e.pc = IF enc[c].lh = 0 THEN "get" ELSE "seal"
    BY <1>1 DEF EncStates, EncPcs
  <2> QED BY <2>1, <2>2
<1>3. enc'[c] = e /\ Moves(c, e) /\ UNCHANGED <<handle, log>>
  BY <1>2, EncSet, Parts DEF Open, Moves
<1>4. EncInOrder(c)'
  BY <1>1, <1>2, <1>3 DEF EncInOrder, At
<1> QED BY <1>1, <1>2, <1>3, <1>4, QuietStep

LEMMA LeaveKeeps ==
  ASSUME LoggerTypeOK, HandlesInOrder, SentinelIsLast, NEW c \in Cams, Leave(c)
  PROVE  HandlesInOrder' /\ SentinelIsLast'
<1> DEFINE e == [enc[c] EXCEPT !.pc = IF enc[c].lh = 0 THEN "done" ELSE "seal", !.to = "done"]
<1>1. enc[c] \in EncStates /\ enc[c].pc = "recv"
  BY Parts DEF Leave, At
<1>2. e \in EncStates /\ e.lh = enc[c].lh /\ e.pc = IF e.lh = 0 THEN "done" ELSE "seal"
  BY <1>1 DEF EncStates, EncPcs
<1>3. enc' = [enc EXCEPT ![c] = e]
  BY DEF Leave
<1> HIDE DEF e
<1>4. enc'[c] = e /\ Moves(c, e) /\ UNCHANGED <<handle, log>>
  BY <1>2, <1>3, EncSet, Parts DEF Leave, Moves
<1>5. EncInOrder(c)'
  BY <1>1, <1>2, <1>4 DEF EncInOrder, At
<1> QED BY <1>1, <1>2, <1>4, <1>5, QuietStep
\* Who has a handle and is not closing it knows that nobody is.
LEMMA NotDropping ==
  ASSUME LoggerTypeOK, HandlesInOrder, NEW h \in Handles
  PROVE  /\ \A c \in Cams : Has(c, h) /\ ~At(c, "drop") => ~Dropping(h)
         /\ MainHas(h) /\ main.pc # "drop" => ~Dropping(h)
<1>1. Counted(h) /\ Closing(h) /\ MainInOrder
  BY DEF HandlesInOrder
<1>2. \A c \in Cams : At(c, "drop") /\ enc[c].lh = h => Has(c, h)
  BY DEF Has, At
<1>3. main.pc = "drop" /\ main.drop = h => MainHas(h)
  BY <1>1 DEF MainInOrder, MainHas
<1>4. Dropping(h) => handle[h].refcnt <= 1
  <2>1. Dropping(h) => handle[h].refcnt = 1
    BY <1>1 DEF Closing
  <2> QED BY <2>1
<1> QED BY <1>1, <1>2, <1>3, <1>4, Alone DEF Dropping

LEMMA EncoderHandle ==
  ASSUME LoggerTypeOK, HandlesInOrder, NEW c \in Cams,
         enc[c].pc \in {"encode", "seal", "drop", "tear"}
  PROVE  /\ enc[c].lh \in Handles
         /\ enc[c].pc # "tear" => Has(c, enc[c].lh) /\ handle[enc[c].lh].refcnt > 0
<1>1. enc[c].lh \in 0..Pool /\ enc[c].lh # 0
  BY Parts DEF HandlesInOrder, EncInOrder, At, EncStates
<1>2. enc[c].lh \in Handles
  BY <1>1, Constants DEF Handles
<1>3. enc[c].pc # "tear" => Has(c, enc[c].lh)
  BY DEF Has, At
<1> QED BY <1>2, <1>3, Alone DEF HandlesInOrder

LEMMA EncodeKeeps ==
  ASSUME LoggerTypeOK, HandlesInOrder, SentinelIsLast, NEW c \in Cams, Encode(c)
  PROVE  HandlesInOrder' /\ SentinelIsLast'
<1> DEFINE e == [enc[c] EXCEPT !.pc = "recv"]
           h == enc[c].lh
<1>1. enc[c] \in EncStates /\ EncInOrder(c) /\ enc[c].pc = "encode"
  BY Parts DEF HandlesInOrder, Encode, At
<1>2. e \in EncStates /\ e.lh = h /\ e.pc = "recv"
  BY <1>1 DEF EncStates, EncPcs
<1>3. enc' = [enc EXCEPT ![c] = e]
  BY DEF Encode, Step
<1>4. h \in Handles /\ Has(c, h) /\ handle[h].refcnt > 0
  BY <1>1, EncoderHandle
<1>5. ~Dropping(h)
  BY <1>1, <1>4, NotDropping DEF At
<1> HIDE DEF e
<1>6. enc'[c] = e /\ Moves(c, e) /\ handle' = handle /\ Write(h, "data")
  BY <1>2, <1>3, EncSet, Parts DEF Encode, Moves
<1> HIDE DEF h
<1>7. EncInOrder(c)'
  <2>1. h # 0
    BY <1>4, Constants DEF Handles
  <2> QED BY <1>2, <1>6, <2>1 DEF EncInOrder, At
<1>8. MainInOrder' /\ \A d \in Cams : EncInOrder(d)'
  BY <1>1, <1>2, <1>6, <1>7, OrderMoves DEF HandlesInOrder, At
<1>9. SameHolders
  BY <1>1, <1>2, <1>6, EncoderMoves DEF SameHolders, Holders, Has, At, h
<1>10. \A g \in Handles : Counted(g)'
  BY <1>6, <1>9, SameCounts DEF HandlesInOrder
<1>11. \A g \in Handles : (Dropping(g)' => Dropping(g)) /\ (Torn(g)' => Torn(g))
  BY <1>2, <1>6, EncoderMoves
<1>12. LogsInOrder /\ rot'.part = rot.part
  BY <1>6 DEF HandlesInOrder, LogsInOrder, Moves
<1>13. LogsInOrder'
  BY <1>4, <1>5, <1>6, <1>11, <1>12, HandleWritten
<1> QED BY <1>8, <1>10, <1>13 DEF HandlesInOrder, LogsInOrder

\* An encoder lets its handle go.
LEMMA CountDown ==
  ASSUME LoggerTypeOK, HandlesInOrder, SentinelIsLast,
         NEW c \in Cams, NEW h \in Handles, Has(c, h),
         NEW e \in EncStates, Moves(c, e), Release(h), log' = log,
         \/ e.pc = "tear" /\ e.lh = h /\ handle[h].refcnt = 1 /\ LastTail(h) = "end"
         \/ e.pc \in {"get", "done"} /\ e.lh = 0,
         ~Dropping(h) \/ At(c, "drop")
  PROVE  (\A g \in Handles : Counted(g)') /\ LogsInOrder'
<1>1. handle \in [Handles -> HandleStates]
  BY Parts DEF HandleStates
<1>2. 0 \notin Handles
  BY Constants DEF Handles
<1>3. Counted(h) /\ Closing(h) /\ MainInOrder /\ handle[h].refcnt > 0 /\ handle[h].refcnt \in Nat
  <2>1. Counted(h) /\ Closing(h) /\ MainInOrder
    BY DEF HandlesInOrder
  <2>2. handle[h].refcnt \in Nat
    BY <1>1 DEF HandleStates
  <2> QED BY <2>1, <2>2, Alone
<1>4. ASSUME NEW g \in Handles
      PROVE  /\ Holders(g)' = Holders(g) \ {c}
             /\ MainHas(g)' <=> MainHas(g)
             /\ Torn(g)' => Torn(g) \/ (e.pc = "tear" /\ g = h)
             /\ Dropping(g)' => Dropping(g)
  <2>1. g # h => c \notin Holders(g)
    BY DEF Holders, Has
  <2>2. ~(e.lh = g /\ e.pc # "tear") /\ e.pc # "drop"
    BY <1>2
  <2> QED BY <2>1, <2>2, EncoderMoves
<1>5. c \in Holders(h) /\ \A g \in Handles : g # h => c \notin Holders(g)
  BY DEF Holders, Has
<1>6. ~Dropping(h)'
  <2>1. CASE ~Dropping(h)
    BY <1>4, <2>1
  <2>2. CASE At(c, "drop")
    <3>1. handle[h].refcnt <= 1
      <4>1. Dropping(h)
        BY <2>2 DEF Dropping, Has
      <4> QED BY <1>3, <4>1 DEF Closing
    <3>2. ~MainHas(h) /\ \A d \in Cams : Has(d, h) => d = c
      BY <1>3, <3>1, Alone
    <3>3. ~(main.pc = "drop" /\ main.drop = h)
      BY <1>3, <3>2 DEF MainHas, MainInOrder
    <3>4. enc'[c] = e /\ main' = main /\ \A d \in Cams : d # c => enc'[d] = enc[d]
      BY EncoderMoves DEF Moves
    <3>5. e.pc # "drop"
      OBVIOUS
    <3>6. \A d \in Cams : d # c => ~(enc[d].pc = "drop" /\ enc[d].lh = h)
      BY <3>2 DEF Has, At
    <3> QED BY <3>3, <3>4, <3>5, <3>6 DEF Dropping, At
  <2> QED BY <2>1, <2>2
<1>7. \A g \in Handles : Counted(g)'
  <2>1. /\ handle'[h].refcnt = handle[h].refcnt - 1
        /\ \A g \in Handles : g # h => handle'[g] = handle[g]
    BY <1>3, ReleaseSets
  <2>2. Cardinality(Holders(h) \ {c}) = Cardinality(Holders(h)) - 1
    BY <1>5, HoldersFinite, FS_RemoveElement
  <2>3. Cardinality(Holders(h)) \in Nat
    BY HoldersFinite
  <2>4. Counted(h)'
    <3>1. Holders(h)' = Holders(h) \ {c} /\ (MainHas(h)' <=> MainHas(h))
      BY <1>4
    <3> QED BY <1>3, <2>1, <2>2, <2>3, <3>1 DEF Counted
  <2>5. ASSUME NEW g \in Handles, g # h PROVE Counted(g)'
    <3>1. Holders(g)' = Holders(g) /\ (MainHas(g)' <=> MainHas(g))
      BY <1>4, <1>5, <2>5
    <3>2. handle'[g] = handle[g] /\ Counted(g)
      BY <2>1, <2>5 DEF HandlesInOrder
    <3> QED BY <3>1, <3>2 DEF Counted
  <2> QED BY <2>4, <2>5
<1>8. LogsInOrder'
  <2>1. \A g \in Handles :
          /\ Dropping(g)' => Dropping(g) /\ g # h
          /\ Torn(g)' => Torn(g) \/ (g = h /\ handle[h].refcnt = 1 /\ LastTail(h) = "end")
    BY <1>4, <1>6
  <2>2. LogsInOrder /\ rot'.part = rot.part
    BY DEF HandlesInOrder, LogsInOrder, Moves
  <2> QED BY <1>3, <2>1, <2>2, HandleLet
<1> QED BY <1>7, <1>8

LEMMA CloseHandleKeeps ==
  ASSUME LoggerTypeOK, HandlesInOrder, SentinelIsLast, NEW c \in Cams, CloseHandle(c)
  PROVE  HandlesInOrder' /\ SentinelIsLast'
<1>1. enc[c] \in EncStates /\ enc[c].pc \in {"seal", "drop", "tear"}
  BY Parts DEF CloseHandle, At
<1>2. PICK h \in Handles :
        h = enc[c].lh /\ (enc[c].pc # "tear" => Has(c, h) /\ handle[h].refcnt > 0)
  BY <1>1, EncoderHandle
<1>3. Counted(h) /\ Closing(h) /\ h # 0
  BY Constants DEF HandlesInOrder, Handles
<1>4. LogsInOrder /\ rot'.part = rot.part
  BY DEF HandlesInOrder, LogsInOrder, CloseHandle
<1>5. ASSUME NEW e \in EncStates, enc' = [enc EXCEPT ![c] = e],
             \/ e.pc \in {"drop", "tear"} /\ e.lh = h
             \/ e.pc \in {"get", "done"} /\ e.lh = 0
      PROVE  Moves(c, e) /\ MainInOrder' /\ \A d \in Cams : EncInOrder(d)'
  <2>1. Moves(c, e) /\ enc'[c] = e
    BY <1>5, EncSet, Parts DEF CloseHandle, Moves
  <2>2. EncInOrder(c)'
    BY <1>3, <1>5, <2>1 DEF EncInOrder, At
  <2> QED BY <1>1, <2>1, <2>2, OrderMoves DEF HandlesInOrder, At
<1>6. ASSUME NEW p \in {"drop", "tear"}, Step(c, p)
      PROVE  \E e \in EncStates : enc' = [enc EXCEPT ![c] = e] /\ e.pc = p /\ e.lh = h
  <2>1. [enc[c] EXCEPT !.pc = p] \in EncStates
    BY <1>1 DEF EncStates, EncPcs
  <2>2. [enc[c] EXCEPT !.pc = p].pc = p /\ [enc[c] EXCEPT !.pc = p].lh = h
    BY <1>1, <1>2 DEF EncStates
  <2> QED BY <1>6, <2>1, <2>2 DEF Step
<1>7. ASSUME Let(c)
      PROVE  \E e \in EncStates : /\ enc' = [enc EXCEPT ![c] = e]
                                  /\ e.pc \in {"get", "done"} /\ e.lh = 0
  <2>1. enc[c].to \in EncPcs /\ enc[c].to \in {"get", "done"} /\ 0 \in 0..Pool
    BY <1>1, Constants DEF EncStates, EncPcs
  <2> DEFINE e == [enc[c] EXCEPT !.pc = enc[c].to, !.lh = 0]
  <2>2. e \in EncStates /\ e.pc \in {"get", "done"} /\ e.lh = 0
    BY <1>1, <2>1 DEF EncStates
  <2> QED BY <1>7, <2>2 DEF Let
<1>8. CASE At(c, "seal") /\ LastCloses(h) /\ Step(c, "drop")
  <2>1. PICK e \in EncStates : enc' = [enc EXCEPT ![c] = e] /\ e.pc = "drop" /\ e.lh = h
    BY <1>6, <1>8
  <2>2. Moves(c, e) /\ MainInOrder' /\ \A d \in Cams : EncInOrder(d)'
    BY <1>5, <2>1
  <2>3. SameHolders
    BY <1>2, <1>8, <2>1, <2>2, EncoderMoves DEF SameHolders, Holders, Has, At
  <2>4. handle' = handle /\ Write(h, "end") /\ handle[h].refcnt = 1
    BY <1>8 DEF LastCloses
  <2>5. \A g \in Handles : Counted(g)'
    BY <2>3, <2>4, SameCounts DEF HandlesInOrder
  <2>6. \A g \in Handles : (Torn(g)' => Torn(g)) /\ (Dropping(g)' => Dropping(g) \/ g = h)
    BY <2>1, <2>2, EncoderMoves
  <2>7. LogsInOrder'
    BY <1>4, <2>4, <2>6, HandleWritten
  <2> QED BY <2>2, <2>5, <2>7 DEF HandlesInOrder, LogsInOrder
<1>9. CASE At(c, "seal") /\ OtherCloses(h) /\ Let(c)
  <2>1. PICK e \in EncStates : /\ enc' = [enc EXCEPT ![c] = e]
                               /\ e.pc \in {"get", "done"} /\ e.lh = 0
    BY <1>7, <1>9
  <2>2. Moves(c, e) /\ MainInOrder' /\ \A d \in Cams : EncInOrder(d)'
    BY <1>5, <2>1
  <2>3. Has(c, h) /\ Release(h) /\ log' = log /\ ~Dropping(h)
    BY <1>2, <1>3, <1>9 DEF At, OtherCloses, Release, Closing
  <2>4. (\A g \in Handles : Counted(g)') /\ LogsInOrder'
    BY <2>1, <2>2, <2>3, CountDown
  <2> QED BY <2>2, <2>4 DEF HandlesInOrder, LogsInOrder
<1>10. CASE At(c, "drop") /\ Release(h)
  <2>1. Dropping(h) /\ handle[h].refcnt = 1 /\ LastTail(h) = "end" /\ Has(c, h)
    BY <1>2, <1>3, <1>10 DEF Dropping, Closing, At
  <2>2. Step(c, "tear") /\ log' = log
    BY <1>2, <1>10, <2>1 DEF CloseHandle, At
  <2>3. PICK e \in EncStates : enc' = [enc EXCEPT ![c] = e] /\ e.pc = "tear" /\ e.lh = h
    BY <1>6, <2>2
  <2>4. Moves(c, e) /\ MainInOrder' /\ \A d \in Cams : EncInOrder(d)'
    BY <1>5, <2>3
  <2>5. (\A g \in Handles : Counted(g)') /\ LogsInOrder'
    BY <1>10, <2>1, <2>2, <2>3, <2>4, CountDown
  <2> QED BY <2>4, <2>5 DEF HandlesInOrder, LogsInOrder
<1>11. CASE At(c, "tear") /\ Tear(h) /\ Let(c) /\ handle' = handle
  <2>1. PICK e \in EncStates : /\ enc' = [enc EXCEPT ![c] = e]
                               /\ e.pc \in {"get", "done"} /\ e.lh = 0
    BY <1>7, <1>11
  <2>2. Moves(c, e) /\ MainInOrder' /\ \A d \in Cams : EncInOrder(d)'
    BY <1>5, <2>1
  <2>3. 0 \notin Handles
    BY Constants DEF Handles
  <2>4. SameHolders
    BY <1>11, <2>1, <2>2, <2>3, EncoderMoves DEF SameHolders, Holders, Has, At
  <2>5. \A g \in Handles : Counted(g)'
    BY <1>11, <2>4, SameCounts DEF HandlesInOrder
  <2>6. Torn(h) /\ \A g \in Handles : (Torn(g)' => Torn(g)) /\ (Dropping(g)' => Dropping(g))
    BY <1>2, <1>11, <2>1, <2>2, EncoderMoves DEF Torn
  <2>7. LogsInOrder'
    BY <1>4, <1>11, <2>6, HandleTorn
  <2> QED BY <2>2, <2>5, <2>7 DEF HandlesInOrder, LogsInOrder
<1> QED BY <1>2, <1>8, <1>9, <1>10, <1>11 DEF CloseHandle, At
\* The count of a handle in use goes up.
LEMMA TakeSets ==
  ASSUME LoggerTypeOK, NEW h \in Handles, handle' = [handle EXCEPT ![h].refcnt = @ + 1]
  PROVE  /\ handle' \in [Handles -> HandleStates]
         /\ handle'[h].refcnt = handle[h].refcnt + 1
         /\ \A g \in Handles : handle'[g].seg = handle[g].seg
         /\ \A g \in Handles : g # h => handle'[g] = handle[g]
<1>1. handle \in [Handles -> HandleStates]
  BY Parts DEF HandleStates
<1>2. handle[h] \in HandleStates /\ handle[h].refcnt + 1 \in Nat
  BY <1>1 DEF HandleStates
<1>3. [handle[h] EXCEPT !.refcnt = @ + 1] \in HandleStates
  BY <1>2 DEF HandleStates
<1>4. handle' = [handle EXCEPT ![h] = [handle[h] EXCEPT !.refcnt = @ + 1]]
  OBVIOUS
<1> QED BY <1>1, <1>2, <1>3, <1>4 DEF HandleStates

LEMMA HandleTaken ==
  ASSUME LoggerTypeOK, LogsInOrder, log' = log, rot.part' = rot.part,
         NEW h \in Handles, handle' = [handle EXCEPT ![h].refcnt = @ + 1],
         handle[h].refcnt > 0, ~Dropping(h),
         \A g \in Handles : (Dropping(g)' => Dropping(g)) /\ (Torn(g)' => Torn(g))
  PROVE  LogsInOrder'
<1>1. /\ handle'[h].refcnt = handle[h].refcnt + 1
      /\ \A g \in Handles : handle'[g].seg = handle[g].seg
      /\ \A g \in Handles : g # h => handle'[g] = handle[g]
  BY TakeSets
<1>2. \A g \in Handles : handle[g].refcnt \in Nat
  BY Parts
<1>3. SentinelIsLast'
  BY DEF LogsInOrder, SentinelIsLast
<1>4. \A g \in Handles : LastTail(g)' = LastTail(g) /\ (IsShut(g)' <=> IsShut(g))
  BY <1>1 DEF LastTail, IsShut
<1>5. \A g \in Handles : Closing(g)'
  <2>1. ~Torn(h)
    BY DEF LogsInOrder, Closing
  <2>2. \A g \in Handles : g # h => Closing(g)'
    BY <1>1, <1>4 DEF LogsInOrder, Closing
  <2>3. Closing(h)'
    BY <2>1 DEF Closing
  <2> QED BY <2>2, <2>3
<1>6. OneLogEach'
  <2>1. \A g \in Handles : handle'[g].refcnt > 0 => handle[g].refcnt > 0
    BY <1>1, <1>2
  <2>2. \A g \in Handles : Live(g)' => Live(g)
    BY <2>1 DEF Live
  <2> QED BY <1>1, <1>4, <2>1, <2>2 DEF LogsInOrder, OneLogEach
<1> QED BY <1>3, <1>5, <1>6 DEF LogsInOrder

LEMMA GetHandleKeeps ==
  ASSUME LoggerTypeOK, HandlesInOrder, SentinelIsLast, NEW c \in Cams, GetHandle(c)
  PROVE  HandlesInOrder' /\ SentinelIsLast'
<1> DEFINE e == [enc[c] EXCEPT !.pc = "encode", !.lh = rot.cur]
<1>1. /\ enc[c] \in EncStates /\ enc[c].pc = "get" /\ enc[c].lh = 0
      /\ rot.cur \in Handles /\ rot.cur \in 0..Pool /\ rot.cur # 0
  BY Parts, Constants DEF GetHandle, At, HandlesInOrder, EncInOrder, Handles
<1>2. e \in EncStates /\ e.pc = "encode" /\ e.lh = rot.cur
  BY <1>1 DEF EncStates, EncPcs
<1>3. enc' = [enc EXCEPT ![c] = e]
  BY DEF GetHandle
<1> HIDE DEF e
<1>4. enc'[c] = e /\ Moves(c, e) /\ log' = log
  BY <1>2, <1>3, EncSet, Parts DEF GetHandle, Moves
<1>5. EncInOrder(c)'
  BY <1>1, <1>2, <1>4 DEF EncInOrder, At
<1>6. MainInOrder' /\ \A d \in Cams : EncInOrder(d)'
  BY <1>1, <1>2, <1>4, <1>5, OrderMoves DEF HandlesInOrder, At
<1>7. MainHas(rot.cur) /\ main.pc # "drop"
  <2>1. main.pc \in MainPcs
    BY Parts DEF MainStates
  <2>2. main.pc # "ended"
    BY <1>1 DEF HandlesInOrder, MainInOrder, At
  <2> QED BY <2>1, <2>2 DEF MainHas, GetHandle, LoggerBusy, MainPcs
<1>8. ~Dropping(rot.cur) /\ handle[rot.cur].refcnt > 0
  BY <1>1, <1>7, NotDropping, Alone DEF HandlesInOrder
<1> DEFINE h == rot.cur
<1>9. handle' = [handle EXCEPT ![h].refcnt = @ + 1]
  BY DEF GetHandle
<1>10. ASSUME NEW g \in Handles
       PROVE  /\ Holders(g)' = IF g = h THEN Holders(g) \cup {c} ELSE Holders(g)
              /\ MainHas(g)' <=> MainHas(g)
              /\ (Dropping(g)' => Dropping(g)) /\ (Torn(g)' => Torn(g))
  <2>1. c \notin Holders(g)
    BY <1>1, <1>10, Constants DEF Holders, Has, Handles
  <2> QED BY <1>2, <1>4, <2>1, EncoderMoves
<1>11. ASSUME NEW g \in Handles PROVE Counted(g)'
  <2>1. handle'[h].refcnt = handle[h].refcnt + 1 /\ (g # h => handle'[g] = handle[g])
    BY <1>1, <1>9, TakeSets
  <2>2. Counted(g) /\ Counted(h) /\ Cardinality(Holders(h)) \in Nat
    BY <1>1, HoldersFinite DEF HandlesInOrder
  <2>3. Cardinality(Holders(h) \cup {c}) = Cardinality(Holders(h)) + 1
    <3>1. c \notin Holders(h)
      BY <1>1 DEF Holders, Has
    <3> QED BY <3>1, HoldersFinite, FS_AddElement
  <2>4. CASE g = h
    <3>1. Holders(g)' = Holders(g) \cup {c} /\ (MainHas(g)' <=> MainHas(g))
      BY <1>10, <2>4
    <3> HIDE DEF h
    <3> QED BY <2>1, <2>2, <2>3, <2>4, <3>1 DEF Counted
  <2>5. CASE g # h
    <3>1. Holders(g)' = Holders(g) /\ (MainHas(g)' <=> MainHas(g))
      BY <1>10, <2>5
    <3> QED BY <2>1, <2>2, <2>5, <3>1 DEF Counted
  <2> QED BY <2>4, <2>5
<1>12. LogsInOrder /\ rot'.part = rot.part
  BY <1>4 DEF HandlesInOrder, LogsInOrder, Moves
<1>13. LogsInOrder'
  <2> HIDE DEF h
  <2>1. h \in Handles /\ handle[h].refcnt > 0 /\ ~Dropping(h)
    BY <1>1, <1>8 DEF h
  <2> QED BY <1>4, <1>9, <1>10, <1>12, <2>1, HandleTaken
<1> QED BY <1>6, <1>11, <1>13 DEF HandlesInOrder, LogsInOrder

LEMMA EncoderKeeps ==
  ASSUME LoggerTypeOK, HandlesInOrder, SentinelIsLast, NEW c \in Cams, Encoder(c)
  PROVE  HandlesInOrder' /\ SentinelIsLast'
  BY CountKeeps, ReleasedKeeps, OpenKeeps, LeaveKeeps, CloseHandleKeeps, GetHandleKeeps,
     EncodeKeeps DEF Encoder

LEMMA EncoderTypes ==
  ASSUME LoggerTypeOK, HandlesInOrder, NEW c \in Cams, Encoder(c)
  PROVE  LoggerTypeOK'
<1>1. enc' \in [Cams -> EncStates]
  <2>1. PICK e \in EncStates : enc' = [enc EXCEPT ![c] = e]
    BY EncoderSets
  <2> QED BY <2>1, EncSet, Parts
<1>2. rot' = rot \/ (Count(c) /\ handle' = handle /\ log' = log)
  BY DEF Encoder, Count, Released, Open, Leave, CloseHandle, GetHandle, Encode
<1>3. rot' \in [segment : Segments, path : Segments, ready : Nat, part : Segments, cur : Handles]
  <2>1. rot.ready + 1 \in Nat
    BY Parts
  <2> QED BY <1>2, <2>1, Parts DEF Count
<1>4. UNCHANGED <<main, exit, past>> /\ sync' = sync
  BY DEF Encoder, Count, Released, Open, Leave, CloseHandle, GetHandle, Encode
<1>5. handle' \in [Handles -> HandleStates] /\ log' \in [Segments -> LogStates]
  <2>1. handle \in [Handles -> HandleStates] /\ log \in [Segments -> LogStates]
    BY Parts DEF HandleStates, LogStates
  <2>2. CASE Encode(c)
    BY <2>1, <2>2, WriteSets, EncoderHandle DEF Encode, At
  <2>3. CASE GetHandle(c)
    <3>1. rot.cur \in Handles
      BY Parts
    <3> QED BY <2>1, <2>3, <3>1, TakeSets DEF GetHandle
  <2>4. CASE CloseHandle(c)
    <3>1. PICK h \in Handles : h = enc[c].lh /\ (enc[c].pc # "tear" => handle[h].refcnt > 0)
      BY <2>4, EncoderHandle DEF CloseHandle, At
    <3>2. CASE LastCloses(h)
      BY <2>1, <3>2, WriteSets DEF LastCloses
    <3>3. CASE Release(h) /\ enc[c].pc # "tear" /\ log' = log
      BY <2>1, <3>1, <3>3, ReleaseSets
    <3>4. CASE Tear(h) /\ handle' = handle
      BY <2>1, <3>4, TearSets
    <3> QED BY <2>4, <3>1, <3>2, <3>3, <3>4 DEF CloseHandle, OtherCloses, Release, At
  <2>5. CASE Count(c) \/ Released(c) \/ Open(c) \/ Leave(c)
    BY <2>1, <2>5 DEF Count, Released, Open, Leave
  <2> QED BY <2>2, <2>3, <2>4, <2>5 DEF Encoder
<1> QED BY <1>1, <1>3, <1>4, <1>5, Parts DEF LoggerTypeOK, HandleStates, LogStates
-----------------------------------------------------------------------------
(* The steps of the logging thread. *)

LEMMA MainPart ==
  ASSUME LoggerTypeOK
  PROVE  /\ main.pc \in MainPcs /\ main.next \in 0..Pool /\ main.drop \in 0..Pool
         /\ main.to \in {"switch", "ended"} /\ main.then \in {"poll", "again"}
         /\ rot.cur \in Handles /\ rot.part \in Segments /\ rot.segment \in Segments
         /\ rot.path \in Segments /\ rot.ready \in Nat
  BY Parts DEF MainStates

LEMMA EncodersStay ==
  ASSUME enc' = enc, \A c \in Cams : EncInOrder(c)
  PROVE  /\ \A c \in Cams : EncInOrder(c)'
         /\ \A h \in Handles : Holders(h)' = Holders(h)
         /\ \A h \in Handles : Torn(h)' => Torn(h) \/ (main'.pc = "tear" /\ main'.drop = h)
         /\ \A h \in Handles :
              Dropping(h)' => Dropping(h) \/ (main'.pc = "drop" /\ main'.drop = h)
<1>1. \A c \in Cams : EncInOrder(c)'
  BY DEF EncInOrder, At
<1>2. \A h \in Handles : Holders(h)' = Holders(h)
  BY DEF Holders, Has, At
<1>3. \A h \in Handles : Torn(h)' => Torn(h) \/ (main'.pc = "tear" /\ main'.drop = h)
  BY DEF Torn, At
<1>4. \A h \in Handles :
        Dropping(h)' => Dropping(h) \/ (main'.pc = "drop" /\ main'.drop = h)
  BY DEF Dropping, At
<1> QED BY <1>1, <1>2, <1>3, <1>4

\* A step of the logging thread after which it has the handles it had.
LEMMA QuietMain ==
  ASSUME LoggerTypeOK, HandlesInOrder, SentinelIsLast, UNCHANGED <<enc, handle, log>>,
         rot'.part = rot.part, MainInOrder',
         \A h \in Handles : MainHas(h)' <=> MainHas(h), main'.pc \notin {"drop", "tear"}
  PROVE  HandlesInOrder' /\ SentinelIsLast'
<1>1. /\ \A c \in Cams : EncInOrder(c)'
      /\ \A h \in Handles : /\ Holders(h)' = Holders(h)
                            /\ Torn(h)' => Torn(h)
                            /\ Dropping(h)' => Dropping(h)
  BY EncodersStay DEF HandlesInOrder
<1>2. SameHolders
  BY <1>1 DEF SameHolders
<1>3. \A h \in Handles : Counted(h)'
  BY <1>2, SameCounts DEF HandlesInOrder
<1>4. LogsInOrder'
  BY <1>1, HandlesKept DEF HandlesInOrder, LogsInOrder
<1> QED BY <1>1, <1>3, <1>4 DEF HandlesInOrder, LogsInOrder

\* The messages a step may end with.
LEMMA GoesTo ==
  ASSUME LoggerTypeOK, NEW p \in MainPcs, MainStep(p)
  PROVE  /\ main' \in MainStates /\ main'.pc = p /\ main'.to = main.to
         /\ main'.drop = main.drop /\ main'.next = main.next /\ main'.then = main.then
  BY Parts DEF MainStep, MainStates

LEMMA NotLateKeeps ==
  ASSUME LoggerTypeOK, HandlesInOrder, SentinelIsLast, NotLate
  PROVE  HandlesInOrder' /\ SentinelIsLast' /\ LoggerTypeOK'
<1>1. main' \in MainStates /\ main'.pc = "poll" /\ main'.to = main.to /\ main.pc = "again"
  BY GoesTo DEF NotLate, MainPcs
<1>2. UNCHANGED <<enc, handle, log, rot, exit>>
  BY DEF NotLate
<1>3. MainInOrder'
  BY <1>1, <1>2 DEF HandlesInOrder, MainInOrder, LoggerBusy, Rotating, At
<1>4. \A h \in Handles : MainHas(h)' <=> MainHas(h)
  BY <1>1, <1>2 DEF MainHas, LoggerBusy
<1>5. LoggerTypeOK'
  BY <1>1, Parts DEF LoggerTypeOK, NotLate
<1> QED BY <1>1, <1>2, <1>3, <1>4, <1>5, QuietMain

LEMMA EndLoopKeeps ==
  ASSUME LoggerTypeOK, HandlesInOrder, SentinelIsLast, EndLoop
  PROVE  HandlesInOrder' /\ SentinelIsLast' /\ LoggerTypeOK'
<1>1. main' \in MainStates /\ main'.pc = "join" /\ main'.to = main.to /\ main.pc = "poll"
  BY GoesTo DEF EndLoop, MainPcs
<1>2. UNCHANGED <<enc, handle, log, rot, exit>>
  BY DEF EndLoop
<1>3. MainInOrder'
  BY <1>1, <1>2 DEF HandlesInOrder, MainInOrder, LoggerBusy, Rotating, At
<1>4. \A h \in Handles : MainHas(h)' <=> MainHas(h)
  BY <1>1, <1>2 DEF MainHas, LoggerBusy
<1>5. LoggerTypeOK'
  BY <1>1, Parts DEF LoggerTypeOK, EndLoop
<1> QED BY <1>1, <1>2, <1>3, <1>4, <1>5, QuietMain

LEMMA ExitKeeps ==
  ASSUME LoggerTypeOK, HandlesInOrder, SentinelIsLast, Exit
  PROVE  HandlesInOrder' /\ SentinelIsLast' /\ LoggerTypeOK'
<1>1. UNCHANGED <<enc, main, handle, log, rot>> /\ main.pc = "poll" /\ exit' = TRUE
  BY DEF Exit
<1>2. MainInOrder'
  BY <1>1 DEF HandlesInOrder, MainInOrder, LoggerBusy, Rotating, At
<1>3. \A h \in Handles : MainHas(h)' <=> MainHas(h)
  BY <1>1 DEF MainHas, LoggerBusy
<1>4. LoggerTypeOK'
  BY Parts DEF LoggerTypeOK, Exit
<1> QED BY <1>1, <1>2, <1>3, <1>4, QuietMain

LEMMA LoggerCloseKeeps ==
  ASSUME LoggerTypeOK, HandlesInOrder, SentinelIsLast, LoggerClose
  PROVE  HandlesInOrder' /\ SentinelIsLast' /\ LoggerTypeOK'
<1>1. /\ main' \in MainStates /\ main'.pc = "seal" /\ main'.to = "ended" /\ main'.drop = rot.cur
      /\ main.pc = "join"
  <2>1. main \in MainStates /\ rot.cur \in 0..Pool
    BY Parts, Constants
  <2> QED BY <2>1 DEF LoggerClose, MainStates, MainPcs
<1>2. UNCHANGED <<enc, handle, log, rot, exit>> /\ \A c \in Cams : At(c, "done")
  BY DEF LoggerClose
<1>3. MainInOrder'
  BY <1>1, <1>2 DEF HandlesInOrder, MainInOrder, LoggerBusy, Rotating, At
<1>4. \A h \in Handles : MainHas(h)' <=> MainHas(h)
  BY <1>1, <1>2 DEF MainHas, LoggerBusy
<1>5. LoggerTypeOK'
  BY <1>1, Parts DEF LoggerTypeOK, LoggerClose
<1> QED BY <1>1, <1>2, <1>3, <1>4, <1>5, QuietMain

LEMMA SwitchKeeps ==
  ASSUME LoggerTypeOK, HandlesInOrder, SentinelIsLast, Switch
  PROVE  HandlesInOrder' /\ SentinelIsLast' /\ LoggerTypeOK'
<1>1. main' \in MainStates /\ main'.pc = "publish" /\ main'.to = main.to /\ main.pc = "switch"
  BY GoesTo DEF Switch, MainPcs
<1>2. main.to = "switch" /\ main.next \in Handles
  BY <1>1 DEF HandlesInOrder, MainInOrder, LoggerBusy
<1>3. /\ UNCHANGED <<enc, handle, log, exit>>
      /\ rot'.part = rot.part /\ rot'.cur = main.next
      /\ rot' \in [segment : Segments, path : Segments, ready : Nat, part : Segments, cur : Handles]
  BY <1>2, Parts DEF Switch
<1>4. MainInOrder'
  BY <1>1, <1>2, <1>3 DEF HandlesInOrder, MainInOrder, LoggerBusy, Rotating, At
<1>5. \A h \in Handles : MainHas(h)' <=> MainHas(h)
  BY <1>1, <1>2, <1>3 DEF MainHas, LoggerBusy
<1>6. LoggerTypeOK'
  BY <1>1, <1>3, Parts DEF LoggerTypeOK, Switch
<1> QED BY <1>1, <1>3, <1>4, <1>5, <1>6, QuietMain

\* The logging thread lets its handle go.
LEMMA MainCountDown ==
  ASSUME LoggerTypeOK, HandlesInOrder, enc' = enc, NEW h \in Handles, Release(h),
         MainHas(h), ~MainHas(h)', \A g \in Handles : g # h => (MainHas(g)' <=> MainHas(g))
  PROVE  \A g \in Handles : Counted(g)'
<1>1. Counted(h) /\ handle[h].refcnt > 0
  BY Alone DEF HandlesInOrder
<1>2. /\ handle'[h].refcnt = handle[h].refcnt - 1
      /\ \A g \in Handles : g # h => handle'[g] = handle[g]
  BY <1>1, ReleaseSets
<1>3. \A g \in Handles : Holders(g)' = Holders(g)
  BY EncodersStay DEF HandlesInOrder
<1>4. Counted(h)'
  <2>1. Cardinality(Holders(h)) \in Nat /\ Holders(h)' = Holders(h)
    BY <1>3, HoldersFinite
  <2> QED BY <1>1, <1>2, <2>1 DEF Counted
<1>5. ASSUME NEW g \in Handles, g # h PROVE Counted(g)'
  <2>1. Counted(g) /\ Holders(g)' = Holders(g) /\ handle'[g] = handle[g]
    BY <1>2, <1>3, <1>5 DEF HandlesInOrder
  <2> QED BY <1>5, <2>1 DEF Counted
<1> QED BY <1>4, <1>5

LEMMA CloseOldKeeps ==
  ASSUME LoggerTypeOK, HandlesInOrder, SentinelIsLast, CloseOld
  PROVE  HandlesInOrder' /\ SentinelIsLast' /\ LoggerTypeOK'
<1>1. main.pc \in {"seal", "drop", "tear"} /\ UNCHANGED <<enc, rot, exit>>
  BY DEF CloseOld
<1>2. PICK h \in Handles : h = main.drop /\ h = rot.cur
  BY <1>1, MainPart DEF HandlesInOrder, MainInOrder
<1>3. Counted(h) /\ Closing(h) /\ MainInOrder
  BY DEF HandlesInOrder
<1>4. /\ \A c \in Cams : EncInOrder(c)'
      /\ \A g \in Handles : Holders(g)' = Holders(g)
      /\ \A g \in Handles : Torn(g)' => Torn(g) \/ (main'.pc = "tear" /\ main'.drop = g)
      /\ \A g \in Handles : Dropping(g)' => Dropping(g) \/ (main'.pc = "drop" /\ main'.drop = g)
  BY <1>1, EncodersStay DEF HandlesInOrder
<1>5. LogsInOrder /\ rot'.part = rot.part
  BY <1>1 DEF HandlesInOrder, LogsInOrder
<1>6. ASSUME NEW p \in {"drop", "tear", main.to}, MainStep(p)
      PROVE  /\ main' \in MainStates /\ main'.pc = p /\ main'.drop = h
             /\ main'.to = main.to /\ main'.next = main.next
             /\ MainInOrder'
  <2>1. p \in MainPcs
    BY MainPart DEF MainPcs
  <2>2. /\ main' \in MainStates /\ main'.pc = p /\ main'.to = main.to
        /\ main'.drop = h /\ main'.next = main.next
    BY <1>2, <1>6, <2>1, GoesTo
  <2>3. main.to \in {"switch", "ended"}
    BY MainPart
  <2>4. MainInOrder'
    BY <1>1, <1>2, <1>3, <2>2, <2>3 DEF MainInOrder, LoggerBusy, Rotating, At
  <2> QED BY <2>2, <2>4
<1>7. /\ main.to \in {"switch", "ended"}
      /\ \A g \in Handles : LoggerBusy /\ main.to = "switch" /\ g = main.next => g # h
  BY <1>2, <1>3, MainPart DEF MainInOrder
<1>8. CASE main.pc = "seal" /\ LastCloses(h) /\ MainStep("drop")
  <2>1. main' \in MainStates /\ main'.pc = "drop" /\ main'.drop = h /\ main'.to = main.to
        /\ main'.next = main.next /\ MainInOrder'
    BY <1>6, <1>8
  <2>2. \A g \in Handles : MainHas(g)' <=> MainHas(g)
    BY <1>1, <1>8, <2>1 DEF MainHas, LoggerBusy
  <2>3. handle' = handle /\ Write(h, "end") /\ handle[h].refcnt = 1
    BY <1>8 DEF LastCloses
  <2>4. \A g \in Handles : Counted(g)'
    BY <1>4, <2>2, <2>3, SameCounts DEF HandlesInOrder, SameHolders
  <2>5. LogsInOrder'
    BY <1>4, <1>5, <2>1, <2>3, HandleWritten
  <2>6. log' \in [Segments -> LogStates]
    BY <2>3, WriteSets
  <2>7. LoggerTypeOK'
    BY <1>1, <2>1, <2>3, <2>6, Parts DEF LoggerTypeOK, LogStates, CloseOld
  <2> QED BY <1>4, <2>1, <2>4, <2>5, <2>7 DEF HandlesInOrder, LogsInOrder
<1>9. CASE main.pc = "seal" /\ OtherCloses(h) /\ MainStep(main.to)
  <2>1. main' \in MainStates /\ main'.pc = main.to /\ main'.drop = h /\ main'.to = main.to
        /\ main'.next = main.next /\ MainInOrder'
    BY <1>6, <1>9
  <2>2. Release(h) /\ log' = log /\ handle[h].refcnt > 0 /\ ~Dropping(h)
    <3>1. handle[h].refcnt \in Nat
      BY Parts
    <3> QED BY <1>3, <1>9, <3>1 DEF OtherCloses, Release, Closing
  <2>3. MainHas(h) /\ ~MainHas(h)'
    BY <1>1, <1>2, <1>7, <1>9, <2>1 DEF MainHas, LoggerBusy
  <2>4. ASSUME NEW g \in Handles, g # h PROVE MainHas(g)' <=> MainHas(g)
    BY <1>1, <1>2, <1>7, <1>9, <2>1, <2>4 DEF MainHas, LoggerBusy
  <2>5. \A g \in Handles : Counted(g)'
    BY <1>1, <2>2, <2>3, <2>4, MainCountDown
  <2>6. \A g \in Handles : (Torn(g)' => Torn(g)) /\ (Dropping(g)' => Dropping(g) /\ g # h)
    BY <1>4, <1>7, <2>1, <2>2
  <2>7. LogsInOrder'
    BY <1>5, <2>2, <2>6, HandleLet
  <2>8. handle' \in [Handles -> HandleStates]
    BY <2>2, ReleaseSets
  <2>9. LoggerTypeOK'
    BY <1>1, <2>1, <2>2, <2>8, Parts DEF LoggerTypeOK, HandleStates, CloseOld
  <2> QED BY <1>4, <2>1, <2>5, <2>7, <2>9 DEF HandlesInOrder, LogsInOrder
<1>10. CASE main.pc = "drop" /\ Release(h)
  <2>1. MainHas(h) /\ Dropping(h)
    BY <1>2, <1>10 DEF MainHas, Dropping
  <2>2. handle[h].refcnt = 1 /\ LastTail(h) = "end"
    BY <1>3, <2>1 DEF Closing
  <2>3. MainStep("tear") /\ log' = log
    BY <1>2, <1>10, <2>2 DEF CloseOld
  <2>4. main' \in MainStates /\ main'.pc = "tear" /\ main'.drop = h /\ main'.to = main.to
        /\ main'.next = main.next /\ MainInOrder'
    BY <1>6, <2>3
  <2>5. ~MainHas(h)' /\ \A g \in Handles : g # h => (MainHas(g)' <=> MainHas(g))
    BY <1>1, <1>2, <1>7, <1>10, <2>4 DEF MainHas, LoggerBusy
  <2>6. \A g \in Handles : Counted(g)'
    BY <1>1, <1>10, <2>1, <2>5, MainCountDown
  <2>7. ~Dropping(h)'
    <3>1. handle[h].refcnt <= 1
      BY <2>2
    <3>2. \A c \in Cams : ~(enc[c].pc = "drop" /\ enc[c].lh = h)
      BY <1>3, <2>1, <3>1, Alone DEF Has, At
    <3> QED BY <1>1, <2>4, <3>2 DEF Dropping, At
  <2>8. \A g \in Handles :
          /\ Dropping(g)' => Dropping(g) /\ g # h
          /\ Torn(g)' => Torn(g) \/ (g = h /\ handle[h].refcnt = 1 /\ LastTail(h) = "end")
    BY <1>4, <2>2, <2>4, <2>7
  <2>9. handle[h].refcnt > 0
    BY <2>2
  <2>10. LogsInOrder'
    BY <1>5, <1>10, <2>3, <2>8, <2>9, HandleLet
  <2>11. handle' \in [Handles -> HandleStates]
    BY <1>10, <2>9, ReleaseSets
  <2>12. LoggerTypeOK'
    BY <1>1, <2>3, <2>4, <2>11, Parts DEF LoggerTypeOK, HandleStates, CloseOld
  <2> QED BY <1>4, <2>4, <2>6, <2>10, <2>12 DEF HandlesInOrder, LogsInOrder
<1>11. CASE main.pc = "tear" /\ Tear(h) /\ MainStep(main.to) /\ handle' = handle
  <2>1. main' \in MainStates /\ main'.pc = main.to /\ main'.drop = h /\ main'.to = main.to
        /\ main'.next = main.next /\ MainInOrder'
    BY <1>6, <1>11
  <2>2. \A g \in Handles : MainHas(g)' <=> MainHas(g)
    BY <1>1, <1>7, <1>11, <2>1 DEF MainHas, LoggerBusy
  <2>3. \A g \in Handles : Counted(g)'
    BY <1>4, <1>11, <2>2, SameCounts DEF HandlesInOrder, SameHolders
  <2>4. Torn(h) /\ \A g \in Handles : (Torn(g)' => Torn(g)) /\ (Dropping(g)' => Dropping(g))
    BY <1>2, <1>4, <1>7, <1>11, <2>1 DEF Torn
  <2>5. LogsInOrder'
    BY <1>5, <1>11, <2>4, HandleTorn
  <2>6. log' \in [Segments -> LogStates]
    BY <1>11, TearSets
  <2>7. LoggerTypeOK'
    BY <1>1, <1>11, <2>1, <2>6, Parts DEF LoggerTypeOK, LogStates, CloseOld
  <2> QED BY <1>4, <2>1, <2>3, <2>5, <2>7 DEF HandlesInOrder, LogsInOrder
<1> QED BY <1>2, <1>8, <1>9, <1>10, <1>11 DEF CloseOld

LEMMA PublishKeeps ==
  ASSUME LoggerTypeOK, HandlesInOrder, SentinelIsLast, Publish
  PROVE  HandlesInOrder' /\ SentinelIsLast' /\ LoggerTypeOK'
<1>1. PICK h \in Handles : h = rot.cur
  BY MainPart
<1>2. /\ main.pc = "publish" /\ Write(h, "data") /\ UNCHANGED <<enc, handle, exit>>
      /\ MainStep(main.then)
  BY <1>1 DEF Publish
<1>3. /\ main' \in MainStates /\ main'.pc \in {"poll", "again"} /\ main'.to = main.to
      /\ main'.drop = main.drop
  <2>1. main.then \in {"poll", "again"} /\ main.then \in MainPcs
    BY MainPart DEF MainPcs
  <2> QED BY <1>2, <2>1, GoesTo
<1>4. /\ rot' \in [segment : Segments, path : Segments, ready : Nat, part : Segments, cur : Handles]
      /\ rot'.part = rot.part /\ rot'.cur = rot.cur
  BY Parts DEF Publish
<1>5. MainInOrder'
  BY <1>2, <1>3, <1>4 DEF HandlesInOrder, MainInOrder, LoggerBusy, Rotating, At
<1>6. \A g \in Handles : MainHas(g)' <=> MainHas(g)
  BY <1>2, <1>3, <1>4 DEF MainHas, LoggerBusy
<1>7. MainHas(h) /\ main.pc # "drop" /\ Counted(h)
  BY <1>1, <1>2 DEF MainHas, HandlesInOrder
<1>8. ~Dropping(h) /\ handle[h].refcnt > 0
  BY <1>7, NotDropping, Alone
<1>9. /\ \A c \in Cams : EncInOrder(c)'
      /\ \A g \in Handles : Holders(g)' = Holders(g)
      /\ \A g \in Handles : (Torn(g)' => Torn(g)) /\ (Dropping(g)' => Dropping(g))
  BY <1>2, <1>3, EncodersStay DEF HandlesInOrder
<1>10. \A g \in Handles : Counted(g)'
  BY <1>2, <1>6, <1>9, SameCounts DEF HandlesInOrder, SameHolders
<1>11. LogsInOrder'
  <2>1. LogsInOrder
    BY DEF HandlesInOrder, LogsInOrder
  <2> QED BY <1>2, <1>4, <1>8, <1>9, <2>1, HandleWritten
<1>12. log' \in [Segments -> LogStates]
  BY <1>2, WriteSets
<1>13. LoggerTypeOK'
  BY <1>2, <1>3, <1>4, <1>12, Parts DEF LoggerTypeOK, LogStates, Publish
<1> QED BY <1>5, <1>9, <1>10, <1>11, <1>13 DEF HandlesInOrder, LogsInOrder

LEMMA RotateKeeps ==
  ASSUME LoggerTypeOK, HandlesInOrder, SentinelIsLast, NEW by,
         main.pc \in {"poll", "again"}, ~exit, Rotate(by)
  PROVE  (past'.clash \/ HandlesInOrder') /\ SentinelIsLast' /\ LoggerTypeOK'
<1>1. PICK h \in Handles :
        /\ FirstFree(h)
        /\ handle' = [handle EXCEPT ![h] = [refcnt |-> 1, seg |-> rot.part + 1]]
        /\ main' = [pc |-> "seal", next |-> h, drop |-> rot.cur, to |-> "switch",
                      then |-> IF by = "count" THEN "again" ELSE "poll"]
        /\ past' = [timed |-> past.timed \/ by = "time", clash |-> Torn(h)]
  BY DEF Rotate
<1>2. UNCHANGED <<enc, log, sync, exit>> /\ rot.part + 1 \in Segments
  BY DEF Rotate
<1>3. /\ handle \in [Handles -> HandleStates]
      /\ [refcnt |-> 1, seg |-> rot.part + 1] \in HandleStates
  BY <1>2, Parts DEF HandleStates
<1>4. /\ handle' \in [Handles -> HandleStates]
      /\ handle'[h].refcnt = 1 /\ handle'[h].seg = rot.part + 1
      /\ \A g \in Handles : g # h => handle'[g] = handle[g]
  BY <1>1, <1>3
<1>5. /\ rot' \in [segment : Segments, path : Segments, ready : Nat, part : Segments, cur : Handles]
      /\ rot'.part = rot.part + 1 /\ rot'.cur = rot.cur
  BY <1>2, Parts DEF Rotate
<1>6. rot.cur \in Handles /\ rot.cur \in 0..Pool /\ h \in 0..Pool
  BY Parts, Constants
<1>7. /\ main' \in MainStates /\ main'.pc = "seal" /\ main'.to = "switch"
      /\ main'.next = h /\ main'.drop = rot.cur
  BY <1>1, <1>6 DEF MainStates, MainPcs
<1>8. past' \in [timed : BOOLEAN, clash : BOOLEAN] /\ (past'.clash <=> Torn(h))
  <2>1. (past.timed \/ by = "time") \in BOOLEAN /\ Torn(h) \in BOOLEAN
    BY DEF Torn
  <2> QED BY <1>1, <2>1
<1>9. LoggerTypeOK'
  BY <1>2, <1>4, <1>5, <1>7, <1>8, Parts DEF LoggerTypeOK, HandleStates
<1>10. SentinelIsLast'
  BY <1>2 DEF SentinelIsLast
<1>11. handle[h].refcnt = 0 /\ Counted(h) /\ Closing(h) /\ MainInOrder
  BY <1>1 DEF FirstFree, Free, HandlesInOrder
<1>12. h # rot.cur
  <2>1. MainHas(rot.cur) /\ Counted(rot.cur)
    BY <1>6 DEF MainHas, HandlesInOrder
  <2>2. handle[rot.cur].refcnt > 0
    BY <1>6, <2>1, Alone
  <2> QED BY <1>11, <2>2
<1>13. ASSUME ~Torn(h) PROVE HandlesInOrder'
  <2>1. MainInOrder'
    BY <1>2, <1>5, <1>7, <1>12 DEF MainInOrder, LoggerBusy, Rotating, At
  <2>2. /\ \A c \in Cams : EncInOrder(c)'
        /\ \A g \in Handles : Holders(g)' = Holders(g)
        /\ \A g \in Handles : (Torn(g)' => Torn(g)) /\ (Dropping(g)' => Dropping(g))
    BY <1>2, <1>7, EncodersStay DEF HandlesInOrder
  <2>3. \A g \in Handles : MainHas(g)' <=> (MainHas(g) \/ g = h)
    BY <1>5, <1>7 DEF MainHas, LoggerBusy
  <2>4. Counted(h)'
    <3>1. Cardinality(Holders(h)) \in Nat /\ Holders(h)' = Holders(h)
      BY <2>2, HoldersFinite
    <3>2. Cardinality(Holders(h)) = 0
      BY <1>11, <3>1 DEF Counted
    <3> QED BY <1>4, <2>3, <3>1, <3>2 DEF Counted
  <2>5. ASSUME NEW g \in Handles, g # h PROVE Counted(g)'
    <3>1. Counted(g) /\ Holders(g)' = Holders(g) /\ handle'[g] = handle[g]
      BY <1>4, <2>2, <2>5 DEF HandlesInOrder
    <3> QED BY <2>3, <2>5, <3>1 DEF Counted
  <2>6. Closing(h)'
    <3>1. ~Dropping(h)
      BY <1>11 DEF Closing
    <3> QED BY <1>13, <2>2, <3>1 DEF Closing
  <2>7. ASSUME NEW g \in Handles, g # h PROVE Closing(g)'
    BY <1>2, <1>4, <2>2, <2>7 DEF HandlesInOrder, Closing, LastTail
  <2>8. /\ rot.part \in Int /\ \A s \in Segments : s \in Int
        /\ \A g \in Handles : handle[g].seg \in Segments
    BY Parts, Constants DEF Segments
  <2>9. OneLogEach'
    <3>1. \A g \in Handles : g # h /\ Live(g)' => Live(g)
      BY <1>4, <2>2 DEF Live
    <3>2. \A g \in Handles : g # h => handle'[g].seg < rot.part + 1
      BY <1>4, <2>8 DEF HandlesInOrder, OneLogEach
    <3>3. \A f, g \in Handles : f # g /\ Live(f)' /\ Live(g)' => handle'[f].seg # handle'[g].seg
      BY <1>4, <2>8, <3>1, <3>2 DEF HandlesInOrder, OneLogEach
    <3>4. \A g \in Handles : handle'[g].refcnt > 0 => ~IsShut(g)'
      <4>1. ~log[rot.part + 1].shut
        BY <1>2, <2>8 DEF HandlesInOrder, OneLogEach
      <4> QED BY <1>2, <1>4, <4>1 DEF HandlesInOrder, OneLogEach, IsShut
    <3>5. \A g \in Handles : handle'[g].seg <= rot'.part
      BY <1>4, <1>5, <2>8, <3>2
    <3>6. \A s \in Segments : s > rot'.part => ~log'[s].shut
      BY <1>2, <1>5, <2>8 DEF HandlesInOrder, OneLogEach
    <3> QED BY <3>3, <3>4, <3>5, <3>6 DEF OneLogEach
  <2> QED BY <2>1, <2>2, <2>4, <2>5, <2>6, <2>7, <2>9 DEF HandlesInOrder
<1> QED BY <1>8, <1>9, <1>10, <1>13

-----------------------------------------------------------------------------
(* The invariant. *)

LEMMA LoggerStarts == LoggerInit => LoggerInv
<1> SUFFICES ASSUME LoggerInit PROVE LoggerInv
  OBVIOUS
<1>1. LoggerTypeOK
  BY InitTypes
<1>2. /\ \A c \in Cams : enc[c].pc = "recv" /\ enc[c].cur = -1 /\ enc[c].lh = 0
      /\ main = [pc |-> "poll", next |-> 0, drop |-> 0, to |-> "switch", then |-> "poll"]
      /\ handle = [h \in Handles |-> [refcnt |-> IF h = 1 THEN 1 ELSE 0, seg |-> 0]]
      /\ log = [s \in Segments |-> [tail |-> "data", shut |-> FALSE]]
      /\ rot.cur = 1 /\ rot.part = 0 /\ exit = FALSE
  BY DEF LoggerInit
<1>3. SentinelIsLast
  BY <1>2 DEF SentinelIsLast
<1>4. MainInOrder
  BY <1>2 DEF MainInOrder, LoggerBusy, Rotating
<1>5. \A c \in Cams : EncInOrder(c)
  BY <1>2 DEF EncInOrder, At
<1>6. ASSUME NEW h \in Handles
      PROVE  Holders(h) = {} /\ (MainHas(h) <=> h = 1) /\ ~Dropping(h) /\ ~Torn(h)
  <2>1. h # 0
    BY DEF Handles
  <2> QED BY <1>2, <2>1 DEF Holders, Has, MainHas, LoggerBusy, Dropping, Torn, At
<1>7. ASSUME NEW h \in Handles PROVE Counted(h) /\ Closing(h)
  <2>1. Cardinality(Holders(h)) = 0
    BY <1>6, FS_EmptySet
  <2>2. handle[h].refcnt = IF h = 1 THEN 1 ELSE 0
    BY <1>2
  <2>3. Counted(h)
    BY <1>6, <2>1, <2>2 DEF Counted
  <2> QED BY <1>6, <2>3 DEF Closing
<1>8. OneLogEach
  <2>1. \A h \in Handles : Live(h) => h = 1
    BY <1>2, <1>6 DEF Live
  <2>2. \A h \in Handles : handle[h].seg = 0
    BY <1>2
  <2>3. \A s \in Segments : ~log[s].shut
    BY <1>2
  <2>4. \A h \in Handles : ~IsShut(h)
    BY <2>2, <2>3, Constants DEF IsShut
  <2> QED BY <1>2, <2>1, <2>2, <2>3, <2>4 DEF OneLogEach
<1> QED BY <1>1, <1>3, <1>4, <1>5, <1>7, <1>8 DEF LoggerInv, HandlesInOrder

LEMMA LoggerSteps == LoggerInv /\ [LoggerNext]_loggerVars => LoggerInv'
<1> SUFFICES ASSUME LoggerInv, [LoggerNext]_loggerVars PROVE LoggerInv'
  OBVIOUS
<1>1. LoggerTypeOK /\ SentinelIsLast
  BY DEF LoggerInv
<1>2. CASE UNCHANGED loggerVars
  <2>1. LoggerTypeOK' /\ SentinelIsLast'
    BY <1>1, <1>2 DEF loggerVars, LoggerTypeOK, SentinelIsLast
  <2>2. UNCHANGED <<enc, main, handle, log, rot, exit, past>>
    BY <1>2 DEF loggerVars
  <2>3. HandlesInOrder => HandlesInOrder'
    <3> SUFFICES ASSUME HandlesInOrder PROVE HandlesInOrder'
      OBVIOUS
    <3>1. MainInOrder' /\ \A c \in Cams : EncInOrder(c)'
      BY <2>2 DEF HandlesInOrder, MainInOrder, EncInOrder, LoggerBusy, Rotating, At
    <3>2. ASSUME NEW h \in Handles
          PROVE  /\ Counted(h)' /\ Closing(h)'
                 /\ (Live(h)' <=> Live(h)) /\ (IsShut(h)' <=> IsShut(h))
      <4>1. /\ Holders(h)' = Holders(h) /\ (MainHas(h)' <=> MainHas(h))
            /\ (Dropping(h)' <=> Dropping(h)) /\ (Torn(h)' <=> Torn(h))
        BY <2>2 DEF Holders, Has, MainHas, Dropping, Torn, LoggerBusy, At
      <4>2. (Live(h)' <=> Live(h)) /\ (IsShut(h)' <=> IsShut(h))
        BY <2>2, <4>1 DEF Live, IsShut
      <4>3. Counted(h)' /\ Closing(h)'
        BY <2>2, <4>1 DEF HandlesInOrder, Counted, Closing, LastTail
      <4> QED BY <4>2, <4>3
    <3>3. OneLogEach'
      BY <2>2, <3>2 DEF HandlesInOrder, OneLogEach
    <3> QED BY <3>1, <3>2, <3>3 DEF HandlesInOrder
  <2> QED BY <2>1, <2>2, <2>3 DEF LoggerInv
<1>3. CASE LoggerNext
  <2>1. HandlesInOrder
    BY <1>3 DEF LoggerNext, LoggerInv
  <2>2. ASSUME NEW c \in Cams, Encoder(c) PROVE LoggerInv'
    BY <1>1, <2>1, <2>2, EncoderKeeps, EncoderTypes DEF LoggerInv
  <2>3. ASSUME NEW c \in Cams, NEW f \in 1..MaxFrame, Recv(c, f) PROVE LoggerInv'
    BY <1>1, <2>1, <2>3, RecvKeeps, RecvTypes DEF LoggerInv
  <2>4. CASE RotateIfReady \/ RotateByTime
    <3>1. main.pc \in {"poll", "again"} /\ ~exit /\ \E by \in {"count", "time"} : Rotate(by)
      BY <2>1, <2>4 DEF RotateIfReady, RotateByTime, HandlesInOrder, MainInOrder
    <3> QED BY <1>1, <2>1, <3>1, RotateKeeps DEF LoggerInv
  <2>5. CASE NotLate \/ CloseOld \/ Switch
    BY <1>1, <2>1, <2>5, NotLateKeeps, CloseOldKeeps, SwitchKeeps DEF LoggerInv
  <2>6. CASE Publish \/ EndLoop \/ LoggerClose \/ Exit
    BY <1>1, <2>1, <2>6, PublishKeeps, EndLoopKeeps, LoggerCloseKeeps, ExitKeeps DEF LoggerInv
  <2> QED BY <1>3, <2>2, <2>3, <2>4, <2>5, <2>6 DEF LoggerNext, Main
<1> QED BY <1>2, <1>3

\* In every state of the rotation the count of a handle is the number of its
\* holders, whoever closes a log is its last holder, and no two handles log the
\* same segment, unless a handle was reopened while its last holder closed it.
THEOREM LoggerInvariant == LoggerSpec => []LoggerInv
<1>1. LoggerInit => LoggerInv
  BY LoggerStarts
<1>2. LoggerInv /\ [LoggerNext]_loggerVars => LoggerInv'
  BY LoggerSteps
<1> QED BY <1>1, <1>2, PTL DEF LoggerSpec

\* Whoever closes a segment's log, its end sentinel is the last message in it
\* (lh_close).
THEOREM SentinelLast == LoggerSpec => []SentinelIsLast
<1>1. LoggerInv => SentinelIsLast
  BY DEF LoggerInv
<1> QED BY <1>1, LoggerInvariant, PTL
-----------------------------------------------------------------------------
(* The cameras in step: the steps of an encoder. *)

LEMMA EncFields ==
  ASSUME LoggerTypeOK, NEW c \in Cams
  PROVE  /\ enc[c] \in EncStates /\ enc[c].pc \in EncPcs /\ enc[c].to \in {"get", "done"}
         /\ enc[c].frame \in Nat /\ enc[c].cur \in Int /\ enc[c].lh \in 0..Pool
         /\ enc[c].lh # 0 => enc[c].lh \in Handles
         /\ rot.segment \in Nat /\ rot.path \in Nat /\ rot.part \in Nat /\ sync.start \in Nat
         /\ PerSegment \in Nat /\ PerSegment > 0
<1>1. enc[c] \in EncStates
  BY Parts
<1>2. rot.segment \in Nat /\ rot.path \in Nat /\ rot.part \in Nat /\ sync.start \in Nat
  BY Parts, Constants DEF Segments
<1> QED BY <1>1, <1>2, Constants DEF EncStates, Handles

LEMMA StepFields ==
  ASSUME LoggerTypeOK, NEW c \in Cams, NEW p \in EncPcs, Step(c, p)
  PROVE  /\ enc'[c].pc = p /\ enc'[c].frame = enc[c].frame /\ enc'[c].cur = enc[c].cur
         /\ enc'[c].file = enc[c].file /\ enc'[c].lh = enc[c].lh /\ enc'[c].to = enc[c].to
<1>1. enc[c] \in EncStates /\ enc \in [Cams -> EncStates]
  BY Parts
<1>2. enc'[c] = [enc[c] EXCEPT !.pc = p]
  BY <1>1 DEF Step
<1> QED BY <1>1, <1>2 DEF EncStates

LEMMA FollowFields ==
  ASSUME LoggerTypeOK, NEW c \in Cams, NEW f, Follow(c, f)
  PROVE  /\ enc'[c].pc = (IF rot.segment > enc[c].cur THEN "open" ELSE "encode")
         /\ enc'[c].frame = f /\ enc'[c].cur = rot.segment
         /\ enc'[c].file = enc[c].file /\ enc'[c].lh = enc[c].lh /\ enc'[c].to = enc[c].to
<1>1. enc[c] \in EncStates /\ enc \in [Cams -> EncStates]
  BY Parts
<1> DEFINE p == IF rot.segment > enc[c].cur THEN "open" ELSE "encode"
<1>2. enc'[c] = [enc[c] EXCEPT !.frame = f, !.cur = rot.segment, !.pc = p]
  BY <1>1 DEF Follow
<1> HIDE DEF p
<1>3. enc'[c].pc = p /\ enc'[c].frame = f /\ enc'[c].cur = rot.segment
      /\ enc'[c].file = enc[c].file /\ enc'[c].lh = enc[c].lh /\ enc'[c].to = enc[c].to
  BY <1>1, <1>2 DEF EncStates
<1> QED BY <1>3 DEF p

LEMMA LetFields ==
  ASSUME LoggerTypeOK, NEW c \in Cams, Let(c)
  PROVE  /\ enc'[c].pc = enc[c].to /\ enc'[c].frame = enc[c].frame /\ enc'[c].cur = enc[c].cur
         /\ enc'[c].file = enc[c].file /\ enc'[c].lh = 0 /\ enc'[c].to = enc[c].to
<1>1. enc[c] \in EncStates /\ enc \in [Cams -> EncStates]
  BY Parts
<1>2. enc'[c] = [enc[c] EXCEPT !.pc = enc[c].to, !.lh = 0]
  BY <1>1 DEF Let
<1> QED BY <1>1, <1>2 DEF EncStates

\* No encoder does anything while the log is rotated.
LEMMA Idle ==
  ASSUME CountRight, NEW c \in Cams, ~At(c, "wait")
  PROVE  ~Rotating
  BY DEF CountRight, Waiting

LEMMA CameraStays ==
  ASSUME LoggerTypeOK, NEW d \in Cams, CameraRight(d), enc'[d] = enc[d],
         sync'.start = sync.start, rot'.segment = rot.segment, exit => exit',
         enc[d].lh # 0 /\ ~At(d, "tear") =>
           handle'[enc[d].lh].seg = handle[enc[d].lh].seg
  PROVE  CameraRight(d)'
<1>1. Boundary(d)' = Boundary(d) /\ (InSegment(d)' => InSegment(d))
  BY DEF Boundary, InSegment, At
<1> QED BY <1>1 DEF CameraRight, At

\* A step of one encoder that leaves the frame, the log and the agreement alone.
LEMMA CameraMoves ==
  ASSUME LoggerTypeOK, HandlesInOrder, InStep,
         NEW c \in Cams, NEW e \in EncStates, Moves(c, e),
         UNCHANGED <<sync, past>>, rot'.segment = rot.segment, rot'.path = rot.path,
         \A g \in Handles : handle'[g].seg = handle[g].seg,
         e.frame = enc[c].frame, e.cur = -1 <=> enc[c].cur = -1,
         e.cur = -1 => e.lh = 0 /\ e.pc = "done",
         CountRight', CameraRight(c)'
  PROVE  InStep'
<1>1. enc'[c] = e /\ \A d \in Cams : d # c => enc'[d] = enc[d]
  BY EncoderMoves
<1>2. main' = main /\ exit' = exit /\ rot'.part = rot.part /\ rot'.cur = rot.cur
  BY DEF Moves
<1>3. Numbers'
  <2>1. /\ rot.cur \in Handles
        /\ LoggerBusy /\ main.to = "switch" => main.next \in Handles
    BY MainPart DEF HandlesInOrder, MainInOrder
  <2> QED BY <1>2, <2>1 DEF InStep, Numbers, LoggerBusy, Rotating
<1>4. StartAgreed'
  BY <1>1 DEF InStep, StartAgreed, At
<1>5. ASSUME NEW d \in Cams, d # c PROVE CameraRight(d)'
  BY <1>1, <1>2, <1>5, EncFields, CameraStays DEF InStep
<1> QED BY <1>3, <1>4, <1>5 DEF InStep

\* A step of an encoder that does not wait for the log, before or after.
LEMMA QuietCamera ==
  ASSUME LoggerTypeOK, HandlesInOrder, InStep,
         NEW c \in Cams, NEW e \in EncStates, Moves(c, e),
         UNCHANGED <<sync, past, rot>>,
         \A g \in Handles : handle'[g].seg = handle[g].seg,
         e.frame = enc[c].frame, e.cur = -1 <=> enc[c].cur = -1,
         e.cur = -1 => e.lh = 0 /\ e.pc = "done",
         c \notin Waiting, e.pc # "wait", CameraRight(c)'
  PROVE  InStep'
<1>1. enc'[c] = e /\ \A d \in Cams : d # c => enc'[d] = enc[d]
  BY EncoderMoves
<1>2. Waiting' = Waiting
  BY <1>1 DEF Waiting, At
<1>3. CountRight'
  BY <1>2 DEF InStep, CountRight, Rotating, Moves
<1> QED BY <1>3, CameraMoves

LEMMA CountInStep ==
  ASSUME LoggerTypeOK, HandlesInOrder, InStep, NEW c \in Cams, Count(c)
  PROVE  InStep'
<1>1. PICK e \in EncStates : enc' = [enc EXCEPT ![c] = e]
  BY EncoderSets DEF Encoder
<1>2. /\ rot'.segment = rot.segment /\ rot'.path = rot.path /\ rot'.part = rot.part
      /\ rot'.cur = rot.cur /\ rot'.ready = rot.ready + 1 /\ rot.ready \in Nat
  BY Parts DEF Count
<1>3. enc'[c] = e /\ Moves(c, e) /\ enc[c].pc = "count" /\ UNCHANGED <<handle, sync, past, exit>>
  BY <1>1, <1>2, EncSet, Parts DEF Count, Moves, At
<1>4. /\ e.pc = "wait" /\ e.frame = enc[c].frame /\ e.cur = enc[c].cur
      /\ e.file = enc[c].file /\ e.lh = enc[c].lh
  BY <1>3, StepFields DEF Count, EncPcs
<1>5. enc[c].cur # -1 /\ CameraRight(c) /\ CountRight
  BY <1>3 DEF InStep, StartAgreed, At
<1>6. enc[c].cur = rot.segment
  BY <1>3, <1>5 DEF CameraRight, At
<1>7. c \notin Waiting /\ Waiting' = Waiting \cup {c}
  <2>1. \A d \in Cams : d # c => enc'[d] = enc[d]
    BY <1>3, EncoderMoves
  <2> QED BY <1>2, <1>3, <1>4, <1>6, <2>1 DEF Waiting, At
<1>8. CountRight'
  <2>1. IsFiniteSet(Waiting)
    <3>1. Waiting \in SUBSET Cams /\ IsFiniteSet(Cams)
      BY LoggerAssumption DEF Waiting
    <3> QED BY <3>1, FS_Subset
  <2>2. Cardinality(Waiting') = Cardinality(Waiting) + 1
    BY <1>7, <2>1, FS_AddElement
  <2>3. ~Rotating'
    BY <1>3, <1>5, Idle DEF At, Rotating, Count
  <2> QED BY <1>2, <1>3, <1>5, <2>2, <2>3 DEF CountRight
<1>9. CameraRight(c)'
  <2>1. Boundary(c)' = Boundary(c)
    BY <1>3, <1>4 DEF Boundary
  <2>2. ~InSegment(c)'
    BY <1>3, <1>4 DEF InSegment, At
  <2> QED BY <1>2, <1>3, <1>4, <1>5, <1>6, <2>1, <2>2, EncFields DEF CameraRight, At
<1> QED BY <1>2, <1>3, <1>4, <1>5, <1>8, <1>9, CameraMoves

LEMMA ReleasedInStep ==
  ASSUME LoggerTypeOK, HandlesInOrder, InStep, NEW c \in Cams, Released(c)
  PROVE  InStep'
<1>1. PICK e \in EncStates : enc' = [enc EXCEPT ![c] = e]
  BY EncoderSets DEF Encoder
<1>2. /\ enc'[c] = e /\ Moves(c, e) /\ enc[c].pc = "wait"
      /\ UNCHANGED <<handle, rot, sync, past, exit>>
  BY <1>1, EncSet, Parts DEF Released, Moves, At
<1>3. enc[c].cur # -1 /\ CameraRight(c) /\ CountRight
  BY <1>2 DEF InStep, StartAgreed, At
<1>4. /\ rot.segment <= enc[c].cur + 1 /\ enc[c].cur \in Nat
      /\ enc[c].frame \in Boundary(c) .. Boundary(c) + PerSegment - 1
  BY <1>2, <1>3 DEF CameraRight, At
<1>5. CASE rot.segment > enc[c].cur /\ Follow(c, enc[c].frame)
  <2>1. /\ e.pc = "open" /\ e.frame = enc[c].frame /\ e.cur = rot.segment
        /\ e.file = enc[c].file /\ e.lh = enc[c].lh
    BY <1>2, <1>5, FollowFields
  <2>2. rot.segment = enc[c].cur + 1 /\ c \notin Waiting
    BY <1>4, <1>5, EncFields DEF Waiting
  <2>3. Boundary(c)' = Boundary(c) + PerSegment /\ Boundary(c) \in Nat
    <3>1. Boundary(c)' = (enc[c].cur + 2) * PerSegment + sync.start
      BY <1>2, <1>4, <2>1, <2>2 DEF Boundary
    <3>2. (enc[c].cur + 2) * PerSegment = (enc[c].cur + 1) * PerSegment + PerSegment
      BY <1>4, EncFields
    <3>3. (enc[c].cur + 1) * PerSegment \in Nat
      BY <1>4, EncFields
    <3> QED BY <3>1, <3>2, <3>3, EncFields DEF Boundary
  <2>4. CameraRight(c)'
    BY <1>2, <1>4, <2>1, <2>2, <2>3, EncFields DEF CameraRight, At
  <2> QED BY <1>2, <1>3, <1>4, <2>1, <2>2, <2>4, QuietCamera, EncFields
<1>6. CASE exit /\ Step(c, "recv")
  <2>1. /\ e.pc = "recv" /\ e.frame = enc[c].frame /\ e.cur = enc[c].cur
        /\ e.file = enc[c].file /\ e.lh = enc[c].lh
    BY <1>2, <1>6, StepFields DEF EncPcs
  <2>2. CountRight'
    BY <1>2, <1>6 DEF CountRight, Rotating, Released, Moves
  <2>3. Boundary(c)' = Boundary(c) /\ ~InSegment(c)'
    BY <1>2, <1>6, <2>1 DEF Boundary, InSegment, At
  <2>4. CameraRight(c)'
    BY <1>2, <1>3, <2>1, <2>3 DEF CameraRight, At
  <2> QED BY <1>2, <1>3, <2>1, <2>2, <2>4, CameraMoves
<1> QED BY <1>5, <1>6 DEF Released

LEMMA OpenInStep ==
  ASSUME LoggerTypeOK, HandlesInOrder, InStep, NEW c \in Cams, Open(c)
  PROVE  InStep'
<1>1. PICK e \in EncStates : enc' = [enc EXCEPT ![c] = e]
  BY EncoderSets DEF Encoder
<1>2. /\ enc'[c] = e /\ Moves(c, e) /\ enc[c].pc = "open"
      /\ UNCHANGED <<handle, rot, sync, past, exit>>
  BY <1>1, EncSet, Parts DEF Open, Moves, At
<1>3. enc[c].cur # -1 /\ CameraRight(c) /\ CountRight /\ Numbers /\ InSegment(c)
  BY <1>2 DEF InStep, StartAgreed, InSegment, At
<1>4. ~Rotating
  BY <1>2, <1>3, Idle DEF At
<1>5. main.pc \notin {"switch", "publish"}
  BY <1>4 DEF Rotating, HandlesInOrder, MainInOrder
<1>6. rot.path = rot.segment
  BY <1>3, <1>5, EncFields DEF Numbers
<1>7. /\ e.pc \in {"get", "seal"} /\ e.frame = enc[c].frame /\ e.cur = enc[c].cur
      /\ e.file = rot.path /\ e.lh = enc[c].lh
  <2>1. enc' = [enc EXCEPT ![c] = [@ EXCEPT !.file = rot.path,
                                            !.pc = IF enc[c].lh = 0 THEN "get" ELSE "seal"]]
    BY <1>5 DEF Open
  <2>2. e = [enc[c] EXCEPT !.file = rot.path, !.pc = IF enc[c].lh = 0 THEN "get" ELSE "seal"]
    BY <1>2, <2>1, Parts
  <2> QED BY <2>2, EncFields DEF EncStates
<1>8. CameraRight(c)'
  <2>1. Boundary(c)' = Boundary(c)
    BY <1>2, <1>7 DEF Boundary
  <2> QED BY <1>2, <1>3, <1>6, <1>7, <2>1 DEF CameraRight, At
<1>9. c \notin Waiting
  BY <1>2 DEF Waiting, At
<1> QED BY <1>2, <1>3, <1>7, <1>8, <1>9, QuietCamera

LEMMA LeaveInStep ==
  ASSUME LoggerTypeOK, HandlesInOrder, InStep, NEW c \in Cams, Leave(c)
  PROVE  InStep'
<1>1. PICK e \in EncStates : enc' = [enc EXCEPT ![c] = e]
  BY EncoderSets DEF Encoder
<1>2. /\ enc'[c] = e /\ Moves(c, e) /\ enc[c].pc = "recv" /\ exit
      /\ UNCHANGED <<handle, rot, sync, past, exit>>
  BY <1>1, EncSet, Parts DEF Leave, Moves, At
<1>3. /\ e.pc = (IF enc[c].lh = 0 THEN "done" ELSE "seal") /\ e.to = "done"
      /\ e.frame = enc[c].frame /\ e.cur = enc[c].cur /\ e.file = enc[c].file /\ e.lh = enc[c].lh
  <2> DEFINE p == IF enc[c].lh = 0 THEN "done" ELSE "seal"
  <2>1. e = [enc[c] EXCEPT !.pc = p, !.to = "done"]
    BY <1>2, Parts DEF Leave
  <2> HIDE DEF p
  <2>2. e.pc = p /\ e.to = "done" /\ e.frame = enc[c].frame /\ e.cur = enc[c].cur
        /\ e.file = enc[c].file /\ e.lh = enc[c].lh
    BY <2>1, EncFields DEF EncStates
  <2> QED BY <2>2 DEF p
<1>4. enc[c].cur = -1 => enc[c].lh = 0
  BY DEF InStep, StartAgreed
<1>5. CameraRight(c)'
  <2>1. ~InSegment(c)'
    BY <1>2, <1>3 DEF InSegment, At
  <2> QED BY <1>2, <1>3, <2>1 DEF InStep, CameraRight, At
<1>6. c \notin Waiting
  BY <1>2 DEF Waiting, At
<1> QED BY <1>2, <1>3, <1>4, <1>5, <1>6, QuietCamera

LEMMA CloseHandleInStep ==
  ASSUME LoggerTypeOK, HandlesInOrder, InStep, NEW c \in Cams, CloseHandle(c)
  PROVE  InStep'
<1>1. PICK e \in EncStates : enc' = [enc EXCEPT ![c] = e]
  BY EncoderSets DEF Encoder
<1>2. /\ enc'[c] = e /\ Moves(c, e) /\ enc[c].pc \in {"seal", "drop", "tear"}
      /\ UNCHANGED <<rot, sync, past, exit>>
  BY <1>1, EncSet, Parts DEF CloseHandle, Moves, At
<1>3. \A g \in Handles : handle'[g].seg = handle[g].seg
  <2>1. enc[c].lh \in Handles /\ (enc[c].pc # "tear" => handle[enc[c].lh].refcnt > 0)
    BY <1>2, EncoderHandle
  <2>2. Release(enc[c].lh) /\ enc[c].pc # "tear" => \A g \in Handles : handle'[g].seg = handle[g].seg
    BY <2>1, ReleaseSets
  <2> QED BY <2>2 DEF CloseHandle, LastCloses, OtherCloses, Release, At
<1>4. /\ e.frame = enc[c].frame /\ e.cur = enc[c].cur /\ e.file = enc[c].file /\ e.to = enc[c].to
      /\ e.pc \in {"drop", "tear"} \/ (e.pc = enc[c].to)
  <2>1. Step(c, "drop") \/ Step(c, "tear") \/ Let(c)
    BY DEF CloseHandle
  <2> QED BY <1>2, <2>1, StepFields, LetFields DEF EncPcs
<1>5. e.pc # "wait" /\ c \notin Waiting /\ enc[c].cur # -1
  BY <1>2, <1>4, EncFields DEF InStep, StartAgreed, Waiting, At
<1>6. CameraRight(c)'
  <2>1. Boundary(c)' = Boundary(c)
    BY <1>2, <1>4 DEF Boundary
  <2>2. enc[c].to \in {"get", "done"}
    BY EncFields
  <2>3. InSegment(c)' => InSegment(c)
    BY <1>2, <1>4, <2>2 DEF InSegment, At
  <2> QED BY <1>2, <1>4, <2>1, <2>2, <2>3 DEF InStep, CameraRight, At
<1> QED BY <1>2, <1>3, <1>4, <1>5, <1>6, QuietCamera

LEMMA GetHandleInStep ==
  ASSUME LoggerTypeOK, HandlesInOrder, InStep, NEW c \in Cams, GetHandle(c)
  PROVE  InStep'
<1>1. PICK e \in EncStates : enc' = [enc EXCEPT ![c] = e]
  BY EncoderSets DEF Encoder
<1>2. /\ enc'[c] = e /\ Moves(c, e) /\ enc[c].pc = "get"
      /\ UNCHANGED <<rot, sync, past, exit>>
  BY <1>1, EncSet, Parts DEF GetHandle, Moves, At
<1>3. /\ e.pc = "encode" /\ e.lh = rot.cur /\ e.frame = enc[c].frame /\ e.cur = enc[c].cur
      /\ e.file = enc[c].file
  <2>1. e = [enc[c] EXCEPT !.pc = "encode", !.lh = rot.cur]
    BY <1>2, Parts DEF GetHandle
  <2> QED BY <2>1, EncFields DEF EncStates
<1>4. rot.cur \in Handles /\ \A g \in Handles : handle'[g].seg = handle[g].seg
  <2>1. rot.cur \in Handles
    BY MainPart
  <2> QED BY <2>1, TakeSets DEF GetHandle
<1>5. enc[c].cur # -1 /\ CameraRight(c) /\ InSegment(c) /\ CountRight /\ Numbers
  BY <1>2 DEF InStep, StartAgreed, InSegment, At
<1>6. handle[rot.cur].seg = enc[c].cur
  <2>1. ~Rotating
    BY <1>2, <1>5, Idle DEF At
  <2>2. main.pc # "publish"
    BY <2>1 DEF Rotating, HandlesInOrder, MainInOrder
  <2>3. rot.path = rot.segment
    BY <1>5, <2>2, EncFields DEF Numbers
  <2> QED BY <1>5, <2>3 DEF Numbers, CameraRight
<1>7. CameraRight(c)'
  <2>1. Boundary(c)' = Boundary(c)
    BY <1>2, <1>3 DEF Boundary
  <2> QED BY <1>2, <1>3, <1>4, <1>5, <1>6, <2>1 DEF CameraRight, At
<1>8. c \notin Waiting
  BY <1>2 DEF Waiting, At
<1> QED BY <1>2, <1>3, <1>4, <1>5, <1>7, <1>8, QuietCamera

LEMMA EncodeInStep ==
  ASSUME LoggerTypeOK, HandlesInOrder, InStep, NEW c \in Cams, Encode(c)
  PROVE  InStep'
<1>1. PICK e \in EncStates : enc' = [enc EXCEPT ![c] = e]
  BY EncoderSets DEF Encoder
<1>2. /\ enc'[c] = e /\ Moves(c, e) /\ enc[c].pc = "encode"
      /\ UNCHANGED <<handle, rot, sync, past, exit>>
  BY <1>1, EncSet, Parts DEF Encode, Moves, At
<1>3. /\ e.pc = "recv" /\ e.lh = enc[c].lh /\ e.frame = enc[c].frame /\ e.cur = enc[c].cur
      /\ e.file = enc[c].file
  BY <1>2, StepFields DEF Encode, EncPcs
<1>4. enc[c].cur # -1 /\ CameraRight(c) /\ InSegment(c)
  BY <1>2 DEF InStep, StartAgreed, InSegment, At
<1>5. CameraRight(c)'
  <2>1. Boundary(c)' = Boundary(c)
    BY <1>2, <1>3 DEF Boundary
  <2> QED BY <1>2, <1>3, <1>4, <2>1 DEF CameraRight, At
<1>6. c \notin Waiting
  BY <1>2 DEF Waiting, At
<1> QED BY <1>2, <1>3, <1>4, <1>5, <1>6, QuietCamera

LEMMA EncoderInStep ==
  ASSUME LoggerTypeOK, HandlesInOrder, InStep, NEW c \in Cams, Encoder(c)
  PROVE  InStep'
  BY CountInStep, ReleasedInStep, OpenInStep, LeaveInStep, CloseHandleInStep,
     GetHandleInStep, EncodeInStep DEF Encoder

\* The next frame of a camera.
LEMMA RecvInStep ==
  ASSUME DropsFit, LoggerTypeOK, HandlesInOrder, InStep,
         NEW c \in Cams, NEW f \in 1..MaxFrame, Recv(c, f)
  PROVE  InStep'
<1>1. PICK e \in EncStates : enc' = [enc EXCEPT ![c] = e]
  BY RecvSets
<1>2. /\ enc'[c] = e /\ Moves(c, e) /\ enc[c].pc = "recv" /\ ~exit /\ f \in Nat
      /\ UNCHANGED <<main, handle, rot, past, exit>>
      /\ \A d \in Cams : d # c => enc'[d] = enc[d]
  BY <1>1, EncSet, Parts, Constants DEF Recv, Moves, At
<1>3. f > enc[c].frame /\ f <= enc[c].frame + PerSegment
  <2>1. PICK k \in Steps : k = f - enc[c].frame
    BY DEF Recv
  <2>2. k \in Nat /\ k > 0 /\ k <= PerSegment
    BY LoggerAssumption DEF DropsFit
  <2> QED BY <1>2, <2>1, <2>2, EncFields
<1>4. ~Rotating
  BY <1>2, Idle DEF InStep, At
<1>5. ASSUME e.pc # "wait" PROVE CountRight' /\ Numbers'
  <2>1. Waiting' = Waiting
    BY <1>2, <1>5 DEF Waiting, At
  <2>2. CountRight' /\ Numbers'
    BY <1>2, <2>1 DEF InStep, CountRight, Numbers, Rotating, LoggerBusy
  <2> QED BY <2>2
<1>6. enc[c].cur = -1 => rot.segment = 0 /\ enc[c].lh = 0
  BY DEF InStep, StartAgreed
<1>7. CASE NotReady(c, f)
  <2>1. e = [enc[c] EXCEPT !.frame = f]
    BY <1>2, <1>7, Parts DEF NotReady
  <2>2. e.pc = "recv" /\ e.frame = f /\ e.cur = enc[c].cur /\ e.lh = enc[c].lh
    BY <1>2, <2>1, EncFields DEF EncStates
  <2>3. sync.synced = {} /\ \A d \in Cams : enc[d].cur = -1
    BY <1>7 DEF NotReady, InStep, StartAgreed
  <2>4. /\ sync'.synced = sync.synced /\ sync'.ready = sync.ready \cup {c}
        /\ sync'.start = Larger(sync.start, f + 2)
    BY <1>7, Parts DEF NotReady
  <2>5. sync'.start >= sync.start /\ sync'.start > f
    BY <1>2, <2>4, EncFields DEF Larger
  <2>6. StartAgreed'
    <3>1. \A d \in sync.ready : enc[d].frame < sync.start /\ enc[d].frame \in Nat
      BY <2>3, EncFields, Parts DEF InStep, StartAgreed
    <3>2. \A d \in sync'.ready : enc'[d].frame < sync'.start
      <4>1. sync.ready \subseteq Cams /\ sync'.start \in Nat
        BY <1>2, <2>4, EncFields, Parts DEF Larger
      <4> QED BY <1>2, <2>2, <2>4, <2>5, <3>1, <4>1, EncFields
    <3> QED BY <1>2, <1>6, <2>2, <2>3, <2>4, <3>2 DEF InStep, StartAgreed, At
  <2>7. \A d \in Cams : CameraRight(d)'
    BY <1>2, <2>2, <2>3 DEF CameraRight
  <2> QED BY <1>2, <1>5, <2>2, <2>6, <2>7 DEF InStep
<1>8. CASE TooEarly(c, f)
  <2>1. e = [enc[c] EXCEPT !.frame = f] /\ sync' = sync
    BY <1>2, <1>8, Parts DEF TooEarly
  <2>2. e.pc = "recv" /\ e.frame = f /\ e.cur = enc[c].cur /\ e.lh = enc[c].lh
    BY <1>2, <2>1, EncFields DEF EncStates
  <2>3. enc[c].cur = -1 /\ f < sync.start
    BY <1>8 DEF TooEarly, InStep, StartAgreed
  <2>4. StartAgreed'
    BY <1>2, <1>6, <2>1, <2>2, <2>3 DEF InStep, StartAgreed, At
  <2>5. \A d \in Cams : CameraRight(d)'
    <3>1. CameraRight(c)'
      BY <1>2, <2>2, <2>3 DEF CameraRight
    <3>2. ASSUME NEW d \in Cams, d # c PROVE CameraRight(d)'
      BY <1>2, <2>1, <3>2, CameraStays DEF InStep
    <3> QED BY <3>1, <3>2
  <2> QED BY <1>2, <1>5, <2>2, <2>4, <2>5 DEF InStep
<1>9. CASE Synced(c, f)
  <2>1. /\ sync'.synced = sync.synced \cup {c} /\ sync'.ready = sync.ready
        /\ sync'.start = sync.start /\ sync.ready = Cams
    BY <1>9, Parts DEF Synced, InStep, StartAgreed
  <2>2. /\ e.frame = f /\ e.file = enc[c].file /\ e.lh = enc[c].lh
        /\ \/ enc[c].cur >= 0 /\ f >= Boundary(c) /\ e.pc = "count" /\ e.cur = enc[c].cur
           \/ /\ ~(enc[c].cur >= 0 /\ f >= Boundary(c)) /\ e.cur = rot.segment
              /\ e.pc = IF rot.segment > enc[c].cur THEN "open" ELSE "encode"
    <3>1. CASE enc[c].cur >= 0 /\ f >= Boundary(c)
      <4>1. e = [enc[c] EXCEPT !.frame = f, !.pc = "count"]
        BY <1>2, <1>9, <3>1, Parts DEF Synced
      <4> QED BY <3>1, <4>1, EncFields DEF EncStates
    <3>2. CASE ~(enc[c].cur >= 0 /\ f >= Boundary(c))
      <4>1. Follow(c, f)
        BY <1>9, <3>2 DEF Synced
      <4> QED BY <1>2, <3>2, <4>1, FollowFields
    <3> QED BY <3>1, <3>2
  <2>3. e.cur # -1 /\ e.pc # "wait"
    BY <2>2, EncFields
  <2>4. StartAgreed'
    BY <1>2, <2>1, <2>2, <2>3 DEF InStep, StartAgreed, At
  <2>5. ASSUME NEW d \in Cams, d # c PROVE CameraRight(d)'
    BY <1>2, <2>1, <2>5, CameraStays DEF InStep
  <2>6. CASE enc[c].cur # -1
    <3>1. /\ enc[c].cur \in Nat /\ enc[c].cur = rot.segment /\ enc[c].file = enc[c].cur
          /\ enc[c].frame < Boundary(c)
          /\ enc[c].cur > 0 => enc[c].frame >= Boundary(c) - PerSegment
          /\ enc[c].lh # 0 => handle[enc[c].lh].seg = enc[c].cur
      BY <1>2, <2>6 DEF InStep, CameraRight, InSegment, At
    <3>2. Boundary(c)' = Boundary(c) /\ Boundary(c) \in Nat
      <4>1. e.cur = enc[c].cur
        BY <2>2, <3>1
      <4>2. (enc[c].cur + 1) * PerSegment \in Nat
        BY <3>1, EncFields
      <4> QED BY <1>2, <2>1, <4>1, <4>2, EncFields DEF Boundary
    <3>3. e.pc \in {"count", "encode"} /\ e.cur = enc[c].cur
          /\ (e.pc = "count" => f >= Boundary(c)) /\ (e.pc = "encode" => f < Boundary(c))
      BY <1>2, <2>2, <3>1, <3>2
    <3>4. CameraRight(c)'
      BY <1>2, <1>3, <2>2, <3>1, <3>2, <3>3, EncFields DEF CameraRight, InSegment, At
    <3> QED BY <1>2, <1>5, <2>3, <2>4, <2>5, <3>4 DEF InStep
  <2>7. CASE enc[c].cur = -1
    <3>1. rot.segment = 0 /\ e.pc = "open" /\ e.cur = 0
      BY <1>6, <2>2, <2>7
    <3>2. enc[c].frame < sync.start
      BY <2>1, <2>7 DEF InStep, StartAgreed
    <3>3. Boundary(c)' = PerSegment + sync.start
      BY <1>2, <2>1, <3>1, EncFields DEF Boundary
    <3>4. f < PerSegment + sync.start
      BY <1>2, <1>3, <3>2, EncFields
    <3>5. CameraRight(c)'
      BY <1>2, <2>2, <3>1, <3>3, <3>4 DEF CameraRight, At
    <3> QED BY <1>2, <1>5, <2>3, <2>4, <2>5, <3>5 DEF InStep
  <2> QED BY <2>6, <2>7
<1> QED BY <1>7, <1>8, <1>9 DEF Recv

-----------------------------------------------------------------------------
(* The cameras in step: the steps of the logging thread. *)

LEMMA MainStays ==
  ASSUME LoggerTypeOK, InStep, UNCHANGED <<enc, sync>>, ~past'.clash,
         rot'.segment = rot.segment, rot'.ready = rot.ready, exit => exit',
         Numbers', Rotating' => Waiting = Cams,
         \A d \in Cams : enc[d].lh # 0 /\ ~At(d, "tear") =>
           handle'[enc[d].lh].seg = handle[enc[d].lh].seg
  PROVE  InStep'
<1>1. Waiting' = Waiting
  BY DEF Waiting, At
<1>2. CountRight'
  BY <1>1, Parts DEF InStep, CountRight
<1>3. StartAgreed'
  BY DEF InStep, StartAgreed, At
<1>4. \A d \in Cams : CameraRight(d)'
  BY CameraStays DEF InStep
<1> QED BY <1>2, <1>3, <1>4 DEF InStep

\* All cameras wait when their count is reached, so nobody is closing a handle.
LEMMA RotateInStep ==
  ASSUME LoggerTypeOK, HandlesInOrder, InStep, RotateIfReady
  PROVE  InStep'
<1>1. main.pc = "poll" /\ ~exit /\ AllReady /\ Rotate("count")
  BY DEF RotateIfReady
<1>2. Waiting = Cams
  <2>1. Cardinality(Waiting) = Cardinality(Cams)
    BY <1>1 DEF AllReady, InStep, CountRight
  <2>2. Waiting \in SUBSET Cams /\ IsFiniteSet(Cams)
    BY LoggerAssumption DEF Waiting
  <2> QED BY <2>1, <2>2, FS_Subset
<1>3. \A c \in Cams : enc[c].pc = "wait"
  BY <1>2 DEF Waiting, At
<1>4. PICK h \in Handles :
        /\ FirstFree(h)
        /\ handle' = [handle EXCEPT ![h] = [refcnt |-> 1, seg |-> rot.part + 1]]
        /\ main' = [pc |-> "seal", next |-> h, drop |-> rot.cur, to |-> "switch", then |-> "again"]
        /\ past' = [timed |-> past.timed \/ "count" = "time", clash |-> Torn(h)]
  BY <1>1 DEF Rotate
<1>5. ~past'.clash
  BY <1>1, <1>3, <1>4 DEF Torn, At
<1>6. /\ UNCHANGED <<enc, sync, exit>>
      /\ rot'.segment = rot.segment /\ rot'.ready = rot.ready /\ rot'.path = rot.path
      /\ rot'.part = rot.part + 1 /\ rot'.cur = rot.cur
  BY <1>1, Parts DEF Rotate
<1>7. /\ handle'[h].seg = rot.part + 1
      /\ \A g \in Handles : g # h => handle'[g] = handle[g]
  BY <1>4, Parts
<1>8. h # rot.cur /\ rot.cur \in Handles
  <2>1. rot.cur \in Handles /\ handle[h].refcnt = 0
    BY <1>4, MainPart DEF FirstFree, Free
  <2>2. MainHas(rot.cur) /\ Counted(rot.cur)
    BY <1>1, <2>1 DEF MainHas, HandlesInOrder
  <2>3. handle[rot.cur].refcnt > 0
    BY <2>1, <2>2, Alone
  <2> QED BY <2>1, <2>3
<1>9. Numbers'
  <2>1. Numbers /\ ~Rotating /\ rot.segment \in Nat /\ rot.part \in Nat /\ rot.path \in Nat
    BY <1>1, Parts, Constants DEF InStep, Rotating, Segments
  <2>2. Rotating' /\ main'.pc = "seal" /\ main'.next = h
    BY <1>4 DEF Rotating
  <2> QED BY <1>1, <1>6, <1>7, <1>8, <2>1, <2>2 DEF Numbers
<1>10. ASSUME NEW d \in Cams, enc[d].lh # 0
       PROVE  handle'[enc[d].lh].seg = handle[enc[d].lh].seg
  <2>1. enc[d].lh \in Handles /\ Has(d, enc[d].lh)
    BY <1>3, <1>10, EncFields DEF Has, At
  <2>2. handle[enc[d].lh].refcnt > 0
    BY <2>1, Alone DEF HandlesInOrder
  <2>3. handle[h].refcnt = 0
    BY <1>4 DEF FirstFree, Free
  <2>4. enc[d].lh # h
    BY <2>2, <2>3
  <2> QED BY <1>7, <2>1, <2>4
<1> QED BY <1>2, <1>5, <1>6, <1>9, <1>10, MainStays

LEMMA CloseOldInStep ==
  ASSUME LoggerTypeOK, HandlesInOrder, InStep, CloseOld
  PROVE  InStep'
<1>1. main.pc \in {"seal", "drop", "tear"} /\ UNCHANGED <<enc, rot, sync, exit, past>>
  BY DEF CloseOld
<1>2. PICK h \in Handles : h = main.drop /\ h = rot.cur
  BY <1>1, MainPart DEF HandlesInOrder, MainInOrder
<1>3. \A g \in Handles : handle'[g].seg = handle[g].seg
  <2>1. main.pc # "tear" => MainHas(h)
    BY <1>1, <1>2 DEF MainHas
  <2>2. main.pc # "tear" => handle[h].refcnt > 0
    BY <2>1, Alone DEF HandlesInOrder
  <2>3. handle' = handle \/ (Release(h) /\ main.pc # "tear")
    BY <1>2 DEF CloseOld, LastCloses, OtherCloses, Release
  <2> QED BY <2>2, <2>3, ReleaseSets
<1>4. /\ main.to \in {"switch", "ended"}
      /\ main'.pc \in {"drop", "tear", main.to} /\ main'.to = main.to /\ main'.next = main.next
  <2>1. main.to \in {"switch", "ended"} /\ {"drop", "tear", main.to} \subseteq MainPcs
    BY MainPart DEF MainPcs
  <2>2. \E p \in {"drop", "tear", main.to} : MainStep(p)
    BY <1>1, <1>2 DEF CloseOld
  <2> QED BY <2>1, <2>2, GoesTo
<1>5. (Rotating' <=> Rotating) /\ main'.pc # "publish" /\ main.pc # "publish"
  BY <1>1, <1>4 DEF Rotating
<1>6. Numbers'
  <2>1. LoggerBusy /\ main.to = "switch" => main.next \in Handles
    BY DEF HandlesInOrder, MainInOrder
  <2>2. LoggerBusy' /\ main'.to = "switch" => LoggerBusy /\ main.to = "switch"
    BY <1>1, <1>4 DEF LoggerBusy
  <2> QED BY <1>1, <1>2, <1>3, <1>4, <1>5, <2>1, <2>2 DEF InStep, Numbers
<1>7. Rotating' => Waiting = Cams
  BY <1>5 DEF InStep, CountRight
<1>8. \A d \in Cams : enc[d].lh # 0 => handle'[enc[d].lh].seg = handle[enc[d].lh].seg
  BY <1>3, EncFields
<1>9. ~past'.clash
  BY <1>1 DEF InStep
<1> QED BY <1>1, <1>6, <1>7, <1>8, <1>9, MainStays

LEMMA SwitchInStep ==
  ASSUME LoggerTypeOK, HandlesInOrder, InStep, Switch
  PROVE  InStep'
<1>1. /\ main.pc = "switch" /\ main.to = "switch"
      /\ main'.pc = "publish" /\ main'.to = "switch"
  BY GoesTo DEF Switch, HandlesInOrder, MainInOrder, MainPcs
<1>2. /\ UNCHANGED <<enc, handle, sync, exit, past>>
      /\ rot'.segment = rot.segment /\ rot'.ready = rot.ready /\ rot'.part = rot.part
      /\ rot'.cur = main.next /\ rot'.path = rot.part
  BY Parts DEF Switch
<1>3. Rotating /\ Rotating' /\ LoggerBusy /\ ~LoggerBusy'
  BY <1>1 DEF Rotating, LoggerBusy
<1>4. Numbers'
  BY <1>1, <1>2, <1>3 DEF InStep, Numbers
<1>5. Waiting = Cams /\ ~past'.clash
  BY <1>2, <1>3 DEF InStep, CountRight
<1> QED BY <1>2, <1>4, <1>5, MainStays

LEMMA PublishInStep ==
  ASSUME LoggerTypeOK, HandlesInOrder, InStep, Publish
  PROVE  InStep'
<1>1. main.pc = "publish" /\ main'.pc \in {"poll", "again"}
  <2>1. main.then \in {"poll", "again"} /\ main.then \in MainPcs
    BY MainPart DEF MainPcs
  <2> QED BY <2>1, GoesTo DEF Publish
<1>2. /\ UNCHANGED <<enc, handle, sync, exit, past>>
      /\ rot'.segment = rot.part /\ rot'.ready = 0 /\ rot'.part = rot.part
      /\ rot'.cur = rot.cur /\ rot'.path = rot.path
  BY Parts DEF Publish
<1>3. Rotating /\ ~Rotating' /\ ~LoggerBusy'
  BY <1>1 DEF Rotating, LoggerBusy, HandlesInOrder, MainInOrder
<1>4. Waiting = Cams /\ rot.part = rot.segment + 1 /\ rot.path = rot.segment + 1
  BY <1>1, <1>3 DEF InStep, CountRight, Numbers
<1>5. rot'.segment = rot.segment + 1
  BY <1>2, <1>4
<1>6. \A c \in Cams : enc[c].pc = "wait" /\ enc[c].cur = rot.segment /\ enc[c].cur # -1
  BY <1>4, EncFields DEF Waiting, At
<1>7. CountRight'
  <2>1. Waiting' = {}
    BY <1>2, <1>5, <1>6, EncFields DEF Waiting, At
  <2>2. rot'.ready = Cardinality(Waiting')
    BY <1>2, <2>1, FS_EmptySet
  <2> QED BY <1>3, <2>2 DEF CountRight
<1>8. Numbers'
  <2>1. main'.pc # "publish" /\ rot.segment \in Nat
    BY <1>1, MainPart, Constants DEF Segments
  <2> QED BY <1>2, <1>3, <1>4, <1>5, <2>1 DEF InStep, Numbers
<1>9. StartAgreed'
  BY <1>2, <1>6 DEF InStep, StartAgreed, At
<1>10. ASSUME NEW c \in Cams PROVE CameraRight(c)'
  <2>1. ~InSegment(c)' /\ Boundary(c)' = Boundary(c)
    BY <1>2, <1>6 DEF InSegment, Boundary, At
  <2> QED BY <1>2, <1>5, <1>6, <2>1, EncFields DEF InStep, CameraRight, At
<1>11. ~past'.clash
  BY <1>2 DEF InStep
<1> QED BY <1>7, <1>8, <1>9, <1>10, <1>11 DEF InStep

LEMMA OtherInStep ==
  ASSUME LoggerTypeOK, HandlesInOrder, InStep, NotLate \/ EndLoop \/ LoggerClose \/ Exit
  PROVE  InStep'
<1>1. /\ UNCHANGED <<enc, handle, rot, sync, past>> /\ (exit => exit')
      /\ main.pc \in {"poll", "again", "join"}
  BY DEF NotLate, EndLoop, LoggerClose, Exit
<1>2. main'.pc \in {"poll", "join"} \/ (main'.pc = "seal" /\ main'.to = "ended")
  <2>1. NotLate \/ EndLoop => main'.pc \in {"poll", "join"}
    BY GoesTo DEF NotLate, EndLoop, MainPcs
  <2>2. LoggerClose => main'.pc = "seal" /\ main'.to = "ended"
    BY Parts DEF LoggerClose, MainStates
  <2> QED BY <2>1, <2>2 DEF Exit
<1>3. ~Rotating /\ ~Rotating' /\ main.pc # "publish" /\ main'.pc # "publish"
  BY <1>1, <1>2 DEF Rotating
<1>4. ~(LoggerBusy' /\ main'.to = "switch")
  BY <1>2 DEF LoggerBusy
<1>5. Numbers'
  BY <1>1, <1>3, <1>4 DEF InStep, Numbers
<1>6. ~past'.clash
  BY <1>1 DEF InStep
<1> QED BY <1>1, <1>3, <1>5, <1>6, MainStays

-----------------------------------------------------------------------------
(* The cameras in step: the invariant. *)

LEMMA TogetherStarts == LoggerInit => Together
<1> SUFFICES ASSUME LoggerInit PROVE InStep
  BY DEF Together
<1>1. /\ \A c \in Cams : enc[c].pc = "recv" /\ enc[c].cur = -1 /\ enc[c].lh = 0
      /\ main.pc = "poll" /\ exit = FALSE /\ past.clash = FALSE
      /\ rot = [segment |-> 0, path |-> 0, ready |-> 0, part |-> 0, cur |-> 1]
      /\ sync = [ready |-> {}, synced |-> {}, start |-> 0]
  BY DEF LoggerInit
<1>2. Numbers
  <2>1. handle[1].seg = 0
    BY Constants DEF LoggerInit
  <2> QED BY <1>1, <2>1 DEF Numbers, Rotating, LoggerBusy
<1>3. CountRight
  <2>1. Waiting = {}
    BY <1>1 DEF Waiting, At
  <2> QED BY <1>1, <2>1, FS_EmptySet DEF CountRight, Rotating
<1>4. StartAgreed
  BY <1>1 DEF StartAgreed, At
<1>5. \A c \in Cams : CameraRight(c)
  BY <1>1 DEF CameraRight
<1> QED BY <1>1, <1>2, <1>3, <1>4, <1>5 DEF InStep

LEMMA TogetherSteps ==
  ASSUME DropsFit, LoggerInv, Together, [LoggerNext]_loggerVars
  PROVE  Together'
<1>1. LoggerTypeOK
  BY DEF LoggerInv
<1>2. CASE UNCHANGED loggerVars
  <2>1. UNCHANGED <<enc, main, handle, rot, sync, exit, past>>
    BY <1>2 DEF loggerVars
  <2>2. InStep => InStep'
    <3> SUFFICES ASSUME InStep PROVE InStep'
      OBVIOUS
    <3>1. Numbers' /\ (Rotating' => Waiting = Cams)
      BY <2>1 DEF InStep, Numbers, CountRight, Rotating, LoggerBusy
    <3> QED BY <1>1, <2>1, <3>1, MainStays DEF InStep
  <2> QED BY <2>1, <2>2 DEF Together
<1>3. CASE LoggerNext /\ past'.timed
  BY <1>3 DEF Together
<1>4. CASE LoggerNext /\ ~past'.timed
  <2>1. HandlesInOrder
    BY <1>4 DEF LoggerNext, LoggerInv
  <2>2. ~past.timed /\ ~RotateByTime
    <3>1. ~RotateByTime
      <4> SUFFICES ASSUME Rotate("time") PROVE past'.timed
        BY <1>4 DEF RotateByTime
      <4>1. PICK h : past' = [timed |-> past.timed \/ "time" = "time", clash |-> Torn(h)]
        BY DEF Rotate
      <4> QED BY <4>1
    <3>2. RotateIfReady => (past'.timed <=> past.timed)
      BY Parts, <1>1 DEF RotateIfReady, Rotate
    <3>3. ~RotateIfReady => past' = past
      BY <1>4, <3>1 DEF LoggerNext, Main, Encoder, Exit, Recv, Count, Released, Open, Leave,
                        CloseHandle, GetHandle, Encode, NotLate, CloseOld, Switch, Publish,
                        EndLoop, LoggerClose
    <3> QED BY <1>4, <3>1, <3>2, <3>3
  <2>3. InStep
    BY <2>2 DEF Together
  <2>4. ASSUME NEW c \in Cams, Encoder(c) PROVE InStep'
    BY <1>1, <2>1, <2>3, <2>4, EncoderInStep
  <2>5. ASSUME NEW c \in Cams, NEW f \in 1..MaxFrame, Recv(c, f) PROVE InStep'
    BY <1>1, <2>1, <2>3, <2>5, RecvInStep
  <2>6. CASE Main \/ Exit
    BY <1>1, <2>1, <2>2, <2>3, <2>6, RotateInStep, CloseOldInStep, SwitchInStep, PublishInStep,
       OtherInStep DEF Main, Together
  <2> QED BY <1>4, <2>4, <2>5, <2>6 DEF LoggerNext, Together
<1> QED BY <1>2, <1>3, <1>4

\* When never more than a segment's frames are dropped at once, the cameras move
\* on together for as long as no segment was rotated by time: each encodes a
\* frame into the file and the log of the segment the frame belongs to, and no
\* handle is reopened while its last holder closes it (encoder_thread,
\* rotate_if_needed).
THEOREM CamerasMoveTogether == DropsFit => (LoggerSpec => []CamerasInStep)
<1> SUFFICES ASSUME DropsFit PROVE LoggerSpec => []CamerasInStep
  OBVIOUS
<1>1. LoggerInit => Together
  BY TogetherStarts
<1>2. LoggerInv /\ Together /\ [LoggerNext]_loggerVars => Together'
  BY TogetherSteps
<1>3. LoggerInv /\ Together => CamerasInStep
  <2> SUFFICES ASSUME LoggerInv, ~past.timed, InStep PROVE CamerasInStep
    BY DEF Together, CamerasInStep
  <2>1. LoggerTypeOK /\ HandlesInOrder /\ ~past.clash
    BY DEF LoggerInv, InStep
  <2>2. ASSUME NEW c \in Cams, At(c, "encode")
        PROVE  /\ enc[c].file = enc[c].cur
               /\ handle[enc[c].lh].seg = enc[c].cur
               /\ enc[c].frame < Boundary(c)
               /\ enc[c].cur > 0 => enc[c].frame >= Boundary(c) - PerSegment
    <3>1. enc[c].cur # -1 /\ InSegment(c) /\ CameraRight(c) /\ enc[c].lh # 0
      BY <2>1, <2>2 DEF InStep, StartAgreed, InSegment, HandlesInOrder, EncInOrder, At
    <3> QED BY <2>2, <3>1 DEF CameraRight, At
  <2> QED BY <2>1, <2>2 DEF CamerasInStep
<1> QED BY <1>1, <1>2, <1>3, LoggerInvariant, PTL DEF LoggerSpec
=============================================================================
