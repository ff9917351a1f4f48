------------------------------- MODULE Logger -------------------------------
(***************************************************************************)
(* loggerd: one thread logs messages and rotates the segments (loggerd.cc,  *)
(* logger.cc), one thread per camera encodes frames into files of the same  *)
(* segments.  The cameras agree on a first frame, count themselves ready    *)
(* at the last frame of a segment and sleep until the log has moved on.     *)
(* Every lock region is one step; that a segment's time is up and no camera *)
(* was seen for a while may hold at any test of it.  The device is a TICI:   *)
(* an EON has one camera with trigger_rotate, which agrees with nobody       *)
(* (max_waiting = 1), and one without, which follows the segments as it      *)
(* finds them.  Both are left out.                                           *)
(***************************************************************************)
EXTENDS Integers, FiniteSets

CONSTANTS
  Cams,       \* the cameras with trigger_rotate (max_waiting of them)
  PerSegment, \* frames of a segment (SEGMENT_LENGTH * MAIN_FPS)
  Steps,      \* by how much a frame id grows: 1, or more when frames were dropped
  MaxFrame, LastSegment, \* bounds of this model: frame ids and segments
  Pool        \* handles of the logger (LOGGER_MAX_HANDLES)

ASSUME LoggerAssumption ==
  /\ IsFiniteSet(Cams) /\ Cardinality(Cams) > 1
  /\ PerSegment \in Nat \ {0} /\ Steps \subseteq Nat \ {0}
  /\ {MaxFrame, LastSegment} \subseteq Nat /\ Pool \in Nat \ {0}

VARIABLES
  enc,    \* each encoder thread: pc, frame, cur_seg, the file it writes, its handle
          \* and what follows its closing
  main,   \* the logging thread: pc, the new handle, the handle it lets go, what
          \* follows that and what follows the rotation
  handle, \* each handle: refcnt and the segment it logs
  log,    \* each segment's log: its last message, and whether it was closed
  rot,    \* rotate_segment, segment_path, ready_to_rotate, part, cur_handle
  sync,   \* camera_ready, camera_synced and start_frame_id
  exit,   \* do_exit
  past    \* history: a rotation by time took place; a handle was reopened too soon

loggerVars == <<enc, main, handle, log, rot, sync, exit, past>>

Handles == 1..Pool
Segments == 0..LastSegment
Mixed == -1    \* the path read while it was being rewritten

LoggerInit ==
  /\ \E first \in [Cams -> 0..1] : enc = [c \in Cams |->
       [pc |-> "recv", frame |-> first[c], cur |-> -1, file |-> -1, lh |-> 0, to |-> "get"]]
  /\ main = [pc |-> "poll", next |-> 0, drop |-> 0, to |-> "switch", then |-> "poll"]
  /\ handle = [h \in Handles |-> [refcnt |-> IF h = 1 THEN 1 ELSE 0, seg |-> 0]]
  /\ log = [s \in Segments |-> [tail |-> "data", shut |-> FALSE]]
  /\ rot = [segment |-> 0, path |-> 0, ready |-> 0, part |-> 0, cur |-> 1]
  /\ sync = [ready |-> {}, synced |-> {}, start |-> 0]
  /\ exit = FALSE
  /\ past = [timed |-> FALSE, clash |-> FALSE]

At(c, pc) == enc[c].pc = pc
Step(c, pc) == enc' = [enc EXCEPT ![c].pc = pc]
MainStep(pc) == main' = [main EXCEPT !.pc = pc]

\* rotate_lock is held from logger_next to the publication of the segment.
Rotating == main.pc \in {"seal", "drop", "tear", "switch", "publish"} /\ main.to = "switch"

\* The lock of the logger is held while logger_next changes cur_handle.
LoggerBusy == main.pc \in {"seal", "drop", "tear", "switch"}

-----------------------------------------------------------------------------
(* The handles of the segments, logger.cc. *)

\* A message is written to the log of h.
Write(h, what) == log' = [log EXCEPT ![handle[h].seg].tail = what]

\* lh_close, the last holder: the lock is let go for the end sentinel.
LastCloses(h) ==
  /\ handle[h].refcnt = 1
  /\ Write(h, "end")
  /\ UNCHANGED handle

\* Another holder is left.
OtherCloses(h) ==
  /\ handle[h].refcnt > 1
  /\ handle' = [handle EXCEPT ![h].refcnt = @ - 1]
  /\ UNCHANGED log

\* The reference goes; the files of the handle are closed only after that.
Release(h) == handle' = [handle EXCEPT ![h].refcnt = @ - 1]
Tear(h) == log' = [log EXCEPT ![handle[h].seg].shut = TRUE]

\* logger_open takes the first handle nobody refers to, without its lock.
Free == {h \in Handles : handle[h].refcnt = 0}
FirstFree(h) == h \in Free /\ \A g \in Free : h <= g
Torn(h) ==
  \/ main.pc = "tear" /\ main.drop = h
  \/ \E c \in Cams : At(c, "tear") /\ enc[c].lh = h

-----------------------------------------------------------------------------
(* The encoder threads. *)

Larger(a, b) == IF a > b THEN a ELSE b

\* The first frame of the camera's next segment.
Boundary(c) == (enc[c].cur + 1) * PerSegment + sync.start

\* sync_encoders: until all encoders are ready each one moves the first frame
\* two ahead of its own; afterwards a frame counts from that first frame on.
NotReady(c, f) ==
  /\ c \notin sync.synced /\ sync.ready # Cams
  /\ sync' = [sync EXCEPT !.start = Larger(@, f + 2), !.ready = @ \cup {c}]
  /\ enc' = [enc EXCEPT ![c].frame = f]

TooEarly(c, f) ==
  /\ c \notin sync.synced /\ sync.ready = Cams /\ f < sync.start
  /\ enc' = [enc EXCEPT ![c].frame = f]
  /\ UNCHANGED sync

\* The encoder follows the log to a newer segment, or encodes the frame.
Follow(c, f) ==
  enc' = [enc EXCEPT ![c] = [@ EXCEPT !.frame = f, !.cur = rot.segment,
            !.pc = IF rot.segment > enc[c].cur THEN "open" ELSE "encode"]]

\* trigger_rotate_if_needed: is it the first frame of the next segment?
Synced(c, f) ==
  /\ c \in sync.synced \/ (sync.ready = Cams /\ f >= sync.start)
  /\ sync' = [sync EXCEPT !.synced = @ \cup {c}]
  /\ IF enc[c].cur >= 0 /\ f >= Boundary(c)
     THEN enc' = [enc EXCEPT ![c] = [@ EXCEPT !.frame = f, !.pc = "count"]]
     ELSE Follow(c, f)

\* recv: the next frame; the tests of sync_encoders take far less than the time
\* between two frames.
Recv(c, f) ==
  /\ At(c, "recv") /\ ~exit
  /\ f - enc[c].frame \in Steps /\ f <= MaxFrame
  /\ NotReady(c, f) \/ TooEarly(c, f) \/ Synced(c, f)
  /\ UNCHANGED <<main, handle, log, rot, exit, past>>

\* ++ready_to_rotate, with no lock and whatever rotated meanwhile.
Count(c) ==
  /\ At(c, "count")
  /\ rot' = [rot EXCEPT !.ready = @ + 1]
  /\ Step(c, "wait")
  /\ UNCHANGED <<main, handle, log, sync, exit, past>>

\* rotate_cv.wait and the look at rotate_segment that follows; do_exit ends
\* the loop.
Released(c) ==
  /\ At(c, "wait") /\ ~Rotating
  /\ \/ rot.segment > enc[c].cur /\ Follow(c, enc[c].frame)
     \/ exit /\ Step(c, "recv")
  /\ UNCHANGED <<main, handle, log, rot, sync, exit, past>>

\* encoder_open on segment_path, which logger_next may be writing.
Open(c) ==
  /\ At(c, "open")
  /\ \E p \in {rot.path} \cup (IF main.pc = "switch" THEN {rot.part, Mixed} ELSE {}) :
       enc' = [enc EXCEPT ![c] =
                 [@ EXCEPT !.file = p, !.pc = IF enc[c].lh = 0 THEN "get" ELSE "seal"]]
  /\ UNCHANGED <<main, handle, log, rot, sync, exit, past>>

\* The outer loop ends: the encoder closes its handle for good.
Leave(c) ==
  /\ At(c, "recv") /\ exit
  /\ enc' = [enc EXCEPT ![c] =
               [@ EXCEPT !.pc = IF enc[c].lh = 0 THEN "done" ELSE "seal", !.to = "done"]]
  /\ UNCHANGED <<main, handle, log, rot, sync, exit, past>>

\* lh_close of the encoder's handle.
Let(c) == enc' = [enc EXCEPT ![c] = [@ EXCEPT !.pc = enc[c].to, !.lh = 0]]

CloseHandle(c) ==
  /\ \/ At(c, "seal") /\ LastCloses(enc[c].lh) /\ Step(c, "drop")
     \/ At(c, "seal") /\ OtherCloses(enc[c].lh) /\ Let(c)
     \/ /\ At(c, "drop") /\ Release(enc[c].lh)
        /\ IF handle[enc[c].lh].refcnt = 1 THEN Step(c, "tear") ELSE Let(c)
        /\ UNCHANGED log
     \/ At(c, "tear") /\ Tear(enc[c].lh) /\ Let(c) /\ UNCHANGED handle
  /\ UNCHANGED <<main, rot, sync, exit, past>>

\* Mutant: the encoder keeps the handle without counting itself.
GetHandleUncounted(c) ==
  /\ At(c, "get") /\ ~LoggerBusy
  /\ enc' = [enc EXCEPT ![c] = [@ EXCEPT !.pc = "encode", !.lh = rot.cur]]
  /\ UNCHANGED <<handle, main, log, rot, sync, exit, past>>

\* logger_get_handle
GetHandle(c) ==
  /\ At(c, "get") /\ ~LoggerBusy
  /\ handle' = [handle EXCEPT ![rot.cur].refcnt = @ + 1]
  /\ enc' = [enc EXCEPT ![c] = [@ EXCEPT !.pc = "encode", !.lh = rot.cur]]
  /\ UNCHANGED <<main, log, rot, sync, exit, past>>

\* The frame goes to the encoder's file, its index to the log of the handle.
Encode(c) ==
  /\ At(c, "encode")
  /\ Write(enc[c].lh, "data")
  /\ Step(c, "recv")
  /\ UNCHANGED <<main, handle, rot, sync, exit, past>>

Encoder(c) ==
  \/ Count(c) \/ Released(c)
  \/ Open(c) \/ Leave(c) \/ CloseHandle(c) \/ GetHandle(c) \/ Encode(c)

-----------------------------------------------------------------------------
(* The logging thread. *)

\* All cameras have counted themselves: the count is exact or it is missed.
AllReady == rot.ready = Cardinality(Cams)

\* logger_next up to the end of logger_open; reopening a handle whose last
\* holder is still closing it is undefined, and nothing follows it here.
Rotate(by) ==
  /\ rot.part + 1 \in Segments
  /\ \E h \in Handles :
       /\ FirstFree(h)
       /\ handle' = [handle EXCEPT ![h] = [refcnt |-> 1, seg |-> rot.part + 1]]
       /\ main' = [pc |-> "seal", next |-> h, drop |-> rot.cur, to |-> "switch",
                     then |-> IF by = "count" THEN "again" ELSE "poll"]
       /\ past' = [timed |-> past.timed \/ by = "time", clash |-> Torn(h)]
  /\ rot' = [rot EXCEPT !.part = @ + 1]
  /\ UNCHANGED <<enc, log, sync, exit>>

\* rotate_if_needed after a message was logged.
RotateIfReady == main.pc = "poll" /\ ~exit /\ AllReady /\ Rotate("count")

\* Mutant: no rotation by time while a camera has counted itself.
RotateByTimeIfNone ==
  /\ \/ main.pc = "poll" /\ ~exit /\ rot.ready = 0
     \/ main.pc = "again"
  /\ Rotate("time")

\* The segment's time is up and no camera was seen for NO_CAMERA_PATIENCE; the
\* test comes after the one of the count, and after its rotation too.
RotateByTime ==
  /\ \/ main.pc = "poll" /\ ~exit /\ ~AllReady
     \/ main.pc = "again"
  /\ Rotate("time")

NotLate ==
  /\ main.pc = "again"
  /\ MainStep("poll")
  /\ UNCHANGED <<enc, handle, log, rot, sync, exit, past>>

\* lh_close of the old segment's handle, under the lock of the logger.
CloseOld ==
  /\ \/ main.pc = "seal" /\ LastCloses(main.drop) /\ MainStep("drop")
     \/ main.pc = "seal" /\ OtherCloses(main.drop) /\ MainStep(main.to)
     \/ /\ main.pc = "drop" /\ Release(main.drop)
        /\ MainStep(IF handle[main.drop].refcnt = 1 THEN "tear" ELSE main.to)
        /\ UNCHANGED log
     \/ main.pc = "tear" /\ Tear(main.drop) /\ MainStep(main.to) /\ UNCHANGED handle
  /\ UNCHANGED <<enc, rot, sync, exit, past>>

\* cur_handle and segment_path; the lock of the logger is let go.
Switch ==
  /\ main.pc = "switch"
  /\ rot' = [rot EXCEPT !.cur = main.next, !.path = rot.part]
  /\ MainStep("publish")
  /\ UNCHANGED <<enc, handle, log, sync, exit, past>>

\* Mutant: the count of the finished segment is kept.
PublishKeepsCount ==
  /\ main.pc = "publish"
  /\ Write(rot.cur, "data")
  /\ rot' = [rot EXCEPT !.segment = rot.part]
  /\ MainStep(main.then)
  /\ UNCHANGED <<enc, handle, sync, exit, past>>

\* The log begins with the init data and a sentinel; then rotate_segment,
\* ready_to_rotate and last_rotate_tms are set and rotate_lock is let go.
Publish ==
  /\ main.pc = "publish"
  /\ Write(rot.cur, "data")
  /\ rot' = [rot EXCEPT !.segment = rot.part, !.ready = 0]
  /\ MainStep(main.then)
  /\ UNCHANGED <<enc, handle, sync, exit, past>>

\* The loop ends: the encoders are woken and joined, then logger_close writes
\* the sentinel of the route.
EndLoop ==
  /\ main.pc = "poll" /\ exit
  /\ MainStep("join")
  /\ UNCHANGED <<enc, handle, log, rot, sync, exit, past>>

LoggerClose ==
  /\ main.pc = "join" /\ \A c \in Cams : At(c, "done")
  /\ main' = [main EXCEPT !.pc = "seal", !.drop = rot.cur, !.to = "ended"]
  /\ UNCHANGED <<enc, handle, log, rot, sync, exit, past>>

Main ==
  \/ RotateIfReady \/ RotateByTime \/ NotLate \/ CloseOld
  \/ Switch \/ Publish \/ EndLoop \/ LoggerClose

-----------------------------------------------------------------------------
\* The manager ends loggerd (SIGINT, or SIGPWR); the bound of this model is
\* that it does so between two rotations, which is when the main loop looks.
Exit ==
  /\ main.pc = "poll" /\ ~exit /\ exit' = TRUE
  /\ UNCHANGED <<enc, main, handle, log, rot, sync, past>>

LoggerNext ==
  /\ ~past.clash
  /\ \/ Main \/ Exit
     \/ \E c \in Cams : Encoder(c) \/ \E f \in 1..MaxFrame : Recv(c, f)

\* Every thread runs and messages keep coming. A camera may stop; when none is
\* seen, the segment is rotated by time.
LoggerFairness ==
  /\ WF_loggerVars(~past.clash /\ Main)
  /\ WF_loggerVars(~past.clash /\ RotateByTime)
  /\ \A c \in Cams : WF_loggerVars(~past.clash /\ Encoder(c))

LoggerSpec == LoggerInit /\ [][LoggerNext]_loggerVars /\ LoggerFairness

-----------------------------------------------------------------------------
(* Properties. *)

\* A segment's log is closed with its end sentinel as the last message,
\* whoever closes it and whoever still wrote to it (lh_close).  A handle that is
\* reopened while its last holder closes it ends the behaviour (LoggerNext):
\* nothing is said of a log after that.
SentinelIsLast == \A s \in Segments : log[s].shut => log[s].tail = "end"

\* While no segment was rotated by time, the cameras move on together: each
\* encodes a frame into the file of the segment the frame belongs to, logs it
\* in that segment, and no handle is reopened while its last holder closes it.
CamerasInStep ==
  past.timed \/
    /\ ~past.clash
    /\ \A c \in Cams : At(c, "encode") =>
         /\ enc[c].file = enc[c].cur
         /\ handle[enc[c].lh].seg = enc[c].cur
         /\ enc[c].frame < Boundary(c)
         /\ enc[c].cur > 0 => enc[c].frame >= Boundary(c) - PerSegment

\* An encoder that waits for the rotation is let go, though the count of ready
\* cameras can be too high for the test on equality after a rotation by time,
\* and though the other cameras may be dead.
WaitEnds ==
  \A c \in Cams : At(c, "wait") ~> (~At(c, "wait") \/ past.clash)
=============================================================================
