------------------------------- MODULE Params -------------------------------
(* common/params.cc: a parameter is a file, replaced by renaming a temporary  *)
(* file over it. Processes change files under a lock file, which the kernel   *)
(* frees when its holder dies; power may be lost at any moment.               *)
CONSTANTS
  Procs,       \* processes that use the store
  Nobody,      \* no process
  Keys, Values,
  Absent,      \* there is no such file
  Torn,        \* a file whose data never reached the disk
  ClearKeys    \* the keys clearAll finds with the type it is given

ASSUME ParamsAssumption ==
  /\ Nobody \notin Procs /\ ClearKeys \subseteq Keys /\ Absent \notin Keys
  /\ Absent \notin Values /\ Torn \notin Values \union {Absent}

VARIABLES
  dir,        \* the directory as processes see it: an entry per key
  disk,       \* per key: the entries a loss of power may leave
  lock,       \* the holder of .lock, or Nobody
  proc,       \* per process: where it is in a call, and the call's locals
  promised    \* history: per key, what the call that changed it last has returned
              \* to have stored, {} while that call runs and if it failed

paramsVars == <<dir, disk, lock, proc, promised>>

Contents == Values \union {Absent, Torn}

\* An entry: what the file holds, and whether its data has reached the disk.
Entries == [v : Contents, safe : BOOLEAN]
Missing == [v |-> Absent, safe |-> TRUE]

\* What a loss of power makes of an entry, and of a key.
Survivor(e) == IF e.safe THEN e ELSE [v |-> Torn, safe |-> TRUE]
MayBe == [k \in Keys |-> {Survivor(e).v : e \in disk[k]}]
Now == [k \in Keys |-> dir[k].v]

Idle == [pc |-> "idle", key |-> Absent, file |-> Missing, left |-> {},
         snap |-> [k \in Keys |-> Missing]]

ParamsInit ==
  /\ dir \in [Keys -> [v : Values \union {Absent}, safe : {TRUE}]]
  /\ disk = [k \in Keys |-> {dir[k]}]
  /\ lock = Nobody
  /\ proc = [p \in Procs |-> Idle]
  /\ promised = [k \in Keys |-> {Now[k]}]

Become(p, r) == proc' = [proc EXCEPT ![p] = r]
Goto(p, pc) == Become(p, [proc[p] EXCEPT !.pc = pc])

\* The directory entry of k now refers to e; the disk learns of it sooner or later.
SetEntry(k, e) ==
  /\ dir' = [dir EXCEPT ![k] = e]
  /\ disk' = [disk EXCEPT ![k] = @ \union {e}]
  /\ promised' = [promised EXCEPT ![k] = {}]

SameFiles == UNCHANGED <<dir, disk, promised>>

-----------------------------------------------------------------------------
(* put: write a temporary file, fsync it, take the lock, rename, fsync the      *)
(* directory. Whatever fails ends the call with an error.                       *)

PutWrite(p, k, v) ==
  /\ proc[p].pc = "idle"
  /\ Become(p, [Idle EXCEPT !.pc = "put_sync", !.key = k, !.file = [v |-> v, safe |-> FALSE]])
  /\ UNCHANGED <<dir, disk, lock, promised>>

\* Mutant: the temporary file is not synced.
PutSyncNot(p) ==
  /\ proc[p].pc = "put_sync"
  /\ Goto(p, "put_lock")
  /\ UNCHANGED <<dir, disk, lock, promised>>

PutSync(p) ==
  /\ proc[p].pc = "put_sync"
  /\ \/ Become(p, [proc[p] EXCEPT !.pc = "put_lock", !.file = [proc[p].file EXCEPT !.safe = TRUE]])
     \/ Become(p, Idle)
  /\ UNCHANGED <<dir, disk, lock, promised>>

Locked(p, from, to) ==
  /\ proc[p].pc = from /\ lock = Nobody
  /\ lock' = p
  /\ Goto(p, to)
  /\ UNCHANGED <<dir, disk, promised>>

PutLock(p) == Locked(p, "put_lock", "put_rename")

Return(p) == lock' = Nobody /\ Become(p, Idle)

PutRename(p) ==
  /\ proc[p].pc = "put_rename"
  /\ \/ SetEntry(proc[p].key, proc[p].file) /\ Goto(p, "sync_dir") /\ UNCHANGED lock
     \/ SameFiles /\ Return(p)

\* fsync_dir, release of the lock and return: all calls that change end so. If
\* it fails the change stays, visible and not on the disk, and the call returns
\* the error. Of clearAll (no key) the caller learns neither.
SyncDir(p) ==
  /\ proc[p].pc = "sync_dir"
  /\ \/ /\ disk' = [k \in Keys |-> {dir[k]}]
        /\ promised' = [k \in Keys |-> IF k = proc[p].key THEN {proc[p].file.v} ELSE promised[k]]
     \/ UNCHANGED <<disk, promised>>
  /\ Return(p)
  /\ UNCHANGED dir

-----------------------------------------------------------------------------
(* remove, clearAll and readAll. *)

RemoveCall(p, k) ==
  /\ proc[p].pc = "idle"
  /\ Become(p, [Idle EXCEPT !.pc = "remove_lock", !.key = k])
  /\ UNCHANGED <<dir, disk, lock, promised>>

RemoveLock(p) == Locked(p, "remove_lock", "remove")

\* Mutant: the directory is not synced after the unlink.
RemoveUnsynced(p) ==
  /\ proc[p].pc = "remove"
  /\ \/ /\ dir[proc[p].key].v # Absent
        /\ dir' = [dir EXCEPT ![proc[p].key] = Missing]
        /\ disk' = [disk EXCEPT ![proc[p].key] = @ \union {Missing}]
        /\ promised' = [promised EXCEPT ![proc[p].key] = {Absent}]
     \/ SameFiles
  /\ Return(p)

\* unlink fails when there is no such file, or for another reason: the call
\* returns at once.
Remove(p) ==
  /\ proc[p].pc = "remove"
  /\ \/ /\ dir[proc[p].key].v # Absent
        /\ SetEntry(proc[p].key, Missing) /\ Goto(p, "sync_dir") /\ UNCHANGED lock
     \/ SameFiles /\ Return(p)

ClearCall(p) ==
  /\ proc[p].pc = "idle"
  /\ Become(p, [Idle EXCEPT !.pc = "clear_lock", !.left = ClearKeys])
  /\ UNCHANGED <<dir, disk, lock, promised>>

ClearLock(p) == Locked(p, "clear_lock", "clear")

\* The result of unlink is not looked at.
ClearKey(p) ==
  /\ proc[p].pc = "clear"
  /\ \E k \in proc[p].left :
       /\ \/ dir[k].v # Absent /\ SetEntry(k, Missing)
          \/ SameFiles
       /\ Become(p, [proc[p] EXCEPT !.left = @ \ {k}])
  /\ UNCHANGED lock

ClearDone(p) ==
  /\ proc[p].pc = "clear" /\ proc[p].left = {}
  /\ Goto(p, "sync_dir")
  /\ UNCHANGED <<dir, disk, lock, promised>>

ReadAllCall(p) ==
  /\ proc[p].pc = "idle"
  /\ Become(p, [Idle EXCEPT !.pc = "read_lock", !.left = Keys])
  /\ UNCHANGED <<dir, disk, lock, promised>>

\* Mutant: the files are read without the lock.
ReadLockNot(p) == proc[p].pc = "read_lock" /\ Goto(p, "read") /\ UNCHANGED <<dir, disk, lock, promised>>

ReadLock(p) == Locked(p, "read_lock", "read")

ReadKey(p) ==
  /\ proc[p].pc = "read"
  /\ \E k \in proc[p].left :
       Become(p, [proc[p] EXCEPT !.left = @ \ {k}, !.snap = [@ EXCEPT ![k] = dir[k]]])
  /\ UNCHANGED <<dir, disk, lock, promised>>

ReadDone(p) ==
  /\ proc[p].pc = "read" /\ proc[p].left = {}
  /\ Return(p)
  /\ SameFiles

-----------------------------------------------------------------------------
(* Faults. *)

Kill(p) ==
  /\ proc[p].pc # "idle"
  /\ lock' = IF lock = p THEN Nobody ELSE lock
  /\ Become(p, Idle)
  /\ SameFiles

PowerLoss ==
  /\ dir' \in [Keys -> Entries]
  /\ \A k \in Keys : \E e \in disk[k] : dir'[k] = Survivor(e)
  /\ disk' = [k \in Keys |-> {dir'[k]}]
  /\ lock' = Nobody
  /\ proc' = [p \in Procs |-> Idle]
  /\ promised' = [k \in Keys |-> {Now'[k]}]

Step(p) ==
  \/ \E k \in Keys : \/ \E v \in Values : PutWrite(p, k, v)
                     \/ RemoveCall(p, k)
  \/ PutSync(p) \/ PutLock(p) \/ PutRename(p)
  \/ RemoveLock(p) \/ Remove(p)
  \/ ClearCall(p) \/ ClearLock(p) \/ ClearKey(p) \/ ClearDone(p)
  \/ ReadAllCall(p) \/ ReadLock(p) \/ ReadKey(p) \/ ReadDone(p)
  \/ SyncDir(p) \/ Kill(p)

ParamsNext == (\E p \in Procs : Step(p)) \/ PowerLoss

ParamsSpec == ParamsInit /\ [][ParamsNext]_paramsVars

-----------------------------------------------------------------------------
(* Properties. *)

PutPcs == {"put_sync", "put_lock", "put_rename"}
LockedPcs == {"put_rename", "remove", "clear", "read", "sync_dir"}
Pcs == PutPcs \union LockedPcs \union {"idle", "remove_lock", "clear_lock", "read_lock"}

ParamsTypeOK ==
  /\ dir \in [Keys -> Entries]
  /\ disk \in [Keys -> SUBSET Entries]
  /\ lock \in Procs \union {Nobody}
  /\ proc \in [Procs -> [pc : Pcs, key : Keys \union {Absent}, file : Entries,
                         left : SUBSET Keys, snap : [Keys -> Entries]]]
  /\ promised \in [Keys -> SUBSET (Values \union {Absent})]

\* The store is a map that loses power well: every key then has its value or
\* the one it was being given, whole, wherever put, remove and clearAll stop.
Map == INSTANCE ParamMap WITH now <- Now, may <- MayBe
ImplementsMap == Map!MapSpec

\* What a put or remove that returned success has stored is what every loss of
\* power leaves, until the next change of the key begins: neither another call, nor
\* one that fails half way or whose process is killed, may undo the promise
\* (fsync before rename, fsync_dir after it, inside the lock).
ReturnedIsDurable == \A k \in Keys : promised[k] # {} => MayBe[k] = promised[k]

\* readAll sees all parameters as they were at one moment.
SnapshotConsistent ==
  \A p \in Procs : proc[p].pc = "read" =>
    \A k \in Keys \ proc[p].left : proc[p].snap[k] = dir[k]
=============================================================================
