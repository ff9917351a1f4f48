---------------------------- MODULE ParamsProofs ----------------------------
(***************************************************************************)
(* What holds of the parameter store for every set of processes, keys and    *)
(* values: the two invariants the run checks, and that it is the map of      *)
(* ParamMap whatever is killed and whenever the power goes.                  *)
(***************************************************************************)
EXTENDS Params, TLAPS

Records == [pc : Pcs, key : Keys \union {Absent}, file : Entries,
            left : SUBSET Keys, snap : [Keys -> Entries]]

\* A call that names a key names one of the store; a file that is written has
\* a value, and is on the disk before it takes part in a rename; readAll begins
\* with nothing read, clearAll has no key.
CallOK(r) ==
  /\ r.pc \in PutPcs \union {"remove_lock", "remove"} => r.key \in Keys
  /\ r.pc \in PutPcs => r.file.v \in Values
  /\ r.pc \in {"put_lock", "put_rename"} => r.file.safe
  /\ r.pc \in {"remove_lock", "remove"} => r.file = Missing
  /\ r.pc \in {"clear_lock", "clear"} => r.key = Absent
  /\ r.pc = "read_lock" => r.left = Keys

\* What has been read inside the lock is what is there, and so is what put or
\* remove has written.
SeenOK(r) ==
  /\ r.pc = "read" => \A k \in Keys \ r.left : r.snap[k] = dir[k]
  /\ r.pc = "sync_dir" /\ r.key \in Keys => dir[r.key].v = r.file.v

CallsOK == \A p \in Procs : CallOK(proc[p])
AllSeenOK == \A p \in Procs : SeenOK(proc[p])

\* The lock is held by the one call that is inside it.
LockHeld == \A p \in Procs : proc[p].pc \in LockedPcs => lock = p

\* No loss of power leaves a torn file, and what is seen may be what it leaves.
DiskWhole ==
  \A k \in Keys : dir[k] \in disk[k] /\ \A e \in disk[k] : e.safe /\ e.v # Torn

\* What was promised is what is seen, and the disk can lose nothing of it.
PromisesKept ==
  \A k \in Keys : promised[k] # {} => disk[k] = {dir[k]} /\ promised[k] = {dir[k].v}

ParamsInv == ParamsTypeOK /\ CallsOK /\ AllSeenOK /\ LockHeld /\ DiskWhole /\ PromisesKept

-----------------------------------------------------------------------------
(* Lemmas. *)

LEMMA MissingIsWhole == Missing \in Entries /\ Missing.safe /\ Missing.v # Torn
  BY ParamsAssumption DEF Missing, Entries, Contents

LEMMA IdleIsFine == Idle \in Records /\ CallOK(Idle) /\ SeenOK(Idle) /\ Idle.pc = "idle"
<1>1. [k \in Keys |-> Missing] \in [Keys -> Entries]
  BY MissingIsWhole
<1>2. Idle \in Records
  BY <1>1, MissingIsWhole DEF Idle, Records, Pcs, PutPcs, LockedPcs
<1> QED BY <1>2 DEF Idle, CallOK, SeenOK, PutPcs

\* A step of p that leaves the files alone keeps the invariant if it keeps the
\* lock in order.
LEMMA TurnKeeps ==
  ASSUME ParamsInv, NEW p \in Procs, NEW r \in Records, Become(p, r),
         SameFiles, CallOK(r), SeenOK(r),
         lock' \in Procs \union {Nobody},
         r.pc \in LockedPcs => lock' = p,
         \A q \in Procs \ {p} : lock = q => lock' = q
  PROVE  ParamsInv'
<1> USE DEF Become, SameFiles
<1>0. /\ proc \in [Procs -> Records] /\ proc'[p] = r
      /\ \A q \in Procs \ {p} : proc'[q] = proc[q]
  BY DEF ParamsInv, ParamsTypeOK, Records
<1>1. ParamsTypeOK'
  <2>1. proc' \in [Procs -> Records]
    BY <1>0
  <2> QED BY <2>1 DEF ParamsInv, ParamsTypeOK, Records
<1>2. CallsOK'
  BY <1>0 DEF ParamsInv, CallsOK
<1>3. AllSeenOK'
  BY <1>0 DEF ParamsInv, AllSeenOK, SeenOK
<1>4. LockHeld'
  BY <1>0 DEF ParamsInv, LockHeld
<1>5. DiskWhole'
  BY DEF ParamsInv, DiskWhole
<1>6. PromisesKept'
  BY DEF ParamsInv, PromisesKept
<1> QED BY <1>1, <1>2, <1>3, <1>4, <1>5, <1>6 DEF ParamsInv

\* So does the change of an entry inside the lock, for a whole file.
LEMMA ChangeKeeps ==
  ASSUME ParamsInv, NEW p \in Procs, NEW r \in Records, Become(p, r),
         NEW k \in Keys, NEW e \in Entries, SetEntry(k, e), e.safe, e.v # Torn,
         UNCHANGED lock, CallOK(r), proc[p].pc \in LockedPcs,
         r.pc # "read", r.pc = "sync_dir" => r.key = k /\ r.file = e
  PROVE  ParamsInv'
<1> USE DEF Become, SetEntry
<1>0. /\ proc \in [Procs -> Records] /\ proc'[p] = r
      /\ \A q \in Procs \ {p} : proc'[q] = proc[q]
  BY DEF ParamsInv, ParamsTypeOK, Records
<1>1. ParamsTypeOK'
  <2>1. proc' \in [Procs -> Records]
    BY <1>0
  <2>2. dir' \in [Keys -> Entries]
    BY DEF ParamsInv, ParamsTypeOK
  <2>3. disk' \in [Keys -> SUBSET Entries]
    BY DEF ParamsInv, ParamsTypeOK
  <2>4. promised' \in [Keys -> SUBSET (Values \union {Absent})]
    BY DEF ParamsInv, ParamsTypeOK
  <2> QED BY <2>1, <2>2, <2>3, <2>4 DEF ParamsInv, ParamsTypeOK, Records
<1>2. CallsOK'
  BY <1>0 DEF ParamsInv, CallsOK
<1>3. AllSeenOK'
  <2>1. ASSUME NEW q \in Procs \ {p} PROVE proc[q].pc \notin {"read", "sync_dir"}
    BY ParamsAssumption DEF ParamsInv, LockHeld, LockedPcs
  <2>2. dir'[k] = e
    BY DEF ParamsInv, ParamsTypeOK
  <2> QED BY <1>0, <2>1, <2>2 DEF AllSeenOK, SeenOK
<1>4. LockHeld'
  BY <1>0 DEF ParamsInv, LockHeld
<1>5. DiskWhole'
  BY DEF ParamsInv, ParamsTypeOK, DiskWhole
<1>6. PromisesKept'
  BY DEF ParamsInv, ParamsTypeOK, PromisesKept
<1> QED BY <1>1, <1>2, <1>3, <1>4, <1>5, <1>6 DEF ParamsInv

\* When the entries on the disk are those that are seen and all calls that hold
\* the lock are over.
LEMMA SettleKeeps ==
  ASSUME dir' \in [Keys -> Entries], disk' = [k \in Keys |-> {dir'[k]}],
         \A k \in Keys : dir'[k].safe /\ dir'[k].v # Torn
  PROVE  /\ disk' \in [Keys -> SUBSET Entries] /\ DiskWhole'
         /\ \A k \in Keys : disk'[k] = {dir'[k]}
<1>1. \A k \in Keys : disk'[k] = {dir'[k]}
  OBVIOUS
<1> QED BY <1>1 DEF DiskWhole

-----------------------------------------------------------------------------
(* The invariant. *)

LEMMA InitKeeps == ParamsInit => ParamsInv
<1> SUFFICES ASSUME ParamsInit PROVE ParamsInv
  OBVIOUS
<1>1. dir \in [Keys -> Entries] /\ \A k \in Keys : dir[k].safe /\ dir[k].v # Torn
  <2>1. [v : Values \union {Absent}, safe : {TRUE}] \subseteq Entries
    BY DEF Entries, Contents
  <2>2. dir \in [Keys -> [v : Values \union {Absent}, safe : {TRUE}]]
    BY DEF ParamsInit
  <2> QED BY <2>1, <2>2, ParamsAssumption
<1>2. disk \in [Keys -> SUBSET Entries] /\ \A k \in Keys : disk[k] = {dir[k]}
  BY <1>1 DEF ParamsInit
<1>3. proc \in [Procs -> Records] /\ \A p \in Procs : proc[p] = Idle
  BY IdleIsFine DEF ParamsInit
<1>4. promised \in [Keys -> SUBSET (Values \union {Absent})] /\ \A k \in Keys : promised[k] = {dir[k].v}
  <2>1. \A k \in Keys : dir[k].v \in Values \union {Absent}
    BY <1>1 DEF Entries, Contents
  <2> QED BY <2>1 DEF ParamsInit, Now
<1>8. ParamsTypeOK
  BY <1>1, <1>2, <1>3, <1>4 DEF ParamsInit, ParamsTypeOK, Records
<1>5. CallsOK /\ AllSeenOK
  BY <1>3, IdleIsFine DEF CallsOK, AllSeenOK
<1>6. LockHeld
  BY <1>3, IdleIsFine DEF LockHeld, LockedPcs
<1>7. DiskWhole /\ PromisesKept
  BY <1>1, <1>2, <1>4 DEF DiskWhole, PromisesKept
<1> QED BY <1>8, <1>5, <1>6, <1>7 DEF ParamsInv

\* A call that takes the lock finds it free.
LEMMA LockedKeeps ==
  ASSUME ParamsInv, NEW p \in Procs, NEW from, NEW to \in Pcs, Locked(p, from, to),
         CallOK([proc[p] EXCEPT !.pc = to]), SeenOK([proc[p] EXCEPT !.pc = to]),
         from \notin LockedPcs
  PROVE  ParamsInv'
<1> DEFINE r == [proc[p] EXCEPT !.pc = to]
<1>1. proc[p] \in Records
  BY DEF ParamsInv, ParamsTypeOK, Records
<1>2. r \in Records
  BY <1>1 DEF Records
<1>3. Become(p, r) /\ SameFiles /\ lock = Nobody /\ lock' = p
  BY DEF Locked, Goto, SameFiles
<1>6. \A q \in Procs \ {p} : lock # q
  BY <1>3, ParamsAssumption
<1> HIDE DEF r
<1>7. CallOK(r) /\ SeenOK(r)
  BY DEF r
<1> QED BY <1>2, <1>3, <1>6, <1>7, TurnKeeps

\* A step of p that leaves the files and the lock alone.
LEMMA QuietKeeps ==
  ASSUME ParamsInv, NEW p \in Procs, NEW r \in Records, Become(p, r),
         SameFiles, UNCHANGED lock, CallOK(r), SeenOK(r),
         r.pc \in LockedPcs => proc[p].pc \in LockedPcs
  PROVE  ParamsInv'
<1>1. lock' \in Procs \union {Nobody}
  BY DEF ParamsInv, ParamsTypeOK
<1>2. r.pc \in LockedPcs => lock' = p
  BY DEF ParamsInv, LockHeld
<1>3. \A q \in Procs \ {p} : lock = q => lock' = q
  OBVIOUS
<1> QED BY <1>1, <1>2, <1>3, TurnKeeps

\* The end of a call frees the lock.
LEMMA ReleaseKeeps ==
  ASSUME ParamsInv, NEW p \in Procs, Become(p, Idle), SameFiles,
         lock' = IF lock = p THEN Nobody ELSE lock
  PROVE  ParamsInv'
<1>1. lock' \in Procs \union {Nobody} /\ \A q \in Procs \ {p} : lock = q => lock' = q
  BY DEF ParamsInv, ParamsTypeOK
<1>2. Idle.pc \notin LockedPcs
  BY IdleIsFine DEF LockedPcs
<1> QED BY <1>1, <1>2, IdleIsFine, TurnKeeps

\* So does a call that ends inside the lock with the files as they are.
LEMMA ReturnKeeps ==
  ASSUME ParamsInv, NEW p \in Procs, proc[p].pc \in LockedPcs, SameFiles, Return(p)
  PROVE  ParamsInv'
<1>1. lock = p
  BY DEF ParamsInv, LockHeld
<1> QED BY <1>1, ReleaseKeeps DEF Return

LEMMA ChangeActionKeeps ==
  ASSUME ParamsInv, NEW p \in Procs, PutRename(p) \/ Remove(p) \/ ClearKey(p)
  PROVE  ParamsInv'
<1>1. proc[p] \in Records
  BY DEF ParamsInv, ParamsTypeOK, Records
<1>2. CallOK(proc[p])
  BY DEF ParamsInv, CallsOK
<1> DEFINE synced == [proc[p] EXCEPT !.pc = "sync_dir"]
<1>3. /\ synced \in Records /\ synced.pc = "sync_dir"
      /\ synced.key = proc[p].key /\ synced.file = proc[p].file
  BY <1>1 DEF Records, Pcs, LockedPcs
<1>4. CallOK(synced)
  BY <1>3 DEF CallOK, PutPcs
<1>5. proc[p].pc \in LockedPcs
  BY DEF PutRename, Remove, ClearKey, LockedPcs
<1>6. CASE SameFiles /\ Return(p)
  BY <1>5, <1>6, ReturnKeeps
<1>7. CASE PutRename(p) /\ ~(SameFiles /\ Return(p))
  <2>1. /\ SetEntry(proc[p].key, proc[p].file) /\ Become(p, synced)
        /\ UNCHANGED lock /\ proc[p].pc = "put_rename"
    BY <1>7 DEF PutRename, Goto
  <2>2. proc[p].key \in Keys /\ proc[p].file \in Entries
    BY <1>1, <1>2, <2>1 DEF CallOK, Records, PutPcs
  <2>3. proc[p].file.safe /\ proc[p].file.v # Torn
    BY <1>2, <2>1, ParamsAssumption DEF CallOK, PutPcs
  <2> HIDE DEF synced
  <2> QED BY <1>3, <1>4, <1>5, <2>1, <2>2, <2>3, ChangeKeeps
<1>8. CASE Remove(p) /\ ~(SameFiles /\ Return(p))
  <2>1. /\ SetEntry(proc[p].key, Missing) /\ Become(p, synced)
        /\ UNCHANGED lock /\ proc[p].pc = "remove"
    BY <1>8 DEF Remove, Goto
  <2>2. proc[p].key \in Keys /\ proc[p].file = Missing
    BY <1>2, <2>1 DEF CallOK
  <2> HIDE DEF synced
  <2> QED BY <1>3, <1>4, <1>5, <2>1, <2>2, MissingIsWhole, ChangeKeeps
<1>9. CASE ClearKey(p)
  <2>1. PICK k \in proc[p].left :
          /\ SetEntry(k, Missing) \/ SameFiles
          /\ Become(p, [proc[p] EXCEPT !.left = @ \ {k}])
    BY <1>9 DEF ClearKey
  <2> DEFINE r == [proc[p] EXCEPT !.left = @ \ {k}]
  <2>2. r \in Records /\ r.pc = "clear" /\ r.key = proc[p].key /\ proc[p].pc = "clear" /\ k \in Keys
    BY <1>1, <1>9 DEF Records, ClearKey
  <2>3. CallOK(r) /\ SeenOK(r)
    BY <1>2, <2>2 DEF CallOK, SeenOK, PutPcs
  <2>4. UNCHANGED lock /\ Become(p, r)
    BY <1>9, <2>1 DEF ClearKey
  <2> HIDE DEF r
  <2>5. CASE SameFiles
    BY <1>5, <2>2, <2>3, <2>4, <2>5, QuietKeeps
  <2>6. CASE SetEntry(k, Missing)
    BY <1>5, <2>2, <2>3, <2>4, <2>6, MissingIsWhole, ChangeKeeps
  <2> QED BY <2>1, <2>5, <2>6
<1> QED BY <1>6, <1>7, <1>8, <1>9

LEMMA SyncDirKeeps ==
  ASSUME ParamsInv, NEW p \in Procs, SyncDir(p)
  PROVE  ParamsInv'
<1>1. lock = p /\ proc[p].pc = "sync_dir" /\ proc[p].pc \in LockedPcs
  BY DEF SyncDir, ParamsInv, LockHeld, LockedPcs
<1>2. CASE UNCHANGED <<disk, promised>>
  BY <1>1, <1>2, ReturnKeeps DEF SyncDir, SameFiles
<1>3. CASE ~UNCHANGED <<disk, promised>>
  <2>0. /\ proc \in [Procs -> Records] /\ proc'[p] = Idle /\ proc' \in [Procs -> Records]
        /\ \A q \in Procs \ {p} : proc'[q] = proc[q]
    BY IdleIsFine DEF ParamsInv, ParamsTypeOK, Records, SyncDir, Return, Become
  <2>1. /\ dir' = dir /\ lock' = Nobody /\ disk' = [k \in Keys |-> {dir'[k]}]
        /\ promised' = [k \in Keys |-> IF k = proc[p].key THEN {proc[p].file.v} ELSE promised[k]]
    BY <1>3 DEF SyncDir, Return
  <2>2. dir' \in [Keys -> Entries] /\ \A k \in Keys : dir'[k].safe /\ dir'[k].v # Torn
    BY <2>1 DEF ParamsInv, ParamsTypeOK, DiskWhole
  <2>3. disk' \in [Keys -> SUBSET Entries] /\ DiskWhole' /\ \A k \in Keys : disk'[k] = {dir'[k]}
    BY <2>1, <2>2, SettleKeeps
  <2>4. proc[p].key \in Keys => proc[p].file.v = dir[proc[p].key].v
    BY <1>1 DEF ParamsInv, AllSeenOK, SeenOK
  <2>5. promised' \in [Keys -> SUBSET (Values \union {Absent})]
    <3>1. \A k \in Keys : dir[k].v \in Values \union {Absent}
      BY <2>1, <2>2 DEF Entries, Contents
    <3> QED BY <2>1, <2>4, <3>1 DEF ParamsInv, ParamsTypeOK
  <2>6. PromisesKept'
    BY <2>1, <2>3, <2>4 DEF ParamsInv, PromisesKept
  <2>7. ParamsTypeOK'
    BY <2>0, <2>1, <2>2, <2>3, <2>5 DEF ParamsTypeOK, Records
  <2>8. CallsOK' /\ AllSeenOK'
    BY <2>0, <2>1, IdleIsFine DEF ParamsInv, CallsOK, AllSeenOK, SeenOK
  <2>9. LockHeld'
    <3>1. ASSUME NEW q \in Procs \ {p} PROVE proc[q].pc \notin LockedPcs
      BY <1>1 DEF ParamsInv, LockHeld
    <3> QED BY <2>0, <3>1, IdleIsFine DEF LockHeld, LockedPcs
  <2> QED BY <2>3, <2>6, <2>7, <2>8, <2>9 DEF ParamsInv
<1> QED BY <1>2, <1>3

LEMMA PowerLossKeeps == ParamsInv /\ PowerLoss => ParamsInv'
<1> SUFFICES ASSUME ParamsInv, PowerLoss PROVE ParamsInv'
  OBVIOUS
<1>1. dir' \in [Keys -> Entries] /\ disk' = [k \in Keys |-> {dir'[k]}]
  BY DEF PowerLoss
<1>2. \A k \in Keys : dir'[k].safe /\ dir'[k].v # Torn
  BY DEF PowerLoss, ParamsInv, DiskWhole, Survivor
<1>3. disk' \in [Keys -> SUBSET Entries] /\ DiskWhole' /\ \A k \in Keys : disk'[k] = {dir'[k]}
  BY <1>1, <1>2, SettleKeeps
<1>8. promised' = [k \in Keys |-> {dir'[k].v}] /\ PromisesKept'
  BY <1>3 DEF PowerLoss, Now, PromisesKept
<1>9. promised' \in [Keys -> SUBSET (Values \union {Absent})]
  <2>1. \A k \in Keys : dir'[k].v \in Values \union {Absent}
    BY <1>1, <1>2 DEF Entries, Contents
  <2> QED BY <1>8, <2>1
<1>4. proc' \in [Procs -> Records] /\ \A p \in Procs : proc'[p] = Idle
  BY IdleIsFine DEF PowerLoss
<1>5. ParamsTypeOK'
  BY <1>1, <1>3, <1>4, <1>9 DEF PowerLoss, ParamsTypeOK, Records
<1>6. CallsOK' /\ AllSeenOK'
  BY <1>4, IdleIsFine DEF CallsOK, AllSeenOK, CallOK, SeenOK
<1>7. LockHeld'
  BY <1>4, IdleIsFine DEF LockHeld, LockedPcs
<1> QED BY <1>3, <1>5, <1>6, <1>7, <1>8 DEF ParamsInv

LEMMA StepKeeps ==
  ASSUME ParamsInv, NEW p \in Procs, Step(p)
  PROVE  ParamsInv'
<1>1. proc[p] \in Records
  BY DEF ParamsInv, ParamsTypeOK, Records
<1>2. CallOK(proc[p]) /\ SeenOK(proc[p])
  BY DEF ParamsInv, CallsOK, AllSeenOK
<1>3. proc[p].pc \in LockedPcs => lock = p
  BY DEF ParamsInv, LockHeld
<1>4. ASSUME NEW k \in Keys, NEW v \in Values, PutWrite(p, k, v) PROVE ParamsInv'
  <2> DEFINE r == [Idle EXCEPT !.pc = "put_sync", !.key = k, !.file = [v |-> v, safe |-> FALSE]]
  <2>1. r \in Records
    BY IdleIsFine DEF Records, Pcs, PutPcs, Entries, Contents
  <2>2. CallOK(r) /\ SeenOK(r) /\ r.pc \notin LockedPcs
    BY DEF Idle, CallOK, SeenOK, LockedPcs
  <2>3. Become(p, r) /\ SameFiles /\ UNCHANGED lock
    BY <1>4 DEF PutWrite, SameFiles
  <2> HIDE DEF r
  <2> QED BY <2>1, <2>2, <2>3, QuietKeeps
<1>5. ASSUME NEW k \in Keys, RemoveCall(p, k) PROVE ParamsInv'
  <2> DEFINE r == [Idle EXCEPT !.pc = "remove_lock", !.key = k]
  <2>1. r \in Records
    BY IdleIsFine DEF Records, Pcs
  <2>2. CallOK(r) /\ SeenOK(r) /\ r.pc \notin LockedPcs
    BY DEF Idle, CallOK, SeenOK, LockedPcs, PutPcs
  <2>3. Become(p, r) /\ SameFiles /\ UNCHANGED lock
    BY <1>5 DEF RemoveCall, SameFiles
  <2> HIDE DEF r
  <2> QED BY <2>1, <2>2, <2>3, QuietKeeps
<1>6. CASE PutSync(p)
  <2>1. proc[p].pc = "put_sync" /\ SameFiles /\ UNCHANGED lock
    BY <1>6 DEF PutSync, SameFiles
  <2>2. CASE Become(p, Idle)
    BY <2>1, <2>2, IdleIsFine, QuietKeeps DEF LockedPcs
  <2>3. CASE Become(p, [proc[p] EXCEPT !.pc = "put_lock", !.file = [proc[p].file EXCEPT !.safe = TRUE]])
    <3> DEFINE f == [proc[p].file EXCEPT !.safe = TRUE]
               r == [proc[p] EXCEPT !.pc = "put_lock", !.file = f]
    <3>1. f \in Entries /\ f.safe /\ f.v = proc[p].file.v
      BY <1>1 DEF Records, Entries
    <3> HIDE DEF f
    <3>2. r \in Records /\ r.pc = "put_lock" /\ r.file = f /\ r.key = proc[p].key
      BY <1>1, <3>1 DEF Records, Pcs, PutPcs
    <3>3. r.key \in Keys /\ f.v \in Values
      BY <1>2, <2>1, <3>1, <3>2 DEF CallOK, PutPcs
    <3>4. CallOK(r)
      BY <3>1, <3>2, <3>3 DEF CallOK
    <3>5. SeenOK(r) /\ r.pc \notin LockedPcs /\ Become(p, r)
      BY <2>3, <3>2 DEF SeenOK, LockedPcs, f
    <3> HIDE DEF r
    <3> QED BY <2>1, <3>2, <3>4, <3>5, QuietKeeps
  <2> QED BY <1>6, <2>2, <2>3 DEF PutSync
<1>7. CASE PutLock(p)
  <2>1. CallOK([proc[p] EXCEPT !.pc = "put_rename"]) /\ SeenOK([proc[p] EXCEPT !.pc = "put_rename"])
    BY <1>1, <1>2, <1>7 DEF PutLock, Locked, CallOK, SeenOK, PutPcs, Records
  <2> QED BY <1>7, <2>1, LockedKeeps DEF PutLock, Pcs, PutPcs, LockedPcs
<1>8. CASE RemoveLock(p)
  <2>1. CallOK([proc[p] EXCEPT !.pc = "remove"]) /\ SeenOK([proc[p] EXCEPT !.pc = "remove"])
    BY <1>1, <1>2, <1>8 DEF RemoveLock, Locked, CallOK, SeenOK, PutPcs, Records
  <2> QED BY <1>8, <2>1, LockedKeeps DEF RemoveLock, Pcs, LockedPcs
<1>9. CASE ClearLock(p)
  <2>1. CallOK([proc[p] EXCEPT !.pc = "clear"]) /\ SeenOK([proc[p] EXCEPT !.pc = "clear"])
    BY <1>1, <1>2, <1>9 DEF ClearLock, Locked, CallOK, SeenOK, PutPcs, Records
  <2> QED BY <1>9, <2>1, LockedKeeps DEF ClearLock, Pcs, LockedPcs
<1>10. CASE PutRename(p) \/ Remove(p) \/ ClearKey(p)
  BY <1>10, ChangeActionKeeps
<1>11. CASE ClearCall(p)
  <2> DEFINE r == [Idle EXCEPT !.pc = "clear_lock", !.left = ClearKeys]
  <2>1. r \in Records
    BY IdleIsFine, ParamsAssumption DEF Records, Pcs
  <2>2. CallOK(r) /\ SeenOK(r) /\ r.pc \notin LockedPcs
    BY DEF Idle, CallOK, SeenOK, LockedPcs, PutPcs
  <2>3. Become(p, r) /\ SameFiles /\ UNCHANGED lock
    BY <1>11 DEF ClearCall, SameFiles
  <2> HIDE DEF r
  <2> QED BY <2>1, <2>2, <2>3, QuietKeeps
<1>12. CASE ClearDone(p)
  <2> DEFINE r == [proc[p] EXCEPT !.pc = "sync_dir"]
  <2>1. r \in Records /\ r.pc = "sync_dir"
    BY <1>1 DEF Records, Pcs, LockedPcs
  <2>2. CallOK(r) /\ SeenOK(r)
    <3>1. r.key = proc[p].key /\ proc[p].key = Absent
      BY <1>1, <1>2, <1>12 DEF ClearDone, CallOK, Records
    <3> QED BY <2>1, <3>1, ParamsAssumption DEF CallOK, SeenOK, PutPcs
  <2>3. proc[p].pc \in LockedPcs /\ Become(p, r) /\ SameFiles /\ UNCHANGED lock
    BY <1>12 DEF ClearDone, Goto, LockedPcs, SameFiles
  <2> HIDE DEF r
  <2> QED BY <2>1, <2>2, <2>3, QuietKeeps
<1>13. CASE ReadAllCall(p)
  <2> DEFINE r == [Idle EXCEPT !.pc = "read_lock", !.left = Keys]
  <2>1. r \in Records
    BY IdleIsFine DEF Records, Pcs
  <2>2. CallOK(r) /\ SeenOK(r) /\ r.pc \notin LockedPcs
    BY DEF Idle, CallOK, SeenOK, LockedPcs, PutPcs
  <2>3. Become(p, r) /\ SameFiles /\ UNCHANGED lock
    BY <1>13 DEF ReadAllCall, SameFiles
  <2> HIDE DEF r
  <2> QED BY <2>1, <2>2, <2>3, QuietKeeps
<1>14. CASE ReadLock(p)
  <2>1. CallOK([proc[p] EXCEPT !.pc = "read"]) /\ SeenOK([proc[p] EXCEPT !.pc = "read"])
    BY <1>1, <1>2, <1>14 DEF ReadLock, Locked, CallOK, SeenOK, PutPcs, Records
  <2> QED BY <1>14, <2>1, LockedKeeps DEF ReadLock, Pcs, LockedPcs
<1>15. CASE ReadKey(p)
  <2>1. PICK k \in proc[p].left :
          Become(p, [proc[p] EXCEPT !.left = @ \ {k}, !.snap = [@ EXCEPT ![k] = dir[k]]])
    BY <1>15 DEF ReadKey
  <2> DEFINE s == [proc[p].snap EXCEPT ![k] = dir[k]]
             r == [proc[p] EXCEPT !.left = proc[p].left \ {k}, !.snap = s]
  <2>2. k \in Keys /\ dir[k] \in Entries /\ proc[p].snap \in [Keys -> Entries]
    BY <1>1 DEF Records, ParamsInv, ParamsTypeOK
  <2>3. s \in [Keys -> Entries] /\ s[k] = dir[k] /\ \A j \in Keys \ {k} : s[j] = proc[p].snap[j]
    BY <2>2
  <2> HIDE DEF s
  <2>4. /\ r \in Records /\ r.pc = proc[p].pc /\ proc[p].pc = "read"
        /\ r.left = proc[p].left \ {k} /\ r.snap = s
    BY <1>1, <1>15, <2>3 DEF Records, ReadKey
  <2>5. CallOK(r)
    BY <2>4 DEF CallOK, PutPcs
  <2>6. SeenOK(r)
    BY <1>2, <2>3, <2>4 DEF SeenOK
  <2>7. Become(p, r) /\ SameFiles /\ UNCHANGED lock
    BY <1>15, <2>1 DEF ReadKey, SameFiles, s
  <2> HIDE DEF r
  <2> QED BY <2>4, <2>5, <2>6, <2>7, QuietKeeps
<1>16. CASE ReadDone(p)
  BY <1>16, ReturnKeeps DEF ReadDone, LockedPcs
<1>17. CASE SyncDir(p)
  BY <1>17, SyncDirKeeps
<1>18. CASE Kill(p)
  BY <1>18, ReleaseKeeps DEF Kill
<1> QED BY <1>4, <1>5, <1>6, <1>7, <1>8, <1>9, <1>10, <1>11, <1>12, <1>13, <1>14, <1>15,
           <1>16, <1>17, <1>18 DEF Step

LEMMA NextKeeps == ParamsInv /\ [ParamsNext]_paramsVars => ParamsInv'
<1> SUFFICES ASSUME ParamsInv, [ParamsNext]_paramsVars PROVE ParamsInv'
  OBVIOUS
<1>1. ASSUME NEW p \in Procs, Step(p) PROVE ParamsInv'
  BY <1>1, StepKeeps
<1>2. CASE PowerLoss
  BY <1>2, PowerLossKeeps
<1>3. CASE UNCHANGED paramsVars
  BY <1>3 DEF paramsVars, ParamsInv, ParamsTypeOK, CallsOK, AllSeenOK, SeenOK, LockHeld, DiskWhole, PromisesKept
<1> QED BY <1>1, <1>2, <1>3 DEF ParamsNext

\* The parameters the store is made of keep their types, and the invariant above
\* holds, in every run of the store.
THEOREM ParamsInvariant == ParamsSpec => []ParamsInv
  BY InitKeeps, NextKeeps, PTL DEF ParamsSpec

LEMMA WholeSurvives == ASSUME NEW e, e.safe PROVE Survivor(e) = e
  BY DEF Survivor

\* What a put or remove that returned success has stored is what every loss of
\* power leaves, until the next change of the key begins (put, remove, clearAll):
\* also if a call before it failed at fsync_dir or was killed in the lock.
THEOREM DurableWhenReturned == ParamsSpec => []ReturnedIsDurable
<1>1. ParamsInv => ReturnedIsDurable
  <2> SUFFICES ASSUME ParamsInv, NEW k \in Keys, promised[k] # {}
               PROVE  {Survivor(e).v : e \in disk[k]} = promised[k]
    BY DEF ReturnedIsDurable, MayBe
  <2>1. disk[k] = {dir[k]} /\ promised[k] = {dir[k].v} /\ dir[k].safe
    BY DEF ParamsInv, PromisesKept, DiskWhole
  <2> QED BY <2>1, WholeSurvives
<1> QED BY <1>1, ParamsInvariant, PTL

\* readAll returns the parameters as they are at one moment.
THEOREM ReadAllConsistent == ParamsSpec => []SnapshotConsistent
<1>1. ParamsInv => SnapshotConsistent
  BY DEF ParamsInv, AllSeenOK, SeenOK, SnapshotConsistent
<1> QED BY <1>1, ParamsInvariant, PTL

\* The lock file excludes: two calls are never inside it at once.
THEOREM LockExcludes ==
  ParamsSpec => [](\A p, q \in Procs : proc[p].pc \in LockedPcs /\ proc[q].pc \in LockedPcs => p = q)
<1>1. ParamsInv => \A p, q \in Procs : proc[p].pc \in LockedPcs /\ proc[q].pc \in LockedPcs => p = q
  BY DEF ParamsInv, LockHeld
<1> QED BY <1>1, ParamsInvariant, PTL

-----------------------------------------------------------------------------
(* The store is the map of ParamMap.                                         *)

LEMMA InitMaps == ParamsInit => Map!MapInit
<1> SUFFICES ASSUME ParamsInit PROVE Map!MapInit
  OBVIOUS
<1>1. \A k \in Keys : dir[k].v \in Values \union {Absent} /\ dir[k].safe /\ disk[k] = {dir[k]}
  BY DEF ParamsInit
<1>2. Now \in [Keys -> Values \union {Absent}]
  BY <1>1 DEF Now
<1>3. \A k \in Keys : {Survivor(e).v : e \in disk[k]} = {Now[k]}
  BY <1>1, WholeSurvives DEF Now
<1> QED BY <1>2, <1>3 DEF Map!MapInit, MayBe

\* An entry that changes, changes in the map.
LEMMA ChangeMaps ==
  ASSUME ParamsInv, NEW k \in Keys, NEW e \in Entries, e.safe, e.v # Torn, SetEntry(k, e)
  PROVE  Map!MapNext
<1>1. dir' = [dir EXCEPT ![k] = e] /\ disk' = [disk EXCEPT ![k] = @ \union {e}]
  BY DEF SetEntry
<1>2. dir \in [Keys -> Entries] /\ disk \in [Keys -> SUBSET Entries]
  BY DEF ParamsInv, ParamsTypeOK
<1>3. Now' = [Now EXCEPT ![k] = e.v]
  BY <1>1, <1>2 DEF Now
<1>4. MayBe' = [MayBe EXCEPT ![k] = @ \union {e.v}]
  <2>1. {Survivor(d).v : d \in disk[k] \union {e}} = {Survivor(d).v : d \in disk[k]} \union {e.v}
    BY WholeSurvives
  <2>2. disk'[k] = disk[k] \union {e} /\ \A j \in Keys \ {k} : disk'[j] = disk[j]
    BY <1>1, <1>2
  <2> QED BY <2>1, <2>2 DEF MayBe
<1>5. e.v \in Values \union {Absent}
  BY DEF Entries, Contents
<1> QED BY <1>3, <1>4, <1>5 DEF Map!MapNext, Map!Change

LEMMA QuietMaps == UNCHANGED <<dir, disk>> => UNCHANGED Map!mapVars
  BY DEF Map!mapVars, Now, MayBe

LEMMA StepMaps ==
  ASSUME ParamsInv, NEW p \in Procs, Step(p)
  PROVE  Map!MapNext \/ UNCHANGED Map!mapVars
<1>1. proc[p] \in Records /\ CallOK(proc[p])
  BY DEF ParamsInv, ParamsTypeOK, Records, CallsOK
<1>2. CASE PutRename(p)
  <2>1. proc[p].pc = "put_rename" /\ (SameFiles \/ SetEntry(proc[p].key, proc[p].file))
    BY <1>2 DEF PutRename
  <2>2. proc[p].key \in Keys /\ proc[p].file \in Entries /\ proc[p].file.safe /\ proc[p].file.v # Torn
    BY <1>1, <2>1, ParamsAssumption DEF CallOK, Records, PutPcs
  <2> QED BY <2>1, <2>2, ChangeMaps, QuietMaps DEF SameFiles
<1>3. CASE Remove(p)
  <2>1. UNCHANGED <<dir, disk>> \/ SetEntry(proc[p].key, Missing)
    BY <1>3 DEF Remove, SameFiles
  <2>2. proc[p].key \in Keys
    BY <1>1, <1>3 DEF Remove, CallOK
  <2> QED BY <2>1, <2>2, MissingIsWhole, ChangeMaps, QuietMaps
<1>4. CASE ClearKey(p)
  <2>1. PICK k \in Keys : UNCHANGED <<dir, disk>> \/ SetEntry(k, Missing)
    BY <1>1, <1>4 DEF ClearKey, SameFiles, Records
  <2> QED BY <2>1, MissingIsWhole, ChangeMaps, QuietMaps
<1>5. CASE SyncDir(p) /\ disk' # disk
  <2>1. dir' = dir /\ disk' = [k \in Keys |-> {dir[k]}]
    BY <1>5 DEF SyncDir
  <2>2. \A k \in Keys : dir[k].safe
    BY DEF ParamsInv, DiskWhole
  <2>3. Now' = Now
    BY <2>1 DEF Now
  <2>4. \A k \in Keys : {Survivor(e).v : e \in disk'[k]} = {Now[k]}
    BY <2>1, <2>2, WholeSurvives DEF Now
  <2>5. MayBe' = [k \in Keys |-> {Now[k]}]
    BY <2>4 DEF MayBe
  <2> QED BY <2>3, <2>5 DEF Map!MapNext, Map!Settle
<1>6. ASSUME \/ \E k \in Keys : (\E v \in Values : PutWrite(p, k, v)) \/ RemoveCall(p, k)
             \/ PutSync(p) \/ PutLock(p) \/ RemoveLock(p)
             \/ ClearCall(p) \/ ClearLock(p) \/ ClearDone(p)
             \/ ReadAllCall(p) \/ ReadLock(p) \/ ReadKey(p) \/ ReadDone(p) \/ Kill(p)
             \/ SyncDir(p) /\ disk' = disk
      PROVE  UNCHANGED <<dir, disk>>
  BY <1>6 DEF PutWrite, RemoveCall, PutSync, PutLock, RemoveLock, ClearCall, ClearLock, ClearDone,
              ReadAllCall, ReadLock, ReadKey, ReadDone, Kill, Locked, SyncDir, SameFiles
<1> QED BY <1>2, <1>3, <1>4, <1>5, <1>6, QuietMaps DEF Step

LEMMA PowerLossMaps == ParamsInv /\ PowerLoss => Map!MapNext
<1> SUFFICES ASSUME ParamsInv, PowerLoss PROVE Map!MapNext
  OBVIOUS
<1>1. \A k \in Keys : dir'[k] \in disk[k] /\ dir'[k].safe /\ Survivor(dir'[k]) = dir'[k]
  BY WholeSurvives DEF PowerLoss, ParamsInv, DiskWhole
<1>2. dir' \in [Keys -> Entries] /\ disk' = [k \in Keys |-> {dir'[k]}]
  BY DEF PowerLoss
<1>3. Now' \in [Keys -> Values \union {Absent}]
  <2>1. \A k \in Keys : dir'[k].v \in Values \union {Absent}
    BY <1>1, <1>2 DEF ParamsInv, DiskWhole, Entries, Contents
  <2> QED BY <2>1 DEF Now
<1>4. \A k \in Keys : Now'[k] \in MayBe[k]
  BY <1>1 DEF Now, MayBe
<1>5. MayBe' = [k \in Keys |-> {Now'[k]}]
  <2>1. \A k \in Keys : {Survivor(e).v : e \in disk'[k]} = {Now'[k]}
    BY <1>1, <1>2 DEF Now
  <2> QED BY <2>1 DEF MayBe
<1> QED BY <1>3, <1>4, <1>5 DEF Map!MapNext, Map!LosePower

\* put, remove and clearAll, interleaved in any way, killed anywhere and cut off
\* by any loss of power, change the store as single steps of a map do, and what
\* a loss of power leaves is a value the key had or was being given.
THEOREM ParamsRefineMap == ParamsSpec => ImplementsMap
<1>1. ParamsInit => Map!MapInit
  BY InitMaps
<1>2. ParamsInv /\ [ParamsNext]_paramsVars => [Map!MapNext]_(Map!mapVars)
  <2> SUFFICES ASSUME ParamsInv, [ParamsNext]_paramsVars
               PROVE  Map!MapNext \/ UNCHANGED Map!mapVars
    OBVIOUS
  <2>1. ASSUME NEW p \in Procs, Step(p) PROVE Map!MapNext \/ UNCHANGED Map!mapVars
    BY <2>1, StepMaps
  <2>2. CASE PowerLoss
    BY <2>2, PowerLossMaps
  <2>3. CASE UNCHANGED paramsVars
    BY <2>3, QuietMaps DEF paramsVars
  <2> QED BY <2>1, <2>2, <2>3 DEF ParamsNext
<1> QED BY <1>1, <1>2, ParamsInvariant, PTL DEF ParamsSpec, ImplementsMap, Map!MapSpec
=============================================================================
