------------------------------ MODULE Updated -------------------------------
(* selfdrive/updated.py prepares a release in an overlay over BASEDIR and      *)
(* copies it to FINALIZED; launch_chffrplus.sh swaps the copy in at boot.      *)
(* What was not synced may be lost with the power, in any combination; a       *)
(* rename is in the journal, and two renames are in order.                     *)
EXTENDS Integers

CONSTANTS
  Releases,       \* releases of the upstream branch, from 1
  Os(_),          \* the operating system a release needs
  TestedBranch    \* is_tested_branch: local work is not looked for

ASSUME UpdatedAssumption ==
  /\ Releases \subseteq Nat \ {0} /\ 1 \in Releases
  /\ TestedBranch \in BOOLEAN

VARIABLES
  base,       \* what is at BASEDIR
  work,       \* history: local commits in BASEDIR that are not pushed
  seen, stored,  \* the other files, as seen by processes and as on the disk
  merged,     \* the merged view of the overlay, while it is mounted
  os, slot,   \* the running operating system and the one that agnos.py would
              \* find whole in the other slot
  upstream,   \* the newest release
  upd,        \* the launcher and then the updater: program counter and locals
  quiet       \* the device is left alone from now on (for the liveness property)

updatedVars == <<base, work, seen, stored, merged, os, slot, upstream, upd, quiet>>

None == 0           \* no such directory
Partial == -1       \* some files of a tree, or of two
Trees == Releases \union {None, Partial}
Oses == {Os(v) : v \in Releases}

\* .overlay_init: absent, newer than everything in BASEDIR/.git, or not.
Marks == {"none", "fresh", "stale"}

\* init: BASEDIR/.overlay_init; flag: FINALIZED/.overlay_consistent; relic: the
\* flag of the last swap, now in BASEDIR; final: FINALIZED; old: old_openpilot exists.
Files == [init : Marks, flag : BOOLEAN, relic : BOOLEAN, final : Trees, old : BOOLEAN]

AgnosPcs == {"check_os", "installer", "installing", "clear_hash", "set_active"}
LauncherPcs == {"boot", "swap", "swapping"} \union AgnosPcs
LoopPcs == {"start", "idle", "overlay", "sync", "flag", "sync_flag", "clear", "clearing", "touch",
            "mount", "check", "fetched", "reset", "resetting", "os_update", "flash", "flashing",
            "copy", "copying"}

\* to and then: the argument of set_consistent_flag and what follows its call.
Locals == [pc : LauncherPcs \union LoopPcs, saved : BOOLEAN, target : Releases, to : BOOLEAN,
           then : LoopPcs \union {""}]

UpdatedInit ==
  /\ base = 1 /\ work = "none"
  /\ seen = [init |-> "none", flag |-> FALSE, relic |-> FALSE, final |-> None, old |-> FALSE]
  /\ stored = seen
  /\ merged = None
  /\ os = Os(1) /\ slot \in Oses \union {Partial}
  /\ upstream = 1
  /\ upd = [pc |-> "boot", saved |-> FALSE, target |-> 1, to |-> FALSE, then |-> ""]
  /\ quiet = FALSE

Jump(pc) == upd' = [upd EXCEPT !.pc = pc]
At(pc) == upd.pc = pc
World == <<work, upstream, quiet>>

-----------------------------------------------------------------------------
(* launch_chffrplus.sh, launch and tici_init, with agnos.py and its user        *)
(* interface.                                                                   *)

\* The update in these files would be swapped in at the next boot.
Swappable(f) == f.init = "fresh" /\ f.flag /\ ~f.old

Launch ==
  /\ At("boot") /\ base # None
  /\ Jump(IF Swappable(seen) THEN "swap" ELSE "check_os")
  /\ UNCHANGED <<World, base, seen, stored, merged, os, slot>>

\* mv $BASEDIR old_openpilot
MoveBase ==
  /\ At("swap")
  /\ base' = None
  /\ work' = "none"
  /\ seen' = [seen EXCEPT !.old = TRUE, !.init = "none", !.relic = FALSE] /\ stored' = seen'
  /\ Jump("swapping")
  /\ UNCHANGED <<merged, os, slot, upstream, quiet>>

\* mv finalized $BASEDIR, and the launcher starts over. The new tree has the flag
\* and may have a copy of .overlay_init.
MoveFinal ==
  /\ At("swapping")
  /\ base' = seen.final
  /\ \E i \in Marks :
       seen' = [seen EXCEPT !.final = None, !.flag = FALSE, !.relic = seen.flag, !.init = i]
  /\ stored' = seen'
  /\ Jump("boot")
  /\ UNCHANGED <<World, merged, os, slot>>

NeedsOs(tree) == tree \notin Releases \/ Os(tree) # os

\* /VERSION, and agnos.py --verify if it is not the one this release needs.
CheckOs ==
  /\ At("check_os")
  /\ Jump(IF ~NeedsOs(base) THEN "start" ELSE IF slot = Os(base) THEN "clear_hash" ELSE "installer")
  /\ UNCHANGED <<World, base, seen, stored, merged, os, slot>>

\* swap: clear the hashes that verify, then switch slots, and reboot. The slot
\* that is left does not verify if swap cleared its hashes in its time.
ClearHash ==
  /\ At("clear_hash")
  /\ slot' = Partial
  /\ Jump("set_active")
  /\ UNCHANGED <<World, base, seen, stored, merged, os>>

SetActive ==
  /\ At("set_active")
  /\ os' = Os(base) /\ slot' \in {os, Partial}
  /\ Jump("boot")
  /\ UNCHANGED <<World, base, seen, stored, merged>>

\* The driver starts the installation: agnos.py --swap.
Install ==
  /\ At("installer")
  /\ IF slot = Os(base) THEN Jump("clear_hash") /\ UNCHANGED slot
                        ELSE Jump("installing") /\ slot' = Partial
  /\ UNCHANGED <<World, base, seen, stored, merged, os>>

InstallDone ==
  /\ At("installing")
  /\ slot' = Os(base)
  /\ Jump("clear_hash")
  /\ UNCHANGED <<World, base, seen, stored, merged, os>>

\* agnos.py fails.
AgnosFails ==
  /\ ~quiet
  /\ \/ At("check_os") /\ NeedsOs(base)
     \/ upd.pc \in {"installing", "clear_hash", "set_active"}
  /\ Jump("installer")
  /\ UNCHANGED <<World, base, seen, stored, merged, os, slot>>

\* The driver reboots, or the installer ends and the launcher goes on to the
\* manager, on the wrong operating system.
LeaveInstaller ==
  /\ At("installer") /\ ~quiet
  /\ Jump("boot") \/ Jump("start")
  /\ UNCHANGED <<World, base, seen, stored, merged, os, slot>>

-----------------------------------------------------------------------------
(* updated.py, main. *)

Start ==
  /\ At("start")
  /\ seen' = [seen EXCEPT !.init = "none"]
  /\ Jump("idle")
  /\ UNCHANGED <<World, base, stored, merged, os, slot>>

\* A turn of the loop while offroad; check_git_saved.
LoopTurn ==
  /\ At("idle")
  /\ upd' = [upd EXCEPT !.pc = "overlay", !.saved = TestedBranch \/ work = "none"]
  /\ UNCHANGED <<World, base, seen, stored, merged, os, slot>>

\* set_consistent_flag(to); then.
SetFlag(to, then) == upd' = [upd EXCEPT !.pc = "sync", !.to = to, !.then = then]

Sync ==
  /\ \/ At("sync") /\ Jump("flag")
     \/ At("sync_flag") /\ Jump(upd.then)
  /\ stored' = seen
  /\ UNCHANGED <<World, base, seen, merged, os, slot>>

WriteFlag ==
  /\ At("flag")
  /\ seen' = [seen EXCEPT !.flag = upd.to]
  /\ Jump("sync_flag")
  /\ UNCHANGED <<World, base, stored, merged, os, slot>>

\* Mutant: the staging area is emptied and the flag goes with it.
InitOverlayUnflagged ==
  /\ At("overlay")
  /\ Jump(IF seen.init = "fresh" THEN "check" ELSE "touch")
  /\ UNCHANGED <<World, base, seen, stored, merged, os, slot>>

\* init_overlay: keep an overlay that is younger than .git.
InitOverlay ==
  /\ At("overlay")
  /\ IF seen.init = "fresh" THEN Jump("check") ELSE SetFlag(FALSE, "clear")
  /\ UNCHANGED <<World, base, seen, stored, merged, os, slot>>

\* Mutant: the backup of the last swap is kept.
ClearStagingKeepsBackup ==
  \/ /\ At("clear")
     /\ seen' = [seen EXCEPT !.final = Partial]
     /\ merged' = None
     /\ Jump("clearing")
     /\ UNCHANGED <<World, base, stored, os, slot>>
  \/ /\ At("clearing")
     /\ seen' = [seen EXCEPT !.final = None]
     /\ Jump("touch")
     /\ UNCHANGED <<World, base, stored, merged, os, slot>>

\* umount and rmtree of STAGING_ROOT, which holds FINALIZED and the backup.
ClearStaging ==
  \/ /\ At("clear")
     /\ seen' = [seen EXCEPT !.final = IF @ = None THEN None ELSE Partial]
     /\ merged' = None
     /\ Jump("clearing")
     /\ UNCHANGED <<World, base, stored, os, slot>>
  \/ /\ At("clearing")
     /\ seen' = [seen EXCEPT !.final = None, !.old = FALSE]
     /\ Jump("touch")
     /\ UNCHANGED <<World, base, stored, merged, os, slot>>

TouchInit ==
  /\ At("touch")
  /\ seen' = [seen EXCEPT !.init = "fresh", !.relic = FALSE]
  /\ Jump("mount")
  /\ UNCHANGED <<World, base, stored, merged, os, slot>>

MountOverlay ==
  /\ At("mount")
  /\ stored' = seen
  /\ merged' = base
  /\ Jump("check")
  /\ UNCHANGED <<World, base, seen, os, slot>>

\* check_for_update, and the conditions under which a fetch follows.
NoFetch ==
  /\ At("check")
  /\ Jump("idle")
  /\ UNCHANGED <<World, base, seen, stored, merged, os, slot>>

Fetch ==
  /\ At("check") /\ upd.saved
  /\ upd' = [upd EXCEPT !.pc = "fetched", !.target = upstream]
  /\ UNCHANGED <<World, base, seen, stored, merged, os, slot>>

\* A new version, some other news that is finalized too, or nothing.
CompareVersions ==
  /\ At("fetched")
  /\ IF merged # upd.target THEN Jump("reset")
     ELSE SetFlag(FALSE, "copy") \/ Jump("idle")
  /\ UNCHANGED <<World, base, seen, stored, merged, os, slot>>

\* git reset, clean and submodule update in the merged view. A view whose lower
\* layer has changed stays what it is: undefined.
ResetMerged ==
  /\ At("reset")
  /\ merged' = Partial
  /\ Jump("resetting")
  /\ UNCHANGED <<World, base, seen, stored, os, slot>>

ResetDone ==
  /\ At("resetting")
  /\ merged' = IF seen.init = "fresh" THEN upd.target ELSE Partial
  /\ Jump("os_update")
  /\ UNCHANGED <<World, base, seen, stored, os, slot>>

\* handle_agnos_update, and the first call of finalize_update.
HandleAgnos ==
  /\ At("os_update")
  /\ IF NeedsOs(merged) THEN SetFlag(FALSE, "flash") ELSE SetFlag(FALSE, "copy")
  /\ UNCHANGED <<World, base, seen, stored, merged, os, slot>>

FlashSlot ==
  \/ /\ At("flash") /\ slot' = Partial /\ Jump("flashing")
     /\ UNCHANGED <<World, base, seen, stored, merged, os>>
  \/ /\ At("flashing")
     /\ slot' = IF merged \in Releases THEN Os(merged) ELSE Partial
     /\ SetFlag(FALSE, "copy")
     /\ UNCHANGED <<World, base, seen, stored, merged, os>>

\* Mutant: the flag goes up with the last file, before anything is synced.
CopyFinalFlagged ==
  \/ /\ At("copy")
     /\ seen' = [seen EXCEPT !.final = Partial, !.flag = seen.relic]
     /\ Jump("copying")
     /\ UNCHANGED <<World, base, stored, merged, os, slot>>
  \/ /\ At("copying")
     /\ seen' = [seen EXCEPT !.final = merged, !.flag = TRUE]
     /\ SetFlag(TRUE, "idle")
     /\ UNCHANGED <<World, base, stored, merged, os, slot>>

\* finalize_update: rmtree and copytree, git reset, and the flag. A relic in
\* BASEDIR is in the merged view too, and would be copied.
CopyFinal ==
  \/ /\ At("copy")
     /\ seen' = [seen EXCEPT !.final = Partial, !.flag = seen.relic]
     /\ Jump("copying")
     /\ UNCHANGED <<World, base, stored, merged, os, slot>>
  \/ /\ At("copying")
     /\ seen' = [seen EXCEPT !.final = merged]
     /\ SetFlag(TRUE, "idle")
     /\ UNCHANGED <<World, base, stored, merged, os, slot>>

\* The steps that run other programs or copy files may raise.
Raising == {"overlay", "clear", "clearing", "touch", "mount", "check", "fetched", "reset", "resetting",
            "os_update", "flash", "flashing", "copy", "copying"}

Fail ==
  /\ upd.pc \in Raising /\ ~quiet
  /\ seen' = [seen EXCEPT !.init = "none"]
  /\ Jump("idle")
  /\ UNCHANGED <<World, base, stored, merged, os, slot>>

Launcher == Launch \/ MoveBase \/ MoveFinal \/ CheckOs \/ ClearHash \/ SetActive \/ InstallDone

Work ==
  \/ Start \/ Sync \/ WriteFlag \/ InitOverlay \/ ClearStaging \/ TouchInit \/ MountOverlay
  \/ CompareVersions \/ ResetMerged \/ ResetDone \/ HandleAgnos \/ FlashSlot \/ CopyFinal

-----------------------------------------------------------------------------
(* The rest of the world. *)

Running == upd.pc \in LoopPcs \ {"start"}

\* The updater is started again by the manager, without a boot.
RestartUpdater ==
  /\ Running /\ ~quiet
  /\ Jump("start")
  /\ UNCHANGED <<World, base, seen, stored, merged, os, slot>>

\* What a loss of power leaves: each file as on the disk or as it was last seen;
\* a tree that differs may be there in part, and the flag is inside it.
Survives(f) ==
  /\ f.init \in {seen.init, stored.init} /\ f.old \in {seen.old, stored.old}
  /\ f.flag \in {seen.flag, stored.flag} /\ f.relic \in {seen.relic, stored.relic}
  /\ f.final \in {seen.final, stored.final} \union (IF seen.final # stored.final THEN {Partial} ELSE {})
  /\ f.flag => f.final # None

\* The zeros over the last hash may not be on the disk yet.
PowerCut ==
  /\ ~quiet
  /\ seen' \in {f \in Files : Survives(f)}
  /\ stored' = seen'
  /\ slot' \in {slot} \union (IF At("set_active") THEN {Os(base)} ELSE {})
  /\ merged' = None
  /\ Jump("boot")
  /\ UNCHANGED <<World, base, os>>

Reboot ==
  /\ At("idle")
  /\ stored' = seen /\ merged' = None
  /\ Jump("boot")
  /\ UNCHANGED <<World, base, seen, os, slot>>

Release ==
  /\ ~quiet
  /\ \E v \in Releases : v = upstream + 1 /\ upstream' = v
  /\ UNCHANGED <<base, work, seen, stored, merged, os, slot, upd, quiet>>

\* Between check_git_saved and the new .overlay_init a commit escapes both.
InWindow ==
  \/ upd.pc \in {"overlay", "clear", "clearing", "touch"}
  \/ upd.pc \in {"sync", "flag", "sync_flag"} /\ upd.then = "clear"

Aged(i) == IF i = "fresh" THEN "stale" ELSE i

\* Somebody commits to BASEDIR, which is the lower layer of the overlay.
Commit ==
  /\ Running /\ ~quiet
  /\ work' = IF InWindow /\ upd.saved /\ work # "kept" THEN "window" ELSE "kept"
  /\ seen' = [seen EXCEPT !.init = Aged(@)] /\ stored' = [stored EXCEPT !.init = Aged(@)]
  /\ merged' = IF merged = None THEN None ELSE Partial
  /\ UNCHANGED <<base, os, slot, upstream, upd, quiet>>

Push ==
  /\ Running
  /\ work' = "none"
  /\ UNCHANGED <<base, seen, stored, merged, os, slot, upstream, upd, quiet>>

LeaveAlone ==
  /\ ~quiet /\ work = "none"
  /\ quiet' = TRUE
  /\ UNCHANGED <<base, work, seen, stored, merged, os, slot, upstream, upd>>

UpdatedNext ==
  \/ Launcher \/ Install \/ AgnosFails \/ LeaveInstaller
  \/ Work \/ LoopTurn \/ Fetch \/ NoFetch \/ Fail
  \/ RestartUpdater \/ PowerCut \/ Reboot
  \/ Release \/ Commit \/ Push \/ LeaveAlone

\* Programs go on; the device is rebooted and online now and then, and the driver
\* sits through the installation that the launcher asks for.
UpdatedFairness ==
  /\ WF_updatedVars(Launcher \/ Work)
  /\ SF_updatedVars(LoopTurn) /\ SF_updatedVars(Fetch) /\ SF_updatedVars(Reboot)
  /\ WF_updatedVars(NoFetch) /\ WF_updatedVars(Install)

UpdatedSpec == UpdatedInit /\ [][UpdatedNext]_updatedVars /\ UpdatedFairness

-----------------------------------------------------------------------------
(* Properties. *)

UpdatedTypeOK ==
  /\ base \in Releases \union {None}
  /\ work \in {"none", "kept", "window"}
  /\ seen \in Files /\ stored \in Files
  /\ merged \in Trees
  /\ os \in Oses /\ slot \in Oses \union {Partial}
  /\ upstream \in Releases
  /\ upd \in Locals
  /\ quiet \in BOOLEAN

Boots(f) == f.final \in Releases /\ Os(f.final) \in {os, slot, Os(base)}

\* Whenever the power goes, an update the launcher would then swap in is a whole
\* release, and the operating system it needs runs already or is ready in the
\* other slot; or it is the one that BASEDIR needs too, where somebody has left
\* the installer and the wrong one runs.
SwappableBoots == \A f \in Files : Survives(f) /\ Swappable(f) => Boots(f)

\* Whenever the power goes, the launcher leaves BASEDIR alone if it has local
\* commits, unless they were made between check_git_saved and .overlay_init.
LocalWorkKept ==
  work = "kept" /\ ~TestedBranch => \A f \in Files : Survives(f) => ~Swappable(f)

\* A device that is left alone, and rebooted and online now and then, ends up
\* running the newest release, whatever failures, power cuts and half-done
\* updates came before, in agnos.py too; unless one cut fell between the two
\* moves of the swap. A switch of operating systems that was cut short takes the
\* driver, who then has to sit through an installation.
UpdateArrives == quiet ~> (base = upstream \/ base = None)
=============================================================================
