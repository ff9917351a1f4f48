---------------------------- MODULE UpdatedProofs ---------------------------
(***************************************************************************)
(* What holds of the updater and the launcher for any releases and operating *)
(* systems: whatever a loss of power leaves boots, and local commits are not *)
(* swapped away.                                                             *)
(***************************************************************************)
EXTENDS Updated, TLAPS

Fresh == seen.init = "fresh" \/ stored.init = "fresh"
FlagUp == seen.flag \/ stored.flag
Ready(tree) == tree \in Releases /\ Os(tree) \in {os, slot, Os(base)}

\* The pcs of set_consistent_flag, and what such a call is for.
Flagging == upd.pc \in {"sync", "flag", "sync_flag"}
For(then) == Flagging /\ upd.then = then

\* What is behind a fetch in a turn of the loop.
AfterFetch ==
  \/ upd.pc \in {"fetched", "reset", "resetting", "os_update", "flash", "flashing", "copy", "copying"}
  \/ For("flash") \/ For("copy") \/ For("idle")

Launching == upd.pc \in LauncherPcs
Busy == upd.pc \in LoopPcs \ {"start", "idle"}

\* The flag is raised at the end of a turn and lowered before anything else.
FlagCalls ==
  Flagging =>
    /\ upd.then \in {"clear", "copy", "flash", "idle"}
    /\ upd.to <=> upd.then = "idle"
    /\ upd.pc = "sync_flag" /\ ~upd.to => ~seen.flag

\* While FINALIZED, the other slot or the marks change the flag is down, on the
\* disk too.
Low ==
  \/ upd.pc \in {"clear", "clearing", "touch", "mount", "flash", "flashing", "copy", "copying"}
  \/ upd.pc \in {"sync", "flag"} /\ upd.to
LowFlag == Low => ~FlagUp

\* A flag over a mark that is fresh, without a backup of the last swap, stands
\* for a whole release that can run.
FlagMeansReady ==
  Fresh /\ FlagUp /\ ~(seen.old /\ stored.old) => seen.final = stored.final /\ Ready(seen.final)

\* It is raised over one.
FinalReady ==
  upd.to /\ Fresh =>
    /\ upd.pc = "sync" => Ready(seen.final)
    /\ upd.pc = "flag" => seen.final = stored.final /\ Ready(seen.final)

\* Under a fresh mark the merged view is a whole release, and one that can run
\* unless its operating system is being seen to.
MergedReady ==
  seen.init = "fresh" =>
    /\ \/ upd.pc \in {"idle", "overlay", "check", "fetched", "copy", "copying"}
       \/ For("copy") \/ For("idle")
       => Ready(merged)
    /\ upd.pc \in {"os_update", "flash", "flashing"} \/ For("flash") => merged \in Releases

\* The disk has no fresh mark that was taken away since.
MarksAgree ==
  \/ upd.pc \in {"flash", "flashing", "copy", "copying"}
  \/ Flagging /\ upd.to
  => (stored.init = "fresh" => seen.init = "fresh")

\* The merged view under which FINALIZED is filled has no flag in it.
NoRelic ==
  \/ upd.pc \in {"mount", "check"} \/ AfterFetch
  \/ upd.pc \in {"idle", "overlay"} /\ seen.init = "fresh"
  => ~seen.relic

\* The launcher finds on the disk what it sees, and looks after the operating
\* system when there is nothing to swap in.
LauncherFiles ==
  /\ Launching => stored = seen
  /\ upd.pc \in AgnosPcs => ~Swappable(seen)

\* What is launched is a whole release, and so is what is swapped in.
BaseWhole ==
  /\ upd.pc \notin {"boot", "swapping"} => base \in Releases
  /\ upd.pc \in {"swap", "swapping"} => seen.final \in Releases

SwapInv ==
  /\ UpdatedTypeOK /\ FlagCalls /\ LowFlag /\ FlagMeansReady /\ FinalReady
  /\ MergedReady /\ MarksAgree /\ NoRelic /\ LauncherFiles /\ BaseWhole

\* Local commits make the mark stale. A fresh one comes with the flag down, and
\* the flag is not raised in a turn that found local commits.
FetchSaved == AfterFetch => upd.saved
CommitsSeen ==
  work = "kept" /\ ~TestedBranch =>
    /\ InWindow => ~upd.saved
    /\ ~Fresh \/ (~FlagUp /\ ~(upd.saved /\ Busy))

UpdatedInv == SwapInv /\ FetchSaved /\ CommitsSeen

-----------------------------------------------------------------------------
(* What the helpers of the actions do, field by field.                       *)

LEMMA JumpFields ==
  ASSUME upd \in Locals, NEW pc \in LauncherPcs \union LoopPcs, Jump(pc)
  PROVE  /\ upd' \in Locals
         /\ upd'.pc = pc /\ upd'.saved = upd.saved /\ upd'.target = upd.target
         /\ upd'.to = upd.to /\ upd'.then = upd.then
  BY DEF Jump, Locals

LEMMA SetFlagFields ==
  ASSUME upd \in Locals, NEW to \in BOOLEAN, NEW then \in LoopPcs, SetFlag(to, then)
  PROVE  /\ upd' \in Locals
         /\ upd'.pc = "sync" /\ upd'.saved = upd.saved /\ upd'.target = upd.target
         /\ upd'.to = to /\ upd'.then = then
<1>1. "sync" \in LoopPcs
  BY DEF LoopPcs
<1> QED BY <1>1 DEF SetFlag, Locals

-----------------------------------------------------------------------------
(* Every action keeps the invariant: what it does first, then each part.     *)

LEMMA LaunchKeeps == ASSUME UpdatedInv, Launch PROVE UpdatedInv'
<1>1. upd \in Locals /\ seen \in Files /\ stored \in Files /\ base \in Trees /\ merged \in Trees
      /\ upd.to \in BOOLEAN /\ upd.then \in LoopPcs \union {""} /\ seen.final \in Trees
  BY DEF UpdatedInv, SwapInv, UpdatedTypeOK, Locals, Files, Trees, None
<1>2. /\ upd.pc = "boot" /\ base # None /\ upd' \in Locals /\ upd'.pc = IF Swappable(seen) THEN "swap" ELSE "check_os"
      /\ upd'.saved = upd.saved /\ upd'.to = upd.to /\ upd'.then = upd.then
  BY <1>1, JumpFields DEF Launch, At, LoopPcs, LauncherPcs, AgnosPcs
<1>3. UNCHANGED <<seen, base, work, stored, merged, os, slot, upstream, quiet>>
  BY DEF Launch, World
<1> USE <1>1, <1>2, <1>3 DEF UpdatedInv, SwapInv
<1>4. UpdatedTypeOK'
  BY UpdatedAssumption DEF UpdatedTypeOK, Trees, None, Partial, Oses, Locals, BaseWhole
<1>5. FlagCalls'
  BY DEF FlagCalls, Flagging, LoopPcs, LauncherPcs, AgnosPcs
<1>6. LowFlag'
  BY DEF LowFlag, Low, FlagUp, FlagCalls, Flagging, NoRelic, AfterFetch, LoopPcs, LauncherPcs, AgnosPcs
<1>7. FlagMeansReady'
  BY DEF FlagMeansReady, LowFlag, Low, Fresh, FlagUp, FinalReady, Ready, Survives, LauncherFiles,
     Launching, LauncherPcs, AgnosPcs, Swappable
<1>8. FinalReady'
  BY DEF FinalReady, FlagCalls, Flagging, Fresh, Ready, MergedReady, MarksAgree, For
<1>9. MergedReady'
  BY UpdatedAssumption DEF MergedReady, BaseWhole, For, Flagging, FlagCalls, Ready, NeedsOs, Locals,
     LoopPcs, UpdatedTypeOK
<1>10. MarksAgree'
  BY DEF MarksAgree, Flagging, FlagCalls
<1>11. NoRelic'
  BY DEF NoRelic, AfterFetch, For, Flagging, FlagCalls
<1>12. LauncherFiles'
  BY DEF LauncherFiles, Launching, LauncherPcs, AgnosPcs, LoopPcs, Swappable
<1>13. BaseWhole'
  BY UpdatedAssumption DEF BaseWhole, FlagMeansReady, Fresh, FlagUp, Ready, Swappable, FlagCalls,
     Flagging, LauncherFiles, Launching, LauncherPcs, LoopPcs, UpdatedTypeOK, None
<1>14. FetchSaved'
  BY DEF FetchSaved, AfterFetch, For, Flagging, FlagCalls, LoopPcs, LauncherPcs, AgnosPcs
<1>15. CommitsSeen'
  BY DEF CommitsSeen, FetchSaved, AfterFetch, For, FlagCalls, Flagging, InWindow, Busy, Fresh, FlagUp,
     LowFlag, Low, NoRelic, LoopPcs, LauncherPcs, AgnosPcs, Survives
<1> QED BY <1>4, <1>5, <1>6, <1>7, <1>8, <1>9, <1>10, <1>11, <1>12, <1>13, <1>14, <1>15

LEMMA MoveBaseKeeps == ASSUME UpdatedInv, MoveBase PROVE UpdatedInv'
<1>1. upd \in Locals /\ seen \in Files /\ stored \in Files /\ base \in Trees /\ merged \in Trees
      /\ upd.to \in BOOLEAN /\ upd.then \in LoopPcs \union {""} /\ seen.final \in Trees
  BY DEF UpdatedInv, SwapInv, UpdatedTypeOK, Locals, Files, Trees, None
<1>2. /\ upd.pc = "swap" /\ upd' \in Locals /\ upd'.pc = "swapping"
      /\ upd'.saved = upd.saved /\ upd'.to = upd.to /\ upd'.then = upd.then
  BY <1>1, JumpFields DEF MoveBase, At, LoopPcs, LauncherPcs, AgnosPcs
<1>3. /\ seen' \in Files
      /\ seen'.init = "none" /\ seen'.flag = seen.flag /\ seen'.final = seen.final /\ seen'.old = TRUE
  BY <1>1 DEF MoveBase, Files, Marks
<1>4. base' = None /\ work' = "none" /\ stored' = seen' /\ UNCHANGED <<merged, os, slot, upstream, quiet>>
  BY DEF MoveBase
<1> USE <1>1, <1>2, <1>3, <1>4 DEF UpdatedInv, SwapInv
<1>5. UpdatedTypeOK'
  BY UpdatedAssumption DEF UpdatedTypeOK, Trees, None, Partial, Oses, Locals, BaseWhole
<1>6. FlagCalls'
  BY DEF FlagCalls, Flagging, LoopPcs, LauncherPcs, AgnosPcs
<1>7. LowFlag'
  BY DEF LowFlag, Low, FlagUp, FlagCalls, Flagging, NoRelic, AfterFetch, LoopPcs, LauncherPcs, AgnosPcs
<1>8. FlagMeansReady'
  BY DEF FlagMeansReady, LowFlag, Low, Fresh, FlagUp, FinalReady, Ready, Survives, LauncherFiles,
     Launching, LauncherPcs, AgnosPcs, Swappable
<1>9. FinalReady'
  BY DEF FinalReady, FlagCalls, Flagging, Fresh, Ready, MergedReady, MarksAgree, For
<1>10. MergedReady'
  BY UpdatedAssumption DEF MergedReady, BaseWhole, For, Flagging, FlagCalls, Ready, NeedsOs, Locals,
     LoopPcs, UpdatedTypeOK
<1>11. MarksAgree'
  BY DEF MarksAgree, Flagging, FlagCalls
<1>12. NoRelic'
  BY DEF NoRelic, AfterFetch, For, Flagging, FlagCalls
<1>13. LauncherFiles'
  BY DEF LauncherFiles, Launching, LauncherPcs, AgnosPcs, LoopPcs, Swappable
<1>14. BaseWhole'
  BY UpdatedAssumption DEF BaseWhole, FlagMeansReady, Fresh, FlagUp, Ready, Swappable, FlagCalls,
     Flagging, LauncherFiles, Launching, LauncherPcs, LoopPcs, UpdatedTypeOK, None
<1>15. FetchSaved'
  BY DEF FetchSaved, AfterFetch, For, Flagging, FlagCalls, LoopPcs, LauncherPcs, AgnosPcs
<1>16. CommitsSeen'
  BY DEF CommitsSeen, FetchSaved, AfterFetch, For, FlagCalls, Flagging, InWindow, Busy, Fresh, FlagUp,
     LowFlag, Low, NoRelic, LoopPcs, LauncherPcs, AgnosPcs, Survives
<1> QED BY <1>5, <1>6, <1>7, <1>8, <1>9, <1>10, <1>11, <1>12, <1>13, <1>14, <1>15, <1>16

LEMMA MoveFinalKeeps == ASSUME UpdatedInv, MoveFinal PROVE UpdatedInv'
<1>1. upd \in Locals /\ seen \in Files /\ stored \in Files /\ base \in Trees /\ merged \in Trees
      /\ upd.to \in BOOLEAN /\ upd.then \in LoopPcs \union {""} /\ seen.final \in Trees
  BY DEF UpdatedInv, SwapInv, UpdatedTypeOK, Locals, Files, Trees, None
<1>2. /\ upd.pc = "swapping" /\ upd' \in Locals /\ upd'.pc = "boot"
      /\ upd'.saved = upd.saved /\ upd'.to = upd.to /\ upd'.then = upd.then
  BY <1>1, JumpFields DEF MoveFinal, At, LoopPcs, LauncherPcs, AgnosPcs
<1>3. /\ seen' \in Files /\ seen'.final = None /\ seen'.flag = FALSE
      /\ stored' = seen' /\ base' = seen.final
  <2>1. PICK i \in Marks : seen' = [seen EXCEPT !.final = None, !.flag = FALSE, !.relic = seen.flag, !.init = i]
    BY DEF MoveFinal
  <2> QED BY <1>1, <2>1 DEF MoveFinal, Files, Trees, None
<1>4. UNCHANGED <<work, merged, os, slot, upstream, quiet>>
  BY DEF MoveFinal, World
<1> USE <1>1, <1>2, <1>3, <1>4 DEF UpdatedInv, SwapInv
<1>5. UpdatedTypeOK'
  BY UpdatedAssumption DEF UpdatedTypeOK, Trees, None, Partial, Oses, Locals, BaseWhole
<1>6. FlagCalls'
  BY DEF FlagCalls, Flagging, LoopPcs, LauncherPcs, AgnosPcs
<1>7. LowFlag'
  BY DEF LowFlag, Low, FlagUp, FlagCalls, Flagging, NoRelic, AfterFetch, LoopPcs, LauncherPcs, AgnosPcs
<1>8. FlagMeansReady'
  BY DEF FlagMeansReady, LowFlag, Low, Fresh, FlagUp, FinalReady, Ready, Survives, LauncherFiles,
     Launching, LauncherPcs, AgnosPcs, Swappable
<1>9. FinalReady'
  BY DEF FinalReady, FlagCalls, Flagging, Fresh, Ready, MergedReady, MarksAgree, For
<1>10. MergedReady'
  BY UpdatedAssumption DEF MergedReady, BaseWhole, For, Flagging, FlagCalls, Ready, NeedsOs, Locals,
     LoopPcs, UpdatedTypeOK
<1>11. MarksAgree'
  BY DEF MarksAgree, Flagging, FlagCalls
<1>12. NoRelic'
  BY DEF NoRelic, AfterFetch, For, Flagging, FlagCalls
<1>13. LauncherFiles'
  BY DEF LauncherFiles, Launching, LauncherPcs, AgnosPcs, LoopPcs, Swappable
<1>14. BaseWhole'
  BY UpdatedAssumption DEF BaseWhole, FlagMeansReady, Fresh, FlagUp, Ready, Swappable, FlagCalls,
     Flagging, LauncherFiles, Launching, LauncherPcs, LoopPcs, UpdatedTypeOK, None
<1>15. FetchSaved'
  BY DEF FetchSaved, AfterFetch, For, Flagging, FlagCalls, LoopPcs, LauncherPcs, AgnosPcs
<1>16. CommitsSeen'
  BY DEF CommitsSeen, FetchSaved, AfterFetch, For, FlagCalls, Flagging, InWindow, Busy, Fresh, FlagUp,
     LowFlag, Low, NoRelic, LoopPcs, LauncherPcs, AgnosPcs, Survives
<1> QED BY <1>5, <1>6, <1>7, <1>8, <1>9, <1>10, <1>11, <1>12, <1>13, <1>14, <1>15, <1>16

LEMMA CheckOsKeeps == ASSUME UpdatedInv, CheckOs PROVE UpdatedInv'
<1>1. upd \in Locals /\ seen \in Files /\ stored \in Files /\ base \in Trees /\ merged \in Trees
      /\ upd.to \in BOOLEAN /\ upd.then \in LoopPcs \union {""} /\ seen.final \in Trees
  BY DEF UpdatedInv, SwapInv, UpdatedTypeOK, Locals, Files, Trees, None
<1>2. /\ upd.pc = "check_os" /\ upd' \in Locals /\ upd'.pc \in {"start", "clear_hash", "installer"}
      /\ upd'.saved = upd.saved /\ upd'.to = upd.to /\ upd'.then = upd.then
  BY <1>1, JumpFields DEF CheckOs, At, LoopPcs, LauncherPcs, AgnosPcs
<1>3. UNCHANGED <<base, seen, stored, merged, work, upstream, quiet>>
  BY DEF CheckOs, World
<1>4. UNCHANGED <<os, slot>>
  BY DEF CheckOs
<1> USE <1>1, <1>2, <1>3, <1>4 DEF UpdatedInv, SwapInv
<1>5. UpdatedTypeOK'
  BY UpdatedAssumption DEF UpdatedTypeOK, Trees, None, Partial, Oses, Locals, BaseWhole
<1>6. FlagCalls'
  BY DEF FlagCalls, Flagging, LoopPcs, LauncherPcs, AgnosPcs
<1>7. LowFlag'
  BY DEF LowFlag, Low, FlagUp, FlagCalls, Flagging, NoRelic, AfterFetch, LoopPcs, LauncherPcs, AgnosPcs
<1>8. FlagMeansReady'
  BY DEF FlagMeansReady, LowFlag, Low, Fresh, FlagUp, FinalReady, Ready, Survives, LauncherFiles,
     Launching, LauncherPcs, AgnosPcs, Swappable
<1>9. FinalReady'
  BY DEF FinalReady, FlagCalls, Flagging, Fresh, Ready, MergedReady, MarksAgree, For
<1>10. MergedReady'
  BY UpdatedAssumption DEF MergedReady, BaseWhole, For, Flagging, FlagCalls, Ready, NeedsOs, Locals,
     LoopPcs, UpdatedTypeOK
<1>11. MarksAgree'
  BY DEF MarksAgree, Flagging, FlagCalls
<1>12. NoRelic'
  BY DEF NoRelic, AfterFetch, For, Flagging, FlagCalls
<1>13. LauncherFiles'
  BY DEF LauncherFiles, Launching, LauncherPcs, AgnosPcs, LoopPcs, Swappable
<1>14. BaseWhole'
  BY UpdatedAssumption DEF BaseWhole, FlagMeansReady, Fresh, FlagUp, Ready, Swappable, FlagCalls,
     Flagging, LauncherFiles, Launching, LauncherPcs, LoopPcs, UpdatedTypeOK, None
<1>15. FetchSaved'
  BY DEF FetchSaved, AfterFetch, For, Flagging, FlagCalls, LoopPcs, LauncherPcs, AgnosPcs
<1>16. CommitsSeen'
  BY DEF CommitsSeen, FetchSaved, AfterFetch, For, FlagCalls, Flagging, InWindow, Busy, Fresh, FlagUp,
     LowFlag, Low, NoRelic, LoopPcs, LauncherPcs, AgnosPcs, Survives
<1> QED BY <1>5, <1>6, <1>7, <1>8, <1>9, <1>10, <1>11, <1>12, <1>13, <1>14, <1>15, <1>16

LEMMA ClearHashKeeps == ASSUME UpdatedInv, ClearHash PROVE UpdatedInv'
<1>1. upd \in Locals /\ seen \in Files /\ stored \in Files /\ base \in Trees /\ merged \in Trees
      /\ upd.to \in BOOLEAN /\ upd.then \in LoopPcs \union {""} /\ seen.final \in Trees
  BY DEF UpdatedInv, SwapInv, UpdatedTypeOK, Locals, Files, Trees, None
<1>2. /\ upd.pc = "clear_hash" /\ upd' \in Locals /\ upd'.pc = "set_active"
      /\ upd'.saved = upd.saved /\ upd'.to = upd.to /\ upd'.then = upd.then
  BY <1>1, JumpFields DEF ClearHash, At, LoopPcs, LauncherPcs, AgnosPcs
<1>3. UNCHANGED <<base, seen, stored, merged, work, upstream, quiet>>
  BY DEF ClearHash, World
<1>4. os' = os /\ slot' = Partial
  BY DEF ClearHash
<1> USE <1>1, <1>2, <1>3, <1>4 DEF UpdatedInv, SwapInv
<1>5. UpdatedTypeOK'
  BY UpdatedAssumption DEF UpdatedTypeOK, Trees, None, Partial, Oses, Locals, BaseWhole
<1>6. FlagCalls'
  BY DEF FlagCalls, Flagging, LoopPcs, LauncherPcs, AgnosPcs
<1>7. LowFlag'
  BY DEF LowFlag, Low, FlagUp, FlagCalls, Flagging, NoRelic, AfterFetch, LoopPcs, LauncherPcs, AgnosPcs
<1>8. FlagMeansReady'
  BY DEF FlagMeansReady, LowFlag, Low, Fresh, FlagUp, FinalReady, Ready, Survives, LauncherFiles,
     Launching, LauncherPcs, AgnosPcs, Swappable
<1>9. FinalReady'
  BY DEF FinalReady, FlagCalls, Flagging, Fresh, Ready, MergedReady, MarksAgree, For
<1>10. MergedReady'
  BY UpdatedAssumption DEF MergedReady, BaseWhole, For, Flagging, FlagCalls, Ready, NeedsOs, Locals,
     LoopPcs, UpdatedTypeOK
<1>11. MarksAgree'
  BY DEF MarksAgree, Flagging, FlagCalls
<1>12. NoRelic'
  BY DEF NoRelic, AfterFetch, For, Flagging, FlagCalls
<1>13. LauncherFiles'
  BY DEF LauncherFiles, Launching, LauncherPcs, AgnosPcs, LoopPcs, Swappable
<1>14. BaseWhole'
  BY UpdatedAssumption DEF BaseWhole, FlagMeansReady, Fresh, FlagUp, Ready, Swappable, FlagCalls,
     Flagging, LauncherFiles, Launching, LauncherPcs, LoopPcs, UpdatedTypeOK, None
<1>15. FetchSaved'
  BY DEF FetchSaved, AfterFetch, For, Flagging, FlagCalls, LoopPcs, LauncherPcs, AgnosPcs
<1>16. CommitsSeen'
  BY DEF CommitsSeen, FetchSaved, AfterFetch, For, FlagCalls, Flagging, InWindow, Busy, Fresh, FlagUp,
     LowFlag, Low, NoRelic, LoopPcs, LauncherPcs, AgnosPcs, Survives
<1> QED BY <1>5, <1>6, <1>7, <1>8, <1>9, <1>10, <1>11, <1>12, <1>13, <1>14, <1>15, <1>16

LEMMA SetActiveKeeps == ASSUME UpdatedInv, SetActive PROVE UpdatedInv'
<1>1. upd \in Locals /\ seen \in Files /\ stored \in Files /\ base \in Trees /\ merged \in Trees
      /\ upd.to \in BOOLEAN /\ upd.then \in LoopPcs \union {""} /\ seen.final \in Trees
  BY DEF UpdatedInv, SwapInv, UpdatedTypeOK, Locals, Files, Trees, None
<1>2. /\ upd.pc = "set_active" /\ upd' \in Locals /\ upd'.pc = "boot"
      /\ upd'.saved = upd.saved /\ upd'.to = upd.to /\ upd'.then = upd.then
  BY <1>1, JumpFields DEF SetActive, At, LoopPcs, LauncherPcs, AgnosPcs
<1>3. UNCHANGED <<base, seen, stored, merged, work, upstream, quiet>>
  BY DEF SetActive, World
<1>4. os' = Os(base) /\ slot' \in {os, Partial}
  BY DEF SetActive
<1> USE <1>1, <1>2, <1>3, <1>4 DEF UpdatedInv, SwapInv
<1>5. UpdatedTypeOK'
  BY UpdatedAssumption DEF UpdatedTypeOK, Trees, None, Partial, Oses, Locals, BaseWhole
<1>6. FlagCalls'
  BY DEF FlagCalls, Flagging, LoopPcs, LauncherPcs, AgnosPcs
<1>7. LowFlag'
  BY DEF LowFlag, Low, FlagUp, FlagCalls, Flagging, NoRelic, AfterFetch, LoopPcs, LauncherPcs, AgnosPcs
<1>8. FlagMeansReady'
  BY DEF FlagMeansReady, LowFlag, Low, Fresh, FlagUp, FinalReady, Ready, Survives, LauncherFiles,
     Launching, LauncherPcs, AgnosPcs, Swappable
<1>9. FinalReady'
  BY DEF FinalReady, FlagCalls, Flagging, Fresh, Ready, MergedReady, MarksAgree, For
<1>10. MergedReady'
  BY UpdatedAssumption DEF MergedReady, BaseWhole, For, Flagging, FlagCalls, Ready, NeedsOs, Locals,
     LoopPcs, UpdatedTypeOK
<1>11. MarksAgree'
  BY DEF MarksAgree, Flagging, FlagCalls
<1>12. NoRelic'
  BY DEF NoRelic, AfterFetch, For, Flagging, FlagCalls
<1>13. LauncherFiles'
  BY DEF LauncherFiles, Launching, LauncherPcs, AgnosPcs, LoopPcs, Swappable
<1>14. BaseWhole'
  BY UpdatedAssumption DEF BaseWhole, FlagMeansReady, Fresh, FlagUp, Ready, Swappable, FlagCalls,
     Flagging, LauncherFiles, Launching, LauncherPcs, LoopPcs, UpdatedTypeOK, None
<1>15. FetchSaved'
  BY DEF FetchSaved, AfterFetch, For, Flagging, FlagCalls, LoopPcs, LauncherPcs, AgnosPcs
<1>16. CommitsSeen'
  BY DEF CommitsSeen, FetchSaved, AfterFetch, For, FlagCalls, Flagging, InWindow, Busy, Fresh, FlagUp,
     LowFlag, Low, NoRelic, LoopPcs, LauncherPcs, AgnosPcs, Survives
<1> QED BY <1>5, <1>6, <1>7, <1>8, <1>9, <1>10, <1>11, <1>12, <1>13, <1>14, <1>15, <1>16

LEMMA InstallKeeps == ASSUME UpdatedInv, Install PROVE UpdatedInv'
<1>1. upd \in Locals /\ seen \in Files /\ stored \in Files /\ base \in Trees /\ merged \in Trees
      /\ upd.to \in BOOLEAN /\ upd.then \in LoopPcs \union {""} /\ seen.final \in Trees
  BY DEF UpdatedInv, SwapInv, UpdatedTypeOK, Locals, Files, Trees, None
<1>2. /\ upd.pc = "installer" /\ upd' \in Locals /\ upd'.pc \in {"clear_hash", "installing"}
      /\ upd'.saved = upd.saved /\ upd'.to = upd.to /\ upd'.then = upd.then
  BY <1>1, JumpFields DEF Install, At, LoopPcs, LauncherPcs, AgnosPcs
<1>3. UNCHANGED <<base, seen, stored, merged, work, upstream, quiet>>
  BY DEF Install, World
<1>4. os' = os /\ slot' \in {slot, Partial}
  BY DEF Install
<1> USE <1>1, <1>2, <1>3, <1>4 DEF UpdatedInv, SwapInv
<1>5. UpdatedTypeOK'
  BY UpdatedAssumption DEF UpdatedTypeOK, Trees, None, Partial, Oses, Locals, BaseWhole
<1>6. FlagCalls'
  BY DEF FlagCalls, Flagging, LoopPcs, LauncherPcs, AgnosPcs
<1>7. LowFlag'
  BY DEF LowFlag, Low, FlagUp, FlagCalls, Flagging, NoRelic, AfterFetch, LoopPcs, LauncherPcs, AgnosPcs
<1>8. FlagMeansReady'
  BY DEF FlagMeansReady, LowFlag, Low, Fresh, FlagUp, FinalReady, Ready, Survives, LauncherFiles,
     Launching, LauncherPcs, AgnosPcs, Swappable
<1>9. FinalReady'
  BY DEF FinalReady, FlagCalls, Flagging, Fresh, Ready, MergedReady, MarksAgree, For
<1>10. MergedReady'
  BY UpdatedAssumption DEF MergedReady, BaseWhole, For, Flagging, FlagCalls, Ready, NeedsOs, Locals,
     LoopPcs, UpdatedTypeOK
<1>11. MarksAgree'
  BY DEF MarksAgree, Flagging, FlagCalls
<1>12. NoRelic'
  BY DEF NoRelic, AfterFetch, For, Flagging, FlagCalls
<1>13. LauncherFiles'
  BY DEF LauncherFiles, Launching, LauncherPcs, AgnosPcs, LoopPcs, Swappable
<1>14. BaseWhole'
  BY UpdatedAssumption DEF BaseWhole, FlagMeansReady, Fresh, FlagUp, Ready, Swappable, FlagCalls,
     Flagging, LauncherFiles, Launching, LauncherPcs, LoopPcs, UpdatedTypeOK, None
<1>15. FetchSaved'
  BY DEF FetchSaved, AfterFetch, For, Flagging, FlagCalls, LoopPcs, LauncherPcs, AgnosPcs
<1>16. CommitsSeen'
  BY DEF CommitsSeen, FetchSaved, AfterFetch, For, FlagCalls, Flagging, InWindow, Busy, Fresh, FlagUp,
     LowFlag, Low, NoRelic, LoopPcs, LauncherPcs, AgnosPcs, Survives
<1> QED BY <1>5, <1>6, <1>7, <1>8, <1>9, <1>10, <1>11, <1>12, <1>13, <1>14, <1>15, <1>16

LEMMA InstallDoneKeeps == ASSUME UpdatedInv, InstallDone PROVE UpdatedInv'
<1>1. upd \in Locals /\ seen \in Files /\ stored \in Files /\ base \in Trees /\ merged \in Trees
      /\ upd.to \in BOOLEAN /\ upd.then \in LoopPcs \union {""} /\ seen.final \in Trees
  BY DEF UpdatedInv, SwapInv, UpdatedTypeOK, Locals, Files, Trees, None
<1>2. /\ upd.pc = "installing" /\ upd' \in Locals /\ upd'.pc = "clear_hash"
      /\ upd'.saved = upd.saved /\ upd'.to = upd.to /\ upd'.then = upd.then
  BY <1>1, JumpFields DEF InstallDone, At, LoopPcs, LauncherPcs, AgnosPcs
<1>3. UNCHANGED <<base, seen, stored, merged, work, upstream, quiet>>
  BY DEF InstallDone, World
<1>4. os' = os /\ slot' = Os(base)
  BY DEF InstallDone
<1> USE <1>1, <1>2, <1>3, <1>4 DEF UpdatedInv, SwapInv
<1>5. UpdatedTypeOK'
  BY UpdatedAssumption DEF UpdatedTypeOK, Trees, None, Partial, Oses, Locals, BaseWhole
<1>6. FlagCalls'
  BY DEF FlagCalls, Flagging, LoopPcs, LauncherPcs, AgnosPcs
<1>7. LowFlag'
  BY DEF LowFlag, Low, FlagUp, FlagCalls, Flagging, NoRelic, AfterFetch, LoopPcs, LauncherPcs, AgnosPcs
<1>8. FlagMeansReady'
  BY DEF FlagMeansReady, LowFlag, Low, Fresh, FlagUp, FinalReady, Ready, Survives, LauncherFiles,
     Launching, LauncherPcs, AgnosPcs, Swappable
<1>9. FinalReady'
  BY DEF FinalReady, FlagCalls, Flagging, Fresh, Ready, MergedReady, MarksAgree, For
<1>10. MergedReady'
  BY UpdatedAssumption DEF MergedReady, BaseWhole, For, Flagging, FlagCalls, Ready, NeedsOs, Locals,
     LoopPcs, UpdatedTypeOK
<1>11. MarksAgree'
  BY DEF MarksAgree, Flagging, FlagCalls
<1>12. NoRelic'
  BY DEF NoRelic, AfterFetch, For, Flagging, FlagCalls
<1>13. LauncherFiles'
  BY DEF LauncherFiles, Launching, LauncherPcs, AgnosPcs, LoopPcs, Swappable
<1>14. BaseWhole'
  BY UpdatedAssumption DEF BaseWhole, FlagMeansReady, Fresh, FlagUp, Ready, Swappable, FlagCalls,
     Flagging, LauncherFiles, Launching, LauncherPcs, LoopPcs, UpdatedTypeOK, None
<1>15. FetchSaved'
  BY DEF FetchSaved, AfterFetch, For, Flagging, FlagCalls, LoopPcs, LauncherPcs, AgnosPcs
<1>16. CommitsSeen'
  BY DEF CommitsSeen, FetchSaved, AfterFetch, For, FlagCalls, Flagging, InWindow, Busy, Fresh, FlagUp,
     LowFlag, Low, NoRelic, LoopPcs, LauncherPcs, AgnosPcs, Survives
<1> QED BY <1>5, <1>6, <1>7, <1>8, <1>9, <1>10, <1>11, <1>12, <1>13, <1>14, <1>15, <1>16

LEMMA AgnosFailsKeeps == ASSUME UpdatedInv, AgnosFails PROVE UpdatedInv'
<1>1. upd \in Locals /\ seen \in Files /\ stored \in Files /\ base \in Trees /\ merged \in Trees
      /\ upd.to \in BOOLEAN /\ upd.then \in LoopPcs \union {""} /\ seen.final \in Trees
  BY DEF UpdatedInv, SwapInv, UpdatedTypeOK, Locals, Files, Trees, None
<1>2. /\ upd.pc \in {"check_os", "installing", "clear_hash", "set_active"} /\ upd' \in Locals /\ upd'.pc = "installer"
      /\ upd'.saved = upd.saved /\ upd'.to = upd.to /\ upd'.then = upd.then
  BY <1>1, JumpFields DEF AgnosFails, At, LoopPcs, LauncherPcs, AgnosPcs
<1>3. UNCHANGED <<base, seen, stored, merged, work, upstream, quiet>>
  BY DEF AgnosFails, World
<1>4. UNCHANGED <<os, slot>>
  BY DEF AgnosFails
<1> USE <1>1, <1>2, <1>3, <1>4 DEF UpdatedInv, SwapInv
<1>5. UpdatedTypeOK'
  BY UpdatedAssumption DEF UpdatedTypeOK, Trees, None, Partial, Oses, Locals, BaseWhole
<1>6. FlagCalls'
  BY DEF FlagCalls, Flagging, LoopPcs, LauncherPcs, AgnosPcs
<1>7. LowFlag'
  BY DEF LowFlag, Low, FlagUp, FlagCalls, Flagging, NoRelic, AfterFetch, LoopPcs, LauncherPcs, AgnosPcs
<1>8. FlagMeansReady'
  BY DEF FlagMeansReady, LowFlag, Low, Fresh, FlagUp, FinalReady, Ready, Survives, LauncherFiles,
     Launching, LauncherPcs, AgnosPcs, Swappable
<1>9. FinalReady'
  BY DEF FinalReady, FlagCalls, Flagging, Fresh, Ready, MergedReady, MarksAgree, For
<1>10. MergedReady'
  BY UpdatedAssumption DEF MergedReady, BaseWhole, For, Flagging, FlagCalls, Ready, NeedsOs, Locals,
     LoopPcs, UpdatedTypeOK
<1>11. MarksAgree'
  BY DEF MarksAgree, Flagging, FlagCalls
<1>12. NoRelic'
  BY DEF NoRelic, AfterFetch, For, Flagging, FlagCalls
<1>13. LauncherFiles'
  BY DEF LauncherFiles, Launching, LauncherPcs, AgnosPcs, LoopPcs, Swappable
<1>14. BaseWhole'
  BY UpdatedAssumption DEF BaseWhole, FlagMeansReady, Fresh, FlagUp, Ready, Swappable, FlagCalls,
     Flagging, LauncherFiles, Launching, LauncherPcs, LoopPcs, UpdatedTypeOK, None
<1>15. FetchSaved'
  BY DEF FetchSaved, AfterFetch, For, Flagging, FlagCalls, LoopPcs, LauncherPcs, AgnosPcs
<1>16. CommitsSeen'
  BY DEF CommitsSeen, FetchSaved, AfterFetch, For, FlagCalls, Flagging, InWindow, Busy, Fresh, FlagUp,
     LowFlag, Low, NoRelic, LoopPcs, LauncherPcs, AgnosPcs, Survives
<1> QED BY <1>5, <1>6, <1>7, <1>8, <1>9, <1>10, <1>11, <1>12, <1>13, <1>14, <1>15, <1>16

LEMMA LeaveInstallerKeeps == ASSUME UpdatedInv, LeaveInstaller PROVE UpdatedInv'
<1>1. upd \in Locals /\ seen \in Files /\ stored \in Files /\ base \in Trees /\ merged \in Trees
      /\ upd.to \in BOOLEAN /\ upd.then \in LoopPcs \union {""} /\ seen.final \in Trees
  BY DEF UpdatedInv, SwapInv, UpdatedTypeOK, Locals, Files, Trees, None
<1>2. /\ upd.pc = "installer" /\ upd' \in Locals /\ upd'.pc \in {"boot", "start"}
      /\ upd'.saved = upd.saved /\ upd'.to = upd.to /\ upd'.then = upd.then
  BY <1>1, JumpFields DEF LeaveInstaller, At, LoopPcs, LauncherPcs, AgnosPcs
<1>3. UNCHANGED <<base, seen, stored, merged, work, upstream, quiet>>
  BY DEF LeaveInstaller, World
<1>4. UNCHANGED <<os, slot>>
  BY DEF LeaveInstaller
<1> USE <1>1, <1>2, <1>3, <1>4 DEF UpdatedInv, SwapInv
<1>5. UpdatedTypeOK'
  BY UpdatedAssumption DEF UpdatedTypeOK, Trees, None, Partial, Oses, Locals, BaseWhole
<1>6. FlagCalls'
  BY DEF FlagCalls, Flagging, LoopPcs, LauncherPcs, AgnosPcs
<1>7. LowFlag'
  BY DEF LowFlag, Low, FlagUp, FlagCalls, Flagging, NoRelic, AfterFetch, LoopPcs, LauncherPcs, AgnosPcs
<1>8. FlagMeansReady'
  BY DEF FlagMeansReady, LowFlag, Low, Fresh, FlagUp, FinalReady, Ready, Survives, LauncherFiles,
     Launching, LauncherPcs, AgnosPcs, Swappable
<1>9. FinalReady'
  BY DEF FinalReady, FlagCalls, Flagging, Fresh, Ready, MergedReady, MarksAgree, For
<1>10. MergedReady'
  BY UpdatedAssumption DEF MergedReady, BaseWhole, For, Flagging, FlagCalls, Ready, NeedsOs, Locals,
     LoopPcs, UpdatedTypeOK
<1>11. MarksAgree'
  BY DEF MarksAgree, Flagging, FlagCalls
<1>12. NoRelic'
  BY DEF NoRelic, AfterFetch, For, Flagging, FlagCalls
<1>13. LauncherFiles'
  BY DEF LauncherFiles, Launching, LauncherPcs, AgnosPcs, LoopPcs, Swappable
<1>14. BaseWhole'
  BY UpdatedAssumption DEF BaseWhole, FlagMeansReady, Fresh, FlagUp, Ready, Swappable, FlagCalls,
     Flagging, LauncherFiles, Launching, LauncherPcs, LoopPcs, UpdatedTypeOK, None
<1>15. FetchSaved'
  BY DEF FetchSaved, AfterFetch, For, Flagging, FlagCalls, LoopPcs, LauncherPcs, AgnosPcs
<1>16. CommitsSeen'
  BY DEF CommitsSeen, FetchSaved, AfterFetch, For, FlagCalls, Flagging, InWindow, Busy, Fresh, FlagUp,
     LowFlag, Low, NoRelic, LoopPcs, LauncherPcs, AgnosPcs, Survives
<1> QED BY <1>5, <1>6, <1>7, <1>8, <1>9, <1>10, <1>11, <1>12, <1>13, <1>14, <1>15, <1>16

LEMMA StartKeeps == ASSUME UpdatedInv, Start PROVE UpdatedInv'
<1>1. upd \in Locals /\ seen \in Files /\ stored \in Files /\ base \in Trees /\ merged \in Trees
      /\ upd.to \in BOOLEAN /\ upd.then \in LoopPcs \union {""} /\ seen.final \in Trees
  BY DEF UpdatedInv, SwapInv, UpdatedTypeOK, Locals, Files, Trees, None
<1>2. /\ upd.pc = "start" /\ upd' \in Locals /\ upd'.pc = "idle"
      /\ upd'.saved = upd.saved /\ upd'.to = upd.to /\ upd'.then = upd.then
  BY <1>1, JumpFields DEF Start, At, LoopPcs, LauncherPcs, AgnosPcs
<1>3. /\ seen' \in Files
      /\ seen'.init = "none" /\ seen'.flag = seen.flag /\ seen'.relic = seen.relic /\ seen'.final = seen.final /\ seen'.old = seen.old
  BY <1>1 DEF Start, Files, Marks
<1>4. UNCHANGED <<base, work, stored, merged, os, slot, upstream, quiet>>
  BY DEF Start, World
<1> USE <1>1, <1>2, <1>3, <1>4 DEF UpdatedInv, SwapInv
<1>5. UpdatedTypeOK'
  BY UpdatedAssumption DEF UpdatedTypeOK, Trees, None, Partial, Oses, Locals, BaseWhole
<1>6. FlagCalls'
  BY DEF FlagCalls, Flagging, LoopPcs, LauncherPcs, AgnosPcs
<1>7. LowFlag'
  BY DEF LowFlag, Low, FlagUp, FlagCalls, Flagging, NoRelic, AfterFetch, LoopPcs, LauncherPcs, AgnosPcs
<1>8. FlagMeansReady'
  BY DEF FlagMeansReady, LowFlag, Low, Fresh, FlagUp, FinalReady, Ready, Survives, LauncherFiles,
     Launching, LauncherPcs, AgnosPcs, Swappable
<1>9. FinalReady'
  BY DEF FinalReady, FlagCalls, Flagging, Fresh, Ready, MergedReady, MarksAgree, For
<1>10. MergedReady'
  BY UpdatedAssumption DEF MergedReady, BaseWhole, For, Flagging, FlagCalls, Ready, NeedsOs, Locals,
     LoopPcs, UpdatedTypeOK
<1>11. MarksAgree'
  BY DEF MarksAgree, Flagging, FlagCalls
<1>12. NoRelic'
  BY DEF NoRelic, AfterFetch, For, Flagging, FlagCalls
<1>13. LauncherFiles'
  BY DEF LauncherFiles, Launching, LauncherPcs, AgnosPcs, LoopPcs, Swappable
<1>14. BaseWhole'
  BY UpdatedAssumption DEF BaseWhole, FlagMeansReady, Fresh, FlagUp, Ready, Swappable, FlagCalls,
     Flagging, LauncherFiles, Launching, LauncherPcs, LoopPcs, UpdatedTypeOK, None
<1>15. FetchSaved'
  BY DEF FetchSaved, AfterFetch, For, Flagging, FlagCalls, LoopPcs, LauncherPcs, AgnosPcs
<1>16. CommitsSeen'
  BY DEF CommitsSeen, FetchSaved, AfterFetch, For, FlagCalls, Flagging, InWindow, Busy, Fresh, FlagUp,
     LowFlag, Low, NoRelic, LoopPcs, LauncherPcs, AgnosPcs, Survives
<1> QED BY <1>5, <1>6, <1>7, <1>8, <1>9, <1>10, <1>11, <1>12, <1>13, <1>14, <1>15, <1>16

LEMMA SyncKeeps == ASSUME UpdatedInv, Sync PROVE UpdatedInv'
<1>1. upd \in Locals /\ seen \in Files /\ stored \in Files /\ base \in Trees /\ merged \in Trees
      /\ upd.to \in BOOLEAN /\ upd.then \in LoopPcs \union {""} /\ seen.final \in Trees
  BY DEF UpdatedInv, SwapInv, UpdatedTypeOK, Locals, Files, Trees, None
<1>2. /\ upd.pc \in {"sync", "sync_flag"} /\ upd' \in Locals /\ upd'.pc = IF upd.pc = "sync" THEN "flag" ELSE upd.then
      /\ upd'.saved = upd.saved /\ upd'.to = upd.to /\ upd'.then = upd.then
  BY <1>1, JumpFields DEF Sync, At, UpdatedInv, SwapInv, FlagCalls, Flagging, LoopPcs
<1>3. stored' = seen
  BY DEF Sync
<1>4. UNCHANGED <<base, work, seen, merged, os, slot, upstream, quiet>>
  BY DEF Sync, World
<1> USE <1>1, <1>2, <1>3, <1>4 DEF UpdatedInv, SwapInv
<1>5. UpdatedTypeOK'
  BY UpdatedAssumption DEF UpdatedTypeOK, Trees, None, Partial, Oses, Locals, BaseWhole
<1>6. FlagCalls'
  BY DEF FlagCalls, Flagging, LoopPcs, LauncherPcs, AgnosPcs
<1>7. LowFlag'
  BY DEF LowFlag, Low, FlagUp, FlagCalls, Flagging, NoRelic, AfterFetch, LoopPcs, LauncherPcs, AgnosPcs
<1>8. FlagMeansReady'
  BY DEF FlagMeansReady, LowFlag, Low, Fresh, FlagUp, FinalReady, Ready, Survives, LauncherFiles,
     Launching, LauncherPcs, AgnosPcs, Swappable
<1>9. FinalReady'
  BY DEF FinalReady, FlagCalls, Flagging, Fresh, Ready, MergedReady, MarksAgree, For
<1>10. MergedReady'
  BY UpdatedAssumption DEF MergedReady, BaseWhole, For, Flagging, FlagCalls, Ready, NeedsOs, Locals,
     LoopPcs, UpdatedTypeOK
<1>11. MarksAgree'
  BY DEF MarksAgree, Flagging, FlagCalls
<1>12. NoRelic'
  BY DEF NoRelic, AfterFetch, For, Flagging, FlagCalls
<1>13. LauncherFiles'
  BY DEF LauncherFiles, Launching, LauncherPcs, AgnosPcs, LoopPcs, Swappable
<1>14. BaseWhole'
  BY UpdatedAssumption DEF BaseWhole, FlagMeansReady, Fresh, FlagUp, Ready, Swappable, FlagCalls,
     Flagging, LauncherFiles, Launching, LauncherPcs, LoopPcs, UpdatedTypeOK, None
<1>15. FetchSaved'
  BY DEF FetchSaved, AfterFetch, For, Flagging, FlagCalls, LoopPcs, LauncherPcs, AgnosPcs
<1>16. CommitsSeen'
  BY DEF CommitsSeen, FetchSaved, AfterFetch, For, FlagCalls, Flagging, InWindow, Busy, Fresh, FlagUp,
     LowFlag, Low, NoRelic, LoopPcs, LauncherPcs, AgnosPcs, Survives
<1> QED BY <1>5, <1>6, <1>7, <1>8, <1>9, <1>10, <1>11, <1>12, <1>13, <1>14, <1>15, <1>16

LEMMA WriteFlagKeeps == ASSUME UpdatedInv, WriteFlag PROVE UpdatedInv'
<1>1. upd \in Locals /\ seen \in Files /\ stored \in Files /\ base \in Trees /\ merged \in Trees
      /\ upd.to \in BOOLEAN /\ upd.then \in LoopPcs \union {""} /\ seen.final \in Trees
  BY DEF UpdatedInv, SwapInv, UpdatedTypeOK, Locals, Files, Trees, None
<1>2. /\ upd.pc = "flag" /\ upd' \in Locals /\ upd'.pc = "sync_flag"
      /\ upd'.saved = upd.saved /\ upd'.to = upd.to /\ upd'.then = upd.then
  BY <1>1, JumpFields DEF WriteFlag, At, LoopPcs, LauncherPcs, AgnosPcs
<1>3. /\ seen' \in Files
      /\ seen'.init = seen.init /\ seen'.flag = upd.to /\ seen'.relic = seen.relic /\ seen'.final = seen.final /\ seen'.old = seen.old
  BY <1>1 DEF WriteFlag, Files, Marks
<1>4. UNCHANGED <<base, work, stored, merged, os, slot, upstream, quiet>>
  BY DEF WriteFlag, World
<1> USE <1>1, <1>2, <1>3, <1>4 DEF UpdatedInv, SwapInv
<1>5. UpdatedTypeOK'
  BY UpdatedAssumption DEF UpdatedTypeOK, Trees, None, Partial, Oses, Locals, BaseWhole
<1>6. FlagCalls'
  BY DEF FlagCalls, Flagging, LoopPcs, LauncherPcs, AgnosPcs
<1>7. LowFlag'
  BY DEF LowFlag, Low, FlagUp, FlagCalls, Flagging, NoRelic, AfterFetch, LoopPcs, LauncherPcs, AgnosPcs
<1>8. FlagMeansReady'
  BY DEF FlagMeansReady, LowFlag, Low, Fresh, FlagUp, FinalReady, Ready, Survives, LauncherFiles,
     Launching, LauncherPcs, AgnosPcs, Swappable
<1>9. FinalReady'
  BY DEF FinalReady, FlagCalls, Flagging, Fresh, Ready, MergedReady, MarksAgree, For
<1>10. MergedReady'
  BY UpdatedAssumption DEF MergedReady, BaseWhole, For, Flagging, FlagCalls, Ready, NeedsOs, Locals,
     LoopPcs, UpdatedTypeOK
<1>11. MarksAgree'
  BY DEF MarksAgree, Flagging, FlagCalls
<1>12. NoRelic'
  BY DEF NoRelic, AfterFetch, For, Flagging, FlagCalls
<1>13. LauncherFiles'
  BY DEF LauncherFiles, Launching, LauncherPcs, AgnosPcs, LoopPcs, Swappable
<1>14. BaseWhole'
  BY UpdatedAssumption DEF BaseWhole, FlagMeansReady, Fresh, FlagUp, Ready, Swappable, FlagCalls,
     Flagging, LauncherFiles, Launching, LauncherPcs, LoopPcs, UpdatedTypeOK, None
<1>15. FetchSaved'
  BY DEF FetchSaved, AfterFetch, For, Flagging, FlagCalls, LoopPcs, LauncherPcs, AgnosPcs
<1>16. CommitsSeen'
  BY DEF CommitsSeen, FetchSaved, AfterFetch, For, FlagCalls, Flagging, InWindow, Busy, Fresh, FlagUp,
     LowFlag, Low, NoRelic, LoopPcs, LauncherPcs, AgnosPcs, Survives
<1> QED BY <1>5, <1>6, <1>7, <1>8, <1>9, <1>10, <1>11, <1>12, <1>13, <1>14, <1>15, <1>16

LEMMA InitOverlayKeeps == ASSUME UpdatedInv, InitOverlay PROVE UpdatedInv'
<1>1. upd \in Locals /\ seen \in Files /\ stored \in Files /\ base \in Trees /\ merged \in Trees
      /\ upd.to \in BOOLEAN /\ upd.then \in LoopPcs \union {""} /\ seen.final \in Trees
  BY DEF UpdatedInv, SwapInv, UpdatedTypeOK, Locals, Files, Trees, None
<1>2. /\ upd.pc = "overlay" /\ upd' \in Locals /\ upd'.saved = upd.saved
      /\ \/ seen.init = "fresh" /\ upd'.pc = "check"
         \/ seen.init # "fresh" /\ upd'.pc = "sync" /\ upd'.to = FALSE /\ upd'.then = "clear"
  BY <1>1, JumpFields, SetFlagFields DEF InitOverlay, At, LoopPcs, LauncherPcs, AgnosPcs
<1>3. UNCHANGED <<seen, base, work, stored, merged, os, slot, upstream, quiet>>
  BY DEF InitOverlay, World
<1> USE <1>1, <1>2, <1>3 DEF UpdatedInv, SwapInv
<1>4. UpdatedTypeOK'
  BY UpdatedAssumption DEF UpdatedTypeOK, Trees, None, Partial, Oses, Locals, BaseWhole
<1>5. FlagCalls'
  BY DEF FlagCalls, Flagging, LoopPcs, LauncherPcs, AgnosPcs
<1>6. LowFlag'
  BY DEF LowFlag, Low, FlagUp, FlagCalls, Flagging, NoRelic, AfterFetch, LoopPcs, LauncherPcs, AgnosPcs
<1>7. FlagMeansReady'
  BY DEF FlagMeansReady, LowFlag, Low, Fresh, FlagUp, FinalReady, Ready, Survives, LauncherFiles,
     Launching, LauncherPcs, AgnosPcs, Swappable
<1>8. FinalReady'
  BY DEF FinalReady, FlagCalls, Flagging, Fresh, Ready, MergedReady, MarksAgree, For
<1>9. MergedReady'
  BY UpdatedAssumption DEF MergedReady, BaseWhole, For, Flagging, FlagCalls, Ready, NeedsOs, Locals,
     LoopPcs, UpdatedTypeOK
<1>10. MarksAgree'
  BY DEF MarksAgree, Flagging, FlagCalls
<1>11. NoRelic'
  BY DEF NoRelic, AfterFetch, For, Flagging, FlagCalls
<1>12. LauncherFiles'
  BY DEF LauncherFiles, Launching, LauncherPcs, AgnosPcs, LoopPcs, Swappable
<1>13. BaseWhole'
  BY UpdatedAssumption DEF BaseWhole, FlagMeansReady, Fresh, FlagUp, Ready, Swappable, FlagCalls,
     Flagging, LauncherFiles, Launching, LauncherPcs, LoopPcs, UpdatedTypeOK, None
<1>14. FetchSaved'
  BY DEF FetchSaved, AfterFetch, For, Flagging, FlagCalls, LoopPcs, LauncherPcs, AgnosPcs
<1>15. CommitsSeen'
  BY DEF CommitsSeen, FetchSaved, AfterFetch, For, FlagCalls, Flagging, InWindow, Busy, Fresh, FlagUp,
     LowFlag, Low, NoRelic, LoopPcs, LauncherPcs, AgnosPcs, Survives
<1> QED BY <1>4, <1>5, <1>6, <1>7, <1>8, <1>9, <1>10, <1>11, <1>12, <1>13, <1>14, <1>15

LEMMA ClearStagingKeeps == ASSUME UpdatedInv, ClearStaging PROVE UpdatedInv'
<1>1. upd \in Locals /\ seen \in Files /\ stored \in Files /\ base \in Trees /\ merged \in Trees
      /\ upd.to \in BOOLEAN /\ upd.then \in LoopPcs \union {""} /\ seen.final \in Trees
  BY DEF UpdatedInv, SwapInv, UpdatedTypeOK, Locals, Files, Trees, None
<1>2. /\ upd.pc \in {"clear", "clearing"} /\ upd' \in Locals /\ upd'.pc = IF upd.pc = "clear" THEN "clearing" ELSE "touch"
      /\ upd'.saved = upd.saved /\ upd'.to = upd.to /\ upd'.then = upd.then
  BY <1>1, JumpFields DEF ClearStaging, At, LoopPcs, LauncherPcs, AgnosPcs
<1>3. /\ seen' \in Files /\ seen'.init = seen.init /\ seen'.flag = seen.flag
      /\ merged' \in {merged, None}
  <2>1. CASE upd.pc = "clear"
    <3> DEFINE t == IF seen.final = None THEN None ELSE Partial
    <3>1. t \in Trees
      BY DEF Trees
    <3>2. seen' = [seen EXCEPT !.final = t] /\ merged' = None
      BY <1>1, <2>1 DEF ClearStaging, At
    <3> HIDE DEF t
    <3> QED BY <1>1, <3>1, <3>2 DEF Files
  <2>2. CASE upd.pc = "clearing"
    <3>1. seen' = [seen EXCEPT !.final = None, !.old = FALSE] /\ merged' = merged
      BY <2>2 DEF ClearStaging, At
    <3> QED BY <1>1, <3>1 DEF Files, Trees
  <2> QED BY <1>2, <2>1, <2>2
<1>4. UNCHANGED <<base, work, stored, os, slot, upstream, quiet>>
  BY DEF ClearStaging, World
<1> USE <1>1, <1>2, <1>3, <1>4 DEF UpdatedInv, SwapInv
<1>5. UpdatedTypeOK'
  BY UpdatedAssumption DEF UpdatedTypeOK, Trees, None, Partial, Oses, Locals, BaseWhole
<1>6. FlagCalls'
  BY DEF FlagCalls, Flagging, LoopPcs, LauncherPcs, AgnosPcs
<1>7. LowFlag'
  BY DEF LowFlag, Low, FlagUp, FlagCalls, Flagging, NoRelic, AfterFetch, LoopPcs, LauncherPcs, AgnosPcs
<1>8. FlagMeansReady'
  BY DEF FlagMeansReady, LowFlag, Low, Fresh, FlagUp, FinalReady, Ready, Survives, LauncherFiles,
     Launching, LauncherPcs, AgnosPcs, Swappable
<1>9. FinalReady'
  BY DEF FinalReady, FlagCalls, Flagging, Fresh, Ready, MergedReady, MarksAgree, For
<1>10. MergedReady'
  BY UpdatedAssumption DEF MergedReady, BaseWhole, For, Flagging, FlagCalls, Ready, NeedsOs, Locals,
     LoopPcs, UpdatedTypeOK
<1>11. MarksAgree'
  BY DEF MarksAgree, Flagging, FlagCalls
<1>12. NoRelic'
  BY DEF NoRelic, AfterFetch, For, Flagging, FlagCalls
<1>13. LauncherFiles'
  BY DEF LauncherFiles, Launching, LauncherPcs, AgnosPcs, LoopPcs, Swappable
<1>14. BaseWhole'
  BY UpdatedAssumption DEF BaseWhole, FlagMeansReady, Fresh, FlagUp, Ready, Swappable, FlagCalls,
     Flagging, LauncherFiles, Launching, LauncherPcs, LoopPcs, UpdatedTypeOK, None
<1>15. FetchSaved'
  BY DEF FetchSaved, AfterFetch, For, Flagging, FlagCalls, LoopPcs, LauncherPcs, AgnosPcs
<1>16. CommitsSeen'
  BY DEF CommitsSeen, FetchSaved, AfterFetch, For, FlagCalls, Flagging, InWindow, Busy, Fresh, FlagUp,
     LowFlag, Low, NoRelic, LoopPcs, LauncherPcs, AgnosPcs, Survives
<1> QED BY <1>5, <1>6, <1>7, <1>8, <1>9, <1>10, <1>11, <1>12, <1>13, <1>14, <1>15, <1>16

LEMMA TouchInitKeeps == ASSUME UpdatedInv, TouchInit PROVE UpdatedInv'
<1>1. upd \in Locals /\ seen \in Files /\ stored \in Files /\ base \in Trees /\ merged \in Trees
      /\ upd.to \in BOOLEAN /\ upd.then \in LoopPcs \union {""} /\ seen.final \in Trees
  BY DEF UpdatedInv, SwapInv, UpdatedTypeOK, Locals, Files, Trees, None
<1>2. /\ upd.pc = "touch" /\ upd' \in Locals /\ upd'.pc = "mount"
      /\ upd'.saved = upd.saved /\ upd'.to = upd.to /\ upd'.then = upd.then
  BY <1>1, JumpFields DEF TouchInit, At, LoopPcs, LauncherPcs, AgnosPcs
<1>3. /\ seen' \in Files
      /\ seen'.init = "fresh" /\ seen'.flag = seen.flag /\ ~seen'.relic /\ seen'.final = seen.final /\ seen'.old = seen.old
  BY <1>1 DEF TouchInit, Files, Marks
<1>4. UNCHANGED <<base, work, stored, merged, os, slot, upstream, quiet>>
  BY DEF TouchInit, World
<1> USE <1>1, <1>2, <1>3, <1>4 DEF UpdatedInv, SwapInv
<1>5. UpdatedTypeOK'
  BY UpdatedAssumption DEF UpdatedTypeOK, Trees, None, Partial, Oses, Locals, BaseWhole
<1>6. FlagCalls'
  BY DEF FlagCalls, Flagging, LoopPcs, LauncherPcs, AgnosPcs
<1>7. LowFlag'
  BY DEF LowFlag, Low, FlagUp, FlagCalls, Flagging, NoRelic, AfterFetch, LoopPcs, LauncherPcs, AgnosPcs
<1>8. FlagMeansReady'
  BY DEF FlagMeansReady, LowFlag, Low, Fresh, FlagUp, FinalReady, Ready, Survives, LauncherFiles,
     Launching, LauncherPcs, AgnosPcs, Swappable
<1>9. FinalReady'
  BY DEF FinalReady, FlagCalls, Flagging, Fresh, Ready, MergedReady, MarksAgree, For
<1>10. MergedReady'
  BY UpdatedAssumption DEF MergedReady, BaseWhole, For, Flagging, FlagCalls, Ready, NeedsOs, Locals,
     LoopPcs, UpdatedTypeOK
<1>11. MarksAgree'
  BY DEF MarksAgree, Flagging, FlagCalls
<1>12. NoRelic'
  BY DEF NoRelic, AfterFetch, For, Flagging, FlagCalls
<1>13. LauncherFiles'
  BY DEF LauncherFiles, Launching, LauncherPcs, AgnosPcs, LoopPcs, Swappable
<1>14. BaseWhole'
  BY UpdatedAssumption DEF BaseWhole, FlagMeansReady, Fresh, FlagUp, Ready, Swappable, FlagCalls,
     Flagging, LauncherFiles, Launching, LauncherPcs, LoopPcs, UpdatedTypeOK, None
<1>15. FetchSaved'
  BY DEF FetchSaved, AfterFetch, For, Flagging, FlagCalls, LoopPcs, LauncherPcs, AgnosPcs
<1>16. CommitsSeen'
  BY DEF CommitsSeen, FetchSaved, AfterFetch, For, FlagCalls, Flagging, InWindow, Busy, Fresh, FlagUp,
     LowFlag, Low, NoRelic, LoopPcs, LauncherPcs, AgnosPcs, Survives
<1> QED BY <1>5, <1>6, <1>7, <1>8, <1>9, <1>10, <1>11, <1>12, <1>13, <1>14, <1>15, <1>16

LEMMA MountOverlayKeeps == ASSUME UpdatedInv, MountOverlay PROVE UpdatedInv'
<1>1. upd \in Locals /\ seen \in Files /\ stored \in Files /\ base \in Trees /\ merged \in Trees
      /\ upd.to \in BOOLEAN /\ upd.then \in LoopPcs \union {""} /\ seen.final \in Trees
  BY DEF UpdatedInv, SwapInv, UpdatedTypeOK, Locals, Files, Trees, None
<1>2. /\ upd.pc = "mount" /\ upd' \in Locals /\ upd'.pc = "check"
      /\ upd'.saved = upd.saved /\ upd'.to = upd.to /\ upd'.then = upd.then
  BY <1>1, JumpFields DEF MountOverlay, At, LoopPcs, LauncherPcs, AgnosPcs
<1>3. stored' = seen /\ merged' = base
  BY DEF MountOverlay
<1>4. UNCHANGED <<base, work, seen, os, slot, upstream, quiet>>
  BY DEF MountOverlay, World
<1> USE <1>1, <1>2, <1>3, <1>4 DEF UpdatedInv, SwapInv
<1>5. UpdatedTypeOK'
  BY UpdatedAssumption DEF UpdatedTypeOK, Trees, None, Partial, Oses, Locals, BaseWhole
<1>6. FlagCalls'
  BY DEF FlagCalls, Flagging, LoopPcs, LauncherPcs, AgnosPcs
<1>7. LowFlag'
  BY DEF LowFlag, Low, FlagUp, FlagCalls, Flagging, NoRelic, AfterFetch, LoopPcs, LauncherPcs, AgnosPcs
<1>8. FlagMeansReady'
  BY DEF FlagMeansReady, LowFlag, Low, Fresh, FlagUp, FinalReady, Ready, Survives, LauncherFiles,
     Launching, LauncherPcs, AgnosPcs, Swappable
<1>9. FinalReady'
  BY DEF FinalReady, FlagCalls, Flagging, Fresh, Ready, MergedReady, MarksAgree, For
<1>10. MergedReady'
  BY UpdatedAssumption DEF MergedReady, BaseWhole, For, Flagging, FlagCalls, Ready, NeedsOs, Locals,
     LoopPcs, UpdatedTypeOK
<1>11. MarksAgree'
  BY DEF MarksAgree, Flagging, FlagCalls
<1>12. NoRelic'
  BY DEF NoRelic, AfterFetch, For, Flagging, FlagCalls
<1>13. LauncherFiles'
  BY DEF LauncherFiles, Launching, LauncherPcs, AgnosPcs, LoopPcs, Swappable
<1>14. BaseWhole'
  BY UpdatedAssumption DEF BaseWhole, FlagMeansReady, Fresh, FlagUp, Ready, Swappable, FlagCalls,
     Flagging, LauncherFiles, Launching, LauncherPcs, LoopPcs, UpdatedTypeOK, None
<1>15. FetchSaved'
  BY DEF FetchSaved, AfterFetch, For, Flagging, FlagCalls, LoopPcs, LauncherPcs, AgnosPcs
<1>16. CommitsSeen'
  BY DEF CommitsSeen, FetchSaved, AfterFetch, For, FlagCalls, Flagging, InWindow, Busy, Fresh, FlagUp,
     LowFlag, Low, NoRelic, LoopPcs, LauncherPcs, AgnosPcs, Survives
<1> QED BY <1>5, <1>6, <1>7, <1>8, <1>9, <1>10, <1>11, <1>12, <1>13, <1>14, <1>15, <1>16

LEMMA CompareVersionsKeeps == ASSUME UpdatedInv, CompareVersions PROVE UpdatedInv'
<1>1. upd \in Locals /\ seen \in Files /\ stored \in Files /\ base \in Trees /\ merged \in Trees
      /\ upd.to \in BOOLEAN /\ upd.then \in LoopPcs \union {""} /\ seen.final \in Trees
  BY DEF UpdatedInv, SwapInv, UpdatedTypeOK, Locals, Files, Trees, None
<1>2. /\ upd.pc = "fetched" /\ upd' \in Locals /\ upd'.saved = upd.saved
      /\ \/ upd'.pc \in {"reset", "idle"}
         \/ merged = upd.target /\ upd'.pc = "sync" /\ upd'.to = FALSE /\ upd'.then = "copy"
  BY <1>1, JumpFields, SetFlagFields DEF CompareVersions, At, LoopPcs, LauncherPcs, AgnosPcs
<1>3. UNCHANGED <<seen, base, work, stored, merged, os, slot, upstream, quiet>>
  BY DEF CompareVersions, World
<1> USE <1>1, <1>2, <1>3 DEF UpdatedInv, SwapInv
<1>4. UpdatedTypeOK'
  BY UpdatedAssumption DEF UpdatedTypeOK, Trees, None, Partial, Oses, Locals, BaseWhole
<1>5. FlagCalls'
  BY DEF FlagCalls, Flagging, LoopPcs, LauncherPcs, AgnosPcs
<1>6. LowFlag'
  BY DEF LowFlag, Low, FlagUp, FlagCalls, Flagging, NoRelic, AfterFetch, LoopPcs, LauncherPcs, AgnosPcs
<1>7. FlagMeansReady'
  BY DEF FlagMeansReady, LowFlag, Low, Fresh, FlagUp, FinalReady, Ready, Survives, LauncherFiles,
     Launching, LauncherPcs, AgnosPcs, Swappable
<1>8. FinalReady'
  BY DEF FinalReady, FlagCalls, Flagging, Fresh, Ready, MergedReady, MarksAgree, For
<1>9. MergedReady'
  BY UpdatedAssumption DEF MergedReady, BaseWhole, For, Flagging, FlagCalls, Ready, NeedsOs, Locals,
     LoopPcs, UpdatedTypeOK
<1>10. MarksAgree'
  BY DEF MarksAgree, Flagging, FlagCalls
<1>11. NoRelic'
  BY DEF NoRelic, AfterFetch, For, Flagging, FlagCalls
<1>12. LauncherFiles'
  BY DEF LauncherFiles, Launching, LauncherPcs, AgnosPcs, LoopPcs, Swappable
<1>13. BaseWhole'
  BY UpdatedAssumption DEF BaseWhole, FlagMeansReady, Fresh, FlagUp, Ready, Swappable, FlagCalls,
     Flagging, LauncherFiles, Launching, LauncherPcs, LoopPcs, UpdatedTypeOK, None
<1>14. FetchSaved'
  BY DEF FetchSaved, AfterFetch, For, Flagging, FlagCalls, LoopPcs, LauncherPcs, AgnosPcs
<1>15. CommitsSeen'
  BY DEF CommitsSeen, FetchSaved, AfterFetch, For, FlagCalls, Flagging, InWindow, Busy, Fresh, FlagUp,
     LowFlag, Low, NoRelic, LoopPcs, LauncherPcs, AgnosPcs, Survives
<1> QED BY <1>4, <1>5, <1>6, <1>7, <1>8, <1>9, <1>10, <1>11, <1>12, <1>13, <1>14, <1>15

LEMMA ResetMergedKeeps == ASSUME UpdatedInv, ResetMerged PROVE UpdatedInv'
<1>1. upd \in Locals /\ seen \in Files /\ stored \in Files /\ base \in Trees /\ merged \in Trees
      /\ upd.to \in BOOLEAN /\ upd.then \in LoopPcs \union {""} /\ seen.final \in Trees
  BY DEF UpdatedInv, SwapInv, UpdatedTypeOK, Locals, Files, Trees, None
<1>2. /\ upd.pc = "reset" /\ upd' \in Locals /\ upd'.pc = "resetting"
      /\ upd'.saved = upd.saved /\ upd'.to = upd.to /\ upd'.then = upd.then
  BY <1>1, JumpFields DEF ResetMerged, At, LoopPcs, LauncherPcs, AgnosPcs
<1>3. merged' = Partial
  BY DEF ResetMerged
<1>4. UNCHANGED <<seen, base, work, stored, os, slot, upstream, quiet>>
  BY DEF ResetMerged, World
<1> USE <1>1, <1>2, <1>3, <1>4 DEF UpdatedInv, SwapInv
<1>5. UpdatedTypeOK'
  BY UpdatedAssumption DEF UpdatedTypeOK, Trees, None, Partial, Oses, Locals, BaseWhole
<1>6. FlagCalls'
  BY DEF FlagCalls, Flagging, LoopPcs, LauncherPcs, AgnosPcs
<1>7. LowFlag'
  BY DEF LowFlag, Low, FlagUp, FlagCalls, Flagging, NoRelic, AfterFetch, LoopPcs, LauncherPcs, AgnosPcs
<1>8. FlagMeansReady'
  BY DEF FlagMeansReady, LowFlag, Low, Fresh, FlagUp, FinalReady, Ready, Survives, LauncherFiles,
     Launching, LauncherPcs, AgnosPcs, Swappable
<1>9. FinalReady'
  BY DEF FinalReady, FlagCalls, Flagging, Fresh, Ready, MergedReady, MarksAgree, For
<1>10. MergedReady'
  BY UpdatedAssumption DEF MergedReady, BaseWhole, For, Flagging, FlagCalls, Ready, NeedsOs, Locals,
     LoopPcs, UpdatedTypeOK
<1>11. MarksAgree'
  BY DEF MarksAgree, Flagging, FlagCalls
<1>12. NoRelic'
  BY DEF NoRelic, AfterFetch, For, Flagging, FlagCalls
<1>13. LauncherFiles'
  BY DEF LauncherFiles, Launching, LauncherPcs, AgnosPcs, LoopPcs, Swappable
<1>14. BaseWhole'
  BY UpdatedAssumption DEF BaseWhole, FlagMeansReady, Fresh, FlagUp, Ready, Swappable, FlagCalls,
     Flagging, LauncherFiles, Launching, LauncherPcs, LoopPcs, UpdatedTypeOK, None
<1>15. FetchSaved'
  BY DEF FetchSaved, AfterFetch, For, Flagging, FlagCalls, LoopPcs, LauncherPcs, AgnosPcs
<1>16. CommitsSeen'
  BY DEF CommitsSeen, FetchSaved, AfterFetch, For, FlagCalls, Flagging, InWindow, Busy, Fresh, FlagUp,
     LowFlag, Low, NoRelic, LoopPcs, LauncherPcs, AgnosPcs, Survives
<1> QED BY <1>5, <1>6, <1>7, <1>8, <1>9, <1>10, <1>11, <1>12, <1>13, <1>14, <1>15, <1>16

LEMMA ResetDoneKeeps == ASSUME UpdatedInv, ResetDone PROVE UpdatedInv'
<1>1. upd \in Locals /\ seen \in Files /\ stored \in Files /\ base \in Trees /\ merged \in Trees
      /\ upd.to \in BOOLEAN /\ upd.then \in LoopPcs \union {""} /\ seen.final \in Trees
  BY DEF UpdatedInv, SwapInv, UpdatedTypeOK, Locals, Files, Trees, None
<1>2. /\ upd.pc = "resetting" /\ upd' \in Locals /\ upd'.pc = "os_update"
      /\ upd'.saved = upd.saved /\ upd'.to = upd.to /\ upd'.then = upd.then
  BY <1>1, JumpFields DEF ResetDone, At, LoopPcs, LauncherPcs, AgnosPcs
<1>3. merged' = IF seen.init = "fresh" THEN upd.target ELSE Partial
  BY DEF ResetDone
<1>4. UNCHANGED <<seen, base, work, stored, os, slot, upstream, quiet>>
  BY DEF ResetDone, World
<1> USE <1>1, <1>2, <1>3, <1>4 DEF UpdatedInv, SwapInv
<1>5. UpdatedTypeOK'
  BY UpdatedAssumption DEF UpdatedTypeOK, Trees, None, Partial, Oses, Locals, BaseWhole
<1>6. FlagCalls'
  BY DEF FlagCalls, Flagging, LoopPcs, LauncherPcs, AgnosPcs
<1>7. LowFlag'
  BY DEF LowFlag, Low, FlagUp, FlagCalls, Flagging, NoRelic, AfterFetch, LoopPcs, LauncherPcs, AgnosPcs
<1>8. FlagMeansReady'
  BY DEF FlagMeansReady, LowFlag, Low, Fresh, FlagUp, FinalReady, Ready, Survives, LauncherFiles,
     Launching, LauncherPcs, AgnosPcs, Swappable
<1>9. FinalReady'
  BY DEF FinalReady, FlagCalls, Flagging, Fresh, Ready, MergedReady, MarksAgree, For
<1>10. MergedReady'
  BY UpdatedAssumption DEF MergedReady, BaseWhole, For, Flagging, FlagCalls, Ready, NeedsOs, Locals,
     LoopPcs, UpdatedTypeOK
<1>11. MarksAgree'
  BY DEF MarksAgree, Flagging, FlagCalls
<1>12. NoRelic'
  BY DEF NoRelic, AfterFetch, For, Flagging, FlagCalls
<1>13. LauncherFiles'
  BY DEF LauncherFiles, Launching, LauncherPcs, AgnosPcs, LoopPcs, Swappable
<1>14. BaseWhole'
  BY UpdatedAssumption DEF BaseWhole, FlagMeansReady, Fresh, FlagUp, Ready, Swappable, FlagCalls,
     Flagging, LauncherFiles, Launching, LauncherPcs, LoopPcs, UpdatedTypeOK, None
<1>15. FetchSaved'
  BY DEF FetchSaved, AfterFetch, For, Flagging, FlagCalls, LoopPcs, LauncherPcs, AgnosPcs
<1>16. CommitsSeen'
  BY DEF CommitsSeen, FetchSaved, AfterFetch, For, FlagCalls, Flagging, InWindow, Busy, Fresh, FlagUp,
     LowFlag, Low, NoRelic, LoopPcs, LauncherPcs, AgnosPcs, Survives
<1> QED BY <1>5, <1>6, <1>7, <1>8, <1>9, <1>10, <1>11, <1>12, <1>13, <1>14, <1>15, <1>16

LEMMA HandleAgnosKeeps == ASSUME UpdatedInv, HandleAgnos PROVE UpdatedInv'
<1>1. upd \in Locals /\ seen \in Files /\ stored \in Files /\ base \in Trees /\ merged \in Trees
      /\ upd.to \in BOOLEAN /\ upd.then \in LoopPcs \union {""} /\ seen.final \in Trees
  BY DEF UpdatedInv, SwapInv, UpdatedTypeOK, Locals, Files, Trees, None
<1>2. /\ upd.pc = "os_update" /\ upd' \in Locals /\ upd'.saved = upd.saved
      /\ upd'.pc = "sync" /\ upd'.to = FALSE
      /\ upd'.then = IF NeedsOs(merged) THEN "flash" ELSE "copy"
  BY <1>1, JumpFields, SetFlagFields DEF HandleAgnos, At, LoopPcs, LauncherPcs, AgnosPcs
<1>3. UNCHANGED <<seen, base, work, stored, merged, os, slot, upstream, quiet>>
  BY DEF HandleAgnos, World
<1> USE <1>1, <1>2, <1>3 DEF UpdatedInv, SwapInv
<1>4. UpdatedTypeOK'
  BY UpdatedAssumption DEF UpdatedTypeOK, Trees, None, Partial, Oses, Locals, BaseWhole
<1>5. FlagCalls'
  BY DEF FlagCalls, Flagging, LoopPcs, LauncherPcs, AgnosPcs
<1>6. LowFlag'
  BY DEF LowFlag, Low, FlagUp, FlagCalls, Flagging, NoRelic, AfterFetch, LoopPcs, LauncherPcs, AgnosPcs
<1>7. FlagMeansReady'
  BY DEF FlagMeansReady, LowFlag, Low, Fresh, FlagUp, FinalReady, Ready, Survives, LauncherFiles,
     Launching, LauncherPcs, AgnosPcs, Swappable
<1>8. FinalReady'
  BY DEF FinalReady, FlagCalls, Flagging, Fresh, Ready, MergedReady, MarksAgree, For
<1>9. MergedReady'
  BY UpdatedAssumption DEF MergedReady, BaseWhole, For, Flagging, FlagCalls, Ready, NeedsOs, Locals,
     LoopPcs, UpdatedTypeOK
<1>10. MarksAgree'
  BY DEF MarksAgree, Flagging, FlagCalls
<1>11. NoRelic'
  BY DEF NoRelic, AfterFetch, For, Flagging, FlagCalls
<1>12. LauncherFiles'
  BY DEF LauncherFiles, Launching, LauncherPcs, AgnosPcs, LoopPcs, Swappable
<1>13. BaseWhole'
  BY UpdatedAssumption DEF BaseWhole, FlagMeansReady, Fresh, FlagUp, Ready, Swappable, FlagCalls,
     Flagging, LauncherFiles, Launching, LauncherPcs, LoopPcs, UpdatedTypeOK, None
<1>14. FetchSaved'
  BY DEF FetchSaved, AfterFetch, For, Flagging, FlagCalls, LoopPcs, LauncherPcs, AgnosPcs
<1>15. CommitsSeen'
  BY DEF CommitsSeen, FetchSaved, AfterFetch, For, FlagCalls, Flagging, InWindow, Busy, Fresh, FlagUp,
     LowFlag, Low, NoRelic, LoopPcs, LauncherPcs, AgnosPcs, Survives
<1> QED BY <1>4, <1>5, <1>6, <1>7, <1>8, <1>9, <1>10, <1>11, <1>12, <1>13, <1>14, <1>15

LEMMA FlashSlotKeeps == ASSUME UpdatedInv, FlashSlot PROVE UpdatedInv'
<1>1. upd \in Locals /\ seen \in Files /\ stored \in Files /\ base \in Trees /\ merged \in Trees
      /\ upd.to \in BOOLEAN /\ upd.then \in LoopPcs \union {""} /\ seen.final \in Trees
  BY DEF UpdatedInv, SwapInv, UpdatedTypeOK, Locals, Files, Trees, None
<1>2. /\ upd' \in Locals /\ upd'.saved = upd.saved
      /\ \/ upd.pc = "flash" /\ upd'.pc = "flashing" /\ slot' = Partial
         \/ /\ upd.pc = "flashing" /\ slot' = IF merged \in Releases THEN Os(merged) ELSE Partial
            /\ upd'.pc = "sync" /\ upd'.to = FALSE /\ upd'.then = "copy"
  BY <1>1, JumpFields, SetFlagFields DEF FlashSlot, At, LoopPcs, LauncherPcs, AgnosPcs
<1>3. UNCHANGED <<base, work, seen, stored, merged, os, upstream, quiet>>
  BY DEF FlashSlot, World
<1> USE <1>1, <1>2, <1>3 DEF UpdatedInv, SwapInv
<1>4. UpdatedTypeOK'
  BY UpdatedAssumption DEF UpdatedTypeOK, Trees, None, Partial, Oses, Locals, BaseWhole
<1>5. FlagCalls'
  BY DEF FlagCalls, Flagging, LoopPcs, LauncherPcs, AgnosPcs
<1>6. LowFlag'
  BY DEF LowFlag, Low, FlagUp, FlagCalls, Flagging, NoRelic, AfterFetch, LoopPcs, LauncherPcs, AgnosPcs
<1>7. FlagMeansReady'
  BY DEF FlagMeansReady, LowFlag, Low, Fresh, FlagUp, FinalReady, Ready, Survives, LauncherFiles,
     Launching, LauncherPcs, AgnosPcs, Swappable
<1>8. FinalReady'
  BY DEF FinalReady, FlagCalls, Flagging, Fresh, Ready, MergedReady, MarksAgree, For
<1>9. MergedReady'
  BY UpdatedAssumption DEF MergedReady, BaseWhole, For, Flagging, FlagCalls, Ready, NeedsOs, Locals,
     LoopPcs, UpdatedTypeOK
<1>10. MarksAgree'
  BY DEF MarksAgree, Flagging, FlagCalls
<1>11. NoRelic'
  BY DEF NoRelic, AfterFetch, For, Flagging, FlagCalls
<1>12. LauncherFiles'
  BY DEF LauncherFiles, Launching, LauncherPcs, AgnosPcs, LoopPcs, Swappable
<1>13. BaseWhole'
  BY UpdatedAssumption DEF BaseWhole, FlagMeansReady, Fresh, FlagUp, Ready, Swappable, FlagCalls,
     Flagging, LauncherFiles, Launching, LauncherPcs, LoopPcs, UpdatedTypeOK, None
<1>14. FetchSaved'
  BY DEF FetchSaved, AfterFetch, For, Flagging, FlagCalls, LoopPcs, LauncherPcs, AgnosPcs
<1>15. CommitsSeen'
  BY DEF CommitsSeen, FetchSaved, AfterFetch, For, FlagCalls, Flagging, InWindow, Busy, Fresh, FlagUp,
     LowFlag, Low, NoRelic, LoopPcs, LauncherPcs, AgnosPcs, Survives
<1> QED BY <1>4, <1>5, <1>6, <1>7, <1>8, <1>9, <1>10, <1>11, <1>12, <1>13, <1>14, <1>15

LEMMA CopyFinalKeeps == ASSUME UpdatedInv, CopyFinal PROVE UpdatedInv'
<1>1. upd \in Locals /\ seen \in Files /\ stored \in Files /\ base \in Trees /\ merged \in Trees
      /\ upd.to \in BOOLEAN /\ upd.then \in LoopPcs \union {""} /\ seen.final \in Trees
  BY DEF UpdatedInv, SwapInv, UpdatedTypeOK, Locals, Files, Trees, None
<1>2. /\ upd' \in Locals /\ upd'.saved = upd.saved
      /\ seen' \in Files /\ seen'.init = seen.init /\ seen'.relic = seen.relic
      /\ \/ upd.pc = "copy" /\ upd'.pc = "copying" /\ seen'.flag = seen.relic
         \/ /\ upd.pc = "copying" /\ seen'.final = merged /\ seen'.flag = seen.flag
            /\ upd'.pc = "sync" /\ upd'.to = TRUE /\ upd'.then = "idle"
  <2>1. CASE upd.pc = "copy"
    <3>1. seen' = [seen EXCEPT !.final = Partial, !.flag = seen.relic] /\ Jump("copying")
      BY <2>1 DEF CopyFinal, At
    <3>2. Partial \in Trees /\ "copying" \in LoopPcs
      BY DEF Trees, LoopPcs
    <3> QED BY <1>1, <2>1, <3>1, <3>2, JumpFields DEF Files
  <2>2. CASE upd.pc = "copying"
    <3>1. seen' = [seen EXCEPT !.final = merged] /\ SetFlag(TRUE, "idle")
      BY <2>2 DEF CopyFinal, At
    <3>2. "idle" \in LoopPcs
      BY DEF LoopPcs
    <3> QED BY <1>1, <2>2, <3>1, <3>2, SetFlagFields DEF Files
  <2> QED BY <2>1, <2>2 DEF CopyFinal, At
<1>3. UNCHANGED <<base, work, stored, merged, os, slot, upstream, quiet>>
  BY DEF CopyFinal, World
<1> USE <1>1, <1>2, <1>3 DEF UpdatedInv, SwapInv
<1>4. UpdatedTypeOK'
  BY UpdatedAssumption DEF UpdatedTypeOK, Trees, None, Partial, Oses, Locals, BaseWhole
<1>5. FlagCalls'
  BY DEF FlagCalls, Flagging, LoopPcs, LauncherPcs, AgnosPcs
<1>6. LowFlag'
  BY DEF LowFlag, Low, FlagUp, FlagCalls, Flagging, NoRelic, AfterFetch, LoopPcs, LauncherPcs, AgnosPcs
<1>7. FlagMeansReady'
  BY DEF FlagMeansReady, LowFlag, Low, Fresh, FlagUp, FinalReady, Ready, Survives, LauncherFiles,
     Launching, LauncherPcs, AgnosPcs, Swappable, NoRelic, AfterFetch
<1>8. FinalReady'
  BY DEF FinalReady, FlagCalls, Flagging, Fresh, Ready, MergedReady, MarksAgree, For
<1>9. MergedReady'
  BY UpdatedAssumption DEF MergedReady, BaseWhole, For, Flagging, FlagCalls, Ready, NeedsOs, Locals,
     LoopPcs, UpdatedTypeOK
<1>10. MarksAgree'
  BY DEF MarksAgree, Flagging, FlagCalls
<1>11. NoRelic'
  BY DEF NoRelic, AfterFetch, For, Flagging, FlagCalls
<1>12. LauncherFiles'
  BY DEF LauncherFiles, Launching, LauncherPcs, AgnosPcs, LoopPcs, Swappable
<1>13. BaseWhole'
  BY UpdatedAssumption DEF BaseWhole, FlagMeansReady, Fresh, FlagUp, Ready, Swappable, FlagCalls,
     Flagging, LauncherFiles, Launching, LauncherPcs, LoopPcs, UpdatedTypeOK, None
<1>14. FetchSaved'
  BY DEF FetchSaved, AfterFetch, For, Flagging, FlagCalls, LoopPcs, LauncherPcs, AgnosPcs
<1>15. CommitsSeen'
  BY DEF CommitsSeen, FetchSaved, AfterFetch, For, FlagCalls, Flagging, InWindow, Busy, Fresh, FlagUp,
     LowFlag, Low, NoRelic, LoopPcs, LauncherPcs, AgnosPcs, Survives
<1> QED BY <1>4, <1>5, <1>6, <1>7, <1>8, <1>9, <1>10, <1>11, <1>12, <1>13, <1>14, <1>15

LEMMA LoopTurnKeeps == ASSUME UpdatedInv, LoopTurn PROVE UpdatedInv'
<1>1. upd \in Locals /\ seen \in Files /\ stored \in Files /\ base \in Trees /\ merged \in Trees
      /\ upd.to \in BOOLEAN /\ upd.then \in LoopPcs \union {""} /\ seen.final \in Trees
  BY DEF UpdatedInv, SwapInv, UpdatedTypeOK, Locals, Files, Trees, None
<1>2. /\ upd.pc = "idle" /\ upd' \in Locals /\ upd'.pc = "overlay"
      /\ upd'.saved = (TestedBranch \/ work = "none")
  BY <1>1, UpdatedAssumption DEF LoopTurn, At, Locals, LoopPcs
<1>3. UNCHANGED <<seen, base, work, stored, merged, os, slot, upstream, quiet>>
  BY DEF LoopTurn, World
<1> USE <1>1, <1>2, <1>3 DEF UpdatedInv, SwapInv
<1>4. UpdatedTypeOK'
  BY UpdatedAssumption DEF UpdatedTypeOK, Trees, None, Partial, Oses, Locals, BaseWhole
<1>5. FlagCalls'
  BY DEF FlagCalls, Flagging, LoopPcs, LauncherPcs, AgnosPcs
<1>6. LowFlag'
  BY DEF LowFlag, Low, FlagUp, FlagCalls, Flagging, NoRelic, AfterFetch, LoopPcs, LauncherPcs, AgnosPcs
<1>7. FlagMeansReady'
  BY DEF FlagMeansReady, LowFlag, Low, Fresh, FlagUp, FinalReady, Ready, Survives, LauncherFiles,
     Launching, LauncherPcs, AgnosPcs, Swappable
<1>8. FinalReady'
  BY DEF FinalReady, FlagCalls, Flagging, Fresh, Ready, MergedReady, MarksAgree, For
<1>9. MergedReady'
  BY UpdatedAssumption DEF MergedReady, BaseWhole, For, Flagging, FlagCalls, Ready, NeedsOs, Locals,
     LoopPcs, UpdatedTypeOK
<1>10. MarksAgree'
  BY DEF MarksAgree, Flagging, FlagCalls
<1>11. NoRelic'
  BY DEF NoRelic, AfterFetch, For, Flagging, FlagCalls
<1>12. LauncherFiles'
  BY DEF LauncherFiles, Launching, LauncherPcs, AgnosPcs, LoopPcs, Swappable
<1>13. BaseWhole'
  BY UpdatedAssumption DEF BaseWhole, FlagMeansReady, Fresh, FlagUp, Ready, Swappable, FlagCalls,
     Flagging, LauncherFiles, Launching, LauncherPcs, LoopPcs, UpdatedTypeOK, None
<1>14. FetchSaved'
  BY DEF FetchSaved, AfterFetch, For, Flagging, FlagCalls, LoopPcs, LauncherPcs, AgnosPcs
<1>15. CommitsSeen'
  BY DEF CommitsSeen, FetchSaved, AfterFetch, For, FlagCalls, Flagging, InWindow, Busy, Fresh, FlagUp,
     LowFlag, Low, NoRelic, LoopPcs, LauncherPcs, AgnosPcs, Survives
<1> QED BY <1>4, <1>5, <1>6, <1>7, <1>8, <1>9, <1>10, <1>11, <1>12, <1>13, <1>14, <1>15

LEMMA FetchKeeps == ASSUME UpdatedInv, Fetch PROVE UpdatedInv'
<1>1. upd \in Locals /\ seen \in Files /\ stored \in Files /\ base \in Trees /\ merged \in Trees
      /\ upd.to \in BOOLEAN /\ upd.then \in LoopPcs \union {""} /\ seen.final \in Trees
  BY DEF UpdatedInv, SwapInv, UpdatedTypeOK, Locals, Files, Trees, None
<1>2. /\ upd.pc = "check" /\ upd' \in Locals /\ upd'.pc = "fetched"
      /\ upd.saved /\ upd'.saved
  <2>1. upstream \in Releases
    BY DEF UpdatedInv, SwapInv, UpdatedTypeOK
  <2>2. upd.pc = "check" /\ upd.saved /\ upd' = [upd EXCEPT !.pc = "fetched", !.target = upstream]
    BY DEF Fetch, At
  <2>3. "fetched" \in LoopPcs
    BY DEF LoopPcs
  <2> QED BY <1>1, <2>1, <2>2, <2>3 DEF Locals
<1>3. UNCHANGED <<seen, base, work, stored, merged, os, slot, upstream, quiet>>
  BY DEF Fetch, World
<1> USE <1>1, <1>2, <1>3 DEF UpdatedInv, SwapInv
<1>4. UpdatedTypeOK'
  BY UpdatedAssumption DEF UpdatedTypeOK, Trees, None, Partial, Oses, Locals, BaseWhole
<1>5. FlagCalls'
  BY DEF FlagCalls, Flagging, LoopPcs, LauncherPcs, AgnosPcs
<1>6. LowFlag'
  BY DEF LowFlag, Low, FlagUp, FlagCalls, Flagging, NoRelic, AfterFetch, LoopPcs, LauncherPcs, AgnosPcs
<1>7. FlagMeansReady'
  BY DEF FlagMeansReady, LowFlag, Low, Fresh, FlagUp, FinalReady, Ready, Survives, LauncherFiles,
     Launching, LauncherPcs, AgnosPcs, Swappable
<1>8. FinalReady'
  BY DEF FinalReady, FlagCalls, Flagging, Fresh, Ready, MergedReady, MarksAgree, For
<1>9. MergedReady'
  BY UpdatedAssumption DEF MergedReady, BaseWhole, For, Flagging, FlagCalls, Ready, NeedsOs, Locals,
     LoopPcs, UpdatedTypeOK
<1>10. MarksAgree'
  BY DEF MarksAgree, Flagging, FlagCalls
<1>11. NoRelic'
  BY DEF NoRelic, AfterFetch, For, Flagging, FlagCalls
<1>12. LauncherFiles'
  BY DEF LauncherFiles, Launching, LauncherPcs, AgnosPcs, LoopPcs, Swappable
<1>13. BaseWhole'
  BY UpdatedAssumption DEF BaseWhole, FlagMeansReady, Fresh, FlagUp, Ready, Swappable, FlagCalls,
     Flagging, LauncherFiles, Launching, LauncherPcs, LoopPcs, UpdatedTypeOK, None
<1>14. FetchSaved'
  BY DEF FetchSaved, AfterFetch, For, Flagging, FlagCalls, LoopPcs, LauncherPcs, AgnosPcs
<1>15. CommitsSeen'
  BY DEF CommitsSeen, FetchSaved, AfterFetch, For, FlagCalls, Flagging, InWindow, Busy, Fresh, FlagUp,
     LowFlag, Low, NoRelic, LoopPcs, LauncherPcs, AgnosPcs, Survives
<1> QED BY <1>4, <1>5, <1>6, <1>7, <1>8, <1>9, <1>10, <1>11, <1>12, <1>13, <1>14, <1>15

LEMMA NoFetchKeeps == ASSUME UpdatedInv, NoFetch PROVE UpdatedInv'
<1>1. upd \in Locals /\ seen \in Files /\ stored \in Files /\ base \in Trees /\ merged \in Trees
      /\ upd.to \in BOOLEAN /\ upd.then \in LoopPcs \union {""} /\ seen.final \in Trees
  BY DEF UpdatedInv, SwapInv, UpdatedTypeOK, Locals, Files, Trees, None
<1>2. /\ upd.pc = "check" /\ upd' \in Locals /\ upd'.pc = "idle"
      /\ upd'.saved = upd.saved /\ upd'.to = upd.to /\ upd'.then = upd.then
  BY <1>1, JumpFields DEF NoFetch, At, LoopPcs, LauncherPcs, AgnosPcs
<1>3. UNCHANGED <<seen, base, work, stored, merged, os, slot, upstream, quiet>>
  BY DEF NoFetch, World
<1> USE <1>1, <1>2, <1>3 DEF UpdatedInv, SwapInv
<1>4. UpdatedTypeOK'
  BY UpdatedAssumption DEF UpdatedTypeOK, Trees, None, Partial, Oses, Locals, BaseWhole
<1>5. FlagCalls'
  BY DEF FlagCalls, Flagging, LoopPcs, LauncherPcs, AgnosPcs
<1>6. LowFlag'
  BY DEF LowFlag, Low, FlagUp, FlagCalls, Flagging, NoRelic, AfterFetch, LoopPcs, LauncherPcs, AgnosPcs
<1>7. FlagMeansReady'
  BY DEF FlagMeansReady, LowFlag, Low, Fresh, FlagUp, FinalReady, Ready, Survives, LauncherFiles,
     Launching, LauncherPcs, AgnosPcs, Swappable
<1>8. FinalReady'
  BY DEF FinalReady, FlagCalls, Flagging, Fresh, Ready, MergedReady, MarksAgree, For
<1>9. MergedReady'
  BY UpdatedAssumption DEF MergedReady, BaseWhole, For, Flagging, FlagCalls, Ready, NeedsOs, Locals,
     LoopPcs, UpdatedTypeOK
<1>10. MarksAgree'
  BY DEF MarksAgree, Flagging, FlagCalls
<1>11. NoRelic'
  BY DEF NoRelic, AfterFetch, For, Flagging, FlagCalls
<1>12. LauncherFiles'
  BY DEF LauncherFiles, Launching, LauncherPcs, AgnosPcs, LoopPcs, Swappable
<1>13. BaseWhole'
  BY UpdatedAssumption DEF BaseWhole, FlagMeansReady, Fresh, FlagUp, Ready, Swappable, FlagCalls,
     Flagging, LauncherFiles, Launching, LauncherPcs, LoopPcs, UpdatedTypeOK, None
<1>14. FetchSaved'
  BY DEF FetchSaved, AfterFetch, For, Flagging, FlagCalls, LoopPcs, LauncherPcs, AgnosPcs
<1>15. CommitsSeen'
  BY DEF CommitsSeen, FetchSaved, AfterFetch, For, FlagCalls, Flagging, InWindow, Busy, Fresh, FlagUp,
     LowFlag, Low, NoRelic, LoopPcs, LauncherPcs, AgnosPcs, Survives
<1> QED BY <1>4, <1>5, <1>6, <1>7, <1>8, <1>9, <1>10, <1>11, <1>12, <1>13, <1>14, <1>15

LEMMA FailKeeps == ASSUME UpdatedInv, Fail PROVE UpdatedInv'
<1>1. upd \in Locals /\ seen \in Files /\ stored \in Files /\ base \in Trees /\ merged \in Trees
      /\ upd.to \in BOOLEAN /\ upd.then \in LoopPcs \union {""} /\ seen.final \in Trees
  BY DEF UpdatedInv, SwapInv, UpdatedTypeOK, Locals, Files, Trees, None
<1>2. /\ upd.pc \in LoopPcs \ {"start"} /\ upd' \in Locals /\ upd'.pc = "idle"
      /\ upd'.saved = upd.saved /\ upd'.to = upd.to /\ upd'.then = upd.then
  BY <1>1, JumpFields DEF Fail, Raising, LoopPcs
<1>3. /\ seen' \in Files
      /\ seen'.init = "none" /\ seen'.flag = seen.flag /\ seen'.relic = seen.relic /\ seen'.final = seen.final /\ seen'.old = seen.old
  BY <1>1 DEF Fail, Files, Marks
<1>4. UNCHANGED <<base, work, stored, merged, os, slot, upstream, quiet>>
  BY DEF Fail, World
<1> USE <1>1, <1>2, <1>3, <1>4 DEF UpdatedInv, SwapInv
<1>5. UpdatedTypeOK'
  BY UpdatedAssumption DEF UpdatedTypeOK, Trees, None, Partial, Oses, Locals, BaseWhole
<1>6. FlagCalls'
  BY DEF FlagCalls, Flagging, LoopPcs, LauncherPcs, AgnosPcs
<1>7. LowFlag'
  BY DEF LowFlag, Low, FlagUp, FlagCalls, Flagging, NoRelic, AfterFetch, LoopPcs, LauncherPcs, AgnosPcs
<1>8. FlagMeansReady'
  BY DEF FlagMeansReady, LowFlag, Low, Fresh, FlagUp, FinalReady, Ready, Survives, LauncherFiles,
     Launching, LauncherPcs, AgnosPcs, Swappable
<1>9. FinalReady'
  BY DEF FinalReady, FlagCalls, Flagging, Fresh, Ready, MergedReady, MarksAgree, For
<1>10. MergedReady'
  BY UpdatedAssumption DEF MergedReady, BaseWhole, For, Flagging, FlagCalls, Ready, NeedsOs, Locals,
     LoopPcs, UpdatedTypeOK
<1>11. MarksAgree'
  BY DEF MarksAgree, Flagging, FlagCalls
<1>12. NoRelic'
  BY DEF NoRelic, AfterFetch, For, Flagging, FlagCalls
<1>13. LauncherFiles'
  BY DEF LauncherFiles, Launching, LauncherPcs, AgnosPcs, LoopPcs, Swappable
<1>14. BaseWhole'
  BY UpdatedAssumption DEF BaseWhole, FlagMeansReady, Fresh, FlagUp, Ready, Swappable, FlagCalls,
     Flagging, LauncherFiles, Launching, LauncherPcs, LoopPcs, UpdatedTypeOK, None
<1>15. FetchSaved'
  BY DEF FetchSaved, AfterFetch, For, Flagging, FlagCalls, LoopPcs, LauncherPcs, AgnosPcs
<1>16. CommitsSeen'
  BY DEF CommitsSeen, FetchSaved, AfterFetch, For, FlagCalls, Flagging, InWindow, Busy, Fresh, FlagUp,
     LowFlag, Low, NoRelic, LoopPcs, LauncherPcs, AgnosPcs, Survives
<1> QED BY <1>5, <1>6, <1>7, <1>8, <1>9, <1>10, <1>11, <1>12, <1>13, <1>14, <1>15, <1>16

LEMMA RestartUpdaterKeeps == ASSUME UpdatedInv, RestartUpdater PROVE UpdatedInv'
<1>1. upd \in Locals /\ seen \in Files /\ stored \in Files /\ base \in Trees /\ merged \in Trees
      /\ upd.to \in BOOLEAN /\ upd.then \in LoopPcs \union {""} /\ seen.final \in Trees
  BY DEF UpdatedInv, SwapInv, UpdatedTypeOK, Locals, Files, Trees, None
<1>2. /\ upd.pc \in LoopPcs /\ upd' \in Locals /\ upd'.pc = "start"
      /\ upd'.saved = upd.saved /\ upd'.to = upd.to /\ upd'.then = upd.then
  BY <1>1, JumpFields DEF RestartUpdater, Running, LoopPcs
<1>3. UNCHANGED <<seen, base, work, stored, merged, os, slot, upstream, quiet>>
  BY DEF RestartUpdater, World
<1> USE <1>1, <1>2, <1>3 DEF UpdatedInv, SwapInv
<1>4. UpdatedTypeOK'
  BY UpdatedAssumption DEF UpdatedTypeOK, Trees, None, Partial, Oses, Locals, BaseWhole
<1>5. FlagCalls'
  BY DEF FlagCalls, Flagging, LoopPcs, LauncherPcs, AgnosPcs
<1>6. LowFlag'
  BY DEF LowFlag, Low, FlagUp, FlagCalls, Flagging, NoRelic, AfterFetch, LoopPcs, LauncherPcs, AgnosPcs
<1>7. FlagMeansReady'
  BY DEF FlagMeansReady, LowFlag, Low, Fresh, FlagUp, FinalReady, Ready, Survives, LauncherFiles,
     Launching, LauncherPcs, AgnosPcs, Swappable
<1>8. FinalReady'
  BY DEF FinalReady, FlagCalls, Flagging, Fresh, Ready, MergedReady, MarksAgree, For
<1>9. MergedReady'
  BY UpdatedAssumption DEF MergedReady, BaseWhole, For, Flagging, FlagCalls, Ready, NeedsOs, Locals,
     LoopPcs, UpdatedTypeOK
<1>10. MarksAgree'
  BY DEF MarksAgree, Flagging, FlagCalls
<1>11. NoRelic'
  BY DEF NoRelic, AfterFetch, For, Flagging, FlagCalls
<1>12. LauncherFiles'
  BY DEF LauncherFiles, Launching, LauncherPcs, AgnosPcs, LoopPcs, Swappable
<1>13. BaseWhole'
  BY UpdatedAssumption DEF BaseWhole, FlagMeansReady, Fresh, FlagUp, Ready, Swappable, FlagCalls,
     Flagging, LauncherFiles, Launching, LauncherPcs, LoopPcs, UpdatedTypeOK, None
<1>14. FetchSaved'
  BY DEF FetchSaved, AfterFetch, For, Flagging, FlagCalls, LoopPcs, LauncherPcs, AgnosPcs
<1>15. CommitsSeen'
  BY DEF CommitsSeen, FetchSaved, AfterFetch, For, FlagCalls, Flagging, InWindow, Busy, Fresh, FlagUp,
     LowFlag, Low, NoRelic, LoopPcs, LauncherPcs, AgnosPcs, Survives
<1> QED BY <1>4, <1>5, <1>6, <1>7, <1>8, <1>9, <1>10, <1>11, <1>12, <1>13, <1>14, <1>15

LEMMA PowerCutKeeps == ASSUME UpdatedInv, PowerCut PROVE UpdatedInv'
<1>1. upd \in Locals /\ seen \in Files /\ stored \in Files /\ base \in Trees /\ merged \in Trees
      /\ upd.to \in BOOLEAN /\ upd.then \in LoopPcs \union {""} /\ seen.final \in Trees
  BY DEF UpdatedInv, SwapInv, UpdatedTypeOK, Locals, Files, Trees, None
<1>2. /\ upd' \in Locals /\ upd'.pc = "boot" /\ upd'.saved = upd.saved
      /\ upd'.to = upd.to /\ upd'.then = upd.then
  BY <1>1, JumpFields DEF PowerCut, At, LoopPcs, LauncherPcs, AgnosPcs
<1>3. seen' \in Files /\ Survives(seen') /\ stored' = seen' /\ merged' = None
  BY DEF PowerCut
<1>4. /\ UNCHANGED <<base, work, os, upstream, quiet>>
      /\ slot' = slot \/ (upd.pc = "set_active" /\ slot' = Os(base))
  BY DEF PowerCut, World, At
<1> USE <1>1, <1>2, <1>3, <1>4 DEF UpdatedInv, SwapInv
<1>5. UpdatedTypeOK'
  BY UpdatedAssumption DEF UpdatedTypeOK, Trees, None, Partial, Oses, Locals, BaseWhole
<1>6. FlagCalls'
  BY DEF FlagCalls, Flagging, LoopPcs, LauncherPcs, AgnosPcs
<1>7. LowFlag'
  BY DEF LowFlag, Low, FlagUp, FlagCalls, Flagging, NoRelic, AfterFetch, LoopPcs, LauncherPcs, AgnosPcs
<1>8. FlagMeansReady'
  BY DEF FlagMeansReady, LowFlag, Low, Fresh, FlagUp, FinalReady, Ready, Survives, LauncherFiles,
     Launching, LauncherPcs, AgnosPcs, Swappable
<1>9. FinalReady'
  BY DEF FinalReady, FlagCalls, Flagging, Fresh, Ready, MergedReady, MarksAgree, For
<1>10. MergedReady'
  BY UpdatedAssumption DEF MergedReady, BaseWhole, For, Flagging, FlagCalls, Ready, NeedsOs, Locals,
     LoopPcs, UpdatedTypeOK
<1>11. MarksAgree'
  BY DEF MarksAgree, Flagging, FlagCalls
<1>12. NoRelic'
  BY DEF NoRelic, AfterFetch, For, Flagging, FlagCalls
<1>13. LauncherFiles'
  BY DEF LauncherFiles, Launching, LauncherPcs, AgnosPcs, LoopPcs, Swappable
<1>14. BaseWhole'
  BY UpdatedAssumption DEF BaseWhole, FlagMeansReady, Fresh, FlagUp, Ready, Swappable, FlagCalls,
     Flagging, LauncherFiles, Launching, LauncherPcs, LoopPcs, UpdatedTypeOK, None
<1>15. FetchSaved'
  BY DEF FetchSaved, AfterFetch, For, Flagging, FlagCalls, LoopPcs, LauncherPcs, AgnosPcs
<1>16. CommitsSeen'
  BY DEF CommitsSeen, FetchSaved, AfterFetch, For, FlagCalls, Flagging, InWindow, Busy, Fresh, FlagUp,
     LowFlag, Low, NoRelic, LoopPcs, LauncherPcs, AgnosPcs, Survives
<1> QED BY <1>5, <1>6, <1>7, <1>8, <1>9, <1>10, <1>11, <1>12, <1>13, <1>14, <1>15, <1>16

LEMMA RebootKeeps == ASSUME UpdatedInv, Reboot PROVE UpdatedInv'
<1>1. upd \in Locals /\ seen \in Files /\ stored \in Files /\ base \in Trees /\ merged \in Trees
      /\ upd.to \in BOOLEAN /\ upd.then \in LoopPcs \union {""} /\ seen.final \in Trees
  BY DEF UpdatedInv, SwapInv, UpdatedTypeOK, Locals, Files, Trees, None
<1>2. /\ upd.pc = "idle" /\ upd' \in Locals /\ upd'.pc = "boot"
      /\ upd'.saved = upd.saved /\ upd'.to = upd.to /\ upd'.then = upd.then
  BY <1>1, JumpFields DEF Reboot, At, LoopPcs, LauncherPcs, AgnosPcs
<1>3. stored' = seen /\ merged' = None
  BY DEF Reboot
<1>4. UNCHANGED <<base, work, seen, os, slot, upstream, quiet>>
  BY DEF Reboot, World
<1> USE <1>1, <1>2, <1>3, <1>4 DEF UpdatedInv, SwapInv
<1>5. UpdatedTypeOK'
  BY UpdatedAssumption DEF UpdatedTypeOK, Trees, None, Partial, Oses, Locals, BaseWhole
<1>6. FlagCalls'
  BY DEF FlagCalls, Flagging, LoopPcs, LauncherPcs, AgnosPcs
<1>7. LowFlag'
  BY DEF LowFlag, Low, FlagUp, FlagCalls, Flagging, NoRelic, AfterFetch, LoopPcs, LauncherPcs, AgnosPcs
<1>8. FlagMeansReady'
  BY DEF FlagMeansReady, LowFlag, Low, Fresh, FlagUp, FinalReady, Ready, Survives, LauncherFiles,
     Launching, LauncherPcs, AgnosPcs, Swappable
<1>9. FinalReady'
  BY DEF FinalReady, FlagCalls, Flagging, Fresh, Ready, MergedReady, MarksAgree, For
<1>10. MergedReady'
  BY UpdatedAssumption DEF MergedReady, BaseWhole, For, Flagging, FlagCalls, Ready, NeedsOs, Locals,
     LoopPcs, UpdatedTypeOK
<1>11. MarksAgree'
  BY DEF MarksAgree, Flagging, FlagCalls
<1>12. NoRelic'
  BY DEF NoRelic, AfterFetch, For, Flagging, FlagCalls
<1>13. LauncherFiles'
  BY DEF LauncherFiles, Launching, LauncherPcs, AgnosPcs, LoopPcs, Swappable
<1>14. BaseWhole'
  BY UpdatedAssumption DEF BaseWhole, FlagMeansReady, Fresh, FlagUp, Ready, Swappable, FlagCalls,
     Flagging, LauncherFiles, Launching, LauncherPcs, LoopPcs, UpdatedTypeOK, None
<1>15. FetchSaved'
  BY DEF FetchSaved, AfterFetch, For, Flagging, FlagCalls, LoopPcs, LauncherPcs, AgnosPcs
<1>16. CommitsSeen'
  BY DEF CommitsSeen, FetchSaved, AfterFetch, For, FlagCalls, Flagging, InWindow, Busy, Fresh, FlagUp,
     LowFlag, Low, NoRelic, LoopPcs, LauncherPcs, AgnosPcs, Survives
<1> QED BY <1>5, <1>6, <1>7, <1>8, <1>9, <1>10, <1>11, <1>12, <1>13, <1>14, <1>15, <1>16

LEMMA CommitKeeps == ASSUME UpdatedInv, Commit PROVE UpdatedInv'
<1>1. upd \in Locals /\ seen \in Files /\ stored \in Files /\ base \in Trees /\ merged \in Trees
      /\ upd.to \in BOOLEAN /\ upd.then \in LoopPcs \union {""} /\ seen.final \in Trees
  BY DEF UpdatedInv, SwapInv, UpdatedTypeOK, Locals, Files, Trees, None
<1>2. upd.pc \in LoopPcs \ {"start"} /\ UNCHANGED <<base, os, slot, upstream, upd, quiet>>
  BY DEF Commit, Running
<1>3. /\ seen' \in Files /\ seen'.init = Aged(seen.init) /\ seen'.flag = seen.flag
      /\ seen'.relic = seen.relic /\ seen'.final = seen.final /\ seen'.old = seen.old
  BY <1>1 DEF Commit, Aged, Files, Marks
<1>4. /\ stored' \in Files /\ stored'.init = Aged(stored.init) /\ stored'.flag = stored.flag
      /\ stored'.final = stored.final /\ stored'.old = stored.old
  BY <1>1 DEF Commit, Aged, Files, Marks
<1>5. seen'.init # "fresh" /\ stored'.init # "fresh"
  BY <1>3, <1>4 DEF Aged
<1>6. merged' \in {None, Partial} /\ work' \in {"kept", "window"}
  BY DEF Commit
<1>7. work' = "kept" /\ InWindow => ~upd.saved \/ work = "kept"
  BY DEF Commit
<1> USE <1>1, <1>2, <1>3, <1>4, <1>5, <1>6, <1>7 DEF UpdatedInv, SwapInv
<1>8. UpdatedTypeOK'
  BY UpdatedAssumption DEF UpdatedTypeOK, Trees, None, Partial, Oses, Locals, BaseWhole
<1>9. FlagCalls'
  BY DEF FlagCalls, Flagging, LoopPcs, LauncherPcs, AgnosPcs
<1>10. LowFlag'
  BY DEF LowFlag, Low, FlagUp, FlagCalls, Flagging, NoRelic, AfterFetch, LoopPcs, LauncherPcs, AgnosPcs
<1>11. FlagMeansReady'
  BY DEF FlagMeansReady, LowFlag, Low, Fresh, FlagUp, FinalReady, Ready, Survives, LauncherFiles,
     Launching, LauncherPcs, AgnosPcs, Swappable
<1>12. FinalReady'
  BY DEF FinalReady, FlagCalls, Flagging, Fresh, Ready, MergedReady, MarksAgree, For
<1>13. MergedReady'
  BY UpdatedAssumption DEF MergedReady, BaseWhole, For, Flagging, FlagCalls, Ready, NeedsOs, Locals,
     LoopPcs, UpdatedTypeOK
<1>14. MarksAgree'
  BY DEF MarksAgree, Flagging, FlagCalls
<1>15. NoRelic'
  BY DEF NoRelic, AfterFetch, For, Flagging, FlagCalls
<1>16. LauncherFiles'
  BY DEF LauncherFiles, Launching, LauncherPcs, AgnosPcs, LoopPcs, Swappable
<1>17. BaseWhole'
  BY UpdatedAssumption DEF BaseWhole, FlagMeansReady, Fresh, FlagUp, Ready, Swappable, FlagCalls,
     Flagging, LauncherFiles, Launching, LauncherPcs, LoopPcs, UpdatedTypeOK, None
<1>18. FetchSaved'
  BY DEF FetchSaved, AfterFetch, For, Flagging, FlagCalls, LoopPcs, LauncherPcs, AgnosPcs
<1>19. CommitsSeen'
  BY DEF CommitsSeen, FetchSaved, AfterFetch, For, FlagCalls, Flagging, InWindow, Busy, Fresh, FlagUp,
     LowFlag, Low, NoRelic, LoopPcs, LauncherPcs, AgnosPcs, Survives
<1> QED BY <1>8, <1>9, <1>10, <1>11, <1>12, <1>13, <1>14, <1>15, <1>16, <1>17, <1>18, <1>19

LEMMA PushKeeps == ASSUME UpdatedInv, Push PROVE UpdatedInv'
<1>1. upd \in Locals /\ seen \in Files /\ stored \in Files /\ base \in Trees /\ merged \in Trees
      /\ upd.to \in BOOLEAN /\ upd.then \in LoopPcs \union {""} /\ seen.final \in Trees
  BY DEF UpdatedInv, SwapInv, UpdatedTypeOK, Locals, Files, Trees, None
<1>2. work' = "none" /\ UNCHANGED <<base, seen, stored, merged, os, slot, upstream, upd, quiet>>
  BY DEF Push
<1> USE <1>1, <1>2 DEF UpdatedInv, SwapInv
<1>3. UpdatedTypeOK'
  BY UpdatedAssumption DEF UpdatedTypeOK, Trees, None, Partial, Oses, Locals, BaseWhole
<1>4. FlagCalls'
  BY DEF FlagCalls, Flagging, LoopPcs, LauncherPcs, AgnosPcs
<1>5. LowFlag'
  BY DEF LowFlag, Low, FlagUp, FlagCalls, Flagging, NoRelic, AfterFetch, LoopPcs, LauncherPcs, AgnosPcs
<1>6. FlagMeansReady'
  BY DEF FlagMeansReady, LowFlag, Low, Fresh, FlagUp, FinalReady, Ready, Survives, LauncherFiles,
     Launching, LauncherPcs, AgnosPcs, Swappable
<1>7. FinalReady'
  BY DEF FinalReady, FlagCalls, Flagging, Fresh, Ready, MergedReady, MarksAgree, For
<1>8. MergedReady'
  BY UpdatedAssumption DEF MergedReady, BaseWhole, For, Flagging, FlagCalls, Ready, NeedsOs, Locals,
     LoopPcs, UpdatedTypeOK
<1>9. MarksAgree'
  BY DEF MarksAgree, Flagging, FlagCalls
<1>10. NoRelic'
  BY DEF NoRelic, AfterFetch, For, Flagging, FlagCalls
<1>11. LauncherFiles'
  BY DEF LauncherFiles, Launching, LauncherPcs, AgnosPcs, LoopPcs, Swappable
<1>12. BaseWhole'
  BY UpdatedAssumption DEF BaseWhole, FlagMeansReady, Fresh, FlagUp, Ready, Swappable, FlagCalls,
     Flagging, LauncherFiles, Launching, LauncherPcs, LoopPcs, UpdatedTypeOK, None
<1>13. FetchSaved'
  BY DEF FetchSaved, AfterFetch, For, Flagging, FlagCalls, LoopPcs, LauncherPcs, AgnosPcs
<1>14. CommitsSeen'
  BY DEF CommitsSeen, FetchSaved, AfterFetch, For, FlagCalls, Flagging, InWindow, Busy, Fresh, FlagUp,
     LowFlag, Low, NoRelic, LoopPcs, LauncherPcs, AgnosPcs, Survives
<1> QED BY <1>3, <1>4, <1>5, <1>6, <1>7, <1>8, <1>9, <1>10, <1>11, <1>12, <1>13, <1>14

LEMMA ReleaseKeeps == ASSUME UpdatedInv, Release PROVE UpdatedInv'
<1>1. upd \in Locals /\ seen \in Files /\ stored \in Files /\ base \in Trees /\ merged \in Trees
      /\ upd.to \in BOOLEAN /\ upd.then \in LoopPcs \union {""} /\ seen.final \in Trees
  BY DEF UpdatedInv, SwapInv, UpdatedTypeOK, Locals, Files, Trees, None
<1>2. upstream' \in Releases /\ UNCHANGED <<base, work, seen, stored, merged, os, slot, upd, quiet>>
  BY DEF Release
<1> USE <1>1, <1>2 DEF UpdatedInv, SwapInv
<1>3. UpdatedTypeOK'
  BY UpdatedAssumption DEF UpdatedTypeOK, Trees, None, Partial, Oses, Locals, BaseWhole
<1>4. FlagCalls'
  BY DEF FlagCalls, Flagging, LoopPcs, LauncherPcs, AgnosPcs
<1>5. LowFlag'
  BY DEF LowFlag, Low, FlagUp, FlagCalls, Flagging, NoRelic, AfterFetch, LoopPcs, LauncherPcs, AgnosPcs
<1>6. FlagMeansReady'
  BY DEF FlagMeansReady, LowFlag, Low, Fresh, FlagUp, FinalReady, Ready, Survives, LauncherFiles,
     Launching, LauncherPcs, AgnosPcs, Swappable
<1>7. FinalReady'
  BY DEF FinalReady, FlagCalls, Flagging, Fresh, Ready, MergedReady, MarksAgree, For
<1>8. MergedReady'
  BY UpdatedAssumption DEF MergedReady, BaseWhole, For, Flagging, FlagCalls, Ready, NeedsOs, Locals,
     LoopPcs, UpdatedTypeOK
<1>9. MarksAgree'
  BY DEF MarksAgree, Flagging, FlagCalls
<1>10. NoRelic'
  BY DEF NoRelic, AfterFetch, For, Flagging, FlagCalls
<1>11. LauncherFiles'
  BY DEF LauncherFiles, Launching, LauncherPcs, AgnosPcs, LoopPcs, Swappable
<1>12. BaseWhole'
  BY UpdatedAssumption DEF BaseWhole, FlagMeansReady, Fresh, FlagUp, Ready, Swappable, FlagCalls,
     Flagging, LauncherFiles, Launching, LauncherPcs, LoopPcs, UpdatedTypeOK, None
<1>13. FetchSaved'
  BY DEF FetchSaved, AfterFetch, For, Flagging, FlagCalls, LoopPcs, LauncherPcs, AgnosPcs
<1>14. CommitsSeen'
  BY DEF CommitsSeen, FetchSaved, AfterFetch, For, FlagCalls, Flagging, InWindow, Busy, Fresh, FlagUp,
     LowFlag, Low, NoRelic, LoopPcs, LauncherPcs, AgnosPcs, Survives
<1> QED BY <1>3, <1>4, <1>5, <1>6, <1>7, <1>8, <1>9, <1>10, <1>11, <1>12, <1>13, <1>14

LEMMA LeaveAloneKeeps == ASSUME UpdatedInv, LeaveAlone PROVE UpdatedInv'
<1>1. upd \in Locals /\ seen \in Files /\ stored \in Files /\ base \in Trees /\ merged \in Trees
      /\ upd.to \in BOOLEAN /\ upd.then \in LoopPcs \union {""} /\ seen.final \in Trees
  BY DEF UpdatedInv, SwapInv, UpdatedTypeOK, Locals, Files, Trees, None
<1>2. quiet' \in BOOLEAN /\ UNCHANGED <<base, work, seen, stored, merged, os, slot, upstream, upd>>
  BY DEF LeaveAlone
<1> USE <1>1, <1>2 DEF UpdatedInv, SwapInv
<1>3. UpdatedTypeOK'
  BY UpdatedAssumption DEF UpdatedTypeOK, Trees, None, Partial, Oses, Locals, BaseWhole
<1>4. FlagCalls'
  BY DEF FlagCalls, Flagging, LoopPcs, LauncherPcs, AgnosPcs
<1>5. LowFlag'
  BY DEF LowFlag, Low, FlagUp, FlagCalls, Flagging, NoRelic, AfterFetch, LoopPcs, LauncherPcs, AgnosPcs
<1>6. FlagMeansReady'
  BY DEF FlagMeansReady, LowFlag, Low, Fresh, FlagUp, FinalReady, Ready, Survives, LauncherFiles,
     Launching, LauncherPcs, AgnosPcs, Swappable
<1>7. FinalReady'
  BY DEF FinalReady, FlagCalls, Flagging, Fresh, Ready, MergedReady, MarksAgree, For
<1>8. MergedReady'
  BY UpdatedAssumption DEF MergedReady, BaseWhole, For, Flagging, FlagCalls, Ready, NeedsOs, Locals,
     LoopPcs, UpdatedTypeOK
<1>9. MarksAgree'
  BY DEF MarksAgree, Flagging, FlagCalls
<1>10. NoRelic'
  BY DEF NoRelic, AfterFetch, For, Flagging, FlagCalls
<1>11. LauncherFiles'
  BY DEF LauncherFiles, Launching, LauncherPcs, AgnosPcs, LoopPcs, Swappable
<1>12. BaseWhole'
  BY UpdatedAssumption DEF BaseWhole, FlagMeansReady, Fresh, FlagUp, Ready, Swappable, FlagCalls,
     Flagging, LauncherFiles, Launching, LauncherPcs, LoopPcs, UpdatedTypeOK, None
<1>13. FetchSaved'
  BY DEF FetchSaved, AfterFetch, For, Flagging, FlagCalls, LoopPcs, LauncherPcs, AgnosPcs
<1>14. CommitsSeen'
  BY DEF CommitsSeen, FetchSaved, AfterFetch, For, FlagCalls, Flagging, InWindow, Busy, Fresh, FlagUp,
     LowFlag, Low, NoRelic, LoopPcs, LauncherPcs, AgnosPcs, Survives
<1> QED BY <1>3, <1>4, <1>5, <1>6, <1>7, <1>8, <1>9, <1>10, <1>11, <1>12, <1>13, <1>14

-----------------------------------------------------------------------------
(* The invariant and the theorems.                                           *)

LEMMA InitKeeps == UpdatedInit => UpdatedInv
<1> SUFFICES ASSUME UpdatedInit PROVE UpdatedInv
  OBVIOUS
<1>1. seen \in Files /\ stored = seen /\ ~seen.flag /\ seen.init = "none"
  BY DEF UpdatedInit, Files, Marks, Trees, None
<1>2. /\ upd \in Locals /\ upd.pc = "boot" /\ ~upd.saved /\ ~upd.to
      /\ base = 1 /\ 1 \in Releases /\ merged = None
  BY UpdatedAssumption DEF UpdatedInit, Locals, LauncherPcs
<1>3. UpdatedTypeOK
  BY <1>1, <1>2 DEF UpdatedInit, UpdatedTypeOK, Trees, Oses
<1>4. FlagCalls /\ LowFlag /\ FlagMeansReady /\ FinalReady
  BY <1>1, <1>2 DEF FlagCalls, Flagging, LowFlag, Low, FlagMeansReady, FlagUp, Fresh, FinalReady
<1>5. MergedReady /\ MarksAgree /\ NoRelic /\ LauncherFiles /\ BaseWhole
  BY <1>1, <1>2 DEF MergedReady, For, MarksAgree, NoRelic, AfterFetch, LauncherFiles, Launching, LauncherPcs,
                    AgnosPcs, BaseWhole, Flagging
<1>6. FetchSaved /\ CommitsSeen
  BY <1>1, <1>2 DEF FetchSaved, AfterFetch, For, Flagging, CommitsSeen, InWindow, Fresh
<1> QED BY <1>3, <1>4, <1>5, <1>6 DEF UpdatedInv, SwapInv

LEMMA NextKeeps == UpdatedInv /\ [UpdatedNext]_updatedVars => UpdatedInv'
<1> SUFFICES ASSUME UpdatedInv, [UpdatedNext]_updatedVars PROVE UpdatedInv'
  OBVIOUS
<1>1. CASE Launcher
  BY <1>1, LaunchKeeps, MoveBaseKeeps, MoveFinalKeeps, CheckOsKeeps, ClearHashKeeps,
     SetActiveKeeps, InstallDoneKeeps DEF Launcher
<1>2. CASE Work
  BY <1>2, StartKeeps, SyncKeeps, WriteFlagKeeps, InitOverlayKeeps, ClearStagingKeeps, TouchInitKeeps,
     MountOverlayKeeps, CompareVersionsKeeps, ResetMergedKeeps, ResetDoneKeeps, HandleAgnosKeeps,
     FlashSlotKeeps, CopyFinalKeeps DEF Work
<1>3. CASE LoopTurn \/ Fetch \/ NoFetch \/ Fail \/ RestartUpdater \/ PowerCut \/ Reboot
  BY <1>3, LoopTurnKeeps, FetchKeeps, NoFetchKeeps, FailKeeps, RestartUpdaterKeeps, PowerCutKeeps, RebootKeeps
<1>6. CASE Install \/ AgnosFails \/ LeaveInstaller
  BY <1>6, InstallKeeps, AgnosFailsKeeps, LeaveInstallerKeeps
<1>4. CASE Release \/ Commit \/ Push \/ LeaveAlone
  BY <1>4, ReleaseKeeps, CommitKeeps, PushKeeps, LeaveAloneKeeps
<1>5. CASE UNCHANGED updatedVars
  <2>1. UNCHANGED <<base, work, seen, stored, merged, os, slot, upstream, upd, quiet>>
    BY <1>5 DEF updatedVars
  <2>2. UpdatedTypeOK' /\ FlagCalls' /\ LowFlag' /\ FlagMeansReady' /\ FinalReady'
    BY <2>1 DEF UpdatedInv, SwapInv, UpdatedTypeOK, FlagCalls, Flagging, LowFlag, Low, FlagMeansReady,
                FlagUp, Fresh, FinalReady, Ready
  <2>3. MergedReady' /\ MarksAgree' /\ NoRelic' /\ LauncherFiles' /\ BaseWhole'
    BY <2>1 DEF UpdatedInv, SwapInv, MergedReady, For, Flagging, Ready, MarksAgree, NoRelic, AfterFetch,
                LauncherFiles, Launching, Swappable, BaseWhole
  <2>4. FetchSaved' /\ CommitsSeen'
    BY <2>1 DEF UpdatedInv, FetchSaved, AfterFetch, For, Flagging, CommitsSeen, InWindow, Fresh, FlagUp, Busy
  <2> QED BY <2>2, <2>3, <2>4 DEF UpdatedInv, SwapInv
<1> QED BY <1>1, <1>2, <1>3, <1>4, <1>5, <1>6 DEF UpdatedNext

\* The updater and the launcher keep the invariant above and their types.
THEOREM UpdatedInvariant == UpdatedSpec => []UpdatedInv
  BY InitKeeps, NextKeeps, PTL DEF UpdatedSpec

\* Whenever the power goes, an update the launcher would then swap in is a whole
\* release whose operating system runs already or is ready in the other slot, or
\* is the one that BASEDIR needs too.
THEOREM SwapIsSafe == UpdatedSpec => []SwappableBoots
<1>1. UpdatedInv => SwappableBoots
  <2> SUFFICES ASSUME UpdatedInv, NEW f \in Files, Survives(f), Swappable(f) PROVE Boots(f)
    BY DEF SwappableBoots
  <2>1. Fresh /\ FlagUp /\ ~(seen.old /\ stored.old)
    BY DEF Survives, Swappable, Fresh, FlagUp
  <2>2. seen.final = stored.final /\ Ready(seen.final)
    BY <2>1 DEF UpdatedInv, SwapInv, FlagMeansReady
  <2>3. f.final = seen.final
    BY <2>2 DEF Survives
  <2> QED BY <2>2, <2>3 DEF Boots, Ready
<1> QED BY <1>1, UpdatedInvariant, PTL

\* The launcher never swaps away local commits, unless they were made between
\* check_git_saved and the new .overlay_init.
THEOREM CommitsStay == UpdatedSpec => []LocalWorkKept
<1>1. UpdatedInv => LocalWorkKept
  <2> SUFFICES ASSUME UpdatedInv, work = "kept", ~TestedBranch, NEW f \in Files, Survives(f)
               PROVE  ~Swappable(f)
    BY DEF LocalWorkKept
  <2>1. ~Fresh \/ ~FlagUp
    BY DEF UpdatedInv, CommitsSeen
  <2> QED BY <2>1 DEF Survives, Swappable, Fresh, FlagUp
<1> QED BY <1>1, UpdatedInvariant, PTL

\* FINALIZED or the other slot are being changed, by the updater or by agnos.py.
Changing ==
  upd.pc \in {"clear", "clearing", "flash", "flashing", "copy", "copying",
             "installing", "clear_hash", "set_active"}

\* While FINALIZED or the other slot are being changed, in a turn of the updater or
\* at boot by agnos.py, no loss of power leaves an update that the launcher would
\* swap in.
THEOREM ChangesUnseen ==
  UpdatedSpec => [](Changing => \A f \in Files : Survives(f) => ~Swappable(f))
<1>1. UpdatedInv => (Changing => \A f \in Files : Survives(f) => ~Swappable(f))
  <2> SUFFICES ASSUME UpdatedInv, Changing, NEW f \in Files, Survives(f) PROVE ~Swappable(f)
    OBVIOUS
  <2>1. CASE upd.pc \in {"installing", "clear_hash", "set_active"}
    BY <2>1 DEF UpdatedInv, SwapInv, LauncherFiles, Launching, LauncherPcs, AgnosPcs, Survives, Swappable
  <2>2. CASE upd.pc \in {"clear", "clearing", "flash", "flashing", "copy", "copying"}
    BY <2>2 DEF UpdatedInv, SwapInv, LowFlag, Low, FlagUp, Survives, Swappable
  <2> QED BY <2>1, <2>2 DEF Changing
<1> QED BY <1>1, UpdatedInvariant, PTL
=============================================================================
