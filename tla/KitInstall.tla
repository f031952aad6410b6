------------------------------ MODULE KitInstall ------------------------------
(***************************************************************************)
(* The installer: one run switches the plugin trees of the kit into a host *)
(* one after the other, patches the core files, verifies the result, and   *)
(* on any failure restores what it saved at its start.                     *)
(*                                                                         *)
(* Every file operation may raise, and the process may be interrupted (its *)
(* finally clauses run, no except Exception does) or killed (nothing runs) *)
(* between any two of them.  An operation that is not atomic is two steps, *)
(* with "torn" content between them.  After a run, another may start from  *)
(* whatever is there.                                                      *)
(***************************************************************************)
EXTENDS Naturals

CONSTANTS
  NP,          \* plugin trees, installed in the order 1..NP
  NF,          \* core files, written in the order 1..NF
  Steps,       \* the compat steps
  StepsOf,     \* core file -> the steps that edit it
  Missing,     \* a core file that is not there
  Torn,        \* a core file whose writing was cut off
  MaxRuns      \* runs of the installer (a bound of the model)

Plugins == 1..NP
Files == 1..NF

ASSUME InstallAssumption ==
  /\ NP \in Nat \ {0}
  /\ NF \in Nat \ {0}
  /\ MaxRuns \in Nat
  /\ StepsOf \in [Files -> SUBSET Steps]
  /\ Missing # Torn
  /\ \A text \in SUBSET Steps : text \notin {Missing, Torn}

VARIABLES
  tree,      \* plugin -> what its directory holds
  aside,     \* plugin -> what this run's ".previous" directory holds
  backup,    \* plugin -> the copy in the run's temporary directory
  core,      \* core file -> the steps its text satisfies, or Missing, Torn
  saved,     \* core file -> the snapshot in the memory of the run
  anchor,    \* core file -> the steps whose anchor its text has
  mode,      \* "plugins-only" or "legacy-compat"
  pc,        \* what the run does next
  at,        \* the plugin or the core file it does this to
  taken,     \* TRUE when plugin_snapshots was assigned
  wrote,     \* core files the patcher has replaced
  report,    \* how the run ended
  tree0,     \* history: the trees before the run
  runs       \* runs started (bounded by MaxRuns)

vars == <<tree, aside, backup, core, saved, anchor, mode, pc, at, taken, wrote,
          report, tree0, runs>>
hostVars == <<tree, core>>
runVars == <<saved, anchor, mode, tree0, runs>>

\* "old" is any tree the kit did not install, "kit" the tree of this kit.
Whole == {"old", "kit"}
Tree == Whole \union {"absent", "torn"}
Text == SUBSET Steps
Content == {Missing, Torn} \union Text

Forward == {"snapshot", "stage", "setAside", "switch", "dropAside",
            "plan", "write", "undo", "verifyCompat", "verify"}
RestoringCore == {"restoreFile", "fileTorn"}
RestoringTrees == {"removeTree", "treeTorn", "copyBack", "copyTorn"}
Rollback == RestoringCore \union RestoringTrees
Ended == {"done", "dead"}
Reports == {"none", "ok", "rolledBack", "rollbackFailed", "died", "diedRollingBack"}

TypeOK ==
  /\ tree \in [Plugins -> Tree]
  /\ aside \in [Plugins -> Tree]
  /\ backup \in [Plugins -> Tree]
  /\ tree0 \in [Plugins -> Tree]
  /\ core \in [Files -> Content]
  /\ saved \in [Files -> Content]
  /\ anchor \in [Files -> SUBSET Steps]
  /\ mode \in {"plugins-only", "legacy-compat"}
  /\ pc \in Forward \union Rollback \union Ended
  /\ at \in Plugins \union Files
  /\ taken \in BOOLEAN
  /\ wrote \in SUBSET Files
  /\ report \in Reports
  /\ runs \in 0..MaxRuns

Nothing == [p \in Plugins |-> "absent"]

\* A host as the first run finds it: trees of another version, of this kit, or
\* none; core files of the host, patched before or not, or missing.
Init ==
  /\ tree \in [Plugins -> Whole \union {"absent"}]
  /\ core \in [Files -> {Missing} \union Text]
  /\ \A f \in Files : core[f] \in {Missing} \union SUBSET StepsOf[f]
  /\ anchor \in [Files -> Text]
  /\ \A f \in Files : anchor[f] \subseteq StepsOf[f]
  /\ aside = Nothing
  /\ backup = Nothing
  /\ saved = core
  /\ tree0 = tree
  /\ mode = "legacy-compat"
  /\ pc = "done"
  /\ at = 1
  /\ taken = FALSE
  /\ wrote = {}
  /\ report = "none"
  /\ runs = 0

-----------------------------------------------------------------------------
(* Start and snapshots *)

\* The target resolves and the sources are complete; what an earlier run left
\* beside a tree has another name and is never looked at.
Start(m) ==
  /\ pc \in Ended
  /\ runs < MaxRuns
  /\ runs' = runs + 1
  /\ mode' = m
  /\ saved' = core
  /\ tree0' = tree
  /\ aside' = Nothing
  /\ backup' = Nothing
  /\ pc' = "snapshot"
  /\ at' = 1
  /\ taken' = FALSE
  /\ wrote' = {}
  /\ report' = "none"
  /\ UNCHANGED <<tree, core, anchor>>

\* From an exception, or a report that is not ok, to _rollback.
ToRollback ==
  /\ pc' = "restoreFile"
  /\ at' = 1

NextPlugin(here, after) ==
  \/ at < NP /\ at' = at + 1 /\ pc' = here
  \/ at = NP /\ at' = 1 /\ pc' = after

SnapshotTree ==
  /\ pc = "snapshot"
  /\ backup' = [backup EXCEPT ![at] = tree[at]]
  /\ NextPlugin("snapshot", "stage")
  /\ taken' = (at = NP)
  /\ UNCHANGED <<hostVars, runVars, aside, wrote, report>>

-----------------------------------------------------------------------------
(* _install_plugin_tree: staged copy, two renames, removal of the old tree *)

AfterTrees == IF mode = "plugins-only" THEN "verify" ELSE "plan"

\* Mutant: only names are compared.
TreeMatchesByName ==
  /\ pc = "stage"
  /\ tree[at] \in Whole
  /\ NextPlugin("stage", AfterTrees)
  /\ UNCHANGED <<hostVars, runVars, aside, backup, taken, wrote, report>>

TreeMatches ==
  /\ pc = "stage"
  /\ tree[at] = "kit"
  /\ NextPlugin("stage", AfterTrees)
  /\ UNCHANGED <<hostVars, runVars, aside, backup, taken, wrote, report>>

StageTree ==
  /\ pc = "stage"
  /\ tree[at] # "kit"
  /\ pc' = "setAside"
  /\ UNCHANGED <<hostVars, runVars, aside, backup, at, taken, wrote, report>>

\* Mutant: the old tree is removed before the new one is in place.
SetAsideByRemoval ==
  /\ pc = "setAside"
  /\ tree' = [tree EXCEPT ![at] = "absent"]
  /\ pc' = "switch"
  /\ UNCHANGED <<core, runVars, aside, backup, at, taken, wrote, report>>

SetAside ==
  /\ pc = "setAside"
  /\ aside' = [aside EXCEPT ![at] = tree[at]]
  /\ tree' = [tree EXCEPT ![at] = "absent"]
  /\ pc' = "switch"
  /\ UNCHANGED <<core, runVars, backup, at, taken, wrote, report>>

Switch ==
  /\ pc = "switch"
  /\ tree' = [tree EXCEPT ![at] = "kit"]
  /\ pc' = "dropAside"
  /\ UNCHANGED <<core, runVars, aside, backup, at, taken, wrote, report>>

\* The second rename raised: the old tree is renamed back, or that raises too.
SwitchFails ==
  /\ pc = "switch"
  /\ \/ /\ tree' = [tree EXCEPT ![at] = aside[at]]
        /\ aside' = [aside EXCEPT ![at] = "absent"]
     \/ /\ aside[at] # "absent"
        /\ UNCHANGED <<tree, aside>>
  /\ ToRollback
  /\ UNCHANGED <<core, runVars, backup, taken, wrote, report>>

DropAside ==
  /\ pc = "dropAside"
  /\ aside' = [aside EXCEPT ![at] = "absent"]
  /\ NextPlugin("stage", AfterTrees)
  /\ UNCHANGED <<hostVars, runVars, backup, taken, wrote, report>>

\* rmtree raised; the finally clause tries again and ignores errors.
DropAsideFails ==
  /\ pc = "dropAside"
  /\ aside[at] # "absent"
  /\ \E left \in {"absent", "torn"} : aside' = [aside EXCEPT ![at] = left]
  /\ ToRollback
  /\ UNCHANGED <<hostVars, runVars, backup, taken, wrote, report>>

-----------------------------------------------------------------------------
(* apply_steps and verify of the compat patcher *)

Satisfied(f) == core[f] = StepsOf[f]
\* A text whose missing steps all have their anchors.
Patchable(f) ==
  /\ core[f] \notin {Missing, Torn}
  /\ StepsOf[f] \ core[f] \subseteq anchor[f]

Plan ==
  /\ pc = "plan"
  /\ \A f \in Files : Patchable(f)
  /\ pc' = "write"
  /\ UNCHANGED <<hostVars, runVars, aside, backup, at, taken, wrote, report>>

\* A file is missing, or a marker and its anchor: nothing is written.
PlanFails ==
  /\ pc = "plan"
  /\ \E f \in Files : ~Patchable(f)
  /\ ToRollback
  /\ UNCHANGED <<hostVars, runVars, aside, backup, taken, wrote, report>>

NextFile(here, after) ==
  \/ at < NF /\ at' = at + 1 /\ pc' = here
  \/ at = NF /\ at' = 1 /\ pc' = after

\* _atomic_write: a temporary file and os.replace; unchanged texts are skipped.
WriteFile ==
  /\ pc = "write"
  /\ core' = [core EXCEPT ![at] = StepsOf[at]]
  /\ wrote' = IF Satisfied(at) THEN wrote ELSE wrote \union {at}
  /\ NextFile("write", "verifyCompat")
  /\ UNCHANGED <<tree, runVars, aside, backup, taken, report>>

WriteFails ==
  /\ pc = "write"
  /\ ~Satisfied(at)
  /\ pc' = "undo"
  /\ UNCHANGED <<hostVars, runVars, aside, backup, at, taken, wrote, report>>

\* The files written so far get the text back that was read before the first
\* write, the last one first; then the patcher reports write-failed.
Last(f) == f \in wrote /\ \A g \in wrote : g <= f

Undo ==
  /\ pc = "undo"
  /\ \/ \E f \in wrote :
          /\ Last(f)
          /\ core' = [core EXCEPT ![f] = saved[f]]
          /\ wrote' = wrote \ {f}
          /\ UNCHANGED <<pc, at>>
     \/ /\ wrote = {}
        /\ ToRollback
        /\ UNCHANGED <<core, wrote>>
  /\ UNCHANGED <<tree, runVars, aside, backup, taken, report>>

\* The structures are found only in files whose steps are all in; they may be
\* missing even so (a marker is text, a structure is syntax).
VerifyCompat(ok) ==
  /\ pc = "verifyCompat"
  /\ ok => \A f \in Files : Satisfied(f)
  /\ IF ok THEN pc' = "verify" /\ UNCHANGED at ELSE ToRollback
  /\ UNCHANGED <<hostVars, runVars, aside, backup, taken, wrote, report>>

\* The post-install verifier looks for the files of all trees and, unless the
\* run is plugins-only, verifies the core again; it only reads.
VerifierPasses ==
  /\ \A p \in Plugins : tree[p] \in Whole
  /\ mode = "legacy-compat" => \A f \in Files : Satisfied(f)

Verify(ok) ==
  /\ pc = "verify"
  /\ ok => VerifierPasses
  /\ IF ok
     THEN /\ pc' = "done"
          /\ report' = "ok"
          /\ backup' = Nothing
          /\ UNCHANGED at
     ELSE /\ ToRollback
          /\ UNCHANGED <<report, backup>>
  /\ UNCHANGED <<hostVars, runVars, aside, taken, wrote>>

\* Any other file operation of the forward part raises before it took effect.
Raise ==
  /\ pc \in {"snapshot", "stage", "setAside", "plan", "undo", "verifyCompat", "verify"}
  /\ ToRollback
  /\ UNCHANGED <<hostVars, runVars, aside, backup, taken, wrote, report>>

-----------------------------------------------------------------------------
(* _rollback: the core files first, then the trees, in one try block *)

\* TemporaryDirectory removes the backups when the run leaves its block.
Finish(outcome) ==
  /\ pc' = "done"
  /\ report' = outcome
  /\ backup' = Nothing

\* Mutant: the plugin trees are forgotten.
AfterCoreOnly == Finish("rolledBack")

AfterCore ==
  \/ taken /\ pc' = "removeTree" /\ UNCHANGED <<report, backup>>
  \/ ~taken /\ Finish("rolledBack")

\* write_bytes truncates and then writes; a file that was absent is unlinked.
RestoreFile ==
  /\ \/ /\ pc = "restoreFile"
        /\ saved[at] # Missing
        /\ core' = [core EXCEPT ![at] = Torn]
        /\ pc' = "fileTorn"
        /\ UNCHANGED <<at, report, backup>>
     \/ /\ pc = "fileTorn" \/ (pc = "restoreFile" /\ saved[at] = Missing)
        /\ core' = [core EXCEPT ![at] = saved[at]]
        /\ \/ at < NF /\ at' = at + 1 /\ pc' = "restoreFile" /\ UNCHANGED <<report, backup>>
           \/ at = NF /\ at' = 1 /\ AfterCore
  /\ UNCHANGED <<tree, runVars, aside, taken, wrote>>

\* _restore_tree_snapshot: rmtree what is there, then copytree the backup.
RestoreTree ==
  /\ \/ /\ pc = "removeTree"
        /\ tree[at] # "absent"
        /\ tree' = [tree EXCEPT ![at] = "torn"]
        /\ pc' = "treeTorn"
        /\ UNCHANGED <<at, report, backup>>
     \/ /\ pc = "treeTorn" \/ (pc = "removeTree" /\ tree[at] = "absent")
        /\ tree' = [tree EXCEPT ![at] = "absent"]
        /\ pc' = "copyBack"
        /\ UNCHANGED <<at, report, backup>>
     \/ /\ pc = "copyBack"
        /\ backup[at] # "absent"
        /\ tree' = [tree EXCEPT ![at] = "torn"]
        /\ pc' = "copyTorn"
        /\ UNCHANGED <<at, report, backup>>
     \/ /\ pc = "copyTorn" \/ (pc = "copyBack" /\ backup[at] = "absent")
        /\ tree' = [tree EXCEPT ![at] = backup[at]]
        /\ \/ at < NP /\ at' = at + 1 /\ pc' = "removeTree" /\ UNCHANGED <<report, backup>>
           \/ at = NP /\ UNCHANGED at /\ Finish("rolledBack")
  /\ UNCHANGED <<core, runVars, aside, taken, wrote>>

\* One restoration raises: the others are not tried.
RollbackFails ==
  /\ pc \in Rollback
  /\ Finish("rollbackFailed")
  /\ UNCHANGED <<hostVars, runVars, aside, at, taken, wrote>>

-----------------------------------------------------------------------------
(* The end of the process *)

Death ==
  /\ pc \notin Ended
  /\ pc' = "dead"
  /\ report' = IF pc \in Rollback THEN "diedRollingBack" ELSE "died"
  /\ UNCHANGED <<hostVars, runVars, at, taken, wrote>>

\* SIGKILL, power loss: the temporary directory stays, and nobody knows it.
Killed ==
  /\ Death
  /\ UNCHANGED <<aside, backup>>

\* Ctrl-C: the finally clauses run.
Interrupted ==
  /\ Death
  /\ backup' = Nothing
  /\ aside' = IF pc = "dropAside" THEN [aside EXCEPT ![at] = "absent"] ELSE aside

Install ==
  \/ SnapshotTree \/ TreeMatches \/ StageTree \/ SetAside \/ Switch \/ SwitchFails
  \/ DropAside \/ DropAsideFails
PatchCore == Plan \/ PlanFails \/ WriteFile \/ WriteFails \/ Undo

Next ==
  \/ \E m \in {"plugins-only", "legacy-compat"} : Start(m)
  \/ Install
  \/ PatchCore
  \/ \E ok \in BOOLEAN : VerifyCompat(ok) \/ Verify(ok)
  \/ Raise
  \/ RestoreFile \/ RestoreTree \/ RollbackFails
  \/ Killed \/ Interrupted

Spec == Init /\ [][Next]_vars

-----------------------------------------------------------------------------
(* Properties *)

\* A run that reports a clean rollback leaves every tree and every core file as
\* the run found them, whatever failed and however far it had come.
CleanRollback == report = "rolledBack" => tree = tree0 /\ core = saved

\* A run that reports success has installed all trees, and has patched all core
\* files or, in the plugins-only mode, touched none.
InstalledCompletely ==
  report = "ok" =>
    /\ \A p \in Plugins : tree[p] = "kit"
    /\ IF mode = "plugins-only" THEN core = saved ELSE \A f \in Files : Satisfied(f)

\* Who had a plugin keeps a whole one, in its place or right beside it, at every
\* moment and also when the process dies; while the rollback replaces a tree, its
\* copy exists.  Only a rollback that fails or is cut off may leave less.
PluginSurvives ==
  \A p \in Plugins :
    tree0[p] \in Whole /\ report \notin {"rollbackFailed", "diedRollingBack"} =>
      \/ tree[p] \in {tree0[p], "kit"}
      \/ aside[p] = tree0[p]
      \/ pc \in Rollback /\ backup[p] = tree0[p]

\* Outside a rollback a core file is as it was found or fully patched, and when
\* the patcher reports a failed write all of them are as they were found.
PatchedWholeOrNotAtAll ==
  /\ pc \in Forward \/ report \in {"ok", "died"} =>
       \A f \in Files : core[f] \in {saved[f], StepsOf[f]}
  /\ pc = "undo" /\ wrote = {} => core = saved

\* Why: what each point of a run may rely on.
SwitchingTrees == {"stage", "setAside", "switch", "dropAside"}
Patching == {"plan", "write", "undo", "verifyCompat"}

\* The index is that of a tree or of a file, and nothing is reported before the end.
IndexInv ==
  /\ pc \in {"snapshot"} \union SwitchingTrees \union RestoringTrees => at \in Plugins
  /\ pc \in {"plan", "write"} \union RestoringCore => at \in Files
  /\ pc \notin Ended => report = "none"
  /\ pc \in Patching => mode = "legacy-compat"

\* Once the snapshots are taken the copies are the trees before the run; a
\* rollback without them finds trees nobody touched.
BackupInv ==
  /\ pc = "snapshot" => /\ tree = tree0 /\ core = saved /\ wrote = {}
                        /\ \A p \in Plugins : p < at => backup[p] = tree0[p]
  /\ pc \in SwitchingTrees \union Patching \union {"verify"} \union RestoringTrees => taken
  /\ pc \notin Ended /\ taken => backup = tree0
  /\ pc \in RestoringCore /\ ~taken => tree = tree0

\* The trees are switched in order, and the one at hand is in its place or aside.
TreesInv ==
  /\ pc \in SwitchingTrees =>
       /\ core = saved /\ wrote = {}
       /\ \A p \in Plugins : /\ p < at => tree[p] = "kit"
                             /\ p > at => tree[p] = tree0[p]
       /\ pc \in {"stage", "setAside"} => tree[at] = tree0[at]
       /\ pc = "switch" => aside[at] = tree0[at]
       /\ pc = "dropAside" => tree[at] = "kit"
  /\ pc \in Patching \union {"verify"} => \A p \in Plugins : tree[p] = "kit"

\* What the patcher has not written is as it was found.
CoreInv ==
  /\ pc = "plan" => core = saved /\ wrote = {} /\ at = 1
  /\ pc = "write" => \A f \in Files : /\ f < at => core[f] = StepsOf[f]
                                      /\ f >= at => core[f] = saved[f]
  /\ pc \in {"write", "undo"} =>
       \A f \in Files : IF f \in wrote THEN core[f] = StepsOf[f] ELSE core[f] = saved[f]
  /\ pc = "verifyCompat" => \A f \in Files : core[f] = StepsOf[f]
  /\ pc = "verify" => IF mode = "plugins-only" THEN core = saved
                                               ELSE \A f \in Files : core[f] = StepsOf[f]

\* What a rollback has restored stays restored.
RollbackInv ==
  /\ pc \in RestoringCore => \A f \in Files : f < at => core[f] = saved[f]
  /\ pc \in RestoringTrees => /\ core = saved
                              /\ \A p \in Plugins : p < at => tree[p] = tree0[p]

InstallInv == IndexInv /\ BackupInv /\ TreesInv /\ CoreInv /\ RollbackInv
===============================================================================
