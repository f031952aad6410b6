--------------------------- MODULE KitInstallProofs ---------------------------
(* Theorems about KitInstall, for any number of plugin trees and core files,   *)
(* any compat steps and any number of runs.                                    *)
EXTENDS KitInstall, TLAPS


(* The index is a number at every step of the two loops. *)
LEMMA IndexFacts ==
  /\ \A p \in Plugins : p \in Nat /\ (p < NP => p + 1 \in Plugins)
  /\ \A f \in Files : f \in Nat /\ (f < NF => f + 1 \in Files)
  /\ 1 \in Plugins /\ 1 \in Files /\ 1 \in Nat
  /\ NP \in Plugins /\ NF \in Files
BY InstallAssumption DEF InstallAssumption, Plugins, Files

LEMMA TypeInit == Init => TypeOK /\ IndexInv
<1> SUFFICES ASSUME Init PROVE TypeOK /\ IndexInv
  OBVIOUS
<1> USE DEF Init, Ended
<1>1. tree \in [Plugins -> Tree] /\ tree0 \in [Plugins -> Tree]
  BY DEF Tree, Whole
<1>2. core \in [Files -> Content] /\ saved \in [Files -> Content]
  BY DEF Content
<1>3. Nothing \in [Plugins -> Tree]
  BY DEF Nothing, Tree
<1>4. anchor \in [Files -> SUBSET Steps]
  BY DEF Text
<1>5. 0 \in 0..MaxRuns
  BY InstallAssumption DEF InstallAssumption
<1>6. TypeOK
  BY <1>1, <1>2, <1>3, <1>4, <1>5, IndexFacts DEF TypeOK, Reports
<1>7. IndexInv
  BY DEF IndexInv, SwitchingTrees, RestoringTrees, RestoringCore, Patching
<1> QED BY <1>6, <1>7

LEMMA TypeStep == TypeOK /\ IndexInv /\ [Next]_vars => TypeOK' /\ IndexInv'
<1> SUFFICES ASSUME TypeOK, IndexInv, [Next]_vars PROVE TypeOK' /\ IndexInv'
  OBVIOUS
<1> USE InstallAssumption, IndexFacts DEF InstallAssumption, TypeOK, IndexInv, Whole, Tree,
      Content, Text, Forward, RestoringCore, RestoringTrees, Rollback, Ended, Reports,
      SwitchingTrees, Patching, hostVars, runVars
<1>1. CASE UNCHANGED vars
  BY <1>1 DEF vars
<1>2. ASSUME NEW m \in {"plugins-only", "legacy-compat"}, Start(m) PROVE TypeOK' /\ IndexInv'
  <2>1. runs' \in 0..MaxRuns
    BY <1>2 DEF Start
  <2>2. Nothing \in [Plugins -> Tree]
    BY DEF Nothing
  <2> QED
    BY <1>2, <2>1, <2>2 DEF Start
<1>3. CASE SnapshotTree
  BY <1>3 DEF SnapshotTree, NextPlugin
<1>4. CASE TreeMatches
  BY <1>4 DEF TreeMatches, NextPlugin, AfterTrees
<1>5. CASE StageTree
  BY <1>5 DEF StageTree
<1>6. CASE SetAside
  BY <1>6 DEF SetAside
<1>7. CASE Switch
  BY <1>7 DEF Switch
<1>8. CASE SwitchFails
  BY <1>8 DEF SwitchFails, ToRollback
<1>9. CASE DropAside
  BY <1>9 DEF DropAside, NextPlugin, AfterTrees
<1>10. CASE DropAsideFails
  BY <1>10 DEF DropAsideFails, ToRollback
<1>11. CASE Plan \/ PlanFails \/ WriteFails
  <2>1. CASE Plan
    BY <2>1 DEF Plan
  <2>2. CASE PlanFails
    BY <2>2 DEF PlanFails, ToRollback
  <2>3. CASE WriteFails
    BY <2>3 DEF WriteFails
  <2> QED
    BY <1>11, <2>1, <2>2, <2>3
<1>12. CASE WriteFile
  BY <1>12 DEF WriteFile, NextFile
<1>13. CASE Undo
  BY <1>13 DEF Undo, ToRollback
<1>14. ASSUME NEW ok \in BOOLEAN, VerifyCompat(ok) PROVE TypeOK' /\ IndexInv'
  BY <1>14 DEF VerifyCompat, ToRollback
<1>15. ASSUME NEW ok \in BOOLEAN, Verify(ok) PROVE TypeOK' /\ IndexInv'
  BY <1>15 DEF Verify, ToRollback, Nothing
<1>16. CASE Raise
  BY <1>16 DEF Raise, ToRollback
<1>17. CASE RestoreFile
  BY <1>17 DEF RestoreFile, AfterCore, Finish, Nothing
<1>18. CASE RestoreTree
  BY <1>18 DEF RestoreTree, Finish, Nothing
<1>19. CASE RollbackFails
  BY <1>19 DEF RollbackFails, Finish, Nothing
<1>20. CASE Killed \/ Interrupted
  <2>1. CASE Killed
    BY <2>1 DEF Killed, Death, Nothing
  <2>2. CASE Interrupted
    BY <2>2 DEF Interrupted, Death, Nothing
  <2> QED BY <1>20, <2>1, <2>2
<1> QED
  BY <1>1, <1>2, <1>3, <1>4, <1>5, <1>6, <1>7, <1>8, <1>9, <1>10, <1>11, <1>12,
     <1>13, <1>14, <1>15, <1>16, <1>17, <1>18, <1>19, <1>20
     DEF Next, Install, PatchCore

(* Every reachable state has the declared types. *)
THEOREM TypeCorrect == Spec => []TypeOK
<1>1. TypeOK /\ IndexInv /\ [Next]_vars => (TypeOK /\ IndexInv)'
  BY TypeStep
<1> QED
  BY TypeInit, <1>1, PTL DEF Spec

-----------------------------------------------------------------------------
(* Each point of a run may rely on what InstallInv says of it: the copies are  *)
(* the trees before the run, the trees are switched in order, unwritten files  *)
(* are as they were, and what was restored stays restored.                     *)
LEMMA InstallStep ==
  TypeOK /\ TypeOK' /\ InstallInv /\ IndexInv' /\ [Next]_vars => InstallInv'
<1> SUFFICES ASSUME TypeOK, TypeOK', InstallInv, IndexInv', [Next]_vars PROVE InstallInv'
  OBVIOUS
<1> DEFINE Goal == BackupInv' /\ TreesInv' /\ CoreInv' /\ RollbackInv'
<1> USE InstallAssumption, IndexFacts DEF InstallAssumption, Plugins, Files, TypeOK, InstallInv,
      IndexInv, BackupInv, TreesInv, CoreInv, RollbackInv, Forward, RestoringCore, RestoringTrees,
      Rollback, Ended, SwitchingTrees, Patching, hostVars, runVars
<1>0. CASE UNCHANGED vars
  BY <1>0 DEF vars
<1>1. ASSUME NEW m \in {"plugins-only", "legacy-compat"}, Start(m) PROVE Goal
  <2>1. BackupInv'
    BY <1>1 DEF Start, Nothing, BackupInv
  <2>2. TreesInv'
    BY <1>1 DEF Start, Nothing, TreesInv
  <2>3. CoreInv'
    BY <1>1 DEF Start, Nothing, CoreInv
  <2>4. RollbackInv'
    BY <1>1 DEF Start, Nothing, RollbackInv
  <2> QED BY <2>1, <2>2, <2>3, <2>4
<1>2. CASE SnapshotTree
  <2>1. BackupInv'
    <3>1. \A q \in Plugins : q < at + 1 => backup'[q] = tree0[q]
      BY <1>2 DEF SnapshotTree
    <3>2. at = NP => backup' = tree0
      BY <1>2, <3>1 DEF SnapshotTree
    <3>3. CASE at < NP
      BY <1>2, <3>1, <3>3 DEF SnapshotTree, NextPlugin
    <3>4. CASE at = NP
      BY <1>2, <3>2, <3>4 DEF SnapshotTree, NextPlugin
    <3> QED
      BY <1>2, <3>3, <3>4 DEF SnapshotTree
  <2>2. TreesInv'
    BY <1>2 DEF SnapshotTree, NextPlugin, TreesInv
  <2>3. CoreInv'
    BY <1>2 DEF SnapshotTree, NextPlugin, CoreInv
  <2>4. RollbackInv'
    BY <1>2 DEF SnapshotTree, NextPlugin, RollbackInv
  <2> QED BY <2>1, <2>2, <2>3, <2>4
<1>3. CASE TreeMatches
  <2>1. BackupInv'
    BY <1>3 DEF TreeMatches, NextPlugin, AfterTrees, BackupInv
  <2>2. TreesInv'
    BY <1>3 DEF TreeMatches, NextPlugin, AfterTrees, TreesInv
  <2>3. CoreInv'
    BY <1>3 DEF TreeMatches, NextPlugin, AfterTrees, CoreInv
  <2>4. RollbackInv'
    BY <1>3 DEF TreeMatches, NextPlugin, AfterTrees, RollbackInv
  <2> QED BY <2>1, <2>2, <2>3, <2>4
<1>4. CASE StageTree
  <2>1. BackupInv'
    BY <1>4 DEF StageTree, BackupInv
  <2>2. TreesInv'
    BY <1>4 DEF StageTree, TreesInv
  <2>3. CoreInv'
    BY <1>4 DEF StageTree, CoreInv
  <2>4. RollbackInv'
    BY <1>4 DEF StageTree, RollbackInv
  <2> QED BY <2>1, <2>2, <2>3, <2>4
<1>5. CASE SetAside
  <2>1. BackupInv'
    BY <1>5 DEF SetAside, BackupInv
  <2>2. TreesInv'
    BY <1>5 DEF SetAside, TreesInv
  <2>3. CoreInv'
    BY <1>5 DEF SetAside, CoreInv
  <2>4. RollbackInv'
    BY <1>5 DEF SetAside, RollbackInv
  <2> QED BY <2>1, <2>2, <2>3, <2>4
<1>6. CASE Switch
  <2>1. BackupInv'
    BY <1>6 DEF Switch, BackupInv
  <2>2. TreesInv'
    BY <1>6 DEF Switch, TreesInv
  <2>3. CoreInv'
    BY <1>6 DEF Switch, CoreInv
  <2>4. RollbackInv'
    BY <1>6 DEF Switch, RollbackInv
  <2> QED BY <2>1, <2>2, <2>3, <2>4
<1>7. CASE SwitchFails
  <2>1. BackupInv'
    BY <1>7 DEF SwitchFails, ToRollback, BackupInv
  <2>2. TreesInv'
    BY <1>7 DEF SwitchFails, ToRollback, TreesInv
  <2>3. CoreInv'
    BY <1>7 DEF SwitchFails, ToRollback, CoreInv
  <2>4. RollbackInv'
    BY <1>7 DEF SwitchFails, ToRollback, RollbackInv
  <2> QED BY <2>1, <2>2, <2>3, <2>4
<1>8. CASE DropAside
  <2>1. BackupInv'
    BY <1>8 DEF DropAside, NextPlugin, AfterTrees, BackupInv
  <2>2. TreesInv'
    BY <1>8 DEF DropAside, NextPlugin, AfterTrees, TreesInv
  <2>3. CoreInv'
    BY <1>8 DEF DropAside, NextPlugin, AfterTrees, CoreInv
  <2>4. RollbackInv'
    BY <1>8 DEF DropAside, NextPlugin, AfterTrees, RollbackInv
  <2> QED BY <2>1, <2>2, <2>3, <2>4
<1>9. CASE DropAsideFails
  <2>1. BackupInv'
    BY <1>9 DEF DropAsideFails, ToRollback, BackupInv
  <2>2. TreesInv'
    BY <1>9 DEF DropAsideFails, ToRollback, TreesInv
  <2>3. CoreInv'
    BY <1>9 DEF DropAsideFails, ToRollback, CoreInv
  <2>4. RollbackInv'
    BY <1>9 DEF DropAsideFails, ToRollback, RollbackInv
  <2> QED BY <2>1, <2>2, <2>3, <2>4
<1>10. CASE Plan
  <2>1. BackupInv'
    BY <1>10 DEF Plan, BackupInv
  <2>2. TreesInv'
    BY <1>10 DEF Plan, TreesInv
  <2>3. CoreInv'
    BY <1>10 DEF Plan, CoreInv
  <2>4. RollbackInv'
    BY <1>10 DEF Plan, RollbackInv
  <2> QED BY <2>1, <2>2, <2>3, <2>4
<1>11. CASE PlanFails
  <2>1. BackupInv'
    BY <1>11 DEF PlanFails, ToRollback, BackupInv
  <2>2. TreesInv'
    BY <1>11 DEF PlanFails, ToRollback, TreesInv
  <2>3. CoreInv'
    BY <1>11 DEF PlanFails, ToRollback, CoreInv
  <2>4. RollbackInv'
    BY <1>11 DEF PlanFails, ToRollback, RollbackInv
  <2> QED BY <2>1, <2>2, <2>3, <2>4
<1>12. CASE WriteFile
  <2>1. BackupInv'
    BY <1>12 DEF WriteFile, NextFile, Satisfied, BackupInv
  <2>2. TreesInv'
    BY <1>12 DEF WriteFile, NextFile, Satisfied, TreesInv
  <2>3. CoreInv'
    BY <1>12 DEF WriteFile, NextFile, Satisfied, CoreInv
  <2>4. RollbackInv'
    BY <1>12 DEF WriteFile, NextFile, Satisfied, RollbackInv
  <2> QED BY <2>1, <2>2, <2>3, <2>4
<1>13. CASE WriteFails
  <2>1. BackupInv'
    BY <1>13 DEF WriteFails, Satisfied, BackupInv
  <2>2. TreesInv'
    BY <1>13 DEF WriteFails, Satisfied, TreesInv
  <2>3. CoreInv'
    BY <1>13 DEF WriteFails, Satisfied, CoreInv
  <2>4. RollbackInv'
    BY <1>13 DEF WriteFails, Satisfied, RollbackInv
  <2> QED BY <2>1, <2>2, <2>3, <2>4
<1>14. CASE Undo
  <2>1. BackupInv'
    BY <1>14 DEF Undo, ToRollback, Last, BackupInv
  <2>2. TreesInv'
    BY <1>14 DEF Undo, ToRollback, Last, TreesInv
  <2>3. CoreInv'
    BY <1>14 DEF Undo, ToRollback, Last, CoreInv
  <2>4. RollbackInv'
    BY <1>14 DEF Undo, ToRollback, Last, RollbackInv
  <2> QED BY <2>1, <2>2, <2>3, <2>4
<1>15. ASSUME NEW ok \in BOOLEAN, VerifyCompat(ok) PROVE Goal
  <2>1. BackupInv'
    BY <1>15 DEF VerifyCompat, ToRollback, Satisfied, BackupInv
  <2>2. TreesInv'
    BY <1>15 DEF VerifyCompat, ToRollback, Satisfied, TreesInv
  <2>3. CoreInv'
    BY <1>15 DEF VerifyCompat, ToRollback, Satisfied, CoreInv
  <2>4. RollbackInv'
    BY <1>15 DEF VerifyCompat, ToRollback, Satisfied, RollbackInv
  <2> QED BY <2>1, <2>2, <2>3, <2>4
<1>16. ASSUME NEW ok \in BOOLEAN, Verify(ok) PROVE Goal
  <2>1. BackupInv'
    BY <1>16 DEF Verify, ToRollback, Nothing, VerifierPasses, BackupInv
  <2>2. TreesInv'
    BY <1>16 DEF Verify, ToRollback, Nothing, VerifierPasses, TreesInv
  <2>3. CoreInv'
    BY <1>16 DEF Verify, ToRollback, Nothing, VerifierPasses, CoreInv
  <2>4. RollbackInv'
    BY <1>16 DEF Verify, ToRollback, Nothing, VerifierPasses, RollbackInv
  <2> QED BY <2>1, <2>2, <2>3, <2>4
<1>17. CASE Raise
  <2>1. BackupInv'
    BY <1>17 DEF Raise, ToRollback, BackupInv
  <2>2. TreesInv'
    BY <1>17 DEF Raise, ToRollback, TreesInv
  <2>3. CoreInv'
    BY <1>17 DEF Raise, ToRollback, CoreInv
  <2>4. RollbackInv'
    BY <1>17 DEF Raise, ToRollback, RollbackInv
  <2> QED BY <2>1, <2>2, <2>3, <2>4
<1>18. CASE RestoreFile
  <2>1. BackupInv'
    BY <1>18 DEF RestoreFile, AfterCore, Finish, Nothing, BackupInv
  <2>2. TreesInv'
    BY <1>18 DEF RestoreFile, AfterCore, Finish, Nothing, TreesInv
  <2>3. CoreInv'
    BY <1>18 DEF RestoreFile, AfterCore, Finish, Nothing, CoreInv
  <2>4. RollbackInv'
    <3>1. pc' = "restoreFile" \/ pc' \in RestoringTrees => core' = [core EXCEPT ![at] = saved[at]]
      BY <1>18 DEF RestoreFile, AfterCore, Finish
    <3>2. pc' \in RestoringTrees => at = NF /\ at' = 1
      BY <1>18 DEF RestoreFile, AfterCore, Finish
    <3>3. pc' \in RestoringTrees => \A f \in Files : core'[f] = saved[f]
      BY <1>18, <3>1, <3>2 DEF RestoreFile
    <3>4. pc' \in RestoringTrees => core' = saved
      BY <3>3 DEF Content
    <3> QED
      BY <1>18, <3>1, <3>2, <3>4 DEF RestoreFile, AfterCore, Finish
  <2> QED BY <2>1, <2>2, <2>3, <2>4
<1>19. CASE RestoreTree
  <2>1. BackupInv'
    BY <1>19 DEF RestoreTree, Finish, Nothing, BackupInv
  <2>2. TreesInv'
    BY <1>19 DEF RestoreTree, Finish, Nothing, TreesInv
  <2>3. CoreInv'
    BY <1>19 DEF RestoreTree, Finish, Nothing, CoreInv
  <2>4. RollbackInv'
    BY <1>19, SMTT(60) DEF RestoreTree, Finish, Nothing, RollbackInv
  <2> QED BY <2>1, <2>2, <2>3, <2>4
<1>20. CASE RollbackFails
  <2>1. BackupInv'
    BY <1>20 DEF RollbackFails, Finish, Nothing, BackupInv
  <2>2. TreesInv'
    BY <1>20 DEF RollbackFails, Finish, Nothing, TreesInv
  <2>3. CoreInv'
    BY <1>20 DEF RollbackFails, Finish, Nothing, CoreInv
  <2>4. RollbackInv'
    BY <1>20 DEF RollbackFails, Finish, Nothing, RollbackInv
  <2> QED BY <2>1, <2>2, <2>3, <2>4
<1>21. CASE Killed \/ Interrupted
  <2>1. BackupInv'
    BY <1>21 DEF Killed, Interrupted, Death, Nothing, BackupInv
  <2>2. TreesInv'
    BY <1>21 DEF Killed, Interrupted, Death, Nothing, TreesInv
  <2>3. CoreInv'
    BY <1>21 DEF Killed, Interrupted, Death, Nothing, CoreInv
  <2>4. RollbackInv'
    BY <1>21 DEF Killed, Interrupted, Death, Nothing, RollbackInv
  <2> QED BY <2>1, <2>2, <2>3, <2>4
<1> QED
  BY <1>0, <1>1, <1>2, <1>3, <1>4, <1>5, <1>6, <1>7, <1>8, <1>9, <1>10, <1>11, <1>12, <1>13, <1>14, <1>15, <1>16, <1>17, <1>18, <1>19, <1>20, <1>21, ZenonT(60)
     DEF Next, Install, PatchCore

(* InstallInv holds at the start, where no run is under way. *)
LEMMA InstallInit == Init => InstallInv
BY TypeInit DEF Init, InstallInv, BackupInv, TreesInv, CoreInv, RollbackInv, Ended,
   SwitchingTrees, Patching, RestoringCore, RestoringTrees

(* The inductive invariant of a run, for every state. *)
THEOREM RunIsSound == Spec => []InstallInv
<1>1. Init => TypeOK /\ IndexInv /\ InstallInv
  BY TypeInit, InstallInit
<1>2. TypeOK /\ InstallInv /\ [Next]_vars => (TypeOK /\ InstallInv)'
  BY TypeStep, InstallStep DEF InstallInv
<1> QED
  BY <1>1, <1>2, PTL DEF Spec

-----------------------------------------------------------------------------
(* What the installer promises *)

Promise == CleanRollback /\ InstalledCompletely /\ PluginSurvives /\ PatchedWholeOrNotAtAll

(* While a run is under way, its invariant gives every promise. *)
LEMMA Running == TypeOK /\ InstallInv /\ pc \notin Ended => Promise
<1> SUFFICES ASSUME TypeOK, InstallInv, pc \notin Ended PROVE Promise
  OBVIOUS
<1> USE DEF InstallInv, IndexInv
<1>1. CleanRollback /\ InstalledCompletely
  BY DEF CleanRollback, InstalledCompletely
<1>2. PluginSurvives
  <2> SUFFICES ASSUME NEW p \in Plugins
               PROVE  \/ tree[p] \in {tree0[p], "kit"}
                      \/ aside[p] = tree0[p]
                      \/ pc \in Rollback /\ backup[p] = tree0[p]
    BY DEF PluginSurvives
  <2>1. CASE pc \in Rollback
    BY <2>1 DEF BackupInv, Rollback, RestoringCore, RestoringTrees, Ended
  <2>2. CASE pc = "snapshot"
    BY <2>2 DEF BackupInv
  <2>3. CASE pc \in SwitchingTrees
    BY <2>3, IndexFacts DEF TreesInv, SwitchingTrees, Plugins
  <2>4. CASE pc \in Patching \union {"verify"}
    BY <2>4 DEF TreesInv
  <2> QED
    BY <2>1, <2>2, <2>3, <2>4 DEF TypeOK, Forward, SwitchingTrees, Patching
<1>3. PatchedWholeOrNotAtAll
  <2>1. ASSUME NEW f \in Files, pc \in Forward PROVE core[f] \in {saved[f], StepsOf[f]}
    BY <2>1 DEF BackupInv, TreesInv, CoreInv, Forward, SwitchingTrees, TypeOK
  <2>2. ASSUME pc = "undo", wrote = {} PROVE core = saved
    BY <2>2 DEF CoreInv, TypeOK
  <2> QED
    BY <2>1, <2>2 DEF PatchedWholeOrNotAtAll
<1> QED
  BY <1>1, <1>2, <1>3 DEF Promise

(* A run that ends keeps the promises of its outcome. *)
LEMMA PromiseStep ==
  TypeOK /\ TypeOK' /\ InstallInv /\ Promise /\ [Next]_vars /\ pc' \in Ended => Promise'
<1> SUFFICES ASSUME TypeOK, TypeOK', InstallInv, Promise, [Next]_vars, pc' \in Ended
             PROVE  Promise'
  OBVIOUS
<1> USE DEF Promise, CleanRollback, InstalledCompletely, PluginSurvives, PatchedWholeOrNotAtAll,
      Ended
<1>1. CASE UNCHANGED vars
  BY <1>1 DEF vars, Satisfied
<1>2. CASE Verify(TRUE)
  BY <1>2 DEF Verify, hostVars, runVars, InstallInv, TreesInv, CoreInv, Satisfied, Forward,
     Rollback, RestoringCore, RestoringTrees
<1>3. CASE RestoreFile
  <2>1. /\ report' = "rolledBack" /\ pc' = "done" /\ ~taken /\ at = NF
        /\ core' = [core EXCEPT ![at] = saved[at]]
    BY <1>3 DEF RestoreFile, AfterCore, Finish
  <2>2. pc \in RestoringCore /\ UNCHANGED <<tree, saved, tree0, taken>>
    BY <1>3 DEF RestoreFile, RestoringCore, runVars
  <2>3. tree' = tree0'
    BY <2>1, <2>2 DEF InstallInv, BackupInv
  <2>4. \A f \in Files : core'[f] = saved[f]
    BY <2>1, <2>2, IndexFacts DEF InstallInv, RollbackInv, TypeOK, Files
  <2>5. core' = saved'
    BY <2>2, <2>4 DEF TypeOK
  <2> QED
    BY <2>1, <2>3, <2>5 DEF Forward
<1>4. CASE RestoreTree
  <2>1. report' = "rolledBack" /\ at = NP /\ tree' = [tree EXCEPT ![at] = backup[at]]
    BY <1>4 DEF RestoreTree, Finish
  <2>2. pc \in RestoringTrees /\ UNCHANGED <<core, saved, tree0>>
    BY <1>4 DEF RestoreTree, RestoringTrees, runVars
  <2>3. core' = saved' /\ backup = tree0
    BY <2>2 DEF InstallInv, RollbackInv, BackupInv, RestoringTrees
  <2>4. \A q \in Plugins : tree'[q] = tree0[q]
    BY <2>1, <2>2, <2>3, IndexFacts DEF InstallInv, RollbackInv, TypeOK, Plugins
  <2>5. tree' = tree0'
    BY <2>2, <2>4 DEF TypeOK
  <2> QED
    BY <2>1, <2>3, <2>5, <1>4 DEF RestoreTree, Finish, Forward
<1>5. CASE RollbackFails
  BY <1>5 DEF RollbackFails, Finish, Forward
<1>6. CASE Killed \/ Interrupted
  <2> USE DEF Killed, Interrupted, Death, hostVars, runVars
  <2>1. CASE pc \in Rollback
    BY <1>6, <2>1 DEF Forward
  <2>2. CASE pc \notin Rollback
    <3>1. pc \in Forward /\ report' = "died" /\ pc' = "dead"
      BY <1>6, <2>2 DEF TypeOK
    <3>2. PatchedWholeOrNotAtAll'
      BY <1>6, <3>1
    <3>3. ASSUME NEW q \in Plugins, tree0[q] \in Whole
          PROVE  tree'[q] \in {tree0'[q], "kit"} \/ aside'[q] = tree0'[q]
      <4>1. tree[q] \in {tree0[q], "kit"} \/ aside[q] = tree0[q]
        BY <1>6, <2>2, <3>1, <3>3 DEF InstallInv, IndexInv
      <4>2. pc = "dropAside" => tree[at] = "kit"
        BY DEF InstallInv, TreesInv, SwitchingTrees
      <4> QED
        BY <1>6, <4>1, <4>2 DEF TypeOK
    <3>4. PluginSurvives'
      BY <1>6, <3>3
    <3> QED
      BY <3>1, <3>2, <3>4
  <2> QED
    BY <2>1, <2>2
<1>7. ASSUME NEW m \in {"plugins-only", "legacy-compat"}, Start(m) PROVE FALSE
  BY <1>7 DEF Start
<1>8. ASSUME Install \/ PatchCore \/ Raise PROVE FALSE
  BY <1>8 DEF Install, PatchCore, SnapshotTree, TreeMatches, StageTree, SetAside, Switch,
     SwitchFails, DropAside, DropAsideFails, Plan, PlanFails, WriteFile, WriteFails, Undo, Raise,
     NextPlugin, NextFile, ToRollback, AfterTrees
<1>9. ASSUME NEW ok \in BOOLEAN, VerifyCompat(ok) \/ (~ok /\ Verify(ok)) PROVE FALSE
  BY <1>9 DEF VerifyCompat, Verify, ToRollback
<1> QED
  BY <1>1, <1>2, <1>3, <1>4, <1>5, <1>6, <1>7, <1>8, <1>9 DEF Next

(* The promises hold in every state. *)
LEMMA PromiseHolds == Spec => []Promise
<1>1. Init => Promise
  BY DEF Init, Promise, CleanRollback, InstalledCompletely, PluginSurvives,
     PatchedWholeOrNotAtAll, Forward
<1>2. Promise /\ TypeOK /\ InstallInv /\ TypeOK' /\ InstallInv' /\ [Next]_vars => Promise'
  <2>1. (TypeOK /\ InstallInv /\ pc \notin Ended)' => Promise'
    BY Running, PTL
  <2> QED
    BY <2>1, PromiseStep
<1> QED
  BY <1>1, <1>2, TypeCorrect, RunIsSound, PTL DEF Spec

(* A run that reports a clean rollback leaves the host as it found it. *)
THEOREM RollbackRestores == Spec => []CleanRollback
BY PromiseHolds, PTL DEF Promise

(* A run that reports success has installed everything its mode asks for. *)
THEOREM SuccessIsComplete == Spec => []InstalledCompletely
BY PromiseHolds, PTL DEF Promise

(* No failure or death outside of a rollback costs the host its plugin. *)
THEOREM NoPluginLost == Spec => []PluginSurvives
BY PromiseHolds, PTL DEF Promise

(* Core files are patched whole or not at all. *)
THEOREM PatchIsAtomic == Spec => []PatchedWholeOrNotAtAll
BY PromiseHolds, PTL DEF Promise
===============================================================================
