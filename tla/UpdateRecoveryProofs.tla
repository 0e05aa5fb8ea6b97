------------------------ MODULE UpdateRecoveryProofs -------------------------
(***************************************************************************)
(* Proofs about UpdateRecovery and StartupRaces, for any set of versions,  *)
(* of processes that overlap and of Apply requests beside each other, and  *)
(* for every combination of faults.                                        *)
(***************************************************************************)
EXTENDS StartupRaces, FiniteSetTheorems, TLAPS

-----------------------------------------------------------------------------
(* The inductive invariant.                                                *)

(* Zero is no version, so NoPending is not a record.                       *)
LEMMA NoPendingIsNoRecord ==
  /\ NoPending \notin PendingUpdate /\ NoPending.phase = "none" /\ NoPending.target = 0
  /\ \A r \in PendingUpdate : r # NoPending /\ r.phase \in {"installing", "rollback"}
BY VersionsAssumption DEF NoPending, PendingUpdate

LEMMA NoCallIsNoCall ==
  NoCall \notin Calls /\ NoCall.at = "idle" /\ \A c \in Calls : c # NoCall /\ c.at # "idle"
BY DEF NoCall, Calls

(* The number of installers in flight.                                     *)
LEMMA LaunchedKeepsType ==
  ASSUME NEW i \in Installers, installers \in [Installers -> 0 .. MaxInFlight],
         installers[i] < MaxInFlight, installers' = [installers EXCEPT ![i] = @ + 1]
  PROVE  installers' \in [Installers -> 0 .. MaxInFlight]
BY BoundAssumption

LEMMA EndedKeepsType ==
  ASSUME NEW i \in Installers, installers \in [Installers -> 0 .. MaxInFlight],
         installers[i] > 0, installers' = [installers EXCEPT ![i] = @ - 1]
  PROVE  installers' \in [Installers -> 0 .. MaxInFlight]
BY BoundAssumption

(* Types, versions and owners are kept whatever overlaps.                  *)
TypesAndOwners == TypeOK /\ OneVersion /\ OwnersAreThere

LEMMA NextTypesAndOwners ==
  ASSUME TypesAndOwners, [Next]_vars
  PROVE  TypesAndOwners'
<1> USE VersionsAssumption, BoundAssumption, NoPendingIsNoRecord, NoCallIsNoCall
    DEF TypesAndOwners, TypeOK, OneVersion, OwnersAreThere, PendingUpdate, Locations,
        Windows, MaxStarts,
        MaxReadableAttempts, Readable, Step, Running, Beside, Opens, Calls
<1>1. ASSUME NEW p \in Procs, Start(p)
       PROVE  TypesAndOwners'
  BY <1>1 DEF Start
<1>2. ASSUME NEW p \in Procs, StartWithoutUpdate(p)
       PROVE  TypesAndOwners'
  BY <1>2 DEF StartWithoutUpdate
<1>3. ASSUME NEW p \in Procs, StartAfterRollback(p)
       PROVE  TypesAndOwners'
  BY <1>3 DEF StartAfterRollback
<1>4. ASSUME NEW p \in Procs, ClearRollback(p)
       PROVE  TypesAndOwners'
  BY <1>4 DEF ClearRollback
<1>5. ASSUME NEW p \in Procs, StartOfTarget(p)
       PROVE  TypesAndOwners'
  BY <1>5 DEF StartOfTarget, Counted, TargetStarted
<1>6. ASSUME NEW p \in Procs, CountAttempt(p)
       PROVE  TypesAndOwners'
  BY <1>6 DEF CountAttempt
<1>7. ASSUME NEW p \in Procs, CountAttemptFails(p)
       PROVE  TypesAndOwners'
  BY <1>7 DEF CountAttemptFails
<1>8. ASSUME NEW p \in Procs, VerifyRollback(p)
       PROVE  TypesAndOwners'
  BY <1>8 DEF VerifyRollback
<1>9. ASSUME NEW p \in Procs, ReadForRollback(p)
       PROVE  TypesAndOwners'
  BY <1>9 DEF ReadForRollback, RollingBack
<1>10. ASSUME NEW p \in Procs, BeginRollback(p)
        PROVE  TypesAndOwners'
  BY <1>10 DEF BeginRollback
<1>11. ASSUME NEW p \in Procs, LaunchRollback(p)
        PROVE  TypesAndOwners'
  <2>1. CASE UNCHANGED installers
    BY <1>11, <2>1 DEF LaunchRollback, Gone, OneMore
  <2>2. CASE Launched("rollback", copy[p].prev)
    <3>1. copy[p].prev \in Versions
      BY <1>11 DEF LaunchRollback
    <3>2. [mode |-> "rollback", version |-> copy[p].prev] \in Installers
      BY <3>1 DEF Installers
    <3>3. installers' \in [Installers -> 0 .. MaxInFlight]
      BY <2>2, <3>2, LaunchedKeepsType DEF Launched
    <3>4. QED
      BY <1>11, <3>3 DEF LaunchRollback, Gone, OneMore
  <2>3. QED
    BY <1>11, <2>1, <2>2 DEF LaunchRollback
<1>12. ASSUME NEW p \in Procs, Bind(p)
        PROVE  TypesAndOwners'
  BY <1>12 DEF Bind
<1>13. ASSUME NEW p \in Procs, BindRefused(p)
        PROVE  TypesAndOwners'
  BY <1>13 DEF BindRefused, Gone, OneMore
<1>14. ASSUME NEW p \in Procs, WindowPasses(p)
        PROVE  TypesAndOwners'
  BY <1>14, ZenonT(40) DEF WindowPasses
<1>15. ASSUME NEW p \in Procs, MarkHealthy(p)
        PROVE  TypesAndOwners'
  BY <1>15 DEF MarkHealthy
<1>16. ASSUME NEW p \in Procs, StopAfterApply(p)
        PROVE  TypesAndOwners'
  BY <1>16 DEF StopAfterApply, Gone, OneMore
<1>17. ASSUME NEW p \in Procs, Die(p)
        PROVE  TypesAndOwners'
  BY <1>17 DEF Die, Gone, OneMore
<1>18. ASSUME NEW r \in Applies, PrepareWrites(r)
        PROVE  TypesAndOwners'
  BY <1>18 DEF PrepareWrites, Prepared
<1>19. ASSUME NEW r \in Applies, LaunchUpdate(r)
        PROVE  TypesAndOwners'
  <2>1. CASE UNCHANGED installers
    BY <1>19, <2>1 DEF LaunchUpdate
  <2>2. CASE Launched("update", apply[r].target)
    <3>1. apply[r].target \in Versions
      BY <1>19 DEF LaunchUpdate
    <3>2. [mode |-> "update", version |-> apply[r].target] \in Installers
      BY <3>1 DEF Installers
    <3>3. installers' \in [Installers -> 0 .. MaxInFlight]
      BY <2>2, <3>2, LaunchedKeepsType DEF Launched
    <3>4. QED
      BY <1>19, <3>3 DEF LaunchUpdate
  <2>3. QED
    BY <1>19, <2>1, <2>2 DEF LaunchUpdate
<1>20. ASSUME NEW r \in Applies, NEW p \in Procs, NEW target \in Versions, PrepareReads(r, p,
              target)
       PROVE  TypesAndOwners'
  BY <1>20 DEF PrepareReads, CanPrepare
<1>21. ASSUME NEW i \in Installers, InstallerReplaces(i)
       PROVE  TypesAndOwners'
  <2>1. i.version \in Versions
    BY DEF Installers
  <2>2. installers' \in [Installers -> 0 .. MaxInFlight]
    BY <1>21, EndedKeepsType DEF InstallerReplaces
  <2>3. QED
    BY <1>21, <2>1, <2>2 DEF InstallerReplaces
<1>22. ASSUME NEW i \in Installers, InstallerFails(i)
       PROVE  TypesAndOwners'
  <2>1. installers' \in [Installers -> 0 .. MaxInFlight]
    BY <1>22, EndedKeepsType DEF InstallerFails
  <2>2. QED
    BY <1>22, <2>1 DEF InstallerFails
<1>23. CASE UNCHANGED vars
  BY <1>23 DEF vars
<1>24. QED
  BY <1>1, <1>2, <1>3, <1>4, <1>5, <1>6, <1>7, <1>8, <1>9, <1>10, <1>11, <1>12, <1>13, <1>14,
     <1>15, <1>16, <1>17, <1>18, <1>19, <1>20, <1>21, <1>22, <1>23
  DEF Next, ProcessStep, StartupStep, WindowStep, ApplyStep, ApplyReads, InstallerStep

(* A transaction that begins beside another one is noted.                  *)
LEMMA NextOneUnderWay ==
  ASSUME TypeOK, OwnersAreThere, contended \/ OneUnderWay, [Next]_vars
  PROVE  (contended \/ OneUnderWay)'
<1> USE NoCallIsNoCall
    DEF TypeOK, OwnersAreThere, OneUnderWay, StartsUnderWay, WindowsUnderWay,
        AppliesUnderWay, UnderWay,
        Locations, Windows, Step, Beside, Opens
<1>1. ASSUME NEW p \in Procs, Start(p)
       PROVE  (contended \/ OneUnderWay)'
  BY <1>1 DEF Start
<1>2. ASSUME NEW p \in Procs, StartWithoutUpdate(p)
       PROVE  (contended \/ OneUnderWay)'
  BY <1>2 DEF StartWithoutUpdate
<1>3. ASSUME NEW p \in Procs, StartAfterRollback(p)
       PROVE  (contended \/ OneUnderWay)'
  BY <1>3, ZenonT(40) DEF StartAfterRollback
<1>4. ASSUME NEW p \in Procs, ClearRollback(p)
       PROVE  (contended \/ OneUnderWay)'
  BY <1>4 DEF ClearRollback
<1>5. ASSUME NEW p \in Procs, StartOfTarget(p)
       PROVE  (contended \/ OneUnderWay)'
  BY <1>5, ZenonT(40) DEF StartOfTarget
<1>6. ASSUME NEW p \in Procs, CountAttempt(p)
       PROVE  (contended \/ OneUnderWay)'
  BY <1>6 DEF CountAttempt
<1>7. ASSUME NEW p \in Procs, CountAttemptFails(p)
       PROVE  (contended \/ OneUnderWay)'
  BY <1>7 DEF CountAttemptFails
<1>8. ASSUME NEW p \in Procs, VerifyRollback(p)
       PROVE  (contended \/ OneUnderWay)'
  BY <1>8 DEF VerifyRollback
<1>9. ASSUME NEW p \in Procs, ReadForRollback(p)
       PROVE  (contended \/ OneUnderWay)'
  BY <1>9 DEF ReadForRollback
<1>10. ASSUME NEW p \in Procs, BeginRollback(p)
        PROVE  (contended \/ OneUnderWay)'
  BY <1>10 DEF BeginRollback
<1>11. ASSUME NEW p \in Procs, LaunchRollback(p)
        PROVE  (contended \/ OneUnderWay)'
  BY <1>11 DEF LaunchRollback, Gone, OneMore
<1>12. ASSUME NEW p \in Procs, Bind(p)
        PROVE  (contended \/ OneUnderWay)'
  BY <1>12 DEF Bind
<1>13. ASSUME NEW p \in Procs, BindRefused(p)
        PROVE  (contended \/ OneUnderWay)'
  BY <1>13 DEF BindRefused, Gone, OneMore
<1>14. ASSUME NEW p \in Procs, WindowPasses(p)
        PROVE  (contended \/ OneUnderWay)'
  <2>1. CASE window' = [window EXCEPT ![p] = "over"]
    BY <1>14, <2>1 DEF WindowPasses
  <2>2. CASE window' = [window EXCEPT ![p] = "healthy"] /\ Opens
    <3>1. \/ contended'
          \/ /\ ~contended
             /\ StartsUnderWay = {} /\ WindowsUnderWay = {} /\ AppliesUnderWay = {}
      BY <2>2 DEF Opens, UnderWay
    <3>2. UNCHANGED <<pc, apply>>
      BY <1>14 DEF WindowPasses
    <3>3. QED
      BY <2>2, <3>1, <3>2
  <2>3. QED
    BY <1>14, <2>1, <2>2 DEF WindowPasses
<1>15. ASSUME NEW p \in Procs, MarkHealthy(p)
        PROVE  (contended \/ OneUnderWay)'
  BY <1>15 DEF MarkHealthy
<1>16. ASSUME NEW p \in Procs, StopAfterApply(p)
        PROVE  (contended \/ OneUnderWay)'
  BY <1>16 DEF StopAfterApply, Gone, OneMore
<1>17. ASSUME NEW p \in Procs, Die(p)
        PROVE  (contended \/ OneUnderWay)'
  BY <1>17 DEF Die, Gone, OneMore
<1>18. ASSUME NEW r \in Applies, PrepareWrites(r)
        PROVE  (contended \/ OneUnderWay)'
  BY <1>18 DEF PrepareWrites
<1>19. ASSUME NEW r \in Applies, LaunchUpdate(r)
        PROVE  (contended \/ OneUnderWay)'
  BY <1>19 DEF LaunchUpdate
<1>20. ASSUME NEW r \in Applies, NEW p \in Procs, NEW target \in Versions, PrepareReads(r, p,
              target)
       PROVE  (contended \/ OneUnderWay)'
  BY <1>20, ZenonT(40) DEF PrepareReads
<1>21. ASSUME NEW i \in Installers, InstallerReplaces(i)
       PROVE  (contended \/ OneUnderWay)'
  BY <1>21 DEF InstallerReplaces
<1>22. ASSUME NEW i \in Installers, InstallerFails(i)
       PROVE  (contended \/ OneUnderWay)'
  BY <1>22 DEF InstallerFails
<1>23. CASE UNCHANGED vars
  BY <1>23 DEF vars
<1>24. QED
  BY <1>1, <1>2, <1>3, <1>4, <1>5, <1>6, <1>7, <1>8, <1>9, <1>10, <1>11, <1>12, <1>13, <1>14,
     <1>15, <1>16, <1>17, <1>18, <1>19, <1>20, <1>21, <1>22, <1>23
  DEF Next, ProcessStep, StartupStep, WindowStep, ApplyStep, ApplyReads, InstallerStep

(* The record against versions and installers, before any contention.      *)
LEMMA NextRecordMatchesDisk ==
  ASSUME TypeOK, OneVersion, OwnersAreThere, ~contended, OneUnderWay, RecordMatchesDisk,
         CopiesAreCurrent, [Next]_vars, ~contended'
  PROVE  RecordMatchesDisk'
<1> USE VersionsAssumption, NoPendingIsNoRecord, NoCallIsNoCall
    DEF TypeOK, OneVersion, OwnersAreThere, RecordMatchesDisk, CopiesAreCurrent, NoneFlies,
        Running,
        Step, Beside, PendingUpdate
<1>1. ASSUME NEW p \in Procs, Start(p)
       PROVE  RecordMatchesDisk'
  BY <1>1 DEF Start
<1>2. ASSUME NEW p \in Procs, StartWithoutUpdate(p)
       PROVE  RecordMatchesDisk'
  BY <1>2 DEF StartWithoutUpdate
<1>3. ASSUME NEW p \in Procs, StartAfterRollback(p)
       PROVE  RecordMatchesDisk'
  BY <1>3 DEF StartAfterRollback
<1>4. ASSUME NEW p \in Procs, ClearRollback(p)
       PROVE  RecordMatchesDisk'
  BY <1>4 DEF ClearRollback, ReturnedToPrevious
<1>5. ASSUME NEW p \in Procs, StartOfTarget(p)
       PROVE  RecordMatchesDisk'
  BY <1>5 DEF StartOfTarget
<1>6. ASSUME NEW p \in Procs, CountAttempt(p)
       PROVE  RecordMatchesDisk'
  BY <1>6 DEF CountAttempt, Counted, TargetStarted, Readable
<1>7. ASSUME NEW p \in Procs, CountAttemptFails(p)
       PROVE  RecordMatchesDisk'
  BY <1>7 DEF CountAttemptFails
<1>8. ASSUME NEW p \in Procs, VerifyRollback(p)
       PROVE  RecordMatchesDisk'
  BY <1>8 DEF VerifyRollback
<1>9. ASSUME NEW p \in Procs, ReadForRollback(p)
       PROVE  RecordMatchesDisk'
  BY <1>9 DEF ReadForRollback
<1>10. ASSUME NEW p \in Procs, BeginRollback(p)
        PROVE  RecordMatchesDisk'
  BY <1>10 DEF BeginRollback, RollingBack
<1>11. ASSUME NEW p \in Procs, LaunchRollback(p)
        PROVE  RecordMatchesDisk'
  BY <1>11 DEF LaunchRollback, Launched, Gone, RollingBack, Installers
<1>12. ASSUME NEW p \in Procs, Bind(p)
        PROVE  RecordMatchesDisk'
  BY <1>12 DEF Bind
<1>13. ASSUME NEW p \in Procs, BindRefused(p)
        PROVE  RecordMatchesDisk'
  BY <1>13 DEF BindRefused, Gone
<1>14. ASSUME NEW p \in Procs, WindowPasses(p)
        PROVE  RecordMatchesDisk'
  BY <1>14 DEF WindowPasses
<1>15. ASSUME NEW p \in Procs, MarkHealthy(p)
        PROVE  RecordMatchesDisk'
  BY <1>15 DEF MarkHealthy, TargetStarted
<1>16. ASSUME NEW p \in Procs, StopAfterApply(p)
        PROVE  RecordMatchesDisk'
  BY <1>16 DEF StopAfterApply, Gone
<1>17. ASSUME NEW p \in Procs, Die(p)
        PROVE  RecordMatchesDisk'
  BY <1>17 DEF Die, Gone
<1>18. ASSUME NEW r \in Applies, PrepareWrites(r)
        PROVE  RecordMatchesDisk'
  <2>1. CASE UNCHANGED pending
    BY <1>18, <2>1 DEF PrepareWrites
  <2>2. CASE pending' = Prepared(ver[apply[r].by], apply[r].target)
    <3>1. /\ pending = NoPending
          /\ ver[apply[r].by] = installed
          /\ apply[r].target > installed
      BY <1>18 DEF PrepareWrites, Calls
    <3>2. installed = good /\ \A i \in Installers : installers[i] = 0
      BY <3>1
    <3>3. /\ pending' # NoPending
          /\ pending'.prev = good /\ pending'.target > good
          /\ pending'.phase = "installing"
      BY <2>2, <3>1, <3>2 DEF Prepared
    <3>4. UNCHANGED <<installed, installers, good>>
      BY <1>18 DEF PrepareWrites
    <3>5. QED
      BY <3>2, <3>3, <3>4
  <2>3. QED
    BY <1>18, <2>1, <2>2 DEF PrepareWrites
<1>19. ASSUME NEW r \in Applies, LaunchUpdate(r)
        PROVE  RecordMatchesDisk'
  <2>1. CASE UNCHANGED installers
    BY <1>19, <2>1 DEF LaunchUpdate
  <2>2. CASE Launched("update", apply[r].target)
    <3> DEFINE mine == [mode |-> "update", version |-> apply[r].target]
    <3>1. /\ pending = Prepared(ver[apply[r].by], apply[r].target)
          /\ ver[apply[r].by] = installed
          /\ \A i \in Installers : installers[i] = 0
      BY <1>19 DEF LaunchUpdate, Calls
    <3>2. /\ pending.target = apply[r].target
          /\ pending.prev = installed
          /\ pending.phase = "installing"
          /\ pending # NoPending
      BY <3>1 DEF Prepared
    <3>3. installed = good
      BY <3>2
    <3>4. \A i \in Installers : installers'[i] > 0 => i = mine /\ installers'[i] = 1
      BY <2>2, <3>1 DEF Launched
    <3>5. UNCHANGED <<pending, installed, good>>
      BY <1>19 DEF LaunchUpdate
    <3>6. QED
      BY <3>2, <3>3, <3>4, <3>5
  <2>3. QED
    BY <1>19, <2>1, <2>2 DEF LaunchUpdate
<1>20. ASSUME NEW r \in Applies, NEW p \in Procs, NEW target \in Versions, PrepareReads(r, p,
              target)
       PROVE  RecordMatchesDisk'
  BY <1>20 DEF PrepareReads
<1>21. ASSUME NEW i \in Installers, InstallerReplaces(i)
       PROVE  RecordMatchesDisk'
  <2>1. pending # NoPending /\ pending.phase \in {"installing", "rollback"}
    BY <1>21 DEF InstallerReplaces
  <2>2. CASE pending.phase = "installing"
    <3>1. /\ i = [mode |-> "update", version |-> pending.target]
          /\ installers[i] = 1
          /\ \A j \in Installers : installers[j] > 0 => j = i
      BY <1>21, <2>2 DEF InstallerReplaces
    <3>2. installed' = pending.target /\ \A j \in Installers : ~(installers'[j] > 0)
      BY <1>21, <3>1 DEF InstallerReplaces
    <3>3. QED
      BY <1>21, <2>1, <2>2, <3>2 DEF InstallerReplaces
  <2>3. CASE pending.phase = "rollback"
    <3>1. /\ i = [mode |-> "rollback", version |-> good]
          /\ installers[i] = 1
          /\ \A j \in Installers : installers[j] > 0 => j = i
      BY <1>21, <2>3 DEF InstallerReplaces
    <3>2. installed' = good /\ \A j \in Installers : ~(installers'[j] > 0)
      BY <1>21, <3>1 DEF InstallerReplaces
    <3>3. QED
      BY <1>21, <2>1, <2>3, <3>2 DEF InstallerReplaces
  <2>4. QED
    BY <2>1, <2>2, <2>3
<1>22. ASSUME NEW i \in Installers, InstallerFails(i)
       PROVE  RecordMatchesDisk'
  BY <1>22 DEF InstallerFails, Installers
<1>23. CASE UNCHANGED vars
  BY <1>23 DEF vars
<1>24. QED
  BY <1>1, <1>2, <1>3, <1>4, <1>5, <1>6, <1>7, <1>8, <1>9, <1>10, <1>11, <1>12, <1>13, <1>14,
     <1>15, <1>16, <1>17, <1>18, <1>19, <1>20, <1>21, <1>22, <1>23
  DEF Next, ProcessStep, StartupStep, WindowStep, ApplyStep, ApplyReads, InstallerStep

(* The copies of the one transaction under way.                            *)
LEMMA NextCopiesAreCurrent ==
  ASSUME TypeOK, OneVersion, OwnersAreThere, ~contended, OneUnderWay, RecordMatchesDisk,
         CopiesAreCurrent, [Next]_vars, ~contended'
  PROVE  CopiesAreCurrent'
<1> USE VersionsAssumption, NoPendingIsNoRecord, NoCallIsNoCall
    DEF TypeOK, OneVersion, OwnersAreThere, CopiesAreCurrent, NoneFlies, Running,
        Step, Beside, PendingUpdate, Calls
<1>1. ASSUME NEW p \in Procs, Start(p)
       PROVE  CopiesAreCurrent'
  BY <1>1 DEF Start
<1>2. ASSUME NEW p \in Procs, StartWithoutUpdate(p)
       PROVE  CopiesAreCurrent'
  BY <1>2 DEF StartWithoutUpdate
<1>3. ASSUME NEW p \in Procs, StartAfterRollback(p)
       PROVE  CopiesAreCurrent'
  BY <1>3
  DEF StartAfterRollback, Opens, UnderWay, StartsUnderWay, WindowsUnderWay, AppliesUnderWay,
      ReturnedToPrevious
<1>4. ASSUME NEW p \in Procs, ClearRollback(p)
       PROVE  CopiesAreCurrent'
  BY <1>4 DEF ClearRollback, OneUnderWay, StartsUnderWay, WindowsUnderWay, AppliesUnderWay
<1>5. ASSUME NEW p \in Procs, StartOfTarget(p)
       PROVE  CopiesAreCurrent'
  BY <1>5 DEF StartOfTarget, Opens, UnderWay, StartsUnderWay, WindowsUnderWay, AppliesUnderWay
<1>6. ASSUME NEW p \in Procs, CountAttempt(p)
       PROVE  CopiesAreCurrent'
  BY <1>6
  DEF CountAttempt, OneUnderWay, StartsUnderWay, WindowsUnderWay, AppliesUnderWay, Counted,
      TargetStarted
<1>7. ASSUME NEW p \in Procs, CountAttemptFails(p)
       PROVE  CopiesAreCurrent'
  BY <1>7 DEF CountAttemptFails
<1>8. ASSUME NEW p \in Procs, VerifyRollback(p)
       PROVE  CopiesAreCurrent'
  BY <1>8 DEF VerifyRollback
<1>9. ASSUME NEW p \in Procs, ReadForRollback(p)
       PROVE  CopiesAreCurrent'
  BY <1>9, SMTT(20) DEF ReadForRollback, RollingBack
<1>10. ASSUME NEW p \in Procs, BeginRollback(p)
        PROVE  CopiesAreCurrent'
  <2>1. CASE UNCHANGED pending /\ pc' = [pc EXCEPT ![p] = "bind"]
    BY <1>10, <2>1 DEF BeginRollback
  <2>2. CASE pending' = again[p] /\ pc' = [pc EXCEPT ![p] = "launchRollback"]
    <3>1. /\ pending' = RollingBack(copy[p])
          /\ pending = copy[p] /\ pending \in PendingUpdate
          /\ pending.phase = "installing" /\ ver[p] = pending.target
          /\ ver[p] = installed
      BY <1>10, <2>2 DEF BeginRollback
    <3>2. pending'.target = pending.target
      BY <3>1 DEF RollingBack
    <3>3. \A i \in Installers : installers[i] = 0
      BY <3>1 DEF RecordMatchesDisk
    <3>4. /\ \A q \in Procs \ {p} : q \notin StartsUnderWay
          /\ \A q \in Procs : window[q] # "healthy"
          /\ \A r \in Applies : apply[r].at \notin {"write", "launch"}
      BY <1>10 DEF BeginRollback, OneUnderWay, StartsUnderWay, WindowsUnderWay, AppliesUnderWay
    <3>5. UNCHANGED <<installers, copy, again, ver, window, apply>>
      BY <1>10 DEF BeginRollback
    <3>6. /\ pc'[p] = "launchRollback"
          /\ \A q \in Procs : q # p =>
               pc'[q] \notin {"clear", "count", "verify", "begin", "rollback", "launchRollback"}
      BY <2>2, <3>4 DEF StartsUnderWay
    <3>7. /\ pending' = RollingBack(copy'[p]) /\ ver'[p] = pending'.target
          /\ \A i \in Installers : installers'[i] = 0
      BY <3>1, <3>2, <3>3, <3>5
    <3>8. QED
      BY <3>4, <3>5, <3>6, <3>7, ZenonT(30) DEF CopiesAreCurrent, NoneFlies
  <2>3. QED
    BY <1>10, <2>1, <2>2 DEF BeginRollback
<1>11. ASSUME NEW p \in Procs, LaunchRollback(p)
        PROVE  CopiesAreCurrent'
  BY <1>11
  DEF LaunchRollback, OneUnderWay, StartsUnderWay, WindowsUnderWay, AppliesUnderWay,
      Launched, Gone, RollingBack
<1>12. ASSUME NEW p \in Procs, Bind(p)
        PROVE  CopiesAreCurrent'
  BY <1>12 DEF Bind
<1>13. ASSUME NEW p \in Procs, BindRefused(p)
        PROVE  CopiesAreCurrent'
  BY <1>13 DEF BindRefused, Gone
<1>14. ASSUME NEW p \in Procs, WindowPasses(p)
        PROVE  CopiesAreCurrent'
  BY <1>14 DEF WindowPasses, Opens, UnderWay, StartsUnderWay, WindowsUnderWay, AppliesUnderWay
<1>15. ASSUME NEW p \in Procs, MarkHealthy(p)
        PROVE  CopiesAreCurrent'
  BY <1>15 DEF MarkHealthy, OneUnderWay, StartsUnderWay, WindowsUnderWay, AppliesUnderWay
<1>16. ASSUME NEW p \in Procs, StopAfterApply(p)
        PROVE  CopiesAreCurrent'
  BY <1>16 DEF StopAfterApply, Gone
<1>17. ASSUME NEW p \in Procs, Die(p)
        PROVE  CopiesAreCurrent'
  BY <1>17 DEF Die, Gone
<1>18. ASSUME NEW r \in Applies, PrepareWrites(r)
        PROVE  CopiesAreCurrent'
  <2>1. /\ apply[r].at = "write" /\ pending = NoPending /\ NoneFlies
        /\ UNCHANGED <<installers, pc, ver, copy, again, window>>
    BY <1>18 DEF PrepareWrites, RecordMatchesDisk
  <2>2. /\ StartsUnderWay = {} /\ WindowsUnderWay = {}
        /\ \A s \in AppliesUnderWay : s = r
    BY <2>1 DEF OneUnderWay, AppliesUnderWay
  <2>3. \A s \in Applies \ {r} : apply'[s].at \notin {"write", "launch"}
    BY <1>18, <2>2 DEF PrepareWrites, AppliesUnderWay
  <2>4. \A p \in Procs :
          /\ pc[p] \notin {"clear", "count", "verify", "begin", "rollback", "launchRollback"}
          /\ window[p] # "healthy"
    BY <2>2 DEF StartsUnderWay, WindowsUnderWay
  <2>5. CASE /\ pending' = Prepared(ver[apply[r].by], apply[r].target)
             /\ apply' = [apply EXCEPT ![r].at = "launch"]
    <3>1. apply'[r] = [apply[r] EXCEPT !.at = "launch"] /\ apply[r] \in Calls
      BY <2>1, <2>5
    <3>2. apply'[r].at = "launch" /\ apply'[r].by = apply[r].by
          /\ apply'[r].target = apply[r].target
      BY <3>1
    <3>3. QED
      BY <2>1, <2>3, <2>4, <2>5, <3>2
  <2>6. CASE apply' = [apply EXCEPT ![r] = NoCall]
    BY <2>1, <2>3, <2>4, <2>6
  <2>7. QED
    BY <1>18, <2>5, <2>6 DEF PrepareWrites
<1>19. ASSUME NEW r \in Applies, LaunchUpdate(r)
        PROVE  CopiesAreCurrent'
  BY <1>19, SMTT(20)
  DEF LaunchUpdate, OneUnderWay, StartsUnderWay, WindowsUnderWay, AppliesUnderWay, Launched,
      Prepared
<1>20. ASSUME NEW r \in Applies, NEW p \in Procs, NEW target \in Versions, PrepareReads(r, p,
              target)
       PROVE  CopiesAreCurrent'
  BY <1>20 DEF PrepareReads, Opens, UnderWay, StartsUnderWay, WindowsUnderWay, AppliesUnderWay
<1>21. ASSUME NEW i \in Installers, InstallerReplaces(i)
       PROVE  CopiesAreCurrent'
  BY <1>21 DEF InstallerReplaces, TargetStarted
<1>22. ASSUME NEW i \in Installers, InstallerFails(i)
       PROVE  CopiesAreCurrent'
  BY <1>22 DEF InstallerFails
<1>23. CASE UNCHANGED vars
  BY <1>23 DEF vars
<1>24. QED
  BY <1>1, <1>2, <1>3, <1>4, <1>5, <1>6, <1>7, <1>8, <1>9, <1>10, <1>11, <1>12, <1>13, <1>14,
     <1>15, <1>16, <1>17, <1>18, <1>19, <1>20, <1>21, <1>22, <1>23
  DEF Next, ProcessStep, StartupStep, WindowStep, ApplyStep, ApplyReads, InstallerStep

(* The counts: a start that is counted is one more that has not proved     *)
(* itself, and one that ends is one more that failed.                      *)
LEMMA UnprovedIsFinite == IsFiniteSet(Unproved) /\ Cardinality(Unproved) \in Nat
<1>1. Unproved \subseteq Procs
  BY DEF Unproved
<1>2. QED
  BY <1>1, ProcsAssumption, FS_Subset, FS_CardinalityType

LEMMA CountStays ==
  ASSUME FailuresAreCounted, UNCHANGED <<pending, failed, Unproved>>
  PROVE  FailuresAreCounted'
BY DEF FailuresAreCounted

LEMMA GoneKeepsCount ==
  ASSUME TypeOK, FailuresAreCounted, NEW p \in Procs, Gone(p)
  PROVE  FailuresAreCounted'
<1>1. Unproved' = Unproved \ {p}
  BY DEF Gone, Unproved, TypeOK
<1>2. UNCHANGED <<pending, ver>>
  BY DEF Gone
<1>3. CASE p \in Unproved
  <2>1. Cardinality(Unproved') = Cardinality(Unproved) - 1
    BY <1>1, <1>3, UnprovedIsFinite, FS_RemoveElement
  <2>2. failed' = failed + 1 \/ failed' = 4
    BY <1>3 DEF Gone, Unproved, OneMore, TypeOK, MaxStarts, MaxReadableAttempts
  <2>3. Cardinality(Unproved') \in Nat
    BY <1>1, ProcsAssumption, UnprovedIsFinite, FS_Subset, FS_CardinalityType
  <2>4. QED
    BY <1>2, <2>1, <2>2, <2>3, UnprovedIsFinite
    DEF FailuresAreCounted, TypeOK, MaxStarts, MaxReadableAttempts,
       RollbackThreshold
<1>4. CASE p \notin Unproved
  <2>1. Unproved' = Unproved /\ failed' = failed
    BY <1>1, <1>4 DEF Gone, Unproved
  <2>2. QED
    BY <1>2, <2>1, CountStays
<1>5. QED
  BY <1>3, <1>4

LEMMA NextFailuresAreCounted ==
  ASSUME TypeOK, OwnersAreThere, CopiesAreCurrent, FailuresAreCounted, [Next]_vars
  PROVE  FailuresAreCounted'
<1>1. ASSUME NEW p \in Procs, Start(p)
       PROVE  FailuresAreCounted'
  <2>1. Unproved' = Unproved
    BY <1>1 DEF Start, Unproved, OwnersAreThere, Step, TypeOK
  <2>2. QED
    BY <1>1, <2>1, CountStays DEF Start
<1>2. ASSUME NEW p \in Procs, StartWithoutUpdate(p)
       PROVE  FailuresAreCounted'
  BY <1>2, CountStays DEF StartWithoutUpdate, Beside, Unproved
<1>3. ASSUME NEW p \in Procs, StartAfterRollback(p)
       PROVE  FailuresAreCounted'
  BY <1>3, CountStays DEF StartAfterRollback, Beside, Unproved
<1>4. ASSUME NEW p \in Procs, ClearRollback(p)
       PROVE  FailuresAreCounted'
  <2>1. CASE UNCHANGED pending
    BY <1>4, <2>1, CountStays DEF ClearRollback, Beside, Unproved
  <2>2. CASE pending' = NoPending
    BY <2>2 DEF FailuresAreCounted, NoPending
  <2>3. QED
    BY <1>4, <2>1, <2>2 DEF ClearRollback
<1>5. ASSUME NEW p \in Procs, StartOfTarget(p)
       PROVE  FailuresAreCounted'
  BY <1>5, CountStays DEF StartOfTarget, Beside, Unproved
<1>6. ASSUME NEW p \in Procs, CountAttempt(p)
       PROVE  FailuresAreCounted'
  <2>1. /\ pending \in PendingUpdate /\ pending.phase = "installing"
        /\ ver[p] = pending.target /\ pending' = Counted(pending)
        /\ pending.attempts <= MaxReadableAttempts
        /\ window[p] = "none"
    BY <1>6
    DEF CountAttempt, CopiesAreCurrent, TargetStarted, Readable, Step, TypeOK, OwnersAreThere
  <2>2. /\ pending'.phase = "installing" /\ pending'.target = pending.target
        /\ pending'.attempts = pending.attempts + 1
        /\ pending.attempts \in Nat
    BY <2>1 DEF Counted, PendingUpdate, MaxReadableAttempts
  <2>3. UNCHANGED <<failed, ver>>
    BY <1>6 DEF CountAttempt, Beside
  <2>4. CASE window' = [window EXCEPT ![p] = "armed"]
    <3>1. p \notin Unproved /\ Unproved' = Unproved \cup {p}
      BY <2>1, <2>2, <2>3, <2>4 DEF Unproved, TypeOK
    <3>2. Cardinality(Unproved') = Cardinality(Unproved) + 1
      BY <3>1, UnprovedIsFinite, FS_AddElement
    <3>3. QED
      BY <2>1, <2>2, <2>3, <3>2, UnprovedIsFinite DEF FailuresAreCounted, TypeOK, MaxStarts,
         MaxReadableAttempts, RollbackThreshold
  <2>5. CASE UNCHANGED window /\ RollbackRequired(copy[p])
    <3>1. Unproved' = Unproved
      BY <2>2, <2>3, <2>5 DEF Unproved
    <3>2. copy[p] = Counted(pending)
      BY <1>6 DEF CountAttempt, CopiesAreCurrent, Step
    <3>3. pending.attempts + 1 >= 3
      BY <2>1, <2>2, <2>5, <3>2 DEF RollbackRequired, Counted, RollbackThreshold
    <3>4. QED
      BY <2>1, <2>2, <2>3, <3>1, <3>3, UnprovedIsFinite
      DEF FailuresAreCounted, TypeOK, MaxStarts,
         MaxReadableAttempts, RollbackThreshold
  <2>6. QED
    BY <1>6, <2>4, <2>5 DEF CountAttempt
<1>7. ASSUME NEW p \in Procs, CountAttemptFails(p)
       PROVE  FailuresAreCounted'
  BY <1>7, CountStays DEF CountAttemptFails, Beside, Unproved
<1>8. ASSUME NEW p \in Procs, VerifyRollback(p)
       PROVE  FailuresAreCounted'
  BY <1>8, CountStays DEF VerifyRollback, Beside, Unproved
<1>9. ASSUME NEW p \in Procs, ReadForRollback(p)
       PROVE  FailuresAreCounted'
  BY <1>9, CountStays DEF ReadForRollback, Beside, Unproved
<1>10. ASSUME NEW p \in Procs, BeginRollback(p)
        PROVE  FailuresAreCounted'
  <2>1. CASE UNCHANGED pending
    BY <1>10, <2>1, CountStays DEF BeginRollback, Beside, Unproved
  <2>2. CASE pending' = again[p]
    <3>1. /\ pending' = RollingBack(pending) /\ pending \in PendingUpdate
          /\ pending.phase = "installing" /\ pending.attempts >= 3
      BY <1>10, <2>2 DEF BeginRollback, CopiesAreCurrent, RollbackRequired, RollbackThreshold,
         Step, OwnersAreThere
    <3>2. pending'.phase = "rollback" /\ pending'.target = pending.target
      BY <3>1 DEF RollingBack, PendingUpdate
    <3>3. Unproved' = Unproved /\ failed' = failed
      BY <1>10, <3>2 DEF BeginRollback, Beside, Unproved
    <3>4. QED
      BY <3>1, <3>2, <3>3, UnprovedIsFinite DEF FailuresAreCounted, TypeOK, MaxStarts,
         MaxReadableAttempts, RollbackThreshold, PendingUpdate
  <2>3. QED
    BY <1>10, <2>1, <2>2 DEF BeginRollback
<1>11. ASSUME NEW p \in Procs, LaunchRollback(p)
        PROVE  FailuresAreCounted'
  <2>1. CASE Gone(p)
    BY <2>1, GoneKeepsCount
  <2>2. CASE UNCHANGED <<pending, installers, copy, again, window, contended, Beside>>
    BY <2>2, CountStays DEF Beside, Unproved
  <2>3. QED
    BY <1>11, <2>1, <2>2 DEF LaunchRollback
<1>12. ASSUME NEW p \in Procs, Bind(p)
        PROVE  FailuresAreCounted'
  BY <1>12, CountStays DEF Bind, Beside, Unproved
<1>13. ASSUME NEW p \in Procs, BindRefused(p)
        PROVE  FailuresAreCounted'
  BY <1>13, GoneKeepsCount DEF BindRefused
<1>14. ASSUME NEW p \in Procs, WindowPasses(p)
        PROVE  FailuresAreCounted'
  <2>1. Unproved' = Unproved
    BY <1>14 DEF WindowPasses, Unproved, TypeOK, Beside
  <2>2. QED
    BY <1>14, <2>1, CountStays DEF WindowPasses, Beside
<1>15. ASSUME NEW p \in Procs, MarkHealthy(p)
        PROVE  FailuresAreCounted'
  <2>1. CASE pending' = NoPending
    BY <2>1 DEF FailuresAreCounted, NoPending
  <2>2. CASE UNCHANGED <<pending, good>> /\ window' = [window EXCEPT ![p] = "over"]
    <3>1. Unproved' = Unproved
      BY <1>15, <2>2 DEF MarkHealthy, Unproved, TypeOK
    <3>2. QED
      BY <1>15, <2>2, <3>1, CountStays DEF MarkHealthy
  <2>3. QED
    BY <1>15, <2>1, <2>2 DEF MarkHealthy
<1>16. ASSUME NEW p \in Procs, StopAfterApply(p)
        PROVE  FailuresAreCounted'
  BY <1>16, GoneKeepsCount DEF StopAfterApply
<1>17. ASSUME NEW p \in Procs, Die(p)
        PROVE  FailuresAreCounted'
  BY <1>17, GoneKeepsCount DEF Die
<1>18. ASSUME NEW r \in Applies, PrepareWrites(r)
        PROVE  FailuresAreCounted'
  <2>1. CASE UNCHANGED <<pending, failed>>
    BY <1>18, <2>1, CountStays DEF PrepareWrites, Unproved
  <2>2. CASE failed' = 0 /\ pending' = Prepared(ver[apply[r].by], apply[r].target)
    <3>1. pending'.phase = "installing" /\ pending'.attempts = 0
      BY <2>2 DEF Prepared
    <3>2. Unproved' \subseteq Procs
      BY DEF Unproved
    <3>3. Cardinality(Unproved') \in Nat
      BY <3>2, ProcsAssumption, FS_Subset, FS_CardinalityType
    <3>4. QED
      BY <2>2, <3>1, <3>3 DEF FailuresAreCounted
  <2>3. QED
    BY <1>18, <2>1, <2>2 DEF PrepareWrites
<1>19. ASSUME NEW r \in Applies, LaunchUpdate(r)
        PROVE  FailuresAreCounted'
  BY <1>19, CountStays DEF LaunchUpdate, Beside, Unproved
<1>20. ASSUME NEW r \in Applies, NEW p \in Procs, NEW target \in Versions, PrepareReads(r, p,
              target)
       PROVE  FailuresAreCounted'
  BY <1>20, CountStays DEF PrepareReads, Beside, Unproved
<1>21. ASSUME NEW i \in Installers, InstallerReplaces(i)
       PROVE  FailuresAreCounted'
  BY <1>21, CountStays DEF InstallerReplaces, Beside, Unproved
<1>22. ASSUME NEW i \in Installers, InstallerFails(i)
       PROVE  FailuresAreCounted'
  BY <1>22, CountStays DEF InstallerFails, Beside, Unproved
<1>23. CASE UNCHANGED vars
  BY <1>23, CountStays DEF vars, Unproved
<1>24. QED
  BY <1>1, <1>2, <1>3, <1>4, <1>5, <1>6, <1>7, <1>8, <1>9, <1>10, <1>11, <1>12, <1>13, <1>14,
     <1>15, <1>16, <1>17, <1>18, <1>19, <1>20, <1>21, <1>22, <1>23
  DEF Next, ProcessStep, StartupStep, WindowStep, ApplyStep, ApplyReads, InstallerStep

-----------------------------------------------------------------------------

LEMMA InitIInv == Init => IInv
<1> SUFFICES ASSUME Init PROVE IInv
  OBVIOUS
<1>1. Unproved = {}
  BY DEF Init, Unproved
<1>2. /\ StartsUnderWay = {} /\ WindowsUnderWay = {} /\ AppliesUnderWay = {}
  BY NoCallIsNoCall DEF Init, StartsUnderWay, WindowsUnderWay, AppliesUnderWay
<1>3. TypeOK
  <2>1. installers \in [Installers -> 0 .. MaxInFlight]
    BY BoundAssumption DEF Init
  <2>2. /\ installed \in Versions /\ good \in Versions
        /\ ver \in [Procs -> Versions]
        /\ failed \in 0 .. MaxStarts
    BY DEF Init, MaxStarts, MaxReadableAttempts
  <2>3. /\ pending \in PendingUpdate \cup {NoPending}
        /\ copy \in [Procs -> PendingUpdate \cup {NoPending}]
        /\ again \in [Procs -> PendingUpdate \cup {NoPending}]
    BY DEF Init
  <2>4. pc \in [Procs -> Locations] /\ window \in [Procs -> Windows]
    BY DEF Init, Locations, Windows
  <2>5. apply \in [Applies -> Calls \cup {NoCall}] /\ contended \in BOOLEAN
    BY DEF Init
  <2>6. QED
    BY <2>1, <2>2, <2>3, <2>4, <2>5 DEF TypeOK
<1>4. OneUnderWay
  BY <1>2 DEF OneUnderWay
<1>5. RecordMatchesDisk
  BY NoPendingIsNoRecord DEF Init, RecordMatchesDisk, NoneFlies
<1>6. CopiesAreCurrent
  BY NoCallIsNoCall DEF Init, CopiesAreCurrent
<1>7. FailuresAreCounted
  BY NoPendingIsNoRecord DEF Init, FailuresAreCounted
<1>8. OneVersion /\ OwnersAreThere
  BY NoCallIsNoCall DEF Init, OneVersion, OwnersAreThere
<1>9. QED
  BY <1>3, <1>4, <1>5, <1>6, <1>7, <1>8 DEF IInv

(* A contention is never taken back.                                       *)
LEMMA ContendedStays ==
  ASSUME [Next]_vars, contended
  PROVE  contended'
BY DEF Next, vars, ProcessStep, StartupStep, WindowStep, ApplyStep, ApplyReads, InstallerStep,
       Start, StartWithoutUpdate, StartAfterRollback, ClearRollback, StartOfTarget,
       CountAttempt,
       CountAttemptFails, VerifyRollback, ReadForRollback, BeginRollback, LaunchRollback, Bind,
       BindRefused, WindowPasses, MarkHealthy, StopAfterApply, Die, PrepareReads, PrepareWrites,
       LaunchUpdate, InstallerReplaces, InstallerFails, Gone, Opens

LEMMA NextIInv ==
  ASSUME IInv, [Next]_vars
  PROVE  IInv'
<1>1. TypeOK' /\ OneVersion' /\ OwnersAreThere'
  BY NextTypesAndOwners DEF IInv, TypesAndOwners
<1>2. CASE contended'
  BY <1>1, <1>2 DEF IInv
<1>3. CASE ~contended'
  <2>1. ~contended
    BY <1>3, ContendedStays
  <2>2. OneUnderWay'
    BY <1>3, <2>1, NextOneUnderWay DEF IInv
  <2>3. RecordMatchesDisk'
    BY <1>3, <2>1, NextRecordMatchesDisk DEF IInv
  <2>4. CopiesAreCurrent'
    BY <1>3, <2>1, NextCopiesAreCurrent DEF IInv
  <2>5. FailuresAreCounted'
    BY <2>1, NextFailuresAreCounted DEF IInv
  <2>6. QED
    BY <1>1, <2>2, <2>3, <2>4, <2>5 DEF IInv
<1>4. QED
  BY <1>2, <1>3

-----------------------------------------------------------------------------
(* The theorems.  Each holds however processes and requests overlap; what  *)
(* it says of the record ends with the first two transactions on it that   *)
(* were under way at once.                                                 *)

(* Types, versions and owners are always kept; until a contention the      *)
(* record agrees with disk, installers, copies and failed starts           *)
(* (RecoverOnStartup, MarkHealthy and Apply in any order).                 *)
THEOREM Invariance == Spec => []IInv
<1>1. IInv /\ [Next]_vars => IInv'
  BY NextIInv
<1>2. QED
  BY <1>1, InitIInv, PTL DEF Spec

(* Every variable keeps its type, whatever fails, wherever a process dies  *)
(* and however processes and requests overlap.                             *)
THEOREM TypeCorrect == Spec => []TypeOK
<1>1. IInv => TypeOK
  BY DEF IInv
<1>2. QED
  BY <1>1, Invariance, PTL

(* An executable that has not proved itself is covered by a record that    *)
(* names the good version to go back to (Apply, RecoverOnStartup).         *)
THEOREM UnprovenVersionIsSupervised == Spec => []UnprovenIsSupervised
<1>1. IInv => UnprovenIsSupervised
  BY NoPendingIsNoRecord DEF IInv, TypeOK, RecordMatchesDisk, UnprovenIsSupervised
<1>2. QED
  BY <1>1, Invariance, PTL

(* An installer in flight carries what the record on disk says, the target *)
(* while installing and the good version while rolling back, and is the    *)
(* only one (Apply, RecoverOnStartup).                                     *)
THEOREM InstallersAreRecorded == Spec => []InstallersFollowTheRecord
<1>1. IInv => InstallersFollowTheRecord
  <2> SUFFICES ASSUME IInv, ~contended, NEW i \in Installers, installers[i] > 0
               PROVE  /\ installers[i] = 1
                      /\ InFlight = {i}
                      /\ \/ /\ i.mode = "update"
                            /\ pending.phase = "installing"
                            /\ i.version = pending.target
                         \/ /\ i.mode = "rollback"
                            /\ pending.phase = "rollback"
                            /\ i.version = good
    BY DEF InstallersFollowTheRecord, InFlight
  <2>1. RecordMatchesDisk /\ pending \in PendingUpdate \cup {NoPending}
    BY DEF IInv, TypeOK
  <2>2. pending # NoPending
    BY <2>1 DEF RecordMatchesDisk, NoneFlies
  <2>3. CASE pending.phase = "installing"
    <3>1. \A j \in Installers : installers[j] > 0 =>
            j = [mode |-> "update", version |-> pending.target] /\ installers[j] = 1
      BY <2>1, <2>3 DEF RecordMatchesDisk
    <3>2. QED
      BY <2>3, <3>1 DEF InFlight
  <2>4. CASE pending.phase = "rollback"
    <3>1. \A j \in Installers : installers[j] > 0 =>
            j = [mode |-> "rollback", version |-> good] /\ installers[j] = 1
      BY <2>1, <2>4 DEF RecordMatchesDisk
    <3>2. QED
      BY <2>4, <3>1 DEF InFlight
  <2>5. QED
    BY <2>1, <2>2, <2>3, <2>4, NoPendingIsNoRecord
<1>2. QED
  BY <1>1, Invariance, PTL

(* No rollback begins before two counted starts of the target have failed  *)
(* or are still unproved (RecordTargetStartup, MarkHealthy).               *)
THEOREM RollbackIsEarned == Spec => []RollbackNeedsFailedWindows
<1>1. IInv => RollbackNeedsFailedWindows
  BY DEF IInv, FailuresAreCounted, RollbackNeedsFailedWindows
<1>2. QED
  BY <1>1, Invariance, PTL

(* A pending record only advances: same versions, no lower count, and no   *)
(* way back from a rollback (RecoveryStore's read-modify-writes).          *)
THEOREM RecordAdvances == Spec => RecordOnlyAdvances
<1>1. ASSUME IInv, [Next]_vars
      PROVE  [ ~contended' /\ pending # NoPending /\ pending' # NoPending =>
                 /\ pending'.prev = pending.prev
                 /\ pending'.target = pending.target
                 /\ pending'.attempts >= pending.attempts
                 /\ pending.phase = "rollback" => pending'.phase = "rollback" ]_vars
  <2> SUFFICES ASSUME ~contended', pending # NoPending, pending' # NoPending
               PROVE  /\ pending'.prev = pending.prev
                      /\ pending'.target = pending.target
                      /\ pending'.attempts >= pending.attempts
                      /\ pending.phase = "rollback" => pending'.phase = "rollback"
    OBVIOUS
  <2>1. ~contended /\ pending \in PendingUpdate
    BY <1>1, ContendedStays DEF IInv, TypeOK
  <2>2. CASE UNCHANGED pending
    BY <2>1, <2>2 DEF PendingUpdate, MaxReadableAttempts
  <2>3. ASSUME NEW p \in Procs, CountAttempt(p)
        PROVE  pending' = Counted(pending) /\ pending.phase = "installing"
    BY <1>1, <2>1, <2>3 DEF IInv, CopiesAreCurrent, CountAttempt, TargetStarted, Step
  <2>4. ASSUME NEW p \in Procs, BeginRollback(p), pending' # pending
        PROVE  pending' = RollingBack(pending)
    BY <1>1, <2>1, <2>4 DEF IInv, CopiesAreCurrent, BeginRollback, Step
  <2>5. ASSUME NEW r \in Applies, PrepareWrites(r), pending' # pending
        PROVE  FALSE
    BY <1>1, <2>1, <2>5 DEF IInv, CopiesAreCurrent, PrepareWrites
  <2>6. \/ UNCHANGED pending
        \/ \E p \in Procs : CountAttempt(p) \/ BeginRollback(p)
        \/ \E r \in Applies : PrepareWrites(r)
    BY <1>1
    DEF Next, vars, ProcessStep, StartupStep, WindowStep, ApplyStep, ApplyReads, InstallerStep,
        Start, StartWithoutUpdate, StartAfterRollback, ClearRollback, StartOfTarget,
        CountAttemptFails, VerifyRollback, ReadForRollback, LaunchRollback, Bind, BindRefused,
        WindowPasses, MarkHealthy, StopAfterApply, Die, PrepareReads, LaunchUpdate,
        InstallerReplaces, InstallerFails, Gone
  <2>7. QED
    BY <2>1, <2>2, <2>3, <2>4, <2>5, <2>6
    DEF Counted, RollingBack, PendingUpdate, MaxReadableAttempts
<1>2. QED
  BY <1>1, Invariance, PTL DEF Spec, RecordOnlyAdvances

-----------------------------------------------------------------------------
(* The implementation of the contract.                                     *)

LEMMA InitImplements == Init => Contract!Init
BY DEF Init, Contract!Init, Stage, NoPending

(* Every step is a step of the contract, leaves its state alone, or is or  *)
(* follows a contention.                                                   *)
LEMMA StepImplements ==
  ASSUME IInv, IInv', [Next]_vars
  PROVE  [Contract!Next]_(Contract!vars)
<1>1. CASE contended'
  BY <1>1 DEF Contract!Next, Contract!Forfeit
<1> SUFFICES ASSUME ~contended' PROVE [Contract!Next]_(Contract!vars)
  BY <1>1
<1>2. ~contended
  BY ContendedStays
<1> USE VersionsAssumption, NoPendingIsNoRecord, <1>2
    DEF IInv, TypeOK, OneVersion, OwnersAreThere, RecordMatchesDisk, CopiesAreCurrent,
        TargetStarted, Stage, Contract!vars, Step, Beside
<1>3. CASE UNCHANGED <<pending, installed, good>>
  BY <1>3
<1>4. ASSUME NEW p \in Procs, ClearRollback(p), pending' # pending
      PROVE  Contract!Close
  BY <1>4 DEF ClearRollback, ReturnedToPrevious, Contract!Close, NoPending
<1>5. ASSUME NEW p \in Procs, CountAttempt(p)
      PROVE  UNCHANGED Contract!vars
  BY <1>5 DEF CountAttempt, Counted, PendingUpdate, Readable
<1>6. ASSUME NEW p \in Procs, BeginRollback(p), pending' # pending
      PROVE  Contract!Reject
  <2>1. /\ pending' = RollingBack(pending) /\ pending \in PendingUpdate
        /\ pending.phase = "installing" /\ installed = pending.target
    BY <1>6 DEF BeginRollback
  <2>2. pending'.phase = "rollback" /\ pending'.target = pending.target /\ pending' # NoPending
    BY <2>1 DEF RollingBack, PendingUpdate
  <2>3. UNCHANGED <<installed, good, contended>>
    BY <1>6 DEF BeginRollback
  <2>4. QED
    BY <2>1, <2>2, <2>3 DEF Contract!Reject
<1>7. ASSUME NEW p \in Procs, MarkHealthy(p), pending' # pending
      PROVE  Contract!Accept
  BY <1>7 DEF MarkHealthy, Contract!Accept, NoPending
<1>8. ASSUME NEW r \in Applies, PrepareWrites(r), pending' # pending
      PROVE  \E v \in Versions : Contract!Propose(v)
  <2>1. /\ pending = NoPending /\ pending' = Prepared(ver[apply[r].by], apply[r].target)
        /\ apply[r].target \in Versions /\ apply[r].target > installed
    BY <1>8, NoCallIsNoCall DEF PrepareWrites, Calls
  <2>2. /\ pending'.phase = "installing" /\ pending'.target = apply[r].target
        /\ pending' # NoPending
    BY <2>1 DEF Prepared
  <2>3. UNCHANGED <<installed, good, contended>>
    BY <1>8 DEF PrepareWrites
  <2>4. QED
    BY <2>1, <2>2, <2>3 DEF Contract!Propose
<1>9. ASSUME NEW i \in Installers, InstallerReplaces(i)
      PROVE  Contract!Install \/ Contract!Restore
  <2>1. /\ pending # NoPending
        /\ \/ pending.phase = "installing" /\ i.version = pending.target
           \/ pending.phase = "rollback" /\ i.version = good
    BY <1>9 DEF InstallerReplaces, NoneFlies
  <2>2. QED
    BY <1>9, <2>1 DEF InstallerReplaces, Contract!Install, Contract!Restore
<1>10. \/ UNCHANGED <<pending, installed, good>>
       \/ \E p \in Procs :
            \/ CountAttempt(p)
            \/ (ClearRollback(p) \/ BeginRollback(p) \/ MarkHealthy(p)) /\ pending' # pending
       \/ \E r \in Applies : PrepareWrites(r) /\ pending' # pending
       \/ \E i \in Installers : InstallerReplaces(i)
  BY ZenonT(40)
  DEF Next, vars, ProcessStep, StartupStep, WindowStep, ApplyStep, ApplyReads, InstallerStep,
         Start, StartWithoutUpdate, StartAfterRollback, ClearRollback, StartOfTarget,
         CountAttemptFails, VerifyRollback, ReadForRollback, BeginRollback, LaunchRollback,
         Bind,
         BindRefused, WindowPasses, MarkHealthy, StopAfterApply, Die, PrepareReads,
         PrepareWrites,
         LaunchUpdate, InstallerFails, Gone
<1>11. QED
  BY <1>3, <1>4, <1>5, <1>6, <1>7, <1>8, <1>9, <1>10 DEF Contract!Next

(* The self-update implements its contract: whatever fails, overlaps or    *)
(* dies, the installed version changes only by a trial that is accepted or *)
(* undone, until the contract is forfeited by a contention.                *)
THEOREM UpdateImplementsContract == Spec => ImplementsContract
<1>1. IInv /\ IInv' /\ [Next]_vars => [Contract!Next]_(Contract!vars)
  BY StepImplements
<1>2. QED
  BY <1>1, InitImplements, Invariance, PTL DEF Spec, Contract!Spec, ImplementsContract

-----------------------------------------------------------------------------
(* The counts of starts, also after a contention.                          *)

LEMMA InitRaces == RacesInit => RacesIInv
BY InitIInv, VersionsAssumption, NoPendingIsNoRecord
DEF RacesInit, Init, IInv, RacesIInv, RacesTypeOK, CopiesAreCounted, FurtherIsUncounted,
    CountNeverInvented, MaxStarts, MaxReadableAttempts

(* Types, versions and owners are those of UpdateRecovery.                 *)
LEMMA RacesStepIsStep ==
  ASSUME [RacesNext]_<<vars, counted>>
  PROVE  [Next]_vars
BY
DEF RacesNext, StartCounted, TargetPrepared, Uncounted, Next, ProcessStep, StartupStep,
    ApplyStep

LEMMA NextRaces ==
  ASSUME RacesIInv, [RacesNext]_<<vars, counted>>
  PROVE  RacesIInv'
<1>0. TypeOK' /\ OneVersion' /\ OwnersAreThere'
  BY RacesStepIsStep, NextTypesAndOwners DEF RacesIInv, TypesAndOwners
<1> SUFFICES RacesTypeOK' /\ CopiesAreCounted' /\ FurtherIsUncounted' /\ CountNeverInvented'
  BY <1>0 DEF RacesIInv
<1> DEFINE Rest == RacesTypeOK /\ CopiesAreCounted /\ FurtherIsUncounted /\ CountNeverInvented
<1> USE VersionsAssumption, NoPendingIsNoRecord, NoCallIsNoCall
    DEF RacesIInv, TypeOK, RacesTypeOK, OneVersion, OwnersAreThere, CopiesAreCounted,
        FurtherIsUncounted, CountNeverInvented, PendingUpdate, MaxStarts, MaxReadableAttempts,
        Readable, Step, Running, Beside, Gone
<1>1. ASSUME NEW p \in Procs, StartCounted(p)
      PROVE  Rest'
  BY <1>1 DEF StartCounted, CountAttempt, OneMore
<1>2. ASSUME NEW p \in Procs, Start(p), UNCHANGED counted
      PROVE  Rest'
  BY <1>2 DEF Start
<1>3. ASSUME NEW p \in Procs, StartWithoutUpdate(p), UNCHANGED counted
      PROVE  Rest'
  BY <1>3 DEF StartWithoutUpdate
<1>4. ASSUME NEW p \in Procs, StartAfterRollback(p), UNCHANGED counted
      PROVE  Rest'
  BY <1>4 DEF StartAfterRollback
<1>5. ASSUME NEW p \in Procs, ClearRollback(p), UNCHANGED counted
      PROVE  Rest'
  BY <1>5 DEF ClearRollback
<1>6. ASSUME NEW p \in Procs, StartOfTarget(p), UNCHANGED counted
      PROVE  Rest'
  BY <1>6 DEF StartOfTarget, Counted, TargetStarted
<1>7. ASSUME NEW p \in Procs, CountAttemptFails(p) \/ VerifyRollback(p), UNCHANGED counted
      PROVE  Rest'
  BY <1>7 DEF CountAttemptFails, VerifyRollback
<1>8. ASSUME NEW p \in Procs, ReadForRollback(p), UNCHANGED counted
      PROVE  Rest'
  BY <1>8 DEF ReadForRollback, RollingBack
<1>9. ASSUME NEW p \in Procs, BeginRollback(p), UNCHANGED counted
      PROVE  Rest'
  BY <1>9 DEF BeginRollback
<1>10. ASSUME NEW p \in Procs, LaunchRollback(p), UNCHANGED counted
       PROVE  Rest'
  BY <1>10 DEF LaunchRollback
<1>11. ASSUME NEW p \in Procs, Bind(p), UNCHANGED counted
       PROVE  Rest'
  BY <1>11 DEF Bind
<1>12. ASSUME NEW p \in Procs, BindRefused(p) \/ StopAfterApply(p) \/ Die(p), UNCHANGED counted
       PROVE  Rest'
  BY <1>12 DEF BindRefused, StopAfterApply, Die
<1>13. ASSUME NEW p \in Procs, WindowPasses(p), UNCHANGED counted
       PROVE  Rest'
  BY <1>13 DEF WindowPasses
<1>14. ASSUME NEW p \in Procs, MarkHealthy(p), UNCHANGED counted
       PROVE  Rest'
  BY <1>14 DEF MarkHealthy
<1>15. ASSUME NEW r \in Applies, TargetPrepared(r)
       PROVE  Rest'
  BY <1>15 DEF TargetPrepared, PrepareWrites, Prepared, Calls
<1>16. ASSUME NEW r \in Applies, LaunchUpdate(r), UNCHANGED counted
       PROVE  Rest'
  BY <1>16 DEF LaunchUpdate
<1>17. CASE ApplyReads /\ UNCHANGED counted
  BY <1>17 DEF ApplyReads, PrepareReads
<1>18. ASSUME NEW i \in Installers, InstallerReplaces(i) \/ InstallerFails(i), UNCHANGED counted
       PROVE  Rest'
  BY <1>18 DEF InstallerReplaces, InstallerFails, Installers
<1>19. CASE UNCHANGED <<vars, counted>>
  BY <1>19 DEF vars
<1>20. QED
  BY <1>1, <1>2, <1>3, <1>4, <1>5, <1>6, <1>7, <1>8, <1>9, <1>10, <1>11, <1>12, <1>13, <1>14,
     <1>15, <1>16, <1>17, <1>18, <1>19
  DEF RacesNext, Uncounted, WindowStep, InstallerStep

(* Overlapping startups never invent a start, whatever stale record one of *)
(* them writes back (RecordTargetStartup, BeginRollback, Prepare).         *)
THEOREM StartsAreNeverInvented == RacesSpec => []CountNeverInvented
<1>1. RacesIInv /\ [RacesNext]_<<vars, counted>> => RacesIInv'
  BY NextRaces
<1>2. RacesIInv => CountNeverInvented
  BY DEF RacesIInv
<1>3. QED
  BY <1>1, <1>2, InitRaces, PTL DEF RacesSpec

(* The count of starts is history alone (RecordTargetStartup, Prepare):    *)
(* its processes, which start at once, are those of UpdateRecovery, so all *)
(* that is proved of them above holds there.                               *)
THEOREM RacesRunUpdate == RacesSpec => Spec
<1>1. RacesInit => Init
  BY DEF RacesInit
<1>2. [RacesNext]_<<vars, counted>> => [Next]_vars
  BY RacesStepIsStep
<1>3. QED
  BY <1>1, <1>2, PTL DEF RacesSpec, Spec
=============================================================================
