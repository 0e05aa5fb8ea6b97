---------------------------- MODULE UpdateRecovery ---------------------------
(***************************************************************************)
(* The life of a Manager self-update across processes: a serving Manager   *)
(* prepares the pending record and launches the target's installer, stops; *)
(* the installer replaces the executable; the target starts, counts the    *)
(* start, and either survives its health window or, at the third start,    *)
(* puts the previous version back.                                         *)
(*                                                                         *)
(* Processes may die between any two file operations, file writes may      *)
(* fail, the retained recovery installer may not verify, an installer may  *)
(* not launch or may end without replacing the executable.  Faults says    *)
(* which of these can happen.                                              *)
(*                                                                         *)
(* The record has no lock.  A start in gateway mode looks for no running   *)
(* Manager, and one that is still starting cannot be found, so processes   *)
(* overlap; and a serving process handles the requests of its page side by *)
(* side, so two confirmed Apply can look at the record before either       *)
(* writes it.  contended tells when two transactions on the record were    *)
(* under way at once.                                                      *)
(***************************************************************************)
EXTENDS RecoveryStore, FiniteSets

CONSTANTS
  Procs,        \* slots for Manager processes
  Applies,      \* slots for confirmed Apply requests, of any process
  Faults,       \* a subset of FaultKinds
  MaxInFlight   \* bound of the model: installers of one kind that run at a time

FaultKinds == {"crash", "io", "verify", "launch", "install"}

ASSUME ProcsAssumption  == IsFiniteSet(Procs)
ASSUME FaultsAssumption == Faults \subseteq FaultKinds
ASSUME BoundAssumption  == MaxInFlight \in Nat \ {0}

VARIABLES
  pending,      \* pending-update.json
  installed,    \* the version of the executable on disk
  installers,   \* the installer processes that were launched and have not ended
  pc,           \* where each Manager process is
  ver,          \* the version each process runs
  copy,         \* the record RecordTargetStartup counted, and returned
  again,        \* the record BeginRollback read and is about to write back
  window,       \* the health window's goroutine of each process
  apply,        \* the Apply requests that found no record
  good,         \* history: the version that last proved itself
  failed,       \* history: counted starts of the record's target that ended without
                \* being marked healthy
  contended     \* history: two transactions on the record were under way at once

vars == <<pending, installed, installers, pc, ver, copy, again, window, apply,
          good, failed, contended>>

MaxStarts == MaxReadableAttempts + 1   \* the history saturates here

Locations ==
  {"off", "startup", "clear", "count", "verify", "begin", "rollback", "launchRollback",
   "bind", "serving"}

(* none: not armed; armed: the timer runs; healthy: MarkHealthy has read   *)
(* the record and will remove it; over: it ended and removed nothing.      *)
Windows == {"none", "armed", "healthy", "over"}

(* write: Prepare found no record; launch: it has written its own;         *)
(* applied: the installer runs, and the stop is scheduled.                 *)
NoCall == [at |-> "idle"]
Calls  == [at : {"write", "launch", "applied"}, by : Procs, target : Versions]

Installers == [mode : {"update", "rollback"}, version : Versions]

NoneFlies == \A i \in Installers : installers[i] = 0

TypeOK ==
  /\ pending \in PendingUpdate \cup {NoPending}
  /\ installed \in Versions
  /\ installers \in [Installers -> 0 .. MaxInFlight]
  /\ pc \in [Procs -> Locations]
  /\ ver \in [Procs -> Versions]
  /\ copy \in [Procs -> PendingUpdate \cup {NoPending}]
  /\ again \in [Procs -> PendingUpdate \cup {NoPending}]
  /\ window \in [Procs -> Windows]
  /\ apply \in [Applies -> Calls \cup {NoCall}]
  /\ good \in Versions
  /\ failed \in 0 .. MaxStarts
  /\ contended \in BOOLEAN

Init ==
  /\ pending = NoPending
  /\ installed \in Versions
  /\ installers = [i \in Installers |-> 0]
  /\ pc = [p \in Procs |-> "off"]
  /\ ver = [p \in Procs |-> installed]
  /\ copy = [p \in Procs |-> NoPending]
  /\ again = [p \in Procs |-> NoPending]
  /\ window = [p \in Procs |-> "none"]
  /\ apply = [r \in Applies |-> NoCall]
  /\ good = installed
  /\ failed = 0
  /\ contended = FALSE

OneMore(n) == IF n < MaxStarts THEN n + 1 ELSE n

Fault(kind) == kind \in Faults

Step(p, from, to) ==
  /\ pc[p] = from
  /\ pc' = [pc EXCEPT ![p] = to]

Running == {p \in Procs : pc[p] # "off"}

HoldsPort(p) == pc[p] = "serving"

(* A process between reading the record and the last thing it does about   *)
(* what it read; the transactions a process begins while another one is    *)
(* under way say so.                                                       *)
StartsUnderWay == {p \in Procs :
  pc[p] \in {"clear", "count", "verify", "begin", "rollback", "launchRollback"}}

WindowsUnderWay == {p \in Procs : window[p] = "healthy"}

AppliesUnderWay == {r \in Applies : apply[r].at \in {"write", "launch"}}

UnderWay == StartsUnderWay # {} \/ WindowsUnderWay # {} \/ AppliesUnderWay # {}

Opens == contended' = (contended \/ UnderWay)

(* The end of a process.  One that had counted its start and whose window  *)
(* did not remove the record is a failed one.                              *)
Gone(p) ==
  /\ pc' = [pc EXCEPT ![p] = "off"]
  /\ copy' = [copy EXCEPT ![p] = NoPending]
  /\ again' = [again EXCEPT ![p] = NoPending]
  /\ window' = [window EXCEPT ![p] = "none"]
  /\ apply' = [r \in Applies |->
                 IF apply[r] # NoCall /\ apply[r].by = p THEN NoCall ELSE apply[r]]
  /\ failed' = IF window[p] # "none" /\ pending.target = ver[p] THEN OneMore(failed) ELSE failed
  /\ UNCHANGED <<pending, installed, ver, good, contended>>

Launched(mode, version) ==
  LET i == [mode |-> mode, version |-> version]
  IN /\ installers[i] < MaxInFlight
     /\ installers' = [installers EXCEPT ![i] = @ + 1]

-----------------------------------------------------------------------------
(* Startup: main runs RecoverOnStartup before it binds the port.           *)

Start(p) ==
  /\ Step(p, "off", "startup")
  /\ NoneFlies \/ Fault("install")
  /\ ver' = [ver EXCEPT ![p] = installed]
  /\ UNCHANGED <<pending, installed, installers, copy, again, window, apply, good, failed,
                 contended>>

(* What the steps of startup leave alone.                                  *)
Beside == <<installed, ver, apply, good, failed>>

(* RecordTargetStartup finds no record, or one it refuses.                 *)
StartWithoutUpdate(p) ==
  /\ ~ReturnedToPrevious(pending, ver[p])
  /\ ~TargetStarted(pending, ver[p])
  /\ Step(p, "startup", "bind")
  /\ UNCHANGED <<pending, installers, copy, again, window, contended, Beside>>

StartAfterRollback(p) ==
  /\ ReturnedToPrevious(pending, ver[p])
  /\ Step(p, "startup", "clear")
  /\ Opens
  /\ UNCHANGED <<pending, installers, copy, again, window, Beside>>

ClearRollback(p) ==
  /\ Step(p, "clear", "bind")
  /\ \/ pending' = NoPending
     \/ Fault("io") /\ UNCHANGED pending
  /\ UNCHANGED <<installers, copy, again, window, contended, Beside>>

StartOfTarget(p) ==
  /\ TargetStarted(pending, ver[p])
  /\ Step(p, "startup", "count")
  /\ copy' = [copy EXCEPT ![p] = Counted(pending)]
  /\ Opens
  /\ UNCHANGED <<pending, installers, again, window, Beside>>

(* The counted record is written; below the threshold the health window    *)
(* opens and the service goes on to bind.                                  *)
CountAttempt(p) ==
  /\ pending' = copy[p]
  /\ \/ /\ RollbackRequired(copy[p])
        /\ Step(p, "count", "verify")
        /\ UNCHANGED window
     \/ /\ ~RollbackRequired(copy[p])
        /\ Step(p, "count", "bind")
        /\ window' = [window EXCEPT ![p] = "armed"]
  /\ UNCHANGED <<installers, copy, again, contended, Beside>>

CountAttemptFails(p) ==
  /\ Fault("io")
  /\ Step(p, "count", "bind")
  /\ UNCHANGED <<pending, installers, copy, again, window, contended, Beside>>

VerifyRollback(p) ==
  /\ \/ Step(p, "verify", "begin")
     \/ Fault("verify") /\ Step(p, "verify", "bind")
  /\ UNCHANGED <<pending, installers, copy, again, window, contended, Beside>>

(* BeginRollback reads the record again before it changes the phase.       *)
ReadForRollback(p) ==
  /\ \/ /\ Readable(pending)
        /\ Step(p, "begin", "rollback")
        /\ again' = [again EXCEPT ![p] = RollingBack(pending)]
     \/ /\ ~Readable(pending)
        /\ Step(p, "begin", "bind")
        /\ UNCHANGED again
  /\ UNCHANGED <<pending, installers, copy, window, contended, Beside>>

BeginRollback(p) ==
  /\ \/ /\ Step(p, "rollback", "launchRollback")
        /\ pending' = again[p]
     \/ /\ Fault("io")
        /\ Step(p, "rollback", "bind")
        /\ UNCHANGED pending
  /\ UNCHANGED <<installers, copy, again, window, contended, Beside>>

(* RecoverOnStartup launches the installer of the record it counted, and   *)
(* not that of the one BeginRollback has written; then it stops.           *)
LaunchRollback(p) ==
  /\ pc[p] = "launchRollback"
  /\ \/ Launched("rollback", copy[p].prev) /\ Gone(p)
     \/ /\ Fault("launch")
        /\ Step(p, "launchRollback", "bind")
        /\ UNCHANGED <<pending, installers, copy, again, window, contended, Beside>>

(* The port is free, or another one is taken; a gateway-mode process that  *)
(* finds the port bound ends, and so does one that wakes the other's tray. *)
Bind(p) ==
  /\ Step(p, "bind", "serving")
  /\ UNCHANGED <<pending, installers, copy, again, window, contended, Beside>>

BindRefused(p) ==
  /\ pc[p] = "bind"
  /\ \E q \in Procs \ {p} : HoldsPort(q)
  /\ Gone(p)
  /\ UNCHANGED installers

(* RecoverOnStartup has returned, with or without an error, and no Apply   *)
(* is between the record and the launch.                                   *)
Exposed(p) ==
  /\ pc[p] \in {"bind", "serving"}
  /\ \A r \in Applies : apply[r].at = "launch" => apply[r].by # p

(* A crash, a power loss or the user's Exit.                               *)
Die(p) ==
  /\ pc[p] # "off"
  /\ Exposed(p) \/ Fault("crash")
  /\ Gone(p)
  /\ UNCHANGED installers

-----------------------------------------------------------------------------
(* The health window's goroutine: MarkHealthy after healthDelay.           *)

WindowPasses(p) ==
  /\ pc[p] # "off"
  /\ window[p] = "armed"
  /\ \/ /\ TargetStarted(pending, ver[p])
        /\ window' = [window EXCEPT ![p] = "healthy"]
        /\ Opens
     \/ /\ ~TargetStarted(pending, ver[p])
        /\ window' = [window EXCEPT ![p] = "over"]
        /\ UNCHANGED contended
  /\ UNCHANGED <<pending, installers, pc, copy, again, Beside>>

MarkHealthy(p) ==
  /\ pc[p] # "off"
  /\ window[p] = "healthy"
  /\ \/ /\ pending' = NoPending
        /\ window' = [window EXCEPT ![p] = "none"]
        /\ good' = ver[p]
     \/ /\ Fault("io")
        /\ window' = [window EXCEPT ![p] = "over"]
        /\ UNCHANGED <<pending, good>>
  /\ UNCHANGED <<installed, installers, pc, ver, copy, again, apply, failed, contended>>

-----------------------------------------------------------------------------
(* Coordinator.Apply, from the point where Prepare reads the record.  What *)
(* comes before (candidate, download, Exact) writes no shared state.  Two  *)
(* requests, of one process or of two, can be here side by side.           *)

PrepareOverPending(r, p, target) ==   \* variant: an existing record is not refused
  /\ apply[r] = NoCall
  /\ pc[p] = "serving"
  /\ CanPrepare(ver[p], target)
  /\ apply' = [apply EXCEPT ![r] = [at |-> "write", by |-> p, target |-> target]]
  /\ Opens
  /\ UNCHANGED <<pending, installed, installers, pc, ver, copy, again, window, good, failed>>

PrepareReads(r, p, target) ==
  /\ apply[r] = NoCall
  /\ pc[p] = "serving"
  /\ CanPrepare(ver[p], target)
  /\ pending = NoPending
  /\ apply' = [apply EXCEPT ![r] = [at |-> "write", by |-> p, target |-> target]]
  /\ Opens
  /\ UNCHANGED <<pending, installed, installers, pc, ver, copy, again, window, good, failed>>

(* The record of an earlier Apply, written since, is replaced.             *)
PrepareWrites(r) ==
  /\ apply[r].at = "write"
  /\ \/ /\ pending' = Prepared(ver[apply[r].by], apply[r].target)
        /\ failed' = 0
        /\ apply' = [apply EXCEPT ![r].at = "launch"]
     \/ /\ Fault("io")
        /\ apply' = [apply EXCEPT ![r] = NoCall]
        /\ UNCHANGED <<pending, failed>>
  /\ UNCHANGED <<installed, installers, pc, ver, copy, again, window, good, contended>>

LaunchUpdate(r) ==
  /\ apply[r].at = "launch"
  /\ \/ /\ Launched("update", apply[r].target)
        /\ apply' = [apply EXCEPT ![r].at = "applied"]
     \/ /\ Fault("launch")
        /\ apply' = [apply EXCEPT ![r] = NoCall]
        /\ UNCHANGED installers
  /\ UNCHANGED <<pending, installed, pc, ver, copy, again, window, good, failed, contended>>

(* The stop Apply scheduled 750 ms later.                                  *)
StopAfterApply(p) ==
  /\ \E r \in Applies : apply[r].at = "applied" /\ apply[r].by = p
  /\ Gone(p)
  /\ UNCHANGED installers

-----------------------------------------------------------------------------
(* The silent installer: it cannot replace an executable that              *)
(* is running, and it starts nothing.                                      *)

InstallerReplaces(i) ==
  /\ installers[i] > 0
  /\ Running = {}
  /\ installed' = i.version
  /\ installers' = [installers EXCEPT ![i] = @ - 1]
  /\ UNCHANGED <<pending, pc, ver, copy, again, window, apply, good, failed, contended>>

InstallerFails(i) ==
  /\ Fault("install")
  /\ installers[i] > 0
  /\ installers' = [installers EXCEPT ![i] = @ - 1]
  /\ UNCHANGED <<pending, installed, pc, ver, copy, again, window, apply, good, failed,
                 contended>>

-----------------------------------------------------------------------------

StartupStep(p) ==
  \/ StartWithoutUpdate(p) \/ StartAfterRollback(p) \/ ClearRollback(p)
  \/ StartOfTarget(p) \/ CountAttempt(p) \/ CountAttemptFails(p)
  \/ VerifyRollback(p) \/ ReadForRollback(p) \/ BeginRollback(p) \/ LaunchRollback(p)
  \/ Bind(p) \/ BindRefused(p)

WindowStep(p) == WindowPasses(p) \/ MarkHealthy(p)

ProcessStep(p) == Start(p) \/ StartupStep(p) \/ WindowStep(p) \/ StopAfterApply(p) \/ Die(p)

ApplyStep(r) == PrepareWrites(r) \/ LaunchUpdate(r)

ApplyReads == \E r \in Applies, p \in Procs, target \in Versions : PrepareReads(r, p, target)

InstallerStep == \E i \in Installers : InstallerReplaces(i) \/ InstallerFails(i)

Next ==
  \/ \E p \in Procs : ProcessStep(p)
  \/ \E r \in Applies : ApplyStep(r)
  \/ ApplyReads
  \/ InstallerStep

Spec == Init /\ [][Next]_vars

-----------------------------------------------------------------------------
(* Properties.  What they say ends when two transactions on the record     *)
(* were under way at once, which no lock prevents: two confirmed Apply     *)
(* that both found no record, or an older copy written back by a start     *)
(* beside another one.                                                     *)

(* An executable that has not proved itself is never on its own: while the *)
(* installed version is not the last good one, the record on disk names    *)
(* that version as its target and the good one as what to go back to       *)
(* (Prepare before launch, MarkHealthy after the window, RecordTargetStartup *)
(* clearing only when the previous version is back).                       *)
UnprovenIsSupervised ==
  installed # good =>
    \/ contended
    \/ /\ pending # NoPending
       /\ pending.target = installed
       /\ pending.prev = good

InFlight == {i \in Installers : installers[i] > 0}

(* Whatever installer is in flight, the record on disk says what it does   *)
(* and why: an update installer carries the record's target and a rollback *)
(* installer the good version, and there is one of them at most, although  *)
(* the processes that launched them are gone.                              *)
InstallersFollowTheRecord ==
  ~contended =>
    \A i \in InFlight :
      /\ installers[i] = 1
      /\ InFlight = {i}
      /\ \/ /\ i.mode = "update"
            /\ pending.phase = "installing"
            /\ i.version = pending.target
         \/ /\ i.mode = "rollback"
            /\ pending.phase = "rollback"
            /\ i.version = good

(* The starts of the record's target that were counted and have not proved *)
(* themselves yet.                                                         *)
Unproved == {p \in Procs : window[p] # "none" /\ ver[p] = pending.target}

(* A target is rolled back only after RollbackThreshold - 1 counted starts *)
(* of it that failed, or, when processes overlap, have not proved          *)
(* themselves yet: a single slow or crashed start never loses an update.   *)
RollbackNeedsFailedWindows ==
  ~contended /\ pending.phase = "rollback" =>
    failed + Cardinality(Unproved) >= RollbackThreshold - 1

(* While one record is pending its two versions stay, its count never goes *)
(* down, and a rollback once begun is never turned back into an            *)
(* installation by a process that still holds an older copy.               *)
RecordOnlyAdvances ==
  [][ ~contended' /\ pending # NoPending /\ pending' # NoPending =>
        /\ pending'.prev = pending.prev
        /\ pending'.target = pending.target
        /\ pending'.attempts >= pending.attempts
        /\ pending.phase = "rollback" => pending'.phase = "rollback" ]_vars

(* The promise, with the record's phase as the stage of the trial; it is   *)
(* kept until two transactions on the record were under way at once.       *)
Stage ==
  IF pending = NoPending THEN "idle"
  ELSE IF pending.phase = "installing" THEN "trial" ELSE "restore"

Contract ==
  INSTANCE UpdateContract WITH stage <- Stage, target <- pending.target, kept <- ~contended

(* The record, the processes and the installers implement the contract of  *)
(* a trial that is accepted or undone, whatever fails in between.          *)
ImplementsContract == Contract!Spec

-----------------------------------------------------------------------------
(* The inductive invariant behind the safety properties.                   *)

(* An executable is replaced only when no process runs, so all the         *)
(* processes are of the version on disk.                                   *)
OneVersion == \A p \in Procs : pc[p] # "off" => ver[p] = installed

(* Windows, records and Apply requests are those of processes that can     *)
(* have them.                                                              *)
OwnersAreThere ==
  /\ \A p \in Procs :
       /\ window[p] # "none" => pc[p] \in {"bind", "serving"}
       /\ pc[p] \in {"count", "verify", "begin", "rollback", "launchRollback"} =>
            copy[p] \in PendingUpdate
       /\ pc[p] = "rollback" => again[p] \in PendingUpdate
  /\ \A r \in Applies : apply[r] # NoCall =>
       /\ pc[apply[r].by] = "serving"
       /\ apply[r].target > ver[apply[r].by]

(* Before any contention, one transaction is under way at most.            *)
OneUnderWay ==
  /\ \A p, q \in StartsUnderWay : p = q
  /\ \A p, q \in WindowsUnderWay : p = q
  /\ \A r, s \in AppliesUnderWay : r = s
  /\ StartsUnderWay = {} \/ WindowsUnderWay = {}
  /\ StartsUnderWay = {} \/ AppliesUnderWay = {}
  /\ WindowsUnderWay = {} \/ AppliesUnderWay = {}

(* What the record says of the versions and of the installer in flight.    *)
RecordMatchesDisk ==
  /\ pending = NoPending => installed = good /\ NoneFlies
  /\ pending # NoPending =>
       /\ pending.prev = good
       /\ pending.target > good
       /\ installed \in {good, pending.target}
  /\ pending.phase = "installing" =>
       \A i \in Installers : installers[i] > 0 =>
         /\ i = [mode |-> "update", version |-> pending.target]
         /\ installers[i] = 1
         /\ installed = good
  /\ pending.phase = "rollback" =>
       \A i \in Installers : installers[i] > 0 =>
         /\ i = [mode |-> "rollback", version |-> good]
         /\ installers[i] = 1
         /\ installed = pending.target

(* What a transaction may rely on between reading the record and acting on *)
(* it.                                                                     *)
CopiesAreCurrent ==
  /\ \A p \in Procs :
       /\ pc[p] = "clear" => ReturnedToPrevious(pending, ver[p])
       /\ pc[p] = "count" => TargetStarted(pending, ver[p]) /\ copy[p] = Counted(pending)
       /\ pc[p] \in {"verify", "begin", "rollback"} =>
            /\ pending = copy[p]
            /\ pending.phase = "installing"
            /\ ver[p] = pending.target
            /\ RollbackRequired(pending)
       /\ pc[p] = "rollback" => again[p] = RollingBack(copy[p])
       /\ pc[p] = "launchRollback" =>
            /\ pending = RollingBack(copy[p])
            /\ ver[p] = pending.target
            /\ NoneFlies
       /\ window[p] = "healthy" => TargetStarted(pending, ver[p])
  /\ \A r \in Applies :
       /\ apply[r].at = "write" => pending = NoPending
       /\ apply[r].at = "launch" =>
            /\ pending = Prepared(ver[apply[r].by], apply[r].target)
            /\ NoneFlies

(* Every counted start has failed, or has not proved itself yet.           *)
FailuresAreCounted ==
  LET starts == failed + Cardinality(Unproved)
  IN /\ pending.phase = "installing" =>
          pending.attempts <= starts \/ starts >= RollbackThreshold - 1
     /\ pending.phase = "rollback" => starts >= RollbackThreshold - 1

IInv ==
  /\ TypeOK
  /\ OneVersion
  /\ OwnersAreThere
  /\ contended \/ /\ OneUnderWay
                  /\ RecordMatchesDisk
                  /\ CopiesAreCurrent
                  /\ FailuresAreCounted

-----------------------------------------------------------------------------
(* What the documentation says and the code does not do.                   *)

(* README.md:12 of managerupdate: the pending record can be recovered      *)
(* after a restart.  A start that dies between counting attempt 3 and      *)
(* beginning the rollback makes the next one write attempt 4, which Read   *)
(* refuses from then on.                                                   *)
RecordStaysReadable == pending # NoPending => Readable(pending)
=============================================================================
