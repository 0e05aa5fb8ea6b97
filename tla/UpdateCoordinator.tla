-------------------------- MODULE UpdateCoordinator --------------------------
(***************************************************************************)
(* The coordinator of one Manager's self-update, as the requests of        *)
(* /api/v1/manager-update use it: every GET refreshes the candidate, a     *)
(* confirmed POST downloads or applies it.  The coordinator's mutex is     *)
(* held while its fields are read or written and released across network   *)
(* calls and file operations, so requests act on what they read before.    *)
(*                                                                         *)
(* A verified file is the version it is named after: a published version   *)
(* keeps its digest.  What becomes of a launched installer, and of the     *)
(* record in later processes, is UpdateRecovery.                           *)
(***************************************************************************)
EXTENDS RecoveryStore

CONSTANTS
  Current,    \* currentVersion, the version of this Manager
  Requests    \* slots for concurrent HTTP requests

ASSUME CurrentAssumption == Current \in Versions

VARIABLES
  candidate,       \* the release the last refresh found
  downloadedPath,  \* the version whose installer is named, or NoVersion
  state,           \* what the page is told; an error code goes with "unavailable"
  pending,         \* pending-update.json
  disk,            \* the installer files in the update root
  window,          \* the health window of this process
  pc,              \* where each request is
  job,             \* the candidate and the path each request has read
  offered,         \* history: versions a check found eligible for this device
  launched,        \* history: the versions whose installer was launched
  split            \* history: has a record been replaced by another target's?

fields == <<candidate, downloadedPath, state>>
vars == <<fields, pending, disk, window, pc, job, offered, launched, split>>

NoVersion == 0

Newer == {v \in Versions : v > Current}

(* Version NoVersion is a candidate without an envelope.                   *)
Candidates ==
  {c \in [version : Versions \cup {NoVersion}, eligible : BOOLEAN] :
     c.eligible => c.version \in Newer}

NoCandidate == [version |-> NoVersion, eligible |-> FALSE]

NoJob == [candidate |-> NoCandidate, path |-> NoVersion]

States == {"current", "rollout_pending", "available", "ready", "applying", "unavailable"}

Locations ==
  {"idle", "failed", "checked",
   "lookup", "stat", "fetch", "downloaded",
   "exact", "prepare", "read", "write", "launch", "applied"}

TypeOK ==
  /\ candidate \in Candidates
  /\ downloadedPath \in Newer \cup {NoVersion}
  /\ state \in States
  /\ pending \in PendingUpdate \cup {NoPending}
  /\ disk \in [Newer -> {"absent", "good", "bad"}]
  /\ window \in {"none", "armed", "healthy"}
  /\ pc \in [Requests -> Locations]
  /\ job \in [Requests -> [candidate : Candidates, path : Newer \cup {NoVersion}]]
  /\ offered \subseteq Newer /\ launched \subseteq Newer
  /\ split \in BOOLEAN

(* NewCoordinator after RecoverOnStartup: there is no record, or this      *)
(* version is on trial.  Files may be left over from earlier processes.    *)
Init ==
  /\ candidate = NoCandidate /\ downloadedPath = NoVersion /\ state = "current"
  /\ \/ pending = NoPending /\ window = "none"
     \/ /\ \E v \in Versions : CanPrepare(v, Current) /\ pending = Counted(Prepared(v, Current))
        /\ window = "armed"
  /\ disk \in [Newer -> {"absent", "good", "bad"}]
  /\ pc = [r \in Requests |-> "idle"]
  /\ job = [r \in Requests |-> NoJob]
  /\ offered = {} /\ launched = {} /\ split = FALSE

Step(r, from, to) ==
  /\ pc[r] = from
  /\ pc' = [pc EXCEPT ![r] = to]

(* Every error of Refresh, Download and fail() ends here, under the mutex. *)
Fail(r) ==
  /\ Step(r, "failed", "idle")
  /\ state' = "unavailable"
  /\ UNCHANGED <<candidate, downloadedPath, pending, disk, window, job, offered, launched, split>>

-----------------------------------------------------------------------------
(* Refresh.                                                                *)

(* Client.Check: a release, or none, and whether the rollout has this      *)
(* device; nothing ties an answer to an earlier one.                       *)
Check(r) ==
  /\ \/ \E c \in Candidates :
          /\ Step(r, "idle", "checked")
          /\ job' = [job EXCEPT ![r] = [candidate |-> c, path |-> NoVersion]]
          /\ offered' = offered \cup (IF c.eligible THEN {c.version} ELSE {})
     \/ Step(r, "idle", "failed") /\ UNCHANGED <<job, offered>>
  /\ UNCHANGED <<fields, pending, disk, window, launched, split>>

StateOf(c) ==
  IF c.eligible THEN "available"
  ELSE IF c.version \in Newer THEN "rollout_pending" ELSE "current"

Refreshed(r) ==
  /\ Step(r, "checked", "idle")
  /\ candidate' = job[r].candidate
  /\ downloadedPath' = NoVersion
  /\ state' = StateOf(job[r].candidate)
  /\ UNCHANGED <<pending, disk, window, job, offered, launched, split>>

-----------------------------------------------------------------------------
(* Download.                                                               *)

DownloadOfAnyRelease(r) ==   \* variant: the rollout is not asked
  /\ candidate.version \in Newer
  /\ Step(r, "idle", "lookup")
  /\ job' = [job EXCEPT ![r] = [candidate |-> candidate, path |-> candidate.version]]
  /\ UNCHANGED <<fields, pending, disk, window, offered, launched, split>>

Download(r) ==
  /\ candidate.eligible
  /\ Step(r, "idle", "lookup")
  /\ job' = [job EXCEPT ![r] = [candidate |-> candidate, path |-> candidate.version]]
  /\ UNCHANGED <<fields, pending, disk, window, offered, launched, split>>

AnyFileWillDo(r) ==   \* variant: an existing file is taken as it is
  /\ \/ Step(r, "lookup", "downloaded") /\ disk[job[r].path] # "absent"
     \/ Step(r, "lookup", "stat") /\ disk[job[r].path] = "absent"
  /\ UNCHANGED <<fields, pending, disk, window, job, offered, launched, split>>

(* A file that verifies is used as it is; any other file stops it, also    *)
(* one that cannot be read now, or that another request put there since    *)
(* the first look.                                                         *)
LookUp(r) ==
  /\ \/ Step(r, "lookup", "downloaded") /\ disk[job[r].path] = "good"
     \/ Step(r, "lookup", "stat")
  /\ UNCHANGED <<fields, pending, disk, window, job, offered, launched, split>>

Stat(r) ==
  /\ \/ Step(r, "stat", "fetch") /\ disk[job[r].path] = "absent"
     \/ Step(r, "stat", "failed") /\ disk[job[r].path] # "absent"
  /\ UNCHANGED <<fields, pending, disk, window, job, offered, launched, split>>

(* The body goes to a temporary file, which is verified and renamed.       *)
Fetch(r) ==
  /\ \/ /\ Step(r, "fetch", "downloaded")
        /\ disk' = [disk EXCEPT ![job[r].path] = "good"]
     \/ /\ Step(r, "fetch", "failed")
        /\ UNCHANGED disk
  /\ UNCHANGED <<fields, pending, window, job, offered, launched, split>>

Downloaded(r) ==
  /\ Step(r, "downloaded", "idle")
  /\ downloadedPath' = job[r].path
  /\ state' = "ready"
  /\ UNCHANGED <<candidate, pending, disk, window, job, offered, launched, split>>

-----------------------------------------------------------------------------
(* Apply.                                                                  *)

Apply(r) ==
  /\ downloadedPath # NoVersion
  /\ candidate.eligible
  /\ Step(r, "idle", "exact")
  /\ job' = [job EXCEPT ![r] = [candidate |-> candidate, path |-> downloadedPath]]
  /\ UNCHANGED <<fields, pending, disk, window, offered, launched, split>>

(* Client.Exact, and the recovery installer against what it returned.      *)
Exact(r) ==
  /\ Step(r, "exact", "prepare") \/ Step(r, "exact", "failed")
  /\ UNCHANGED <<fields, pending, disk, window, job, offered, launched, split>>

PrepareUnverified(r) ==   \* variant: the target's installer is not verified
  /\ \/ /\ Step(r, "prepare", "read")
        /\ CanPrepare(Current, job[r].candidate.version)
     \/ Step(r, "prepare", "failed")
  /\ UNCHANGED <<fields, pending, disk, window, job, offered, launched, split>>

(* Prepare: the order of the versions, then the file against the manifest  *)
(* of the candidate; the recovery installer is verified once more.         *)
PrepareVerifies(r) ==
  /\ \/ /\ Step(r, "prepare", "read")
        /\ CanPrepare(Current, job[r].candidate.version)
        /\ disk[job[r].path] = "good"
        /\ job[r].path = job[r].candidate.version
     \/ Step(r, "prepare", "failed")
  /\ UNCHANGED <<fields, pending, disk, window, job, offered, launched, split>>

PrepareReadsNothing(r) ==   \* variant: an existing record is not refused
  /\ Step(r, "read", "write")
  /\ UNCHANGED <<fields, pending, disk, window, job, offered, launched, split>>

PrepareReads(r) ==
  /\ \/ Step(r, "read", "write") /\ pending = NoPending
     \/ Step(r, "read", "failed") /\ pending # NoPending
  /\ UNCHANGED <<fields, pending, disk, window, job, offered, launched, split>>

PrepareWrites(r) ==
  /\ \/ /\ Step(r, "write", "launch")
        /\ pending' = Prepared(Current, job[r].candidate.version)
        /\ split' = (split \/ (pending # NoPending /\ pending.target # pending'.target))
     \/ /\ Step(r, "write", "failed")
        /\ UNCHANGED <<pending, split>>
  /\ UNCHANGED <<fields, disk, window, job, offered, launched>>

Launch(r) ==
  /\ \/ /\ Step(r, "launch", "applied")
        /\ launched' = launched \cup {job[r].path}
     \/ /\ Step(r, "launch", "failed")
        /\ UNCHANGED launched
  /\ UNCHANGED <<fields, pending, disk, window, job, offered, split>>

(* The answer; the process is to stop 750 ms later.                        *)
Applied(r) ==
  /\ Step(r, "applied", "idle")
  /\ state' = "applying"
  /\ UNCHANGED <<candidate, downloadedPath, pending, disk, window, job, offered, launched, split>>

-----------------------------------------------------------------------------
(* Around the requests.                                                    *)

(* MarkHealthy reads the record when the health window passes.             *)
WindowPasses ==
  /\ window = "armed"
  /\ window' = IF TargetStarted(pending, Current) THEN "healthy" ELSE "none"
  /\ UNCHANGED <<fields, pending, disk, pc, job, offered, launched, split>>

MarkHealthy ==
  /\ window = "healthy"
  /\ window' = "none"
  /\ pending' \in {NoPending, pending}
  /\ UNCHANGED <<fields, disk, pc, job, offered, launched, split>>

(* RecoverOnStartup counts the start of a version on trial, and arms the   *)
(* window or begins the rollback; a write, the recovery installer's        *)
(* digest, or its launch may fail, and main goes on to serve.              *)
Recovers ==
  \/ UNCHANGED pending /\ window' = "none"
  \/ /\ TargetStarted(pending, Current)
     /\ ~RollbackRequired(Counted(pending))
     /\ pending' = Counted(pending)
     /\ window' = "armed"
  \/ /\ TargetStarted(pending, Current)
     /\ RollbackRequired(Counted(pending))
     /\ pending' \in {Counted(pending), RollingBack(Counted(pending))}
     /\ window' = "none"

(* The process ends between any two steps, after an Apply or by a crash,   *)
(* and this version is started again: its installer did not replace it, or *)
(* has not yet.                                                            *)
Restart ==
  /\ Recovers
  /\ candidate' = NoCandidate /\ downloadedPath' = NoVersion /\ state' = "current"
  /\ pc' = [r \in Requests |-> "idle"]
  /\ job' = [r \in Requests |-> NoJob]
  /\ UNCHANGED <<disk, offered, launched, split>>

-----------------------------------------------------------------------------

RefreshStep(r) == Check(r) \/ Refreshed(r)

DownloadStep(r) == Download(r) \/ LookUp(r) \/ Stat(r) \/ Fetch(r) \/ Downloaded(r)

ApplyStep(r) ==
  \/ Apply(r) \/ Exact(r)
  \/ PrepareVerifies(r) \/ PrepareReads(r) \/ PrepareWrites(r)
  \/ Launch(r) \/ Applied(r)

Next ==
  \/ \E r \in Requests : Fail(r) \/ RefreshStep(r) \/ DownloadStep(r) \/ ApplyStep(r)
  \/ WindowPasses \/ MarkHealthy \/ Restart

Spec == Init /\ [][Next]_vars

-----------------------------------------------------------------------------
(* Properties.                                                             *)

(* The record on disk names what was launched, so that the third failed    *)
(* start of it can be undone, although candidate and path are read apart   *)
(* from each other's writes (a refresh or another download in between) and *)
(* the checks are made long before.  The exception is named: two applies   *)
(* that both found no record and write different targets.                  *)
RecordNamesTheLaunched ==
  ~split => \A v \in launched : pending.prev = Current /\ pending.target = v

(* Once this version has prepared an update, no request and no health      *)
(* window that was still open takes the record away.                       *)
OwnRecordStays ==
  [][ pending.prev = Current => pending'.prev = Current ]_vars

(* When the page is told that an update is ready, the file that Apply will *)
(* use was verified and belongs to a release that was offered to this      *)
(* device, whatever refreshes and other downloads did meanwhile.           *)
ReadyMeansVerified ==
  /\ state = "ready" => downloadedPath # NoVersion
  /\ downloadedPath # NoVersion =>
       /\ disk[downloadedPath] = "good"
       /\ downloadedPath \in offered

-----------------------------------------------------------------------------
(* The inductive invariant behind them.                                    *)

OnTrial == pending # NoPending /\ pending.target = Current

OwnRecord == pending.prev = Current

(* A record is this version's own update or its own trial.                 *)
RecordIsOurs ==
  /\ pending # NoPending => OwnRecord \/ OnTrial
  /\ OwnRecord => pending.target \in Newer

(* The window removes only the trial's record, and no Prepare is beyond    *)
(* its look at the record while there is one of a trial.                   *)
WindowHasItsRecord ==
  /\ window = "healthy" => OnTrial
  /\ OnTrial => \A r \in Requests : pc[r] \notin {"write", "launch"}

(* What a request has verified stays so until it launches.                 *)
VerifiedIsOne ==
  \A r \in Requests :
    pc[r] \in {"read", "write", "launch"} =>
      /\ job[r].path = job[r].candidate.version
      /\ job[r].path \in Newer

(* What was launched, or will be, has the record.                          *)
LaunchedHasRecord ==
  /\ launched # {} => OwnRecord
  /\ \A r \in Requests : pc[r] = "launch" => OwnRecord
  /\ ~split =>
       /\ \A v \in launched : pending.target = v
       /\ \A r \in Requests : pc[r] = "launch" => pending.target = job[r].path

(* What a download carries was offered, and ends on a verified file.       *)
DownloadsAreOffered ==
  /\ candidate.eligible => candidate.version \in offered
  /\ \A r \in Requests :
       /\ job[r].candidate.eligible => job[r].candidate.version \in offered
       /\ pc[r] \in {"lookup", "stat", "fetch", "downloaded"} => job[r].path \in offered
       /\ pc[r] = "downloaded" => disk[job[r].path] = "good"

IInv ==
  /\ TypeOK /\ RecordIsOurs /\ WindowHasItsRecord /\ VerifiedIsOne
  /\ LaunchedHasRecord /\ DownloadsAreOffered /\ ReadyMeansVerified
=============================================================================
