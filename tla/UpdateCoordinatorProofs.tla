----------------------- MODULE UpdateCoordinatorProofs -----------------------
(***************************************************************************)
(* Proofs about UpdateCoordinator, for any versions and any number of      *)
(* concurrent requests; and, at the end, about what a check of the update  *)
(* service answers, for any versions and rollouts.                         *)
(***************************************************************************)
EXTENDS UpdateCoordinator, ReleaseMetadata, TLAPS

(* Zero is no version, so NoPending is nobody's record.                    *)
LEMMA NoPendingIsNobodys ==
  /\ NoPending \notin PendingUpdate
  /\ NoPending.prev # Current /\ NoPending.target # Current
  /\ \A p \in PendingUpdate : p # NoPending /\ p.target \in Versions
BY VersionsAssumption, CurrentAssumption DEF NoPending, PendingUpdate

(* A record that Prepare writes for a newer version is this version's own. *)
LEMMA PreparedIsOwn ==
  ASSUME NEW v \in Newer
  PROVE  /\ Prepared(Current, v) \in PendingUpdate
         /\ Prepared(Current, v).prev = Current
         /\ Prepared(Current, v).target = v
         /\ v # Current /\ v # NoVersion
BY VersionsAssumption, CurrentAssumption
DEF Prepared, PendingUpdate, Newer, NoVersion, MaxReadableAttempts

(* Neither counting a start nor a rollback changes a version in the record. *)
LEMMA CountedKeepsVersions ==
  ASSUME NEW p \in PendingUpdate, Readable(p),
         NEW q \in {Counted(p), RollingBack(Counted(p))}
  PROVE  q \in PendingUpdate /\ q.prev = p.prev /\ q.target = p.target
<1>1. /\ Counted(p) \in PendingUpdate
      /\ Counted(p).prev = p.prev /\ Counted(p).target = p.target
  BY DEF PendingUpdate, Counted, Readable, MaxReadableAttempts
<1>2. /\ RollingBack(Counted(p)) \in PendingUpdate
      /\ RollingBack(Counted(p)).prev = Counted(p).prev
      /\ RollingBack(Counted(p)).target = Counted(p).target
  BY <1>1 DEF PendingUpdate, RollingBack
<1>3. QED
  BY <1>1, <1>2

(* A trial of this version was not prepared by this version.               *)
LEMMA TrialIsNotOwn ==
  ASSUME RecordIsOurs, OnTrial
  PROVE  ~OwnRecord
<1>1. Current \notin Newer
  BY VersionsAssumption, CurrentAssumption DEF Newer
<1>2. QED
  BY <1>1 DEF RecordIsOurs, OnTrial

LEMMA InitIInv == Init => IInv
<1> SUFFICES ASSUME Init PROVE IInv
  OBVIOUS
<1>1. \/ pending = NoPending /\ window = "none"
      \/ /\ pending \in PendingUpdate /\ pending.target = Current /\ pending.prev # Current
         /\ window = "armed"
  <2>1. ASSUME NEW v \in Versions, CanPrepare(v, Current),
               pending = Counted(Prepared(v, Current))
        PROVE  pending \in PendingUpdate /\ pending.target = Current /\ pending.prev # Current
    <3>1. v \in Nat /\ Current \in Nat /\ v < Current
      BY <2>1, VersionsAssumption, CurrentAssumption DEF CanPrepare
    <3>2. pending = [prev |-> v, target |-> Current, attempts |-> 1, phase |-> "installing"]
      BY <2>1 DEF Prepared, Counted
    <3>3. QED
      BY <3>1, <3>2, CurrentAssumption DEF PendingUpdate, MaxReadableAttempts
  <2>2. QED
    BY <2>1 DEF Init
<1>2. TypeOK
  BY <1>1 DEF Init, TypeOK, Candidates, NoCandidate, NoJob, NoVersion, States, Locations
<1>3. RecordIsOurs /\ WindowHasItsRecord
  BY <1>1, NoPendingIsNobodys
  DEF Init, RecordIsOurs, WindowHasItsRecord, OwnRecord, OnTrial
<1>4. VerifiedIsOne /\ LaunchedHasRecord /\ DownloadsAreOffered /\ ReadyMeansVerified
  BY DEF Init, VerifiedIsOne, LaunchedHasRecord, DownloadsAreOffered, ReadyMeansVerified,
         NoCandidate, NoJob
<1>5. QED
  BY <1>2, <1>3, <1>4 DEF IInv

-----------------------------------------------------------------------------
(* Steps of a request that leave the record, the window, the files and the *)
(* histories alone: whatever place it moves to must be earned.             *)

LEMMA QuietStep ==
  ASSUME IInv, NEW r \in Requests, NEW to \in Locations \ {"write", "launch", "downloaded"},
         pc' = [pc EXCEPT ![r] = to],
         to \in {"lookup", "stat", "fetch"} => job[r].path \in offered,
         to = "read" => job[r].path = job[r].candidate.version /\ job[r].path \in Newer,
         UNCHANGED <<candidate, downloadedPath, pending, disk, window, job, offered, launched, split>>,
         state' = state \/ state' \in States \ {"ready"}
  PROVE  IInv'
<1> USE DEF IInv
<1>1. TypeOK'
  BY DEF TypeOK, States
<1>2. RecordIsOurs' /\ WindowHasItsRecord'
  BY DEF RecordIsOurs, WindowHasItsRecord, OnTrial, OwnRecord, TypeOK
<1>3. VerifiedIsOne'
  BY DEF VerifiedIsOne, TypeOK
<1>4. LaunchedHasRecord'
  BY DEF LaunchedHasRecord, OwnRecord, TypeOK
<1>5. DownloadsAreOffered' /\ ReadyMeansVerified'
  BY DEF DownloadsAreOffered, ReadyMeansVerified, TypeOK
<1>6. QED
  BY <1>1, <1>2, <1>3, <1>4, <1>5

(* A request begins: what it carries was offered, or is nothing.           *)
LEMMA BeginningStep ==
  ASSUME IInv, NEW r \in Requests, NEW to \in {"checked", "lookup", "exact"},
         pc' = [pc EXCEPT ![r] = to],
         NEW c \in Candidates, NEW path \in Newer \cup {NoVersion},
         job' = [job EXCEPT ![r] = [candidate |-> c, path |-> path]],
         offered \subseteq offered', offered' \subseteq Newer,
         c.eligible => c.version \in offered',
         to = "lookup" => path \in offered',
         UNCHANGED <<fields, pending, disk, window, launched, split>>
  PROVE  IInv'
<1> USE DEF IInv, fields
<1>1. TypeOK'
  BY DEF TypeOK, Locations
<1>2. RecordIsOurs' /\ WindowHasItsRecord'
  BY DEF RecordIsOurs, WindowHasItsRecord, OnTrial, OwnRecord, TypeOK
<1>3. VerifiedIsOne'
  BY DEF VerifiedIsOne, TypeOK
<1>4. LaunchedHasRecord'
  BY DEF LaunchedHasRecord, OwnRecord, TypeOK
<1>5. DownloadsAreOffered' /\ ReadyMeansVerified'
  BY DEF DownloadsAreOffered, ReadyMeansVerified, TypeOK
<1>6. QED
  BY <1>1, <1>2, <1>3, <1>4, <1>5

LEMMA RefreshKeeps ==
  ASSUME IInv, NEW r \in Requests, Fail(r) \/ RefreshStep(r)
  PROVE  IInv'
<1>1. CASE Fail(r)
  BY <1>1, QuietStep DEF Fail, Step, Locations, States
<1>2. CASE Check(r)
  <2>1. CASE Step(r, "idle", "failed") /\ UNCHANGED <<job, offered>>
    BY <1>2, <2>1, QuietStep DEF Check, Step, Locations, fields
  <2>2. ASSUME NEW c \in Candidates,
               Step(r, "idle", "checked"),
               job' = [job EXCEPT ![r] = [candidate |-> c, path |-> NoVersion]],
               offered' = offered \cup (IF c.eligible THEN {c.version} ELSE {})
        PROVE  IInv'
    <3>1. c.eligible => c.version \in Newer
      BY DEF Candidates
    <3>2. /\ offered \subseteq offered' /\ offered' \subseteq Newer
          /\ c.eligible => c.version \in offered'
      BY <2>2, <3>1 DEF IInv, TypeOK
    <3>3. UNCHANGED <<fields, pending, disk, window, launched, split>>
      BY <1>2 DEF Check
    <3>4. QED
      BY <2>2, <3>2, <3>3, BeginningStep DEF Step
  <2>3. QED
    BY <1>2, <2>1, <2>2 DEF Check
<1>3. CASE Refreshed(r)
  <2> USE <1>3 DEF IInv, Refreshed, Step
  <2>1. job[r].candidate \in Candidates /\ StateOf(job[r].candidate) \in States \ {"ready"}
    BY DEF TypeOK, StateOf, States
  <2>2. TypeOK'
    BY <2>1 DEF TypeOK, Locations, NoVersion
  <2>3. RecordIsOurs' /\ WindowHasItsRecord' /\ VerifiedIsOne' /\ LaunchedHasRecord'
    BY DEF RecordIsOurs, WindowHasItsRecord, OnTrial, OwnRecord, VerifiedIsOne,
           LaunchedHasRecord, TypeOK
  <2>4. DownloadsAreOffered' /\ ReadyMeansVerified'
    BY <2>1 DEF DownloadsAreOffered, ReadyMeansVerified, TypeOK
  <2>5. QED
    BY <2>2, <2>3, <2>4
<1>4. QED
  BY <1>1, <1>2, <1>3 DEF RefreshStep

LEMMA DownloadKeeps ==
  ASSUME IInv, NEW r \in Requests, DownloadStep(r)
  PROVE  IInv'
<1>1. CASE Download(r)
  <2>1. /\ candidate \in Candidates /\ candidate.eligible
        /\ candidate.version \in offered /\ offered \subseteq Newer
        /\ candidate.version \in Newer
    BY <1>1 DEF Download, IInv, TypeOK, DownloadsAreOffered
  <2>2. /\ pc' = [pc EXCEPT ![r] = "lookup"]
        /\ job' = [job EXCEPT ![r] = [candidate |-> candidate, path |-> candidate.version]]
        /\ UNCHANGED <<fields, pending, disk, window, offered, launched, split>>
    BY <1>1 DEF Download, Step
  <2>3. QED
    BY <2>1, <2>2, BeginningStep
<1>2. CASE LookUp(r)
  <2>1. job[r].path \in offered
    BY <1>2 DEF LookUp, Step, IInv, DownloadsAreOffered
  <2>2. CASE pc' = [pc EXCEPT ![r] = "stat"]
    BY <1>2, <2>1, <2>2, QuietStep DEF LookUp, Locations, fields
  <2>3. CASE pc' = [pc EXCEPT ![r] = "downloaded"] /\ disk[job[r].path] = "good"
    <3> USE <1>2, <2>3 DEF IInv, LookUp, fields
    <3>1. TypeOK' /\ ReadyMeansVerified'
      BY DEF TypeOK, Locations, ReadyMeansVerified
    <3>2. RecordIsOurs' /\ WindowHasItsRecord' /\ VerifiedIsOne' /\ LaunchedHasRecord'
      BY DEF RecordIsOurs, WindowHasItsRecord, OnTrial, OwnRecord, VerifiedIsOne,
             LaunchedHasRecord, TypeOK
    <3>3. DownloadsAreOffered'
      BY <2>1 DEF DownloadsAreOffered, TypeOK
    <3>4. QED
      BY <3>1, <3>2, <3>3
  <2>4. QED
    BY <1>2, <2>2, <2>3 DEF LookUp, Step
<1>3. CASE Stat(r)
  <2>1. job[r].path \in offered
    BY <1>3 DEF Stat, Step, IInv, DownloadsAreOffered
  <2>2. QED
    BY <1>3, <2>1, QuietStep DEF Stat, Step, Locations, fields
<1>4. CASE Fetch(r)
  <2>1. CASE pc' = [pc EXCEPT ![r] = "failed"] /\ UNCHANGED disk
    BY <1>4, <2>1, QuietStep DEF Fetch, Locations, fields
  <2>2. CASE /\ pc' = [pc EXCEPT ![r] = "downloaded"]
             /\ disk' = [disk EXCEPT ![job[r].path] = "good"]
    <3> USE <1>4, <2>2 DEF IInv, Fetch, fields
    <3>1. job[r].path \in offered /\ job[r].path \in Newer
      BY DEF Step, DownloadsAreOffered, TypeOK
    <3>2. /\ disk' \in [Newer -> {"absent", "good", "bad"}]
          /\ \A v \in Newer : disk[v] = "good" => disk'[v] = "good"
          /\ disk'[job[r].path] = "good"
      BY <3>1 DEF TypeOK
    <3>3. TypeOK' /\ ReadyMeansVerified'
      BY <3>2 DEF TypeOK, Locations, ReadyMeansVerified
    <3>4. RecordIsOurs' /\ WindowHasItsRecord' /\ VerifiedIsOne' /\ LaunchedHasRecord'
      BY DEF RecordIsOurs, WindowHasItsRecord, OnTrial, OwnRecord, VerifiedIsOne,
             LaunchedHasRecord, TypeOK
    <3>5. DownloadsAreOffered'
      BY <3>1, <3>2 DEF DownloadsAreOffered, TypeOK
    <3>6. QED
      BY <3>3, <3>4, <3>5
  <2>3. QED
    BY <1>4, <2>1, <2>2 DEF Fetch, Step
<1>5. CASE Downloaded(r)
  <2> USE <1>5 DEF IInv, Downloaded, Step
  <2>1. job[r].path \in offered /\ job[r].path \in Newer /\ disk[job[r].path] = "good"
    BY DEF DownloadsAreOffered, TypeOK
  <2>2. TypeOK' /\ ReadyMeansVerified'
    BY <2>1, PreparedIsOwn DEF TypeOK, Locations, States, ReadyMeansVerified
  <2>3. RecordIsOurs' /\ WindowHasItsRecord' /\ VerifiedIsOne' /\ LaunchedHasRecord'
    BY DEF RecordIsOurs, WindowHasItsRecord, OnTrial, OwnRecord, VerifiedIsOne,
           LaunchedHasRecord, TypeOK
  <2>4. DownloadsAreOffered'
    BY DEF DownloadsAreOffered, TypeOK
  <2>5. QED
    BY <2>2, <2>3, <2>4
<1>6. QED
  BY <1>1, <1>2, <1>3, <1>4, <1>5 DEF DownloadStep

LEMMA ApplyKeeps ==
  ASSUME IInv, NEW r \in Requests, ApplyStep(r)
  PROVE  IInv'
<1>1. CASE Apply(r)
  <2>1. /\ candidate \in Candidates /\ downloadedPath \in Newer \cup {NoVersion}
        /\ candidate.eligible => candidate.version \in offered
        /\ offered \subseteq Newer
    BY DEF IInv, TypeOK, DownloadsAreOffered
  <2>2. /\ pc' = [pc EXCEPT ![r] = "exact"]
        /\ job' = [job EXCEPT ![r] = [candidate |-> candidate, path |-> downloadedPath]]
        /\ UNCHANGED <<fields, pending, disk, window, offered, launched, split>>
    BY <1>1 DEF Apply, Step
  <2>3. QED
    BY <2>1, <2>2, BeginningStep
<1>2. CASE Exact(r)
  BY <1>2, QuietStep DEF Exact, Step, Locations, fields
<1>3. CASE PrepareVerifies(r)
  <2>1. CASE Step(r, "prepare", "failed")
    BY <1>3, <2>1, QuietStep DEF PrepareVerifies, Step, Locations, fields
  <2>2. CASE /\ Step(r, "prepare", "read")
             /\ CanPrepare(Current, job[r].candidate.version)
             /\ job[r].path = job[r].candidate.version
    <3>1. job[r].path \in Newer
      <4>1. job[r].path \in Newer \cup {NoVersion} /\ job[r].path > Current
        BY <2>2 DEF IInv, TypeOK, CanPrepare
      <4>2. QED
        BY <4>1, VersionsAssumption, CurrentAssumption DEF NoVersion
    <3>2. QED
      BY <1>3, <2>2, <3>1, QuietStep DEF PrepareVerifies, Step, Locations, fields
  <2>3. QED
    BY <1>3, <2>1, <2>2 DEF PrepareVerifies
<1>4. CASE PrepareReads(r)
  <2>1. CASE Step(r, "read", "failed")
    BY <1>4, <2>1, QuietStep DEF PrepareReads, Step, Locations, fields
  <2>2. CASE Step(r, "read", "write") /\ pending = NoPending
    <3> USE <1>4, <2>2 DEF IInv, PrepareReads, Step, fields
    <3>1. TypeOK' /\ ReadyMeansVerified' /\ DownloadsAreOffered'
      BY DEF TypeOK, Locations, ReadyMeansVerified, DownloadsAreOffered
    <3>2. RecordIsOurs' /\ WindowHasItsRecord' /\ VerifiedIsOne' /\ LaunchedHasRecord'
      BY DEF RecordIsOurs, WindowHasItsRecord, OnTrial, OwnRecord, VerifiedIsOne,
             LaunchedHasRecord, TypeOK
    <3>3. QED
      BY <3>1, <3>2
  <2>3. QED
    BY <1>4, <2>1, <2>2 DEF PrepareReads
<1>5. CASE PrepareWrites(r)
  <2>1. CASE Step(r, "write", "failed") /\ UNCHANGED <<pending, split>>
    BY <1>5, <2>1, QuietStep DEF PrepareWrites, Step, Locations, fields
  <2>2. CASE /\ Step(r, "write", "launch")
             /\ pending' = Prepared(Current, job[r].candidate.version)
             /\ split' = (split \/ (pending # NoPending /\ pending.target # pending'.target))
    <3> DEFINE v == job[r].candidate.version
    <3> USE DEF IInv
    <3>1. v = job[r].path /\ v \in Newer /\ ~OnTrial
      BY <2>2 DEF Step, VerifiedIsOne, WindowHasItsRecord
    <3>2. /\ pending' \in PendingUpdate /\ pending'.prev = Current /\ pending'.target = v
          /\ v # Current /\ window # "healthy"
      BY <2>2, <3>1, PreparedIsOwn DEF WindowHasItsRecord
    <3>3. UNCHANGED <<fields, disk, window, job, offered, launched>>
      BY <1>5 DEF PrepareWrites
    <3>4. pc' = [pc EXCEPT ![r] = "launch"] /\ pc[r] = "write"
      BY <2>2 DEF Step
    <3> HIDE DEF v
    <3>5. TypeOK' /\ ReadyMeansVerified' /\ DownloadsAreOffered'
      BY <2>2, <3>2, <3>3, <3>4
      DEF TypeOK, Locations, ReadyMeansVerified, DownloadsAreOffered, fields
    <3>6. RecordIsOurs' /\ WindowHasItsRecord'
      BY <3>1, <3>2, <3>3 DEF RecordIsOurs, WindowHasItsRecord, OnTrial, OwnRecord
    <3>7. VerifiedIsOne'
      BY <3>3, <3>4 DEF VerifiedIsOne, TypeOK
    <3>8. LaunchedHasRecord'
      <4>1. \/ split'
            \/ ~split /\ (pending = NoPending \/ pending.target = v)
        BY <2>2, <3>2 DEF TypeOK
      <4>2. pending = NoPending =>
              launched = {} /\ \A q \in Requests : pc[q] # "launch"
        BY NoPendingIsNobodys DEF LaunchedHasRecord, OwnRecord
      <4>3. OwnRecord'
        BY <3>2 DEF OwnRecord
      <4>4. ASSUME ~split'
            PROVE  /\ \A u \in launched' : pending'.target = u
                   /\ \A q \in Requests : pc'[q] = "launch" => pending'.target = job'[q].path
        BY <3>1, <3>2, <3>3, <3>4, <4>1, <4>2, <4>4 DEF LaunchedHasRecord, TypeOK, v
      <4>5. QED
        BY <4>3, <4>4 DEF LaunchedHasRecord
    <3>9. QED
      BY <3>5, <3>6, <3>7, <3>8
  <2>3. QED
    BY <1>5, <2>1, <2>2 DEF PrepareWrites
<1>6. CASE Launch(r)
  <2>1. CASE Step(r, "launch", "failed") /\ UNCHANGED launched
    BY <1>6, <2>1, QuietStep DEF Launch, Step, Locations, fields
  <2>2. CASE Step(r, "launch", "applied") /\ launched' = launched \cup {job[r].path}
    <3> USE <1>6, <2>2 DEF IInv, Launch, Step, fields
    <3>1. job[r].path \in Newer
      BY DEF VerifiedIsOne
    <3>2. TypeOK' /\ ReadyMeansVerified' /\ DownloadsAreOffered'
      BY <3>1 DEF TypeOK, Locations, ReadyMeansVerified, DownloadsAreOffered
    <3>3. RecordIsOurs' /\ WindowHasItsRecord' /\ VerifiedIsOne'
      BY DEF RecordIsOurs, WindowHasItsRecord, OnTrial, OwnRecord, VerifiedIsOne, TypeOK
    <3>4. LaunchedHasRecord'
      BY DEF LaunchedHasRecord, OwnRecord, TypeOK
    <3>5. QED
      BY <3>2, <3>3, <3>4
  <2>3. QED
    BY <1>6, <2>1, <2>2 DEF Launch
<1>7. CASE Applied(r)
  BY <1>7, QuietStep DEF Applied, Step, Locations, States
<1>8. QED
  BY <1>1, <1>2, <1>3, <1>4, <1>5, <1>6, <1>7 DEF ApplyStep

LEMMA SurroundingsKeep ==
  ASSUME IInv, WindowPasses \/ MarkHealthy \/ Restart
  PROVE  IInv'
<1> USE DEF IInv
<1>1. CASE WindowPasses
  <2>1. window' = "healthy" => OnTrial
    BY <1>1 DEF WindowPasses, TargetStarted, Readable, OnTrial
  <2>2. TypeOK' /\ ReadyMeansVerified' /\ DownloadsAreOffered'
    BY <1>1 DEF WindowPasses, TypeOK, ReadyMeansVerified, DownloadsAreOffered, fields
  <2>3. RecordIsOurs' /\ WindowHasItsRecord' /\ VerifiedIsOne' /\ LaunchedHasRecord'
    BY <1>1, <2>1 DEF WindowPasses, RecordIsOurs, WindowHasItsRecord, OnTrial, OwnRecord,
       VerifiedIsOne, LaunchedHasRecord
  <2>4. QED
    BY <2>2, <2>3
<1>2. CASE MarkHealthy
  <2>1. OnTrial /\ ~OwnRecord /\ launched = {} /\ \A r \in Requests : pc[r] # "launch"
    <3>1. OnTrial
      BY <1>2 DEF MarkHealthy, WindowHasItsRecord
    <3>2. ~OwnRecord
      BY <3>1, TrialIsNotOwn DEF OnTrial
    <3>3. QED
      BY <3>1, <3>2 DEF LaunchedHasRecord
  <2>2. TypeOK' /\ ReadyMeansVerified' /\ DownloadsAreOffered'
    BY <1>2 DEF MarkHealthy, TypeOK, ReadyMeansVerified, DownloadsAreOffered, fields
  <2>3. RecordIsOurs' /\ WindowHasItsRecord'
    BY <1>2, <2>1, NoPendingIsNobodys
    DEF MarkHealthy, RecordIsOurs, WindowHasItsRecord, OnTrial, OwnRecord
  <2>4. VerifiedIsOne' /\ LaunchedHasRecord'
    BY <1>2, <2>1 DEF MarkHealthy, VerifiedIsOne, LaunchedHasRecord
  <2>5. QED
    BY <2>2, <2>3, <2>4
<1>3. CASE Restart
  <2>1. /\ pending' \in PendingUpdate \cup {NoPending}
        /\ pending' = NoPending <=> pending = NoPending
        /\ pending'.prev = pending.prev /\ pending'.target = pending.target
    <3>1. CASE UNCHANGED pending
      BY <3>1 DEF TypeOK
    <3>2. CASE TargetStarted(pending, Current) /\
               pending' \in {Counted(pending), RollingBack(Counted(pending))}
      <4>1. pending \in PendingUpdate /\ Readable(pending)
        BY <3>2 DEF TypeOK, TargetStarted, Readable
      <4>2. QED
        BY <3>2, <4>1, CountedKeepsVersions, NoPendingIsNobodys
    <3>3. QED
      BY <1>3, <3>1, <3>2 DEF Restart, Recovers
  <2>2. /\ pc' = [r \in Requests |-> "idle"] /\ job' = [r \in Requests |-> NoJob]
        /\ candidate' = NoCandidate /\ downloadedPath' = NoVersion /\ state' = "current"
        /\ window' \in {"none", "armed"}
        /\ UNCHANGED <<disk, offered, launched, split>>
    BY <1>3 DEF Restart, Recovers
  <2>3. TypeOK'
    BY <2>1, <2>2 DEF TypeOK, Candidates, NoCandidate, NoJob, NoVersion, States, Locations
  <2>4. RecordIsOurs' /\ WindowHasItsRecord'
    BY <2>1, <2>2 DEF RecordIsOurs, WindowHasItsRecord, OnTrial, OwnRecord
  <2>5. VerifiedIsOne' /\ LaunchedHasRecord'
    BY <2>1, <2>2 DEF VerifiedIsOne, LaunchedHasRecord, OwnRecord
  <2>6. DownloadsAreOffered' /\ ReadyMeansVerified'
    BY <2>2 DEF DownloadsAreOffered, ReadyMeansVerified, NoCandidate, NoJob
  <2>7. QED
    BY <2>3, <2>4, <2>5, <2>6
<1>4. QED
  BY <1>1, <1>2, <1>3

LEMMA NextIInv ==
  ASSUME IInv, [Next]_vars
  PROVE  IInv'
<1>1. CASE Next
  BY <1>1, RefreshKeeps, DownloadKeeps, ApplyKeeps, SurroundingsKeep DEF Next
<1>2. CASE UNCHANGED vars
  BY <1>2 DEF vars, fields, IInv, TypeOK, RecordIsOurs, WindowHasItsRecord, VerifiedIsOne,
     LaunchedHasRecord, DownloadsAreOffered, ReadyMeansVerified, OnTrial, OwnRecord
<1>3. QED
  BY <1>1, <1>2

-----------------------------------------------------------------------------

(* The invariant of the coordinator's requests: Refresh, Download, Apply   *)
(* and fail of coordinator.go, around Client.Download and Prepare.         *)
THEOREM Invariance == Spec => []IInv
BY InitIInv, NextIInv, PTL DEF Spec

(* Every field keeps to what coordinator.go gives it, and only releases    *)
(* newer than this version are ever offered, downloaded or launched.       *)
THEOREM TypeCorrect == Spec => []TypeOK
BY Invariance, PTL DEF IInv

(* "Ready" is said of a verified file of an offered release (Download,     *)
(* coordinator.go, and Client.Download).                                   *)
THEOREM ReadyIsVerified == Spec => []ReadyMeansVerified
BY Invariance, PTL DEF IInv

(* What Apply launched is what the record names, unless two applies passed *)
(* the look at the record together.                                        *)
THEOREM LaunchedIsNamed == Spec => []RecordNamesTheLaunched
<1>1. IInv => RecordNamesTheLaunched
  BY DEF IInv, LaunchedHasRecord, RecordNamesTheLaunched, OwnRecord
<1>2. QED
  BY <1>1, Invariance, PTL

(* No step of this version takes its own prepared record away: Prepare     *)
(* writes another of its own at most, MarkHealthy removes a trial's only.  *)
THEOREM OwnRecordIsKept == Spec => OwnRecordStays
<1>1. ASSUME IInv, [Next]_vars, pending.prev = Current
      PROVE  pending'.prev = Current
  <2> USE <1>1 DEF IInv
  <2>1. ASSUME NEW r \in Requests, PrepareWrites(r)
        PROVE  pending'.prev = Current
    BY <2>1, PreparedIsOwn DEF PrepareWrites, Step, VerifiedIsOne
  <2>2. ~MarkHealthy
    BY TrialIsNotOwn DEF MarkHealthy, WindowHasItsRecord, OwnRecord
  <2>3. CASE Restart
    <3>1. CASE UNCHANGED pending
      BY <3>1
    <3>2. CASE TargetStarted(pending, Current) /\
               pending' \in {Counted(pending), RollingBack(Counted(pending))}
      <4>1. pending \in PendingUpdate /\ Readable(pending)
        BY <3>2 DEF TypeOK, TargetStarted, Readable
      <4>2. QED
        BY <3>2, <4>1, CountedKeepsVersions
    <3>3. QED
      BY <2>3, <3>1, <3>2 DEF Restart, Recovers
  <2>4. CASE UNCHANGED pending
    BY <2>4
  <2>5. Next => UNCHANGED pending \/ (\E r \in Requests : PrepareWrites(r)) \/ MarkHealthy \/ Restart
    BY DEF Next, RefreshStep, DownloadStep, ApplyStep, Fail, Check, Refreshed, Download, LookUp,
           Stat, Fetch, Downloaded, Apply, Exact, PrepareVerifies, PrepareReads, Launch, Applied,
           WindowPasses
  <2>6. QED
    BY <2>1, <2>2, <2>3, <2>4, <2>5 DEF vars
<1>2. QED
  BY <1>1, Invariance, PTL DEF Spec, OwnRecordStays

-----------------------------------------------------------------------------
(* ReleaseMetadata.                                                        *)

LEMMA PartsAreNumbers ==
  ASSUME NEW a \in SemanticVersions
  PROVE  a[1] \in Nat /\ a[2] \in Nat /\ a[3] \in Nat
<1>1. MaxPart \in Nat
  BY SMT DEF MaxPart
<1>2. QED
  BY <1>1 DEF SemanticVersions

(* The order of two versions is lexicographic.                             *)
LEMMA OlderIsLexicographic ==
  ASSUME NEW a \in SemanticVersions, NEW b \in SemanticVersions
  PROVE  Older(a, b) <=> \/ a[1] < b[1]
                         \/ a[1] = b[1] /\ a[2] < b[2]
                         \/ a[1] = b[1] /\ a[2] = b[2] /\ a[3] < b[3]
<1>1. OlderAt(1, a, b) <=> a[1] < b[1]
  BY DEF OlderAt
<1>2. OlderAt(2, a, b) <=> a[1] = b[1] /\ a[2] < b[2]
  BY DEF OlderAt
<1>3. OlderAt(3, a, b) <=> a[1] = b[1] /\ a[2] = b[2] /\ a[3] < b[3]
  BY DEF OlderAt
<1>4. 1 .. 3 = {1, 2, 3}
  OBVIOUS
<1>5. QED
  BY <1>1, <1>2, <1>3, <1>4 DEF Older

(* CompareVersions orders any two versions, the same way from both sides,  *)
(* and calls only a version and itself equal.                              *)
THEOREM VersionsAreOrdered ==
  ASSUME NEW a \in SemanticVersions, NEW b \in SemanticVersions
  PROVE  /\ CompareVersions(a, b) = -CompareVersions(b, a)
         /\ CompareVersions(a, b) = 0 <=> a = b
<1>1. ~(Older(a, b) /\ Older(b, a))
  BY PartsAreNumbers, OlderIsLexicographic
<1>2. a # b => Older(a, b) \/ Older(b, a)
  <2>1. a # b => a[1] # b[1] \/ a[2] # b[2] \/ a[3] # b[3]
    <3>1. 1 .. 3 = {1, 2, 3}
      OBVIOUS
    <3>2. QED
      BY <3>1 DEF SemanticVersions
  <2>2. QED
    BY <2>1, PartsAreNumbers, OlderIsLexicographic
<1>3. a = b => ~Older(a, b) /\ ~Older(b, a)
  BY <1>1
<1>4. QED
  BY <1>1, <1>2, <1>3 DEF CompareVersions

(* However many updates a device takes one after the other, each offered   *)
(* by a check from the version before, none brings it back to a version it *)
(* has left: what the second of two checks offers is newer than what the   *)
(* first one started from (Client.Check, CompareVersions).                 *)
THEOREM UpdatesOnlyGoForward ==
  ASSUME NEW current \in SemanticVersions, NEW keys, NEW channel, NEW digest,
         NEW first, NEW second,
         first.manifest.version \in SemanticVersions,
         second.manifest.version \in SemanticVersions,
         CheckedRelease(first, keys, current, channel, digest).eligible,
         CheckedRelease(second, keys, first.manifest.version, channel, digest).eligible
  PROVE  /\ CompareVersions(second.manifest.version, current) = 1
         /\ second.manifest.version # current
<1> DEFINE v == first.manifest.version
           w == second.manifest.version
<1>1. CompareVersions(v, current) > 0 /\ CompareVersions(w, v) > 0
  BY DEF CheckedRelease
<1>2. Older(current, v) /\ Older(v, w)
  BY <1>1, SMT DEF CompareVersions
<1>3. Older(current, w)
  BY <1>2, PartsAreNumbers, OlderIsLexicographic
<1>4. ~Older(w, current)
  BY <1>3, PartsAreNumbers, OlderIsLexicographic
<1>5. CompareVersions(w, current) = 1
  BY <1>3, <1>4 DEF CompareVersions
<1>6. QED
  BY <1>5, VersionsAreOrdered

(* Of the function alone, for one digest of a device, that is one seed: a  *)
(* rollout only grows.  A device that has an active release keeps it when  *)
(* the share is raised and nothing else changes, and at the full share     *)
(* every device has it (RolloutEligible).                                  *)
THEOREM RolloutOnlyGrows ==
  ASSUME NEW early \in Rollouts, NEW late \in Rollouts, NEW digest \in Nat,
         ValidRollout(early), ValidRollout(late),
         late.status = "active", early.points =< late.points
  PROVE  /\ RolloutEligible(early, digest) => RolloutEligible(late, digest)
         /\ late.points = AllPoints => RolloutEligible(late, digest)
         /\ ~RolloutEligible([late EXCEPT !.status = "paused"], digest)
<1>1. early.points \in 0 .. AllPoints /\ late.points \in 1 .. AllPoints
  <2>1. early.points \in 0 .. AllPoints /\ late.points \in 0 .. AllPoints
    BY Zenon DEF ValidRollout
  <2>2. late.points # 0
    BY Zenon DEF ValidRollout
  <2>3. \A n \in Int : n \in 0 .. AllPoints /\ n # 0 => n \in 1 .. AllPoints
    BY SMT DEF AllPoints
  <2>4. late.points \in Int
    BY SMT DEF Rollouts
  <2>5. QED
    BY <2>1, <2>2, <2>3, <2>4, Zenon
<1>2. digest % AllPoints \in 0 .. AllPoints - 1
  BY SMT DEF AllPoints
<1>3. AllPoints \in Nat \ {0}
  BY SMT DEF AllPoints
<1>4. QED
  BY <1>1, <1>2, <1>3, SMT DEF RolloutEligible, Rollouts
=============================================================================
