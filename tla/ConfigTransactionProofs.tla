----------------------- MODULE ConfigTransactionProofs ------------------------
(***************************************************************************)
(* Proofs about ConfigTransaction, for any requests, configurations and    *)
(* backups, any faults of the disk and the validator and any crash: what   *)
(* holds when only the Manager writes its files (Calm), and what holds     *)
(* also when others do.                                                    *)
(***************************************************************************)
EXTENDS ConfigTransaction, TLAPS

-----------------------------------------------------------------------------
(* Requests and backups.                                                   *)

Alone(r) == \A q \in Requests \ {r} : pc[q] = "idle"

(* While a request has the mutex the others are idle.                      *)
LEMMA OthersAreIdle ==
  ASSUME IInv, NEW r \in Requests, pc[r] # "idle" \/ ~Locked
  PROVE  Alone(r)
BY DEF IInv, OneAtATime, Locked, Alone

LEMMA IdleHasNoJob ==
  ASSUME IInv, NEW q \in Requests, pc[q] = "idle"
  PROVE  job[q] = NoJob /\ ~Touched(q)
BY DEF IInv, JobIsInOrder, Touched, NoJob, Job

(* What the invariant asks of a request that is idle.                      *)
LEMMA IdleIsInOrder ==
  ASSUME NEW q \in Requests, pc[q] = "idle", job[q] = NoJob
  PROVE  /\ JobIsInOrder(q) /\ CopyIsInForce(q) /\ CandidateIsKnown(q)
         /\ CheckpointHolds(q) /\ NothingIsLost(q) /\ ~Touched(q)
BY DEF JobIsInOrder, CopyIsInForce, CandidateIsKnown, CheckpointHolds, NothingIsLost, Touched,
       NoJob, Job

LEMMA NoJobIsAJob == NoJob \in Jobs
BY DEF NoJob, Job, Jobs, Files

(* A request goes on: it alone moves.                                      *)
LEMMA StageMoves ==
  ASSUME IInv, NEW r \in Requests, Alone(r),
         NEW to \in Locations \ {"idle"}, pc' = [pc EXCEPT ![r] = to],
         NEW j \in Jobs, job' = [job EXCEPT ![r] = j]
  PROVE  /\ pc' \in [Requests -> Locations] /\ job' \in [Requests -> Jobs]
         /\ pc'[r] = to /\ job'[r] = j
         /\ \A q \in Requests \ {r} : pc'[q] = "idle" /\ job'[q] = NoJob
         /\ OneAtATime'
BY IdleHasNoJob DEF IInv, TypeOK, OneAtATime, Alone

(* A step of a request that has the mutex keeps the invariant if it keeps  *)
(* what is said of the files and of that request.                          *)
LEMMA StageKeepsIInv ==
  ASSUME IInv, NEW r \in Requests, Alone(r),
         NEW to \in Locations \ {"idle"}, pc' = [pc EXCEPT ![r] = to],
         NEW j \in Jobs, job' = [job EXCEPT ![r] = j],
         UNCHANGED history,
         active' \in Files, data' \in [Ids -> Files], meta' \in [Ids -> Files],
         origin' \in [Ids -> Files],
         to \in {"data", "meta", "verdict"} => j.copy # None,
         to = "meta" => j.id # None,
         to = "load" => j.source # None,
         to \in {"candidate", "rename"} => j.candidate # None,
         JobIsInOrder(r)', CopyIsInForce(r)', CandidateIsKnown(r)', CheckpointHolds(r)',
         NothingIsLost(r)', ~Touched(r)' => active' = settled,
         ListedIsComplete', SettledIsRecoverable'
  PROVE  IInv'
<1>1. /\ pc' \in [Requests -> Locations] /\ job' \in [Requests -> Jobs]
      /\ pc'[r] = to /\ job'[r] = j
      /\ \A q \in Requests \ {r} : pc'[q] = "idle" /\ job'[q] = NoJob
      /\ OneAtATime'
  BY StageMoves
<1>2. \A q \in Requests \ {r} :
        /\ JobIsInOrder(q)' /\ CopyIsInForce(q)' /\ CandidateIsKnown(q)'
        /\ CheckpointHolds(q)' /\ NothingIsLost(q)'
  BY <1>1, IdleIsInOrder
  DEF JobIsInOrder, CopyIsInForce, CandidateIsKnown, CheckpointHolds, NothingIsLost, Touched,
      NoJob, Job
<1>3. TypeOK'
  BY <1>1 DEF IInv, TypeOK, history
<1>4. (\A q \in Requests : ~Touched(q)') => active' = settled'
  BY DEF history
<1> QED
  BY <1>1, <1>2, <1>3, <1>4 DEF IInv

(* An operation that ends keeps it if it keeps what is said of the files.  *)
LEMMA ReturnKeepsIInv ==
  ASSUME IInv, NEW r \in Requests, NEW result \in Reports, NEW config \in Files,
         pc[r] # "idle", Return(r, pc[r], result, config),
         data' \in [Ids -> Files], meta' \in [Ids -> Files], origin' \in [Ids -> Files],
         ListedIsComplete', trusted \subseteq Saved' \cup {config}
  PROVE  IInv'
<1>1. \A q \in Requests : pc'[q] = "idle" /\ job'[q] = NoJob
  BY OthersAreIdle, IdleHasNoJob DEF Return, Go, IInv, TypeOK, Alone
<1>2. pc' \in [Requests -> Locations] /\ job' \in [Requests -> Jobs]
  BY NoJobIsAJob DEF Return, Go, IInv, TypeOK, Locations
<1>3. active' = config /\ settled' = config /\ report' = result
      /\ trusted' = trusted \cup ({config} \ {None})
  BY DEF Return
<1>4. \A q \in Requests :
        /\ JobIsInOrder(q)' /\ CopyIsInForce(q)' /\ CandidateIsKnown(q)'
        /\ CheckpointHolds(q)' /\ NothingIsLost(q)' /\ ~Touched(q)'
  <2>1. NoJob.rolling = FALSE /\ NoJob.next = "end" /\ NoJob.source = None
    BY DEF NoJob, Job
  <2>2. ASSUME NEW q \in Requests
        PROVE  JobIsInOrder(q)' /\ CopyIsInForce(q)' /\ CandidateIsKnown(q)' /\ ~Touched(q)'
    BY <1>1, <2>1 DEF JobIsInOrder, CopyIsInForce, CandidateIsKnown, Touched
  <2>3. ASSUME NEW q \in Requests
        PROVE  CheckpointHolds(q)' /\ NothingIsLost(q)'
    BY <1>1, <2>1 DEF CheckpointHolds, NothingIsLost, Touched
  <2> QED
    BY <2>2, <2>3
<1>5. TypeOK'
  BY <1>1, <1>2, <1>3 DEF IInv, TypeOK, Files
<1>6. OneAtATime' /\ SettledIsRecoverable'
  BY <1>1, <1>3 DEF OneAtATime, SettledIsRecoverable
<1> QED
  BY <1>3, <1>4, <1>5, <1>6 DEF IInv

(* With the files as they are.                                             *)
LEMMA SameFiles ==
  ASSUME IInv, UNCHANGED store
  PROVE  /\ data' \in [Ids -> Files] /\ meta' \in [Ids -> Files] /\ origin' \in [Ids -> Files]
         /\ ListedIsComplete' /\ Saved' = Saved
BY DEF IInv, TypeOK, store, ListedIsComplete, Saved, Intact

LEMMA GiveUpKeepsIInv ==
  ASSUME IInv, NEW r \in Requests, pc[r] # "idle", GiveUp(r, pc[r]), UNCHANGED store
  PROVE  IInv'
<1>1. active \in Files /\ trusted \subseteq Saved' \cup {active}
  BY SameFiles DEF IInv, TypeOK, SettledIsRecoverable
<1>2. (IF job[r].rolling THEN "rollback_failed" ELSE "refused") \in Reports
  BY DEF Reports
<1> QED
  BY <1>1, <1>2, SameFiles, ReturnKeepsIInv DEF GiveUp
-----------------------------------------------------------------------------
(* The steps.                                                              *)

LEMMA InitIInv == Init => IInv
<1> SUFFICES ASSUME Init
             PROVE  IInv
  OBVIOUS
<1>1. TypeOK
  BY NoJobIsAJob DEF Init, TypeOK, Files, Locations, Reports
<1>2. \A r \in Requests :
        /\ JobIsInOrder(r) /\ CopyIsInForce(r) /\ CandidateIsKnown(r)
        /\ CheckpointHolds(r) /\ NothingIsLost(r) /\ ~Touched(r)
  BY IdleIsInOrder DEF Init
<1> QED
  BY <1>1, <1>2 DEF Init, IInv, OneAtATime, ListedIsComplete, SettledIsRecoverable

(* A request takes the mutex.                                              *)
LEMMA EnterKeepsIInv ==
  ASSUME IInv, NEW r \in Requests, AskBackup(r) \/ AskRestore(r) \/ AskChange(r)
  PROVE  IInv'
<1> DEFINE Asks(to, j) ==
      /\ j \in Jobs /\ ~j.rolling /\ Enter(r, to, j)
      /\ \/ to = "read" /\ j.next = "end" /\ j.source = None
         \/ to = "inspect" /\ j.next = "mutate" /\ j.source = None
         \/ to = "load" /\ j.next = "candidate" /\ j.source \in Ids
<1>1. PICK to \in {"read", "inspect", "load"}, j \in Jobs : Asks(to, j)
  <2>1. CASE AskBackup(r)
    <3>1. Asks("read", Job("backup", "end", None))
      BY <2>1 DEF AskBackup, Job, Jobs, Files
    <3> QED
      BY <3>1
  <2>2. CASE AskChange(r)
    <3>1. Asks("inspect", Job("change", "mutate", None))
      BY <2>2 DEF AskChange, Job, Jobs, Files
    <3> QED
      BY <3>1
  <2>3. CASE AskRestore(r)
    <3>1. PICK i \in Ids : Enter(r, "load", Job("restore", "candidate", i))
      BY <2>3 DEF AskRestore
    <3>2. Asks("load", Job("restore", "candidate", i))
      BY <3>1 DEF Job, Jobs, Files
    <3> QED
      BY <3>2
  <2> QED
    BY <2>1, <2>2, <2>3
<1>2. pc' = [pc EXCEPT ![r] = to] /\ job' = [job EXCEPT ![r] = j]
      /\ UNCHANGED <<active, store, history>> /\ Alone(r) /\ pc[r] = "idle"
  BY <1>1, OthersAreIdle DEF Enter, Go
<1>3. pc'[r] = to /\ job'[r] = j /\ to \in Locations \ {"idle"}
  BY <1>2 DEF IInv, TypeOK, Locations
<1>4. JobIsInOrder(r)' /\ CopyIsInForce(r)' /\ CandidateIsKnown(r)'
  BY <1>1, <1>3 DEF JobIsInOrder, CopyIsInForce, CandidateIsKnown
<1>5. CheckpointHolds(r)' /\ NothingIsLost(r)' /\ active = settled
  BY <1>1, <1>2, <1>3, IdleHasNoJob
  DEF CheckpointHolds, NothingIsLost, Touched, IInv, Alone
<1>6. ListedIsComplete' /\ SettledIsRecoverable' /\ active' \in Files
  BY <1>2, SameFiles DEF SettledIsRecoverable, IInv, TypeOK, history
<1>7. /\ to \in {"data", "meta", "verdict"} => j.copy # None
      /\ to = "meta" => j.id # None
      /\ to = "load" => j.source # None
      /\ to \in {"candidate", "rename"} => j.candidate # None
  BY <1>1, ContentsAssumption
<1> QED
  BY <1>1, <1>2, <1>3, <1>4, <1>5, <1>6, <1>7, SameFiles, StageKeepsIInv

(* Stages that change no file.                                             *)
LEMMA QuietStage ==
  ASSUME IInv, NEW r \in Requests, pc[r] # "idle",
         NEW to \in Locations \ {"idle"}, pc' = [pc EXCEPT ![r] = to],
         NEW j \in Jobs, job' = [job EXCEPT ![r] = j],
         UNCHANGED <<active, store, history>>,
         to \in {"data", "meta", "verdict"} => j.copy # None,
         to = "meta" => j.id # None,
         to = "load" => j.source # None,
         to \in {"candidate", "rename"} => j.candidate # None,
         JobIsInOrder(r)', CopyIsInForce(r)', CandidateIsKnown(r)', CheckpointHolds(r)',
         NothingIsLost(r)', ~Touched(r)' => ~Touched(r)
  PROVE  IInv'
<1>1. Alone(r) /\ (~Touched(r) => active = settled)
  BY OthersAreIdle, IdleHasNoJob DEF Alone, IInv
<1>2. SettledIsRecoverable' /\ active' \in Files
  BY SameFiles DEF SettledIsRecoverable, IInv, TypeOK, history
<1> QED
  BY <1>1, <1>2, SameFiles, StageKeepsIInv

LEMMA FailuresKeepIInv ==
  ASSUME IInv, NEW r \in Requests,
         \/ ReadFails(r) \/ WriteDataFails(r) \/ RemoveFails(r) \/ LoadFails(r)
         \/ SafetyFails(r) \/ CandidateRejected(r) \/ RenameFails(r)
  PROVE  IInv'
<1>1. PICK from \in Locations \ {"idle"} : GiveUp(r, from) /\ UNCHANGED store
  BY DEF ReadFails, WriteDataFails, RemoveFails, LoadFails, SafetyFails, CandidateRejected,
         RenameFails, Locations
<1>2. pc[r] = from
  BY <1>1 DEF GiveUp, Return, Go
<1> QED
  BY <1>1, <1>2, GiveUpKeepsIInv

LEMMA InspectKeepsIInv ==
  ASSUME IInv, NEW r \in Requests, Inspect(r)
  PROVE  IInv'
<1> DEFINE to == IF active = None THEN "mutate" ELSE "read"
<1>1. pc[r] = "inspect" /\ pc' = [pc EXCEPT ![r] = to] /\ job' = [job EXCEPT ![r] = job[r]]
      /\ UNCHANGED <<active, store, history>>
  BY DEF Inspect, Go, IInv, TypeOK
<1>2. to \in {"mutate", "read"} /\ pc'[r] = to /\ job'[r] = job[r] /\ job[r] \in Jobs
  BY <1>1 DEF IInv, TypeOK
<1>3. ~job[r].rolling /\ job[r].source = None /\ job[r].next # "candidate" /\ ~Touched(r)
  BY <1>1 DEF IInv, JobIsInOrder, Touched
<1>4. active = settled
  BY <1>1, <1>3, OthersAreIdle, IdleHasNoJob DEF IInv, Alone
<1>5. JobIsInOrder(r)' /\ CopyIsInForce(r)' /\ CandidateIsKnown(r)'
  BY <1>2, <1>3 DEF JobIsInOrder, CopyIsInForce, CandidateIsKnown
<1>6. CheckpointHolds(r)'
  BY <1>1, <1>2, <1>3, <1>4 DEF CheckpointHolds, Touched, history
<1>7. to = "mutate" => trusted \subseteq Saved
  BY ContentsAssumption DEF IInv, SettledIsRecoverable, TypeOK
<1>8. NothingIsLost(r)'
  BY <1>1, <1>2, <1>3, <1>7, SameFiles DEF NothingIsLost, Touched, history
<1>9. to \in Locations \ {"idle"}
  BY DEF Locations
<1> HIDE DEF to
<1> QED
  BY <1>1, <1>2, <1>3, <1>5, <1>6, <1>8, <1>9, QuietStage

(* Read and Check copy the configuration.                                  *)
LEMMA CopiesKeepIInv ==
  ASSUME IInv, NEW r \in Requests, Read(r) \/ Check(r)
  PROVE  IInv'
<1> DEFINE to == IF pc[r] = "read" THEN "data" ELSE "verdict"
           j == [job[r] EXCEPT !.copy = active]
<1>1. pc[r] = (IF to = "data" THEN "read" ELSE "check") /\ pc' = [pc EXCEPT ![r] = to]
      /\ job' = [job EXCEPT ![r] = j] /\ UNCHANGED <<active, store, history>> /\ active # None
  BY DEF Read, Check, Go
<1>2. job[r] \in Jobs /\ active \in Files
  BY DEF IInv, TypeOK
<1>3. j \in Jobs /\ j.copy = active /\ j.next = job[r].next /\ j.source = job[r].source
      /\ j.rolling = job[r].rolling /\ j.id = job[r].id /\ j.candidate = job[r].candidate
  BY <1>2 DEF Jobs
<1> HIDE DEF j
<1>4. to \in {"data", "verdict"} /\ pc'[r] = to /\ job'[r] = j /\ to \in Locations \ {"idle"}
  BY <1>1 DEF IInv, TypeOK, Locations
<1> HIDE DEF to
<1>5. ~job[r].rolling /\ (to = "data" => job[r].source = None /\ job[r].next # "candidate")
  BY <1>1, <1>4 DEF IInv, JobIsInOrder
<1>6. JobIsInOrder(r)' /\ CopyIsInForce(r)' /\ CandidateIsKnown(r)'
  BY <1>1, <1>3, <1>4, <1>5 DEF JobIsInOrder, CopyIsInForce, CandidateIsKnown
<1>7. Touched(r)' <=> Touched(r)
  BY <1>1, <1>3, <1>4, <1>5 DEF Touched
<1>8. CheckpointHolds(r)' /\ NothingIsLost(r)'
  BY <1>1, <1>3, <1>4, <1>5, <1>7, SameFiles
  DEF CheckpointHolds, NothingIsLost, IInv, history, store
<1> QED
  BY <1>1, <1>3, <1>4, <1>6, <1>7, <1>8, QuietStage

(* A backup is written: the content first, which loses no other backup.    *)
LEMMA WriteDataKeepsIInv ==
  ASSUME IInv, NEW r \in Requests, WriteData(r)
  PROVE  IInv'
<1>1. PICK i \in Unused :
        /\ data' = [data EXCEPT ![i] = job[r].copy]
        /\ origin' = [origin EXCEPT ![i] = job[r].copy]
        /\ job' = [job EXCEPT ![r].id = i]
  BY DEF WriteData
<1>2. pc[r] = "data" /\ pc' = [pc EXCEPT ![r] = "meta"] /\ UNCHANGED <<active, meta, history>>
  BY DEF WriteData, Go
<1> DEFINE j == [job[r] EXCEPT !.id = i]
<1>3. job[r] \in Jobs /\ job' = [job EXCEPT ![r] = j] /\ i \in Ids /\ origin[i] = None
  BY <1>1 DEF IInv, TypeOK, Unused
<1>4. j \in Jobs /\ j.id = i /\ j.next = job[r].next /\ j.source = job[r].source
      /\ j.rolling = job[r].rolling /\ j.copy = job[r].copy /\ j.candidate = job[r].candidate
  BY <1>3 DEF Jobs
<1> HIDE DEF j
<1>5. pc'[r] = "meta" /\ job'[r] = j /\ "meta" \in Locations \ {"idle"}
  BY <1>2, <1>3 DEF IInv, TypeOK, Locations
<1>6. meta[i] = None
  BY <1>3 DEF IInv, ListedIsComplete
<1>7. job[r].copy \in Files /\ job[r].copy # None /\ job[r].copy = active
  BY <1>2, <1>3 DEF IInv, TypeOK, CopyIsInForce, Jobs
<1>8. data' \in [Ids -> Files] /\ origin' \in [Ids -> Files] /\ meta' \in [Ids -> Files]
      /\ data'[i] = active /\ origin'[i] = active
  BY <1>1, <1>2, <1>3, <1>7 DEF IInv, TypeOK
<1>9. Saved' = Saved
  BY <1>1, <1>2, <1>3, <1>6 DEF Saved, Intact, IInv, TypeOK
<1>10. ListedIsComplete' /\ SettledIsRecoverable'
  BY <1>1, <1>2, <1>3, <1>6, <1>9
  DEF ListedIsComplete, SettledIsRecoverable, IInv, TypeOK, history
<1>11. JobIsInOrder(r)' /\ CandidateIsKnown(r)'
  BY <1>2, <1>4, <1>5 DEF JobIsInOrder, CandidateIsKnown, IInv, history
<1>12. CopyIsInForce(r)'
  BY <1>2, <1>4, <1>5, <1>6, <1>7, <1>8 DEF CopyIsInForce
<1>13. (Touched(r)' <=> Touched(r)) /\ (Touched(r) => job[r].rolling)
  BY <1>2, <1>4, <1>5 DEF Touched
<1>14. CheckpointHolds(r)' /\ NothingIsLost(r)'
  BY <1>2, <1>4, <1>5, <1>9, <1>13 DEF CheckpointHolds, NothingIsLost, IInv, history
<1>15. Alone(r) /\ (~Touched(r)' => active' = settled) /\ active' \in Files
  BY <1>2, <1>13, OthersAreIdle, IdleHasNoJob DEF IInv, Alone, TypeOK
<1>16. j.copy # None /\ j.id # None
  BY <1>3, <1>4, <1>7, ContentsAssumption
<1> QED
  BY <1>2, <1>3, <1>4, <1>5, <1>8, <1>10, <1>11, <1>12, <1>14, <1>15, <1>16, StageKeepsIInv

(* Then the metadata, which makes it a backup of what is in force.         *)
LEMMA MetaSavesTheActive ==
  ASSUME IInv, NEW r \in Requests, WriteMeta(r)
  PROVE  /\ meta' \in [Ids -> Files] /\ UNCHANGED <<active, data, origin>>
         /\ ListedIsComplete'
         /\ Saved' = Saved \cup {active}
         /\ pc[r] = "meta" /\ job[r].id \in Ids /\ active # None
         /\ meta[job[r].id] = None /\ meta' = [meta EXCEPT ![job[r].id] = active]
<1> DEFINE i == job[r].id
<1>1. pc[r] = "meta" /\ meta' = [meta EXCEPT ![i] = job[r].copy] /\ UNCHANGED <<data, origin>>
  BY DEF WriteMeta
<1>2. active' = active
  BY DEF WriteMeta, Return
<1>3. job[r] \in Jobs /\ job[r].id # None /\ job[r].copy # None /\ active \in Files
  BY <1>1 DEF IInv, TypeOK
<1>4. i \in Ids
  BY <1>3 DEF Jobs
<1>5. job[r].copy = active /\ data[i] = active /\ origin[i] = active /\ meta[i] = None
  BY <1>1 DEF IInv, CopyIsInForce
<1>6. meta' \in [Ids -> Files] /\ meta'[i] = active
      /\ \A k \in Ids \ {i} : meta'[k] = meta[k]
  BY <1>1, <1>3, <1>4, <1>5 DEF IInv, TypeOK
<1>7. ListedIsComplete'
  BY <1>1, <1>4, <1>5, <1>6 DEF IInv, ListedIsComplete
<1>8. Saved' = Saved \cup {active}
  <2>1. PICK m \in Ids : m = i
    BY <1>4
  <2>2. meta'[m] = active /\ data[m] = active /\ meta[m] = None
        /\ \A k \in Ids \ {m} : meta'[k] = meta[k]
    BY <1>5, <1>6, <2>1
  <2>3. Intact(m)' /\ ~Intact(m) /\ \A k \in Ids \ {m} : Intact(k)' <=> Intact(k)
    BY <1>1, <1>3, <1>5, <2>2 DEF Intact
  <2> QED
    BY <2>2, <2>3 DEF Saved
<1> QED
  BY <1>1, <1>2, <1>3, <1>4, <1>5, <1>6, <1>7, <1>8

LEMMA WriteMetaKeepsIInv ==
  ASSUME IInv, NEW r \in Requests, WriteMeta(r)
  PROVE  IInv'
<1> DEFINE i == job[r].id
<1> USE MetaSavesTheActive
<1>1. CASE job[r].next = "end"
  <2>1. Return(r, pc[r], "saved", active)
    BY <1>1 DEF WriteMeta
  <2>2. active \in Files /\ trusted \subseteq Saved' \cup {active}
    BY DEF IInv, TypeOK, SettledIsRecoverable
  <2>3. data' \in [Ids -> Files] /\ origin' \in [Ids -> Files]
    BY DEF IInv, TypeOK
  <2>4. "saved" \in Reports
    BY DEF Reports
  <2> QED
    BY <2>1, <2>2, <2>3, <2>4, ReturnKeepsIInv
<1>2. CASE job[r].next # "end"
  <2> DEFINE to == job[r].next
             j == [job[r] EXCEPT !.source = IF to = "mutate" THEN i ELSE @]
  <2>1. pc' = [pc EXCEPT ![r] = to] /\ job' = [job EXCEPT ![r] = j] /\ UNCHANGED history
    BY <1>2 DEF WriteMeta, Go
  <2>2. job[r] \in Jobs /\ to \in {"mutate", "candidate"} /\ to \in Locations \ {"idle"}
    BY <1>2 DEF IInv, TypeOK, Jobs, Locations
  <2>3. j \in Jobs /\ j.id = i /\ j.next = to /\ j.copy = job[r].copy
        /\ j.rolling = job[r].rolling /\ j.candidate = job[r].candidate
        /\ j.source = (IF to = "mutate" THEN i ELSE job[r].source)
    BY <2>2 DEF Jobs
  <2> HIDE DEF j
  <2>4. pc'[r] = to /\ job'[r] = j
    BY <2>1 DEF IInv, TypeOK
  <2>5. JobIsInOrder(r) /\ CandidateIsKnown(r) /\ CheckpointHolds(r)
    BY DEF IInv
  <2>6. to = "mutate" => ~job[r].rolling
    BY <2>5 DEF JobIsInOrder
  <2>7. JobIsInOrder(r)' /\ CopyIsInForce(r)'
    BY <2>2, <2>3, <2>4, <2>5, <2>6 DEF JobIsInOrder, CopyIsInForce
  <2>8. CandidateIsKnown(r)' /\ (to = "candidate" => j.candidate # None)
    BY <2>1, <2>2, <2>3, <2>4, <2>5 DEF CandidateIsKnown, history
  <2>9. (Touched(r) => job[r].rolling) /\ Alone(r) /\ (~Touched(r) => active = settled)
    BY OthersAreIdle, IdleHasNoJob DEF IInv, Alone, Touched
  <2>10. CheckpointHolds(r)'
    <3>1. CASE to = "mutate"
      BY <2>1, <2>3, <2>4, <2>6, <2>9, <3>1, ContentsAssumption
      DEF CheckpointHolds, IInv, TypeOK, Touched, history
    <3>2. CASE to = "candidate"
      <4>1. j.source = job[r].source /\ (Touched(r)' <=> job[r].rolling) /\ settled' = settled
        BY <2>1, <2>3, <2>4, <3>2 DEF Touched, history
      <4>2. ASSUME job[r].rolling
            PROVE  /\ job[r].source # None /\ meta[job[r].source] = settled
                   /\ settled # None /\ job[r].source \in Ids
        BY <2>2, <2>5, <2>8, <4>2, <3>2 DEF CheckpointHolds, CandidateIsKnown, Touched, Jobs
      <4>3. ASSUME job[r].rolling
            PROVE  meta'[job[r].source] = settled
        BY <4>2, <4>3 DEF IInv, TypeOK
      <4> QED
        BY <2>2, <2>3, <2>4, <3>2, <4>1, <4>2, <4>3 DEF CheckpointHolds
    <3> QED
      BY <2>2, <3>1, <3>2
  <2>11. SettledIsRecoverable' /\ NothingIsLost(r)'
    BY <2>1 DEF IInv, SettledIsRecoverable, NothingIsLost, history
  <2>12. data' \in [Ids -> Files] /\ origin' \in [Ids -> Files] /\ active' \in Files
    BY DEF IInv, TypeOK
  <2>13. ~Touched(r)' => active' = settled
    BY <2>2, <2>3, <2>4, <2>9 DEF Touched
  <2> HIDE DEF to
  <2> QED
    BY <2>1, <2>2, <2>3, <2>4, <2>7, <2>8, <2>9, <2>10, <2>11, <2>12, <2>13, StageKeepsIInv
<1> QED
  BY <1>1, <1>2

LEMMA WriteMetaFailsKeepsIInv ==
  ASSUME IInv, NEW r \in Requests, WriteMetaFails(r)
  PROVE  IInv'
<1> DEFINE i == job[r].id
           result == IF job[r].rolling THEN "rollback_failed" ELSE "refused"
<1>1. pc[r] = "meta" /\ Return(r, pc[r], result, active) /\ UNCHANGED <<meta, origin>>
      /\ data' \in {data, [data EXCEPT ![i] = None]}
  BY DEF WriteMetaFails, GiveUp, Return, Go
<1>2. meta[i] = None /\ data' \in [Ids -> Files] /\ \A k \in Ids : k # i => data'[k] = data[k]
  BY <1>1 DEF IInv, CopyIsInForce, TypeOK, Files
<1>3. ListedIsComplete' /\ Saved' = Saved
  BY <1>1, <1>2 DEF IInv, ListedIsComplete, Saved, Intact
<1>4. active \in Files /\ trusted \subseteq Saved' \cup {active} /\ result \in Reports
      /\ meta' \in [Ids -> Files] /\ origin' \in [Ids -> Files]
  BY <1>1, <1>3 DEF IInv, TypeOK, SettledIsRecoverable, Reports
<1> QED
  BY <1>1, <1>2, <1>3, <1>4, ReturnKeepsIInv

(* The command, and what follows if it, or the validation, fails.          *)
LEMMA MutateKeepsIInv ==
  ASSUME IInv, NEW r \in Requests, Mutate(r)
  PROVE  IInv'
<1>1. pc[r] = "mutate" /\ active' \in Contents /\ UNCHANGED <<store, pc, job, history>>
  BY DEF Mutate
<1>2. job[r] \in Jobs /\ pc' = [pc EXCEPT ![r] = "mutate"] /\ job' = [job EXCEPT ![r] = job[r]]
      /\ pc'[r] = "mutate" /\ job'[r] = job[r] /\ "mutate" \in Locations \ {"idle"}
  BY <1>1 DEF IInv, TypeOK, Locations
<1>3. active' \in Files /\ Touched(r) /\ Touched(r)'
  BY <1>1, <1>2 DEF Files, Touched
<1>4. JobIsInOrder(r)' /\ CopyIsInForce(r)' /\ CandidateIsKnown(r)'
  BY <1>1, <1>2 DEF IInv, JobIsInOrder, CopyIsInForce, CandidateIsKnown
<1>5. CheckpointHolds(r)' /\ NothingIsLost(r)' /\ SettledIsRecoverable'
  BY <1>1, <1>2, <1>3, SameFiles
  DEF IInv, CheckpointHolds, NothingIsLost, SettledIsRecoverable, history, store
<1> QED
  BY <1>1, <1>2, <1>3, <1>4, <1>5, SameFiles, OthersAreIdle, StageKeepsIInv

LEMMA MutationEndsKeepsIInv ==
  ASSUME IInv, NEW r \in Requests, MutationEnds(r)
  PROVE  IInv'
<1>1. pc[r] = "mutate" /\ pc' = [pc EXCEPT ![r] = "check"] /\ job' = [job EXCEPT ![r] = job[r]]
      /\ UNCHANGED <<active, store, history>>
  BY DEF MutationEnds, Go, IInv, TypeOK
<1>2. job[r] \in Jobs /\ pc'[r] = "check" /\ job'[r] = job[r] /\ "check" \in Locations \ {"idle"}
  BY <1>1 DEF IInv, TypeOK, Locations
<1>3. JobIsInOrder(r)' /\ CopyIsInForce(r)' /\ CandidateIsKnown(r)' /\ Touched(r) /\ Touched(r)'
  BY <1>1, <1>2 DEF IInv, JobIsInOrder, CopyIsInForce, CandidateIsKnown, Touched
<1>4. CheckpointHolds(r)' /\ NothingIsLost(r)'
  BY <1>1, <1>2, <1>3, SameFiles DEF IInv, CheckpointHolds, NothingIsLost, history, store
<1> QED
  BY <1>1, <1>2, <1>3, <1>4, QuietStage

LEMMA RollBackKeepsIInv ==
  ASSUME IInv, NEW r \in Requests, MutationFails(r) \/ CheckFails(r) \/ Rejected(r)
  PROVE  IInv'
<1> DEFINE to == IF job[r].source = None THEN "remove" ELSE "load"
           j == [job[r] EXCEPT !.rolling = TRUE, !.next = "candidate"]
<1>1. pc[r] \in {"mutate", "check", "verdict"} /\ pc' = [pc EXCEPT ![r] = to]
      /\ job' = [job EXCEPT ![r] = j] /\ UNCHANGED <<active, store, history>>
  BY DEF MutationFails, CheckFails, Rejected, RollBack, Go
<1>2. job[r] \in Jobs
  BY DEF IInv, TypeOK
<1>3. j \in Jobs /\ j.rolling = TRUE /\ j.next = "candidate" /\ j.source = job[r].source
  BY <1>2 DEF Jobs
<1> HIDE DEF j
<1>4. pc'[r] = to /\ job'[r] = j /\ to \in {"remove", "load"} /\ to \in Locations \ {"idle"}
  BY <1>1 DEF IInv, TypeOK, Locations
<1>5. j.source = None <=> to = "remove"
  BY <1>3
<1> HIDE DEF to
<1>6. JobIsInOrder(r)' /\ CopyIsInForce(r)' /\ CandidateIsKnown(r)' /\ Touched(r) /\ Touched(r)'
  BY <1>1, <1>3, <1>4 DEF JobIsInOrder, CopyIsInForce, CandidateIsKnown, Touched
<1>7. CheckpointHolds(r)' /\ NothingIsLost(r)'
  BY <1>1, <1>3, <1>4, <1>5, <1>6, SameFiles
  DEF IInv, CheckpointHolds, NothingIsLost, history, store
<1> QED
  BY <1>1, <1>3, <1>4, <1>5, <1>6, <1>7, QuietStage

LEMMA AcceptedKeepsIInv ==
  ASSUME IInv, NEW r \in Requests, Accepted(r)
  PROVE  IInv'
<1>1. pc[r] = "verdict" /\ Return(r, pc[r], "changed", active) /\ UNCHANGED store
  BY DEF Accepted, Return, Go
<1>2. active \in Files /\ trusted \subseteq Saved' \cup {active} /\ "changed" \in Reports
  BY <1>1, SameFiles DEF IInv, TypeOK, SettledIsRecoverable, Reports
<1> QED
  BY <1>1, <1>2, SameFiles, ReturnKeepsIInv

(* Restore and the ends of a rollback.                                     *)
LEMMA LoadKeepsIInv ==
  ASSUME IInv, NEW r \in Requests, Load(r)
  PROVE  IInv'
<1> DEFINE j == [job[r] EXCEPT !.candidate = data[job[r].source]]
<1>1. pc[r] = "load" /\ pc' = [pc EXCEPT ![r] = "safety"] /\ job' = [job EXCEPT ![r] = j]
      /\ UNCHANGED <<active, store, history>> /\ Intact(job[r].source)
  BY DEF Load, Go
<1>2. job[r] \in Jobs /\ job[r].source \in Ids /\ job[r].next = "candidate"
  BY <1>1 DEF IInv, TypeOK, Jobs, JobIsInOrder
<1>3. data[job[r].source] \in Files /\ data[job[r].source] # None
      /\ (job[r].rolling => data[job[r].source] = settled)
  BY <1>1, <1>2, ContentsAssumption DEF IInv, TypeOK, Intact, CheckpointHolds, Touched
<1>4. j \in Jobs /\ j.candidate = data[job[r].source] /\ j.next = "candidate"
      /\ j.source = job[r].source /\ j.rolling = job[r].rolling
  BY <1>2, <1>3 DEF Jobs
<1> HIDE DEF j
<1>5. pc'[r] = "safety" /\ job'[r] = j /\ "safety" \in Locations \ {"idle"}
  BY <1>1 DEF IInv, TypeOK, Locations
<1>6. JobIsInOrder(r)' /\ CopyIsInForce(r)' /\ CandidateIsKnown(r)' /\ (Touched(r)' <=> Touched(r))
  BY <1>1, <1>3, <1>4, <1>5
  DEF JobIsInOrder, CopyIsInForce, CandidateIsKnown, Touched, history
<1>7. CheckpointHolds(r)' /\ NothingIsLost(r)'
  BY <1>1, <1>4, <1>5, <1>6, SameFiles DEF IInv, CheckpointHolds, NothingIsLost, history, store
<1> QED
  BY <1>1, <1>4, <1>5, <1>6, <1>7, QuietStage

LEMMA SafetyKeepsIInv ==
  ASSUME IInv, NEW r \in Requests, Safety(r)
  PROVE  IInv'
<1> DEFINE to == IF active = None THEN "candidate" ELSE "data"
           j == [job[r] EXCEPT !.copy = active]
<1>1. pc[r] = "safety" /\ pc' = [pc EXCEPT ![r] = to] /\ job' = [job EXCEPT ![r] = j]
      /\ UNCHANGED <<active, store, history>>
  BY DEF Safety, Go
<1>2. job[r] \in Jobs /\ active \in Files /\ job[r].next = "candidate"
  BY <1>1 DEF IInv, TypeOK, JobIsInOrder
<1>3. j \in Jobs /\ j.copy = active /\ j.next = "candidate" /\ j.source = job[r].source
      /\ j.rolling = job[r].rolling /\ j.candidate = job[r].candidate
  BY <1>2 DEF Jobs
<1> HIDE DEF j
<1>4. pc'[r] = to /\ job'[r] = j /\ to \in {"candidate", "data"} /\ to \in Locations \ {"idle"}
      /\ (to = "candidate" => active = None) /\ (to = "data" => active # None)
  BY <1>1 DEF IInv, TypeOK, Locations
<1> HIDE DEF to
<1>5. j.candidate # None
  BY <1>1, <1>2, <1>3 DEF IInv, CandidateIsKnown
<1>6. JobIsInOrder(r)' /\ CopyIsInForce(r)' /\ (Touched(r)' <=> Touched(r))
  BY <1>1, <1>3, <1>4 DEF JobIsInOrder, CopyIsInForce, Touched
<1>7. CandidateIsKnown(r)'
  BY <1>1, <1>2, <1>3, <1>4 DEF IInv, CandidateIsKnown, history
<1>8. CheckpointHolds(r)'
  BY <1>1, <1>3, <1>4, <1>6 DEF IInv, CheckpointHolds, history, store
<1>9. to = "candidate" => trusted \subseteq Saved
  BY <1>4, ContentsAssumption DEF IInv, SettledIsRecoverable, TypeOK
<1>10. NothingIsLost(r)'
  BY <1>1, <1>4, <1>6, <1>9, SameFiles DEF IInv, NothingIsLost, history
<1> QED
  BY <1>1, <1>3, <1>4, <1>5, <1>6, <1>7, <1>8, <1>10, QuietStage

LEMMA CandidateAcceptedKeepsIInv ==
  ASSUME IInv, NEW r \in Requests, CandidateAccepted(r)
  PROVE  IInv'
<1>1. pc[r] = "candidate" /\ pc' = [pc EXCEPT ![r] = "rename"] /\ job' = [job EXCEPT ![r] = job[r]]
      /\ UNCHANGED <<active, store, history>> /\ job[r].candidate \in Valid
  BY DEF CandidateAccepted, Go, IInv, TypeOK
<1>2. job[r] \in Jobs /\ pc'[r] = "rename" /\ job'[r] = job[r]
      /\ "rename" \in Locations \ {"idle"} /\ job[r].candidate # None
  BY <1>1 DEF IInv, TypeOK, Locations
<1>3. JobIsInOrder(r)' /\ CopyIsInForce(r)' /\ CandidateIsKnown(r)' /\ (Touched(r)' <=> Touched(r))
  BY <1>1, <1>2 DEF IInv, JobIsInOrder, CopyIsInForce, CandidateIsKnown, Touched, history
<1>4. CheckpointHolds(r)' /\ NothingIsLost(r)'
  BY <1>1, <1>2, <1>3, SameFiles DEF IInv, CheckpointHolds, NothingIsLost, history, store
<1> QED
  BY <1>1, <1>2, <1>3, <1>4, QuietStage

(* The configuration is replaced: what was in force is in a backup.        *)
LEMMA ReplacementsKeepIInv ==
  ASSUME IInv, NEW r \in Requests, Rename(r) \/ RemoveGenerated(r)
  PROVE  IInv'
<1>1. PICK config \in {job[r].candidate, None}, result \in {"rolled_back", "restored"} :
        pc[r] \in {"rename", "remove"} /\ Return(r, pc[r], result, config) /\ UNCHANGED store
  BY DEF Rename, RemoveGenerated, Return, Go
<1>2. config \in Files /\ result \in Reports
  BY DEF IInv, TypeOK, Jobs, Files, Reports
<1>3. trusted \subseteq Saved' \cup {config}
  BY <1>1, SameFiles DEF IInv, NothingIsLost, Touched
<1>4. pc[r] # "idle"
  BY <1>1
<1> QED
  BY <1>1, <1>2, <1>3, <1>4, SameFiles, ReturnKeepsIInv

(* A crash leaves the files as they are.                                   *)
LEMMA CrashKeepsIInv == IInv /\ Crash => IInv'
<1> SUFFICES ASSUME IInv, Crash
             PROVE  IInv'
  OBVIOUS
<1>1. \A q \in Requests : pc'[q] = "idle" /\ job'[q] = NoJob
  BY DEF Crash
<1>2. active' = active /\ settled' = active /\ trusted' = trusted /\ report' = "crashed"
      /\ UNCHANGED store
  BY DEF Crash
<1>3. pc' \in [Requests -> Locations] /\ job' \in [Requests -> Jobs]
  BY NoJobIsAJob DEF Crash, Locations
<1>4. NoJob.rolling = FALSE /\ NoJob.next = "end" /\ NoJob.source = None
  BY DEF NoJob, Job
<1>5. ASSUME NEW q \in Requests
      PROVE  JobIsInOrder(q)' /\ CopyIsInForce(q)' /\ CandidateIsKnown(q)' /\ ~Touched(q)'
  BY <1>1, <1>4 DEF JobIsInOrder, CopyIsInForce, CandidateIsKnown, Touched
<1>6. ASSUME NEW q \in Requests
      PROVE  CheckpointHolds(q)' /\ NothingIsLost(q)'
  BY <1>1, <1>4 DEF CheckpointHolds, NothingIsLost, Touched
<1>7. TypeOK'
  BY <1>1, <1>2, <1>3, SameFiles DEF IInv, TypeOK, Reports
<1>8. OneAtATime' /\ ListedIsComplete' /\ SettledIsRecoverable'
  BY <1>1, <1>2, SameFiles DEF OneAtATime, SettledIsRecoverable, IInv
<1> QED
  BY <1>2, <1>5, <1>6, <1>7, <1>8 DEF IInv

LEMMA StutterKeepsIInv == IInv /\ UNCHANGED vars => IInv'
BY DEF vars, store, history, IInv, TypeOK, OneAtATime, JobIsInOrder, CopyIsInForce,
       CandidateIsKnown, CheckpointHolds, NothingIsLost, Touched, ListedIsComplete,
       SettledIsRecoverable, Saved, Intact

LEMMA NextKeepsIInv ==
  ASSUME Calm, IInv, [Next]_vars
  PROVE  IInv'
<1>1. ASSUME NEW r \in Requests, AskBackup(r) \/ AskRestore(r) \/ AskChange(r)
      PROVE  IInv'
  BY <1>1, EnterKeepsIInv
<1>2. ASSUME NEW r \in Requests, Works(r) \/ Mutate(r)
      PROVE  IInv'
  BY <1>2, FailuresKeepIInv, InspectKeepsIInv, CopiesKeepIInv, WriteDataKeepsIInv,
     WriteMetaKeepsIInv, WriteMetaFailsKeepsIInv, MutateKeepsIInv, MutationEndsKeepsIInv,
     RollBackKeepsIInv, AcceptedKeepsIInv, LoadKeepsIInv, SafetyKeepsIInv,
     CandidateAcceptedKeepsIInv, ReplacementsKeepIInv
  DEF Works
<1>3. ~ExternalWrite /\ ~Rot
  BY DEF Calm, ExternalWrite, Rot, Fault
<1> QED
  BY <1>1, <1>2, <1>3, CrashKeepsIInv, StutterKeepsIInv DEF Next

(* The invariant holds in every reachable state, whatever files, commands  *)
(* or the validator do, and wherever the Manager is killed.                *)
THEOREM Invariance == ASSUME Calm PROVE Spec => []IInv
<1>1. Init => IInv
  BY InitIInv
<1>2. IInv /\ [Next]_vars => IInv'
  BY NextKeepsIInv
<1> QED
  BY <1>1, <1>2, PTL DEF Spec

(* Every backup that List shows is complete and what was in force when it  *)
(* was made (writeBackup writes the content first).                        *)
THEOREM ListedAreComplete == ASSUME Calm PROVE Spec => []ListedIsComplete
<1>1. IInv => ListedIsComplete
  BY DEF IInv
<1> QED
  BY <1>1, Invariance, PTL

(* Every configuration an operation has left in force is in force or in a  *)
(* backup that can be restored (Restore and BeginMutation save first).     *)
THEOREM NothingSettledIsLost == ASSUME Calm PROVE Spec => []SettledIsRecoverable
<1>1. IInv => SettledIsRecoverable
  BY DEF IInv
<1> QED
  BY <1>1, Invariance, PTL

-----------------------------------------------------------------------------
(* The transactions implement the ledger.                                  *)

LEMMA LedgerInit == Init => Ledger!Init
BY DEF Init, Ledger!Init, Files

(* A failure before the configuration was touched keeps it; one after is   *)
(* a failed rollback, and the disk, the validator or the old configuration *)
(* is to blame.                                                            *)
LEMMA FailureIsALedgerStep ==
  ASSUME IInv, NEW r \in Requests, NEW from \in Locations \ {"idle"}, GiveUp(r, from),
         \/ ~job[r].rolling /\ pc[r] \notin {"mutate", "check", "verdict", "remove"}
         \/ job[r].rolling /\ (Faults \cap {"io", "validator"} # {} \/ settled \in Contents \ Valid)
  PROVE  Ledger!Next
<1>1. pc[r] = from /\ settled' = active
      /\ report' = (IF job[r].rolling THEN "rollback_failed" ELSE "refused")
  BY DEF GiveUp, Return, Go
<1>2. CASE ~job[r].rolling
  <2>1. ~Touched(r)
    BY <1>2 DEF Touched
  <2>2. active = settled
    BY <1>1, <2>1, OthersAreIdle, IdleHasNoJob DEF IInv, Alone
  <2> QED
    BY <1>1, <1>2, <2>2 DEF Ledger!Next, Ledger!Keep
<1>3. CASE job[r].rolling
  <2>1. active \in Contents \cup {None}
    BY DEF IInv, TypeOK, Files
  <2> QED
    BY <1>1, <1>3, <2>1 DEF Ledger!Next, Ledger!Abandon
<1> QED
  BY <1>2, <1>3

LEMMA FailuresAreLedgerSteps ==
  ASSUME Calm, IInv, NEW r \in Requests,
         \/ ReadFails(r) \/ WriteDataFails(r) \/ RemoveFails(r) \/ LoadFails(r)
         \/ SafetyFails(r) \/ CandidateRejected(r) \/ RenameFails(r) \/ WriteMetaFails(r)
  PROVE  Ledger!Next
<1>1. PICK from \in Locations \ {"idle"} : GiveUp(r, from) /\ pc[r] = from
  BY DEF ReadFails, WriteDataFails, RemoveFails, LoadFails, SafetyFails, CandidateRejected,
         RenameFails, WriteMetaFails, Locations, GiveUp, Return, Go
<1>2. pc[r] \notin {"mutate", "check", "verdict"}
  BY DEF ReadFails, WriteDataFails, RemoveFails, LoadFails, SafetyFails, CandidateRejected,
         RenameFails, WriteMetaFails, GiveUp, Return, Go
<1>3. ~job[r].rolling => pc[r] # "remove"
  BY DEF IInv, CheckpointHolds
<1>4. ASSUME job[r].rolling, Faults \cap {"io", "validator"} = {}
      PROVE  settled \in Contents \ Valid
  <2>1. ~Fault("io") /\ ~Fault("validator") /\ ~Fault("external")
    BY <1>4 DEF Fault, Calm
  <2>2. ~ReadFails(r)
    BY <1>4 DEF ReadFails, GiveUp, Return, Go, IInv, JobIsInOrder
  <2>3. ~LoadFails(r)
    <3>1. SUFFICES ASSUME pc[r] = "load"
                   PROVE  Intact(job[r].source)
      BY <2>1 DEF LoadFails
    <3>2. job[r].source \in Ids /\ meta[job[r].source] = settled
      BY <1>4, <3>1 DEF IInv, TypeOK, CheckpointHolds, Touched, Jobs
    <3>3. job[r].source # None /\ settled \in Files
      BY <3>1 DEF IInv, TypeOK
    <3> QED
      BY <1>4, <3>1, <3>2, <3>3 DEF IInv, ListedIsComplete, Intact, CheckpointHolds, Touched
  <2>4. CandidateRejected(r)
    BY <2>1, <2>2, <2>3
    DEF WriteDataFails, RemoveFails, SafetyFails, RenameFails, WriteMetaFails
  <2>5. pc[r] = "candidate" /\ job[r].candidate \notin Valid
    BY <2>1, <2>4 DEF CandidateRejected, GiveUp, Return, Go
  <2>6. job[r].candidate = settled /\ job[r].candidate # None /\ job[r].candidate \in Files
    BY <1>4, <2>5 DEF IInv, CandidateIsKnown, TypeOK, Jobs
  <2> QED
    BY <2>5, <2>6 DEF Files
<1> QED
  BY <1>1, <1>2, <1>3, <1>4, FailureIsALedgerStep

LEMMA ResultsAreLedgerSteps ==
  ASSUME IInv, NEW r \in Requests,
         Accepted(r) \/ RemoveGenerated(r) \/ Rename(r) \/ (WriteMeta(r) /\ job[r].next = "end")
  PROVE  Ledger!Next
<1>1. CASE Accepted(r)
  <2>1. settled' = active /\ report' = "changed" /\ active \in Valid
    BY <1>1 DEF Accepted, Return, Go, IInv, CopyIsInForce
  <2> QED
    BY <2>1 DEF Ledger!Next, Ledger!Adopt
<1>2. CASE RemoveGenerated(r)
  <2>1. settled' = settled /\ report' = "rolled_back"
    BY <1>2 DEF RemoveGenerated, Return, Go, IInv, CheckpointHolds, Touched
  <2> QED
    BY <2>1 DEF Ledger!Next, Ledger!Keep
<1>3. CASE Rename(r)
  <2>1. settled' = job[r].candidate /\ job[r].candidate \in Valid
        /\ report' = (IF job[r].rolling THEN "rolled_back" ELSE "restored")
        /\ (job[r].rolling => job[r].candidate = settled)
    BY <1>3 DEF Rename, Return, Go, IInv, CandidateIsKnown
  <2> QED
    BY <2>1 DEF Ledger!Next, Ledger!Keep, Ledger!Adopt
<1>4. CASE WriteMeta(r) /\ job[r].next = "end"
  <2>1. pc[r] = "meta" /\ settled' = active /\ report' = "saved"
    BY <1>4 DEF WriteMeta, Return
  <2>2. ~Touched(r)
    BY <1>4, <2>1 DEF IInv, JobIsInOrder, Touched
  <2>3. active = settled
    BY <2>1, <2>2, OthersAreIdle, IdleHasNoJob DEF IInv, Alone
  <2> QED
    BY <2>1, <2>3 DEF Ledger!Next, Ledger!Keep
<1> QED
  BY <1>1, <1>2, <1>3, <1>4

LEMMA LedgerStep ==
  ASSUME Calm, IInv, [Next]_vars
  PROVE  [Ledger!Next]_(Ledger!vars)
<1> USE DEF Ledger!vars
<1>1. ASSUME NEW r \in Requests,
             \/ AskBackup(r) \/ AskRestore(r) \/ AskChange(r) \/ Inspect(r) \/ Read(r)
             \/ WriteData(r) \/ (WriteMeta(r) /\ job[r].next # "end") \/ Mutate(r)
             \/ MutationEnds(r) \/ MutationFails(r) \/ Check(r) \/ CheckFails(r)
             \/ Rejected(r) \/ Load(r) \/ Safety(r) \/ CandidateAccepted(r)
      PROVE  UNCHANGED <<settled, report>>
  BY <1>1
  DEF AskBackup, AskRestore, AskChange, Enter, Inspect, Read, WriteData, WriteMeta, Mutate,
      MutationEnds, MutationFails, Check, CheckFails, Rejected, RollBack, Load, Safety,
      CandidateAccepted, history
<1>2. CASE Crash
  <2>1. active \in Contents \cup {None} /\ settled' = active /\ report' = "crashed"
    BY <1>2 DEF Crash, IInv, TypeOK, Files
  <2> QED
    BY <2>1 DEF Ledger!Next, Ledger!Interrupt
<1>3. ~ExternalWrite /\ ~Rot
  BY DEF Calm, ExternalWrite, Rot, Fault
<1>4. CASE UNCHANGED vars
  BY <1>4 DEF vars, history
<1> QED
  BY <1>1, <1>2, <1>3, <1>4, FailuresAreLedgerSteps, ResultsAreLedgerSteps DEF Next, Works

(* Each operation keeps the configuration or replaces it with a valid one, *)
(* unless it reports a failed rollback, for which the disk, the validator  *)
(* or the old configuration is to blame, or the Manager is killed.         *)
THEOREM TransactionsImplementLedger == ASSUME Calm PROVE Spec => ImplementsLedger
<1>1. Init => Ledger!Init
  BY LedgerInit
<1>2. IInv /\ [Next]_vars => [Ledger!Next]_(Ledger!vars)
  BY LedgerStep
<1> QED
  BY <1>1, <1>2, Invariance, PTL DEF Spec, ImplementsLedger, Ledger!Spec

-----------------------------------------------------------------------------
(* With strangers at the files: what needs no Calm.                        *)

LEMMA InitSharedIInv == Init => SharedIInv
BY ContentsAssumption
DEF Init, SharedIInv, TypeOK, MetaIsOfItsBackup, CandidateWasSaved, HasLoaded, NoJob, Job, Jobs,
    Files, Locations, Reports

(* A step of one request keeps what is said of the others, since a backup  *)
(* identifier is given once.                                               *)
LEMMA StageKeepsShared ==
  ASSUME SharedIInv, NEW r \in Requests, NEW to \in Locations, NEW j \in Jobs,
         pc' = [pc EXCEPT ![r] = to], job' = [job EXCEPT ![r] = j],
         active' \in Files, data' \in [Ids -> Files], meta' \in [Ids -> Files],
         origin' \in [Ids -> Files],
         settled' \in Files, trusted' \subseteq Contents, report' \in Reports,
         \A i \in Ids : origin[i] # None => origin'[i] = origin[i],
         to \in {"data", "meta", "verdict"} => j.copy # None,
         to = "meta" => j.id # None,
         to = "load" => j.source # None,
         MetaIsOfItsBackup',
         CandidateWasSaved(r)'
  PROVE  SharedIInv'
<1>1. /\ pc' \in [Requests -> Locations] /\ job' \in [Requests -> Jobs]
      /\ pc'[r] = to /\ job'[r] = j
      /\ \A q \in Requests \ {r} : pc'[q] = pc[q] /\ job'[q] = job[q]
  BY DEF SharedIInv, TypeOK
<1>2. ASSUME NEW q \in Requests \ {r}
      PROVE  CandidateWasSaved(q)'
  <2>1. pc[q] = "meta" => job[q].id \in Ids /\ job[q].copy # None
    BY DEF SharedIInv, TypeOK, Jobs
  <2>2. HasLoaded(q) => job[q].source \in Ids
    BY DEF SharedIInv, TypeOK, Jobs, CandidateWasSaved
  <2>3. CandidateWasSaved(q)
    BY DEF SharedIInv
  <2>4. pc'[q] = pc[q] /\ job'[q] = job[q]
    BY <1>1
  <2> QED
    BY <2>1, <2>2, <2>3, <2>4 DEF CandidateWasSaved, HasLoaded
<1>3. to \in {"candidate", "rename"} => j.candidate # None
  BY <1>1 DEF CandidateWasSaved, HasLoaded
<1>4. TypeOK'
  BY <1>1, <1>3 DEF SharedIInv, TypeOK
<1> QED
  BY <1>2, <1>4 DEF SharedIInv

(* An operation that ends with the backups as they are, or without the     *)
(* content of the one it was making.                                       *)
LEMMA ReturnKeepsShared ==
  ASSUME SharedIInv, NEW r \in Requests, NEW from, NEW result \in Reports,
         NEW config \in Files,
         Return(r, from, result, config), data' \in [Ids -> Files], UNCHANGED <<meta, origin>>
  PROVE  SharedIInv'
<1>1. /\ pc' = [pc EXCEPT ![r] = "idle"] /\ job' = [job EXCEPT ![r] = NoJob]
      /\ active' = config /\ settled' = config /\ report' = result
      /\ trusted' = trusted \cup ({config} \ {None})
  BY DEF Return, Go
<1>2. pc'[r] = "idle" /\ NoJob \in Jobs
  BY <1>1, NoJobIsAJob DEF SharedIInv, TypeOK
<1>3. CandidateWasSaved(r)'
  BY <1>2 DEF CandidateWasSaved, HasLoaded
<1>4. meta' \in [Ids -> Files] /\ origin' \in [Ids -> Files] /\ MetaIsOfItsBackup'
  BY DEF SharedIInv, TypeOK, MetaIsOfItsBackup
<1>5. trusted' \subseteq Contents
  BY <1>1 DEF SharedIInv, TypeOK, Files
<1> QED
  BY <1>1, <1>2, <1>3, <1>4, <1>5, StageKeepsShared DEF Locations

LEMMA GiveUpKeepsShared ==
  ASSUME SharedIInv, NEW r \in Requests, NEW from,
         GiveUp(r, from), data' \in [Ids -> Files], UNCHANGED <<meta, origin>>
  PROVE  SharedIInv'
<1>1. active \in Files
  BY DEF SharedIInv, TypeOK
<1> QED
  BY <1>1, ReturnKeepsShared DEF GiveUp, Reports

LEMMA FailuresKeepShared ==
  ASSUME SharedIInv, NEW r \in Requests,
         \/ ReadFails(r) \/ WriteDataFails(r) \/ WriteMetaFails(r) \/ RemoveFails(r)
         \/ LoadFails(r) \/ SafetyFails(r) \/ CandidateRejected(r) \/ RenameFails(r)
  PROVE  SharedIInv'
<1>1. data \in [Ids -> Files]
  BY DEF SharedIInv, TypeOK
<1>2. CASE WriteMetaFails(r)
  <2>1. data' \in [Ids -> Files]
    BY <1>1, <1>2 DEF WriteMetaFails, Files
  <2> QED
    BY <1>2, <2>1, GiveUpKeepsShared DEF WriteMetaFails
<1>3. CASE ~WriteMetaFails(r)
  BY <1>1, <1>3, GiveUpKeepsShared
  DEF ReadFails, WriteDataFails, RemoveFails, LoadFails, SafetyFails, CandidateRejected,
      RenameFails, store
<1> QED
  BY <1>2, <1>3

LEMMA ResultsKeepShared ==
  ASSUME SharedIInv, NEW r \in Requests, Accepted(r) \/ RemoveGenerated(r) \/ Rename(r)
  PROVE  SharedIInv'
<1>1. active \in Files /\ None \in Files /\ job[r].candidate \in Files
      /\ data \in [Ids -> Files]
  BY DEF SharedIInv, TypeOK, Jobs, Files
<1> QED
  BY <1>1, ReturnKeepsShared DEF Accepted, RemoveGenerated, Rename, Reports, store

(* Steps that leave the backups alone.                                     *)
LEMMA QuietKeepsShared ==
  ASSUME SharedIInv, NEW r \in Requests, NEW to \in Locations, NEW j \in Jobs,
         pc' = [pc EXCEPT ![r] = to], job' = [job EXCEPT ![r] = j],
         UNCHANGED <<active, store, history>>,
         to \in {"data", "verdict"} => j.copy # None,
         to # "meta",
         to = "load" => j.source # None,
         to \in {"load", "safety"} => j.next = "candidate",
         to \in {"inspect", "read"} => j.next # "candidate",
         to \in {"safety", "candidate", "rename"} \/ (to = "data" /\ j.next = "candidate") =>
           /\ j.source # None /\ j.candidate # None
           /\ j.candidate = origin[j.source]
  PROVE  SharedIInv'
<1>1. pc'[r] = to /\ job'[r] = j
  BY DEF SharedIInv, TypeOK
<1>2. CandidateWasSaved(r)'
  BY <1>1 DEF CandidateWasSaved, HasLoaded, store
<1>3. /\ active' \in Files /\ data' \in [Ids -> Files] /\ meta' \in [Ids -> Files]
      /\ origin' \in [Ids -> Files] /\ settled' \in Files /\ trusted' \subseteq Contents
      /\ report' \in Reports /\ MetaIsOfItsBackup' /\ origin' = origin
  BY DEF SharedIInv, TypeOK, store, history, MetaIsOfItsBackup
<1> QED
  BY <1>2, <1>3, StageKeepsShared

LEMMA StagesKeepShared ==
  ASSUME SharedIInv, NEW r \in Requests,
         \/ AskBackup(r) \/ AskRestore(r) \/ AskChange(r)
         \/ Inspect(r) \/ Read(r) \/ MutationEnds(r) \/ MutationFails(r)
         \/ Check(r) \/ CheckFails(r) \/ Rejected(r)
         \/ Load(r) \/ Safety(r) \/ CandidateAccepted(r)
  PROVE  SharedIInv'
<1>1. /\ job[r] \in Jobs /\ job = [job EXCEPT ![r] = job[r]] /\ CandidateWasSaved(r)
      /\ active \in Files /\ pc[r] \in Locations
  BY DEF SharedIInv, TypeOK
<1>2. CASE AskBackup(r) \/ AskRestore(r) \/ AskChange(r)
  <2>1. PICK to \in {"read", "load", "inspect"}, op \in {"backup", "restore", "change"},
             next \in {"end", "mutate", "candidate"}, i \in Ids \cup {None} :
               /\ Enter(r, to, Job(op, next, i))
               /\ to = "load" => i # None /\ next = "candidate"
               /\ to # "load" => next # "candidate"
    BY <1>2, ContentsAssumption DEF AskBackup, AskRestore, AskChange
  <2>2. Job(op, next, i) \in Jobs /\ Job(op, next, i).next = next /\ Job(op, next, i).source = i
    BY DEF Job, Jobs, Files
  <2> QED
    BY <2>1, <2>2, QuietKeepsShared DEF Enter, Go, Locations, store, history
<1>3. CASE Inspect(r) \/ MutationEnds(r) \/ CandidateAccepted(r)
  <2>1. CASE Inspect(r)
    BY <1>1, <2>1, QuietKeepsShared
    DEF Inspect, Go, Locations, CandidateWasSaved, store, history
  <2>2. CASE MutationEnds(r)
    BY <1>1, <2>2, QuietKeepsShared DEF MutationEnds, Go, Locations, store, history
  <2>3. CASE CandidateAccepted(r)
    BY <1>1, <2>3, QuietKeepsShared
    DEF CandidateAccepted, Go, Locations, CandidateWasSaved, HasLoaded, store, history
  <2> QED
    BY <1>3, <2>1, <2>2, <2>3
<1>4. CASE Read(r) \/ Check(r)
  <2>1. [job[r] EXCEPT !.copy = active] \in Jobs
    BY <1>1 DEF Jobs, Files
  <2>2. job' = [job EXCEPT ![r] = [job[r] EXCEPT !.copy = active]] /\ active # None
    BY <1>4 DEF Read, Check
  <2>3. [job[r] EXCEPT !.copy = active].copy = active
        /\ [job[r] EXCEPT !.copy = active].next = job[r].next
    BY <1>1 DEF Jobs
  <2> QED
    BY <1>1, <1>4, <2>1, <2>2, <2>3, QuietKeepsShared
    DEF Read, Check, Go, Locations, CandidateWasSaved, store, history
<1>5. CASE MutationFails(r) \/ CheckFails(r) \/ Rejected(r)
  <2> DEFINE j == [job[r] EXCEPT !.rolling = TRUE, !.next = "candidate"]
             to == IF job[r].source = None THEN "remove" ELSE "load"
  <2>1. j \in Jobs /\ j.next = "candidate" /\ j.source = job[r].source
    BY <1>1 DEF Jobs
  <2>2. pc' = [pc EXCEPT ![r] = to] /\ job' = [job EXCEPT ![r] = j]
        /\ UNCHANGED <<active, store, history>>
    BY <1>5 DEF MutationFails, CheckFails, Rejected, RollBack, Go
  <2>3. to \in Locations /\ to \in {"remove", "load"} /\ (to = "load" => j.source # None)
    BY <2>1 DEF Locations
  <2> HIDE DEF j, to
  <2> QED
    BY <2>1, <2>2, <2>3, QuietKeepsShared
<1>6. CASE Load(r)
  <2> DEFINE j == [job[r] EXCEPT !.candidate = data[job[r].source]]
  <2>1. pc[r] = "load" /\ job[r].source \in Ids
    BY <1>1, <1>6 DEF Load, Go, SharedIInv, TypeOK, Jobs
  <2>2. data[job[r].source] # None /\ data[job[r].source] = origin[job[r].source]
    BY <1>6, <2>1 DEF Load, Intact, SharedIInv, MetaIsOfItsBackup
  <2>3. data[job[r].source] \in Files
    BY <2>1 DEF SharedIInv, TypeOK
  <2>4. /\ j \in Jobs /\ j.next = job[r].next /\ j.source = job[r].source
        /\ j.candidate = data[job[r].source]
    BY <1>1, <2>3 DEF Jobs
  <2>5. job[r].next = "candidate"
    BY <1>1, <2>1 DEF CandidateWasSaved
  <2>6. j.source # None
    BY <2>1, <2>4, ContentsAssumption
  <2>7. pc' = [pc EXCEPT ![r] = "safety"] /\ job' = [job EXCEPT ![r] = j]
        /\ UNCHANGED <<active, store, history>>
    BY <1>6 DEF Load, Go
  <2> HIDE DEF j
  <2> QED
    BY <2>2, <2>4, <2>5, <2>6, <2>7, QuietKeepsShared DEF Locations
<1>7. CASE Safety(r)
  <2> DEFINE j == [job[r] EXCEPT !.copy = active]
             to == IF active = None THEN "candidate" ELSE "data"
  <2>1. /\ j \in Jobs /\ j.next = job[r].next /\ j.source = job[r].source
        /\ j.candidate = job[r].candidate /\ j.copy = active
    BY <1>1 DEF Jobs, Files
  <2>2. /\ job[r].source # None /\ job[r].candidate # None
        /\ job[r].candidate = origin[job[r].source]
    BY <1>1, <1>7 DEF Safety, Go, CandidateWasSaved, HasLoaded
  <2>3. pc' = [pc EXCEPT ![r] = to] /\ job' = [job EXCEPT ![r] = j]
        /\ UNCHANGED <<active, store, history>>
    BY <1>7 DEF Safety, Go
  <2>4. to \in Locations /\ to \in {"candidate", "data"} /\ (to = "data" => j.copy # None)
    BY <2>1 DEF Locations
  <2> HIDE DEF j, to
  <2> QED
    BY <2>1, <2>2, <2>3, <2>4, QuietKeepsShared
<1> QED
  BY <1>2, <1>3, <1>4, <1>5, <1>6, <1>7

(* A backup is begun: its identifier is new, so no record names it yet.    *)
LEMMA WriteDataKeepsShared ==
  ASSUME SharedIInv, NEW r \in Requests, WriteData(r)
  PROVE  SharedIInv'
<1>1. PICK i \in Unused :
        /\ data' = [data EXCEPT ![i] = job[r].copy]
        /\ origin' = [origin EXCEPT ![i] = job[r].copy]
        /\ job' = [job EXCEPT ![r].id = i]
  BY DEF WriteData
<1> DEFINE j == [job[r] EXCEPT !.id = i]
<1>2. /\ pc[r] = "data" /\ pc' = [pc EXCEPT ![r] = "meta"] /\ job' = [job EXCEPT ![r] = j]
      /\ UNCHANGED <<active, meta, history>>
  BY <1>1 DEF WriteData, Go
<1>3. /\ job[r] \in Jobs /\ job[r].copy \in Files /\ job[r].copy # None
      /\ i \in Ids /\ origin[i] = None /\ CandidateWasSaved(r)
  BY <1>2 DEF SharedIInv, TypeOK, Jobs, Unused
<1>4. /\ j \in Jobs /\ j.id = i /\ j.copy = job[r].copy /\ j.next = job[r].next
      /\ j.source = job[r].source /\ j.candidate = job[r].candidate
  BY <1>3 DEF Jobs
<1>5. /\ data' \in [Ids -> Files] /\ meta' \in [Ids -> Files] /\ origin' \in [Ids -> Files]
      /\ active' \in Files /\ settled' \in Files /\ trusted' \subseteq Contents
      /\ report' \in Reports
  BY <1>1, <1>2, <1>3 DEF SharedIInv, TypeOK, history
<1>6. /\ origin'[i] = job[r].copy
      /\ \A k \in Ids : k # i => origin'[k] = origin[k]
      /\ \A k \in Ids : origin[k] # None => origin'[k] = origin[k]
  BY <1>1, <1>3 DEF SharedIInv, TypeOK
<1>7. MetaIsOfItsBackup'
  BY <1>2, <1>3, <1>6 DEF SharedIInv, MetaIsOfItsBackup
<1>8. pc'[r] = "meta" /\ job'[r] = j
  BY <1>2 DEF SharedIInv, TypeOK
<1>9. CandidateWasSaved(r)'
  <2>1. job[r].next = "candidate" =>
          /\ job[r].source \in Ids /\ job[r].source # None /\ job[r].candidate # None
          /\ job[r].candidate = origin[job[r].source]
    BY <1>2, <1>3 DEF CandidateWasSaved, HasLoaded, Jobs
  <2> HIDE DEF j
  <2> QED
    BY <1>4, <1>6, <1>8, <2>1 DEF CandidateWasSaved, HasLoaded
<1>10. j.id # None
  BY <1>3, <1>4, ContentsAssumption
<1> HIDE DEF j
<1> QED
  BY <1>2, <1>3, <1>4, <1>5, <1>6, <1>7, <1>9, <1>10, StageKeepsShared DEF Locations

(* It is finished: the record names what it was made of.                   *)
LEMMA WriteMetaKeepsShared ==
  ASSUME SharedIInv, NEW r \in Requests, WriteMeta(r)
  PROVE  SharedIInv'
<1> DEFINE i == job[r].id
           next == job[r].next
           j == IF next = "end" THEN NoJob
                ELSE [job[r] EXCEPT !.source = IF next = "mutate" THEN i ELSE job[r].source]
           to == IF next = "end" THEN "idle" ELSE next
<1>1. /\ pc[r] = "meta" /\ job[r] \in Jobs /\ i \in Ids /\ job[r].copy \in Files
      /\ CandidateWasSaved(r) /\ origin[i] = job[r].copy
  BY DEF WriteMeta, SharedIInv, TypeOK, Jobs, CandidateWasSaved
<1>2. /\ meta' = [meta EXCEPT ![i] = job[r].copy] /\ UNCHANGED <<data, origin>>
      /\ pc' = [pc EXCEPT ![r] = to] /\ job' = [job EXCEPT ![r] = j]
  <2>1. CASE next = "end"
    BY <2>1 DEF WriteMeta, Return, Go
  <2>2. CASE next # "end"
    BY <2>2 DEF WriteMeta, Go
  <2> QED
    BY <2>1, <2>2
<1>3. /\ active' \in Files /\ settled' \in Files /\ trusted' \subseteq Contents
      /\ report' \in Reports
  BY DEF WriteMeta, Return, SharedIInv, TypeOK, history, Files, Reports
<1>4. j \in Jobs
  BY <1>1, NoJobIsAJob DEF Jobs
<1>5. /\ data' \in [Ids -> Files] /\ meta' \in [Ids -> Files] /\ origin' \in [Ids -> Files]
      /\ origin' = origin
  BY <1>1, <1>2 DEF SharedIInv, TypeOK
<1>6. MetaIsOfItsBackup'
  BY <1>1, <1>2 DEF SharedIInv, TypeOK, MetaIsOfItsBackup
<1>7. to \in {"idle", "mutate", "candidate"} /\ (to = "candidate" <=> next = "candidate")
  BY <1>1 DEF Jobs
<1>8. next = "candidate" => j.source = job[r].source /\ j.candidate = job[r].candidate
  BY <1>1 DEF Jobs
<1>9. pc'[r] = to /\ job'[r] = j
  BY <1>2 DEF SharedIInv, TypeOK
<1>10. CandidateWasSaved(r)'
  <2>1. next = "candidate" =>
          /\ job[r].source # None /\ job[r].candidate # None
          /\ job[r].candidate = origin[job[r].source]
    BY <1>1 DEF CandidateWasSaved, HasLoaded
  <2> HIDE DEF j, to, next
  <2> QED
    BY <1>5, <1>7, <1>8, <1>9, <2>1 DEF CandidateWasSaved, HasLoaded
<1> HIDE DEF j, to, next, i
<1> QED
  BY <1>2, <1>3, <1>4, <1>5, <1>6, <1>7, <1>10, StageKeepsShared DEF Locations

LEMMA SurroundingsKeepShared ==
  ASSUME SharedIInv,
         \/ Crash \/ ExternalWrite \/ Rot \/ UNCHANGED vars
         \/ \E r \in Requests : Mutate(r)
  PROVE  SharedIInv'
<1> USE DEF SharedIInv, TypeOK
<1>1. CASE Crash
  <2>1. \A r \in Requests : pc'[r] = "idle" /\ job'[r] = NoJob
    BY <1>1 DEF Crash
  <2>2. pc' \in [Requests -> Locations] /\ job' \in [Requests -> Jobs]
    BY <1>1, NoJobIsAJob DEF Crash, Locations
  <2>3. \A r \in Requests : CandidateWasSaved(r)'
    BY <2>1 DEF CandidateWasSaved, HasLoaded
  <2> QED
    BY <1>1, <2>1, <2>2, <2>3 DEF Crash, MetaIsOfItsBackup, store, Reports
<1>2. CASE ExternalWrite
  BY <1>2 DEF ExternalWrite, MetaIsOfItsBackup, CandidateWasSaved, HasLoaded, store
<1>3. CASE Rot
  BY <1>3 DEF Rot, MetaIsOfItsBackup, CandidateWasSaved, HasLoaded, history, Files
<1>4. CASE \E r \in Requests : Mutate(r)
  BY <1>4 DEF Mutate, MetaIsOfItsBackup, CandidateWasSaved, HasLoaded, store, history, Files
<1>5. CASE UNCHANGED vars
  BY <1>5 DEF vars, MetaIsOfItsBackup, CandidateWasSaved, HasLoaded, store, history
<1> QED
  BY <1>1, <1>2, <1>3, <1>4, <1>5

LEMMA SharedInvariance == Spec => []SharedIInv
<1>1. SharedIInv /\ [Next]_vars => SharedIInv'
  BY StagesKeepShared, FailuresKeepShared, ResultsKeepShared, WriteDataKeepsShared,
     WriteMetaKeepsShared, SurroundingsKeepShared
  DEF Next, Works
<1> QED
  BY <1>1, InitSharedIInv, PTL DEF Spec

(* Each variable keeps its type and each stage has what it works on        *)
(* (BeginMutation, Restore and writeBackup pass it on), whatever the disk, *)
(* the validator and others do to the files.                               *)
THEOREM TypeCorrect == Spec => []TypeOK
<1>1. SharedIInv => TypeOK
  BY DEF SharedIInv
<1> QED
  BY <1>1, SharedInvariance, PTL

(* A backup is chosen by its identifier, its content is read, and the      *)
(* configuration is replaced several steps later (Manager.Restore,         *)
(* RollbackMutation): what comes into force is what the backup was made    *)
(* of, for any faults and whatever others write.                           *)
THEOREM RestoresAreOfSaved == Spec => RestoresWhatWasSaved
<1> DEFINE A == \A r \in Requests :
                  pc[r] = "rename" /\ pc'[r] = "idle" /\ report' \in {"restored", "rolled_back"}
                    => active' = origin[job[r].source]
<1>1. SharedIInv /\ [Next]_vars => [A]_vars
  <2> SUFFICES ASSUME SharedIInv, Next, NEW r \in Requests,
                      pc[r] = "rename", pc'[r] = "idle",
                      report' \in {"restored", "rolled_back"}
               PROVE  active' = origin[job[r].source]
    OBVIOUS
  <2>1. ASSUME NEW q \in Requests, q # r,
               AskBackup(q) \/ AskRestore(q) \/ AskChange(q) \/ Works(q) \/ Mutate(q)
        PROVE  FALSE
    <3>1. pc' = pc \/ \E to \in Locations : pc' = [pc EXCEPT ![q] = to]
      BY <2>1
      DEF AskBackup, AskRestore, AskChange, Enter, Works, Mutate, Inspect, Read, ReadFails,
          WriteData, WriteDataFails, WriteMeta, WriteMetaFails, MutationEnds, MutationFails,
          Check, CheckFails, Accepted, Rejected, RollBack, RemoveGenerated, RemoveFails, Load,
          LoadFails, Safety, SafetyFails, CandidateAccepted, CandidateRejected, Rename,
          RenameFails, GiveUp, Return, Go, Locations, SharedIInv, TypeOK, Jobs
    <3> QED
      BY <2>1, <3>1 DEF SharedIInv, TypeOK
  <2>2. Rename(r)
    <3>1. ~Crash /\ ~ExternalWrite /\ ~Rot
      BY DEF Crash, ExternalWrite, Rot
    <3>2. ~AskBackup(r) /\ ~AskRestore(r) /\ ~AskChange(r) /\ ~Mutate(r)
      BY DEF AskBackup, AskRestore, AskChange, Enter, Go, Mutate
    <3>3. Works(r) => Rename(r) \/ RenameFails(r)
      BY DEF Works, Inspect, Read, ReadFails, WriteData, WriteDataFails, WriteMeta,
             WriteMetaFails, MutationEnds, MutationFails, Check, CheckFails, Accepted, Rejected,
             RollBack, RemoveGenerated, RemoveFails, Load, LoadFails, Safety, SafetyFails,
             CandidateAccepted, CandidateRejected, GiveUp, Return, Go
    <3>4. ~RenameFails(r)
      BY DEF RenameFails, GiveUp, Return
    <3> QED
      BY <2>1, <3>1, <3>2, <3>3, <3>4 DEF Next
  <2>3. job[r].candidate = origin[job[r].source]
    BY DEF SharedIInv, CandidateWasSaved, HasLoaded
  <2> QED
    BY <2>2, <2>3 DEF Rename, Return
<1> QED
  BY <1>1, SharedInvariance, PTL DEF Spec, RestoresWhatWasSaved
=============================================================================
