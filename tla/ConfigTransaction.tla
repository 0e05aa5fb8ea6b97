-------------------------- MODULE ConfigTransaction --------------------------
(***************************************************************************)
(* Operations of the Manager on the OpenClaw configuration: Backup,        *)
(* Restore, and the transaction of a change (a typed mutation or a repair):*)
(* checkpoint, command, validation, rollback.  Every operation holds the   *)
(* server's configMu; the steps are the file operations, the commands and  *)
(* the calls of the validator, and a fault may hit each of them.           *)
(***************************************************************************)
EXTENDS Integers, FiniteSets

CONSTANTS
  Requests,   \* slots for concurrent requests
  Contents,   \* contents of configuration files
  Valid,      \* those that OpenClaw's validator accepts
  Ids,        \* backup identifiers, never reused (bound of the model)
  None,       \* no file, no identifier
  Faults      \* a subset of FaultKinds

(* io: a file operation fails; validator: it cannot give its verdict;      *)
(* crash: the Manager is killed; rot: a backup file changes; external: a   *)
(* user or OpenClaw writes the configuration.                              *)
FaultKinds == {"io", "validator", "crash", "rot", "external"}

ASSUME ContentsAssumption ==
  /\ Valid \subseteq Contents
  /\ None \notin Contents /\ None \notin Ids
ASSUME FaultsAssumption == Faults \subseteq FaultKinds

VARIABLES
  active,     \* the configuration file
  data,       \* <id>.json5 of each backup
  meta,       \* <id>.meta.json of each backup: the digest it records
  pc,         \* where each request is
  job,        \* what each request carries
  origin,     \* history: what each backup was made of
  settled,    \* history: the configuration when the last operation ended
  trusted,    \* history: the configurations operations have ended with
  report      \* history: the result of the last operation

store   == <<data, meta, origin>>
history == <<settled, trusted, report>>
vars    == <<active, store, pc, job, history>>

Files == Contents \cup {None}

Locations ==
  {"idle", "inspect", "read", "data", "meta", "mutate", "check", "verdict",
   "load", "safety", "candidate", "rename", "remove"}

(* op: the operation; next: where a finished backup leads; copy: what is   *)
(* being backed up or validated; id: the backup being written; source: the *)
(* backup to restore; candidate: its content.                              *)
Jobs ==
  [op : {"none", "backup", "restore", "change"}, next : {"end", "mutate", "candidate"},
   copy : Files, id : Ids \cup {None}, source : Ids \cup {None}, candidate : Files,
   rolling : BOOLEAN]

Job(op, next, source) ==
  [op |-> op, next |-> next, copy |-> None, id |-> None, source |-> source,
   candidate |-> None, rolling |-> FALSE]

NoJob == Job("none", "end", None)

Reports ==
  {"none", "saved", "restored", "changed", "refused", "rolled_back", "rollback_failed",
   "crashed"}

TypeOK ==
  /\ active \in Files
  /\ data \in [Ids -> Files] /\ meta \in [Ids -> Files] /\ origin \in [Ids -> Files]
  /\ pc \in [Requests -> Locations]
  /\ job \in [Requests -> Jobs]
  /\ \A r \in Requests :
       /\ pc[r] \in {"data", "meta", "verdict"} => job[r].copy # None
       /\ pc[r] = "meta" => job[r].id # None
       /\ pc[r] = "load" => job[r].source # None
       /\ pc[r] \in {"candidate", "rename"} => job[r].candidate # None
  /\ settled \in Files
  /\ trusted \subseteq Contents
  /\ report \in Reports

Init ==
  /\ active \in Files
  /\ data = [i \in Ids |-> None] /\ meta = data /\ origin = data
  /\ pc = [r \in Requests |-> "idle"]
  /\ job = [r \in Requests |-> NoJob]
  /\ settled = active
  /\ trusted = {active} \ {None}
  /\ report = "none"

-----------------------------------------------------------------------------
Fault(kind) == kind \in Faults

Locked == \E r \in Requests : pc[r] # "idle"

Unused == {i \in Ids : origin[i] = None}

Go(r, from, to) ==
  /\ pc[r] = from
  /\ pc' = [pc EXCEPT ![r] = to]

Return(r, from, result, config) ==
  /\ Go(r, from, "idle")
  /\ job' = [job EXCEPT ![r] = NoJob]
  /\ active' = config
  /\ settled' = config
  /\ trusted' = trusted \cup ({config} \ {None})
  /\ report' = result

(* An operation that cannot go on.                                         *)
GiveUp(r, from) ==
  Return(r, from, IF job[r].rolling THEN "rollback_failed" ELSE "refused", active)

-----------------------------------------------------------------------------
(* The requests, each under configMu.  A change needs two backups.         *)

(* Variant: the operation does not take the mutex. *)
EnterUnlocked(r, to, newJob) ==
  /\ Go(r, "idle", to)
  /\ Cardinality(Unused) >= 2
  /\ job' = [job EXCEPT ![r] = newJob]
  /\ UNCHANGED <<active, store, history>>

Enter(r, to, newJob) ==
  /\ Go(r, "idle", to)
  /\ ~Locked
  /\ Cardinality(Unused) >= 2
  /\ job' = [job EXCEPT ![r] = newJob]
  /\ UNCHANGED <<active, store, history>>

AskBackup(r) == Enter(r, "read", Job("backup", "end", None))

AskRestore(r) == \E i \in Ids : Enter(r, "load", Job("restore", "candidate", i))

AskChange(r) == Enter(r, "inspect", Job("change", "mutate", None))

-----------------------------------------------------------------------------
(* Backup, BeginMutation and writeBackup.                                  *)

(* BeginMutation's Lstat.                                                  *)
Inspect(r) ==
  /\ Go(r, "inspect", IF active = None THEN "mutate" ELSE "read")
  /\ UNCHANGED <<active, store, job, history>>

Read(r) ==
  /\ active # None
  /\ Go(r, "read", "data")
  /\ job' = [job EXCEPT ![r].copy = active]
  /\ UNCHANGED <<active, store, history>>

ReadFails(r) ==
  /\ active = None \/ Fault("io")
  /\ GiveUp(r, "read")
  /\ UNCHANGED store

(* Variant: the metadata is written first. *)
WriteDataLast(r) ==
  /\ Go(r, "data", "meta")
  /\ \E i \in Unused :
       /\ meta' = [meta EXCEPT ![i] = job[r].copy]
       /\ origin' = [origin EXCEPT ![i] = job[r].copy]
       /\ job' = [job EXCEPT ![r].id = i]
  /\ UNCHANGED <<active, data, history>>

WriteData(r) ==
  /\ Go(r, "data", "meta")
  /\ \E i \in Unused :
       /\ data' = [data EXCEPT ![i] = job[r].copy]
       /\ origin' = [origin EXCEPT ![i] = job[r].copy]
       /\ job' = [job EXCEPT ![r].id = i]
  /\ UNCHANGED <<active, meta, history>>

WriteDataFails(r) ==
  /\ Fault("io")
  /\ GiveUp(r, "data")
  /\ UNCHANGED store

(* A finished backup is the result, the checkpoint or the safety backup.   *)
WriteMeta(r) ==
  LET i == job[r].id IN
  /\ pc[r] = "meta"
  /\ meta' = [meta EXCEPT ![i] = job[r].copy]
  /\ IF job[r].next = "end"
     THEN Return(r, "meta", "saved", active)
     ELSE /\ Go(r, "meta", job[r].next)
          /\ job' = [job EXCEPT ![r].source = IF job[r].next = "mutate" THEN i ELSE @]
          /\ UNCHANGED <<active, history>>
  /\ UNCHANGED <<data, origin>>

(* The content is removed again, if that succeeds.                         *)
WriteMetaFails(r) ==
  /\ Fault("io")
  /\ GiveUp(r, "meta")
  /\ data' \in {data, [data EXCEPT ![job[r].id] = None]}
  /\ UNCHANGED <<meta, origin>>

-----------------------------------------------------------------------------
(* runConfigMutation and runRepairTransaction.                             *)

(* The command writes the configuration, perhaps more than once.           *)
Mutate(r) ==
  /\ pc[r] = "mutate"
  /\ active' \in Contents
  /\ UNCHANGED <<store, pc, job, history>>

MutationEnds(r) ==
  /\ Go(r, "mutate", "check")
  /\ UNCHANGED <<active, store, job, history>>

(* RollbackMutation: back to the checkpoint, or to no file at all.         *)
RollBack(r, from) ==
  /\ Go(r, from, IF job[r].source = None THEN "remove" ELSE "load")
  /\ job' = [job EXCEPT ![r].rolling = TRUE, ![r].next = "candidate"]
  /\ UNCHANGED <<active, store, history>>

MutationFails(r) == RollBack(r, "mutate")

(* ValidateActive: a copy is validated.                                    *)
Check(r) ==
  /\ active # None
  /\ Go(r, "check", "verdict")
  /\ job' = [job EXCEPT ![r].copy = active]
  /\ UNCHANGED <<active, store, history>>

CheckFails(r) ==
  /\ active = None \/ Fault("io")
  /\ RollBack(r, "check")

Accepted(r) ==
  /\ job[r].copy \in Valid
  /\ Return(r, "verdict", "changed", active)
  /\ UNCHANGED store

(* Variant: a change that is not valid is made again. *)
RejectedRetried(r) ==
  /\ job[r].copy \notin Valid \/ Fault("validator")
  /\ Go(r, "verdict", "mutate")
  /\ UNCHANGED <<active, store, job, history>>

Rejected(r) ==
  /\ job[r].copy \notin Valid \/ Fault("validator")
  /\ RollBack(r, "verdict")

RemoveGenerated(r) ==
  /\ Return(r, "remove", "rolled_back", None)
  /\ UNCHANGED store

RemoveFails(r) ==
  /\ Fault("io")
  /\ GiveUp(r, "remove")
  /\ UNCHANGED store

-----------------------------------------------------------------------------
(* Restore, by itself or as part of a rollback.                            *)

(* Variant: the digest is not compared. *)
IntactIfThere(i) == meta[i] # None /\ data[i] # None

Intact(i) == meta[i] # None /\ data[i] = meta[i]

Load(r) ==
  /\ Go(r, "load", "safety")
  /\ Intact(job[r].source)
  /\ job' = [job EXCEPT ![r].candidate = data[job[r].source]]
  /\ UNCHANGED <<active, store, history>>

LoadFails(r) ==
  /\ pc[r] = "load"
  /\ ~Intact(job[r].source) \/ Fault("io")
  /\ GiveUp(r, "load")
  /\ UNCHANGED store

(* Variant: no safety backup. *)
SafetySkipped(r) ==
  /\ Go(r, "safety", "candidate")
  /\ UNCHANGED <<active, store, job, history>>

(* The safety backup, if there is something to save.                       *)
Safety(r) ==
  /\ Go(r, "safety", IF active = None THEN "candidate" ELSE "data")
  /\ job' = [job EXCEPT ![r].copy = active]
  /\ UNCHANGED <<active, store, history>>

SafetyFails(r) ==
  /\ Fault("io") \/ Fault("external")
  /\ GiveUp(r, "safety")
  /\ UNCHANGED store

CandidateAccepted(r) ==
  /\ job[r].candidate \in Valid
  /\ Go(r, "candidate", "rename")
  /\ UNCHANGED <<active, store, job, history>>

CandidateRejected(r) ==
  /\ job[r].candidate \notin Valid \/ Fault("validator") \/ Fault("io")
  /\ GiveUp(r, "candidate")
  /\ UNCHANGED store

Rename(r) ==
  /\ Return(r, "rename", IF job[r].rolling THEN "rolled_back" ELSE "restored",
            job[r].candidate)
  /\ UNCHANGED store

RenameFails(r) ==
  /\ Fault("io")
  /\ GiveUp(r, "rename")
  /\ UNCHANGED store

-----------------------------------------------------------------------------
(* The surroundings.                                                       *)

(* main leaves as soon as Shutdown was called, or the process is killed.   *)
Crash ==
  /\ Fault("crash")
  /\ Locked
  /\ pc' = [r \in Requests |-> "idle"]
  /\ job' = [r \in Requests |-> NoJob]
  /\ report' = "crashed"
  /\ settled' = active
  /\ UNCHANGED <<active, store, trusted>>

ExternalWrite ==
  /\ Fault("external")
  /\ active' \in Files
  /\ settled' = IF Locked THEN settled ELSE active'
  /\ UNCHANGED <<store, pc, job, trusted, report>>

Rot ==
  /\ Fault("rot")
  /\ \E i \in Ids, c \in Contents : data[i] # None /\ data' = [data EXCEPT ![i] = c]
  /\ UNCHANGED <<active, meta, origin, pc, job, history>>

Works(r) ==
  \/ Inspect(r) \/ Read(r) \/ ReadFails(r)
  \/ WriteData(r) \/ WriteDataFails(r) \/ WriteMeta(r) \/ WriteMetaFails(r)
  \/ MutationEnds(r) \/ MutationFails(r)
  \/ Check(r) \/ CheckFails(r) \/ Accepted(r) \/ Rejected(r)
  \/ RemoveGenerated(r) \/ RemoveFails(r)
  \/ Load(r) \/ LoadFails(r) \/ Safety(r) \/ SafetyFails(r)
  \/ CandidateAccepted(r) \/ CandidateRejected(r) \/ Rename(r) \/ RenameFails(r)

Next ==
  \/ \E r \in Requests : AskBackup(r) \/ AskRestore(r) \/ AskChange(r) \/ Works(r) \/ Mutate(r)
  \/ Crash \/ ExternalWrite \/ Rot

Spec == Init /\ [][Next]_vars

(* Every stage ends: a file operation returns, a command or the validator  *)
(* has a time limit.  No request has to come.                              *)
Fairness == \A r \in Requests : WF_vars(Works(r))

FairSpec == Spec /\ Fairness

-----------------------------------------------------------------------------
(* Properties                                                              *)

Saved == {meta[i] : i \in {j \in Ids : Intact(j)}}

(* What the list of backups shows can be restored: metadata is there only  *)
(* with the complete content it describes, also after a crash in between   *)
(* (List reads the metadata alone).                                        *)
ListedIsComplete ==
  \A i \in Ids : meta[i] # None => data[i] = meta[i] /\ meta[i] = origin[i]

(* The Manager loses no configuration it has left in force: whatever       *)
(* fails, and wherever it is killed, each of them is in force or in a      *)
(* backup that passes the digest test.                                     *)
SettledIsRecoverable == trusted \subseteq Saved \cup {active}

(* What a restore or a rollback puts in force is what was saved, also when *)
(* backup files change and others write the configuration.                 *)
RestoresWhatWasSaved ==
  [][\A r \in Requests :
       pc[r] = "rename" /\ pc'[r] = "idle" /\ report' \in {"restored", "rolled_back"}
         => active' = origin[job[r].source]]_vars

(* Seen from outside, each operation keeps the configuration or replaces   *)
(* it with a valid one, unless it reports a failed rollback or is killed.  *)
Ledger == INSTANCE ConfigLedger
            WITH config <- settled, Breaks <- Faults \cap {"io", "validator"} # {}

ImplementsLedger == Ledger!Spec

(* A change comes to an end, and the result says what became of it: no     *)
(* stage, of the change or of its rollback, keeps configMu.                *)
ChangeIsReported ==
  \A r \in Requests :
    job[r].op = "change" ~> pc[r] = "idle"
                              /\ report \in {"changed", "refused", "rolled_back",
                                             "rollback_failed", "crashed"}

-----------------------------------------------------------------------------
(* The inductive invariant, for a Manager whose files no one else touches. *)

Calm == Faults \cap {"external", "rot"} = {}

OneAtATime == \A r, q \in Requests : pc[r] # "idle" /\ pc[q] # "idle" => r = q

(* The operation may have changed the configuration.                       *)
Touched(r) == job[r].rolling \/ pc[r] \in {"mutate", "check", "verdict", "remove"}

JobIsInOrder(r) ==
  /\ pc[r] = "idle" => job[r] = NoJob
  /\ job[r].rolling =>
       /\ job[r].next = "candidate"
       /\ pc[r] \in {"remove", "load", "safety", "data", "meta", "candidate", "rename"}
  /\ pc[r] \in {"inspect", "read"} => job[r].next # "candidate"
  /\ pc[r] \in {"load", "safety"} => job[r].next = "candidate"
  /\ pc[r] \in {"inspect", "read", "data", "meta"} /\ job[r].next # "candidate" =>
       job[r].source = None

CopyIsInForce(r) ==
  /\ pc[r] \in {"data", "meta", "verdict"} => job[r].copy = active
  /\ pc[r] = "meta" =>
       /\ data[job[r].id] = job[r].copy /\ origin[job[r].id] = job[r].copy
       /\ meta[job[r].id] = None

CandidateIsKnown(r) ==
  /\ pc[r] \in {"safety", "data", "meta", "candidate", "rename"} /\ job[r].next = "candidate" =>
       job[r].candidate # None /\ (job[r].rolling => job[r].candidate = settled)
  /\ pc[r] = "rename" => job[r].candidate \in Valid /\ job[r].next = "candidate"
  /\ pc[r] = "candidate" => job[r].next = "candidate"

CheckpointHolds(r) ==
  /\ Touched(r) => settled = IF job[r].source = None THEN None ELSE meta[job[r].source]
  /\ Touched(r) /\ settled = None => job[r].source = None
  /\ job[r].rolling => (job[r].source = None <=> pc[r] = "remove")
  /\ pc[r] = "remove" => job[r].rolling

NothingIsLost(r) ==
  Touched(r) \/ pc[r] \in {"candidate", "rename"} => trusted \subseteq Saved

IInv ==
  /\ TypeOK
  /\ OneAtATime
  /\ \A r \in Requests :
       /\ JobIsInOrder(r) /\ CopyIsInForce(r) /\ CandidateIsKnown(r)
       /\ CheckpointHolds(r) /\ NothingIsLost(r)
  /\ (\A r \in Requests : ~Touched(r)) => active = settled
  /\ ListedIsComplete
  /\ SettledIsRecoverable

-----------------------------------------------------------------------------
(* What remains of it when others write the files too: a record names the  *)
(* configuration its backup was made of, and what a restore has loaded is  *)
(* what its source was made of, whatever the files have become since.      *)

MetaIsOfItsBackup == \A i \in Ids : meta[i] # None => meta[i] = origin[i]

HasLoaded(r) ==
  \/ pc[r] \in {"safety", "candidate", "rename"}
  \/ pc[r] \in {"data", "meta"} /\ job[r].next = "candidate"

CandidateWasSaved(r) ==
  /\ pc[r] \in {"load", "safety"} => job[r].next = "candidate"
  /\ pc[r] \in {"inspect", "read"} => job[r].next # "candidate"
  /\ pc[r] = "meta" => origin[job[r].id] = job[r].copy
  /\ HasLoaded(r) =>
       /\ job[r].source # None /\ job[r].candidate # None
       /\ job[r].candidate = origin[job[r].source]

SharedIInv ==
  /\ TypeOK
  /\ MetaIsOfItsBackup
  /\ \A r \in Requests : CandidateWasSaved(r)
=============================================================================
