---------------------------- MODULE RecoveryStore ----------------------------
(***************************************************************************)
(* The persistent record of a Manager self-update, pending-update.json, as *)
(* internal/managerupdate/state.go reads and writes it.  The signed        *)
(* envelopes, paths and digests are abstracted to the version they name:   *)
(* Read re-verifies every signature, so a record that reads at all names   *)
(* the two versions it was prepared with.                                  *)
(***************************************************************************)
EXTENDS Integers

CONSTANT Versions   \* the Manager versions, ordered as CompareVersions orders them

ASSUME VersionsAssumption == Versions \subseteq Nat \ {0}

MaxReadableAttempts == 3   \* Read refuses a record with more attempts
RollbackThreshold   == 3   \* RecordTargetStartup asks for a rollback from here on

(* What the file holds.  NoPending stands for os.ErrNotExist.              *)
NoPending == [prev |-> 0, target |-> 0, attempts |-> 0, phase |-> "none"]

PendingUpdate ==
  [prev : Versions, target : Versions,
   attempts : 0 .. MaxReadableAttempts + 1, phase : {"installing", "rollback"}]

(* RecoveryStore.Read returns the record instead of an error.              *)
Readable(pending) ==
  /\ pending # NoPending
  /\ pending.attempts <= MaxReadableAttempts

(* The record Prepare writes; its guard is the order of the two versions.  *)
CanPrepare(prev, target) == target > prev

Prepared(prev, target) ==
  [prev |-> prev, target |-> target, attempts |-> 0, phase |-> "installing"]

(* The two branches of RecordTargetStartup that accept the record: the     *)
(* previous version is back, or the target is starting.                    *)
ReturnedOnAnyVersion(pending, current) ==   \* variant: version not compared
  Readable(pending) /\ pending.phase = "rollback"

ReturnedOnTarget(pending, current) ==       \* variant: compared with the wrong version
  Readable(pending) /\ pending.phase = "rollback" /\ current = pending.target

ReturnedToPrevious(pending, current) ==
  /\ Readable(pending)
  /\ pending.phase = "rollback"
  /\ current = pending.prev

AnyVersionStarted(pending, current) ==      \* variant: version not compared
  Readable(pending) /\ pending.phase = "installing"

TargetStarted(pending, current) ==
  /\ Readable(pending)
  /\ pending.phase = "installing"
  /\ current = pending.target

CountedTwice(pending) == [pending EXCEPT !.attempts = @ + 2]   \* variant

Counted(pending) == [pending EXCEPT !.attempts = @ + 1]

RollbackTooEarly(pending) == pending.attempts >= RollbackThreshold - 1   \* variant

RollbackRequired(pending) == pending.attempts >= RollbackThreshold

RollingBackFromZero(pending) == [pending EXCEPT !.phase = "rollback", !.attempts = 0]   \* variant

RollingBack(pending) == [pending EXCEPT !.phase = "rollback"]
=============================================================================
