---------------------------- MODULE UpdateContract ---------------------------
(***************************************************************************)
(* What the Manager's self-update promises, without processes, files or    *)
(* attempts: an update is a trial of a newer version that ends in one of   *)
(* two ways, the trial is accepted or the good version is restored, and    *)
(* the installed version changes in no other way.  The promise holds until *)
(* it is forfeited.                                                        *)
(***************************************************************************)
EXTENDS Integers

CONSTANT Versions

VARIABLES
  installed,   \* the version on disk
  good,        \* the version the user can rely on
  stage,       \* "idle", "trial" or "restore"
  target,      \* the version on trial, 0 when idle
  kept         \* the promise has not been forfeited

vars == <<installed, good, stage, target, kept>>

Init ==
  /\ installed \in Versions
  /\ good = installed
  /\ stage = "idle"
  /\ target = 0
  /\ kept = TRUE

Propose(v) ==
  /\ stage = "idle"
  /\ v > good
  /\ stage' = "trial"
  /\ target' = v
  /\ UNCHANGED <<installed, good>>

Install ==
  /\ stage = "trial"
  /\ installed' = target
  /\ UNCHANGED <<good, stage, target>>

Accept ==
  /\ stage = "trial"
  /\ installed = target
  /\ good' = target
  /\ stage' = "idle"
  /\ target' = 0
  /\ UNCHANGED installed

Reject ==
  /\ stage = "trial"
  /\ installed = target
  /\ stage' = "restore"
  /\ UNCHANGED <<installed, good, target>>

Restore ==
  /\ stage = "restore"
  /\ installed' = good
  /\ UNCHANGED <<good, stage, target>>

Close ==
  /\ stage = "restore"
  /\ installed = good
  /\ stage' = "idle"
  /\ target' = 0
  /\ UNCHANGED <<installed, good>>

(* What the record says is no longer relied upon.                          *)
Forfeit == ~kept'

Next ==
  \/ /\ kept /\ kept'
     /\ \/ \E v \in Versions : Propose(v)
        \/ Install \/ Accept \/ Reject \/ Restore \/ Close
  \/ Forfeit

Spec == Init /\ [][Next]_vars
=============================================================================
