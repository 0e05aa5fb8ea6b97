---------------------------- MODULE StartupRaces -----------------------------
(***************************************************************************)
(* The starts of a version, counted beside the record that counts them     *)
(* too.  Startups of several Manager processes and Apply requests read and *)
(* write pending-update.json with no lock between them, so a process may   *)
(* write back a record that has been counted, turned into a rollback,      *)
(* removed, or replaced by that of another update since.                   *)
(***************************************************************************)
EXTENDS UpdateRecovery

VARIABLE counted   \* history: the starts of each version counted since the last Prepare
                   \* that made it a target

RacesTypeOK == counted \in [Versions -> 0 .. MaxStarts]

RacesInit == Init /\ counted = [v \in Versions |-> 0]

StartCounted(p) ==
  /\ CountAttempt(p)
  /\ counted' = [counted EXCEPT ![ver[p]] = OneMore(@)]

TargetPrepared(r) ==
  /\ PrepareWrites(r)
  /\ counted' = IF apply'[r] = NoCall THEN counted ELSE [counted EXCEPT ![apply[r].target] = 0]

(* Everything else a process, an Apply or an installer does.               *)
Uncounted ==
  \/ \E p \in Procs :
       \/ Start(p) \/ WindowStep(p) \/ StopAfterApply(p) \/ Die(p)
       \/ StartWithoutUpdate(p) \/ StartAfterRollback(p) \/ ClearRollback(p)
       \/ StartOfTarget(p) \/ CountAttemptFails(p)
       \/ VerifyRollback(p) \/ ReadForRollback(p) \/ BeginRollback(p) \/ LaunchRollback(p)
       \/ Bind(p) \/ BindRefused(p)
  \/ \E r \in Applies : LaunchUpdate(r)
  \/ ApplyReads
  \/ InstallerStep

RacesNext ==
  \/ \E p \in Procs : StartCounted(p)
  \/ \E r \in Applies : TargetPrepared(r)
  \/ Uncounted /\ UNCHANGED counted

RacesSpec == RacesInit /\ [][RacesNext]_<<vars, counted>>

-----------------------------------------------------------------------------
(* Properties.                                                             *)

(* However many processes start at once, and whichever older record one of *)
(* them writes back, the count on disk never exceeds the starts of its     *)
(* target since that target was last prepared: overlapping                 *)
(* read-modify-writes lose starts, they never invent one.                  *)
CountNeverInvented ==
  pending # NoPending => pending.attempts <= counted[pending.target]

(* What the records that processes hold can say when they are written.     *)
CopiesAreCounted ==
  \A p \in Procs :
    /\ pc[p] = "count" =>
         /\ copy[p] \in PendingUpdate
         /\ copy[p].target = ver[p]
         /\ copy[p].attempts <= counted[ver[p]] + 1
    /\ pc[p] = "rollback" =>
         /\ again[p] \in PendingUpdate
         /\ again[p].attempts <= counted[again[p].target]

(* While a process of the target at its third start is between counting    *)
(* and rolling back, no record of a further update has a count: its target *)
(* cannot have been installed.                                             *)
FurtherIsUncounted ==
  \A p \in Procs : pc[p] \in {"verify", "begin", "rollback"} =>
    /\ pending.target > installed => pending.attempts = 0
    /\ pc[p] = "rollback" /\ again[p].target > installed => again[p].attempts = 0

RacesIInv ==
  /\ TypeOK /\ RacesTypeOK
  /\ OneVersion
  /\ OwnersAreThere
  /\ CopiesAreCounted
  /\ FurtherIsUncounted
  /\ CountNeverInvented
=============================================================================
