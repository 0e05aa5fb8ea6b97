---------------------------- MODULE ConfigLedger -----------------------------
(***************************************************************************)
(* What the Manager promises about the OpenClaw configuration it changes   *)
(* for the user, without files, backups, locks or commands: an operation   *)
(* keeps the configuration in force or replaces it with a valid one.  Any  *)
(* other outcome is reported as a failed rollback, and happens only if the *)
(* configuration in force was not valid itself or something broke; or the  *)
(* process was killed.                                                     *)
(***************************************************************************)
CONSTANTS
  Contents,   \* configurations
  Valid,      \* those that OpenClaw accepts
  None,       \* no configuration
  Breaks      \* may the disk or the validator fail?

VARIABLES
  config,     \* the configuration in force
  report      \* the result of the last operation

vars == <<config, report>>

Init ==
  /\ config \in Contents \cup {None}
  /\ report = "none"

Keep ==
  /\ report' \in {"saved", "refused", "rolled_back"}
  /\ UNCHANGED config

Adopt ==
  /\ report' \in {"changed", "restored"}
  /\ config' \in Valid

Abandon ==
  /\ report' = "rollback_failed"
  /\ Breaks \/ config \in Contents \ Valid
  /\ config' \in Contents \cup {None}

Interrupt ==
  /\ report' = "crashed"
  /\ config' \in Contents \cup {None}

Next == Keep \/ Adopt \/ Abandon \/ Interrupt

Spec == Init /\ [][Next]_vars
=============================================================================
