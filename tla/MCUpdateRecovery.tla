--------------------------- MODULE MCUpdateRecovery --------------------------
(***************************************************************************)
(* A finite instance of UpdateRecovery: one process after another, and no  *)
(* fault but crashes.                                                      *)
(***************************************************************************)
EXTENDS UpdateRecovery

CONSTANTS p1, a1

MCVersions == 1 .. 3
MCOneProc  == {p1}
MCOneApply == {a1}
MCCrash    == {"crash"}
=============================================================================
