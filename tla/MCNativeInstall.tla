--------------------------- MODULE MCNativeInstall --------------------------
(***************************************************************************)
(* A finite instance of NativeInstall: two installations, and one Manager  *)
(* process after another.  There is no self-update: to the installations   *)
(* the stop it brings is one end of the process among others.              *)
(***************************************************************************)
EXTENDS NativeInstall, TLC

CONSTANTS p1, r1, r2

MCVersions == {1}
MCOneProc  == {p1}
MCNone     == {}
MCInstalls == {r1, r2}
Alike      == Permutations(MCInstalls)
=============================================================================
