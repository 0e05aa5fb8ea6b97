------------------------- MODULE MCUpdateCoordinator -------------------------
(***************************************************************************)
(* A finite instance of UpdateCoordinator: this version, one before it     *)
(* (whose update may still be on trial) and two after it, so that one      *)
(* candidate can follow another while requests are under way.              *)
(***************************************************************************)
EXTENDS UpdateCoordinator, TLC

MCVersions == 1 .. 4

Alike == Permutations(Requests)
=============================================================================
