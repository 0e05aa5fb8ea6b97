------------------------- MODULE MCConfigTransaction --------------------------
(***************************************************************************)
(* Finite instances of ConfigTransaction.                                  *)
(***************************************************************************)
EXTENDS ConfigTransaction, TLC

CONSTANTS c1, c2, bad

MCContents == {c1, c2, bad}
MCValid == {c1, c2}

AlikeBackups == Permutations(Requests) \cup Permutations(Ids)
=============================================================================
