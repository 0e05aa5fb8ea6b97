---------------------------- MODULE MCStartupRaces ---------------------------
(***************************************************************************)
(* A finite instance of StartupRaces: three processes that overlap, two    *)
(* Apply requests and three versions, so that one update can follow        *)
(* another while a process still holds a record of the first one, and a    *)
(* rolled-back version can be tried again.                                 *)
(***************************************************************************)
EXTENDS StartupRaces, TLC

CONSTANTS p1, p2, p3, a1, a2

MCVersions   == 1 .. 3
MCThreeProcs == {p1, p2, p3}
MCTwoApplies == {a1, a2}
MCAllFaults  == FaultKinds

Alike == Permutations(MCThreeProcs) \cup Permutations(MCTwoApplies)

(* After a contention no property reads good and failed, and a process     *)
(* that runs is of the installed version, so ver adds nothing.             *)
Seen ==
  << pending, installed, installers, pc, copy, again, window, apply, counted, contended,
     IF contended THEN <<>> ELSE <<ver, good, failed>> >>

(* Two installers of one kind, and three processes, are followed to the    *)
(* contention they come to, and not beyond it.                             *)
TwoActBeyond ==
  contended => /\ Cardinality(Running) =< 2
               /\ \A i \in Installers : installers[i] =< 1
=============================================================================
