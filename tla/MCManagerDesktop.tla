--------------------------- MODULE MCManagerDesktop --------------------------
(***************************************************************************)
(* A finite instance of ManagerDesktop: one process, two Apply requests    *)
(* and two runs of the embedded window.                                    *)
(***************************************************************************)
EXTENDS ManagerDesktop

CONSTANTS p1, a1, a2, v1, v2

MCVersions   == 1 .. 3
MCOneProc    == {p1}
MCTwoApplies == {a1, a2}
MCViews      == {v1, v2}
MCNoFaults   == {}
=============================================================================
