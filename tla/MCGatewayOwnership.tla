-------------------------- MODULE MCGatewayOwnership -------------------------
(***************************************************************************)
(* Finite instances of GatewayOwnership.                                   *)
(***************************************************************************)
EXTENDS GatewayOwnership

CONSTANTS r1, r2

MCRequests == {r1, r2}
(* Every pair of operations that may touch the same thing.                 *)
MCOps ==
  [r \in MCRequests |->
     IF r = r1 THEN {"start", "restart", "enroll", "remove"}
     ELSE {"status", "task-status", "uninstall", "stop"}]
MCPolling ==
  [r \in MCRequests |-> IF r = r1 THEN {"start"} ELSE {"status"}]
MCAllFaults == FaultKinds
MCAllWorld  == WorldKinds
MCNobody    == {}
=============================================================================
