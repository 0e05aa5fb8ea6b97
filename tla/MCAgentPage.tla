----------------------------- MODULE MCAgentPage ------------------------------
(***************************************************************************)
(* A finite instance of AgentPage.  Sessions that were not drawn are       *)
(* alike, and so are requests that are free: which of them is taken first  *)
(* makes no difference to any property, so the instance fixes it (symmetry *)
(* sets would not be sound for the liveness property).                     *)
(***************************************************************************)
EXTENDS AgentPage, TLC

First(S) == CHOOSE x \in S : TRUE

AllFree == \A r \in Requests : Free(r)

InOrder ==
  /\ created = {} => created' \subseteq {First(Sessions)}
  /\ AllFree /\ ~AllFree' => ~Free(First(Requests))'
=============================================================================
