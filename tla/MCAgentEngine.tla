--------------------------- MODULE MCAgentEngine -----------------------------
(***************************************************************************)
(* Finite instances of AgentEngine and ModelClient.                        *)
(***************************************************************************)
EXTENDS ModelClient, TLC

Alike == Permutations(Sessions) \cup Permutations(Approvals) \cup Permutations(Requests)

Made(type, id, callId) == [type |-> type, id |-> id, callId |-> callId]

(* Replies with one call and with two, behind other items, whose call_ids  *)
(* are missing, another item's own, and repeated (which is not accepted).  *)
MCReplies ==
  { <<Made("reasoning", 3, 0), Made("other", 4, 0), Made("function_call", 1, 0)>>,
    <<Made("function_call", 1, 2), Made("message", 3, 0), Made("function_call", 2, 1)>>,
    <<Made("function_call", 1, 1), Made("function_call", 2, 1)>> }
=============================================================================
