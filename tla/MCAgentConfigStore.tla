------------------------- MODULE MCAgentConfigStore --------------------------
(***************************************************************************)
(* A finite instance of AgentConfigStore: two configurations and two keys, *)
(* so that halves of different pairs can meet, and three requests, so that *)
(* a read can stand beside another one and beside a change.                *)
(***************************************************************************)
EXTENDS AgentConfigStore, TLC

Alike == Permutations(Requests) \cup Permutations(Configs) \cup Permutations(Keys)
=============================================================================
