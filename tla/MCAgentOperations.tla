------------------------- MODULE MCAgentOperations -------------------------
(***************************************************************************)
(* Instances of AgentOperations for TLC: every write goes to one           *)
(* workspace.                                                              *)
(***************************************************************************)
EXTENDS AgentOperations

OneWorkspace == {"w"}
SameWorkspace == [o \in Writers |-> "w"]
=============================================================================
