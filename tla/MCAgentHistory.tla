--------------------------- MODULE MCAgentHistory ---------------------------
(***************************************************************************)
(* Instances of AgentHistory for TLC.                                      *)
(***************************************************************************)
EXTENDS AgentHistory, MCAgentManager

DeployedHistorySpec == Deployed /\ HInit /\ [][HNext]_hvars
=============================================================================
