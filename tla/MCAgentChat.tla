---------------------------- MODULE MCAgentChat ----------------------------
(***************************************************************************)
(* Instances of AgentChat for TLC.                                         *)
(***************************************************************************)
EXTENDS AgentChat, TLC

Symmetry == Permutations(Processes)

=============================================================================
