--------------------------- MODULE MCAgentClient ---------------------------
(***************************************************************************)
(* Values for the constants of AgentClient.                                *)
(***************************************************************************)
EXTENDS AgentClient

CONSTANTS g1, g2, g3

=============================================================================
