----------------------------- MODULE MCAgentLoop -----------------------------
(* Small instances of AgentLoop and AgentLoopProps for TLC. *)
EXTENDS AgentLoopProps, TLC

MCFreshTx(w) == <<w>>

CONSTANTS p1, p2, p3
=============================================================================
