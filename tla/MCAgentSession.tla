---------------------------- MODULE MCAgentSession ----------------------------
(* Small instances of AgentSession: a tree that passes, one that fails, and  *)
(* a second of each so that an edit need not change the verdict.             *)
EXTENDS AgentSession

CONSTANTS g1, g2, r1, r2

MCTrees == {g1, g2, r1, r2}
MCGreen == {g1, g2}
=============================================================================
