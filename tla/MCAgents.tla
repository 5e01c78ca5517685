------------------------------- MODULE MCAgents -------------------------------
(* Two requests, one document; a call takes up to two units, an agent has    *)
(* three.                                                                    *)
EXTENDS Agents, TLC
==============================================================================
