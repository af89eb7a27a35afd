---------------------------- MODULE MCAgentCache ----------------------------
(* Two mutations of any two hooks over one agent.                          *)
EXTENDS AgentCache, TLC

CONSTANTS a, m1, m2, page, infinite

MCTarget == [m \in Mutations |-> a]
MutationsAreAlike == Permutations(Mutations)
=============================================================================
