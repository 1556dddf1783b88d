-------------------------- MODULE MCAgentDefinitions --------------------------
(* Small instances of AgentDefinitions.  Prompts are interchangeable; so are   *)
(* actors, versions and activations, but prompts are the most numerous.        *)
EXTENDS AgentDefinitions, TLC

Symmetry == Permutations(Prompts) \cup Permutations(Actors) \cup Permutations(Versions)
===============================================================================
