-------------------------- MODULE AgentRegistryMC --------------------------
(* Offers and symmetry for AgentRegistry. *)
EXTENDS AgentRegistry, TLC

\* The skill is named twice on the card (as the manager names "orchestrate"), a
\* tool of an agent without a card, or a tool that the card does not list.
Offers ==
    {[tools |-> {}, card |-> TRUE, skills |-> Skill, legacyCaps |-> Skill],
     [tools |-> Skill, card |-> FALSE, skills |-> {}, legacyCaps |-> {}],
     [tools |-> Skill, card |-> TRUE, skills |-> {}, legacyCaps |-> {}]}

Symmetry == Permutations(Agent) \cup Permutations(Conn)
=============================================================================
