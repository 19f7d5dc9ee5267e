--------------------------- MODULE MCPlanNodes ---------------------------
(* Two plans, so that a late answer can be one for the other; one node.      *)
EXTENDS PlanNodes, TLC

Symmetries == Permutations(Plans) \cup Permutations(Slots)
=============================================================================
