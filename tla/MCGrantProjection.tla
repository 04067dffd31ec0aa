------------------------ MODULE MCGrantProjection ------------------------
(* GrantProjection on small instances: symmetric workers and tenants.      *)
EXTENDS GrantProjection, TLC

Symmetry == Permutations(Workers) \cup Permutations(Tenants)
=============================================================================
