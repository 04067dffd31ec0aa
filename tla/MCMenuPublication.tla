------------------------- MODULE MCMenuPublication -------------------------
(* MenuPublication on small instances: symmetric workers and menu ids.     *)
EXTENDS MenuPublication, TLC

Symmetry == Permutations(Menus) \cup Permutations(Workers)
=============================================================================
