--------------------------- MODULE MCEnvironments ---------------------------
EXTENDS Environments, TLC

CONSTANTS a, b, w

(* T3 derives an environment's ID from its worktree's path: one ID a path.  *)
T3Asks == {<<a, w>>}
(* A person may give any ID.                                                *)
AnyAsks == {<<a, w>>, <<b, w>>}

Symmetry == Permutations(Works) \cup Permutations(Gits)
=============================================================================
