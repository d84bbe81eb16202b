--------------------------- MODULE MCWorktreeSync ---------------------------
(* WorktreeSync on small instances: the project root and two worktrees     *)
(* outside of it.                                                          *)
EXTENDS WorktreeSync, TLC
CONSTANTS root, a, b
Symmetry == Permutations(External)
=============================================================================
