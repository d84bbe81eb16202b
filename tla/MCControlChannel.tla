-------------------------- MODULE MCControlChannel --------------------------
(***************************************************************************)
(* ControlChannel on small instances.  Channels are interchangeable.       *)
(***************************************************************************)
EXTENDS ControlChannel, TLC

CONSTANTS c1, c2, c3

Symmetry == Permutations(Chan)
=============================================================================
