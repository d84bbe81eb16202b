--------------------------- MODULE MCMuxTopology ---------------------------
(* Small daemons for TLC.  Projects are interchangeable.                   *)
EXTENDS MuxTopology, TLC
CONSTANTS web, api
MCProjects == {web, api}
Symmetry == Permutations(MCProjects)
=============================================================================
