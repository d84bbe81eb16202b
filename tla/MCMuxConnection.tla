--------------------------- MODULE MCMuxConnection ---------------------------
(***************************************************************************)
(* MuxConnection on small instances.                                       *)
(***************************************************************************)
EXTENDS MuxConnection

CONSTANTS c1, c2, c3
=============================================================================
