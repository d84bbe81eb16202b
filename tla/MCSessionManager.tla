-------------------------- MODULE MCSessionManager --------------------------
(***************************************************************************)
(* SessionManager on small instances.  Providers are interchangeable, so   *)
(* the safety runs reduce by their permutations.                           *)
(***************************************************************************)
EXTENDS SessionManager, TLC

CONSTANTS laptop, server, i1, i2

Symmetry == Permutations(Inst)
=============================================================================
