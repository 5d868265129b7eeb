---------------------------- MODULE MCIntegrations ----------------------------
(***************************************************************************)
(* Two calls through one adapter, of any framework and around any object.  *)
(***************************************************************************)
EXTENDS Integrations, TLC

Symmetry == Permutations(Calls)
=============================================================================
