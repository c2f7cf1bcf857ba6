---------------------------- MODULE MCKillSwitch ----------------------------
(***************************************************************************)
(* KillSwitch on small instances.                                          *)
(***************************************************************************)
EXTENDS KillSwitch, TLC

KillSymmetry == Permutations(Gateways) \cup Permutations(Operators)
=============================================================================
