-------------------------------- MODULE MCCrd --------------------------------
(***************************************************************************)
(* Instances of CrdController for TLC: two kinds, of two versions each.    *)
(***************************************************************************)
EXTENDS CrdController, TLC

CONSTANTS k1, k2
==============================================================================
