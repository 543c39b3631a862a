--------------------------- MODULE MCCraneSystem ----------------------------
(* Values for the constants of CraneSystem.                                *)
EXTENDS CraneSystem

ShortPattern == <<2, Pause>>
MixedPattern == <<6, 2, Pause, 2>>
=============================================================================
