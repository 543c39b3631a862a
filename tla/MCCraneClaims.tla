--------------------------- MODULE MCCraneClaims ----------------------------
(* Values for the constants of CraneClaims.                                *)
EXTENDS CraneClaims

ShortPattern == <<2, Pause>>
=============================================================================
