--------------------------- MODULE MCWaterMeter ---------------------------
(***************************************************************************)
(* WaterMeter with the proportions of the original: a low byte that does   *)
(* not repeat between preload and overflow, a battery period that is a     *)
(* multiple of half the usage period, and a wake that is always shorter    *)
(* than a decilitre.                                                       *)
(***************************************************************************)
EXTENDS WaterMeter
=============================================================================
