---------------------------- MODULE MCLedLights ----------------------------
(***************************************************************************)
(* LedLights with one channel per group and values 0..2.                   *)
(***************************************************************************)
EXTENDS LedLights
=============================================================================
