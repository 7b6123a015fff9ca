----------------------------- MODULE MCLedConn -----------------------------
(***************************************************************************)
(* LedConn is finite as it stands; with the topics on top it is bounded.   *)
(***************************************************************************)
EXTENDS LedTopics
=============================================================================
