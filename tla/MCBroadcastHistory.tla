------------------------- MODULE MCBroadcastHistory -------------------------
(***************************************************************************)
(* The networks of MCBroadcast with the history of the updates.            *)
(***************************************************************************)
EXTENDS MCBroadcast, BroadcastHistory
=============================================================================
