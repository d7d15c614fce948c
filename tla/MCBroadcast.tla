----------------------------- MODULE MCBroadcast -----------------------------
(***************************************************************************)
(* Small networks for Broadcast: two nodes, and three in a line in which   *)
(* only b hears both others.                                               *)
(***************************************************************************)
EXTENDS Broadcast

CONSTANTS a, b, c

Pair == {<<a, b>>, <<b, a>>}
Line == Pair \cup {<<b, c>>, <<c, b>>}
=============================================================================
