-------------------------- MODULE MCBulkCollection --------------------------
(***************************************************************************)
(* Instances of BulkCollection for TLC.  Packet a has two full             *)
(* sub-packets and a short last one, packet b one full and a short one;    *)
(* packet c ends on a full sub-packet.                                     *)
(***************************************************************************)
EXTENDS BulkCollection, TLC

CONSTANTS a, b, c, s1

OneOwner == [p \in Packet |-> s1]
OwnId == [p \in Packet |-> p]
Lengths == (a :> 5) @@ (b :> 3) @@ (c :> 4)
LengthsHere == [p \in Packet |-> Lengths[p]]
WholeOnly == {}
LastOnly == {{1}}
=============================================================================
