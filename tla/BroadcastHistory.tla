-------------------------- MODULE BroadcastHistory --------------------------
(***************************************************************************)
(* Broadcast with the history of the local updates, which relates the      *)
(* versions to the order in which the data was written.                    *)
(***************************************************************************)
EXTENDS Broadcast, Sequences

VARIABLE writes  \* versions and data of the updates, in their order

hvars == <<vars, writes>>

HInit == Init /\ writes = <<>>

HNext ==
  \/ \E n \in Node : Update(n) /\ writes' = Append(writes, Holding(n)')
  \/ Rest /\ UNCHANGED writes

HSpec == HInit /\ [][HNext]_hvars

HFairSpec == HSpec /\ Fairness

-----------------------------------------------------------------------------
\* Which of the updates w a version comes from.
UpdateOf(w, v) ==
  IF v = Uninitialized THEN 0
  ELSE CHOOSE i \in 1 .. Len(w) : w[i].version = v

Ordered == INSTANCE OrderedBroadcast WITH
  Value <- Content, Nothing <- Blank,
  written <- [i \in 1 .. Len(writes) |-> writes[i].data],
  seen <- [n \in Node |-> UpdateOf(writes, version[n])],
  held <- data

(***************************************************************************)
(* Over a network that loses, delays and reorders messages, and with nodes *)
(* that pause and restart, every node reads the data in the order in which *)
(* the updater's application wrote it, and never any other data.  Like     *)
(* SameVersionSameData this needs one updater that does not restart.       *)
(***************************************************************************)
ReadsInOrder == Ordered!Spec
=============================================================================
