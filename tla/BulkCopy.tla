------------------------------ MODULE BulkCopy ------------------------------
(***************************************************************************)
(* What bulk data collection promises the receiving application: the       *)
(* pieces of one packet at a time are copied, each once and each the piece *)
(* of that packet; the packet is handed over when it is whole and never    *)
(* otherwise; a copy may be given up at any time.                          *)
(***************************************************************************)
CONSTANTS Source, Pieces, None

VARIABLES source,  \* the packet being copied, None when there is none
          copied,  \* the pieces it has so far
          got      \* the packets handed over

vars == <<source, copied, got>>

Init == source = None /\ copied = {} /\ got = {}

\* A new copy; one that is running is given up.
Begin(p) == source' = p /\ copied' = {} /\ UNCHANGED got

Copy(i) ==
  /\ source # None /\ i \in Pieces[source] \ copied
  /\ IF copied \cup {i} = Pieces[source]
     THEN source' = None /\ copied' = {} /\ got' = got \cup {source}
     ELSE copied' = copied \cup {i} /\ UNCHANGED <<source, got>>

GiveUp == source # None /\ source' = None /\ copied' = {} /\ UNCHANGED got

Next ==
  \/ \E p \in Source : Begin(p)
  \/ source # None /\ \E i \in Pieces[source] : Copy(i)
  \/ GiveUp

Spec == Init /\ [][Next]_vars
=============================================================================
