-------------------------- MODULE OrderedBroadcast --------------------------
(***************************************************************************)
(* What the broadcast of one data set promises its readers: a writer       *)
(* writes one value after the other, and every node moves through them     *)
(* forward.  A reader may miss values, and a node that restarts forgets    *)
(* all of them, but no node goes back to an older value, nor does it ever  *)
(* hold a value that was not written.                                      *)
(***************************************************************************)
EXTENDS Naturals, Sequences

CONSTANTS Node, Value, Nothing

VARIABLES
  written,  \* the values, in the order they were written
  seen,     \* how far each node has got in them
  held      \* the value each node holds

vars == <<written, seen, held>>

Init ==
  /\ written = <<>>
  /\ seen = [n \in Node |-> 0]
  /\ held = [n \in Node |-> Nothing]

\* The writer has its own value at once.
Write(n) ==
  /\ \E v \in Value :
       /\ written' = Append(written, v)
       /\ held' = [held EXCEPT ![n] = v]
  /\ seen' = [seen EXCEPT ![n] = Len(written')]

\* A node gets a later value than the one it has.
Get(n) ==
  /\ \E k \in seen[n] + 1 .. Len(written) :
       /\ seen' = [seen EXCEPT ![n] = k]
       /\ held' = [held EXCEPT ![n] = written[k]]
  /\ UNCHANGED written

Forget(n) ==
  /\ seen' = [seen EXCEPT ![n] = 0]
  /\ held' = [held EXCEPT ![n] = Nothing]
  /\ UNCHANGED written

Next == \E n \in Node : Write(n) \/ Get(n) \/ Forget(n)

Spec == Init /\ [][Next]_vars
=============================================================================
