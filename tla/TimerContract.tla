--------------------------- MODULE TimerContract ----------------------------
(***************************************************************************)
(* What a trickle timer promises to the protocol that uses it, without     *)
(* time: in every interval the callback that the protocol has given is     *)
(* made once, then the next and longer interval follows; an inconsistency  *)
(* goes back to the shortest interval but never restarts it; and a stopped *)
(* timer is silent until it is started again.                              *)
(***************************************************************************)
VARIABLES
  mode,    \* "stopped", "waiting" for the callback, or "called"
  atMin,   \* the interval is the shortest one
  bound,   \* the protocol has given its callback
  calling  \* the last step made the callback

tvars == <<mode, atMin, bound, calling>>

Init == mode = "stopped" /\ atMin = FALSE /\ bound = FALSE /\ calling = FALSE

Halted == mode' = "stopped" /\ atMin' = FALSE

Silent == calling' = FALSE /\ UNCHANGED bound

\* The callback is made, if there is one; it may stop its own timer.
CallBack ==
  /\ mode = "waiting"
  /\ calling' = bound /\ UNCHANGED bound
  /\ \/ mode' = "called" /\ UNCHANGED atMin
     \/ bound /\ Halted

\* When Imax is Imin, every interval is the shortest.
NextInterval ==
  mode = "called" /\ mode' = "waiting" /\ atMin' \in {FALSE, atMin} /\ Silent

\* Start or resume with a random interval.
Start ==
  /\ mode = "stopped" /\ mode' = "waiting" /\ atMin' \in BOOLEAN
  /\ bound' = TRUE /\ calling' = FALSE

\* Inconsistency or local update, which start a stopped timer too.
Reset == atMin = FALSE /\ mode' = "waiting" /\ atMin' = TRUE /\ Silent

Halt == Halted /\ Silent

\* The callback has returned.
Return == UNCHANGED <<mode, atMin>> /\ Silent

Next == CallBack \/ NextInterval \/ Start \/ Reset \/ Halt \/ Return

Safety == Init /\ [][Next]_tvars

\* The callback and the next interval are never put off for ever.
Fairness == WF_tvars(CallBack) /\ WF_tvars(NextInterval)

Spec == Safety /\ Fairness
=============================================================================
