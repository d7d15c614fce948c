------------------------------- MODULE Powers -------------------------------
(***************************************************************************)
(* Powers, as the shifts of the code use them: x << n is x * Pow(2, n).    *)
(* A recursive function, so that its laws can be proved (PowersProofs).    *)
(***************************************************************************)
EXTENDS Integers

Pow(b, n) ==
  LET power[i \in Nat] == IF i = 0 THEN 1 ELSE b * power[i - 1]
  IN  power[n]
=============================================================================
