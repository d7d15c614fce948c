---------------------------- MODULE TrickleConfig ----------------------------
(***************************************************************************)
(* The arithmetic of mtk_trickle_timer_config: which Imin and Imax it      *)
(* accepts, and the Imax it puts in the place of one that is too large for *)
(* the clock.  clock_time_t has Width bits.  generic says which flavour of *)
(* max_imax is built: MAX_IMAX_GENERIC, or the one of the clock's width.   *)
(***************************************************************************)
EXTENDS Powers

CONSTANTS
  Width,    \* number of bits of clock_time_t
  ClockMod  \* number of values of clock_time_t

ASSUME ClockAssumption ==
  /\ Width \in {4, 8, 16, 32}
  /\ ClockMod \in Nat /\ ClockMod = Pow(2, Width)

\* MTK_TRICKLE_TIMER_CLOCK_MAX >> 1; more than that is a moment in the past.
HalfMax == (ClockMod - 1) \div 2

Shl(x, n) == (x * Pow(2, n)) % ClockMod
Shr(x, n) == x \div Pow(2, n)

IminIsBad(i_min) == i_min < 2 \/ i_min > HalfMax

IpairIsBad(i_min, i_max) == Shr(ClockMod - 1, i_max + 1) < i_min - 1

(***************************************************************************)
(* One step of counting the leading zeros: when the upper i bits are       *)
(* clear, they are counted and shifted out.                                *)
(***************************************************************************)
ShiftOut(i, s) ==
  IF i < Width /\ s.value < Pow(2, Width - i)
  THEN [zeros |-> s.zeros + i, value |-> Shl(s.value, i)]
  ELSE s

LeadingZeros(value) ==
  ShiftOut(1, ShiftOut(2, ShiftOut(4, ShiftOut(8, ShiftOut(16,
    [zeros |-> 0, value |-> value]))))).zeros

\* Mutant: the generic flavour without its decrement.
MaxImaxUndecremented(generic, i_min) == LeadingZeros(i_min) - 1

\* The flavours for one width do not decrement the value first.
MaxImax(generic, i_min) == LeadingZeros(IF generic THEN i_min - 1 ELSE i_min) - 1

Accepts(i_min, i_max, k) == ~IminIsBad(i_min) /\ i_max # 0 /\ k # 0

\* The number of doublings that a timer is configured with.
Doublings(generic, i_min, i_max) ==
  IF IpairIsBad(i_min, i_max) THEN MaxImax(generic, i_min) ELSE i_max

Longest(generic, i_min, i_max) == Shl(i_min, Doublings(generic, i_min, i_max))
=============================================================================
