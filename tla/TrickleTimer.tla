---------------------------- MODULE TrickleTimer ----------------------------
(***************************************************************************)
(* One trickle timer of mtk_broadcast/mtk_trickle_timer.c, driven by the   *)
(* tick counter of the platform and by the ctimer it owns.                 *)
(*                                                                         *)
(* Time is the free-running counter clock_time(), which wraps around: all  *)
(* sums and differences of ticks are those of the unsigned clock_time_t.   *)
(* The ctimer counts down to its callback and may run it late, by at most  *)
(* MaxLate ticks, when the event loop is busy.  clock_time_t, the timer's  *)
(* configuration and its arithmetic are those of TrickleConfig.            *)
(***************************************************************************)
EXTENDS Integers, TrickleConfig

CONSTANTS
  Imins, Imaxs, Ks,  \* arguments mtk_trickle_timer_config is called with
  CMax               \* value at which the consistency counter saturates (0xFF)

\* Imax + 1 is below the width: C does not define longer shifts.
ASSUME ArgumentsAssumption ==
  /\ Imins \subseteq 0 .. ClockMod - 1
  /\ Imaxs \subseteq 0 .. Width - 2
  /\ Ks \subseteq 0 .. CMax
  /\ CMax \in Nat \ {0}

VARIABLES
  build,    \* compensate_drift: MTK_TRICKLE_TIMER_COMPENSATE_DRIFT; generic: the
            \* flavour of max_imax; both fixed in a build
  cfg,      \* i_min, i_max, i_max_abs and k: what config has accepted
  cb,       \* the protocol's callback is known; it is NULL before the first set
  clock,    \* clock_time()
  i_cur,    \* current interval, 0 when the timer is stopped
  i_start,  \* absolute start of the current interval
  c,        \* consistency counter
  ct,       \* the ctimer: its callback and the ticks left (negative: overdue)
  call      \* argument of the protocol callback in the last step, if it ran

vars == <<build, cfg, cb, clock, i_cur, i_start, c, ct, call>>

Ticks == 0 .. ClockMod - 1
Stopped == 0
InfiniteRedundancy == 0
Running == i_cur # Stopped
Calls == {"none", "tx_ok", "tx_suppress"}

\* Unsigned addition and subtraction of tick counts.
Plus(a, b) == IF a + b >= ClockMod THEN a + b - ClockMod ELSE a + b
Minus(a, b) == IF a >= b THEN a - b ELSE a - b + ClockMod

\* Mutant: the test for the past is forgotten, and a short overrun waits for
\* the whole clock to wrap around.
InFutureUnchecked(d) == d

\* A difference above half the clock is a moment in the past: schedule in 0.
InFuture(d) == IF d > HalfMax THEN 0 ELSE d

IntervalEnd == Plus(i_start, i_cur)

\* The random points t in [I/2, I) that get_t can return.
GetT(i) == i \div 2 .. 2 * (i \div 2) - 1

TxAllow == cfg.k = InfiniteRedundancy \/ c < cfg.k

(***************************************************************************)
(* A callback is late by at most the shortest interval, or by half of the  *)
(* only one.  That is late enough for an interval to end, and for the      *)
(* transmission point of the next one to pass, before it has run.          *)
(***************************************************************************)
MaxLate ==
  IF 2 * cfg.i_min <= cfg.i_max_abs THEN cfg.i_min ELSE cfg.i_max_abs \div 2

-----------------------------------------------------------------------------
CtimerSet(ticks, callback) == ct' = [cb |-> callback, left |-> ticks]

CtimerStop == ct' = [cb |-> "none", left |-> 0]

\* Timers are static: all zero until they are configured.
Init ==
  /\ build \in [compensate_drift : BOOLEAN, generic : BOOLEAN]
  /\ cb = FALSE
  /\ cfg = [i_min |-> 0, i_max |-> 0, i_max_abs |-> 0, k |-> 0]
  /\ clock \in Ticks
  /\ i_cur = Stopped
  /\ i_start = 0
  /\ c = 0
  /\ ct = [cb |-> "none", left |-> 0]
  /\ call = "none"

(***************************************************************************)
(* A tick of the clock.  An armed ctimer is never delayed beyond MaxLate.  *)
(***************************************************************************)
Tick ==
  /\ ct.cb # "none" => ct.left > -MaxLate
  /\ clock' = Plus(clock, 1)
  /\ ct' = IF ct.cb = "none" THEN ct ELSE [ct EXCEPT !.left = @ - 1]
  /\ call' = "none"
  /\ UNCHANGED <<build, cfg, cb, i_cur, i_start, c>>

(***************************************************************************)
(* A timer is configured before it is set, or set again after it was       *)
(* stopped.  Arguments that are rejected leave the old configuration.      *)
(***************************************************************************)
Config(i_min, i_max, k) ==
  /\ ~Running
  /\ cfg' = IF Accepts(i_min, i_max, k)
            THEN [i_min |-> i_min, i_max |-> Doublings(build.generic, i_min, i_max),
                  i_max_abs |-> Longest(build.generic, i_min, i_max), k |-> k]
            ELSE cfg
  /\ call' = "none"
  /\ UNCHANGED <<build, cb, clock, i_cur, i_start, c, ct>>

\* A new interval of length i, from now.
NewInterval(i) ==
  /\ i_cur' = i
  /\ c' = 0
  /\ \E t \in GetT(i) : CtimerSet(t, "fire")
  /\ i_start' = clock

\* Mutant: the wrong callback is armed, and made again in the same interval.
ScheduleForEndAsFire ==
  CtimerSet(InFuture(Minus(IntervalEnd, clock)), "fire")

ScheduleForEnd ==
  CtimerSet(InFuture(Minus(IntervalEnd, clock)), "double_interval")

\* Without a callback nobody is told.
Announce ==
  call' = IF ~cb THEN "none" ELSE IF TxAllow THEN "tx_ok" ELSE "tx_suppress"

\* Mutant: the end is scheduled even when the callback stopped the timer.
FireAlwaysSchedules ==
  /\ ct.cb = "fire" /\ ct.left <= 0
  /\ Announce
  /\ ScheduleForEnd
  /\ i_cur' \in {i_cur, Stopped}
  /\ UNCHANGED <<build, cfg, cb, clock, i_start, c>>

(***************************************************************************)
(* The ctimer callback at time t of the interval: the protocol, if it has  *)
(* given its callback, is told whether to transmit; then the end of the    *)
(* interval is scheduled, unless the callback stopped the timer.           *)
(***************************************************************************)
Fire ==
  /\ ct.cb = "fire" /\ ct.left <= 0
  /\ Announce
  /\ \/ ScheduleForEnd /\ UNCHANGED i_cur
     \/ cb /\ CtimerStop /\ i_cur' = Stopped
  /\ UNCHANGED <<build, cfg, cb, clock, i_start, c>>

\* Mutant: the interval is doubled without regard to Imax.
NextIntervalUncapped == 2 * i_cur

\* Mutant: an interval above Imax/2 that is not Imax stays as it is.
NextIntervalStuck == IF i_cur <= cfg.i_max_abs \div 2 THEN 2 * i_cur ELSE i_cur

NextInterval ==
  IF i_cur <= cfg.i_max_abs \div 2 THEN 2 * i_cur ELSE cfg.i_max_abs

\* Mutant: t is counted from now, although the interval starts earlier.
DoubleIntervalFromNow ==
  /\ ct.cb = "double_interval" /\ ct.left <= 0
  /\ i_cur' = NextInterval
  /\ c' = 0
  /\ \E t \in GetT(NextInterval) : CtimerSet(t, "fire")
  /\ i_start' = IntervalEnd
  /\ call' = "none"
  /\ UNCHANGED <<build, cfg, cb, clock>>

(***************************************************************************)
(* The ctimer callback at the end of the interval.  With drift             *)
(* compensation the next interval starts where the last one ended, even    *)
(* when this callback runs late.                                           *)
(***************************************************************************)
DoubleInterval ==
  /\ ct.cb = "double_interval" /\ ct.left <= 0
  /\ i_cur' = NextInterval
  /\ c' = 0
  /\ \E t \in GetT(NextInterval) :
       IF build.compensate_drift
       THEN /\ CtimerSet(InFuture(Minus(Plus(IntervalEnd, t), clock)), "fire")
            /\ i_start' = IntervalEnd
       ELSE /\ CtimerSet(t, "fire")
            /\ i_start' = clock
  /\ call' = "none"
  /\ UNCHANGED <<build, cfg, cb, clock>>

\* A consistent message was heard; the caller discards those of a paused timer.
Consistency ==
  /\ Running
  /\ c' = IF c < CMax THEN c + 1 ELSE c
  /\ call' = "none"
  /\ UNCHANGED <<build, cfg, cb, clock, i_cur, i_start, ct>>

\* Mutant: every inconsistency starts a new interval, at Imin too.
InconsistencyAlways ==
  /\ NewInterval(cfg.i_min)
  /\ call' = "none"
  /\ UNCHANGED <<build, cfg, cb, clock>>

(***************************************************************************)
(* An inconsistent message was heard, or the data was updated locally.     *)
(* Nothing happens at Imin.  The update path does not ask whether the      *)
(* timer is stopped, so this action starts a stopped timer, also one that  *)
(* was configured and never set.                                           *)
(***************************************************************************)
Inconsistency ==
  /\ i_cur # cfg.i_min
  /\ NewInterval(cfg.i_min)
  /\ call' = "none"
  /\ UNCHANGED <<build, cfg, cb, clock>>

\* Start or resume a configured timer with a random interval; callers do so
\* when it is stopped.
Set ==
  /\ ~Running /\ cfg.i_min # 0
  /\ cb' = TRUE
  /\ \E i \in cfg.i_min .. cfg.i_max_abs : NewInterval(i)
  /\ call' = "none"
  /\ UNCHANGED <<build, cfg, clock>>

Stop ==
  /\ CtimerStop
  /\ i_cur' = Stopped
  /\ call' = "none"
  /\ UNCHANGED <<build, cfg, cb, clock, i_start, c>>

Next ==
  \/ \E i_min \in Imins, i_max \in Imaxs, k \in Ks : Config(i_min, i_max, k)
  \/ Tick \/ Fire \/ DoubleInterval
  \/ Consistency \/ Inconsistency \/ Set \/ Stop

Spec == Init /\ [][Next]_vars

(***************************************************************************)
(* The clock runs and the event loop runs the callbacks that are due.      *)
(* Nothing is assumed of the network or the application.                   *)
(***************************************************************************)
Fairness == WF_vars(Tick) /\ WF_vars(Fire) /\ WF_vars(DoubleInterval)

FairSpec == Spec /\ Fairness

-----------------------------------------------------------------------------
TypeOK ==
  /\ clock \in Ticks /\ i_start \in Ticks
  /\ build \in [compensate_drift : BOOLEAN, generic : BOOLEAN]
  /\ cb \in BOOLEAN
  /\ cfg \in [i_min : Ticks, i_max : 0 .. Width, i_max_abs : Ticks, k : 0 .. CMax]
  /\ i_cur \in {Stopped} \cup cfg.i_min .. cfg.i_max_abs
  /\ c \in 0 .. CMax
  /\ ct \in [cb : {"none", "fire", "double_interval"}, left : -MaxLate .. cfg.i_max_abs]
  /\ call \in Calls

(***************************************************************************)
(* A running timer always has a callback to come and a stopped one has     *)
(* none: no path through the callbacks, the resets and stop loses the      *)
(* ctimer of a running timer or leaves one behind.                         *)
(***************************************************************************)
ArmedIffRunning == Running <=> ct.cb # "none"

Elapsed == Minus(clock, i_start)

(***************************************************************************)
(* The callback is due within [I/2, I) of the interval it belongs to, also *)
(* when drift compensation back-dated the interval's start, when that      *)
(* point had already passed, and when the clock wraps around in between.   *)
(***************************************************************************)
FireInWindow == ct.cb = "fire" => Elapsed + ct.left \in i_cur \div 2 .. i_cur - 1

(***************************************************************************)
(* The interval ends at I; when the callback at t ran too late for that,   *)
(* as soon as possible, never a clock period later.                        *)
(***************************************************************************)
EndOnTime ==
  ct.cb = "double_interval" =>
    /\ Elapsed + ct.left >= i_cur
    /\ Elapsed + ct.left = i_cur \/ Elapsed + ct.left < i_cur + MaxLate

(***************************************************************************)
(* An Imin and Imax whose interval fits half the clock are kept; of a pair *)
(* that does not fit, Imax is lowered to the largest that does, so that    *)
(* one doubling more would take the end of an interval for the past.  The  *)
(* flavours for one width may lose one doubling more, and never a second:  *)
(* the longest interval is a quarter of the clock at least.                *)
(***************************************************************************)
ImaxIsLargest ==
  \A i_min \in Imins, i_max \in Imaxs, k \in Ks :
    Config(i_min, i_max, k) /\ Accepts(i_min, i_max, k) =>
      /\ 2 * cfg'.i_max_abs <= ClockMod
      /\ IF 2 * (i_min * Pow(2, i_max)) <= ClockMod
         THEN cfg'.i_max_abs = i_min * Pow(2, i_max)
         ELSE IF build.generic
              THEN 4 * cfg'.i_max_abs > ClockMod
              ELSE 4 * cfg'.i_max_abs >= ClockMod

AdjustsImax == [][ImaxIsLargest]_cfg

(***************************************************************************)
(* A running timer calls a protocol that has set it sooner or later,       *)
(* however many inconsistent messages arrive: at Imin they do not restart  *)
(* the interval.                                                           *)
(***************************************************************************)
CallsBack == Running /\ cb ~> (call # "none" \/ ~Running)

Undisturbed == ~Inconsistency /\ ~Set /\ ~Stop

(***************************************************************************)
(* Once left alone, a running timer reaches its longest interval and stays *)
(* there, whatever interval set or the last inconsistency chose.           *)
(***************************************************************************)
SlowsDown == <>[][Undisturbed]_vars => <>[](i_cur \in {Stopped, cfg.i_max_abs})

(***************************************************************************)
(* The timer keeps the contract its users build on: one callback in every  *)
(* interval, none while stopped or before the first set, no interval       *)
(* restarted at Imin, so that no flood of inconsistencies puts the         *)
(* callback off for ever.                                                  *)
(***************************************************************************)
Mode ==
  CASE ct.cb = "none" -> "stopped"
    [] ct.cb = "fire" -> "waiting"
    [] OTHER -> "called"

AtMin == Running /\ i_cur = cfg.i_min

Contract == INSTANCE TimerContract WITH
  mode <- Mode, atMin <- AtMin, bound <- cb, calling <- call # "none"
KeepsContract == Contract!Spec

(***************************************************************************)
(* mtk_trickle_timer.h:64-65: a callback whose transmission is suppressed  *)
(* is not made at all.  The code makes it and passes the flag.             *)
(***************************************************************************)
SuppressedNotCalled == call # "tx_suppress"
=============================================================================
