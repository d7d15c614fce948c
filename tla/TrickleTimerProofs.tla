------------------------ MODULE TrickleTimerProofs --------------------------
(***************************************************************************)
(* The safety of the trickle timer for every clock width, both builds, and *)
(* every configuration that mtk_trickle_timer_config accepts or adjusts.   *)
(***************************************************************************)
EXTENDS TrickleTimer, TrickleConfigProofs, TLAPS

-----------------------------------------------------------------------------
(***************************************************************************)
(* Arithmetic of wrapping tick counts, for the code's clock_time_t sums.   *)
(***************************************************************************)

\* Sums and differences of ticks are ticks: clock_time_t never overflows.
LEMMA TickArithmetic ==
  ASSUME NEW a \in Ticks, NEW b \in Ticks
  PROVE  Plus(a, b) \in Ticks /\ Minus(a, b) \in Ticks
BY ClockAssumption DEF Plus, Minus, Ticks

\* One tick of the clock makes the time since s one tick longer.
LEMMA ElapsedTick ==
  ASSUME NEW s \in Ticks, NEW x \in Ticks, Minus(x, s) + 1 < ClockMod
  PROVE  Minus(Plus(x, 1), s) = Minus(x, s) + 1
BY ClockAssumption DEF Plus, Minus, Ticks

\* Moving the start forward by d ticks shortens the time since it by d.
LEMMA ElapsedShift ==
  ASSUME NEW s \in Ticks, NEW x \in Ticks, NEW d \in Ticks, d <= Minus(x, s)
  PROVE  Minus(x, Plus(s, d)) = Minus(x, s) - d
BY ClockAssumption DEF Plus, Minus, Ticks

\* The time from x to the point d ticks after s, before the test for the past.
LEMMA RemainingWraps ==
  ASSUME NEW s \in Ticks, NEW x \in Ticks, NEW d \in Ticks
  PROVE  Minus(Plus(s, d), x) =
           IF d >= Minus(x, s) THEN d - Minus(x, s) ELSE d - Minus(x, s) + ClockMod
BY ClockAssumption DEF Plus, Minus, Ticks

(***************************************************************************)
(* The code's test tells a point to come from one that has passed, as long *)
(* as neither is half a clock period away.                                 *)
(***************************************************************************)
LEMMA Remaining ==
  ASSUME NEW s \in Ticks, NEW x \in Ticks, NEW d \in Ticks,
         2 * (d - Minus(x, s)) < ClockMod, 2 * (Minus(x, s) - d) < ClockMod
  PROVE  InFuture(Minus(Plus(s, d), x)) =
           IF d >= Minus(x, s) THEN d - Minus(x, s) ELSE 0
<1>1. Minus(x, s) \in Int
  BY TickArithmetic DEF Ticks
<1> QED
  BY <1>1, RemainingWraps, ClockAssumption DEF InFuture, HalfMax, Ticks

\* The random point of an interval of at least Imin lies in its second half.
LEMMA GetTRange ==
  ASSUME NEW i \in Nat, i >= 2, 2 * i <= ClockMod, NEW t \in GetT(i)
  PROVE  t \in i \div 2 .. i - 1 /\ t \in Ticks /\ 2 * t < ClockMod
BY ClockAssumption DEF GetT, Ticks

-----------------------------------------------------------------------------
(***************************************************************************)
(* The inductive invariant.  TypeOK alone is not inductive: that the ticks *)
(* left of an armed ctimer stay in range needs to know where it points in  *)
(* the interval, and that intervals are short enough for the clock is what *)
(* config has seen to.                                                     *)
(***************************************************************************)
Configured ==
  \/ cfg.i_min = 0 /\ cfg.i_max_abs = 0
  \/ 2 <= cfg.i_min /\ cfg.i_min <= cfg.i_max_abs /\ 2 * cfg.i_max_abs <= ClockMod

Idle == ct.cb = "none" => ct.left = 0

IInv ==
  /\ TypeOK /\ Configured /\ Idle
  /\ ArmedIffRunning /\ FireInWindow /\ EndOnTime

\* The configuration bounds the intervals and the lateness.
LEMMA ConfigRange ==
  ASSUME IInv
  PROVE  /\ cfg.i_min \in Nat /\ cfg.i_max_abs \in Nat
         /\ cfg.i_min <= cfg.i_max_abs /\ 2 * cfg.i_max_abs <= ClockMod
         /\ MaxLate \in Nat /\ MaxLate <= cfg.i_min /\ 2 * MaxLate <= cfg.i_max_abs
         /\ i_cur # 0 => i_cur \in cfg.i_min .. cfg.i_max_abs /\ cfg.i_min >= 2
<1>1. cfg.i_min \in Nat /\ cfg.i_max_abs \in Nat
  BY DEF IInv, TypeOK, Ticks
<1>2. cfg.i_min <= cfg.i_max_abs /\ 2 * cfg.i_max_abs <= ClockMod
  BY <1>1, ClockAssumption DEF IInv, Configured
<1>3. MaxLate \in Nat /\ MaxLate <= cfg.i_min /\ 2 * MaxLate <= cfg.i_max_abs
  BY <1>1, <1>2 DEF MaxLate
<1>4. i_cur # 0 => i_cur \in cfg.i_min .. cfg.i_max_abs /\ cfg.i_min >= 2
  BY <1>1 DEF IInv, TypeOK, Configured, Stopped
<1> QED
  BY <1>1, <1>2, <1>3, <1>4

\* An armed timer is never so late that the elapsed time wraps around.
LEMMA ElapsedBound ==
  ASSUME IInv
  PROVE  /\ Elapsed \in Ticks
         /\ ct.left \in -MaxLate .. cfg.i_max_abs
         /\ ct.cb # "none" => /\ i_cur \in cfg.i_min .. cfg.i_max_abs
                             /\ cfg.i_min >= 2
                             /\ Elapsed + ct.left >= i_cur \div 2
                             /\ \/ Elapsed + ct.left = i_cur
                                \/ Elapsed + ct.left < i_cur + MaxLate
                                \/ Elapsed + ct.left < i_cur
<1>1. Elapsed \in Ticks
  BY TickArithmetic DEF IInv, TypeOK, Elapsed
<1>2. ct.left \in -MaxLate .. cfg.i_max_abs /\ i_cur \in {Stopped} \cup cfg.i_min .. cfg.i_max_abs
  BY DEF IInv, TypeOK
<1>3. ct.cb \in {"none", "fire", "double_interval"}
  BY DEF IInv, TypeOK
<1>4. ASSUME ct.cb # "none"
      PROVE  i_cur \in cfg.i_min .. cfg.i_max_abs /\ cfg.i_min >= 2 /\ i_cur \in Nat
  BY <1>4, ConfigRange DEF IInv, ArmedIffRunning, Running, Stopped
<1>5. CASE ct.cb = "fire"
  <2>1. Elapsed + ct.left \in i_cur \div 2 .. i_cur - 1
    BY <1>5 DEF IInv, FireInWindow
  <2>2. Elapsed + ct.left >= i_cur \div 2 /\ Elapsed + ct.left < i_cur
    BY <1>1, <1>2, <1>4, <1>5, <2>1 DEF Ticks
  <2> QED
    BY <1>1, <1>2, <1>4, <1>5, <2>2
<1>6. CASE ct.cb = "double_interval"
  <2>1. /\ Elapsed + ct.left >= i_cur
        /\ Elapsed + ct.left = i_cur \/ Elapsed + ct.left < i_cur + MaxLate
    BY <1>6 DEF IInv, EndOnTime
  <2>2. Elapsed + ct.left >= i_cur \div 2
    BY <1>1, <1>2, <1>4, <1>6, <2>1, ConfigRange DEF Ticks
  <2> QED
    BY <1>1, <1>2, <1>4, <1>6, <2>1, <2>2
<1> QED
  BY <1>1, <1>2, <1>3, <1>5, <1>6

\* At the start nothing is armed and nothing configured.
LEMMA InitIInv == Init => IInv
<1> SUFFICES ASSUME Init PROVE IInv
  OBVIOUS
<1>1. MaxLate = 0
  BY DEF Init, MaxLate
<1>2. TypeOK
  <2>1. build \in [compensate_drift : BOOLEAN, generic : BOOLEAN] /\ cb \in BOOLEAN
    BY DEF Init
  <2>2. /\ clock \in Ticks /\ i_start \in Ticks
        /\ cfg \in [i_min : Ticks, i_max : 0 .. Width, i_max_abs : Ticks, k : 0 .. CMax]
        /\ i_cur \in {Stopped} \cup cfg.i_min .. cfg.i_max_abs
    BY ClockAssumption, ArgumentsAssumption DEF Init, Stopped, Ticks
  <2>3. /\ c \in 0 .. CMax
        /\ ct \in [cb : {"none", "fire", "double_interval"}, left : -MaxLate .. cfg.i_max_abs]
        /\ call \in Calls
    BY <1>1, ArgumentsAssumption DEF Init, Calls
  <2> QED
    BY <2>1, <2>2, <2>3 DEF TypeOK
<1> QED
  BY <1>2 DEF Init, IInv, Configured, Idle, ArmedIffRunning, FireInWindow, EndOnTime, Running

-----------------------------------------------------------------------------
\* Every step keeps the invariant, one action at a time.

\* What a step that does not configure the timer takes over unchanged.
LEMMA SameConfig ==
  ASSUME IInv, UNCHANGED <<build, cfg>>
  PROVE  /\ MaxLate' = MaxLate /\ Configured'
         /\ build' \in [compensate_drift : BOOLEAN, generic : BOOLEAN]
         /\ cfg' \in [i_min : Ticks, i_max : 0 .. Width, i_max_abs : Ticks, k : 0 .. CMax]
BY DEF IInv, TypeOK, Configured, MaxLate

LEMMA TickIInv == IInv /\ Tick => IInv'
<1> SUFFICES ASSUME IInv, Tick PROVE IInv'
  OBVIOUS
<1>1. clock' \in Ticks /\ i_start \in Ticks
  BY TickArithmetic, ClockHalves, ClockAssumption DEF IInv, TypeOK, Tick, Ticks
<1>2. MaxLate' = MaxLate /\ Configured' /\ UNCHANGED cfg
  BY SameConfig DEF Tick
<1>3. CASE ct.cb = "none"
  <2>1. TypeOK'
    BY <1>1, <1>2, <1>3, SameConfig DEF IInv, TypeOK, Tick, Calls
  <2>2. Idle' /\ ArmedIffRunning' /\ FireInWindow' /\ EndOnTime'
    BY <1>3 DEF IInv, Idle, ArmedIffRunning, FireInWindow, EndOnTime, Running, Tick
  <2> QED
    BY <1>2, <2>1, <2>2 DEF IInv
<1>4. CASE ct.cb # "none"
  <2>1. Elapsed + 1 < ClockMod
    BY <1>4, ElapsedBound, ClockAssumption, ConfigRange DEF Tick, Ticks
  <2>2. Elapsed' = Elapsed + 1
    BY <2>1, ElapsedTick DEF Elapsed, Tick, IInv, TypeOK
  <2>3. ct'.left = ct.left - 1 /\ ct'.cb = ct.cb
    BY <1>4 DEF Tick, IInv, TypeOK
  <2>4. ct' \in [cb : {"none", "fire", "double_interval"}, left : -MaxLate .. cfg.i_max_abs]
    BY <1>4, ElapsedBound, ClockAssumption, ConfigRange DEF Tick, IInv, TypeOK
  <2>5. TypeOK'
    BY <1>1, <1>2, <2>4, SameConfig DEF Tick, IInv, TypeOK, Calls
  <2>6. ArmedIffRunning' /\ Idle'
    BY <1>4, <2>3 DEF Tick, IInv, ArmedIffRunning, Running, Idle
  <2>7. Elapsed' + ct'.left = Elapsed + ct.left
    BY <2>2, <2>3, ElapsedBound, ClockAssumption, ConfigRange DEF Ticks
  <2>8. FireInWindow'
    BY <2>3, <2>7 DEF Tick, IInv, FireInWindow
  <2>9. EndOnTime'
    BY <1>2, <2>3, <2>7 DEF Tick, IInv, EndOnTime
  <2> QED
    BY <1>2, <2>5, <2>6, <2>8, <2>9 DEF IInv
<1> QED
  BY <1>3, <1>4

\* Stopping the timer, from the outside or in its own callback.
LEMMA StoppedIInv ==
  ASSUME IInv, CtimerStop, i_cur' = Stopped, call' \in Calls,
         UNCHANGED <<build, cfg, cb, clock, i_start, c>>
  PROVE  IInv'
<1>1. 0 \in -MaxLate .. cfg.i_max_abs
  BY ConfigRange
<1>2. TypeOK'
  BY <1>1, SameConfig DEF IInv, TypeOK, CtimerStop
<1>3. Idle' /\ ArmedIffRunning' /\ FireInWindow' /\ EndOnTime'
  BY DEF Idle, ArmedIffRunning, FireInWindow, EndOnTime, Running, CtimerStop
<1> QED
  BY <1>2, <1>3, SameConfig DEF IInv

LEMMA FireIInv == IInv /\ Fire => IInv'
<1> SUFFICES ASSUME IInv, Fire PROVE IInv'
  OBVIOUS
<1>1. call' \in Calls /\ UNCHANGED <<build, cfg, cb, clock, i_start, c>>
  BY DEF Fire, Announce, Calls
<1>2. CASE CtimerStop /\ i_cur' = Stopped
  BY <1>1, <1>2, StoppedIInv
<1>3. CASE ScheduleForEnd /\ UNCHANGED i_cur
  <2>1. i_cur \in cfg.i_min .. cfg.i_max_abs /\ i_cur \in Ticks /\ Elapsed \in Ticks
    BY ElapsedBound, ConfigRange, ClockAssumption DEF Fire, Ticks
  <2>2. /\ Elapsed + ct.left \in i_cur \div 2 .. i_cur - 1
        /\ ct.left \in -MaxLate .. 0
    BY ElapsedBound, ConfigRange DEF Fire, IInv, FireInWindow
  <2>3. InFuture(Minus(IntervalEnd, clock)) = IF i_cur >= Elapsed THEN i_cur - Elapsed ELSE 0
    <3>1. 2 * (i_cur - Elapsed) < ClockMod /\ 2 * (Elapsed - i_cur) < ClockMod
      BY <2>1, <2>2, ClockAssumption, ConfigRange DEF Ticks
    <3> QED
      BY <2>1, <3>1, Remaining DEF IntervalEnd, Elapsed, IInv, TypeOK
  <2> DEFINE left == InFuture(Minus(IntervalEnd, clock))
  <2>4. /\ left \in -MaxLate .. cfg.i_max_abs
        /\ Elapsed + left >= i_cur
        /\ Elapsed + left = i_cur \/ Elapsed + left < i_cur + MaxLate
    BY <2>1, <2>2, <2>3, ConfigRange DEF Ticks
  <2> HIDE DEF left
  <2>5. ct' = [cb |-> "double_interval", left |-> left]
    BY <1>3 DEF ScheduleForEnd, CtimerSet, left
  <2>6. TypeOK'
    BY <1>1, <1>3, <2>4, <2>5, SameConfig DEF IInv, TypeOK
  <2>7. ArmedIffRunning' /\ Idle' /\ FireInWindow'
    BY <1>3, <2>1, <2>5, ConfigRange
       DEF ArmedIffRunning, Running, Stopped, Idle, Fire, FireInWindow, IInv
  <2>8. Elapsed' = Elapsed
    BY DEF Fire, Elapsed
  <2>9. EndOnTime'
    BY <1>3, <2>4, <2>5, <2>8, SameConfig, <1>1 DEF EndOnTime
  <2> QED
    BY <1>1, <2>6, <2>7, <2>9, SameConfig DEF IInv
<1> QED
  BY <1>2, <1>3 DEF Fire

\* The next interval is within the configuration, and outlasts two delays.
LEMMA NextIntervalRange ==
  ASSUME IInv, i_cur \in cfg.i_min .. cfg.i_max_abs
  PROVE  NextInterval \in cfg.i_min .. cfg.i_max_abs /\ NextInterval >= 2 * MaxLate
BY ConfigRange DEF NextInterval

\* A timer that waits for t of the interval i that began e ticks ago, e no more
\* than the lateness of two callbacks, satisfies the invariant.
LEMMA WaitingIInv ==
  ASSUME NEW i \in cfg.i_min .. cfg.i_max_abs, NEW e \in Nat, NEW left \in Nat,
         IInv, cfg.i_min >= 2, UNCHANGED <<build, cfg>>, cb' \in BOOLEAN,
         i_cur' = i, c' = 0, clock' \in Ticks, i_start' \in Ticks, call' = "none",
         ct' = [cb |-> "fire", left |-> left],
         Elapsed' = e, e + left \in i \div 2 .. i - 1
  PROVE  IInv'
<1>1. left \in -MaxLate .. cfg.i_max_abs
  BY ConfigRange
<1>2. 0 \in 0 .. CMax
  BY ArgumentsAssumption
<1>3. TypeOK'
  BY <1>1, <1>2, SameConfig DEF TypeOK, Calls
<1>4. ArmedIffRunning' /\ Idle'
  BY ConfigRange DEF ArmedIffRunning, Running, Stopped, Idle
<1>5. FireInWindow' /\ EndOnTime'
  BY DEF FireInWindow, EndOnTime
<1> QED
  BY <1>3, <1>4, <1>5, SameConfig DEF IInv

LEMMA DoubleIntervalIInv == IInv /\ DoubleInterval => IInv'
<1> SUFFICES ASSUME IInv, DoubleInterval PROVE IInv'
  OBVIOUS
<1>1. i_cur \in cfg.i_min .. cfg.i_max_abs /\ Elapsed \in Ticks /\ cfg.i_min >= 2
  BY ElapsedBound, ConfigRange DEF DoubleInterval
<1>2. NextInterval \in cfg.i_min .. cfg.i_max_abs /\ NextInterval >= 2 * MaxLate
  BY <1>1, NextIntervalRange
<1>3. NextInterval \in Nat /\ NextInterval >= 2 /\ 2 * NextInterval <= ClockMod
  BY <1>1, <1>2, ConfigRange, ClockAssumption
<1> DEFINE e == Elapsed - i_cur
<1>4. /\ e \in Nat
      /\ e = 0 \/ e <= MaxLate \/ e < 2 * MaxLate
  BY <1>1, ElapsedBound, ConfigRange
     DEF IInv, EndOnTime, DoubleInterval, Ticks
<1>5. i_cur \in Ticks /\ clock \in Ticks /\ i_start \in Ticks
  BY <1>1, ConfigRange, ClockAssumption DEF Ticks, IInv, TypeOK
<1>6. IntervalEnd \in Ticks /\ Minus(clock, IntervalEnd) = e
  BY <1>4, <1>5, TickArithmetic, ElapsedShift DEF IntervalEnd, Elapsed, Ticks
<1> HIDE DEF e
<1>7. UNCHANGED <<build, cfg, clock>> /\ cb' \in BOOLEAN /\ c' = 0 /\ call' = "none"
  BY DEF DoubleInterval, IInv, TypeOK
<1>8. PICK t \in GetT(NextInterval) :
        IF build.compensate_drift
        THEN /\ CtimerSet(InFuture(Minus(Plus(IntervalEnd, t), clock)), "fire")
             /\ i_start' = IntervalEnd
        ELSE /\ CtimerSet(t, "fire")
             /\ i_start' = clock
  BY DEF DoubleInterval
<1>9. t \in NextInterval \div 2 .. NextInterval - 1 /\ t \in Ticks /\ 2 * t < ClockMod
  BY <1>3, GetTRange
<1>10. CASE build.compensate_drift
  <2>1. 2 * (t - e) < ClockMod /\ 2 * (e - t) < ClockMod
    BY <1>2, <1>3, <1>4, <1>9, ClockAssumption, ConfigRange DEF Ticks
  <2> DEFINE left == InFuture(Minus(Plus(IntervalEnd, t), clock))
  <2>2. left = IF t >= e THEN t - e ELSE 0
    BY <1>5, <1>6, <1>9, <2>1, Remaining
  <2>3. left \in Nat /\ e + left \in NextInterval \div 2 .. NextInterval - 1
    BY <1>2, <1>3, <1>4, <1>9, <2>2, ConfigRange DEF Ticks
  <2> HIDE DEF left
  <2>4. ct' = [cb |-> "fire", left |-> left] /\ i_start' = IntervalEnd
    BY <1>8, <1>10 DEF CtimerSet, left
  <2>5. Elapsed' = e
    BY <1>6, <2>4 DEF DoubleInterval, Elapsed
  <2> QED
    BY <1>1, <1>2, <1>4, <1>5, <1>6, <2>3, <2>4, <2>5, <1>7, WaitingIInv DEF DoubleInterval
<1>11. CASE ~build.compensate_drift
  <2>1. ct' = [cb |-> "fire", left |-> t] /\ i_start' = clock
    BY <1>8, <1>11 DEF CtimerSet
  <2>2. Elapsed' = 0
    BY <1>5, <2>1 DEF DoubleInterval, Elapsed, Minus, Ticks
  <2>3. t \in Nat /\ 0 \in Nat /\ 0 + t \in NextInterval \div 2 .. NextInterval - 1
    BY <1>3, <1>9 DEF Ticks
  <2>4. clock' \in Ticks /\ i_start' \in Ticks
    BY <1>5, <2>1 DEF DoubleInterval
  <2> QED
    BY <1>1, <1>2, <2>1, <2>2, <2>3, <2>4, <1>7, WaitingIInv DEF DoubleInterval
<1> QED
  BY <1>10, <1>11

\* A new interval of the configured range, whatever the timer did before.
LEMMA NewIntervalIInv ==
  ASSUME IInv, cfg.i_min >= 2, NEW i \in cfg.i_min .. cfg.i_max_abs, NewInterval(i),
         UNCHANGED <<build, cfg, clock>>, cb' \in BOOLEAN, call' = "none"
  PROVE  IInv'
<1>1. PICK t \in GetT(i) : CtimerSet(t, "fire")
  BY DEF NewInterval
<1>2. i \in Nat /\ i >= 2 /\ 2 * i <= ClockMod
  BY ConfigRange, ClockAssumption
<1>3. t \in Nat /\ 0 \in Nat /\ 0 + t \in i \div 2 .. i - 1
  BY <1>2, GetTRange DEF Ticks
<1>4. Elapsed' = 0 /\ clock' \in Ticks /\ i_start' \in Ticks
  BY DEF NewInterval, Elapsed, Minus, IInv, TypeOK, Ticks
<1>5. i_cur' = i /\ c' = 0 /\ ct' = [cb |-> "fire", left |-> t]
  BY <1>1 DEF NewInterval, CtimerSet
<1> QED
  BY <1>3, <1>4, <1>5, WaitingIInv

\* What config accepts, it adjusts to the clock.
LEMMA ConfigIInv ==
  ASSUME IInv, NEW i_min \in Imins, NEW i_max \in Imaxs, NEW k \in Ks,
         Config(i_min, i_max, k)
  PROVE  IInv'
<1>1. ct.cb = "none" /\ ct.left = 0 /\ i_cur = 0
  BY DEF IInv, ArmedIffRunning, Idle, Config, Running, Stopped
<1>2. UNCHANGED <<build, cb, clock, i_cur, i_start, c, ct>> /\ call' \in Calls
  BY DEF Config, Calls
<1>3. CASE ~Accepts(i_min, i_max, k)
  <2>1. UNCHANGED cfg
    BY <1>3 DEF Config
  <2>2. TypeOK'
    BY <1>2, <2>1, SameConfig DEF IInv, TypeOK
  <2>3. Idle' /\ ArmedIffRunning' /\ FireInWindow' /\ EndOnTime'
    BY <1>1, <1>2 DEF IInv, Idle, ArmedIffRunning, FireInWindow, EndOnTime, Running
  <2> QED
    BY <1>2, <2>1, <2>2, <2>3, SameConfig DEF IInv
<1>4. CASE Accepts(i_min, i_max, k)
  <2>1. cfg' = [i_min |-> i_min, i_max |-> Doublings(build.generic, i_min, i_max),
                i_max_abs |-> Longest(build.generic, i_min, i_max), k |-> k]
    BY <1>4 DEF Config
  <2>2. i_min \in Nat /\ i_max \in 0 .. Width - 2 /\ i_min >= 2 /\ build.generic \in BOOLEAN
    BY <1>4, ArgumentsAssumption DEF Accepts, IminIsBad, IInv, TypeOK
  <2>3. /\ Doublings(build.generic, i_min, i_max) \in 0 .. Width
        /\ Longest(build.generic, i_min, i_max) \in Nat
        /\ i_min <= Longest(build.generic, i_min, i_max) /\ 2 * Longest(build.generic, i_min, i_max) <= ClockMod
    BY <1>4, <2>2, ConfigFits, ClockAssumption
  <2>4. cfg' \in [i_min : Ticks, i_max : 0 .. Width, i_max_abs : Ticks, k : 0 .. CMax]
    BY <2>1, <2>2, <2>3, ClockAssumption, ArgumentsAssumption DEF Ticks
  <2>5. Configured'
    BY <2>1, <2>2, <2>3 DEF Configured
  <2>6. MaxLate' \in Nat /\ cfg'.i_max_abs \in Nat
    BY <2>1, <2>2, <2>3 DEF MaxLate
  <2>7. ct' \in [cb : {"none", "fire", "double_interval"}, left : -MaxLate' .. cfg'.i_max_abs]
    BY <1>1, <1>2, <2>6 DEF IInv, TypeOK
  <2>8. TypeOK'
    BY <1>1, <1>2, <2>4, <2>7 DEF IInv, TypeOK, Stopped
  <2>9. Idle' /\ ArmedIffRunning' /\ FireInWindow' /\ EndOnTime'
    BY <1>1, <1>2 DEF IInv, Idle, ArmedIffRunning, FireInWindow, EndOnTime, Running
  <2> QED
    BY <2>5, <2>8, <2>9 DEF IInv
<1> QED
  BY <1>3, <1>4

\* An inconsistency starts an interval of Imin; at Imin, and on a timer that was
\* never configured, it does nothing.
LEMMA InconsistencyIInv == IInv /\ Inconsistency => IInv'
<1> SUFFICES ASSUME IInv, Inconsistency PROVE IInv'
  OBVIOUS
<1>1. cfg.i_min >= 2
  BY ConfigRange DEF Inconsistency, IInv, TypeOK, Configured, Stopped
<1>2. cfg.i_min \in cfg.i_min .. cfg.i_max_abs /\ cb' \in BOOLEAN
  BY ConfigRange DEF Inconsistency, IInv, TypeOK
<1> QED
  BY <1>1, <1>2, NewIntervalIInv DEF Inconsistency

LEMMA NextIInv == IInv /\ [Next]_vars => IInv'
<1> SUFFICES ASSUME IInv, [Next]_vars PROVE IInv'
  OBVIOUS
<1>1. CASE Tick
  BY <1>1, TickIInv
<1>2. CASE Fire
  BY <1>2, FireIInv
<1>3. CASE DoubleInterval
  BY <1>3, DoubleIntervalIInv
<1>4. CASE Consistency
  <2>1. c' \in 0 .. CMax
    BY <1>4, ArgumentsAssumption DEF Consistency, IInv, TypeOK
  <2>2. TypeOK'
    BY <1>4, <2>1, SameConfig DEF Consistency, IInv, TypeOK, Calls
  <2>3. Idle' /\ ArmedIffRunning' /\ FireInWindow' /\ EndOnTime'
    BY <1>4, SameConfig DEF Consistency, IInv, Idle, ArmedIffRunning, FireInWindow,
       EndOnTime, Running, Elapsed
  <2> QED
    BY <1>4, <2>2, <2>3, SameConfig DEF IInv, Consistency
<1>5. CASE Inconsistency
  BY <1>5, InconsistencyIInv
<1>6. CASE Set
  <2>1. cfg.i_min >= 2
    BY <1>6, ConfigRange DEF Set, IInv, Configured
  <2> QED
    BY <1>6, <2>1, NewIntervalIInv DEF Set
<1>7. CASE Stop
  BY <1>7, StoppedIInv DEF Stop, Calls
<1>8. CASE \E i_min \in Imins, i_max \in Imaxs, k \in Ks : Config(i_min, i_max, k)
  BY <1>8, ConfigIInv
<1>9. CASE UNCHANGED vars
  <2>1. TypeOK'
    BY <1>9, SameConfig DEF vars, IInv, TypeOK
  <2>2. Idle' /\ ArmedIffRunning' /\ FireInWindow' /\ EndOnTime'
    BY <1>9, SameConfig DEF vars, IInv, Idle, ArmedIffRunning, FireInWindow, EndOnTime,
       Running, Elapsed
  <2> QED
    BY <1>9, <2>1, <2>2, SameConfig DEF IInv, vars
<1> QED
  BY <1>1, <1>2, <1>3, <1>4, <1>5, <1>6, <1>7, <1>8, <1>9 DEF Next

-----------------------------------------------------------------------------
THEOREM Invariance == Spec => []IInv
BY InitIInv, NextIInv, PTL DEF Spec

(***************************************************************************)
(* Types, for every configuration: an interval is 0 or within [Imin,Imax], *)
(* and the ticks handed to ctimer_set are never a wrapped-around value.    *)
(***************************************************************************)
THEOREM TypeCorrect == Spec => []TypeOK
BY Invariance, PTL DEF IInv

(***************************************************************************)
(* A timer that runs has a callback to come, and one that stopped none.    *)
(***************************************************************************)
THEOREM NeverLost == Spec => []ArmedIffRunning
BY Invariance, PTL DEF IInv

(***************************************************************************)
(* The transmission point lies in the second half of its interval, with    *)
(* and without drift compensation, across every wrap of the clock.         *)
(***************************************************************************)
THEOREM TransmitsInWindow == Spec => []FireInWindow
BY Invariance, PTL DEF IInv

(***************************************************************************)
(* An interval ends on time, or as soon as its late callback has run.      *)
(***************************************************************************)
THEOREM EndsOnTime == Spec => []EndOnTime
BY Invariance, PTL DEF IInv

(***************************************************************************)
(* For every width and every flavour of max_imax, config keeps an Imin and *)
(* Imax that fit the clock and otherwise lowers Imax: to the largest that  *)
(* fits, or in the flavours for one width to one whose interval is still a *)
(* quarter of the clock.                                                   *)
(***************************************************************************)
THEOREM ConfigAdjusts == Spec => AdjustsImax
<1>1. IInv => ImaxIsLargest
  <2> SUFFICES ASSUME IInv, NEW i_min \in Imins, NEW i_max \in Imaxs, NEW k \in Ks,
                      Config(i_min, i_max, k), Accepts(i_min, i_max, k)
               PROVE  /\ 2 * cfg'.i_max_abs <= ClockMod
                      /\ IF 2 * (i_min * Pow(2, i_max)) <= ClockMod
                         THEN cfg'.i_max_abs = i_min * Pow(2, i_max)
                         ELSE IF build.generic
                              THEN 4 * cfg'.i_max_abs > ClockMod
                              ELSE 4 * cfg'.i_max_abs >= ClockMod
    BY DEF ImaxIsLargest
  <2>1. cfg'.i_max_abs = Longest(build.generic, i_min, i_max)
    BY DEF Config
  <2>2. i_min \in Nat /\ i_max \in 0 .. Width - 2 /\ build.generic \in BOOLEAN
    BY ArgumentsAssumption DEF IInv, TypeOK
  <2> QED
    BY <2>1, <2>2, ConfigFits
<1> QED
  BY <1>1, Invariance, PTL DEF AdjustsImax

-----------------------------------------------------------------------------
\* A running timer has been configured.
LEMMA RunningIsConfigured ==
  ASSUME IInv, Running
  PROVE  cfg.i_min \in Nat \ {0} /\ i_cur \in cfg.i_min .. cfg.i_max_abs /\ cfg.i_max_abs \in Nat
BY ConfigRange DEF IInv, TypeOK, Configured, Running, Stopped

\* The last step made the protocol's callback.
Calling == call # "none"

\* Every step of the timer is one that its contract allows.
LEMMA ContractStep == IInv /\ [Next]_vars => [Contract!Next]_<<Mode, AtMin, cb, Calling>>
<1> SUFFICES ASSUME IInv, [Next]_vars PROVE [Contract!Next]_<<Mode, AtMin, cb, Calling>>
  OBVIOUS
<1>1. ASSUME ct'.cb = ct.cb, UNCHANGED <<i_cur, cfg, cb>>, call' = "none"
      PROVE  Contract!Next
  <2>1. Mode' = Mode /\ AtMin' = AtMin
    BY <1>1 DEF Mode, AtMin, Running
  <2> QED
    BY <1>1, <2>1 DEF Contract!Next, Contract!Return, Contract!Silent
<1>2. CASE Fire
  <2>1. Mode = "waiting" /\ cb' = cb /\ (call' # "none") = cb
    BY <1>2 DEF Fire, Announce, Mode, IInv, TypeOK
  <2>2. CASE cb /\ ct'.cb = "none" /\ i_cur' = Stopped
    <3>1. Mode' = "stopped" /\ AtMin' = FALSE
      BY <2>2 DEF Mode, AtMin, Running
    <3> QED
      BY <2>1, <2>2, <3>1 DEF Contract!Next, Contract!CallBack, Contract!Halted
  <2>3. CASE ct'.cb = "double_interval" /\ i_cur' = i_cur /\ cfg' = cfg
    <3>1. Mode' = "called" /\ AtMin' = AtMin
      BY <2>3 DEF Mode, AtMin, Running
    <3> QED
      BY <2>1, <3>1 DEF Contract!Next, Contract!CallBack
  <2> QED
    BY <1>2, <2>2, <2>3 DEF Fire, ScheduleForEnd, CtimerSet, CtimerStop
<1>3. CASE DoubleInterval
  <2>1. Mode = "called" /\ Running
    BY <1>3 DEF DoubleInterval, Mode, IInv, ArmedIffRunning
  <2>2. ct'.cb = "fire" /\ i_cur' = NextInterval /\ cfg' = cfg
    BY <1>3 DEF DoubleInterval, CtimerSet
  <2>3. Mode' = "waiting"
    BY <2>2 DEF Mode
  <2>4. NextInterval = cfg.i_min => i_cur = cfg.i_min
    BY <2>1, RunningIsConfigured DEF NextInterval
  <2>5. AtMin' \in {FALSE, AtMin}
    BY <2>1, <2>2, <2>4 DEF AtMin
  <2>6. Contract!Silent
    BY <1>3 DEF DoubleInterval, Contract!Silent
  <2> QED
    BY <2>1, <2>3, <2>5, <2>6 DEF Contract!Next, Contract!NextInterval
<1>4. CASE Inconsistency
  <2>1. ct'.cb = "fire" /\ i_cur' = cfg.i_min /\ cfg' = cfg /\ i_cur # cfg.i_min
    BY <1>4 DEF Inconsistency, NewInterval, CtimerSet
  <2>2. cfg.i_min # 0
    BY <2>1, RunningIsConfigured DEF IInv, Configured, TypeOK, Running, Stopped
  <2>3. Mode' = "waiting" /\ AtMin = FALSE /\ AtMin' = TRUE
    BY <2>1, <2>2 DEF Mode, AtMin, Running, Stopped
  <2>4. Contract!Silent
    BY <1>4 DEF Inconsistency, Contract!Silent
  <2> QED
    BY <2>3, <2>4 DEF Contract!Next, Contract!Reset
<1>5. CASE Set
  <2>1. ~Running /\ ct'.cb = "fire" /\ cb' = TRUE /\ call' = "none"
    BY <1>5 DEF Set, NewInterval, CtimerSet
  <2>2. Mode = "stopped"
    BY <2>1 DEF IInv, ArmedIffRunning, Mode
  <2>3. Mode' = "waiting" /\ AtMin' \in BOOLEAN
    BY <2>1 DEF Mode, AtMin
  <2> QED
    BY <2>1, <2>2, <2>3 DEF Contract!Next, Contract!Start
<1>6. CASE Stop
  <2>1. Mode' = "stopped" /\ AtMin' = FALSE
    BY <1>6 DEF Stop, CtimerStop, Mode, AtMin, Running
  <2>2. Contract!Silent
    BY <1>6 DEF Stop, Contract!Silent
  <2> QED
    BY <2>1, <2>2 DEF Contract!Next, Contract!Halt, Contract!Halted
<1>7. CASE Tick
  <2>1. ct'.cb = ct.cb
    BY <1>7 DEF Tick
  <2> QED
    BY <1>1, <1>7, <2>1 DEF Tick
<1>8. CASE Consistency
  BY <1>1, <1>8 DEF Consistency
<1>9. ASSUME NEW i_min \in Imins, NEW i_max \in Imaxs, NEW k \in Ks, Config(i_min, i_max, k)
      PROVE  Contract!Next
  <2>1. UNCHANGED <<Mode, AtMin, cb>> /\ call' = "none"
    BY <1>9 DEF Config, Mode, AtMin, Running
  <2> QED
    BY <2>1 DEF Contract!Next, Contract!Return, Contract!Silent
<1>10. CASE UNCHANGED vars
  BY <1>10 DEF vars, Mode, AtMin, Running, Calling
<1> QED
  BY <1>2, <1>3, <1>4, <1>5, <1>6, <1>7, <1>8, <1>9, <1>10 DEF Next

(***************************************************************************)
(* The timer keeps the safety of its contract, for every clock and every   *)
(* configuration: in each interval the callback is made once before the    *)
(* next begins, a stopped timer and one that was never set make none, and  *)
(* at Imin no inconsistency begins a new interval.                         *)
(***************************************************************************)
THEOREM CallsOncePerInterval == Spec => Contract!Safety
<1>1. Init => Contract!Init
  BY DEF Init, Contract!Init, Mode, AtMin, Running
<1>2. IInv /\ [Next]_vars => [Contract!Next]_<<Mode, AtMin, cb, Calling>>
  BY ContractStep
<1> QED
  BY <1>1, <1>2, Invariance, PTL DEF Spec, Contract!Safety, Contract!tvars, Calling

-----------------------------------------------------------------------------
(***************************************************************************)
(* Why a timer that is left alone slows down: every interval it goes on to *)
(* is at least twice as long as the last, or the longest there is, so that *)
(* the longest is reached after as many doublings as there are from Imin.  *)
(***************************************************************************)
Longer ==
  Undisturbed /\ i_cur' # i_cur =>
    \/ i_cur' = Stopped
    \/ /\ i_cur < i_cur' /\ i_cur' <= cfg.i_max_abs
       /\ i_cur' >= 2 * i_cur \/ i_cur' = cfg.i_max_abs

THEOREM IntervalsGrow == Spec => [][Longer]_vars
<1>1. IInv /\ [Next]_vars => [Longer]_vars
  <2> SUFFICES ASSUME IInv, Next, Undisturbed, i_cur' # i_cur
               PROVE  \/ i_cur' = Stopped
                      \/ /\ i_cur < i_cur' /\ i_cur' <= cfg.i_max_abs
                         /\ i_cur' >= 2 * i_cur \/ i_cur' = cfg.i_max_abs
    BY DEF Longer
  <2>1. CASE Fire
    BY <2>1 DEF Fire
  <2>2. CASE DoubleInterval
    <3>1. i_cur' = NextInterval
      BY <2>2 DEF DoubleInterval
    <3>2. Running
      BY <2>2 DEF DoubleInterval, IInv, ArmedIffRunning
    <3>3. i_cur \in Nat /\ i_cur # 0 /\ cfg.i_max_abs \in Nat /\ i_cur <= cfg.i_max_abs
      BY <3>2, ConfigRange DEF IInv, TypeOK, Running, Stopped
    <3> QED
      BY <3>1, <3>3 DEF NextInterval
  <2>3. CASE Consistency \/ Tick \/ \E i_min \in Imins, i_max \in Imaxs, k \in Ks : Config(i_min, i_max, k)
    BY <2>3 DEF Consistency, Tick, Config
  <2> QED
    BY <2>1, <2>2, <2>3 DEF Next, Undisturbed
<1> QED
  BY <1>1, Invariance, PTL DEF Spec
=============================================================================
