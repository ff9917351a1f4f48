--------------------------- MODULE SteeringProofs ---------------------------
(***************************************************************************)
(* Theorems about the torque checks, for every value of the limits, of the   *)
(* interval, of the timer's width and of the number of samples.  None needs  *)
(* what the samples were: they hold with the stale ones too.                 *)
(***************************************************************************)
EXTENDS Steering, TLAPS

\* The torques, the two times and the history have their types.
SteerTypes ==
  /\ desired_torque_last \in Int /\ rt_torque_last \in Int
  /\ timer \in 0..(TimerWrap - 1) /\ ts_last \in 0..(TimerWrap - 1)
  /\ torque_meas \in [values: [1..SampleSize -> Int], min: Int, max: Int]
  /\ past \in [fresh: Nat, stopped: BOOLEAN, peak: Nat, mark: Nat, age: Nat]

\* A torque that has to start again was reset.
StoppedAtZero == past.stopped => desired_torque_last = 0

\* The reference was let through, and nothing since is more than a step beyond.
\* It has moved n times since the peak was marked: once perhaps at once, and
\* then not before a whole interval had gone by.
Moved(n) ==
  /\ Size(rt_torque_last) <= past.mark + n * MaxRtDelta
  /\ past.peak <= past.mark + (n + 1) * MaxRtDelta
  /\ n > 0 => past.age >= (n - 1) * (RtInterval + 1) + Elapsed
ReferenceSteps ==
  /\ Size(rt_torque_last) <= past.peak
  /\ \E n \in Nat : Moved(n)

SteerInv == SteerTypes /\ StoppedAtZero /\ ReferenceSteps

-----------------------------------------------------------------------------
(* Arithmetic. *)

LEMMA Constants ==
  /\ MaxTorque \in Nat /\ RateUp \in Nat /\ RateDown \in Nat /\ MaxError \in Nat
  /\ MaxRtDelta \in Nat /\ RtInterval \in Nat /\ MaxAge \in Nat
  /\ TimerWrap \in Nat /\ TimerWrap > 0 /\ SampleSize \in Nat
BY SteeringAssumption

LEMMA TimesGrows ==
  ASSUME NEW a \in Int, NEW b \in Int, a <= b, NEW m \in Nat
  PROVE  a * m <= b * m
<1>1. b * m - a * m = (b - a) * m
  OBVIOUS
<1>2. (b - a) * m >= 0
  OBVIOUS
<1> QED BY <1>1, <1>2

\* Whole intervals are counted by the division.
LEMMA DivCounts ==
  ASSUME NEW k \in Nat, NEW m \in Nat \ {0}, NEW a \in Nat, k * m <= a
  PROVE  a \div m \in Nat /\ k <= a \div m
<1> DEFINE q == a \div m
<1>1. q \in Nat /\ a < (q + 1) * m
  OBVIOUS
<1> HIDE DEF q
<1>2. CASE q < k
  <2>1. (q + 1) * m <= k * m
    BY <1>1, <1>2, TimesGrows
  <2>2. (q + 1) * m \in Int /\ k * m \in Int
    BY <1>1
  <2> QED BY <1>1, <2>1, <2>2
<1>3. CASE k <= q
  BY <1>1, <1>3 DEF q
<1> QED BY <1>1, <1>2, <1>3

\* The time since the last reference, and what a tick of the timer makes of it.
LEMMA ElapsedIs ==
  ASSUME NEW t \in 0..(TimerWrap - 1), NEW s \in 0..(TimerWrap - 1)
  PROVE  (t - s) % TimerWrap = IF t >= s THEN t - s ELSE t - s + TimerWrap
BY Constants

LEMMA TimerTicks ==
  ASSUME NEW t \in 0..(TimerWrap - 1)
  PROVE  (t + 1) % TimerWrap = IF t + 1 = TimerWrap THEN 0 ELSE t + 1
BY Constants

-----------------------------------------------------------------------------
(* The limits. *)

\* A torque that is not in excess is near the last one, and no more than a step
\* beyond the reference.
LEMMA WithinLimits ==
  ASSUME SteerTypes, NEW t \in Int, ~Exceeds(t)
  PROVE  /\ desired_torque_last = 0 => t \in -RateUp .. RateUp
         /\ Size(t) <= Size(rt_torque_last) + MaxRtDelta
<1>1. /\ desired_torque_last \in Int /\ rt_torque_last \in Int
      /\ torque_meas.min \in Int /\ torque_meas.max \in Int
  BY DEF SteerTypes
<1>2. HighestNear \in Int /\ LowestNear \in Int /\ HighestRt \in Int /\ LowestRt \in Int
  BY <1>1, Constants DEF HighestNear, LowestNear, HighestRt, LowestRt, MAX, MIN
<1>3. /\ LowestNear <= t /\ t <= HighestNear
      /\ LowestRt <= t /\ t <= HighestRt
  BY <1>2 DEF Exceeds
<1>4. ASSUME desired_torque_last = 0 PROVE t \in -RateUp .. RateUp
  <2>1. HighestNear <= RateUp /\ -RateUp <= LowestNear
    BY <1>1, <1>4, Constants DEF HighestNear, LowestNear, MAX, MIN
  <2> QED BY <1>2, <1>3, <2>1, Constants
<1>5. Size(t) <= Size(rt_torque_last) + MaxRtDelta
  BY <1>1, <1>3, Constants DEF HighestRt, LowestRt, MAX, MIN, Size
<1> QED BY <1>4, <1>5

\* Zero is always between the limits.
LEMMA ZeroWithin == ASSUME SteerTypes PROVE ~Exceeds(0)
<1>1. /\ desired_torque_last \in Int /\ rt_torque_last \in Int
      /\ torque_meas.min \in Int /\ torque_meas.max \in Int
  BY DEF SteerTypes
<1>2. HighestNear \in Nat /\ -LowestNear \in Nat /\ LowestNear \in Int
  BY <1>1, Constants DEF HighestNear, LowestNear, MAX, MIN
<1>3. HighestRt \in Nat /\ -LowestRt \in Nat /\ LowestRt \in Int
  BY <1>1, Constants DEF HighestRt, LowestRt, MAX, MIN
<1> QED BY <1>2, <1>3, Constants DEF Exceeds

-----------------------------------------------------------------------------
(* The invariant. *)

LEMMA SteerInitInv == SteerInit => SteerInv
<1> SUFFICES ASSUME SteerInit PROVE SteerInv
  OBVIOUS
<1>1. SteerTypes /\ StoppedAtZero
  BY Constants DEF SteerInit, SteerTypes, StoppedAtZero
<1>2. Size(rt_torque_last) <= past.peak /\ Moved(0)
  BY Constants DEF SteerInit, Size, Moved
<1> QED BY <1>1, <1>2 DEF SteerInv, ReferenceSteps

\* The torque starts again.
LEMMA RestartInv ==
  ASSUME SteerInv,
         desired_torque_last' = 0, rt_torque_last' = 0,
         ts_last' \in 0..(TimerWrap - 1), timer' = timer,
         torque_meas' \in [values: [1..SampleSize -> Int], min: Int, max: Int],
         past' \in [fresh: Nat, stopped: BOOLEAN, peak: Nat, mark: Nat, age: Nat],
         past'.peak = 0, past'.mark = 0
  PROVE  SteerInv'
<1>2. SteerTypes' /\ StoppedAtZero'
  BY DEF SteerInv, SteerTypes, StoppedAtZero
<1>3. (Size(rt_torque_last) <= past.peak)' /\ Moved(0)'
  BY Constants DEF Size, Moved
<1> QED BY <1>2, <1>3 DEF SteerInv, ReferenceSteps

\* A torque passes, and may become the reference.
LEMMA PassInv ==
  ASSUME SteerInv, NEW t \in Int, Pass(t), UNCHANGED <<torque_meas, timer>>
  PROVE  SteerInv'
<1>1. /\ rt_torque_last \in Int /\ timer \in 0..(TimerWrap - 1)
      /\ ts_last \in 0..(TimerWrap - 1)
      /\ past \in [fresh: Nat, stopped: BOOLEAN, peak: Nat, mark: Nat, age: Nat]
  BY DEF SteerInv, SteerTypes
<1>2. Size(t) \in Nat /\ Size(rt_torque_last) \in Nat
  BY <1>1 DEF Size
<1>3. Size(t) <= Size(rt_torque_last) + MaxRtDelta
  BY WithinLimits DEF SteerInv, Pass
<1>4. /\ past'.fresh = past.fresh /\ past'.stopped = FALSE
      /\ past'.peak = MAX(past.peak, Size(t))
      /\ past'.mark = past.mark /\ past'.age = past.age
      /\ past' \in [fresh: Nat, stopped: BOOLEAN, peak: Nat, mark: Nat, age: Nat]
  BY <1>1, <1>2 DEF Pass, MAX
<1>5. past'.peak \in Nat /\ past.peak <= past'.peak /\ Size(t) <= past'.peak
  BY <1>1, <1>2, <1>4 DEF MAX
<1>6. \/ rt_torque_last' = t /\ ts_last' = timer /\ Elapsed > RtInterval
      \/ rt_torque_last' = rt_torque_last /\ ts_last' = ts_last
  BY DEF Pass, Reference
<1>7. SteerTypes' /\ StoppedAtZero'
  BY <1>1, <1>4, <1>6 DEF SteerInv, SteerTypes, StoppedAtZero, Pass
<1>8. (Size(rt_torque_last) <= past.peak)'
  <2>1. CASE rt_torque_last' = t
    BY <1>5, <2>1 DEF Size
  <2>2. CASE rt_torque_last' = rt_torque_last
    BY <1>1, <1>2, <1>5, <2>2 DEF SteerInv, ReferenceSteps, Size
  <2> QED BY <1>6, <2>1, <2>2
<1>9. PICK n \in Nat : Moved(n)
  BY DEF SteerInv, ReferenceSteps
<1>10. past'.peak <= past.mark + (n + 1) * MaxRtDelta
  <2>1. (n + 1) * MaxRtDelta = n * MaxRtDelta + MaxRtDelta /\ n * MaxRtDelta \in Nat
    BY Constants
  <2>2. Size(t) <= past.mark + (n + 1) * MaxRtDelta
    BY <1>1, <1>2, <1>3, <1>9, <2>1, Constants DEF Moved
  <2> QED BY <1>1, <1>2, <1>4, <1>9, <2>2 DEF Moved, MAX
<1>11. CASE rt_torque_last' = rt_torque_last /\ ts_last' = ts_last
  <2>1. Elapsed' = Elapsed
    BY <1>11 DEF Elapsed
  <2>2. Moved(n)'
    BY <1>4, <1>9, <1>10, <1>11, <2>1 DEF Moved
  <2> QED BY <1>7, <1>8, <2>2 DEF SteerInv, ReferenceSteps
<1>12. CASE rt_torque_last' = t /\ ts_last' = timer /\ Elapsed > RtInterval
  <2>1. Elapsed' = 0
    BY <1>1, <1>12, ElapsedIs DEF Elapsed
  <2>2. Size(t) <= past.mark + (n + 1) * MaxRtDelta
    BY <1>1, <1>2, <1>5, <1>10, Constants
  <2>3. past'.peak <= past.mark + ((n + 1) + 1) * MaxRtDelta
    <3>1. (n + 1) * MaxRtDelta <= ((n + 1) + 1) * MaxRtDelta
      BY TimesGrows, Constants
    <3>2. (n + 1) * MaxRtDelta \in Nat /\ ((n + 1) + 1) * MaxRtDelta \in Nat
      BY Constants
    <3> QED BY <1>1, <1>5, <1>10, <3>1, <3>2
  <2>4. past.age >= n * (RtInterval + 1)
    <3>1. Elapsed \in Nat /\ Elapsed >= RtInterval + 1
      BY <1>1, <1>12, ElapsedIs, Constants DEF Elapsed
    <3>2. CASE n = 0
      BY <1>1, <3>2, Constants
    <3>3. CASE n > 0
      <4>1. past.age >= (n - 1) * (RtInterval + 1) + Elapsed
        BY <1>9, <3>3 DEF Moved
      <4>2. n * (RtInterval + 1) = (n - 1) * (RtInterval + 1) + (RtInterval + 1)
        BY Constants
      <4>3. (n - 1) * (RtInterval + 1) \in Int
        BY Constants
      <4> QED BY <1>1, <3>1, <4>1, <4>2, <4>3, Constants
    <3> QED BY <3>2, <3>3
  <2>5. Moved(n + 1)'
    BY <1>4, <1>12, <2>1, <2>2, <2>3, <2>4, Constants DEF Moved, Size
  <2> QED BY <1>7, <1>8, <2>5 DEF SteerInv, ReferenceSteps
<1> QED BY <1>6, <1>11, <1>12

\* Only the samples change, or nothing does.
LEMMA SampledInv ==
  ASSUME SteerInv, UNCHANGED <<desired_torque_last, rt_torque_last, ts_last, timer>>,
         torque_meas' \in [values: [1..SampleSize -> Int], min: Int, max: Int],
         past' \in [fresh: Nat, stopped: BOOLEAN, peak: Nat, mark: Nat, age: Nat],
         past'.stopped = past.stopped, past'.peak = past.peak,
         past'.mark = past.mark, past'.age = past.age
  PROVE  SteerInv'
<1>2. SteerTypes' /\ StoppedAtZero'
  BY DEF SteerInv, SteerTypes, StoppedAtZero
<1>3. Elapsed' = Elapsed
  BY DEF Elapsed
<1>4. ReferenceSteps'
  BY <1>3 DEF SteerInv, ReferenceSteps, Moved, Size
<1> QED BY <1>2, <1>4 DEF SteerInv

\* Nothing the invariant is about changes.
LEMMA StaysInv == ASSUME SteerInv, UNCHANGED steerVars PROVE SteerInv'
BY DEF steerVars, SteerInv, SteerTypes, StoppedAtZero, ReferenceSteps, Moved, Elapsed, Size

LEMMA TorqueInv ==
  ASSUME SteerInv, NEW t \in Torques, TorqueFrame(t)
  PROVE  SteerInv'
<1>1. t \in Int
  BY SteeringAssumption
<1>2. /\ torque_meas' = torque_meas /\ timer' = timer
      /\ torque_meas \in [values: [1..SampleSize -> Int], min: Int, max: Int]
      /\ timer \in 0..(TimerWrap - 1)
      /\ past \in [fresh: Nat, stopped: BOOLEAN, peak: Nat, mark: Nat, age: Nat]
  BY DEF TorqueFrame, SteerInv, SteerTypes
<1>3. CASE Pass(t)
  BY <1>1, <1>2, <1>3, PassInv
<1>4. CASE Stop(t)
  <2>1. past.fresh \in Nat /\ past' = Restarted
    BY <1>2, <1>4 DEF Stop
  <2>2. past' \in [fresh: Nat, stopped: BOOLEAN, peak: Nat, mark: Nat, age: Nat] /\ past'.peak = 0 /\ past'.mark = 0
    BY <2>1 DEF Restarted
  <2>3. desired_torque_last' = 0 /\ rt_torque_last' = 0 /\ ts_last' \in 0..(TimerWrap - 1)
    BY <1>2, <1>4 DEF Stop
  <2> QED BY <1>2, <2>2, <2>3, RestartInv
<1>5. CASE UNCHANGED <<desired_torque_last, rt_torque_last, ts_last, past>>
  BY <1>2, <1>5, StaysInv DEF steerVars
<1> QED BY <1>3, <1>4, <1>5 DEF TorqueFrame

LEMMA SampleInv ==
  ASSUME SteerInv, NEW f \in SteerFrames, NEW v \in Measures, SteerRx(f, v)
  PROVE  SteerInv'
<1>1. UNCHANGED <<desired_torque_last, rt_torque_last, ts_last, timer>>
  BY DEF SteerRx
<1>2. /\ torque_meas \in [values: [1..SampleSize -> Int], min: Int, max: Int]
      /\ past \in [fresh: Nat, stopped: BOOLEAN, peak: Nat, mark: Nat, age: Nat]
  BY DEF SteerInv, SteerTypes
<1>3. CASE Sample(v)
  <2> DEFINE s == [i \in 1..SampleSize |-> IF i = 1 THEN v ELSE torque_meas.values[i - 1]]
  <2>1. s \in [1..SampleSize -> Int]
    BY <1>2, SteeringAssumption, Constants
  <2>2. \E lo, hi \in 1..SampleSize :
          torque_meas' = [values |-> s, min |-> s[lo] - 1, max |-> s[hi] + 1]
    BY <1>3 DEF Sample
  <2> HIDE DEF s
  <2>3. torque_meas' \in [values: [1..SampleSize -> Int], min: Int, max: Int]
    BY <2>1, <2>2
  <2>4. past' = [past EXCEPT !.fresh = AtMost(past.fresh + 1, SampleSize)]
    BY <1>3 DEF Sample
  <2>5. AtMost(past.fresh + 1, SampleSize) \in Nat
    BY <1>2, Constants DEF AtMost
  <2>6. /\ past' \in [fresh: Nat, stopped: BOOLEAN, peak: Nat, mark: Nat, age: Nat]
        /\ past'.stopped = past.stopped /\ past'.peak = past.peak
        /\ past'.mark = past.mark /\ past'.age = past.age
    BY <1>2, <2>4, <2>5
  <2> QED BY <1>1, <2>3, <2>6, SampledInv
<1>4. CASE UNCHANGED <<torque_meas, past>>
  BY <1>1, <1>4, StaysInv DEF steerVars
<1> QED BY <1>3, <1>4 DEF SteerRx

LEMMA SetModeInv ==
  ASSUME SteerInv, NEW request \in Requests, SteerSetMode(request)
  PROVE  SteerInv'
<1>1. torque_meas' \in [values: [1..SampleSize -> Int], min: Int, max: Int]
  BY DEF SteerSetMode, SteerInv, SteerTypes
<1>2. ts_last' \in 0..(TimerWrap - 1)
  BY Constants DEF SteerSetMode
<1>3. past' \in [fresh: Nat, stopped: BOOLEAN, peak: Nat, mark: Nat, age: Nat] /\ past'.peak = 0 /\ past'.mark = 0
  BY DEF SteerSetMode, Restarted, SteerInv, SteerTypes
<1> QED BY <1>1, <1>2, <1>3, RestartInv DEF SteerSetMode

\* The peak is marked, or followed for one more tick.
LEMMA ElapseInv == ASSUME SteerInv, Elapse PROVE SteerInv'
<1>1. /\ timer \in 0..(TimerWrap - 1) /\ ts_last \in 0..(TimerWrap - 1)
      /\ past \in [fresh: Nat, stopped: BOOLEAN, peak: Nat, mark: Nat, age: Nat]
      /\ rt_torque_last \in Int
  BY DEF SteerInv, SteerTypes
<1>2. /\ timer' = (timer + 1) % TimerWrap
      /\ UNCHANGED <<desired_torque_last, rt_torque_last, ts_last, torque_meas>>
  BY DEF Elapse
<1>3. timer' \in 0..(TimerWrap - 1)
  BY <1>1, <1>2, TimerTicks, Constants
<1>4. Elapsed \in Nat /\ Elapsed' \in Nat /\ Elapsed' <= Elapsed + 1
  <2>1. Elapsed = IF timer >= ts_last THEN timer - ts_last ELSE timer - ts_last + TimerWrap
    BY <1>1, ElapsedIs DEF Elapsed
  <2>2. Elapsed' = IF timer' >= ts_last THEN timer' - ts_last
                                        ELSE timer' - ts_last + TimerWrap
    BY <1>1, <1>2, <1>3, ElapsedIs DEF Elapsed
  <2>3. timer' = IF timer + 1 = TimerWrap THEN 0 ELSE timer + 1
    BY <1>1, <1>2, TimerTicks
  <2> QED BY <1>1, <2>1, <2>2, <2>3, Constants
<1>5. CASE past' = [past EXCEPT !.age = @ + 1]
  <2>1. /\ past' \in [fresh: Nat, stopped: BOOLEAN, peak: Nat, mark: Nat, age: Nat]
        /\ past'.stopped = past.stopped /\ past'.peak = past.peak
        /\ past'.mark = past.mark /\ past'.age = past.age + 1
    BY <1>1, <1>5
  <2>2. SteerTypes' /\ StoppedAtZero'
    BY <1>2, <1>3, <2>1 DEF SteerInv, SteerTypes, StoppedAtZero
  <2>3. (Size(rt_torque_last) <= past.peak)'
    BY <1>2, <2>1 DEF SteerInv, ReferenceSteps, Size
  <2>4. PICK n \in Nat : Moved(n)
    BY DEF SteerInv, ReferenceSteps
  <2>5. n > 0 => past.age + 1 >= (n - 1) * (RtInterval + 1) + Elapsed'
    <3> SUFFICES ASSUME n > 0
                 PROVE  past.age + 1 >= (n - 1) * (RtInterval + 1) + Elapsed'
      OBVIOUS
    <3>1. past.age >= (n - 1) * (RtInterval + 1) + Elapsed
      BY <2>4 DEF Moved
    <3>2. (n - 1) * (RtInterval + 1) \in Int
      BY Constants
    <3> QED BY <1>1, <1>4, <3>1, <3>2
  <2>6. Moved(n)'
    BY <1>2, <2>1, <2>4, <2>5 DEF Moved, Size
  <2> QED BY <2>2, <2>3, <2>6 DEF SteerInv, ReferenceSteps
<1>6. CASE past' = [past EXCEPT !.mark = past.peak, !.age = 0]
  <2>1. /\ past' \in [fresh: Nat, stopped: BOOLEAN, peak: Nat, mark: Nat, age: Nat]
        /\ past'.stopped = past.stopped /\ past'.peak = past.peak
        /\ past'.mark = past.peak /\ past'.age = 0
    BY <1>1, <1>6
  <2>2. SteerTypes' /\ StoppedAtZero'
    BY <1>2, <1>3, <2>1 DEF SteerInv, SteerTypes, StoppedAtZero
  <2>3. (Size(rt_torque_last) <= past.peak)'
    BY <1>2, <2>1 DEF SteerInv, ReferenceSteps, Size
  <2>4. Moved(0)'
    <3>1. 0 * MaxRtDelta = 0 /\ (0 + 1) * MaxRtDelta = MaxRtDelta
      BY Constants
    <3>2. (Size(rt_torque_last) <= past.mark)'
      BY <2>1, <2>3
    <3> QED BY <1>1, <1>2, <2>1, <3>1, <3>2, Constants DEF Moved, Size
  <2> QED BY <2>2, <2>3, <2>4 DEF SteerInv, ReferenceSteps
<1> QED BY <1>5, <1>6 DEF Elapse

LEMMA SteerNextInv ==
  SteerInv /\ [SteerNext]_<<hookVars, steerVars>> => SteerInv'
BY TorqueInv, SampleInv, SetModeInv, ElapseInv, StaysInv DEF SteerNext

\* The invariant holds in every run of the checks.
THEOREM SteeringInvariant == SteerSpec => []SteerInv
BY SteerInitInv, SteerNextInv, PTL DEF SteerSpec

-----------------------------------------------------------------------------
(* What follows for the driver. *)

\* No check ever refuses a torque of zero.
THEOREM ReleaseNeverRefused == SteerSpec => []ReleaseAllowed
<1>1. SteerInv => ReleaseAllowed
  BY ZeroWithin DEF SteerInv, ReleaseAllowed
<1> QED BY <1>1, SteeringInvariant, PTL

\* Over any stretch of time the torque grows by no more than the real time
\* limit allows.
THEOREM RealTimeHolds == SteerSpec => []RealTimeLimit
<1>1. SteerInv => RealTimeLimit
  <2> SUFFICES ASSUME SteerInv PROVE RealTimeLimit
    OBVIOUS
  <2> DEFINE q == past.age \div (RtInterval + 1)
  <2>1. past.age \in Nat /\ past.mark \in Nat /\ past.peak \in Nat
    BY DEF SteerInv, SteerTypes
  <2>2. PICK n \in Nat : Moved(n)
    BY DEF SteerInv, ReferenceSteps
  <2>3. q \in Nat /\ n + 1 <= 2 + q
    <3>1. CASE n = 0
      <4>1. 0 * (RtInterval + 1) <= past.age
        BY <2>1, Constants
      <4> QED BY <2>1, <3>1, <4>1, DivCounts, Constants
    <3>2. CASE n > 0
      <4>1. past.age >= (n - 1) * (RtInterval + 1) + Elapsed
        BY <2>2, <3>2 DEF Moved
      <4>2. Elapsed \in Nat
        BY ElapsedIs, Constants DEF Elapsed, SteerInv, SteerTypes
      <4>3. (n - 1) * (RtInterval + 1) <= past.age /\ n - 1 \in Nat
        BY <2>1, <3>2, <4>1, <4>2, Constants
      <4>4. q \in Nat /\ n - 1 <= q
        BY <2>1, <4>3, DivCounts, Constants
      <4> QED BY <4>4
    <3> QED BY <3>1, <3>2
  <2> HIDE DEF q
  <2>4. (n + 1) * MaxRtDelta <= (2 + q) * MaxRtDelta
    BY <2>3, TimesGrows, Constants
  <2>5. (n + 1) * MaxRtDelta \in Nat /\ (2 + q) * MaxRtDelta \in Nat
    BY <2>3, Constants
  <2>6. past.peak <= past.mark + (2 + q) * MaxRtDelta
    BY <2>1, <2>2, <2>4, <2>5 DEF Moved
  <2> QED BY <2>6 DEF RealTimeLimit, q
<1> QED BY <1>1, SteeringInvariant, PTL

\* A torque that leaves the panda was let through by the checks.
LEMMA SentPassed ==
  ASSUME NEW t, TorqueFrame(t), wire' = FromHost("actuate"), ~relay_malfunction
  PROVE  Pass(t)
<1>1. wire'.src = "host" /\ wire'.what = "actuate"
  BY DEF FromHost
<1>2. SafetyTxHook(Kind(t)) /\ Kind(t) = "actuate"
  BY <1>1 DEF TorqueFrame, HostSend, FromHost, Rejected
<1>3. ModeTxHook("actuate")
  BY <1>2 DEF SafetyTxHook
<1>4. current_safety_mode \in CarModes /\ controls_allowed
  BY <1>3 DEF ModeTxHook, CarModes
<1>5. ~Exceeds(t)
  BY <1>2, <1>4 DEF Kind
<1> QED BY <1>4, <1>5 DEF TorqueFrame, Stop

\* What starts again starts at zero, whatever was sent in between.
THEOREM TorqueStartsAtZero == SteerSpec => StartsFromZero
<1> DEFINE Step == wire' = FromHost("actuate") /\ ~relay_malfunction /\ past.stopped
                     => desired_torque_last' \in -RateUp .. RateUp
<1>1. SteerInv /\ [SteerNext]_<<hookVars, steerVars>> => [Step]_<<hookVars, steerVars>>
  <2> SUFFICES ASSUME SteerInv, SteerNext,
                      <<hookVars, steerVars>>' # <<hookVars, steerVars>>,
                      wire' = FromHost("actuate"), ~relay_malfunction, past.stopped
               PROVE  desired_torque_last' \in -RateUp .. RateUp
    OBVIOUS
  <2>1. wire'.src = "host"
    BY DEF FromHost
  <2>2. CASE \E t \in Torques : TorqueFrame(t)
    <3>1. PICK t \in Torques : TorqueFrame(t)
      BY <2>2
    <3>2. Pass(t) /\ t \in Int
      BY <3>1, SentPassed, SteeringAssumption
    <3>3. desired_torque_last = 0 /\ desired_torque_last' = t
      BY <3>2 DEF SteerInv, StoppedAtZero, Pass
    <3> QED BY <3>2, <3>3, WithinLimits DEF SteerInv, Pass
  <2>3. CASE \E request \in Requests : SteerSetMode(request)
    BY <2>3, <2>1, Constants DEF SteerSetMode, SetMode, Nothing
  <2>4. CASE \E f \in SteerFrames, v \in Measures : SteerRx(f, v)
    BY <2>4, <2>1 DEF SteerRx, RxFrame, Forwarded, Nothing
  <2>5. CASE Elapse
    BY <2>5, Constants DEF Elapse, SteerInv, StoppedAtZero
  <2> QED BY <2>2, <2>3, <2>4, <2>5 DEF SteerNext
<1> QED BY <1>1, SteeringInvariant, SteerNextInv, PTL DEF SteerSpec, StartsFromZero
=============================================================================
