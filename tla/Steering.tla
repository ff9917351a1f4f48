------------------------------ MODULE Steering ------------------------------
(***************************************************************************)
(* The torque checks of the Toyota hooks: which steering frame of the host   *)
(* is idle, actuates or is in excess (safety_toyota.h, toyota_tx_hook), what  *)
(* a check leaves for the next one, and the samples of the motor's torque     *)
(* they are compared to (safety.h).  The microsecond timer wraps around.      *)
(*                                                                           *)
(* The host's other frames, its unsafe mode and the tick touch none of this  *)
(* and are left to PandaHooks.                                               *)
(***************************************************************************)
EXTENDS PandaHooks, Integers

CONSTANTS
  SteerFrames,  \* the frames the buses may deliver here, a subset of Frame
  Torques,      \* the torques the host may ask for
  Measures,     \* the torques the motor may report
  MaxTorque, RateUp, RateDown, MaxError, MaxRtDelta, \* TOYOTA_MAX_...
  RtInterval,   \* TOYOTA_RT_INTERVAL
  TimerWrap,    \* values of the microsecond timer (2^32)
  SampleSize,   \* samples of the motor's torque (6)
  MaxAge        \* bound of this model: how long the peak is followed

ASSUME SteeringAssumption ==
  /\ SteerFrames \subseteq Frame
  /\ Torques \subseteq Int /\ Measures \subseteq Int
  /\ {MaxTorque, RateUp, RateDown, MaxError, MaxRtDelta, RtInterval, MaxAge} \subseteq Nat
  /\ TimerWrap \in Nat \ {0} /\ SampleSize \in Nat \ {0}

VARIABLES
  desired_torque_last, rt_torque_last, ts_last,
  torque_meas,  \* the samples, newest first, and the limits drawn from them
  timer,        \* microsecond_timer_get
  past          \* history: samples since the mode was set, whether the torque has
                \* to start again, the highest torque let through since it did,
                \* what that was at a moment of the past, and how long ago

steerVars == <<desired_torque_last, rt_torque_last, ts_last, torque_meas, timer, past>>

MAX(a, b) == IF a > b THEN a ELSE b
MIN(a, b) == IF a < b THEN a ELSE b
Size(t) == IF t < 0 THEN -t ELSE t

Restarted == [fresh |-> past.fresh, stopped |-> TRUE, peak |-> 0, mark |-> 0, age |-> 0]

SteerInit ==
  /\ desired_torque_last = 0 /\ rt_torque_last = 0 /\ ts_last = 0
  /\ torque_meas = [values |-> [i \in 1..SampleSize |-> 0], min |-> 0, max |-> 0]
  /\ timer = 0
  /\ past = [fresh |-> 0, stopped |-> TRUE, peak |-> 0, mark |-> 0, age |-> 0]

-----------------------------------------------------------------------------
(* The checks. *)

\* dist_to_meas_check: not faster than the rates, and towards zero when the
\* torque exceeds what the motor was measured to apply.
HighestNear ==
  MIN(MAX(desired_torque_last, 0) + RateUp,
      MAX(desired_torque_last - RateDown, MAX(torque_meas.max, 0) + MaxError))
LowestNear ==
  MAX(MIN(desired_torque_last, 0) - RateUp,
      MIN(desired_torque_last + RateDown, MIN(torque_meas.min, 0) - MaxError))

\* Mutant: a torque on one side binds the other.
HighestRtOneSided == rt_torque_last + MaxRtDelta

\* rt_rate_limit_check
HighestRt == MAX(rt_torque_last, 0) + MaxRtDelta
LowestRt == MIN(rt_torque_last, 0) - MaxRtDelta

Exceeds(t) ==
  \/ t \notin -MaxTorque .. MaxTorque
  \/ t \notin LowestNear .. HighestNear
  \/ t \notin LowestRt .. HighestRt

\* get_ts_elapsed, an unsigned subtraction.
Elapsed == (timer - ts_last) % TimerWrap

\* Mutant: the reference is not kept for an interval.
ReferenceAlways(t) == rt_torque_last' = t /\ ts_last' = timer

\* Every RT_INTERVAL the torque becomes the reference of the real time check.
Reference(t) ==
  IF Elapsed > RtInterval THEN rt_torque_last' = t /\ ts_last' = timer
                          ELSE UNCHANGED <<rt_torque_last, ts_last>>

\* The torque passed.
Pass(t) ==
  /\ controls_allowed /\ ~Exceeds(t)
  /\ desired_torque_last' = t
  /\ Reference(t)
  /\ past' = [past EXCEPT !.stopped = FALSE, !.peak = MAX(@, Size(t))]

\* Mutant: a violation alone resets nothing.
StopIfNotAllowed(t) ==
  /\ ~controls_allowed \/ Exceeds(t)
  /\ desired_torque_last' = IF controls_allowed THEN t ELSE 0
  /\ rt_torque_last' = IF controls_allowed THEN rt_torque_last ELSE 0
  /\ ts_last' = timer
  /\ past' = Restarted

\* Reset to 0 if either controls is not allowed or there is a violation.
Stop(t) ==
  /\ ~controls_allowed \/ Exceeds(t)
  /\ desired_torque_last' = 0 /\ rt_torque_last' = 0 /\ ts_last' = timer
  /\ past' = Restarted

\* What a steering frame is to the hooks.
Kind(t) ==
  CASE controls_allowed /\ Exceeds(t) -> "excess"
    [] t = 0 /\ (controls_allowed => ~Exceeds(t)) -> "idle"
    [] OTHER -> "actuate"

\* A steering frame (0x2E4): under the relay fault and in the other modes the
\* checks are not made.
TorqueFrame(t) ==
  /\ HostSend(Kind(t))
  /\ IF current_safety_mode \in CarModes /\ ~relay_malfunction
       THEN Pass(t) \/ Stop(t)
       ELSE UNCHANGED <<desired_torque_last, rt_torque_last, ts_last, past>>
  /\ UNCHANGED <<torque_meas, timer>>

-----------------------------------------------------------------------------
(* The samples, the modes, the time. *)

\* update_sample: the newest sample comes first; the limits are the least and the
\* greatest, and one more on both sides against the rounding.
Sample(v) ==
  LET s == [i \in 1..SampleSize |-> IF i = 1 THEN v ELSE torque_meas.values[i - 1]]
  IN  /\ \E lo, hi \in 1..SampleSize :
           /\ \A i \in 1..SampleSize : s[lo] <= s[i] /\ s[i] <= s[hi]
           /\ torque_meas' = [values |-> s, min |-> s[lo] - 1, max |-> s[hi] + 1]
      /\ past' = [past EXCEPT !.fresh = AtMost(@ + 1, SampleSize)]

\* toyota_rx_hook, with the torque v in a frame 0x260.
SteerRx(f, v) ==
  /\ RxFrame(f)
  /\ IF f.id = "TORQUE" /\ f.bus = 0 /\ Valid(f) /\ current_safety_mode \in CarModes
       THEN Sample(v)
       ELSE UNCHANGED <<torque_meas, past>>
  /\ UNCHANGED <<desired_torque_last, rt_torque_last, ts_last, timer>>

\* set_safety_hooks: of the samples it resets the upper limit, twice.
SteerSetMode(request) ==
  /\ SetMode(request)
  /\ desired_torque_last' = 0 /\ rt_torque_last' = 0 /\ ts_last' = 0
  /\ torque_meas' = [torque_meas EXCEPT !.max = 0]
  /\ past' = [Restarted EXCEPT !.fresh = 0]
  /\ UNCHANGED timer

\* Time goes by; the peak is followed from any moment on.
Elapse ==
  /\ timer' = (timer + 1) % TimerWrap
  /\ \/ past.age < MaxAge /\ past' = [past EXCEPT !.age = @ + 1]
     \/ past' = [past EXCEPT !.mark = past.peak, !.age = 0]
  /\ UNCHANGED <<hookVars, desired_torque_last, rt_torque_last, ts_last, torque_meas>>

SteerNext ==
  \/ \E t \in Torques : TorqueFrame(t)
  \/ \E f \in SteerFrames, v \in Measures : SteerRx(f, v)
  \/ \E request \in Requests : SteerSetMode(request)
  \/ Elapse

SteerSpec == HooksInit /\ SteerInit /\ [][SteerNext]_<<hookVars, steerVars>>

-----------------------------------------------------------------------------
(* Properties. *)

\* The host can always let go of the steering wheel: whatever came before, no
\* check refuses a torque of zero (the limits of both sides are drawn from the
\* last torque and from the samples, some of them stale).
ReleaseAllowed == ~Exceeds(0)

\* The real time limit: however fast the frames come, over an interval the
\* highest torque let through grows by no more than two steps, and by one in
\* each interval that follows, from any moment on (rt_rate_limit_check and the
\* reference it is given every RT_INTERVAL).
RealTimeLimit ==
  past.peak <= past.mark + (2 + past.age \div (RtInterval + 1)) * MaxRtDelta

\* After a steering frame was refused, came while controls were not allowed, or
\* the mode was set, the torque starts again at zero.
StartsFromZero ==
  [][wire' = FromHost("actuate") /\ ~relay_malfunction /\ past.stopped
       => desired_torque_last' \in -RateUp .. RateUp]_<<hookVars, steerVars>>

\* What set_safety_hooks says of itself, "reset state set by safety mode": until
\* the motor's torque was measured in this mode, none is let through that is
\* farther from zero than the error the checks allow.
FollowsMeasured ==
  [][wire' = FromHost("actuate") /\ ~relay_malfunction /\ past.fresh = 0
       => desired_torque_last' \in -MaxError .. MaxError]_<<hookVars, steerVars>>
=============================================================================
