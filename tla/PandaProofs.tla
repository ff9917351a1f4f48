---------------------------- MODULE PandaProofs ----------------------------
(***************************************************************************)
(* Theorems about the safety hooks (PandaHooks) and about the whole panda    *)
(* and its host (PandaHost), for every alphabet of frames, every set of      *)
(* monitored messages and all values of the timeouts.                        *)
(***************************************************************************)
EXTENDS PandaHost, TLAPS

-----------------------------------------------------------------------------
(* The hooks by themselves. The lemmas have one step per handler, so that the *)
(* panda's proofs below can cite them.                                        *)

\* What the hooks keep invariant.  It is inductive as it stands.
HooksInv == TypeOK /\ ControlsFollowCruise /\ NoControlWhileBraking

LEMMA InitInv == HooksInit => HooksInv
<1> SUFFICES ASSUME HooksInit PROVE HooksInv
  OBVIOUS
<1>1. /\ current_safety_mode \in Registry
      /\ safety_mode_cnt \in 0..CntCap
      /\ wire \in WireValues
  BY DEF HooksInit, Registry, CntCap, RELAY_TRNS_TIMEOUT, Nothing, WireValues
<1>2. missed \in [Checks -> 0..MissedCap]
  BY HooksAssumption DEF HooksInit
<1> QED
  BY <1>1, <1>2 DEF HooksInit, HooksInv, TypeOK, ControlsFollowCruise,
     NoControlWhileBraking

\* Aging and refreshing keep the ticks of the monitored messages in range.
LEMMA AgeType ==
  ASSUME missed \in [Checks -> 0..MissedCap], AgeMessages
  PROVE  missed' \in [Checks -> 0..MissedCap]
BY HooksAssumption DEF AgeMessages, AtMost

LEMMA TimestampType ==
  ASSUME missed \in [Checks -> 0..MissedCap], NEW f, UpdateTimestamp(f)
  PROVE  missed' \in [Checks -> 0..MissedCap]
BY HooksAssumption DEF UpdateTimestamp, Monitored

\* A granted mode is a mode of the registry.
LEMMA GrantedType == ASSUME NEW r PROVE Granted(r) \in Registry
BY DEF Granted, Registry

\* Setting a mode.
LEMMA SetHooksInv ==
  ASSUME NEW request, NEW count \in 0..CntCap,
         SetSafetyHooks(request, count),
         missed' \in [Checks -> 0..MissedCap], wire' \in WireValues,
         unsafe_mode' \in BOOLEAN
  PROVE  HooksInv'
BY GrantedType DEF SetSafetyHooks, ResetDriver, HooksInv, TypeOK,
   ControlsFollowCruise, NoControlWhileBraking

\* A step that leaves the mode and the driver's state alone and gives nobody
\* control.
LEMMA KeepInv ==
  ASSUME HooksInv,
         controls_allowed' \in BOOLEAN, controls_allowed' => controls_allowed,
         UNCHANGED <<current_safety_mode, driverVars>>,
         relay_malfunction' \in BOOLEAN, unsafe_mode' \in BOOLEAN,
         safety_mode_cnt' \in 0..CntCap,
         missed' \in [Checks -> 0..MissedCap], wire' \in WireValues
  PROVE  HooksInv'
<1>1. TypeOK'
  BY DEF driverVars, HooksInv, TypeOK
<1>2. ControlsFollowCruise'
  BY DEF driverVars, HooksInv, ControlsFollowCruise
<1>3. NoControlWhileBraking'
  BY DEF driverVars, HooksInv, NoControlWhileBraking
<1> QED
  BY <1>1, <1>2, <1>3 DEF HooksInv

\* A frame from a bus.
LEMMA RxInv ==
  ASSUME HooksInv, NEW f \in RxFrames, RxFrame(f)
  PROVE  HooksInv'
<1>f. f \in Frame
  BY HooksAssumption
<1>w. wire' \in WireValues
  BY <1>f DEF RxFrame, Forwarded, Nothing, WireValues, Frame, FrameIds
<1>m. missed' \in [Checks -> 0..MissedCap]
  <2>1. CASE current_safety_mode \in CarModes
    BY <2>1, TimestampType DEF RxFrame, SafetyRxHook, HooksInv, TypeOK
  <2>2. CASE current_safety_mode \notin CarModes
    BY <2>2 DEF RxFrame, SafetyRxHook, HooksInv, TypeOK
  <2> QED BY <2>1, <2>2
<1>u. UNCHANGED <<current_safety_mode, unsafe_mode, safety_mode_cnt>>
  BY DEF RxFrame
<1>1. CASE current_safety_mode \in CarModes /\ RxBody(f)
  <2>1. /\ gas_interceptor_detected' \in BOOLEAN
        /\ relay_malfunction' \in BOOLEAN
        /\ controls_allowed' \in BOOLEAN
    BY <1>1 DEF RxBody
  <2>2. /\ f.on \in BOOLEAN /\ f.gas \in BOOLEAN
        /\ gas_pressed \in BOOLEAN /\ brake_pressed \in BOOLEAN
        /\ vehicle_moving \in BOOLEAN /\ cruise_engaged_prev \in BOOLEAN
    BY <1>f DEF Frame, HooksInv, TypeOK
  <2>3. /\ GasAfter(f) \in BOOLEAN
        /\ BrakeAfter(f) \in BOOLEAN
        /\ MovingAfter(f) \in BOOLEAN
    BY <2>2 DEF GasAfter, BrakeAfter, MovingAfter
  <2>4. /\ gas_pressed' \in BOOLEAN /\ gas_pressed_prev' \in BOOLEAN
        /\ brake_pressed' \in BOOLEAN /\ brake_pressed_prev' \in BOOLEAN
        /\ vehicle_moving' \in BOOLEAN /\ cruise_engaged_prev' \in BOOLEAN
    BY <1>1, <2>2, <2>3 DEF RxBody
  <2>5. ControlsFollowCruise'
    BY <1>1, <1>u DEF RxBody, AllowedByAcc, ControlsFollowCruise, HooksInv
  <2>6. NoControlWhileBraking'
    BY <1>1 DEF RxBody, BrakeExit, NoControlWhileBraking
  <2> QED
    BY <2>1, <2>4, <2>5, <2>6, <1>w, <1>m, <1>u DEF HooksInv, TypeOK
<1>2. CASE /\ controls_allowed' \in BOOLEAN /\ (controls_allowed' => controls_allowed)
           /\ UNCHANGED <<relay_malfunction, driverVars>>
  BY <1>2, <1>w, <1>m, <1>u, KeepInv DEF HooksInv, TypeOK
<1> QED
  BY <1>1, <1>2 DEF RxFrame, SafetyRxHook, HooksInv, TypeOK

\* A frame from the host, and the unsafe flag.
LEMMA SendInv ==
  ASSUME HooksInv, NEW k \in TxFrames, HostSend(k)
  PROVE  HooksInv'
<1>1. wire' \in WireValues
  BY HooksAssumption DEF HostSend, FromHost, Rejected, WireValues, TxKinds
<1> QED
  BY <1>1 DEF HostSend, driverVars, HooksInv, TypeOK, ControlsFollowCruise,
     NoControlWhileBraking

LEMMA UnsafeInv ==
  ASSUME HooksInv, NEW b \in BOOLEAN, SetUnsafeMode(b)
  PROVE  HooksInv'
BY DEF SetUnsafeMode, Nothing, WireValues, driverVars, HooksInv, TypeOK,
   ControlsFollowCruise, NoControlWhileBraking

\* A tick that keeps the mode may only take controls away.
LEMMA StayInv ==
  ASSUME HooksInv, AgeMessages, wire' = Nothing,
         controls_allowed' \in BOOLEAN, controls_allowed' => controls_allowed,
         safety_mode_cnt' = AtMost(safety_mode_cnt + 1, CntCap),
         UNCHANGED <<current_safety_mode, relay_malfunction, driverVars, unsafe_mode>>
  PROVE  HooksInv'
<1>1. missed' \in [Checks -> 0..MissedCap]
  BY AgeType DEF HooksInv, TypeOK
<1>2. safety_mode_cnt' \in 0..CntCap
  BY DEF HooksInv, TypeOK, AtMost, CntCap, RELAY_TRNS_TIMEOUT
<1>3. wire' \in WireValues
  BY DEF Nothing, WireValues
<1> QED
  BY <1>1, <1>2, <1>3, KeepInv DEF HooksInv, TypeOK

\* A step that changes no variable of the hooks.
LEMMA StutterInv ==
  ASSUME HooksInv, UNCHANGED hookVars
  PROVE  HooksInv'
BY DEF hookVars, driverVars, HooksInv, TypeOK, ControlsFollowCruise,
   NoControlWhileBraking

LEMMA NextInv ==
  ASSUME HooksInv, [HooksNext]_hookVars
  PROVE  HooksInv'
<1>1. ASSUME NEW request \in Requests, SetMode(request)
      PROVE  HooksInv'
  <2>1. 0 \in 0..CntCap
    BY DEF CntCap, RELAY_TRNS_TIMEOUT
  <2>2. /\ missed' \in [Checks -> 0..MissedCap]
        /\ wire' \in WireValues
        /\ unsafe_mode' \in BOOLEAN
    BY <1>1 DEF SetMode, Nothing, WireValues, HooksInv, TypeOK
  <2> QED
    BY <1>1, <2>1, <2>2, SetHooksInv DEF SetMode
<1>2. ASSUME NEW b \in BOOLEAN, SetUnsafeMode(b)
      PROVE  HooksInv'
  BY <1>2, UnsafeInv
<1>3. ASSUME NEW f \in RxFrames, RxFrame(f)
      PROVE  HooksInv'
  BY <1>3, RxInv
<1>4. ASSUME NEW k \in TxFrames, HostSend(k)
      PROVE  HooksInv'
  BY <1>4, SendInv
<1>5. CASE HooksTick
  <2>1. controls_allowed' \in BOOLEAN /\ (controls_allowed' => controls_allowed)
    BY <1>5 DEF HooksTick, HooksInv, TypeOK
  <2> QED
    BY <1>5, <2>1, StayInv DEF HooksTick
<1>6. CASE UNCHANGED hookVars
  BY <1>6, StutterInv
<1> QED
  BY <1>1, <1>2, <1>3, <1>4, <1>5, <1>6 DEF HooksNext

\* The types are kept, the host is allowed to command only a car whose cruise
\* control is engaged, and never while the driver brakes a moving car.
THEOREM HooksSafe ==
  HooksSpec => [](TypeOK /\ ControlsFollowCruise /\ NoControlWhileBraking)
<1>1. HooksInit => HooksInv
  BY InitInv
<1>2. HooksInv /\ [HooksNext]_hookVars => HooksInv'
  BY NextInv
<1> QED
  BY <1>1, <1>2, PTL DEF HooksSpec, HooksInv

-----------------------------------------------------------------------------
(* The driver's override.  generic_rx_checks tests the edges against the      *)
(* previous values, so it sees every press only because the two never part.  *)

PrevInv == gas_pressed_prev = gas_pressed /\ brake_pressed_prev = brake_pressed

LEMMA PrevInit == HooksInit => PrevInv
BY DEF HooksInit, PrevInv

LEMMA PrevNext == PrevInv /\ [HooksNext]_hookVars => PrevInv'
<1> SUFFICES ASSUME PrevInv, [HooksNext]_hookVars PROVE PrevInv'
  OBVIOUS
<1>1. ASSUME NEW request \in Requests, SetMode(request) PROVE PrevInv'
  BY <1>1 DEF SetMode, SetSafetyHooks, ResetDriver, PrevInv
<1>2. ASSUME NEW f \in RxFrames, RxFrame(f) PROVE PrevInv'
  BY <1>2 DEF RxFrame, SafetyRxHook, RxBody, driverVars, PrevInv
<1>3. CASE UNCHANGED driverVars
  BY <1>3 DEF driverVars, PrevInv
<1>4. \/ \E request \in Requests : SetMode(request)
      \/ \E f \in RxFrames : RxFrame(f)
      \/ UNCHANGED driverVars
  BY DEF HooksNext, SetUnsafeMode, HostSend, HooksTick, hookVars
<1> QED BY <1>1, <1>2, <1>3, <1>4

\* A press of either pedal ends control in the step that reports it.
THEOREM OverrideEnds == HooksSpec => OverrideExits
<1> DEFINE Step ==
      /\ gas_pressed' /\ ~gas_pressed /\ ~unsafe_mode => ~controls_allowed'
      /\ brake_pressed' /\ ~brake_pressed => ~controls_allowed'
<1>1. PrevInv /\ [HooksNext]_hookVars => [Step]_hookVars
  <2> SUFFICES ASSUME PrevInv, HooksNext PROVE Step
    OBVIOUS
  <2>1. ASSUME NEW request \in Requests, SetMode(request) PROVE Step
    BY <2>1 DEF SetMode, SetSafetyHooks
  <2>2. ASSUME NEW f \in RxFrames, RxFrame(f) PROVE Step
    <3>1. CASE RxBody(f)
      BY <3>1 DEF RxBody, GasExit, BrakeExit, PrevInv
    <3>2. CASE UNCHANGED driverVars
      BY <3>2 DEF driverVars
    <3> QED BY <2>2, <3>1, <3>2 DEF RxFrame, SafetyRxHook
  <2>3. CASE UNCHANGED driverVars
    BY <2>3 DEF driverVars
  <2> HIDE DEF Step
  <2> QED BY <2>1, <2>2, <2>3 DEF HooksNext, SetUnsafeMode, HostSend, HooksTick
<1> QED BY <1>1, PrevInit, PrevNext, PTL DEF HooksSpec, OverrideExits

\* Whatever took control away, only a new engagement of cruise gives it back.
THEOREM ReengagesOnEdge == HooksSpec => ReengageNeedsEdge
<1> DEFINE Step == ~controls_allowed /\ controls_allowed'
                     => ~cruise_engaged_prev /\ cruise_engaged_prev'
<1>1. HooksInv /\ [HooksNext]_hookVars => [Step]_hookVars
  <2> SUFFICES ASSUME HooksInv, HooksNext PROVE Step
    OBVIOUS
  <2>1. ASSUME NEW request \in Requests, SetMode(request) PROVE Step
    BY <2>1 DEF SetMode, SetSafetyHooks
  <2>2. ASSUME NEW f \in RxFrames, RxFrame(f) PROVE Step
    <3>1. CASE RxBody(f)
      BY <3>1 DEF RxBody, AllowedByAcc
    <3>2. CASE ~controls_allowed' \/ controls_allowed' = controls_allowed
      BY <3>2
    <3> QED BY <2>2, <3>1, <3>2 DEF RxFrame, SafetyRxHook
  <2>3. CASE HooksTick
    BY <2>3 DEF HooksTick
  <2>4. ASSUME NEW k \in TxFrames, HostSend(k) PROVE Step
    BY <2>4 DEF HostSend
  <2>5. ASSUME NEW b \in BOOLEAN, SetUnsafeMode(b) PROVE Step
    BY <2>5 DEF SetUnsafeMode
  <2> HIDE DEF Step
  <2> QED BY <2>1, <2>2, <2>3, <2>4, <2>5 DEF HooksNext
<1> QED BY <1>1, InitInv, NextInv, PTL DEF HooksSpec, ReengageNeedsEdge

-----------------------------------------------------------------------------
(* What leaves the panda. *)

\* A frame of the host that actuates leaves only with the driver's consent,
\* unless the relay fault is set.
THEOREM ActuationGuarded == HooksSpec => ActuationNeedsDriver
<1> DEFINE Step == wire' = FromHost("actuate") /\ ~relay_malfunction
                     => /\ current_safety_mode \in CarModes
                        /\ cruise_engaged_prev
                        /\ ~(brake_pressed /\ vehicle_moving)
<1>1. HooksInv /\ [HooksNext]_hookVars => [Step]_hookVars
  <2> SUFFICES ASSUME HooksInv, HooksNext,
                      wire' = FromHost("actuate"), ~relay_malfunction
               PROVE  /\ current_safety_mode \in CarModes
                      /\ cruise_engaged_prev
                      /\ ~(brake_pressed /\ vehicle_moving)
    OBVIOUS
  <2>1. wire'.src = "host" /\ wire'.what = "actuate"
    BY DEF FromHost
  <2>2. PICK k \in TxFrames : HostSend(k)
    BY <2>1 DEF HooksNext, SetMode, SetUnsafeMode, RxFrame, HooksTick, Nothing, Forwarded
  <2>3. SafetyTxHook(k) /\ k = "actuate"
    BY <2>1, <2>2 DEF HostSend, FromHost, Rejected
  <2>4. ModeTxHook("actuate")
    BY <2>3 DEF SafetyTxHook
  <2>5. current_safety_mode # "ELM327"
    BY <2>4 DEF ModeTxHook, CarModes
  <2>6. controls_allowed
    BY <2>4, <2>5 DEF ModeTxHook, CarModes
  <2> QED BY <2>6 DEF HooksInv, ControlsFollowCruise, NoControlWhileBraking
<1> QED BY <1>1, InitInv, NextInv, PTL DEF HooksSpec, ActuationNeedsDriver

-----------------------------------------------------------------------------
(* Lag. *)

LEMMA LagInit == HooksInit => LagEndsControls
BY DEF HooksInit, LagEndsControls

LEMMA LagRx ==
  ASSUME HooksInv, LagEndsControls, NEW f \in RxFrames, RxFrame(f)
  PROVE  LagEndsControls'
<1> SUFFICES ASSUME controls_allowed'
             PROVE  (\A c \in Checks : missed[c] <= 1)' \/ (missed["ACC"] = 0)'
  BY DEF LagEndsControls
<1>1. missed \in [Checks -> 0..MissedCap] /\ "ACC" \in Checks
  BY HooksAssumption DEF HooksInv, TypeOK
<1>2. missed' = missed \/ UpdateTimestamp(f)
  BY DEF RxFrame, SafetyRxHook
<1>3. \A c \in Checks : missed'[c] \in {0, missed[c]}
  BY <1>1, <1>2 DEF UpdateTimestamp
<1>4. CASE controls_allowed
  <2>1. (\A c \in Checks : missed[c] <= 1) \/ missed["ACC"] = 0
    BY <1>4 DEF LagEndsControls
  <2> QED BY <1>1, <1>3, <2>1
<1>5. CASE ~controls_allowed
  <2>1. RxBody(f) /\ f.bus = 0 /\ UpdateTimestamp(f)
    BY <1>5 DEF RxFrame, SafetyRxHook
  <2>2. f.id = "ACC"
    BY <1>5, <2>1 DEF RxBody, AllowedByAcc
  <2>3. Monitored(f)
    BY <1>1, <2>1, <2>2, HooksAssumption DEF Monitored
  <2>4. missed'["ACC"] = 0
    BY <1>1, <2>1, <2>2, <2>3 DEF UpdateTimestamp
  <2> QED BY <2>4
<1> QED BY <1>4, <1>5

LEMMA LagTick ==
  ASSUME HooksInv, HooksTick PROVE LagEndsControls'
<1> SUFFICES ASSUME controls_allowed' PROVE (\A c \in Checks : missed[c] <= 1)'
  BY DEF LagEndsControls
<1>1. controls_allowed /\ ~Lagging /\ AgeMessages
  BY DEF HooksTick
<1>2. missed \in [Checks -> 0..MissedCap] /\ MissedCap \in Nat
  BY HooksAssumption DEF HooksInv, TypeOK
<1>3. current_safety_mode \in CarModes
  BY <1>1 DEF HooksInv, ControlsFollowCruise
<1>4. \A c \in Checks : ~(missed[c] >= 1)
  BY <1>1, <1>3 DEF Lagging
<1>5. \A c \in Checks : missed[c] = 0
  BY <1>2, <1>4
<1> QED BY <1>1, <1>2, <1>5 DEF AgeMessages, AtMost

\* Controls outlast a message missing for more than a tick only by grace of an
\* ACC frame that came since the last one.
THEOREM LagEnds == HooksSpec => []LagEndsControls
<1>1. HooksInv /\ LagEndsControls /\ [HooksNext]_hookVars => LagEndsControls'
  <2> SUFFICES ASSUME HooksInv, LagEndsControls, [HooksNext]_hookVars
               PROVE  LagEndsControls'
    OBVIOUS
  <2>1. ASSUME NEW request \in Requests, SetMode(request) PROVE LagEndsControls'
    BY <2>1 DEF SetMode, SetSafetyHooks, LagEndsControls
  <2>2. ASSUME NEW f \in RxFrames, RxFrame(f) PROVE LagEndsControls'
    BY <2>2, LagRx
  <2>3. CASE HooksTick
    BY <2>3, LagTick
  <2>4. CASE UNCHANGED <<controls_allowed, missed>>
    BY <2>4 DEF LagEndsControls
  <2> QED BY <2>1, <2>2, <2>3, <2>4 DEF HooksNext, SetUnsafeMode, HostSend, hookVars
<1> QED BY <1>1, LagInit, InitInv, NextInv, PTL DEF HooksSpec

-----------------------------------------------------------------------------
(* The panda and its host. *)

\* What the supervisor keeps invariant besides HooksInv: the relay follows the
\* mode, a lost heartbeat excludes the modes that restart it, no mode but
\* SILENT outlives the count of missing heartbeats, and the count of unused
\* seconds is never below the true one.
RelayInv ==
  /\ intercept => current_safety_mode \in CarModes
  /\ heartbeat_lost => current_safety_mode \in {"SILENT", "NOOUTPUT"}
SilenceInv ==
  current_safety_mode # "SILENT" =>
    silence <= heartbeat_counter /\ silence < HEARTBEAT_IGNITION_CNT_ON
IdleInv ==
  /\ idle <= heartbeat_engaged_mismatches
  /\ idle < UNUSED_LIMIT
  /\ idle > 0 => controls_allowed /\ ~heartbeat_engaged
\* HostTypeOK in two halves: the flags and the counters.
FlagTypes ==
  /\ heartbeat_lost \in BOOLEAN /\ heartbeat_engaged \in BOOLEAN
  /\ intercept \in BOOLEAN /\ can_silent \in BOOLEAN /\ power_save \in BOOLEAN
  /\ ignition_line \in BOOLEAN /\ ignition_can \in BOOLEAN /\ host_up \in BOOLEAN
CounterTypes ==
  /\ heartbeat_counter \in 0..HEARTBEAT_IGNITION_CNT_ON
  /\ heartbeat_engaged_mismatches \in 0..UNUSED_LIMIT
  /\ siren_countdown \in 0..SIREN
  /\ controls_allowed_countdown \in 0..RECENT_CONTROL
  /\ ignition_can_cnt \in 0..CanCntCap
  /\ silence \in 0..HEARTBEAT_IGNITION_CNT_ON
  /\ idle \in 0..UNUSED_LIMIT
HostInv == HooksInv /\ HostTypeOK /\ RelayInv /\ SilenceInv /\ IdleInv

-----------------------------------------------------------------------------
(* The hooks inside the panda. *)

LEMMA SetModeHooks ==
  ASSUME HooksInv, NEW request, SetSafetyMode(request)
  PROVE  HooksInv'
<1>1. 0 \in 0..CntCap
  BY DEF CntCap, RELAY_TRNS_TIMEOUT
<1>2. wire' \in WireValues
  BY DEF SetSafetyMode, Nothing, WireValues
<1> QED
  BY <1>1, <1>2, SetHooksInv DEF SetSafetyMode, HooksInv, TypeOK

\* Requests that only restart the heartbeat or switch the transceivers.
LEMMA QuietHooks ==
  ASSUME HooksInv, wire' = Nothing,
         UNCHANGED <<current_safety_mode, controls_allowed, relay_malfunction,
                     driverVars, unsafe_mode, safety_mode_cnt, missed>>
  PROVE  HooksInv'
<1>1. wire' \in WireValues
  BY DEF Nothing, WireValues
<1> QED
  BY <1>1, KeepInv DEF HooksInv, TypeOK

LEMMA ResetHooks == ASSUME Reset PROVE HooksInv'
<1>1. 0 \in 0..CntCap
  BY DEF CntCap, RELAY_TRNS_TIMEOUT
<1>2. wire' \in WireValues
  BY DEF Reset, Nothing, WireValues
<1>3. missed' \in [Checks -> 0..MissedCap]
  BY HooksAssumption DEF Reset
<1> QED
  BY <1>1, <1>2, <1>3, SetHooksInv DEF Reset

LEMMA StayHooks ==
  ASSUME HooksInv, TickCommon, StayInMode
  PROVE  HooksInv'
<1>1. controls_allowed' \in BOOLEAN /\ (controls_allowed' => controls_allowed)
  BY DEF StayInMode
<1> QED
  BY <1>1, StayInv DEF TickCommon, StayInMode

LEMMA TickHooks == ASSUME HooksInv, Tick PROVE HooksInv'
<1>1. CASE TickInTouch
  BY <1>1, StayHooks DEF TickInTouch
<1>2. CASE TickOutOfTouch
  <2>1. CASE current_safety_mode = "SILENT"
    BY <1>2, <2>1, StayHooks DEF TickOutOfTouch
  <2>2. CASE current_safety_mode # "SILENT"
    <3>1. 1 \in 0..CntCap
      BY DEF CntCap, RELAY_TRNS_TIMEOUT
    <3>2. wire' \in WireValues
      BY <1>2 DEF TickOutOfTouch, TickCommon, Nothing, WireValues
    <3>3. missed' \in [Checks -> 0..MissedCap]
      BY <1>2, AgeType DEF TickOutOfTouch, TickCommon, HooksInv, TypeOK
    <3> QED
      BY <1>2, <2>2, <3>1, <3>2, <3>3, SetHooksInv
         DEF TickOutOfTouch, TickCommon, HooksInv, TypeOK
  <2> QED BY <2>1, <2>2
<1> QED BY <1>1, <1>2 DEF Tick

\* Every step of the panda keeps the invariant of the hooks.
LEMMA PandaHooksInv == ASSUME HooksInv, PandaNext PROVE HooksInv'
<1>1. ASSUME NEW request \in Requests, SetSafetyMode(request) PROVE HooksInv'
  BY <1>1, SetModeHooks
<1>2. ASSUME NEW engaged \in BOOLEAN, Heartbeat(engaged) PROVE HooksInv'
  BY <1>2, QuietHooks DEF Heartbeat
<1>3. ASSUME NEW enabled \in BOOLEAN, SetPowerSave(enabled) PROVE HooksInv'
  BY <1>3, QuietHooks DEF SetPowerSave
<1>4. ASSUME NEW b \in BOOLEAN, SetUnsafe(b) PROVE HooksInv'
  BY <1>4, UnsafeInv DEF SetUnsafe
<1>5. ASSUME NEW k \in TxFrames, SendFrame(k) PROVE HooksInv'
  BY <1>5, SendInv DEF SendFrame
<1>6. ASSUME NEW f \in RxFrames, CanRx(f) PROVE HooksInv'
  BY <1>6, RxInv DEF CanRx
<1>7. CASE TurnKey
  BY <1>7, StutterInv DEF TurnKey
<1>8. CASE Reset
  BY <1>8, ResetHooks
<1>9. CASE Tick
  BY <1>9, TickHooks
<1> QED
  BY <1>1, <1>2, <1>3, <1>4, <1>5, <1>6, <1>7, <1>8, <1>9
     DEF PandaNext, HostAction, CarAction

-----------------------------------------------------------------------------
(* The supervisor. *)

\* The bounds the assumptions give, in the form the proofs use.
LEMMA Bounds ==
  /\ HEARTBEAT_IGNITION_CNT_ON \in Nat /\ HEARTBEAT_IGNITION_CNT_ON > 0
  /\ UNUSED_LIMIT \in Nat /\ UNUSED_LIMIT > 0
  /\ RECENT_CONTROL \in Nat /\ SIREN \in Nat
BY PandaAssumption

LEMMA TypeHalves == HostTypeOK <=> TypeOK /\ FlagTypes /\ CounterTypes
BY DEF HostTypeOK, PandaTypeOK, FlagTypes, CounterTypes

\* The same after a step.
LEMMA TypeHalvesNext ==
  ASSUME HooksInv', FlagTypes', CounterTypes'
  PROVE  HostTypeOK'
BY DEF HostTypeOK, PandaTypeOK, FlagTypes, CounterTypes, HooksInv

LEMMA InitHost == Init => HostInv
<1> SUFFICES ASSUME Init PROVE HostInv
  OBVIOUS
<1>1. HooksInv
  BY InitInv DEF Init, PandaInit
<1>2. HostTypeOK
  <2>1. FlagTypes
    BY DEF Init, PandaInit, FlagTypes
  <2>2. CounterTypes
    BY Bounds DEF Init, PandaInit, CounterTypes, CanCntCap
  <2> QED
    BY <1>1, <2>1, <2>2, TypeHalves DEF HooksInv
<1>3. RelayInv
  BY DEF Init, PandaInit, HooksInit, RelayInv, CarModes
<1>4. SilenceInv /\ IdleInv
  BY Bounds DEF Init, PandaInit, HooksInit, SilenceInv, IdleInv
<1> QED
  BY <1>1, <1>2, <1>3, <1>4 DEF HostInv

\* A request that grants a mode.
LEMMA SetModeStep ==
  ASSUME HostInv, NEW request, SetSafetyMode(request),
         silence' = 0, IdleAfter(idle), UNCHANGED host_up
  PROVE  HostInv'
<1>1. HooksInv'
  BY SetModeHooks DEF HostInv
<1>2. HostTypeOK'
  <2>1. intercept' \in BOOLEAN /\ can_silent' \in BOOLEAN
    BY DEF SetSafetyMode, FollowMode
  <2>2. heartbeat_lost' \in BOOLEAN
    BY TypeHalves DEF HostInv, FlagTypes, SetSafetyMode
  <2>3. FlagTypes'
    BY <2>1, <2>2, TypeHalves DEF HostInv, FlagTypes, SetSafetyMode, ignitionVars
  <2>4. CounterTypes'
    BY TypeHalves, Bounds DEF HostInv, CounterTypes, SetSafetyMode, IdleAfter,
       sirenVars, ignitionVars
  <2> QED
    BY <1>1, <2>3, <2>4, TypeHalvesNext
<1>3. RelayInv'
  BY GrantedType DEF HostInv, RelayInv, SetSafetyMode, SetSafetyHooks, FollowMode,
     RestartsHeartbeat, Registry, CarModes
<1>4. SilenceInv'
  BY <1>2, Bounds DEF HostTypeOK, PandaTypeOK, SilenceInv
<1>5. IdleInv'
  BY Bounds DEF HostInv, HostTypeOK, PandaTypeOK, SetSafetyMode, SetSafetyHooks,
     IdleAfter, IdleInv
<1> QED
  BY <1>1, <1>2, <1>3, <1>4, <1>5 DEF HostInv

\* The other requests of the host, and what the car does short of a reset.
LEMMA SameModeStep ==
  ASSUME HostInv, HooksInv',
         current_safety_mode' = current_safety_mode, UNCHANGED relayVars,
         heartbeat_engaged_mismatches' = heartbeat_engaged_mismatches,
         UNCHANGED sirenVars,
         heartbeat_counter' \in 0..HEARTBEAT_IGNITION_CNT_ON,
         heartbeat_lost' \in BOOLEAN, heartbeat_lost' => heartbeat_lost,
         heartbeat_engaged' \in BOOLEAN, power_save' \in BOOLEAN,
         ignition_line' \in BOOLEAN, ignition_can' \in BOOLEAN,
         ignition_can_cnt' \in 0..CanCntCap,
         silence' = 0 \/ (silence' = silence /\ heartbeat_counter' = heartbeat_counter),
         IdleAfter(idle), UNCHANGED host_up
  PROVE  HostInv'
<1>1. idle' \in {0, idle} /\ (idle' > 0 => controls_allowed' /\ ~heartbeat_engaged')
  BY DEF IdleAfter
<1>2. HostTypeOK'
  <2>1. FlagTypes'
    BY TypeHalves DEF HostInv, FlagTypes, relayVars
  <2>2. CounterTypes'
    BY <1>1, TypeHalves, Bounds DEF HostInv, CounterTypes, sirenVars
  <2> QED
    BY <2>1, <2>2, TypeHalvesNext
<1>3. RelayInv'
  BY DEF HostInv, RelayInv, relayVars
<1>4. SilenceInv'
  BY <1>2, Bounds DEF HostInv, HostTypeOK, PandaTypeOK, SilenceInv
<1>5. IdleInv'
  BY <1>1, Bounds DEF HostInv, HostTypeOK, PandaTypeOK, IdleInv
<1> QED
  BY <1>2, <1>3, <1>4, <1>5 DEF HostInv

LEMMA HostStepInv == ASSUME HostInv, HostStep PROVE HostInv'
<1>0. /\ silence' = 0 /\ IdleAfter(idle) /\ UNCHANGED host_up
      /\ HostAction
  BY DEF HostStep
<1>1. ASSUME NEW request \in Requests, SetSafetyMode(request) PROVE HostInv'
  BY <1>0, <1>1, SetModeStep
<1>2. ASSUME NEW engaged \in BOOLEAN, Heartbeat(engaged) PROVE HostInv'
  <2>1. HooksInv'
    BY <1>2, QuietHooks DEF Heartbeat, HostInv
  <2>2. heartbeat_counter' \in 0..HEARTBEAT_IGNITION_CNT_ON
    BY <1>2, Bounds DEF Heartbeat
  <2>3. heartbeat_lost' \in BOOLEAN /\ (heartbeat_lost' => heartbeat_lost)
    BY <1>2 DEF Heartbeat
  <2>4. heartbeat_engaged' \in BOOLEAN
    BY <1>2 DEF Heartbeat
  <2> QED
    BY <1>0, <1>2, <2>1, <2>2, <2>3, <2>4, SameModeStep
       DEF Heartbeat, HostInv, HostTypeOK, PandaTypeOK, ignitionVars
<1>3. ASSUME NEW enabled \in BOOLEAN, SetPowerSave(enabled) PROVE HostInv'
  <2>1. HooksInv'
    BY <1>3, QuietHooks DEF SetPowerSave, HostInv
  <2> QED
    BY <1>0, <1>3, <2>1, SameModeStep
       DEF SetPowerSave, HostInv, HostTypeOK, PandaTypeOK, heartbeatVars, ignitionVars
<1>4. ASSUME NEW b \in BOOLEAN, SetUnsafe(b) PROVE HostInv'
  <2>1. HooksInv' /\ current_safety_mode' = current_safety_mode
    BY <1>4, UnsafeInv DEF SetUnsafe, SetUnsafeMode, HostInv
  <2> QED
    BY <1>0, <1>4, <2>1, SameModeStep
       DEF SetUnsafe, HostInv, HostTypeOK, PandaTypeOK, heartbeatVars, ignitionVars
<1>5. ASSUME NEW k \in TxFrames, SendFrame(k) PROVE HostInv'
  <2>1. HooksInv' /\ current_safety_mode' = current_safety_mode
    BY <1>5, SendInv DEF SendFrame, HostSend, HostInv
  <2> QED
    BY <1>0, <1>5, <2>1, SameModeStep
       DEF SendFrame, HostInv, HostTypeOK, PandaTypeOK, heartbeatVars, ignitionVars
<1> QED
  BY <1>0, <1>1, <1>2, <1>3, <1>4, <1>5 DEF HostAction

LEMMA CarStepInv == ASSUME HostInv, CarStep PROVE HostInv'
<1>0. /\ silence' = silence /\ IdleAfter(idle) /\ UNCHANGED host_up
      /\ CarAction
  BY DEF CarStep
<1>1. ASSUME NEW f \in RxFrames, CanRx(f) PROVE HostInv'
  <2>1. HooksInv' /\ current_safety_mode' = current_safety_mode
    BY <1>1, RxInv DEF CanRx, RxFrame, HostInv
  <2>2. ignition_can' \in BOOLEAN /\ ignition_can_cnt' \in 0..CanCntCap
    <3>1. f.on \in BOOLEAN
      BY HooksAssumption DEF Frame
    <3> QED
      BY <1>1, <3>1 DEF CanRx, HostInv, HostTypeOK, PandaTypeOK, CanCntCap
  <2> QED
    BY <1>0, <1>1, <2>1, <2>2, SameModeStep
       DEF CanRx, HostInv, HostTypeOK, PandaTypeOK, heartbeatVars
<1>2. CASE TurnKey
  <2>1. HooksInv' /\ current_safety_mode' = current_safety_mode
    BY <1>2, StutterInv DEF TurnKey, hookVars, HostInv
  <2> QED
    BY <1>0, <1>2, <2>1, SameModeStep
       DEF TurnKey, HostInv, HostTypeOK, PandaTypeOK, heartbeatVars
<1>3. CASE Reset
  <2>1. HooksInv'
    BY <1>3, ResetHooks
  <2>2. HostTypeOK'
    <3>1. intercept' \in BOOLEAN /\ can_silent' \in BOOLEAN
      BY <1>3 DEF Reset, FollowMode
    <3>2. FlagTypes'
      BY <1>0, <1>3, <3>1, TypeHalves DEF HostInv, FlagTypes, Reset
    <3>3. CounterTypes'
      BY <1>0, <1>3, TypeHalves, Bounds DEF HostInv, CounterTypes, Reset, IdleAfter,
         CanCntCap
    <3> QED
      BY <2>1, <3>2, <3>3, TypeHalvesNext
  <2>3. RelayInv'
    BY <1>3 DEF Reset, SetSafetyHooks, FollowMode, Granted, Registry, CarModes, RelayInv
  <2>4. SilenceInv' /\ IdleInv'
    BY <1>0, <1>3, Bounds DEF Reset, SetSafetyHooks, Granted, Registry, IdleAfter,
       SilenceInv, IdleInv
  <2> QED
    BY <2>1, <2>2, <2>3, <2>4 DEF HostInv
<1> QED
  BY <1>0, <1>1, <1>2, <1>3 DEF CarAction

\* What a tick does to the counters, in either branch.
LEMMA TickCounters ==
  ASSUME HostInv, TickStep
  PROVE  /\ TickCommon /\ UNCHANGED host_up
         /\ CounterTypes'
         /\ heartbeat_counter' = CounterAfter
         /\ CounterAfter = AtMost(heartbeat_counter + 1, HEARTBEAT_IGNITION_CNT_ON)
         /\ silence' = AtMost(silence + 1, HEARTBEAT_IGNITION_CNT_ON)
<1>1. TickCommon /\ UNCHANGED host_up
  BY DEF TickStep, Tick, TickInTouch, TickOutOfTouch
<1>2. /\ heartbeat_counter \in 0..HEARTBEAT_IGNITION_CNT_ON
      /\ heartbeat_engaged_mismatches \in 0..UNUSED_LIMIT
      /\ siren_countdown \in 0..SIREN
      /\ controls_allowed_countdown \in 0..RECENT_CONTROL
      /\ ignition_can_cnt \in 0..CanCntCap
      /\ silence \in 0..HEARTBEAT_IGNITION_CNT_ON
      /\ idle \in 0..UNUSED_LIMIT
  BY TypeHalves DEF HostInv, CounterTypes
<1>3. CounterAfter \in 0..HEARTBEAT_IGNITION_CNT_ON
  BY <1>2, Bounds DEF CounterAfter, AtMost
<1>4. MismatchesAfter \in 0..UNUSED_LIMIT
  BY <1>2, Bounds DEF MismatchesAfter, AtMost
<1>5. ignition_can_cnt' \in 0..CanCntCap
  BY <1>1, <1>2 DEF TickCommon, AtMost, CanCntCap
<1>6. silence' \in 0..HEARTBEAT_IGNITION_CNT_ON
  BY <1>2, Bounds DEF TickStep, AtMost
<1>7. idle' \in 0..UNUSED_LIMIT
  BY <1>2, Bounds DEF TickStep, IdleAfter, AtMost
<1>8. /\ LessOne(siren_countdown) \in 0..SIREN
      /\ CountdownAfter \in 0..RECENT_CONTROL
  BY <1>2, Bounds DEF LessOne, CountdownAfter
<1>9. siren_countdown' \in 0..SIREN /\ controls_allowed_countdown' \in 0..RECENT_CONTROL
  BY <1>8, Bounds DEF TickStep, Tick, TickInTouch, TickOutOfTouch
<1> QED
  BY <1>1, <1>3, <1>4, <1>5, <1>6, <1>7, <1>9
     DEF CounterTypes, TickCommon, CounterAfter, TickStep

\* A tick that leaves the mode alone keeps the count of unused seconds.
LEMMA StayIdle ==
  ASSUME HostInv, TickStep, StayInMode
  PROVE  IdleInv'
<1>1. /\ idle \in Nat /\ heartbeat_engaged_mismatches \in Nat
      /\ idle <= heartbeat_engaged_mismatches
  BY DEF HostInv, HostTypeOK, PandaTypeOK, IdleInv
<1>2. TickCommon
  BY TickCounters
<1>3. /\ heartbeat_engaged_mismatches' = MismatchesAfter
      /\ heartbeat_engaged' = heartbeat_engaged
  BY <1>2 DEF TickCommon
<1>4. MismatchesAfter \in Nat
  BY <1>1, Bounds DEF MismatchesAfter, AtMost
<1>5. CASE controls_allowed' /\ ~heartbeat_engaged'
  <2>1. controls_allowed /\ ~heartbeat_engaged /\ ~Unused
    BY <1>3, <1>5 DEF StayInMode
  <2>2. MismatchesAfter < UNUSED_LIMIT
    BY <2>1, <1>4, Bounds DEF Unused
  <2>3. MismatchesAfter = AtMost(heartbeat_engaged_mismatches + 1, UNUSED_LIMIT)
    BY <2>1 DEF MismatchesAfter
  <2>4. idle' = AtMost(idle + 1, UNUSED_LIMIT)
    BY <1>5 DEF TickStep, IdleAfter
  <2>5. idle' <= MismatchesAfter /\ idle' < UNUSED_LIMIT
    BY <1>1, <2>2, <2>3, <2>4, Bounds DEF AtMost
  <2> QED
    BY <1>3, <1>5, <2>5 DEF IdleInv
<1>6. CASE ~(controls_allowed' /\ ~heartbeat_engaged')
  <2>1. idle' = 0
    BY <1>6 DEF TickStep, IdleAfter
  <2> QED
    BY <1>3, <1>4, <2>1, Bounds DEF IdleInv
<1> QED
  BY <1>5, <1>6

LEMMA TickStepInv == ASSUME HostInv, TickStep PROVE HostInv'
<1>1. HooksInv'
  BY TickHooks DEF HostInv, TickStep
<1>2. TickCommon /\ UNCHANGED host_up /\ CounterTypes'
  BY TickCounters
<1>3. /\ heartbeat_engaged' = heartbeat_engaged /\ ignition_line' = ignition_line
      /\ ignition_can' \in BOOLEAN
  BY <1>2 DEF TickCommon
<1>4. FlagTypes
  BY TypeHalves DEF HostInv
<1>5. CASE TickInTouch
  <2>1. /\ StayInMode
        /\ heartbeat_lost' = heartbeat_lost /\ power_save' = power_save
    BY <1>5 DEF TickInTouch
  <2>2. FlagTypes'
    BY <1>2, <1>3, <1>4, <2>1 DEF FlagTypes, StayInMode, relayVars
  <2>3. RelayInv'
    BY <2>1 DEF HostInv, RelayInv, StayInMode, relayVars
  <2>4. SilenceInv'
    <3> SUFFICES ASSUME current_safety_mode' # "SILENT"
                 PROVE  silence' <= heartbeat_counter'
                        /\ silence' < HEARTBEAT_IGNITION_CNT_ON
      BY DEF SilenceInv
    <3>1. silence <= heartbeat_counter /\ silence \in Nat /\ heartbeat_counter \in Nat
      BY <2>1 DEF HostInv, SilenceInv, HostTypeOK, PandaTypeOK, StayInMode
    <3>2. CounterAfter < HEARTBEAT_IGNITION_CNT_ON
      BY <1>5, <3>1, PandaAssumption, Bounds
         DEF TickInTouch, HeartbeatGone, CounterAfter, AtMost
    <3> QED
      BY <3>1, <3>2, TickCounters, Bounds DEF AtMost
  <2> QED
    BY <1>1, <1>2, <2>1, <2>2, <2>3, <2>4, StayIdle, TypeHalvesNext DEF HostInv
<1>6. CASE TickOutOfTouch
  <2>1. power_save' \in BOOLEAN /\ heartbeat_lost' \in BOOLEAN
    BY <1>6 DEF TickOutOfTouch
  <2>2. CASE current_safety_mode = "SILENT"
    <3>1. StayInMode /\ (heartbeat_lost' => heartbeat_lost)
      BY <1>4, <1>6, <2>2 DEF TickOutOfTouch, CarModes, FlagTypes
    <3>2. FlagTypes'
      BY <1>2, <1>3, <1>4, <2>1, <3>1 DEF FlagTypes, StayInMode, relayVars
    <3>3. RelayInv' /\ SilenceInv'
      BY <2>2, <3>1 DEF HostInv, RelayInv, SilenceInv, StayInMode, relayVars
    <3> QED
      BY <1>1, <1>2, <3>1, <3>2, <3>3, StayIdle, TypeHalvesNext DEF HostInv
  <2>3. CASE current_safety_mode # "SILENT"
    <3>1. SetSafetyHooks("SILENT", 1) /\ FollowMode("SILENT")
      BY <1>6, <2>3 DEF TickOutOfTouch
    <3>2. current_safety_mode' = "SILENT" /\ controls_allowed' = FALSE
      BY <3>1 DEF SetSafetyHooks, Granted, Registry
    <3>3. intercept' \in BOOLEAN /\ can_silent' \in BOOLEAN /\ ~intercept'
      <4>1. "SILENT" \notin CarModes
        BY DEF CarModes
      <4>2. intercept' \in BOOLEAN /\ can_silent' \in BOOLEAN
        BY <3>1 DEF FollowMode
      <4>3. ~intercept'
        BY <3>1, <4>1 DEF FollowMode
      <4> QED
        BY <4>2, <4>3
    <3>4. FlagTypes'
      BY <1>2, <1>3, <1>4, <2>1, <3>3 DEF FlagTypes
    <3>5. RelayInv' /\ SilenceInv'
      BY <3>2, <3>3 DEF RelayInv, SilenceInv
    <3>6. idle' = 0
      BY <3>2 DEF TickStep, IdleAfter
    <3>7. IdleInv'
      BY <1>2, <3>6, Bounds DEF CounterTypes, IdleInv
    <3> QED
      BY <1>1, <1>2, <3>4, <3>5, <3>7, TypeHalvesNext DEF HostInv
  <2> QED
    BY <2>2, <2>3
<1> QED
  BY <1>5, <1>6 DEF TickStep, Tick

\* The host dies or comes back: the panda does not notice.
LEMMA LifeInv ==
  ASSUME HostInv, UNCHANGED <<pandaVars, silence, idle>>, host_up' \in BOOLEAN
  PROVE  HostInv'
<1>1. HooksInv'
  BY StutterInv DEF HostInv, pandaVars
<1>2. FlagTypes' /\ CounterTypes'
  BY TypeHalves DEF HostInv, FlagTypes, CounterTypes, pandaVars, heartbeatVars,
     sirenVars, relayVars, ignitionVars
<1>3. RelayInv' /\ SilenceInv' /\ IdleInv'
  BY DEF HostInv, RelayInv, SilenceInv, IdleInv, pandaVars, hookVars, heartbeatVars,
     relayVars
<1> QED
  BY <1>1, <1>2, <1>3, TypeHalvesNext DEF HostInv

\* HostInv is inductive: every step of the panda, the car and the host, in any
\* order, keeps it.
LEMMA NextHost == HostInv /\ [Next]_vars => HostInv'
<1> SUFFICES ASSUME HostInv, [Next]_vars PROVE HostInv'
  OBVIOUS
<1>1. CASE HostStep
  BY <1>1, HostStepInv
<1>2. CASE CarStep
  BY <1>2, CarStepInv
<1>3. CASE TickStep
  BY <1>3, TickStepInv
<1>4. CASE HostCrash \/ HostReturn
  BY <1>4, LifeInv DEF HostCrash, HostReturn
<1>5. CASE UNCHANGED vars
  <2>1. host_up' \in BOOLEAN
    BY <1>5 DEF vars, HostInv, HostTypeOK
  <2> QED
    BY <1>5, <2>1, LifeInv DEF vars
<1> QED
  BY <1>1, <1>2, <1>3, <1>4, <1>5 DEF Next

LEMMA HostInvariant == Spec => []HostInv
BY InitHost, NextHost, PTL DEF Spec

-----------------------------------------------------------------------------
(* Theorems. *)

\* The variables keep their types (main.c, safety.h).
THEOREM HostTypes == Spec => []HostTypeOK
<1>1. HostInv => HostTypeOK
  BY DEF HostInv
<1> QED
  BY <1>1, HostInvariant, PTL

\* Whatever the frames, requests, crashes and keys: no mode but SILENT
\* survives HEARTBEAT_IGNITION_CNT_ON ticks without a word from the host
\* (tick_handler, set_safety_mode).
THEOREM SilentHostLosesControl == Spec => []SilentHostLosesMode
<1>1. HostInv => SilentHostLosesMode
  BY DEF HostInv, SilenceInv, SilentHostLosesMode
<1> QED
  BY <1>1, HostInvariant, PTL

\* After a loss of the heartbeat no car mode is set and the relay stays off
\* until the host is back: every way a mode is set passes set_safety_mode, which
\* moves the relay with it (tick_handler, set_safety_mode).
THEOREM LostHostStaysOut == Spec => []LostMeansPassive
<1>1. HostInv => LostMeansPassive
  BY DEF HostInv, RelayInv, LostMeansPassive, CarModes
<1> QED
  BY <1>1, HostInvariant, PTL

\* Controls the host leaves unused are gone after UNUSED_LIMIT ticks
\* (heartbeat_engaged_mismatches in tick_handler).
THEOREM UnusedControlsGo == Spec => []UnusedControlsExpire
<1>1. HostInv => UnusedControlsExpire
  BY DEF HostInv, IdleInv, UnusedControlsExpire
<1> QED
  BY <1>1, HostInvariant, PTL

\* A lost heartbeat that takes control away starts the siren (tick_handler).
THEOREM LossIsHeard == Spec => LossSounds
<1> DEFINE Step == ~heartbeat_lost /\ heartbeat_lost' /\ controls_allowed
                     => siren_countdown' = SIREN
<1>1. [Next]_vars => [Step]_vars
  <2> SUFFICES ASSUME Next, ~heartbeat_lost, heartbeat_lost', controls_allowed
               PROVE  siren_countdown' = SIREN
    OBVIOUS
  <2>1. TickOutOfTouch
    BY DEF Next, HostStep, HostAction, SetSafetyMode, Heartbeat, SetPowerSave, SetUnsafe,
       SendFrame, CarStep, CarAction, CanRx, TurnKey, Reset, TickStep, Tick, TickInTouch,
       HostCrash, HostReturn, pandaVars, heartbeatVars
  <2>2. CountdownAfter > 0
    BY PandaAssumption DEF CountdownAfter
  <2> QED BY <2>1, <2>2 DEF TickOutOfTouch
<1> QED BY <1>1, PTL DEF Spec, LossSounds


\* The whole panda never lets the host command the car without cruise or
\* against the brake, whoever resets, silences or re-grants its mode.
THEOREM PandaSafe == Spec => [](ControlsFollowCruise /\ NoControlWhileBraking)
<1>1. HostInv => ControlsFollowCruise /\ NoControlWhileBraking
  BY DEF HostInv, HooksInv, ControlsFollowCruise, NoControlWhileBraking
<1> QED
  BY <1>1, HostInvariant, PTL

-----------------------------------------------------------------------------
(* The panda implements the dead man's switch. *)

\* The host's requests never give the host command.
LEMMA HostTakesNothing ==
  ASSUME HostInv, HostAction
  PROVE  controls_allowed' \in {FALSE, controls_allowed}
BY DEF HostAction, SetSafetyMode, SetSafetyHooks, Heartbeat, SetPowerSave, SetUnsafe,
   SetUnsafeMode, SendFrame, HostSend

\* Whoever has command acts on the car.
LEMMA CommandActs ==
  ASSUME HooksInv'
  PROVE  controls_allowed' => current_safety_mode' # "SILENT"
BY DEF HooksInv, ControlsFollowCruise, CarModes

LEMMA SettleAfter ==
  ASSUME IdleAfter(idle)
  PROVE  Switch!Settle
BY DEF IdleAfter, Switch!Settle

LEMMA HostIsContact == ASSUME HostInv, HostStep PROVE Switch!Contact
<1>1. HooksInv'
  BY HostStepInv DEF HostInv
<1>2. controls_allowed' \in {FALSE, controls_allowed}
  BY HostTakesNothing DEF HostStep
<1>3. Switch!Settle
  BY SettleAfter DEF HostStep
<1>4. silence' = 0
  BY DEF HostStep
<1> QED
  BY <1>1, <1>2, <1>3, <1>4, CommandActs DEF Switch!Contact

LEMMA CarIsDriver ==
  ASSUME HostInv, CarStep
  PROVE  Switch!Driver \/ Switch!Restart
<1>1. HooksInv'
  BY CarStepInv DEF HostInv
<1>2. Switch!Settle /\ silence' = silence
  BY SettleAfter DEF CarStep
<1>3. controls_allowed' \in BOOLEAN
  BY <1>1 DEF HooksInv, TypeOK
<1>4. ASSUME current_safety_mode' = current_safety_mode PROVE Switch!Driver
  BY <1>1, <1>2, <1>3, <1>4, CommandActs DEF Switch!Driver
<1>5. ASSUME NEW f \in RxFrames, CanRx(f) PROVE Switch!Driver
  BY <1>4, <1>5 DEF CanRx, RxFrame
<1>6. CASE TurnKey
  BY <1>4, <1>6 DEF TurnKey, hookVars
<1>7. CASE Reset
  <2>1. current_safety_mode' = "SILENT" /\ controls_allowed' = FALSE
    BY <1>7 DEF Reset, SetSafetyHooks, Granted, Registry
  <2>2. idle' = 0
    BY <2>1 DEF CarStep, IdleAfter
  <2> QED
    BY <1>2, <2>1, <2>2 DEF Switch!Restart
<1> QED
  BY <1>5, <1>6, <1>7 DEF CarStep, CarAction

LEMMA TickIsSecond == ASSUME HostInv, TickStep PROVE Switch!Second
<1>1. HooksInv' /\ SilenceInv' /\ IdleInv'
  BY TickStepInv DEF HostInv
<1>2. /\ silence \in 0..HEARTBEAT_IGNITION_CNT_ON
      /\ idle \in Nat /\ idle < UNUSED_LIMIT
  BY DEF HostInv, HostTypeOK, PandaTypeOK, IdleInv
<1>3. silence' = IF silence < HEARTBEAT_IGNITION_CNT_ON
                   THEN silence + 1 ELSE HEARTBEAT_IGNITION_CNT_ON
  BY <1>2, Bounds DEF TickStep, AtMost
<1>4. /\ current_safety_mode' \in {"SILENT", current_safety_mode}
      /\ controls_allowed' => controls_allowed
      /\ controls_allowed' \in BOOLEAN /\ controls_allowed \in BOOLEAN
  <2>1. controls_allowed' \in BOOLEAN /\ controls_allowed \in BOOLEAN
    BY <1>1 DEF HostInv, HooksInv, TypeOK
  <2>2. ASSUME StayInMode
        PROVE  /\ current_safety_mode' = current_safety_mode
               /\ controls_allowed' => controls_allowed
    BY <2>2 DEF StayInMode
  <2>3. ASSUME SetSafetyHooks("SILENT", 1)
        PROVE  current_safety_mode' = "SILENT" /\ ~controls_allowed'
    BY <2>3 DEF SetSafetyHooks, Granted, Registry
  <2> QED
    BY <2>1, <2>2, <2>3 DEF TickStep, Tick, TickInTouch, TickOutOfTouch
<1>5. idle' \in IF controls_allowed' THEN {0, idle + 1} ELSE {0}
  <2>1. AtMost(idle + 1, UNUSED_LIMIT) = idle + 1
    BY <1>2, Bounds DEF AtMost
  <2> QED
    BY <2>1 DEF TickStep, IdleAfter
<1>6. (current_safety_mode' # "SILENT") => silence' < HEARTBEAT_IGNITION_CNT_ON
  BY <1>1 DEF SilenceInv
<1>7. idle' < UNUSED_LIMIT
  BY <1>1 DEF IdleInv
<1>8. (current_safety_mode' # "SILENT") \in {FALSE, current_safety_mode # "SILENT"}
  BY <1>4
<1>9. controls_allowed' \in {FALSE, controls_allowed}
  BY <1>4
<1> QED
  BY <1>1, <1>3, <1>5, <1>6, <1>7, <1>8, <1>9, CommandActs DEF Switch!Second

\* Every step of the panda and its host is a step of the dead man's switch or
\* does not touch it: the host alone never takes command, and out of touch or
\* idle for too long it loses it (main.c, safety.h).
THEOREM ImplementsDeadMan == Spec => IsDeadManSwitch
<1>1. Init => Switch!DeadManInit
  BY DEF Init, PandaInit, HooksInit, Switch!DeadManInit
<1>2. HostInv /\ [Next]_vars => [Switch!DeadManNext]_(Switch!deadManVars)
  <2> SUFFICES ASSUME HostInv, [Next]_vars
               PROVE  Switch!DeadManNext \/ UNCHANGED Switch!deadManVars
    OBVIOUS
  <2>1. CASE HostStep
    BY <2>1, HostIsContact DEF Switch!DeadManNext
  <2>2. CASE CarStep
    BY <2>2, CarIsDriver DEF Switch!DeadManNext
  <2>3. CASE TickStep
    BY <2>3, TickIsSecond DEF Switch!DeadManNext
  <2>4. CASE HostCrash \/ HostReturn \/ UNCHANGED vars
    BY <2>4 DEF HostCrash, HostReturn, vars, pandaVars, hookVars, Switch!deadManVars
  <2> QED
    BY <2>1, <2>2, <2>3, <2>4 DEF Next
<1> QED
  BY <1>1, <1>2, HostInvariant, PTL DEF Spec, IsDeadManSwitch, Switch!DeadManSpec
=============================================================================
