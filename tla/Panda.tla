------------------------------- MODULE Panda -------------------------------
(***************************************************************************)
(* The panda's supervisor: the safety mode with the relay and the CAN       *)
(* transceivers that follow it, the heartbeat the host has to keep up, the  *)
(* siren, power saving and the ignition seen on CAN.  Translated from       *)
(* panda/board/main.c (set_safety_mode, tick_handler), the control requests *)
(* of usb_comms.h, power_saving.h and ignition_can_hook in                  *)
(* drivers/can_common.h, on top of the hooks of PandaHooks.                 *)
(*                                                                         *)
(* tick_handler runs at 8 Hz and does everything modelled here once in      *)
(* eight times: Tick is that 1 Hz part.  The build is a release build       *)
(* (no ALLOW_DEBUG), so heartbeat_disabled stays false.                     *)
(***************************************************************************)
EXTENDS PandaHooks

CONSTANTS
  HEARTBEAT_IGNITION_CNT_ON, HEARTBEAT_IGNITION_CNT_OFF,
  UNUSED_LIMIT,    \* seconds of unused controls before they are dropped (3)
  RECENT_CONTROL,  \* seconds after control during which a loss sounds (30)
  SIREN            \* seconds the siren sounds (5)

ASSUME PandaAssumption ==
  /\ HEARTBEAT_IGNITION_CNT_ON \in Nat \ {0}
  /\ HEARTBEAT_IGNITION_CNT_OFF \in 1..HEARTBEAT_IGNITION_CNT_ON
  /\ UNUSED_LIMIT \in Nat \ {0}
  /\ RECENT_CONTROL \in Nat \ {0}
  /\ SIREN \in Nat \ {0}

CanCntCap == 3   \* ignition_can_cnt is only compared to 2

VARIABLES
  heartbeat_counter,   \* capped at HEARTBEAT_IGNITION_CNT_ON
  heartbeat_lost, heartbeat_engaged,
  heartbeat_engaged_mismatches,   \* capped at UNUSED_LIMIT
  siren_countdown, controls_allowed_countdown,
  intercept,           \* the harness relay takes the camera off the car's bus
  can_silent,          \* the CAN peripherals only listen
  power_save,          \* power_save_status; the transceivers are off
  ignition_line, ignition_can, ignition_can_cnt

heartbeatVars == <<heartbeat_counter, heartbeat_lost, heartbeat_engaged,
                   heartbeat_engaged_mismatches>>
sirenVars == <<siren_countdown, controls_allowed_countdown>>
relayVars == <<intercept, can_silent>>
ignitionVars == <<ignition_line, ignition_can, ignition_can_cnt>>
pandaVars == <<hookVars, heartbeatVars, sirenVars, relayVars, power_save,
               ignitionVars>>

PandaTypeOK ==
  /\ TypeOK
  /\ heartbeat_counter \in 0..HEARTBEAT_IGNITION_CNT_ON
  /\ heartbeat_lost \in BOOLEAN
  /\ heartbeat_engaged \in BOOLEAN
  /\ heartbeat_engaged_mismatches \in 0..UNUSED_LIMIT
  /\ siren_countdown \in 0..SIREN
  /\ controls_allowed_countdown \in 0..RECENT_CONTROL
  /\ intercept \in BOOLEAN
  /\ can_silent \in BOOLEAN
  /\ power_save \in BOOLEAN
  /\ ignition_line \in BOOLEAN
  /\ ignition_can \in BOOLEAN
  /\ ignition_can_cnt \in 0..CanCntCap

\* After reset main sets SILENT and turns the transceivers on.
PandaInit ==
  /\ HooksInit
  /\ heartbeat_counter = 0
  /\ heartbeat_lost = FALSE
  /\ heartbeat_engaged = FALSE
  /\ heartbeat_engaged_mismatches = 0
  /\ siren_countdown = 0
  /\ controls_allowed_countdown = 0
  /\ intercept = FALSE
  /\ can_silent = TRUE
  /\ power_save = FALSE
  /\ ignition_line \in BOOLEAN
  /\ ignition_can = FALSE
  /\ ignition_can_cnt = 0

-----------------------------------------------------------------------------
(* What the host asks for over USB. *)

\* Mutant: the relay is never released.
FollowModeLatched(mode) ==
  /\ intercept' = (intercept \/ mode \in CarModes)
  /\ can_silent' = (mode = "SILENT")

\* The relay and the silence of the buses follow the granted mode.
FollowMode(mode) ==
  /\ intercept' = (mode \in CarModes)
  /\ can_silent' = (mode = "SILENT")

\* Mutant: a car mode does not restart the heartbeat.
RestartsInDiagnostics(mode) == mode = "ELM327"

\* Only the diagnostic mode and the car modes restart the heartbeat.
RestartsHeartbeat(mode) == mode \in {"ELM327"} \cup CarModes

\* Control request 0xdc.
SetSafetyMode(request) ==
  /\ SetSafetyHooks(request, 0)
  /\ FollowMode(Granted(request))
  /\ IF RestartsHeartbeat(Granted(request))
       THEN heartbeat_counter' = 0 /\ heartbeat_lost' = FALSE
       ELSE UNCHANGED <<heartbeat_counter, heartbeat_lost>>
  /\ wire' = Nothing
  /\ UNCHANGED <<unsafe_mode, missed, heartbeat_engaged,
                 heartbeat_engaged_mismatches, sirenVars, power_save,
                 ignitionVars>>

\* Control request 0xf3.
Heartbeat(engaged) ==
  /\ heartbeat_counter' = 0
  /\ heartbeat_lost' = FALSE
  /\ heartbeat_engaged' = engaged
  /\ wire' = Nothing
  /\ UNCHANGED <<current_safety_mode, controls_allowed, relay_malfunction,
                 driverVars, unsafe_mode, safety_mode_cnt, missed,
                 heartbeat_engaged_mismatches, sirenVars, relayVars, power_save,
                 ignitionVars>>

\* Control request 0xe7.
SetPowerSave(enabled) ==
  /\ power_save' = enabled
  /\ wire' = Nothing
  /\ UNCHANGED <<current_safety_mode, controls_allowed, relay_malfunction,
                 driverVars, unsafe_mode, safety_mode_cnt, missed,
                 heartbeatVars, sirenVars, relayVars, ignitionVars>>

\* Control request 0xdf, and a frame on bulk endpoint 3.
SetUnsafe(b) ==
  /\ SetUnsafeMode(b)
  /\ UNCHANGED <<heartbeatVars, sirenVars, relayVars, power_save, ignitionVars>>
SendFrame(k) ==
  /\ HostSend(k)
  /\ UNCHANGED <<heartbeatVars, sirenVars, relayVars, power_save, ignitionVars>>

HostAction ==
  \/ \E request \in Requests : SetSafetyMode(request)
  \/ \E engaged \in BOOLEAN : Heartbeat(engaged)
  \/ \E enabled \in BOOLEAN : SetPowerSave(enabled)
  \/ \E b \in BOOLEAN : SetUnsafe(b)
  \/ \E k \in TxFrames : SendFrame(k)

-----------------------------------------------------------------------------
(* What the car does. *)

\* can_rx with ignition_can_hook: any frame restarts the counter, and only an
\* ignition frame of bus 0 says whether the ignition is on.
CanRx(f) ==
  /\ RxFrame(f)
  /\ ignition_can_cnt' = 0
  /\ ignition_can' = IF f.bus = 0 /\ f.id = "IGNITION" THEN f.on ELSE ignition_can
  /\ UNCHANGED <<heartbeatVars, sirenVars, relayVars, power_save, ignition_line>>

\* The ignition wire of the harness.
TurnKey ==
  /\ ignition_line' = ~ignition_line
  /\ UNCHANGED <<hookVars, heartbeatVars, sirenVars, relayVars, power_save,
                 ignition_can, ignition_can_cnt>>

\* Control request 0xd8, or the power of the panda fails and comes back.
Reset ==
  /\ SetSafetyHooks("SILENT", 0)
  /\ FollowMode("SILENT")
  /\ unsafe_mode' = FALSE
  /\ missed' = [c \in Checks |-> 0]
  /\ wire' = Nothing
  /\ heartbeat_counter' = 0
  /\ heartbeat_lost' = FALSE
  /\ heartbeat_engaged' = FALSE
  /\ heartbeat_engaged_mismatches' = 0
  /\ siren_countdown' = 0
  /\ controls_allowed_countdown' = 0
  /\ power_save' = FALSE
  /\ ignition_can' = FALSE
  /\ ignition_can_cnt' = 0
  /\ UNCHANGED ignition_line

CarAction ==
  \/ \E f \in RxFrames : CanRx(f)
  \/ TurnKey
  \/ Reset

-----------------------------------------------------------------------------
(* The 1 Hz part of tick_handler. *)

LessOne(n) == IF n = 0 THEN 0 ELSE n - 1

check_started == ignition_line \/ ignition_can

CounterAfter == AtMost(heartbeat_counter + 1, HEARTBEAT_IGNITION_CNT_ON)

\* Mutant: "more than" for "at least" (the counter stops at the limit).
HeartbeatGoneLate == CounterAfter > HEARTBEAT_IGNITION_CNT_ON

\* The heartbeat has been gone for too long.
HeartbeatGone ==
  CounterAfter >= (IF check_started THEN HEARTBEAT_IGNITION_CNT_ON
                                    ELSE HEARTBEAT_IGNITION_CNT_OFF)

\* Mutant: the mismatches do not add up.
MismatchesKept ==
  IF controls_allowed /\ ~heartbeat_engaged THEN 1 ELSE 0

\* Controls allowed and unused by the host, tick after tick.
MismatchesAfter ==
  IF controls_allowed /\ ~heartbeat_engaged
    THEN AtMost(heartbeat_engaged_mismatches + 1, UNUSED_LIMIT)
    ELSE 0
Unused == MismatchesAfter >= UNUSED_LIMIT

\* Mutant: the countdown is not restarted by controls allowed at this tick.
CountdownStale == LessOne(controls_allowed_countdown)

CountdownAfter ==
  IF controls_allowed THEN RECENT_CONTROL ELSE LessOne(controls_allowed_countdown)

TickCommon ==
  /\ heartbeat_counter' = CounterAfter
  /\ heartbeat_engaged_mismatches' = MismatchesAfter
  /\ ignition_can' = (ignition_can /\ ignition_can_cnt <= 2)
  /\ ignition_can_cnt' = AtMost(ignition_can_cnt + 1, CanCntCap)
  /\ AgeMessages
  /\ wire' = Nothing
  /\ UNCHANGED <<unsafe_mode, heartbeat_engaged, ignition_line>>

\* The hooks' part when the mode stays: drop unused controls, count the second,
\* then safety_tick.
StayInMode ==
  /\ controls_allowed' = (controls_allowed /\ ~Unused /\ ~Lagging)
  /\ safety_mode_cnt' = AtMost(safety_mode_cnt + 1, CntCap)
  /\ UNCHANGED <<current_safety_mode, relay_malfunction, driverVars, relayVars>>

TickInTouch ==
  /\ ~HeartbeatGone
  /\ TickCommon
  /\ StayInMode
  /\ siren_countdown' = LessOne(siren_countdown)
  /\ controls_allowed_countdown' = CountdownAfter
  /\ UNCHANGED <<heartbeat_lost, power_save>>

\* SILENT mode, unless it is SILENT already; power saving; and the siren if
\* the host was in control a moment ago.
TickOutOfTouch ==
  /\ HeartbeatGone
  /\ TickCommon
  /\ siren_countdown' = IF CountdownAfter > 0 THEN SIREN ELSE LessOne(siren_countdown)
  /\ controls_allowed_countdown' = 0
  /\ heartbeat_lost' = (heartbeat_lost \/ current_safety_mode \in CarModes)
  /\ power_save' = TRUE
  /\ IF current_safety_mode = "SILENT"
       THEN StayInMode
       ELSE SetSafetyHooks("SILENT", 1) /\ FollowMode("SILENT")

Tick == TickInTouch \/ TickOutOfTouch

PandaNext == HostAction \/ CarAction \/ Tick

PandaSpec == PandaInit /\ [][PandaNext]_pandaVars
=============================================================================
