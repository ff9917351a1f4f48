---------------------------- MODULE PandaHooks ----------------------------
(***************************************************************************)
(* The safety hooks of the panda: the firmware that sits between the host  *)
(* (openpilot) and the car's CAN buses and decides, frame by frame, what    *)
(* the host may send.  Translated from panda/board/safety.h,                *)
(* safety_declarations.h, safety/safety_defaults.h, safety_elm327.h and     *)
(* safety_toyota.h, with the receive and send paths that call the hooks     *)
(* (drivers/bxcan.h can_rx, drivers/can_common.h can_send).                 *)
(*                                                                         *)
(* Every handler runs inside an interrupt, and the firmware sets no         *)
(* interrupt priorities, so no handler preempts another: one handler is one *)
(* action.  Toyota stands for the car modes.                                *)
(*                                                                         *)
(* Abstractions.  A received frame is the one Boolean signal the hook reads *)
(* from it.  A frame of the host is one of five kinds (TxKinds).  Time is   *)
(* counted in 1 Hz ticks: `missed[c]' is the number of ticks since message  *)
(* c last arrived, up to MissedCap.                                         *)
(***************************************************************************)
EXTENDS Naturals

CONSTANTS
  RxFrames,   \* the frames the buses may deliver, a subset of Frame
  TxFrames,   \* the kinds of frame the host may send, a subset of TxKinds
  Checks,     \* ids of the messages safety_tick monitors (toyota_addr_checks)
  MissedCap   \* bound on the tick count of a missing message

\* 0xaa, 0x260, 0x1D2, 0x224 or 0x226, 0x201, 0x2E4, the other frames of the
\* camera the forward hook blocks (0x412, 0x191, 0x343), a CAN ignition
\* message (0x160, 0x348, 0x9E) and any other address.
FrameIds == {"SPEED", "TORQUE", "ACC", "BRAKE", "GAS_SENSOR",
             "LKA", "CAMERA", "IGNITION", "OTHER"}

\* `fits': the frame has the length of its check and, where a check has two
\* addresses (0x224 and 0x226), the one that was seen first.  `ok' is the
\* outcome of the checksum, `on' the signal read from the frame (moving, cruise
\* active, brake, gas), `gas' the gas bit of the ACC frame.
Frame == [id: FrameIds, bus: {0, 2}, fits: BOOLEAN, ok: BOOLEAN, on: BOOLEAN, gas: BOOLEAN]

ChecksummedIds == {"TORQUE", "ACC"}

\* idle: in TOYOTA_TX_MSGS and asking for nothing; actuate: torque, gas or
\* acceleration within the limits; excess: beyond them, or an AEB or LTA
\* request; diag: an ISO 15765-4 diagnostic frame; foreign: any other frame.
TxKinds == {"idle", "actuate", "excess", "diag", "foreign"}

\* The car sends its ACC message with the length the checks expect.
ASSUME HooksAssumption ==
  /\ RxFrames \subseteq Frame
  /\ \A f \in RxFrames : f.id = "ACC" => f.fits
  /\ TxFrames \subseteq TxKinds
  /\ Checks \subseteq FrameIds /\ "ACC" \in Checks
  /\ MissedCap \in Nat \ {0}

CarModes == {"TOYOTA"}
Registry == {"SILENT", "NOOUTPUT", "ELM327"} \cup CarModes
\* What the host may ask for: a mode of the registry, or an id that is not in
\* it (the proton, perodua and byd models of car.capnp, for instance).
Requests == Registry \cup {"UNREGISTERED"}

RELAY_TRNS_TIMEOUT == 1
CntCap == RELAY_TRNS_TIMEOUT + 1   \* safety_mode_cnt is only compared to it

VARIABLES
  current_safety_mode, controls_allowed, relay_malfunction,
  gas_interceptor_detected, gas_pressed, gas_pressed_prev,
  brake_pressed, brake_pressed_prev, cruise_engaged_prev, vehicle_moving,
  unsafe_mode,       \* the UNSAFE_DISABLE_DISENGAGE_ON_GAS bit
  safety_mode_cnt,   \* ticks since the mode was set, up to CntCap
  missed,            \* ticks since each monitored message arrived
  wire               \* what the last handler queued for a bus

driverVars == <<gas_interceptor_detected, gas_pressed, gas_pressed_prev,
                brake_pressed, brake_pressed_prev, cruise_engaged_prev,
                vehicle_moving>>
hookVars == <<current_safety_mode, controls_allowed, relay_malfunction,
              driverVars, unsafe_mode, safety_mode_cnt, missed, wire>>

Nothing == [src |-> "none", what |-> "none"]
FromHost(k) == [src |-> "host", what |-> k]
Rejected(k) == [src |-> "rejected", what |-> k]
Forwarded(f) == [src |-> IF f.bus = 0 THEN "bus0" ELSE "bus2", what |-> f.id]
WireValues == [src: {"none", "host", "rejected", "bus0", "bus2"},
               what: {"none"} \cup TxKinds \cup FrameIds]

AtMost(n, cap) == IF n > cap THEN cap ELSE n

TypeOK ==
  /\ current_safety_mode \in Registry
  /\ controls_allowed \in BOOLEAN
  /\ relay_malfunction \in BOOLEAN
  /\ gas_interceptor_detected \in BOOLEAN
  /\ gas_pressed \in BOOLEAN
  /\ gas_pressed_prev \in BOOLEAN
  /\ brake_pressed \in BOOLEAN
  /\ brake_pressed_prev \in BOOLEAN
  /\ cruise_engaged_prev \in BOOLEAN
  /\ vehicle_moving \in BOOLEAN
  /\ unsafe_mode \in BOOLEAN
  /\ safety_mode_cnt \in 0..CntCap
  /\ missed \in [Checks -> 0..MissedCap]
  /\ wire \in WireValues

HooksInit ==
  /\ current_safety_mode = "SILENT"
  /\ controls_allowed = FALSE
  /\ relay_malfunction = FALSE
  /\ gas_interceptor_detected = FALSE
  /\ gas_pressed = FALSE /\ gas_pressed_prev = FALSE
  /\ brake_pressed = FALSE /\ brake_pressed_prev = FALSE
  /\ cruise_engaged_prev = FALSE
  /\ vehicle_moving = FALSE
  /\ unsafe_mode = FALSE
  /\ safety_mode_cnt = 0
  /\ missed = [c \in Checks |-> 0]
  /\ wire = Nothing

-----------------------------------------------------------------------------
(* Changing the mode. *)

\* set_safety_mode falls back to SILENT when the registry lacks the id.
Granted(request) == IF request \in Registry THEN request ELSE "SILENT"

\* The driver's state that set_safety_hooks resets.
ResetDriver ==
  /\ gas_interceptor_detected' = FALSE
  /\ gas_pressed' = FALSE /\ gas_pressed_prev' = FALSE
  /\ brake_pressed' = FALSE /\ brake_pressed_prev' = FALSE
  /\ cruise_engaged_prev' = FALSE
  /\ vehicle_moving' = FALSE

\* Mutant: the init hook of the mode leaves controls_allowed alone.
SetSafetyHooksKeepsControls(request, count) ==
  /\ current_safety_mode' = Granted(request)
  /\ controls_allowed' = controls_allowed
  /\ relay_malfunction' = FALSE
  /\ ResetDriver
  /\ safety_mode_cnt' = count

\* set_safety_hooks with the init hook of the mode: every init clears
\* controls_allowed and the relay fault.  `count' is what safety_mode_cnt is
\* left at: 0, or 1 when the tick that calls it increments the counter after.
\* The timestamps of the monitored messages are not reset.
SetSafetyHooks(request, count) ==
  /\ current_safety_mode' = Granted(request)
  /\ controls_allowed' = FALSE
  /\ relay_malfunction' = FALSE
  /\ ResetDriver
  /\ safety_mode_cnt' = count

-----------------------------------------------------------------------------
(* Frames from the car. *)

\* default_fwd_hook forwards nothing, toyota_fwd_hook everything but what the
\* camera says about steering and acceleration; nothing while the relay fault
\* is set.
ForwardHook(f) ==
  /\ ~relay_malfunction
  /\ current_safety_mode \in CarModes
  /\ f.bus = 0 \/ f.id \notin {"LKA", "CAMERA"}

\* The frame belongs to an entry of the rx checks.  One that belongs to none
\* counts as valid and keeps no message from lagging.
Monitored(f) == f.bus = 0 /\ f.id \in Checks /\ f.fits
Valid(f) == Monitored(f) /\ f.id \in ChecksummedIds => f.ok

UpdateTimestamp(f) ==
  missed' = IF Monitored(f) THEN [missed EXCEPT ![f.id] = 0] ELSE missed

\* The two pedals as the frame leaves them.
GasAfter(f) ==
  CASE f.id = "GAS_SENSOR" -> f.on
    [] f.id = "ACC" /\ ~gas_interceptor_detected -> f.gas
    [] OTHER -> gas_pressed
BrakeAfter(f) == IF f.id = "BRAKE" THEN f.on ELSE brake_pressed
MovingAfter(f) == IF f.id = "SPEED" THEN f.on ELSE vehicle_moving

\* Mutants: cruise off does not exit controls; cruise on enters them without
\* an edge.
AllowedUntilOverride(f) ==
  controls_allowed \/ (f.id = "ACC" /\ f.on /\ ~cruise_engaged_prev)
AllowedByLevel(f) == IF f.id = "ACC" THEN f.on ELSE controls_allowed

\* Enter controls on the rising edge of ACC, exit when it is off.
AllowedByAcc(f) ==
  IF f.id = "ACC" THEN f.on /\ (controls_allowed \/ ~cruise_engaged_prev)
                  ELSE controls_allowed

\* Mutants: the gas before the frame is tested instead of the gas after it;
\* only the edge of the brake exits controls.
GasExitStale(f) == gas_pressed /\ ~gas_pressed_prev /\ ~unsafe_mode
BrakeExitOnEdge(f) == BrakeAfter(f) /\ ~brake_pressed_prev

\* generic_rx_checks: the driver takes over.
GasExit(f) == GasAfter(f) /\ ~gas_pressed_prev /\ ~unsafe_mode
BrakeExit(f) == BrakeAfter(f) /\ (~brake_pressed_prev \/ MovingAfter(f))

\* A valid frame of bus 0 in a car mode.
RxBody(f) ==
  /\ gas_interceptor_detected' = (gas_interceptor_detected \/ f.id = "GAS_SENSOR")
  /\ gas_pressed' = GasAfter(f) /\ gas_pressed_prev' = GasAfter(f)
  /\ brake_pressed' = BrakeAfter(f) /\ brake_pressed_prev' = BrakeAfter(f)
  /\ vehicle_moving' = MovingAfter(f)
  /\ cruise_engaged_prev' = IF f.id = "ACC" THEN f.on ELSE cruise_engaged_prev
  /\ controls_allowed' = (AllowedByAcc(f) /\ ~GasExit(f) /\ ~BrakeExit(f))
  /\ relay_malfunction' = (\/ relay_malfunction
                           \/ f.id = "LKA" /\ safety_mode_cnt > RELAY_TRNS_TIMEOUT)

\* toyota_rx_hook, or default_rx_hook in the other modes.
SafetyRxHook(f) ==
  IF current_safety_mode \in CarModes
    THEN /\ UpdateTimestamp(f)
         /\ \/ Valid(f) /\ f.bus = 0 /\ RxBody(f)
            \/ Valid(f) /\ f.bus # 0
               /\ UNCHANGED <<controls_allowed, relay_malfunction, driverVars>>
            \/ ~Valid(f) /\ controls_allowed' = FALSE
               /\ UNCHANGED <<relay_malfunction, driverVars>>
    ELSE UNCHANGED <<missed, controls_allowed, relay_malfunction, driverVars>>

\* can_rx: forward first, then look at the frame.
RxFrame(f) ==
  /\ wire' = IF ForwardHook(f) THEN Forwarded(f) ELSE Nothing
  /\ SafetyRxHook(f)
  /\ UNCHANGED <<current_safety_mode, unsafe_mode, safety_mode_cnt>>

-----------------------------------------------------------------------------
(* Frames from the host. *)

\* The tx hook of the current mode.
ModeTxHook(k) ==
  CASE current_safety_mode = "ELM327" -> k = "diag"
    [] current_safety_mode \in CarModes ->
         k = "idle" \/ (k = "actuate" /\ controls_allowed)
    [] OTHER -> FALSE

\* safety_tx_hook returns -1 under the relay fault, and can_send sends every
\* frame for which it did not return 0.
SafetyTxHook(k) == relay_malfunction \/ ModeTxHook(k)

\* can_send(to_push, bus, FALSE): a rejected frame goes back to the host.
HostSend(k) ==
  /\ wire' = IF SafetyTxHook(k) THEN FromHost(k) ELSE Rejected(k)
  /\ UNCHANGED <<current_safety_mode, controls_allowed, relay_malfunction,
                 driverVars, unsafe_mode, safety_mode_cnt, missed>>

\* Control request 0xdf: only outside the car modes.
SetUnsafeMode(b) ==
  /\ unsafe_mode' = IF current_safety_mode \in CarModes THEN unsafe_mode ELSE b
  /\ wire' = Nothing
  /\ UNCHANGED <<current_safety_mode, controls_allowed, relay_malfunction,
                 driverVars, safety_mode_cnt, missed>>

-----------------------------------------------------------------------------
(* The 1 Hz part. *)

\* Mutant: one more second of patience.
LaggingLate == current_safety_mode \in CarModes /\ \E c \in Checks : missed[c] >= 2

\* A monitored message that did not arrive since the previous tick is more
\* than one second old.  Only the car modes have monitored messages.
Lagging == current_safety_mode \in CarModes /\ \E c \in Checks : missed[c] >= 1

AgeMessages == missed' = [c \in Checks |-> AtMost(missed[c] + 1, MissedCap)]

\* What tick_handler does to the hooks when the heartbeat is in order: count
\* the seconds in the mode, then safety_tick.
HooksTick ==
  /\ safety_mode_cnt' = AtMost(safety_mode_cnt + 1, CntCap)
  /\ controls_allowed' = (controls_allowed /\ ~Lagging)
  /\ AgeMessages
  /\ wire' = Nothing
  /\ UNCHANGED <<current_safety_mode, relay_malfunction, driverVars, unsafe_mode>>

SetMode(request) ==
  /\ SetSafetyHooks(request, 0)
  /\ wire' = Nothing
  /\ UNCHANGED <<unsafe_mode, missed>>

HooksNext ==
  \/ \E request \in Requests : SetMode(request)
  \/ \E b \in BOOLEAN : SetUnsafeMode(b)
  \/ \E f \in RxFrames : RxFrame(f)
  \/ \E k \in TxFrames : HostSend(k)
  \/ HooksTick

HooksSpec == HooksInit /\ [][HooksNext]_hookVars

-----------------------------------------------------------------------------
(* Properties. *)

\* The host may actuate only in a car mode and only while the last ACC frame
\* said cruise is engaged, through every mode change, checksum error, lag and
\* override (set_safety_hooks resets cruise_engaged_prev and the init hooks
\* reset controls_allowed; the two must never be separated).
ControlsFollowCruise ==
  controls_allowed => current_safety_mode \in CarModes /\ cruise_engaged_prev

\* Controls are never allowed while the driver brakes a moving car, whichever
\* of the speed, brake and ACC frames came last (generic_rx_checks runs on
\* every valid frame of bus 0, not only on brake frames).
NoControlWhileBraking == controls_allowed => ~(brake_pressed /\ vehicle_moving)

\* Controls outlive a missing message only if an ACC frame came since the last
\* tick: safety_tick took them away and an ACC edge gave them back.
LagEndsControls ==
  controls_allowed => (\A c \in Checks : missed[c] <= 1) \/ missed["ACC"] = 0

\* A gas press or a brake press ends the host's control in the same step,
\* wherever the press is read from (ACC frame, gas interceptor, brake frame).
OverrideExits ==
  [][/\ gas_pressed' /\ ~gas_pressed /\ ~unsafe_mode => ~controls_allowed'
     /\ brake_pressed' /\ ~brake_pressed => ~controls_allowed']_hookVars

\* Controls come back only on a new ACC engagement: after an override, a bad
\* checksum or a lag the driver has to engage cruise again.
ReengageNeedsEdge ==
  [][~controls_allowed /\ controls_allowed'
       => ~cruise_engaged_prev /\ cruise_engaged_prev']_hookVars

\* End to end: unless the relay fault is set, a frame of the host that
\* actuates the car leaves the panda only in a car mode, with cruise engaged
\* and the driver not braking a moving car.
ActuationNeedsDriver ==
  [][wire' = FromHost("actuate") /\ ~relay_malfunction
       => /\ current_safety_mode \in CarModes
          /\ cruise_engaged_prev
          /\ ~(brake_pressed /\ vehicle_moving)]_hookVars

\* What safety_toyota.h says of its tx hook: "no torque if controls is not
\* allowed".
NoTorqueUnlessAllowed ==
  [][wire' = FromHost("actuate") => controls_allowed]_hookVars
=============================================================================
