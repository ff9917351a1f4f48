----------------------------- MODULE PandaHost -----------------------------
(***************************************************************************)
(* The panda with a host that may die at any moment and come back, and with *)
(* the history the properties speak of.  The host is the process at the     *)
(* other end of the USB cable (selfdrive/boardd); while it is down only the *)
(* car and the panda's own timer take steps.                                *)
(***************************************************************************)
EXTENDS Panda

VARIABLES
  host_up,
  silence,   \* ticks since the host last did anything that proves it alive
  idle       \* ticks the host has left allowed controls unused

vars == <<pandaVars, host_up, silence, idle>>

HostTypeOK ==
  /\ PandaTypeOK
  /\ host_up \in BOOLEAN
  /\ silence \in 0..HEARTBEAT_IGNITION_CNT_ON
  /\ idle \in 0..UNUSED_LIMIT

Init ==
  /\ PandaInit
  /\ host_up = TRUE
  /\ silence = 0
  /\ idle = 0

\* Unused: controls are allowed and the host's last report is that it is not
\* engaged.
IdleAfter(n) == idle' = IF controls_allowed' /\ ~heartbeat_engaged' THEN n ELSE 0

HostStep ==
  /\ host_up
  /\ HostAction
  /\ silence' = 0
  /\ IdleAfter(idle)
  /\ UNCHANGED host_up

CarStep ==
  /\ CarAction
  /\ IdleAfter(idle)
  /\ UNCHANGED <<host_up, silence>>

TickStep ==
  /\ Tick
  /\ silence' = AtMost(silence + 1, HEARTBEAT_IGNITION_CNT_ON)
  /\ IdleAfter(AtMost(idle + 1, UNUSED_LIMIT))
  /\ UNCHANGED host_up

\* The host process dies, or comes back.
HostCrash == host_up /\ host_up' = FALSE /\ UNCHANGED <<pandaVars, silence, idle>>
HostReturn == ~host_up /\ host_up' = TRUE /\ UNCHANGED <<pandaVars, silence, idle>>

Next == HostStep \/ CarStep \/ TickStep \/ HostCrash \/ HostReturn

Spec == Init /\ [][Next]_vars

\* The tick is a hardware timer's interrupt: it comes whatever the rest does.
FairSpec == Spec /\ WF_vars(TickStep)

-----------------------------------------------------------------------------
(* Properties. *)

\* The mode in which the panda acts on the car's buses never outlives the
\* host: HEARTBEAT_IGNITION_CNT_ON ticks without a word, and it is SILENT.
\* A stale NOOUTPUT, a mode set just before the crash and a key turned in
\* between are all covered (tick_handler, set_safety_mode).
SilentHostLosesMode ==
  current_safety_mode # "SILENT" => silence < HEARTBEAT_IGNITION_CNT_ON

\* Controls the host does not use are taken back in time, although the count
\* of tick_handler goes on across disengagements and mode changes.
UnusedControlsExpire == controls_allowed => idle < UNUSED_LIMIT

\* Once the heartbeat was lost the relay is off and no car mode is set until
\* the host is back.
LostMeansPassive ==
  heartbeat_lost => current_safety_mode \in {"SILENT", "NOOUTPUT"} /\ ~intercept

\* A loss that ends control is not silent: the siren sounds.
LossSounds ==
  [][~heartbeat_lost /\ heartbeat_lost' /\ controls_allowed
       => siren_countdown' = SIREN]_vars

\* The panda implements the dead man's switch.
Switch == INSTANCE DeadMan WITH
  Patience <- HEARTBEAT_IGNITION_CNT_ON, IdleLimit <- UNUSED_LIMIT,
  acting <- current_safety_mode # "SILENT", commanding <- controls_allowed
IsDeadManSwitch == Switch!DeadManSpec

\* If the host stays down the panda ends up SILENT, its CAN controllers
\* listening only, with the relay off and the siren quiet; and in power save,
\* the transceivers off, unless the panda is reset again and again, for a
\* reset turns them on and starts the count anew.
ResetsCease == <>[][~Reset]_vars
DeadHostEndsPassive ==
  <>[]~host_up =>
    /\ <>[](/\ current_safety_mode = "SILENT" /\ can_silent
            /\ ~intercept /\ ~controls_allowed
            /\ siren_countdown = 0)
    /\ ResetsCease => <>[]power_save
=============================================================================
