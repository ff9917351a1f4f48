------------------------------- MODULE Onroad -------------------------------
(***************************************************************************)
(* A drive, from the ignition to the car's safety mode: boardd's state      *)
(* thread and the thread that sets the mode (boardd.cc), the parameters     *)
(* they share with controlsd, thermald and the manager that start and stop  *)
(* controlsd, and controlsd's own states (controlsd.py), with one panda.    *)
(* The other processes only see the last pandaStates message.               *)
(***************************************************************************)
EXTENDS Naturals

CONSTANTS
  MismatchLimit, \* samples of a mismatch until controlsd reacts (200)
  SoftTime,      \* samples of a soft disable (SOFT_DISABLE_TIME / DT_CTRL)
  MaxTurns,      \* bound of this model: how often the ignition changes
  MaxPulls       \* bound of this model: how often the panda is unplugged

ASSUME OnroadAssumption ==
  {MismatchLimit, SoftTime, MaxTurns, MaxPulls} \subseteq Nat

VARIABLES
  car,    \* ignition on, panda plugged; how often each may still change
  panda,  \* its safety mode, and controls_allowed
  brd,    \* boardd: its panda still answers; the state thread's pc, the health it
          \* read, ignition and its last value
  setter, \* the pc of safety_setter_thread
  params, \* which of CarVin, CarParams and ControlsReady are set
  msg,    \* the last pandaStates message, whether thermald has seen it, and
          \* whether it still counts as alive
  onroad, \* deviceState.started
  ctl,    \* controlsd: the stage of the process, state, mismatch_counter,
          \* soft_disable_timer
  robbed  \* history: a parameter this controlsd had set was cleared

onroadVars == <<car, panda, brd, setter, params, msg, onroad, ctl, robbed>>

Keys == {"CarVin", "CarParams", "ControlsReady"}
States == {"disabled", "preEnabled", "enabled", "softDisabling"}
Down == [stage |-> "down", state |-> "disabled", mismatch |-> 0, timer |-> 0]
Empty == [known |-> FALSE, ignition |-> FALSE, mode |-> "noOutput", allowed |-> FALSE]

OnroadInit ==
  /\ car = [ignition |-> FALSE, plugged |-> TRUE, turns |-> MaxTurns, pulls |-> MaxPulls]
  /\ panda = [mode |-> "silent", allowed |-> FALSE]
  /\ brd = [linked |-> TRUE, pc |-> "read", health |-> Empty, ignition |-> FALSE, last |-> FALSE]
  /\ setter = "none"
  /\ params = {}
  /\ msg = [state |-> Empty, new |-> FALSE, alive |-> FALSE]
  /\ onroad = FALSE
  /\ ctl = Down
  /\ robbed = FALSE

Up == brd.pc # "down"

\* The panda takes a new safety mode with controls not allowed (safety.h).
SetMode(mode) ==
  IF brd.linked THEN panda' = [mode |-> mode, allowed |-> FALSE] ELSE UNCHANGED panda

-----------------------------------------------------------------------------
(* boardd: panda_state_thread. *)

\* get_state: what the panda answers now; without an answer the round ends.
ReadState ==
  /\ brd.pc = "read" /\ brd.linked
  /\ brd' = [brd EXCEPT !.pc = "correct", !.health =
       [known |-> TRUE, ignition |-> car.ignition,
        mode |-> panda.mode, allowed |-> panda.allowed]]
  /\ UNCHANGED <<car, panda, setter, params, msg, onroad, ctl, robbed>>

\* Mutant: the mode is corrected once, when the ignition goes off.
CorrectedOnce(h) == h.mode = "silent" \/ (~h.ignition /\ brd.last /\ h.mode # "noOutput")

\* The CAN buses are kept alive, and a parked car gets no output.
Corrected(h) == h.mode = "silent" \/ (~h.ignition /\ h.mode # "noOutput")

\* send_panda_states with the state read before.
SendState ==
  /\ brd.pc = "correct"
  /\ IF Corrected(brd.health) THEN SetMode("noOutput") ELSE UNCHANGED panda
  /\ msg' = [state |-> brd.health, new |-> TRUE, alive |-> TRUE]
  /\ brd' = [brd EXCEPT !.pc = "edge"]
  /\ UNCHANGED <<car, setter, params, onroad, ctl, robbed>>

\* Mutant: a thread that once ran is taken for one that still runs.
MaySetOnce == setter = "none" /\ ~brd.last /\ params = {}

\* safety_future: no thread was started, or it is done.
MaySet == setter = "none"

\* The rest of the round: with the ignition the parameters of the last drive
\* are cleared and the mode is set, unless the thread of before still runs.
Edge ==
  /\ brd.pc = "edge"
  /\ LET ignition == brd.health.ignition
         on == ignition /\ ~brd.last
     IN /\ brd' = [brd EXCEPT !.pc = "read", !.ignition = ignition, !.last = ignition]
        /\ params' = IF on THEN {} ELSE params
        /\ setter' = IF on /\ MaySet THEN "elm" ELSE setter
        /\ robbed' = (robbed \/ (on /\ params # {} /\ ctl.stage \notin {"down", "start"}))
  /\ UNCHANGED <<car, panda, msg, onroad, ctl>>

\* A panda that is gone ends boardd, the state thread once the thread that sets
\* the mode has ended (its future is waited for).
Lost ==
  /\ brd.pc = "read" /\ ~brd.linked /\ setter = "none"
  /\ brd' = [brd EXCEPT !.pc = "down", !.ignition = FALSE, !.last = FALSE, !.health = Empty]
  /\ UNCHANGED <<car, panda, setter, params, msg, onroad, ctl, robbed>>

\* pandad starts boardd again when a panda is there; an attempt to connect
\* that fails is told to the others by an empty state.
Connect ==
  /\ ~Up /\ car.plugged
  /\ brd' = [brd EXCEPT !.pc = "read", !.linked = TRUE]
  /\ \/ UNCHANGED msg
     \/ msg' = [state |-> Empty, new |-> TRUE, alive |-> TRUE]
  /\ UNCHANGED <<car, panda, setter, params, onroad, ctl, robbed>>

StateThread == ReadState \/ SendState \/ Edge \/ Lost \/ Connect

-----------------------------------------------------------------------------
(* boardd: safety_setter_thread. Its look at ignition and its return are one *)
(* step: they are instructions apart, two rounds of the state thread a second. *)

Set(mode, pc) ==
  /\ SetMode(mode) /\ setter' = pc
  /\ UNCHANGED <<car, brd, params, msg, onroad, ctl, robbed>>

GiveUp ==
  /\ setter \in {"vin", "ready"} /\ (~brd.ignition \/ ~brd.linked)
  /\ setter' = "none"
  /\ UNCHANGED <<car, panda, brd, params, msg, onroad, ctl, robbed>>

Await(pc, keys, next) ==
  /\ setter = pc /\ brd.ignition /\ brd.linked /\ keys \subseteq params
  /\ setter' = next
  /\ UNCHANGED <<car, panda, brd, params, msg, onroad, ctl, robbed>>

SetterThread ==
  \/ setter = "elm" /\ Set("elm327", "vin")
  \/ Await("vin", {"CarVin"}, "elm1")
  \/ setter = "elm1" /\ Set("elm327", "ready")
  \/ Await("ready", {"ControlsReady", "CarParams"}, "set")
  \/ setter = "set" /\ Set("car", "none")
  \/ GiveUp

-----------------------------------------------------------------------------
(* thermald and the manager, from the last message they have not seen.  What  *)
(* they tell each other (deviceState) is one step with it.  The ignition is   *)
(* the one condition: the others (temperature, free space, the driver's       *)
(* switches) and IgnoreHardIgnition, with which thermald takes the ignition   *)
(* from CAN alone while boardd does not, are left out.                        *)

\* ensure_running
StageAfter(started) ==
  IF ~started THEN Down
  ELSE IF ctl.stage = "down" THEN [Down EXCEPT !.stage = "start"] ELSE ctl

Manage ==
  /\ msg.new
  /\ msg' = [msg EXCEPT !.new = FALSE]
  /\ onroad' = (msg.state.known /\ msg.state.ignition)
  /\ ctl' = StageAfter(onroad')
  /\ robbed' = (robbed /\ ctl'.stage \notin {"down", "start"})
  /\ UNCHANGED <<car, panda, brd, setter, params>>

-----------------------------------------------------------------------------
(* controlsd. *)

Write(stage, key) ==
  /\ ctl' = [ctl EXCEPT !.stage = stage]
  /\ params' = params \cup {key}
  /\ UNCHANGED <<car, panda, brd, setter, msg, onroad, robbed>>

\* Controls(): CAN messages are awaited and the car is recognised, then its
\* parameters are written; ControlsReady comes with the first valid inputs or
\* after three and a half seconds.
Startup ==
  \/ ctl.stage = "start" /\ Up /\ Write("vin", "CarVin")
  \/ ctl.stage = "vin" /\ Write("init", "CarParams")
  \/ ctl.stage = "init" /\ Write("run", "ControlsReady")

Ignored == {"silent", "noOutput"}
Enabled(state) == state # "disabled"

\* data_sample: mismatch_counter
Counted ==
  IF ~Enabled(ctl.state) THEN 0
  ELSE IF msg.state.mode \notin Ignored /\ ~msg.state.allowed /\ ctl.mismatch < MismatchLimit
       THEN ctl.mismatch + 1 ELSE ctl.mismatch

\* Mutant: the safety mode of the panda is not compared with the car's.
MismatchCountOnly(n) == n >= MismatchLimit

\* controlsMismatch
Mismatch(n) == msg.state.mode # "car" \/ n >= MismatchLimit

\* The events of the car and the driver that the states tell apart.
Inputs == {{}, {"enable"}, {"enable", "pre"}, {"enable", "noEntry"}, {"pre"}, {"user"}, {"soft"}}

\* state_transition. Without messages of the panda there is a commIssue: a soft
\* disable, which counts while enabled only, and no entry.
NextState(events, n, timer) ==
  LET immediate == "user" \in events \/ Mismatch(n)
      soft == "soft" \in events \/ ~msg.alive
      noEntry == "noEntry" \in events \/ ~msg.alive
  IN
  CASE ctl.state # "disabled" /\ immediate -> "disabled"
    [] ctl.state = "enabled" /\ ~immediate -> IF soft THEN "softDisabling" ELSE "enabled"
    [] ctl.state = "softDisabling" /\ ~immediate ->
         IF ~soft THEN "enabled" ELSE IF timer > 0 THEN "softDisabling" ELSE "disabled"
    [] ctl.state = "preEnabled" /\ ~immediate ->
         IF "pre" \in events THEN "preEnabled" ELSE "enabled"
    [] OTHER ->
         IF "enable" \notin events \/ noEntry THEN "disabled"
         ELSE IF "pre" \in events THEN "preEnabled" ELSE "enabled"

ControlsStep(events) ==
  /\ ctl.stage = "run"
  /\ LET n == Counted
         left == IF ctl.timer > 0 THEN ctl.timer - 1 ELSE 0
         state == NextState(events, n, left)
     IN ctl' = [ctl EXCEPT !.state = state, !.mismatch = n, !.timer =
                  IF state = "softDisabling" /\ ctl.state = "enabled" THEN SoftTime ELSE left]
  /\ UNCHANGED <<car, panda, brd, setter, params, msg, onroad, robbed>>

Controls == Startup \/ \E events \in Inputs : ControlsStep(events)

-----------------------------------------------------------------------------
(* The car, the driver and the panda. *)

TurnKey ==
  /\ car.turns > 0
  /\ car' = [car EXCEPT !.ignition = ~@, !.turns = @ - 1]
  /\ UNCHANGED <<panda, brd, setter, params, msg, onroad, ctl, robbed>>

Pull ==
  /\ car.plugged /\ car.pulls > 0
  /\ car' = [car EXCEPT !.plugged = FALSE, !.pulls = @ - 1]
  /\ brd' = [brd EXCEPT !.linked = FALSE]
  /\ UNCHANGED <<panda, setter, params, msg, onroad, ctl, robbed>>

Plug ==
  /\ ~car.plugged /\ car' = [car EXCEPT !.plugged = TRUE]
  /\ UNCHANGED <<panda, brd, setter, params, msg, onroad, ctl, robbed>>

\* The panda follows the car's cruise control and the driver.
Allow ==
  /\ panda.mode = "car" /\ panda' = [panda EXCEPT !.allowed = ~@]
  /\ UNCHANGED <<car, brd, setter, params, msg, onroad, ctl, robbed>>

\* A panda without heartbeats goes to SILENT (main.c).
HeartbeatLost ==
  /\ ~Up /\ panda.mode # "silent"
  /\ panda' = [mode |-> "silent", allowed |-> FALSE]
  /\ UNCHANGED <<car, brd, setter, params, msg, onroad, ctl, robbed>>

\* The last message is too old.
Stale ==
  /\ ~Up /\ msg.alive /\ msg' = [msg EXCEPT !.alive = FALSE]
  /\ UNCHANGED <<car, panda, brd, setter, params, onroad, ctl, robbed>>

OnroadNext ==
  \/ StateThread \/ SetterThread \/ Manage \/ Controls
  \/ TurnKey \/ Pull \/ Plug \/ Allow \/ HeartbeatLost \/ Stale

\* Every thread and process runs, and so do the panda's and SubMaster's clocks.
OnroadFairness ==
  /\ WF_onroadVars(StateThread) /\ WF_onroadVars(SetterThread)
  /\ WF_onroadVars(Manage) /\ WF_onroadVars(Controls)
  /\ WF_onroadVars(HeartbeatLost) /\ WF_onroadVars(Stale)

OnroadSpec == OnroadInit /\ [][OnroadNext]_onroadVars /\ OnroadFairness

-----------------------------------------------------------------------------
(* Properties. *)

\* A drive gets its safety mode: with the ignition on and the panda plugged
\* the panda ends up in the car's mode, whatever drives and threads came
\* before, unless the parameters of a controlsd that runs on were cleared.
ModeIsSet ==
  <>[](car.ignition /\ car.plugged /\ ~robbed) => <>[](panda.mode = "car")

\* A parked car does not keep the car's mode, though the thread that sets it
\* may be past its last look at the ignition (safety_setter_thread).
ModeEnds == (panda.mode = "car" /\ ~car.ignition) ~> (panda.mode # "car" \/ car.ignition)

\* controlsd does not stay enabled against a panda that allows no controls: be
\* it by the count of mismatches, by the safety mode or for want of messages.
\* The last does not end preEnabled, in which nothing is actuated, as long as
\* the driver keeps it (state_transition).
DisagreementEnds ==
  (Enabled(ctl.state) /\ ~panda.allowed) ~>
    \/ ~Enabled(ctl.state) \/ panda.allowed
    \/ ctl.state = "preEnabled" /\ ~msg.alive

\* A device whose panda is gone goes offroad (thermald.py:37).
OffroadAfterDisconnect == ~car.plugged ~> (car.plugged \/ ~onroad)
=============================================================================
